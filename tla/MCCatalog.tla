---- MODULE MCCatalog ----
\* GraphCatalog on a small instance; threads and loads are interchangeable.
EXTENDS GraphCatalog, TLC

Symmetry == Permutations(Threads) \cup Permutations(Loads)
====
