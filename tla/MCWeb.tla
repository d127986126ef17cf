-------------------------------- MODULE MCWeb --------------------------------
(***************************************************************************)
(* Two people for TLC: one of them is found from the other at degree two.  *)
(***************************************************************************)
EXTENDS WebClient, TLC

CONSTANTS p1, p2

MCPersonsOf == (p1 :> <<{p1}, {p1, p2}, {p1, p2}>>) @@ (p2 :> <<{p1, p2}, {p1, p2}, {p1, p2}>>)
=============================================================================
