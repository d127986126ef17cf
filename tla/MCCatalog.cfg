SPECIFICATION Spec
CONSTANTS
  Threads = {t1, t2}
  UserGraphs = {g1}
  Intel = intel
  Loads = {l1, l2}
  GraphFaults = TRUE
  MaxRestarts = 1
SYMMETRY Symmetry
INVARIANTS
    IndexFresh
    RegistryIsTrue
    EnsuredHasSchema
PROPERTIES
    DeletedStaysDeleted
CHECK_DEADLOCK FALSE
