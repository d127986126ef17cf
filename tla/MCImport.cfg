SPECIFICATION Spec
CONSTANTS
  Imports = {i1, i2}
  Files <- MCFiles
  Facts <- MCFacts
  KindOf <- MCKindOf
  NameOf <- MCNameOf
  SampleRows = 4
  BatchSize = 2
  MaxDelay = 4
  Faults = TRUE
INVARIANTS
    GraphIsSound
    ReportAddsUp
    NothingSilentlyLost
PROPERTIES
    ImportsEnd
CHECK_DEADLOCK FALSE
