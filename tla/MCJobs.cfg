\* Three workers race for two jobs; queries fail and workers die.
SPECIFICATION FairSpec
CONSTANTS
    j1 = j1
    j2 = j2
    w1 = w1
    w2 = w2
    w3 = w3
    Jobs = {j1, j2}
    Workers = {w1, w2, w3}
    NoWorker = NoWorker
    NoJob = NoJob
    Faults = TRUE
    Deaths = TRUE
    MaxClock = 1
INVARIANTS
    RunningHasWorker
PROPERTIES
    RunsOnceEach
    JobsEnd
\* Idle when every job is done, or when every worker is dead.
CHECK_DEADLOCK FALSE
