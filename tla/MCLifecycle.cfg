\* One evidence, two requests at a time, every fault and restart.
SPECIFICATION FairSpec
CONSTANTS
    e1 = e1
    e2 = e2
    a1 = a1
    a2 = a2
    b1 = b1
    kA = kA
    kB = kB
    Evidence = {e1}
    EntityIds = {a1, a2}
    Keys = {kA}
    KeyOf <- MCKeyOfAlone
    HardKeys = {kA}
    Contents = {"text1"}
    ContentOf <- MCContentOfOne
    Threads = {t1, t2}
    Clients = {c1, c2}
    NoEvidence = NoEvidence
    NoFact = NoFact
    Extractions <- MCOneKey
    Bands = {"accepted", "in_review"}
    MaxProposals = 0
    MergeSuggestions = FALSE
    GraphFaults = TRUE
    MaxRetries = 2
    ForceDeletes = TRUE
    Restarts = TRUE
INVARIANTS
    TypeOK
    OneRunUntilOver
    ReviewMatchesFact
PROPERTIES
    RefinesLifecycle
    StopStands
\* What is said of runs holds where no two retries overlap.
CONSTRAINT RetriesAlone
\* The system is idle for good when nobody asks for anything.
CHECK_DEADLOCK FALSE
