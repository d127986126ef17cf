\* One evidence, two requests at a time, overlapping retries, restarts: what is started ends.
SPECIFICATION FairSpec
CONSTANTS
    e1 = e1
    e2 = e2
    a1 = a1
    a2 = a2
    b1 = b1
    kA = kA
    kB = kB
    Evidence = {e1}
    EntityIds = {a1}
    Keys = {kA}
    KeyOf <- MCKeyOfSingle
    HardKeys = {kA}
    Contents = {"text1"}
    ContentOf <- MCContentOfOne
    Threads = {t1, t2}
    Clients = {c1, c2}
    NoEvidence = NoEvidence
    NoFact = NoFact
    Extractions <- MCOneKey
    Bands = {"accepted"}
    MaxProposals = 0
    MergeSuggestions = FALSE
    GraphFaults = FALSE
    MaxRetries = 2
    ForceDeletes = TRUE
    Restarts = TRUE
INVARIANTS
    NoneStranded
PROPERTIES
    EverythingEnds
\* The system is idle for good when nobody asks for anything.
CHECK_DEADLOCK FALSE
