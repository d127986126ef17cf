\* One evidence, two workers; a message comes again, or is lost, or the API restarts.
SPECIFICATION CelerySpec
CONSTANTS
    e1 = e1
    a1 = a1
    kA = kA
    Evidence = {e1}
    EntityIds = {a1}
    Keys = {kA}
    KeyOf <- MCKeyOfSingle
    HardKeys = {kA}
    Contents = {"text1"}
    ContentOf <- MCContentOfOne
    Threads = {t1, t2}
    Clients = {c1}
    NoEvidence = NoEvidence
    NoFact = NoFact
    Extractions <- MCOneKey
    Bands = {"accepted"}
    MaxProposals = 0
    MergeSuggestions = FALSE
    GraphFaults = FALSE
    MaxRetries = 1
    ForceDeletes = TRUE
    Restarts = FALSE
    BrokerFaults = TRUE
    MaxFaults = 1
INVARIANTS
    StrandedOnlyByLoss
    WrittenIsProjected
PROPERTIES
    ChainsEnd
\* The system is idle for good when nobody asks for anything.
CHECK_DEADLOCK FALSE
