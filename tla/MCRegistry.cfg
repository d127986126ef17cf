\* Two evidences that share entities, two workers, a retry and forced deletes.
SPECIFICATION Spec
CONSTANTS
    e1 = e1
    e2 = e2
    a1 = a1
    a2 = a2
    b1 = b1
    kA = kA
    kB = kB
    Evidence = {e1, e2}
    EntityIds = {a1, b1}
    Keys = {kA, kB}
    KeyOf <- MCKeyOfTwo
    HardKeys = {kA}
    Contents = {"text1", "text2"}
    ContentOf <- MCContentOf
    Threads = {t1, t2}
    Clients = {c1}
    NoEvidence = NoEvidence
    NoFact = NoFact
    Extractions <- MCTwoKeys
    Bands = {"accepted"}
    MaxProposals = 0
    MergeSuggestions = FALSE
    GraphFaults = FALSE
    MaxRetries = 1
    ForceDeletes = TRUE
    Restarts = FALSE
INVARIANTS
    DeleteCleansGraph
    EdgesKeepTheirEnds
    SupportedEntityStays
    WrittenIsProjected
\* Two things that the code does not keep from happening, and all of this fails then.
CONSTRAINT MergesApart
ACTION_CONSTRAINT DeletesFindNoRun
\* The system is idle for good when nobody asks for anything.
CHECK_DEADLOCK FALSE
