\* Two entities with relationships, merge suggestions and inferences, in every
\* confidence band; no retries and no graph faults.
SPECIFICATION Spec
CONSTANTS
    e1 = e1
    e2 = e2
    a1 = a1
    a2 = a2
    b1 = b1
    kA = kA
    kB = kB
    Evidence = {e1}
    EntityIds = {a1, a2, b1}
    Keys = {kA, kB}
    KeyOf <- MCKeyOf
    HardKeys = {kA}
    Contents = {"text1"}
    ContentOf <- MCContentOfOne
    Threads = {t1}
    Clients = {c1}
    NoEvidence = NoEvidence
    NoFact = NoFact
    Extractions <- MCTwoKeys
    Bands = {"accepted", "in_review", "rejected"}
    MaxProposals = 2
    MergeSuggestions = TRUE
    GraphFaults = FALSE
    MaxRetries = 0
    ForceDeletes = FALSE
    Restarts = FALSE
INVARIANTS
    GraphIsGrounded
    AtMostOneLeftOut
PROPERTIES
    DecisionsStick
\* The system is idle for good when nobody asks for anything.
CHECK_DEADLOCK FALSE
