\* Chunks of four characters (no overlap), parts halved twice at most.
SPECIFICATION FairSpec
CONSTANTS
    Texts <- MCTexts
    ChunkChars = 4
    MaxDepth = 2
    MinPart = 3
    Names = {"A", "B"}
    Invalid = {"B"}
    MaxNames = 2
INVARIANTS
    NothingSkipped
    MergeIsSound
PROPERTIES
    ExtractionEnds
\* extract() has returned or raised.
CHECK_DEADLOCK FALSE
