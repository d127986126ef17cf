\* Chunks of eight characters: the smallest size with an overlap.
SPECIFICATION FairSpec
CONSTANTS
    Texts <- MCTexts
    ChunkChars = 8
    MaxDepth = 1
    MinPart = 2
    Names = {"A"}
    Invalid = {}
    MaxNames = 1
PROPERTIES
    ExtractionEnds
\* extract() has returned or raised.
CHECK_DEADLOCK FALSE
