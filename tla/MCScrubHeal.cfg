\* One v3 group of three chunks with two parity blobs.
SPECIFICATION Spec
CONSTANTS
    FileGroupChunks = 3
    FileParityShards = 2
    DataShards = 2
    ParityShards = 1
    WindowCols = 2
    ChunkCount = 3
    LastUsed = 1
    VaultSpec <- MCSpecV3
    MaxRuns = 1
    MaxHits = 3
    MaxCorrupt = 0
INVARIANTS
    NothingForged
    ScrubHeals
    UnreadableIsReported
    VaultSurvives
PROPERTIES
    RepairDoesNoHarm
\* no run may be left, and none is obliged to start
CHECK_DEADLOCK FALSE
