\* Three chunks of one group lose slots in different windows.
SPECIFICATION Spec
CONSTANTS
    FileGroupChunks = 3
    FileParityShards = 2
    DataShards = 3
    ParityShards = 1
    WindowCols = 2
    ChunkCount = 3
    LastUsed = 1
    VaultSpec <- MCSpecV2
    MaxRuns = 1
    MaxHits = 3
    MaxCorrupt = 0
INVARIANTS
    LostIsUnreadable
\* no run may be left, and none is obliged to start
CHECK_DEADLOCK FALSE
