\* Verify, then Scrub of the same file.
SPECIFICATION Spec
CONSTANTS
    FileGroupChunks = 2
    FileParityShards = 1
    DataShards = 2
    ParityShards = 1
    WindowCols = 2
    ChunkCount = 3
    LastUsed = 1
    VaultSpec <- MCSpecV2
    MaxRuns = 2
    MaxHits = 2
    MaxCorrupt = 0
INVARIANTS
    VerifyPredictsScrub
\* no run may be left, and none is obliged to start
CHECK_DEADLOCK FALSE
