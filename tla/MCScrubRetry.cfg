\* Two groups (2 + 1 chunks), damage of both kinds at any moment, two runs.
SPECIFICATION Spec
CONSTANTS
    FileGroupChunks = 2
    FileParityShards = 1
    DataShards = 2
    ParityShards = 1
    WindowCols = 2
    ChunkCount = 3
    LastUsed = 1
    VaultSpec <- MCSpecV2
    MaxRuns = 2
    MaxHits = 1
    MaxCorrupt = 1
INVARIANTS
    TypeOK
    ReportAddsUp
\* no run may be left, and none is obliged to start
CHECK_DEADLOCK FALSE
