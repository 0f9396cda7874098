\* A chunk whose tags hold but whose content is wrong.
SPECIFICATION Spec
CONSTANTS
    FileGroupChunks = 2
    FileParityShards = 1
    DataShards = 2
    ParityShards = 1
    WindowCols = 2
    ChunkCount = 3
    LastUsed = 1
    VaultSpec <- MCSpecV2
    MaxRuns = 1
    MaxHits = 1
    MaxCorrupt = 1
PROPERTIES
    LostGroupsSkipped
\* no run may be left, and none is obliged to start
CHECK_DEADLOCK FALSE
