\* One group of at most three chunks, two workers, one failure, fair
\* scheduling; no symmetry, for the sake of the temporal properties.
SPECIFICATION FairSpec
CONSTANTS
    w1 = w1
    w2 = w2
    b1 = b1
    b2 = b2
    b3 = b3
    b4 = b4
    b5 = b5
    b6 = b6
    Workers = {w1, w2}
    Bufs = {b1, b2, b3}
    NoBuf = NoBuf
    EncodeCap = 2
    OutCap = 2
    ParCap = 2
    FileGroupChunks = 3
    FileParityShards = 2
    Windows = 2
    ChunkPlainSize = 2
    PipeSpecs <- AllVersions
    MaxBytes = 6
    MaxFaults = 1
INVARIANTS
    VaultComplete
PROPERTIES
    TrailerIsLast
    CallsReturn
    ImplementsVaultWriter
