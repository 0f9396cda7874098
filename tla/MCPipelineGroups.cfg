\* Two groups of two chunks, two workers, one failure.
SPECIFICATION ApartSpec
CONSTANTS
    w1 = w1
    w2 = w2
    b1 = b1
    b2 = b2
    b3 = b3
    b4 = b4
    b5 = b5
    b6 = b6
    Workers = {w1, w2}
    Bufs = {b1, b2, b3, b4}
    NoBuf = NoBuf
    EncodeCap = 2
    OutCap = 2
    ParCap = 2
    FileGroupChunks = 2
    FileParityShards = 1
    Windows = 2
    ChunkPlainSize = 2
    PipeSpecs <- BothVersions
    MaxBytes = 7
    MaxFaults = 1
SYMMETRY Interchangeable
INVARIANTS
    TypeOK
    ChunksConserved
    BuffersIntact
    ParityCoversGroup
    CommitMeansAll
    CompleteIfApart
