\* A second group: parity of the first is written while data goes on.
SPECIFICATION Spec
CONSTANTS
    w1 = w1
    w2 = w2
    b1 = b1
    b2 = b2
    b3 = b3
    b4 = b4
    b5 = b5
    b6 = b6
    Workers = {w1}
    Bufs = {b1, b2, b3}
    NoBuf = NoBuf
    EncodeCap = 2
    OutCap = 2
    ParCap = 2
    FileGroupChunks = 2
    FileParityShards = 1
    Windows = 2
    ChunkPlainSize = 2
    PipeSpecs <- V2Only
    MaxBytes = 6
    MaxFaults = 0
SYMMETRY Interchangeable
INVARIANTS
    VaultComplete
