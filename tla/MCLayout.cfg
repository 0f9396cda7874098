\* The layout arithmetic on groups of 5 chunks with up to 4 parity blobs.
SPECIFICATION GrowthSpec
CONSTANTS
    FileGroupChunks = 5
    FileParityShards = 4
    GrowthSpecs <- MCSpecs
    MaxChunks = 26
INVARIANTS
    BlobsDisjoint
    BlobsFillFile
PROPERTIES
    SettledBlobsStay
\* the run ends when the vault has MaxChunks chunks
CHECK_DEADLOCK FALSE
