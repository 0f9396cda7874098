\* Two callers of one Reader, of either scheme, on a medium that changes.
SPECIFICATION FairSpec
CONSTANTS
    c1 = c1
    c2 = c2
    Callers = {c1, c2}
    NoCaller = NoCaller
    MaxBufs = 6
    ChunkPlainSize = 2
    PlainSize = 3
    Calls <- MCCalls
INVARIANTS
    TypeOK
    CacheIsTrue
    LoadedOnce
PROPERTIES
    ImplementsPlainFile
