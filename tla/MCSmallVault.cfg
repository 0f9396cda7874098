\* Vaults of 0 to 2 bytes; two faults.
SPECIFICATION Spec
CONSTANTS
    HeaderSize = 2
    GCMHeaderSize = 1
    TagSize = 1
    KStrong = 3
    MStrong = 2
    Symbols = {0, 1, 2, 3, 4}
    Bad = Bad
    Sealed = Sealed
    TrailerHead = TrailerHead
    TrailerEnd = TrailerEnd
    Code <- MCCode
    Written <- MCWritten
    Misplaced = {0, 4}
    MaxPlain = 2
    MaxFaults = 2
INVARIANTS
    TypeOK
    OpensOnlyWhole
    VaultSurvives
    MarginHolds
    ReportIsTrue
    RepairsAreTrue
PROPERTIES
    ScrubDoesNoHarm
\* a vault may be left alone, and the faults are bounded
CHECK_DEADLOCK FALSE
