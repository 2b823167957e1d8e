CONSTANTS
    g1 = g1
    g2 = g2
    v1 = v1
    Zero = Zero
    Data = Data
    Objects = {g1, v1}
    Volatile = {v1}
    Values = {Zero}
    Absent = Absent
    Empty = Empty
    NoImage = NoImage
    NoObject = NoObject
    Size <- MCSize
    Limits = {5, 9}
    MaxMark = 4
    LgdInit = 1
    MaxLgd = 2
    LgpInit = 1
    DebugModes = {FALSE}
SPECIFICATION FairSpec
INVARIANTS
    SlotsAgree
    ClaimPinned
    NothingLeftInUse
    MemoryBounded
PROPERTIES
    ErrorEnds
