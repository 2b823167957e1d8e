CONSTANTS
    g1 = g1
    g2 = g2
    v1 = v1
    Zero = Zero
    Data = Data
    Objects = {g1, g2, v1}
    Volatile = {v1}
    Values = {Zero, Data}
    Absent = Absent
    Empty = Empty
    NoImage = NoImage
    NoObject = NoObject
    Size <- MCSize
    Limits = {6}
    MaxMark = 2
    LgdInit = 2
    MaxLgd = 2
    LgpInit = 2
    DebugModes = {FALSE, TRUE}
SPECIFICATION Spec
INVARIANTS
    TypeOK
    CleanIsSaved
PROPERTIES
    InUseStays
    StoreSpec
SYMMETRY Sym
