CONSTANTS
    g1 = g1
    g2 = g2
    v1 = v1
    Zero = Zero
    Data = Data
    Objects = {g1, v1}
    Volatile = {v1}
    Values = {Zero}
    Absent = Absent
    Empty = Empty
    NoImage = NoImage
    NoObject = NoObject
    Size <- MCSize
    Limits = {8}
    MaxMark = 3
    LgdInit = 1
    MaxLgd = 4
    LgpInit = 4
    DebugModes = {FALSE}
SPECIFICATION Spec
INVARIANTS
    DesmaIsLongEnough
