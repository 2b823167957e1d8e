SPECIFICATION Spec
CONSTANTS
    Pool <- TwoNumbers
    Others = {}
    Files = {f}
    Empty = Empty
    Unused = Unused
    None = None
    Types = {"A", "B"}
    Accesses = {"N", "A"}
    Handles = {h1, h2}
    mxf = 3
    MaxStuck = 1
    MaxOutside = 2
SYMMETRY Holders
INVARIANTS NumbersAreKept UnitsAgree
PROPERTIES HandleKeepsItsFile
CHECK_DEADLOCK FALSE
