SPECIFICATION Spec
CONSTANTS
    p1 = p1
    p2 = p2
    gros = gros
    Values = {v1, v2}
    Usadi = usadi
    Acce = acce
    Objects = {p1, p2, gros, usadi, acce}
    NoImage = NoImage
    Garbage = Garbage
    Libre = Libre
    Petits = Petits
    Mort = Mort
    Nowhere = Nowhere
    Lso <- Lengths
    Lois = 2
    W = 16
    NbMax = 2
    NbFile = 4
    MaxRec = 4
    NbLim = 1
    Classes = {"G", "V"}
INVARIANTS PlacesAreKept RecordsAreChains BuffersAgree ReadsLastWritten
SYMMETRY Sym
