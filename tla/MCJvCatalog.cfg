SPECIFICATION FairSpec
CONSTANTS
    na = na
    nb = nb
    nc = nc
    Names = {na, nb, nc}
    Types = {I}
    NoType = NoType
    Erased = Erased
    Unknown = Unknown
    nbcla = 2
    Code <- Codes
    NrepInit <- Sizes
    jprem <- Primes
    MaxNames = 2
INVARIANTS TypeOK SearchIsRight LastIsFresh RebuildSucceeds
PROPERTIES NamesSpec CreationEnds
