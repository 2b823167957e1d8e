SPECIFICATION FairSpec
CONSTANTS
    N = 4
    Cmds = 1
    Colls = 3
    InSub <- Second
    Sub <- Pairs
    Large <- Everywhere
    AbortModes = {FALSE, TRUE}
    Catches = FALSE
    OutOfTime <- Empty
INVARIANTS Rendezvous MessagesAreCurrent EndTogether
PROPERTIES Terminates
CHECK_DEADLOCK FALSE
