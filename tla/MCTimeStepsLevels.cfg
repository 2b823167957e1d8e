SPECIFICATION Spec
CONSTANTS
    Studies <- Levels
    IterMaxi = 2
    NbIter = 3
    PasMini = 1
    MaxTours = 1
INVARIANT DepthBounded
CHECK_DEADLOCK FALSE
