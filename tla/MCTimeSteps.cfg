SPECIFICATION FairSpec
CONSTANTS
    Studies <- AllStudies
    IterMaxi = 2
    NbIter = 3
    PasMini = 2
    MaxTours = 1
INVARIANTS StartsFromAccepted AcceptedIsConverged StoredAreAccepted UserInstantsReached
PROPERTIES Termination
CHECK_DEADLOCK FALSE
