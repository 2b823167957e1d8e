SPECIFICATION FairSpec
CONSTANTS
    Objects <- Names
    Kind <- KindOf
    Items <- ItemsOf
    StateOf <- States
    Fails = {"fun", "broken", "torn"}
    Protocol = 4
    Contexts <- SomeContexts
INVARIANTS TidyIsRestored StructuresAreWhole
PROPERTIES LoadEnds
CHECK_DEADLOCK FALSE
