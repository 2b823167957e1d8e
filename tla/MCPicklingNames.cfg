SPECIFICATION Spec
CONSTANTS
    Objects <- Names
    Kind <- KindOf
    Items <- ItemsOf
    StateOf <- States
    Fails = {"fun", "broken", "torn"}
    Protocol = 4
    Contexts <- AllContexts
INVARIANTS NamesGetTheirObjects
CHECK_DEADLOCK FALSE
