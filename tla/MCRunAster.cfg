CONSTANTS
    N = 2
    None = None
    Torn = Torn
    Marks <- MCMarks
    Expected <- MCExpected
SPECIFICATION Spec
INVARIANTS TypeOK CompletedCanRestart RestoredIsLastGood CanRestartMeansOneSave StateIsOfAll
PROPERTIES Termination
CHECK_DEADLOCK FALSE
