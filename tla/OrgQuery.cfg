CONSTANTS
    MaxInt = 7
    Second = 2
    DefaultMaxExecutionTime = 2
    DefaultMaxOpenConns = 1
    DefaultMaxResultRows = 2
    DefaultMaxBytesToRead = 4
    Call = {"c1", "c2"}
    Options <- MCOptions
    Inputs <- MCInputs
    MaxRows = 2
SPECIFICATION Spec
INVARIANTS ReturnsReleasedAndWhole ClassTellsTheCause
PROPERTIES CallsReturn
CHECK_DEADLOCK FALSE
