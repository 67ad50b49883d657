SPECIFICATION Spec
CONSTANTS
    c1 = c1
    c2 = c2
    Caller = {c1, c2}
    Margin = 1
    FracNum = 1
    FracDen = 2
    BackoffFloor = 1
    BackoffCeiling = 3
    Answer <- Answers
    MaxNow = 5
    MaxCalls = 4
    MaxInvalidates = 1
INVARIANTS SingleFlight
PROPERTIES ReturnsWhatIsUsable BackoffSpaced CallsReturn
CHECK_DEADLOCK FALSE
