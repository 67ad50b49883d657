SPECIFICATION Spec
CONSTANTS
    c1 = c1
    c2 = c2
    Caller = {c1, c2}
    Margin = 1
    FracNum = 1
    FracDen = 2
    BackoffFloor = 1
    BackoffCeiling = 3
    Answer <- OneAnswer
    MaxNow = 2
    MaxCalls = 3
    MaxInvalidates = 1
SYMMETRY Symmetric
INVARIANT InvalidateForcesExchange
CHECK_DEADLOCK FALSE
