SPECIFICATION Spec
CONSTANTS
    a = a
    b = b
    Item = {a, b}
    Line = {"text", "error", "neither", "none"}
    Budgeted = {"none", "plain", "batch"}
    MaxSubmit = 2
    MaxRead = 3
INVARIANTS SubmitsOnce TerminalMeansEnded FetchIsComplete
CHECK_DEADLOCK FALSE
