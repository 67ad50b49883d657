CONSTANTS
    Request <- MCRequest
    Calls <- MCCalls
    Document <- MCDocument
    Key = {"k1", "k2", "*"}
    MaxBatch = 2
SPECIFICATION Spec
INVARIANTS AllowIsOfItsRequest ActsWithinGrant 
PROPERTIES CallReturns
CHECK_DEADLOCK FALSE
