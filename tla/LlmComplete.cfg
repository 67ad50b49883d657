SPECIFICATION Spec
INVARIANTS OneJustifiedRetry BudgetHolds ReportsWhatHappened SchemaAsGiven
CONSTANTS
    Conf <- AllConf
    Caps = {1}
    Limit = 4
    Code = {400, 401, 429, 500}
    Word = {"quota", "rate"}
    Reply <- AllReplies
    Value <- Values
    SchemaMisfit <- Misfit
    MaxOptionalParameters = 1
    MaxUnionParameters = 1
    MaxDepth = 3
CHECK_DEADLOCK FALSE
