CONSTANTS
    Res = 2
    Ceiling <- MCCeiling
    Leeway = 1
    Kid = {"k1", "k2", "k3"}
    Denied = {"k3"}
    Token <- MCToken
    MaxNow = 15
    MaxKeyChanges = 2
SPECIFICATION VerifySpec
INVARIANTS ClassesDisjoint
PROPERTIES AcceptedSpanBounded RefusedOnlyForCause
