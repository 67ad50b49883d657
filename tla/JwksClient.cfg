SPECIFICATION Spec
CONSTANTS
    c1 = c1
    c2 = c2
    k1 = k1
    k2 = k2
    p = p
    q = q
    Document <- Documents
    FirstDocument <- FirstDocuments
    MaxKeys = 1
    Caller = {c1, c2}
    Kid = {k1}
    CacheTTL = 2
    RefreshFloor = 1
    OutageGrace = 1
    Timeout = 1
    MaxNow = 4
    MaxCalls = 3
    MaxRotations = 1
INVARIANTS SingleFetch KeysThroughOutage KeysAreOneDocument
PROPERTY CallsReturn
CHECK_DEADLOCK FALSE
