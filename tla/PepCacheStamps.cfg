SPECIFICATION Spec
CONSTANTS
    k1 = k1  k2 = k2  c1 = c1  c2 = c2
    Key = {k1, k2}
    Caller = {c1, c2}
    MaxEntries = 1
    MaxTTL = 2
    Batches <- NoBatches
    Revision = {1}
    Lifetime = {1, 3}
    MaxNow = 2
    MaxCalls = 3
    MaxFlushes = 1
SYMMETRY Symmetric
INVARIANT Bookkeeping
INVARIANT OvertakenCallsAreRefused
PROPERTY ImplementsPromise
CHECK_DEADLOCK FALSE
