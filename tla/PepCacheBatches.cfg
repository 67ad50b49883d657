SPECIFICATION Spec
CONSTANTS
    k1 = k1  k2 = k2  c1 = c1  c2 = c2
    Key = {k1, k2}
    Caller = {c1, c2}
    MaxEntries = 2
    MaxTTL = 9
    Batches <- BatchesOfTwo
    Revision = {1, 2}
    Lifetime = {9}
    MaxNow = 0
    MaxCalls = 3
    MaxFlushes = 0
SYMMETRY Symmetric
INVARIANT BatchNeverMixesRevisions
CHECK_DEADLOCK FALSE
