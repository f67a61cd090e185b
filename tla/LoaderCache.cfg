SPECIFICATION Spec
CONSTANTS
    Caller = {c1, c2}
    Key = {k1, k2}
    TTL = 1
    FreshTTL = 1
    MaxEntries = 1
    Horizon = 1
INVARIANTS Consistent
PROPERTIES KeepsPromise Answered
