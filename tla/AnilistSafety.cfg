SPECIFICATION Spec
CONSTANTS
    Call = {c1, c2, c3}
    Query = {q1}
    NoCall = NoCall
    NoQuery = NoQuery
    FreshTTL = 1
    CacheTTL = 2
    JanitorPeriod = 2
    MaxEntries = 1
    MaxRetries = 0
    FailureThreshold = 1
    SuccessThreshold = 1
    Timeout = 1
    Burst = 1
    LocalMirror = TRUE
INVARIANTS WaitersFollowFetch StaleBounded
SYMMETRY Interchangeable
