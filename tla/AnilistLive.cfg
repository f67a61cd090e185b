SPECIFICATION Spec
CONSTANTS
    Call = {c1, c2}
    Query = {q1}
    NoCall = NoCall
    NoQuery = NoQuery
    FreshTTL = 1
    CacheTTL = 1
    JanitorPeriod = 1
    MaxEntries = 0
    MaxRetries = 1
    FailureThreshold = 1
    SuccessThreshold = 2
    Timeout = 1
    Burst = 1
    LocalMirror = FALSE
PROPERTIES CallsDrain CircuitRecovers
