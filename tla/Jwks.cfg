\* Two calls for two key ids, over rotations, failed refreshes, the cooldown
\* and the end of a key set's life.
SPECIFICATION JwksSpec
CONSTANTS
    Caller = {c1, c2}
    Kid = {a, b}
    Nobody = Nobody
    Background = Background
    TTL = 2
    MinInterval = 2
    FetchTimeout = 1
    MaxTime = 3
INVARIANTS OneRefresh RotationVisible
PROPERTIES GetKeyReturns
