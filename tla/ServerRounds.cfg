\* Three concurrent callers of one title: a normal round, a refresh round and
\* waiters, over list expiry and a restart.
SPECIFICATION Spec
CONSTANTS
    Key = {k1}
    HentaiKey = {}
    Provider = {"p1"}
    Critical = {"p1"}
    TokenBased = {}
    Late = {}
    Corroborating = {"p1"}
    Gated = {"p1"}
    Slot <- OneSlot
    Request = {r1, r2, r3}
    NoRequest = NoRequest
    ListTTL = 1
    IncompleteTTL = 1
    ProviderTTL = 1
    FanOutLifetime = 1
    MaxLists = 1
    MaxProviders = 1
    MaxTime = 1
INVARIANTS FlightsSound OwedSlotsServed
PROPERTIES CallsAnswered
