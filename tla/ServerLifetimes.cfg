\* One caller, two titles (one behind the content gate), long enough for every
\* lifetime to end and for restarts to restore live and expired entries.
SPECIFICATION Spec
CONSTANTS
    Key = {k1, k2}
    HentaiKey = {k2}
    Provider = {"p1", "p2"}
    Critical = {"p1"}
    TokenBased = {"p2"}
    Late = {"p2"}
    Corroborating = {"p1"}
    Gated = {"p2"}
    Slot <- OneSlotEach
    Request = {r1}
    NoRequest = NoRequest
    ListTTL = 2
    IncompleteTTL = 1
    ProviderTTL = 2
    FanOutLifetime = 1
    MaxLists = 1
    MaxProviders = 2
    MaxTime = 3
INVARIANTS TypeOK TokensDieWithProcess CachesBounded
PROPERTIES LiveListsKeepSlots
