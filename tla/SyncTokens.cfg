SPECIFICATION Spec
CONSTANTS
    User = {u, v}
    Provider = {mal, anilist}
    Request = {r1, r2}
    State = {s1}
    MaxGrants = 3
    TTL = 0
    Active = {u}
    Kinds = {"connect", "disconnect", "update", "job"}
    Upsets = {"supabase", "tracker", "restart"}
    MaxUpsets = 1
INVARIANTS OwnTokens StaysConnected StatesEnd
CHECK_DEADLOCK FALSE
SYMMETRY Symmetry
