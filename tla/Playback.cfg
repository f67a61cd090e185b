SPECIFICATION Spec
CONSTANTS
    Host = {"listed", "edge", "legs", "segs"}
    Listed = {"listed"}
    Nuisance = {}
    HostTTL = 1
    MaxDynamicEntries = 2
    Proc = {p1, p2}
    Url = {"master", "leg", "live", "long", "huge", "key", "bit", "seg"}
    Page <- MCPage
    FillCap = 1
    PlaylistTTL = 0
    KeyTTL = 1
    MaxPlaylists = 1
    Scene <- MCScene
    ResolveTTL = 0
    ShowTTL = 2
    StrictResolveTTL = 1
    MaxEntries = 2
    ProbeMin = 1
    BasePause = 1
    MaxPause = 2
    MaxStrikes = 1
INVARIANTS PlaylistsSound RightEpisode
PROPERTIES Vouched FillsEnd SitesReturn MistakesEnd
