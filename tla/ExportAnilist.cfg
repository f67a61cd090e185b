SPECIFICATION Spec
CONSTANTS
    Provider = "anilist"
    Jobs = {"export"}
    Format = "POINT_100"
    Title = {"a", "b"}
    Total <- EveryTotal
    Ended = {}
    Noted <- NoTotal
    Entry = {"a", "b"}
    TitleOf <- Same
    EntryOf <- Same
    Last = 1
    Status = {"CURRENT", "COMPLETED"}
    Scores = {7}
    Remarks = {70}
    First <- Anything
    StatusColumn = TRUE
    FavoriteLimit = 2
    importExportCap = 2
    importMaxWatchRows = 1
    exportWriteCap = 2
    exportAniListBatchSize = 2
    maxAttempts = 2
    Upsets = {"supabase", "tracker", "anilist", "time", "cut"}
    MaxUpsets = 1
INVARIANTS NothingSilent
PROPERTIES NothingTakenAway
