SPECIFICATION Spec
CONSTANTS
    Provider = "mal"
    Jobs = {"import", "export"}
    Format = ""
    Title = {"t"}
    Total <- OneTotal
    Ended = {}
    Noted <- NoTotal
    Entry = {"m", "w"}
    TitleOf <- Mapped
    EntryOf <- MappedBack
    Last = 2
    Status = {"CURRENT", "PLANNING", "COMPLETED"}
    Scores = {0, 7}
    Remarks = {0, 4}
    First <- OneTwin
    StatusColumn = TRUE
    FavoriteLimit = 500
    importExportCap = 150
    importMaxWatchRows = 1
    exportWriteCap = 60
    exportAniListBatchSize = 10
    maxAttempts = 4
    Upsets = {"supabase", "tracker", "anilist", "time", "cut", "long"}
    MaxUpsets = 1
INVARIANTS ImportSettles
PROPERTIES LocalKept RaisedByPlayer
