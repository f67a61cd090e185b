SPECIFICATION Spec
CONSTANTS
    Show = {s1}
    Episodes = 2
    Period = 4
    FirstDelay = 2
    Retry = 1
    GiveUp = 3
    Window = 3
    SeenWindow = 3
    Retention = 2
    Missing = {}
    MaxRows = 3
    MaxUpsets = 1
    Upsets = {"restart", "supabase", "anilist", "providers", "bookmarks"}
INVARIANTS TypeOK AtMostTwice AiredPursued ProbingEnds

