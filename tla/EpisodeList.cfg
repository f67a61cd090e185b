SPECIFICATION Spec
CONSTANTS
    Title <- EveryTitle
    SeasonKey <- MCSeasonKey
    BodyTTL = 1
    AniListFresh = 2
    AniListKept = 3
    EpisodeTTL = 1
    EntryTTL = 2
    FreshTTL = 1
    LongTTL = 3
    Assumed = 2
    MaxOutages = 1
    MaxDown = 2
INVARIANTS TypeOK RightEpisode
PROPERTIES FoundRight AiredListed Healed
CHECK_DEADLOCK FALSE
