SPECIFICATION StaleSpec
CONSTANTS
    None = None
    Ids <- MCIds
    IdRank <- MCIdRank
    Texts <- MCTexts
    Stem <- MCStem
    BadNames = {"y"}
    Procs = {p}
    Urls <- MCUrls
    RawConfigs <- MCRawConfigs
    Dirname <- MCDirname
    Default = "main"
    Branches = {"main"}
    Tags = {"v1"}
    Revs = {"c0ffee"}
    Bare = {}
    Moving = {"u1"}
    Offline = FALSE
    MaxPush = 1
    MaxDeaths = 0
    MaxRuns = 2
INVARIANT FreshInstall
CHECK_DEADLOCK FALSE
