CONSTANTS
    Skills = {"a", "b"}
    Root = "a"
    Releases <- Offered
    Signed <- OfferedSigned
    HistoryMax = 1
    InlineMax = 1
    StalePolicy = "warn"
    MaxCommands = 2
    CatalogKeys = {"ai_index", "distributions"}
    LastUpstream = 3
    LastSnapshot = 1
    DataFiles = {"f1", "f2"}
    LastEdit = 2
    Artifacts = {"a1"}
    KeepLast = 1
    LastBackup = 3
    Contents = {1, 2}
    LastCommit = 2
    LastTag = 2
    LastAttempt = 2
    LastFault = 1
    WaivedRules = {}
    Policies <- SigningPolicies
SPECIFICATION Spec
INVARIANTS SyncIsSafe ReleasesAreAttested
PROPERTIES InstallIsSafe SnapshotsAreSafe BackupsAreSafe
CHECK_DEADLOCK FALSE
