SPECIFICATION PluginsSpec
CONSTANTS
    Settings <- SmallSettings
    Markdown <- SmallMarkdown
    Pieces <- SmallPieces
    MaxRequests = 2
    MaxEdits = 1
    MaxFaults = 1
    Racing = FALSE
INVARIANT NothingLostByApply ApplyConverges
PROPERTY SyncKeepsCommits
CHECK_DEADLOCK FALSE
