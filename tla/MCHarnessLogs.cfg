SPECIFICATION LogsSpec
CONSTANTS
    Sessions = {a, b}
    None = None
    Counts <- TwoCounts
    SideCounts <- OneCount
    TAIL_BYTES = 2
    HEAD_BYTES = 2
    MAX_U64 = 9
    ContextWindow = 4
    MaxTime = 1
    MaxLines = 3
    MaxRestarts = 1
SYMMETRY Perms
INVARIANTS UsageIsOwn LatestTitleIsOwn
CHECK_DEADLOCK FALSE
