SPECIFICATION TerminalSpec
CONSTANTS
    OSC_ID_CAP = 5
    CSI_CAP = 6
    U32_MAX = 999
    Sessions = {a, b}
    Tabs = {tab}
    Hosts = {h1, h2}
    Tokens <- SmallTokens
    Keys <- SmallKeys
    Sizes = {3}
    Reasons = {"exit_0"}
    ReadSizes = {7, 99}
    MAX_PAYLOAD = 5
    RingCap = 3
    MaxMoves = 3
INVARIANT ScreenIsWhatWasDrawn InputIsWhatWasGiven LeaveIsHonest
SYMMETRY Perms
CHECK_DEADLOCK FALSE
