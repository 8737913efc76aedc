\* Both filters refuse calls around the exit, which a signal may bring about.
CONSTANTS
    Terminals = {}
    Controls = {}
    Names <- BothNames
    NoLabel = NoLabel
    RingCap = 1
    QueueCap = 1
    MaxOutput = 0
    MaxDenials = 3
    MaxResizes = 0
    MaxStatus = 0
    AltStates <- MainScreen
    FilterServed = TRUE
    SignalWaiter = TRUE
SPECIFICATION Spec
INVARIANT DenialsReachTheExit
