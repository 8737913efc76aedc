\* The daemon's control client, whose queue the event stream can fill, while three threads log; the harness may ignore all but SIGKILL.
CONSTANTS
    Terminals = {}
    Controls = {c1}
    Names <- BothNames
    NoLabel = NoLabel
    RingCap = 1
    QueueCap = 2
    MaxOutput = 0
    MaxDenials = 0
    MaxResizes = 0
    MaxStatus = 1
    AltStates <- MainScreen
    FilterServed = TRUE
    SignalWaiter = FALSE
SPECIFICATION FairSpec
INVARIANT ControlSeesLog
PROPERTY StopEndsSession
