\* A terminal comes and goes, and may stop reading, while the harness prints more than the ring holds.
CONSTANTS
    Terminals = {t1}
    Controls = {}
    Names <- BothNames
    NoLabel = NoLabel
    RingCap = 2
    QueueCap = 2
    MaxOutput = 3
    MaxDenials = 0
    MaxResizes = 1
    MaxStatus = 0
    AltStates <- EitherScreen
    FilterServed = FALSE
    SignalWaiter = FALSE
SPECIFICATION FairSpec
INVARIANTS QueueAccounted LiveOutputComplete
PROPERTIES ExitEndsSupervisor WedgedTerminalLeaves
