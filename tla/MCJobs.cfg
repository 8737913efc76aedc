\* A pool of one, two projects and the global slot: whichever of the two jobs
\* comes second waits in the queue.
CONSTANTS
    JobIds = {j1, j2}
    Projects = {p1, p2}
    Global = Global
    Limit = 1
SPECIFICATION FairSpec
INVARIANTS PoolSound ExclusiveOwner
PROPERTIES ImplementsBoard EveryJobEnds ShutdownCompletes
