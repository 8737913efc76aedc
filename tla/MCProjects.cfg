SPECIFICATION Spec
CONSTANTS
    Ids = {p1}
    Sources = {A, B}
    Commits = {c0, c1}
    Root = c0
    Names = {n}
    Profiles = {plain, tight}
    Default = plain
    MaxCalls = 4
    MaxMoves = 1
    MaxCrashes = 1
SYMMETRY SourcePerms
INVARIANT PresenceDescribesItsSource ReadyWasSetUp PreparingHasAWorker
PROPERTY HandTableKept WorkspaceKeepsCommits
CHECK_DEADLOCK FALSE
