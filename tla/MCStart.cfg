SPECIFICATION StartSpec
CONSTANTS
    Home <- TheHome
    Workspace <- TheWorkspace
    Binary <- TheBinary
    InnerExe <- TheInnerExe
    DriveLetters <- Letters
    Profiles <- SmallProfiles
    Machines <- SmallMachines
    Kinds <- SmallKinds
    Calls <- SmallCalls
    LinkPath <- TheLink
    LinkTargets <- Targets
    FilePaths <- Files
    BinaryIsLink = TRUE
    MaxFaults = 1
    MaxMoves = 1
INVARIANT ReadyMeansConfined VerdictAsIntended NamespaceAsPlanned
PROPERTY FailureLeavesNothing DeniedCallIsAnswered
CHECK_DEADLOCK FALSE
