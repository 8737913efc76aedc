\* A daemon crash, a rename and a terminal coming and going.
CONSTANTS
    Names <- NoNames
    NoLabel = NoLabel
    Label = Label
    MaxRenames = 1
    MaxAttaches = 1
    MaxCrashes = 1
SPECIFICATION FairSpec
INVARIANTS ShownEndIsLogged RemoveNeverUnderAgent LostMeansOver RunningIsReachable
PROPERTIES WatchedSessionEnds ScanFinalises
