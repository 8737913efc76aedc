SPECIFICATION EngineSpec
CONSTANTS
    MaxSpawn = 2
    MaxCommands = 2
    MaxEvents = 1
INVARIANT NoOrphanDaemon OneEventPump CarriedOutOnce
PROPERTY ReplacedOnlyWhenReady
CHECK_DEADLOCK FALSE
