SPECIFICATION FairSpec
CONSTANTS
    NUnits = 2
    NStartup = 0
    NShutdown = 1
PROPERTIES
    StopAfterReadyIsGraceful
CHECK_DEADLOCK FALSE
