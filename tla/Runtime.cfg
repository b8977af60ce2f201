SPECIFICATION FairSpec
CONSTANTS
    NUnits = 3
    NStartup = 1
    NShutdown = 2
INVARIANTS
    ServingMeansAllReady
    ShutdownComplete
PROPERTIES
    ServeGoroutineEnds
CHECK_DEADLOCK FALSE
