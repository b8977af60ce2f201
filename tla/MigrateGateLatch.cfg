SPECIFICATION FairSpec
CONSTANTS
    Replicas = {r1, r2}
    MaxVersion = 1
    GateBuilds = {1}
    DownBuilds = {}
    MaxStarts = 2
    NoOne = NoOne
    Ghost = Ghost
PROPERTIES
    FailedLatches
CHECK_DEADLOCK FALSE
