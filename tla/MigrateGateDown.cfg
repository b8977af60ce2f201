SPECIFICATION FairSpec
CONSTANTS
    Replicas = {r1, r2}
    MaxVersion = 2
    GateBuilds = {2}
    DownBuilds = {1}
    MaxStarts = 2
    NoOne = NoOne
    Ghost = Ghost
PROPERTIES
    DownTakesHighest
CHECK_DEADLOCK FALSE
