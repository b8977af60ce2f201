SPECIFICATION FairSpec
CONSTANTS
    Replicas = {r1, r2}
    MaxVersion = 2
    GateBuilds = {1, 2}
    DownBuilds = {2}
    MaxStarts = 3
    NoOne = NoOne
    Ghost = Ghost
INVARIANTS
    TypeOK
    LeaderHoldsLock
    NoGaps
    ConfirmedAtHead
    LockReleased
PROPERTIES
    GateReturns
CHECK_DEADLOCK FALSE
