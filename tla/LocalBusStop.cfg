SPECIFICATION FairSpec
CONSTANTS
    Subs = {s1}
    Callers = {c1, c2}
    Publishers = {p1}
    Stoppers = {x1}
    StopOps = {"Close", "Drain"}
    RepeatUnsubscribe = FALSE
    BufferSize = 1
    MaxGen = 1
    MaxMsgs = 2
    NoRef = NoRef
INVARIANTS
    TypeOK
    PerPublisherOrder
    DrainHandlesQueued
    AwaitedAreStopped
PROPERTIES
    CloseWaitsForWorkers
    PublishReturns
    AcceptedIsHandled
CHECK_DEADLOCK FALSE
