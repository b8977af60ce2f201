SPECIFICATION FairSpec
CONSTANTS
    Subs = {s1}
    Callers = {c1, c2}
    Publishers = {p1}
    Stoppers = {x1}
    StopOps = {"Close", "Drain"}
    RepeatUnsubscribe = FALSE
    BufferSize = 1
    MaxGen = 2
    MaxMsgs = 1
    NoRef = NoRef
INVARIANTS
    AwaitedAreStopped
PROPERTIES
    StopReturns
    PublishReturns
    AcceptedIsHandled
CHECK_DEADLOCK FALSE
