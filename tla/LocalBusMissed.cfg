SPECIFICATION Spec
CONSTANTS
    Subs = {s1}
    Callers = {c1}
    Publishers = {}
    Stoppers = {x1}
    StopOps = {"Close"}
    RepeatUnsubscribe = FALSE
    BufferSize = 1
    MaxGen = 1
    MaxMsgs = 0
    NoRef = NoRef
SYMMETRY Symmetry
INVARIANTS
    CloseLeavesNoWorker
CHECK_DEADLOCK FALSE
