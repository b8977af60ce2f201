SPECIFICATION Spec
CONSTANTS
    Subs = {s1}
    Callers = {c1, c2}
    Publishers = {}
    Stoppers = {x1}
    StopOps = {"Drain"}
    RepeatUnsubscribe = FALSE
    BufferSize = 1
    MaxGen = 2
    MaxMsgs = 0
    NoRef = NoRef
SYMMETRY Symmetry
INVARIANTS
    NoDoubleClose
CHECK_DEADLOCK FALSE
