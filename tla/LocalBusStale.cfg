SPECIFICATION Spec
CONSTANTS
    Subs = {s1}
    Callers = {c1, c2}
    Publishers = {}
    Stoppers = {}
    StopOps = {}
    RepeatUnsubscribe = TRUE
    BufferSize = 1
    MaxGen = 2
    MaxMsgs = 0
    NoRef = NoRef
SYMMETRY Symmetry
INVARIANTS
    LiveUntilAsked
CHECK_DEADLOCK FALSE
