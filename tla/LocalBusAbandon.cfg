SPECIFICATION Spec
CONSTANTS
    Subs = {s1}
    Callers = {c1}
    Publishers = {p1}
    Stoppers = {x1}
    StopOps = {"Close"}
    RepeatUnsubscribe = FALSE
    BufferSize = 1
    MaxGen = 1
    MaxMsgs = 1
    NoRef = NoRef
SYMMETRY Symmetry
PROPERTIES
    CloseAbandonsQueued
CHECK_DEADLOCK FALSE
