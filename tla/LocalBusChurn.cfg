SPECIFICATION Spec
CONSTANTS
    Subs = {s1, s2}
    Callers = {c1, c2}
    Publishers = {p1}
    Stoppers = {}
    StopOps = {}
    RepeatUnsubscribe = FALSE
    BufferSize = 1
    MaxGen = 2
    MaxMsgs = 1
    NoRef = NoRef
SYMMETRY Symmetry
INVARIANTS
    SoleOwner
    RoutedOnlyToTargets
    UnsubscribedIsGone
    LiveUntilAsked
CHECK_DEADLOCK FALSE
