SPECIFICATION Spec
CONSTANTS
    Callers = {c1, c2}
    Publishers = {p1}
    Wildcards = {x1}
    ExactPatterns = {}
    Groups = {}
    FanOut = FanOut
    MaxSubs = 1
    MaxPubs = 1
    MaxEntries = 2
    NoEntry = NoEntry
    NoRef = NoRef
SYMMETRY Symmetry
INVARIANTS
    FanOutReached
CHECK_DEADLOCK FALSE
