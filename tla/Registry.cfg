SPECIFICATION Spec
CONSTANTS
    Callers = {c1, c2, c3}
    Publishers = {p1}
    Wildcards = {x1}
    ExactPatterns = {s}
    Groups = {g}
    FanOut = FanOut
    MaxSubs = 1
    MaxPubs = 1
    MaxEntries = 3
    NoEntry = NoEntry
    NoRef = NoRef
SYMMETRY Symmetry
INVARIANTS
    LiveIsRegistered
    WildListExact
    SettledReached
PROPERTIES
    ImplementsSet
CHECK_DEADLOCK FALSE
