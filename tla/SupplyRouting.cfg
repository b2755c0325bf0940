CONSTANTS
    Calls = {d1, d2}
    w1 = w1
    Workers = {w1}
    home <- OneWorker
    Sources = {s1}
    Ttl = 2
    Lag = 1
    NoEntry = NoEntry
    MaxClock = 3
SPECIFICATION Spec
INVARIANTS
    TypeOK
    RoutesAreCurrent
SYMMETRY Symmetry
CHECK_DEADLOCK FALSE
