CONSTANTS
    Calls = {d1, d2}
    c1 = c1
    c2 = c2
    Campaigns = {c1}
    Bids = {1, 2}
    Off = Off
    NoList = NoList
    Ttl = 1
    Lag = 1
    NumAds = 1
    Floors = {2}
    DailyBudget <- OneUnitADay
    MaxSpend = 1
    MaxClock = 3
SPECIFICATION Spec
INVARIANTS
    TypeOK
    BoundedStaleness
SYMMETRY Symmetry
CHECK_DEADLOCK FALSE
