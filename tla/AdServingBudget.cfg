CONSTANTS
    Calls = {d1}
    c1 = c1
    c2 = c2
    Campaigns = {c1}
    Bids = {2}
    Off = Off
    NoList = NoList
    Ttl = 1
    Lag = 1
    NumAds = 1
    Floors = {0}
    DailyBudget <- OneUnitADay
    MaxSpend = 1
    MaxClock = 1
SPECIFICATION Spec
PROPERTY DailyBudgetKept
CHECK_DEADLOCK FALSE
