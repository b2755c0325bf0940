CONSTANTS
    c1 = c1
    c2 = c2
    Campaigns = {c1, c2}
    Jobs = {j1, j2}
    HoursPerDay = 1
    StatTtl = 1
    NoRow = NoRow
    MaxHour = 2
    MaxCount <- Traffic
SPECIFICATION Spec
INVARIANTS
    TypeOK
    NothingInvented
PROPERTIES
    RowsFallOnlyInRaces
    TotalFallsOnlyAtMidnight
    EveryJobEnds
CHECK_DEADLOCK FALSE
