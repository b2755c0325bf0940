CONSTANTS
    Deliveries = {d1, d2, d3}
    r1 = r1
    c1 = c1
    Requests = {r1}
    LocalCampaigns = {c1}
    Demand = Demand
    NoCampaign = NoCampaign
    Bids = {2}
    Prices = {0, 3}
    NoBid = NoBid
    Traffic <- CollidingTraffic
    MaxWindows = 1
SPECIFICATION Spec
INVARIANTS
    TypeOK
    SingleCharge
    DuplicateHasOriginal
SYMMETRY Symmetry
CHECK_DEADLOCK FALSE
