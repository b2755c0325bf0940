CONSTANTS
    Deliveries = {d1}
    r1 = r1
    c1 = c1
    Requests = {r1}
    LocalCampaigns = {c1}
    Demand = Demand
    NoCampaign = NoCampaign
    Bids = {2}
    Prices = {0, 3}
    NoBid = NoBid
    Traffic <- UserTraffic
    MaxWindows = 1
SPECIFICATION Spec
INVARIANT CountedUnlessRedisFailed
CHECK_DEADLOCK FALSE
