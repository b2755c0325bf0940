CONSTANTS
    Deliveries = {d1, d2}
    r1 = r1
    c1 = c1
    Requests = {r1}
    LocalCampaigns = {c1}
    Demand = Demand
    NoCampaign = NoCampaign
    Bids = {1, 2}
    Prices = {0, 3}
    NoBid = NoBid
    Traffic <- EveryTraffic
    MaxWindows = 1
SPECIFICATION Spec
INVARIANT CountersMatchLedger
PROPERTIES
    LedgerSpec
    EveryCallEnds
