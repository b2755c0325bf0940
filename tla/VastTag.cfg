CONSTANTS
    Requests = {r1, r2}
    c1 = c1
    e1 = e1
    t1 = t1
    Campaigns = {c1}
    Endpoints = {e1}
    Tags = {t1}
    rank <- PlacesInMerge
    LocalBids = {1}
    Prices = {2, 4}
    Margin <- HalfMargin
    Cpm <- TagPrice
    MaxBids = 1
    Retries = 1
    Global = Global
    Pending <- NotYet
    NoAd = NoAd
SPECIFICATION Spec
INVARIANTS
    TypeOK
    BestBidAnswered
    OnlyWinnersTold
    AttemptsJudgedOnce
    CountersMatchOffers
SYMMETRY Symmetry
CHECK_DEADLOCK FALSE
