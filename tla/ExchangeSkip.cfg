CONSTANTS
    a1 = a1
    a2 = a2
    a3 = a3
    a4 = a4
    a5 = a5
    d = d
    x = x
    Ads = {a1, a2, a3, a4, a5}
    Advertiser <- Advertisers
    Domain <- Domains
    NoDomain = NoDomain
    Categories <- Cats
    Price <- Bids
    Length <- Lengths
    Playable = {a1, a3, a4, a5}
    Requests <- Breaks
    Empty = Empty
    None = None
    Zero = Zero
    Junk = Junk
    EmptyList = EmptyList
    Queries <- QueriesAsked
    Inbounds <- InboundsAsked
    Worlds <- WorldsAround
    Viewers = {v1}
    c1 = c1
    e1 = e1
    t1 = t1
    Global = Global
    Pending <- NotYet
    NoAd = NoAd
SPECIFICATION MCSpec
INVARIANT NoneRefused
CHECK_DEADLOCK FALSE
