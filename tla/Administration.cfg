SPECIFICATION Spec
CONSTANTS
    a1 = a1
    a2 = a2
    k1 = k1
    k2 = k2
    v1 = v1
    r1 = r1
    t1 = t1
    t2 = t2
    s1 = s1
    Calls = {c1, c2}
    Advertisers = {a1, a2}
    Campaigns = {k1, k2}
    Creatives = {v1, v2}
    Rules = {r1, r2}
    Tags = {t1, t2}
    DemandSources = {s1}
    Mappings = {m1}
    Admin = Admin
    Opening <- MCOpening
    Asked = {0, 1}
    MaxRequests = 2
CHECK_DEADLOCK FALSE
INVARIANTS
    TypeOK
    SlotsUnique
PROPERTIES
    OwnRowsOnly
    EditsAreKept
    DepositsAdd
    EveryCallEnds
