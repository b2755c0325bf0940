CONSTANTS
    Callers = {p1, p2}
    Features = {f1, f2}
    Prediction <- MCPrediction
    BatchSize = 2
    Default = Default
    NoAnswer = NoAnswer
    MaxCalls = 3
    Threads = {t1, t2}
    NoThread = NoThread
    Batches = {1, 2}
    MaxBatches = 2
    Versions = {v1, v2, v3}
    MaxModels = 2
    NoVersion = NoVersion
    CacheCalls = 5
SPECIFICATION MCSpec
INVARIANTS
    TypesOK
    OwnAnswer
    InOnePlace
    LoadedOnce
    CurrentIsCached
PROPERTIES
    EveryCallReturns
    CallsEndUnlessStuck
CHECK_DEADLOCK FALSE
