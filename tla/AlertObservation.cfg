SPECIFICATION Spec
CONSTANTS
    Replicas = {r1, r2}
    Chats = {c1}
    Symbols = {btc}
    Prices = {2, 4}
    Percents = {100}
    Fresh = 1
    MaxActive = 1
    BatchLimit = 1
    MaxAlerts = 1
    MaxTime = 4
    MaxFaults = 1
    r1 = r1
    r2 = r2
    c1 = c1
    btc = btc
SYMMETRY ReplicaSymmetry
CONSTRAINT Scenarios
CHECK_DEADLOCK FALSE
INVARIANTS
    ObservedInTime
    CacheIsCommitted
PROPERTIES
    FirstCrossingDecides
    ImplementsOneShotAlerts
