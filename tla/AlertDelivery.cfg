SPECIFICATION FairSpec
CONSTANTS
    Replicas = {r1}
    Chats = {c1, c2}
    Symbols = {btc}
    Prices = {2, 4}
    Percents <- Falling
    Fresh = 1
    MaxActive = 1
    BatchLimit = 1
    MaxAlerts = 2
    MaxTime = 2
    MaxFaults = 1
    r1 = r1
    c1 = c1
    c2 = c2
    btc = btc
CHECK_DEADLOCK FALSE
INVARIANTS
    WithinLimit
    CanceledNeverSent
PROPERTIES
    PassSkipsOnlyBusyChats
    EveryCrossingConsumed
