SPECIFICATION FairSpec
CONSTANTS
    Workers = {w1, w2}
    Crons = {k1}
    Plain = {n1}
    Chats = {c1}
    LockPoolSize = 2
    QueryPoolSize = 1
    Reserve = 0
    MaxFaults = 2
    w1 = w1
    w2 = w2
    k1 = k1
    n1 = n1
    c1 = c1
INVARIANTS
    IdleSessionsHoldNoLock
    LockIsExclusive
    BudgetCoversWorkers
PROPERTIES
    EveryoneGetsThrough
