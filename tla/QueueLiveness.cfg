SPECIFICATION QueuesSpec
CONSTANTS
    Chats = {c1}
    Workers = {w1, w2}
    UpdateIds = {1, 2}
    Commands = {"subscribe"}
    MaxAttempts = 2
    DeliveryLag = FALSE
    MaxEvents = 2
    MaxWeeks = 0
    MaxFaults = 1
    MaxLosses = 1
    ReplyWorkers = {r1}
    Handlers = {h1, h2}
    ReplyIds = {1, 2}
CHECK_DEADLOCK FALSE
PROPERTIES EveryUpdateFinishes EveryReplyFinishes
