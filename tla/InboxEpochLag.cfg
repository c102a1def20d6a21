SPECIFICATION Spec
CONSTANTS
    Chats = {c1}
    Workers = {w1}
    UpdateIds = {1, 2}
    Commands = {"subscribe", "unsubscribe"}
    MaxAttempts = 2
    DeliveryLag = TRUE
    MaxEvents = 2
    MaxWeeks = 1
    MaxFaults = 0
    MaxLosses = 0
CHECK_DEADLOCK FALSE
INVARIANTS ProcessedMutationInForce
