SPECIFICATION Spec
CONSTANTS
    Chats = {c1}
    Workers = {w1, w2}
    UpdateIds = {1, 2}
    Commands = {"subscribe", "language"}
    MaxAttempts = 2
    DeliveryLag = FALSE
    MaxEvents = 2
    MaxWeeks = 0
    MaxFaults = 0
    MaxLosses = 1
CHECK_DEADLOCK FALSE
PROPERTIES NewerSettingKept
