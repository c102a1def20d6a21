SPECIFICATION Spec
CONSTANTS
    Chats = {c1}
    Workers = {w1, w2}
    UpdateIds = {1, 2, 3}
    Commands = {"subscribe", "interval", "language", "alert"}
    MaxAttempts = 2
    DeliveryLag = FALSE
    MaxEvents = 3
    MaxWeeks = 1
    MaxFaults = 2
    MaxLosses = 1
SYMMETRY WorkerSymmetry
CONSTRAINT Scenarios
CHECK_DEADLOCK FALSE
INVARIANTS MutationAtMostOnce ProcessedMutationInForce
PROPERTIES OldIntervalNeverApplied ProcessedInSavedOrder TerminalIsFinal
