SPECIFICATION Spec
CONSTANTS
    Chats = {c1}
    Workers = {w1, w2}
    JobIds = {1}
    ClaimWindow = 9
    SafetyWindow = 3
    LockTimeout = 2
    CheckTimeout = 1
    ValidationTimeout = 1
    SendTimeout = 2
    MarkTimeout = 1
    FinalizationBudget = 1
    MaxFinalizations = 2
    MaxAttempts = 2
    Minute = 1
    MaxBackoff = 1
    MaxRetryAfter = 2
    MaxInterval = 1
    DefaultInterval = 1
    CronClaimWindow = 1
    FailureCooldown = 1
    CronBatchLimit = 1
    CandidateLimit = 2
    MaxFaults = 2
    MaxUpdates = 3
SYMMETRY WorkerSymmetry
INVARIANTS ResentOnlyIfDisturbed OneSenderPerJob LeaseCoversWork SendsOnlyWanted
PROPERTIES ImplementsDelivery
