SPECIFICATION FairSpec
CONSTANTS
    Chats = {c1}
    Workers = {w1}
    JobIds = {1, 2}
    ClaimWindow = 2
    SafetyWindow = 1
    LockTimeout = 0
    CheckTimeout = 0
    ValidationTimeout = 0
    SendTimeout = 1
    MarkTimeout = 0
    FinalizationBudget = 0
    MaxFinalizations = 1
    MaxAttempts = 2
    Minute = 1
    MaxBackoff = 1
    MaxRetryAfter = 2
    MaxInterval = 1
    DefaultInterval = 1
    CronClaimWindow = 2
    FailureCooldown = 1
    CronBatchLimit = 1
    CandidateLimit = 2
    MaxFaults = 1
    MaxUpdates = 2
INVARIANTS OneOpenScheduledJob NoOrphanCronClaim
PROPERTIES ScheduleKeepsInterval EveryJobFinishes
