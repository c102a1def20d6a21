SPECIFICATION Spec
CONSTANTS
    Chats = {c1}
    Workers = {w1, w2}
    Handlers = {h1, h2}
    ReplyIds = {1, 2}
    ClaimWindow = 4
    SafetyWindow = 2
    LockTimeout = 0
    ValidationTimeout = 1
    SendTimeout = 1
    MarkTimeout = 0
    FinalizationBudget = 0
    MaxFinalizations = 2
    MaxAttempts = 2
    Minute = 1
    MaxBackoff = 1
    MaxRetryAfter = 2
    CandidateLimit = 2
    MaxFaults = 2
SYMMETRY ActorSymmetry
INVARIANTS NeverOvertaken
PROPERTIES NeverGoesBack ImplementsDelivery
