SPECIFICATION Spec
CONSTANTS
    a = a
    b = b
    c = c
    Callers = {a, b, c}
    Scenarios <- MCScenarios
    MaxMessages = 2
    EvictOldest = TRUE
    PageLimit = 1
    AuditMax = 1
    AuditLimit = 1
    PerMs = 2
    MaxNow = 1
    MaxHeld = 2
    MaxEpoch = 2
    MaxEvents = 2
    NoGuard = NoGuard
INVARIANTS PagesPartition QuietEmailComplete GuardWasCurrent AnsweredMeansAudited
CHECK_DEADLOCK FALSE
