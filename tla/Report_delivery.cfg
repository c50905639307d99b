SPECIFICATION CrewSpec
CONSTANTS
    NULL = NULL
    Workers = {w1}
    Types = {t1}
    Jobs = {1}
    Priorities = {0}
    MaxAttempts = {1}
    MaxRuns = {2}
    MethodCounts = {2}
    Replays <- ThreeReplays
    JobLeaseMs = 1
    BackoffBaseMs = 1
    BackoffCapMs = 2
    ReportMaxRounds = 2
    ReportBaseMs = 1
    ReportCapMs = 1
    WorkerLeaseMs = 2
    RetentionMs = 1
    RequestLag = 0
    MaxClock = 3
    MaxClaims = 2
    ReportTimeoutMs = 1
    ManualRequests = {r1}
INVARIANTS
    OutcomeAcknowledged
    DeliveryInv
PROPERTIES
    SendsAreCounted
    LinesFollowTheSends
