SPECIFICATION CrewSpec
CONSTANTS
    NULL = NULL
    Workers = {w1}
    Types = {t1}
    Jobs = {1}
    Priorities = {0}
    MaxAttempts = {2}
    MaxRuns = {2}
    MethodCounts = {0}
    Replays = {}
    JobLeaseMs = 1
    BackoffBaseMs = 1
    BackoffCapMs = 2
    ReportMaxRounds = 1
    ReportBaseMs = 1
    ReportCapMs = 2
    WorkerLeaseMs = 2
    RetentionMs = 1
    RequestLag = 0
    MaxClock = 4
    MaxClaims = 3
PROPERTIES
    RetryGivesFreshBudget
