SPECIFICATION LeasesSpec
CONSTANTS
    NULL = NULL
    Workers = {w1, w2}
    Types = {t1}
    Jobs = {1}
    Priorities = {0}
    MaxAttempts = {2}
    MaxRuns = {3}
    MethodCounts = {0, 1}
    Replays <- BothReplays
    JobLeaseMs = 1
    BackoffBaseMs = 1
    BackoffCapMs = 2
    ReportMaxRounds = 1
    ReportBaseMs = 1
    ReportCapMs = 2
    WorkerLeaseMs = 2
    RetentionMs = 1
    RequestLag = 0
    MaxClock = 3
    MaxClaims = 3
SYMMETRY Symmetry
INVARIANTS
    OneOpenAttempt
    DeadlineRespected
    AttemptBudget
    ReportOnlyForOutcome
PROPERTIES
    HistoryStable
