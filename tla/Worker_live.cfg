SPECIFICATION FairLoopSpec
CONSTANTS
    NULL = NULL
    Workers = {w1}
    Types = {t1}
    Jobs = {1}
    Priorities = {0}
    MaxAttempts = {2}
    MaxRuns = {2}
    MethodCounts = {0}
    Replays = {}
    JobLeaseMs = 1
    BackoffBaseMs = 1
    BackoffCapMs = 1
    ReportMaxRounds = 1
    ReportBaseMs = 1
    ReportCapMs = 1
    WorkerLeaseMs = 1
    RetentionMs = 5
    RequestLag = 0
    MaxClock = 1
    MaxClaims = 2
INVARIANTS
    LoopInv
PROPERTIES
    DueJobsRun
