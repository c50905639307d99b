SPECIFICATION CrewSpec
CONSTANTS
    NULL = NULL
    Workers = {w1, w2}
    Types = {t1}
    Jobs = {1}
    Priorities = {0}
    MaxAttempts = {2}
    MaxRuns = {3}
    MethodCounts = {0}
    Replays <- KeepReplay
    JobLeaseMs = 2
    BackoffBaseMs = 1
    BackoffCapMs = 1
    ReportMaxRounds = 1
    ReportBaseMs = 1
    ReportCapMs = 1
    WorkerLeaseMs = 2
    RetentionMs = 5
    RequestLag = 1
    MaxClock = 2
    MaxClaims = 2
SYMMETRY Symmetry
INVARIANTS
    LoopInv
    OverlapOnlyAfterLoss
