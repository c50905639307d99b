SPECIFICATION LateSpec
CONSTANTS
    NULL = NULL
    Workers = {w1}
    Types = {t1}
    Jobs = {1}
    Priorities = {0}
    MaxAttempts = {1, 2}
    MaxRuns = {2}
    MethodCounts = {0}
    Replays <- KeepReplay
    JobLeaseMs = 1
    BackoffBaseMs = 1
    BackoffCapMs = 2
    ReportMaxRounds = 1
    ReportBaseMs = 1
    ReportCapMs = 2
    WorkerLeaseMs = 2
    RetentionMs = 1
    RequestLag = 1
    MaxClock = 3
    MaxClaims = 2
    WindowMs = 2
    BucketMs = 2
    PriorKnown = TRUE
    TopErrorsMax = 10
    LargeSample = 1000
    Nudge = 1000
    Slots <- TwoSlots
INVARIANTS
    TypeOK
    BudgetCountsNewest
    RunTimesAreTrue
    PanelSpeaksForTheStore
    RatesHaveTheirRuns
PROPERTIES
    ReplayKeepsSuccess
    KeepsPromise
