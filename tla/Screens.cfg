SPECIFICATION ScreensSpec
CONSTANTS
    NULL = NULL
    Workers = {w1, w2}
    Types = {"t1"}
    Jobs = {1, 2}
    Priorities = {}
    MaxAttempts = {1}
    MaxRuns = {2}
    MethodCounts = {0}
    Replays = {}
    JobLeaseMs = 1
    BackoffBaseMs = 1
    BackoffCapMs = 2
    ReportMaxRounds = 1
    ReportBaseMs = 1
    ReportCapMs = 2
    WorkerLeaseMs = 1
    RetentionMs = 2
    RequestLag = 0
    MaxClock = 4
    MaxClaims = 2
    ConcurrentLimit <- OneSlot
    Ip <- OneMachine
    HideMs = 0
    DayMs = 0
    AlertWorkerMs = 0
    AlertAttemptMs = 0
    QueueWarnMs = 0
    SmallSample = 2
    MaxShown = 1
    WindowMs = 4
    BucketMs = 2
    PriorKnown = TRUE
    TopErrorsMax = 10
    LargeSample = 1000
    Nudge = 1000
    Slots <- OneSlot
    RangeMs = 3
    DrawerMs = 4
    StepMs = 1
    OfflineHideMs = 1
    RecentMax = 1
INVARIANTS
    UntouchedJobsHaveAPlace
    FiguresAgree
    LostWorkersAreAnnounced
    AllClearIsTrue
    LanesShowTheRuns
    BucketsCoverTheWindow
PROPERTIES
    FreshJobsFirst
SYMMETRY Symmetry
