SPECIFICATION CrewProgressSpec
CONSTANTS
    NULL = NULL
    Workers = {w1}
    Types = {t1}
    Jobs = {1}
    Priorities = {0}
    MaxAttempts = {2}
    MaxRuns = {2}
    MethodCounts = {0}
    Replays <- KeepReplay
    JobLeaseMs = 1
    BackoffBaseMs = 1
    BackoffCapMs = 1
    ReportMaxRounds = 1
    ReportBaseMs = 1
    ReportCapMs = 1
    WorkerLeaseMs = 2
    RetentionMs = 1
    RequestLag = 0
    MaxClock = 2
    MaxClaims = 2
    StepIds = {s1, s2, s3}
    SentStatuses = {"running", "done", "failed"}
    MaxSent = 2
    MAX_PROGRESS_STEPS = 2
SYMMETRY Symmetry
INVARIANTS
    StepsSpeakOfTheRun
PROPERTIES
    StepsStay
