------------------------------- MODULE JobRow -------------------------------
(***************************************************************************)
(* One row of the table `jobs` of be/store.py with its rows of             *)
(* `job_attempts`, and what each store operation does to it.  The          *)
(* operators here are functions of a row and of the `now` the operation    *)
(* was called with; JobStore.tla applies them to the table, one            *)
(* transaction per action.                                                 *)
(*                                                                         *)
(* A lease token is the number of the attempt it was issued for: tokens    *)
(* are fresh random strings, one per claim, and are only compared for      *)
(* equality within a job.  A result is the number of the attempt that      *)
(* sent it.  An attempt's number is its position in `attempts`.            *)
(*                                                                         *)
(* A definition whose comment starts with "Mutant" is a plausible mistake  *)
(* in the one after it; no specification uses it.  The README says which   *)
(* property notices it.                                                    *)
(***************************************************************************)
EXTENDS Integers, Sequences, FiniteSets

CONSTANTS
    NULL,              \* SQL NULL
    Workers,           \* worker ids
    Types,             \* job types
    JobLeaseMs,        \* Settings.job_lease_ms
    BackoffBaseMs,     \* Settings.backoff_base_ms
    BackoffCapMs,      \* Settings.backoff_cap_ms
    ReportMaxRounds,   \* Settings.report_max_rounds
    ReportBaseMs,      \* Settings.report_backoff_base_ms
    ReportCapMs        \* Settings.report_backoff_cap_ms

\* Settings.from_env accepts only positive integers.
ASSUME SettingsAssumption ==
    /\ JobLeaseMs \in Nat \ {0}
    /\ BackoffBaseMs \in Nat \ {0}
    /\ BackoffCapMs \in Nat \ {0}
    /\ ReportMaxRounds \in Nat \ {0}
    /\ ReportBaseMs \in Nat \ {0}
    /\ ReportCapMs \in Nat \ {0}

-----------------------------------------------------------------------------
(* The row. *)

\* "none" is an id not inserted yet, "deleted" one that AUTOINCREMENT never
\* gives again.
Statuses == {"none", "pending", "running", "success", "failed", "cancelled",
             "deleted"}

TerminalStatuses == {"success", "failed", "cancelled"}

Outcomes == {"succeeded", "failed", "lease_expired", "deadline_exceeded",
             "released", "cancelled"}

ReportStatuses == {"pending", "reporting", "success", "failed"}

\* What `jobs.error` can name: a worker's own error or an expiry.
JobErrors == {"failed", "lease_expired", "deadline_exceeded"}

ReplayOptions ==
    {o \in [overwrite : BOOLEAN, reportSuccess : BOOLEAN,
            reportFailed : BOOLEAN] :
        o.reportSuccess \/ o.reportFailed => o.overwrite}

SendErrors == {"send_failed", "interrupted"}

Time == Nat

\* NULL is none of the values a nullable column takes.
ASSUME NullAssumption ==
    NULL \notin Int \cup Workers \cup Outcomes \cup ReportStatuses
                   \cup JobErrors \cup SendErrors \cup ReplayOptions

Attempt == [worker : Workers, outcome : Outcomes \cup {NULL}, started : Time,
            ended : Time \cup {NULL}, replay : BOOLEAN]

Report == [status : ReportStatuses \cup {NULL}, round : Nat, cursor : Nat,
           nextAt : Time \cup {NULL},
           error : SendErrors \cup {NULL}, sends : SUBSET Nat]

NoReport == [status |-> NULL, round |-> 0, cursor |-> 0, nextAt |-> NULL,
             error |-> NULL, sends |-> {}]

Job == [status : Statuses, type : Types, priority : Int, maxAttempt : Nat,
        maxRun : Nat, worker : Workers \cup {NULL}, token : Nat \cup {NULL},
        until : Time \cup {NULL}, deadline : Time \cup {NULL},
        available : Time, error : JobErrors \cup {NULL},
        result : Nat \cup {NULL}, started : Time \cup {NULL},
        finished : Time \cup {NULL}, requeued : Time \cup {NULL},
        replay : ReplayOptions \cup {NULL}, attempts : Seq(Attempt),
        methods : Nat, report : Report]

\* The row create_job inserts; `methods` is the number of report methods, 0
\* for a job that asked for none.
NewJob(type, priority, maxAttempt, maxRun, methods, now) ==
    [status |-> "pending", type |-> type, priority |-> priority,
     maxAttempt |-> maxAttempt, maxRun |-> maxRun, worker |-> NULL,
     token |-> NULL, until |-> NULL, deadline |-> NULL, available |-> now,
     error |-> NULL, result |-> NULL, started |-> NULL, finished |-> NULL,
     requeued |-> NULL, replay |-> NULL, attempts |-> << >>,
     methods |-> methods, report |-> NoReport]

\* A row that is not in the table.
Absent(status) ==
    [NewJob(CHOOSE t \in Types : TRUE, 0, 1, 1, 0, 0) EXCEPT !.status = status]

-----------------------------------------------------------------------------
(* Attempts and retries. *)

Min2(a, b) == IF a <= b THEN a ELSE b

\* min(delay, cap) for a delay that is not negative.
Capped(delay, cap) == IF delay \in 0..cap THEN delay ELSE cap

Newest(job) == Len(job.attempts)

IsTerminal(job) == job.status \in TerminalStatuses

\* A replay without overwrite ends back at the success it started from.
KeepsOldSuccess(job) == job.replay # NULL /\ ~job.replay.overwrite

\* The attempts that count against max_attempt.
UsedAttempts(job) ==
    Cardinality({k \in DOMAIN job.attempts :
        /\ job.attempts[k].outcome \notin {NULL, "released"}
        /\ job.requeued = NULL \/ job.attempts[k].started >= job.requeued})

Closed(attempt, outcome, now) ==
    [attempt EXCEPT !.outcome = outcome, !.ended = now]

WithNewest(job, attempt) ==
    [job EXCEPT !.attempts = [@ EXCEPT ![Newest(job)] = attempt]]

EndAttempt(job, outcome, now) ==
    WithNewest(job, Closed(job.attempts[Newest(job)], outcome, now))

Unleased(job) == [job EXCEPT !.worker = NULL, !.token = NULL, !.until = NULL]

\* Only a job with report methods has a report.
StartReport(job, now) ==
    IF job.methods = 0 THEN job
    ELSE [job EXCEPT !.report = [NoReport EXCEPT !.status = "pending",
                                                 !.nextAt = now]]

\* The attempts that can have given the job its result and finished_at.
Wins(job) == {k \in DOMAIN job.attempts :
                 /\ job.attempts[k].outcome = "succeeded"
                 /\ job.attempts[k].ended = job.finished}

LastWin(job) == CHOOSE k \in Wins(job) : \A m \in Wins(job) : m <= k

RestoreSuccess(job) ==
    [Unleased(job) EXCEPT
        !.status = "success", !.error = NULL,
        !.started = IF Wins(job) = {} THEN @
                    ELSE job.attempts[LastWin(job)].started]

RetryBackoff(used) == Capped(BackoffBaseMs * 2^(used - 1), BackoffCapMs)

\* Mutant: one attempt too many.
OutOfAttemptsLate(job) ==
    job.replay # NULL \/ UsedAttempts(job) > job.maxAttempt

\* A replay has one run; any other job has max_attempt of them.
OutOfAttempts(job) ==
    job.replay # NULL \/ UsedAttempts(job) >= job.maxAttempt

Fail(job, error, now) ==
    LET ended == [Unleased(job) EXCEPT !.status = "failed", !.error = error,
                                       !.result = NULL, !.finished = now]
        reports == job.replay = NULL \/ job.replay.reportFailed
    IN  IF reports THEN StartReport(ended, now) ELSE ended

Requeue(job, error, now) ==
    [Unleased(job) EXCEPT !.status = "pending", !.error = error,
        !.available = now + RetryBackoff(UsedAttempts(job))]

RetryOrFail(job, error, now) ==
    CASE KeepsOldSuccess(job)                         -> RestoreSuccess(job)
      [] ~KeepsOldSuccess(job) /\ OutOfAttempts(job)  -> Fail(job, error, now)
      [] OTHER                                        -> Requeue(job, error, now)

-----------------------------------------------------------------------------
(* Leases. *)

\* Mutant: the deadline itself still counts as in time.
PastDeadlineLate(job, now) == job.token # NULL /\ now > job.deadline

PastDeadline(job, now) == job.token # NULL /\ now >= job.deadline

LeaseExpired(job, now) ==
    /\ job.token # NULL
    /\ now >= job.until
    /\ ~PastDeadline(job, now)

Revoke(job, outcome, now) ==
    RetryOrFail(EndAttempt(job, outcome, now), outcome, now)

ExpireIfDue(job, now) ==
    CASE PastDeadline(job, now) -> Revoke(job, "deadline_exceeded", now)
      [] LeaseExpired(job, now) -> Revoke(job, "lease_expired", now)
      [] OTHER                  -> job

Holds(job, w, token) == job.token = token /\ job.worker = w

\* Mutant: does not look at how the newest attempt ended.
ReclaimableWhateverOutcome(job, w, token, now, registered) ==
    /\ job.status \in {"pending", "failed"}
    /\ job.deadline # NULL
    /\ now < job.deadline
    /\ w \in registered
    /\ token = Newest(job)
    /\ token \in DOMAIN job.attempts
    /\ job.attempts[token].worker = w

\* The worker whose lease expired may take the job back while nobody else
\* did, until the deadline of its attempt.
Reclaimable(job, w, token, now, registered) ==
    /\ job.status \in {"pending", "failed"}
    /\ job.deadline # NULL
    /\ now < job.deadline
    /\ w \in registered
    /\ token = Newest(job)
    /\ token \in DOMAIN job.attempts
    /\ job.attempts[token].outcome = "lease_expired"
    /\ job.attempts[token].worker = w

\* Mutant: leaves the report of the failure as it is.
ReclaimKeepsReport(job, w, token, now) ==
    WithNewest([job EXCEPT
                   !.status = "running", !.worker = w, !.token = token,
                   !.until = Min2(now + JobLeaseMs, job.deadline),
                   !.error = NULL, !.finished = NULL],
               Closed(job.attempts[Newest(job)], NULL, NULL))

Reclaim(job, w, token, now) ==
    WithNewest([job EXCEPT
                   !.status = "running", !.worker = w, !.token = token,
                   !.until = Min2(now + JobLeaseMs, job.deadline),
                   !.error = NULL, !.finished = NULL,
                   !.report = [@ EXCEPT !.status = NULL, !.nextAt = NULL]],
               Closed(job.attempts[Newest(job)], NULL, NULL))

\* Whether _hold returns rather than raises: an exception rolls back the whole
\* transaction, the expiry included.
CanHold(job, w, token, now) == Holds(ExpireIfDue(job, now), w, token)

CanReclaim(job, w, token, now, registered) ==
    Reclaimable(ExpireIfDue(job, now), w, token, now, registered)

Hold(job, w, token, now) ==
    LET current == ExpireIfDue(job, now)
    IN  IF Holds(current, w, token) THEN current
        ELSE Reclaim(current, w, token, now)

-----------------------------------------------------------------------------
(* What each operation writes. *)

Claimed(job, w, now) ==
    LET deadline == now + job.maxRun
        attempt == [worker |-> w, outcome |-> NULL, started |-> now,
                    ended |-> NULL, replay |-> job.replay # NULL]
    IN  [job EXCEPT !.status = "running", !.worker = w,
                    !.token = Newest(job) + 1, !.deadline = deadline,
                    !.until = Min2(now + JobLeaseMs, deadline),
                    !.started = now, !.attempts = Append(@, attempt)]

\* heartbeat_job, on the row _hold returned.
Beaten(job, now) == [job EXCEPT !.until = Min2(now + JobLeaseMs, job.deadline)]

\* finish_job with a SuccessReport, on the row _hold returned.
Succeeded(job, now) ==
    LET closed == EndAttempt(job, "succeeded", now)
        ended == [Unleased(closed) EXCEPT
                     !.status = "success", !.result = Newest(job),
                     !.error = NULL, !.finished = now]
        reports == job.replay = NULL \/ job.replay.reportSuccess
    IN  CASE KeepsOldSuccess(job)               -> RestoreSuccess(closed)
          [] ~KeepsOldSuccess(job) /\ reports   -> StartReport(ended, now)
          [] OTHER                              -> ended

\* finish_job with a FailureReport.
Failed(job, now) == RetryOrFail(EndAttempt(job, "failed", now), "failed", now)

\* Mutant: the job's new status where the attempt's outcome belongs.
ReleasedAsPending(job, now) ==
    [Unleased(EndAttempt(job, "pending", now)) EXCEPT
        !.status = "pending", !.available = now]

Released(job, now) ==
    [Unleased(EndAttempt(job, "released", now)) EXCEPT
        !.status = "pending", !.available = now]

\* Mutant: the attempt of a running job stays open.
CancelledLeavesAttempt(job, now) ==
    IF KeepsOldSuccess(job) THEN RestoreSuccess(job)
    ELSE [Unleased(job) EXCEPT !.status = "cancelled", !.result = NULL,
                               !.finished = now]

\* Mutant: cancels a replay like any other job.
CancelledLosesSuccess(job, now) ==
    LET closed == IF job.token = NULL THEN job
                  ELSE EndAttempt(job, "cancelled", now)
    IN  [Unleased(closed) EXCEPT !.status = "cancelled", !.result = NULL,
                                 !.finished = now]

Cancelled(job, now) ==
    LET closed == IF job.token = NULL THEN job
                  ELSE EndAttempt(job, "cancelled", now)
    IN  IF KeepsOldSuccess(job) THEN RestoreSuccess(closed)
        ELSE [Unleased(closed) EXCEPT !.status = "cancelled",
                                      !.result = NULL, !.finished = now]

Retried(job, now) ==
    [job EXCEPT !.status = "pending", !.available = now, !.requeued = now,
                !.error = NULL, !.result = NULL, !.finished = NULL,
                !.deadline = NULL, !.report = NoReport, !.replay = NULL]

ReportBusy(job) == job.report.status \in {"pending", "reporting"}

Replayed(job, options, now) ==
    [job EXCEPT !.status = "pending", !.available = now, !.requeued = now,
                !.deadline = NULL, !.replay = options,
                !.report = IF options.overwrite THEN NoReport ELSE @]

-----------------------------------------------------------------------------
(* What should hold of a row between two operations. *)

\* The CHECKs of the table `jobs` on the lease and on the report.
LeaseChecks(job) ==
    /\ job.status = "running" <=> job.token # NULL
    /\ job.token = NULL <=> job.worker = NULL
    /\ job.token = NULL <=> job.until = NULL
    /\ job.token # NULL => job.deadline # NULL

ReportChecks(job) ==
    /\ job.report.status # NULL => job.methods > 0
    /\ ReportBusy(job) <=> job.report.nextAt # NULL

RowChecks(job) == LeaseChecks(job) /\ ReportChecks(job)

\* The attempt log and the lease say the same: a job has an open attempt
\* exactly while it runs, it is the newest one, and the lease carries its
\* token and its worker.  An expiry, a cancel or a reclaim that forgot either
\* table would leave an attempt open for ever or a lease nobody can renew.
LogMatchesLease(job) ==
    /\ \A k \in DOMAIN job.attempts :
          job.attempts[k].outcome = NULL <=>
              job.status = "running" /\ k = Newest(job)
    /\ job.token # NULL =>
          /\ job.token = Newest(job)
          /\ job.token \in DOMAIN job.attempts
          /\ job.worker = job.attempts[job.token].worker

\* The deadline stays the one of the claim, no lease passes it, and a worker's
\* own end of an attempt is never accepted at or after it.
RunsWithinDeadline(job) ==
    /\ job.token # NULL =>
          /\ job.deadline = job.attempts[Newest(job)].started + job.maxRun
          /\ job.until <= job.deadline
    /\ \A k \in DOMAIN job.attempts :
          LET attempt == job.attempts[k]
              deadline == attempt.started + job.maxRun
          IN  /\ attempt.outcome \in {"succeeded", "failed", "released",
                                      "lease_expired"} =>
                    attempt.ended \in attempt.started..(deadline - 1)
              /\ attempt.outcome = "deadline_exceeded" =>
                    attempt.ended >= deadline

\* A job that was never requeued by an operator is pending or running only
\* while it has attempts left; a reclaim from `failed` gives the last attempt
\* back rather than adding one.
WithinBudget(job) ==
    job.requeued = NULL /\ job.status \in {"pending", "running"} =>
        UsedAttempts(job) < job.maxAttempt

\* The newest attempt of a running job started no earlier than the requeue the
\* budget is counted from.
StartsAfterRequeue(job) ==
    job.requeued # NULL =>
        /\ job.status = "running" =>
              job.attempts[Newest(job)].started >= job.requeued
        /\ job.status = "pending" => job.available >= job.requeued

\* A report is owed only for an outcome that stands: never for a job that is
\* queued again, running or cancelled.  A finished job that was not replayed
\* has started its report.
ReportMatchesStatus(job) ==
    /\ ReportBusy(job) => job.status \in {"success", "failed"}
    /\ job.report.status # NULL =>
          \/ job.status \in {"success", "failed"}
          \/ job.status \in {"pending", "running"} /\ KeepsOldSuccess(job)
    /\ job.status \in {"success", "failed"} /\ job.replay = NULL
           /\ job.methods > 0 => job.report.status # NULL

=============================================================================
