------------------------------ MODULE JobStore ------------------------------
(***************************************************************************)
(* The job store's backend without report delivery: the tables `jobs`,     *)
(* `job_attempts` and `workers`, one action for each operation of          *)
(* be/store.py that writes them, and the background cleaner of             *)
(* be/api/app.py.                                                          *)
(*                                                                         *)
(* Each operation is one BEGIN IMMEDIATE transaction, so it is one atomic  *)
(* action.  What is not atomic is the request around it: the clock is read *)
(* once when the request starts (be/api/deps.py get_now), and the          *)
(* transaction may wait for the write lock after that.  `now` is therefore *)
(* any reading of the last RequestLag time units, and a later transaction  *)
(* may carry an earlier `now`.                                             *)
(***************************************************************************)
EXTENDS JobRow

CONSTANTS
    Jobs,              \* job ids
    Priorities,        \* priorities a provider or an operator gives
    MaxAttempts,       \* max_attempt a provider gives
    MaxRuns,           \* max_run_ms a provider gives
    MethodCounts,      \* lengths of the report lists a provider gives
    Replays,           \* options of the replays an operator asks for
    WorkerLeaseMs,     \* Settings.worker_lease_ms
    RetentionMs,       \* Settings.retention_ms
    RequestLag,        \* the longest wait between reading the clock and locking
    MaxClock,          \* bound on the clock
    MaxClaims          \* bound on the claims of one job

ASSUME StoreAssumption ==
    /\ Jobs \subseteq Nat
    /\ Types # {}
    /\ Priorities \subseteq Int
    /\ MaxAttempts \subseteq Nat \ {0}
    /\ MaxRuns \subseteq Nat \ {0}
    /\ MethodCounts \subseteq Nat
    /\ Replays \subseteq ReplayOptions
    /\ WorkerLeaseMs \in Nat \ {0}
    /\ RetentionMs \in Nat \ {0}
    /\ {RequestLag, MaxClock, MaxClaims} \subseteq Nat

\* SQLite bounds row ids and the length of texts.
ASSUME FiniteAssumption ==
    IsFiniteSet(Jobs) /\ IsFiniteSet(Workers) /\ IsFiniteSet(Types)

VARIABLES
    jobs,              \* the row of each job id, its attempts with it
    leases,            \* workers.lease_until, NULL for an unknown worker
    clock,             \* the wall clock
    cleaner            \* the `now` of the cleanup under way, else NULL

vars == <<jobs, leases, clock, cleaner>>

TypeOK ==
    /\ jobs \in [Jobs -> Job]
    /\ leases \in [Workers -> Time \cup {NULL}]
    /\ clock \in Time
    /\ cleaner \in Time \cup {NULL}

Registered == {w \in Workers : leases[w] # NULL}

Exists(j) == jobs[j].status \notin {"none", "deleted"}

\* The values `now` may have in a transaction that runs at `clock`.
Nows == {t \in 0..clock : clock <= t + RequestLag}

\* A worker learns a token from the answer to its claim, so its later calls
\* read the clock after the claim did.
HolderNows(j, token) == {t \in Nows : jobs[j].attempts[token].started <= t}

Update(j, row) == jobs' = [jobs EXCEPT ![j] = row]

-----------------------------------------------------------------------------
(* Workers. *)

\* Mutant: renews the leases of its jobs with that of the worker.
RegisterWorkerWithJobs(w, now) ==
    /\ leases' = [leases EXCEPT ![w] = now + WorkerLeaseMs]
    /\ jobs' = [j \in Jobs |-> IF jobs[j].worker = w THEN Beaten(jobs[j], now)
                               ELSE jobs[j]]
    /\ UNCHANGED <<clock, cleaner>>

RegisterWorker(w, now) ==
    /\ leases' = [leases EXCEPT ![w] = now + WorkerLeaseMs]
    /\ UNCHANGED <<jobs, clock, cleaner>>

HeartbeatWorker(w, now) ==
    /\ w \in Registered
    /\ leases' = [leases EXCEPT ![w] = now + WorkerLeaseMs]
    /\ UNCHANGED <<jobs, clock, cleaner>>

\* Mutant: forgets a worker that still holds a job.
DeleteWorkerBusy(w, now) ==
    /\ w \in Registered
    /\ leases[w] <= now
    /\ leases' = [leases EXCEPT ![w] = NULL]
    /\ UNCHANGED <<jobs, clock, cleaner>>

DeleteWorker(w, now) ==
    /\ w \in Registered
    /\ leases[w] <= now
    /\ \A j \in Jobs : jobs[j].worker # w
    /\ leases' = [leases EXCEPT ![w] = NULL]
    /\ UNCHANGED <<jobs, clock, cleaner>>

-----------------------------------------------------------------------------
(* Providers and workers on jobs. *)

\* Ids grow: AUTOINCREMENT.
CreateJob(j, type, priority, maxAttempt, maxRun, methods, now) ==
    /\ jobs[j].status = "none"
    /\ \A k \in Jobs : k < j => jobs[k].status # "none"
    /\ Update(j, NewJob(type, priority, maxAttempt, maxRun, methods, now))
    /\ UNCHANGED <<leases, clock, cleaner>>

\* Jobs this worker failed, lost or released are claimed last.
SentBack(w, j) ==
    \E k \in DOMAIN jobs[j].attempts :
        /\ jobs[j].attempts[k].worker = w
        /\ jobs[j].attempts[k].outcome \in
              {"failed", "lease_expired", "deadline_exceeded", "released"}

\* Mutant: priority before the worker's own history.
ClaimRankPriorityFirst(w, j) ==
    <<-jobs[j].priority, IF SentBack(w, j) THEN 1 ELSE 0, jobs[j].available, j>>

ClaimRank(w, j) ==
    <<IF SentBack(w, j) THEN 1 ELSE 0, -jobs[j].priority, jobs[j].available, j>>

\* The order of SQL's ORDER BY on lists of columns.
Before(r, s) ==
    \E i \in DOMAIN r : r[i] < s[i] /\ \A h \in 1..(i - 1) : r[h] = s[h]

\* Mutant: does not wait for available_at.
ClaimableEarly(type, now) ==
    {j \in Jobs : jobs[j].status = "pending" /\ jobs[j].type = type}

Claimable(type, now) ==
    {j \in Jobs : /\ jobs[j].status = "pending"
                  /\ jobs[j].type = type
                  /\ jobs[j].available <= now}

ClaimJob(w, type, j, now) ==
    /\ w \in Registered
    /\ now < leases[w]
    /\ j \in Claimable(type, now)
    /\ \A k \in Claimable(type, now) \ {j} :
          Before(ClaimRank(w, j), ClaimRank(w, k))
    /\ Newest(jobs[j]) < MaxClaims
    /\ Update(j, Claimed(jobs[j], w, now))
    /\ UNCHANGED <<leases, clock, cleaner>>

\* _hold with allow_reclaim.
HoldOrReclaim(j, w, token, now) ==
    /\ Exists(j)
    /\ \/ CanHold(jobs[j], w, token, now)
       \/ CanReclaim(jobs[j], w, token, now, Registered)

HeartbeatJob(j, w, token, now) ==
    /\ HoldOrReclaim(j, w, token, now)
    /\ Update(j, Beaten(Hold(jobs[j], w, token, now), now))
    /\ UNCHANGED <<leases, clock, cleaner>>

FinishSuccess(j, w, token, now) ==
    /\ HoldOrReclaim(j, w, token, now)
    /\ Update(j, Succeeded(Hold(jobs[j], w, token, now), now))
    /\ UNCHANGED <<leases, clock, cleaner>>

FinishFailure(j, w, token, now) ==
    /\ HoldOrReclaim(j, w, token, now)
    /\ Update(j, Failed(Hold(jobs[j], w, token, now), now))
    /\ UNCHANGED <<leases, clock, cleaner>>

\* Release does not reclaim.
ReleaseJob(j, w, token, now) ==
    /\ Exists(j)
    /\ CanHold(jobs[j], w, token, now)
    /\ Update(j, Released(Hold(jobs[j], w, token, now), now))
    /\ UNCHANGED <<leases, clock, cleaner>>

-----------------------------------------------------------------------------
(* Operators on jobs. *)

CancelJob(j, now) ==
    /\ jobs[j].status \in {"pending", "running"}
    /\ Update(j, Cancelled(jobs[j], now))
    /\ UNCHANGED <<leases, clock, cleaner>>

\* Mutant: requeues a running job under its worker.
RetryJobAny(j, now) ==
    /\ jobs[j].status \in {"running", "failed", "cancelled"}
    /\ Update(j, [Unleased(jobs[j]) EXCEPT
                     !.status = "pending", !.available = now,
                     !.requeued = now, !.error = NULL])
    /\ UNCHANGED <<leases, clock, cleaner>>

RetryJob(j, now) ==
    /\ jobs[j].status \in {"failed", "cancelled"}
    /\ Update(j, Retried(jobs[j], now))
    /\ UNCHANGED <<leases, clock, cleaner>>

ReplayJob(j, options, now) ==
    /\ jobs[j].status = "success"
    /\ ~ReportBusy(jobs[j])
    /\ Update(j, Replayed(jobs[j], options, now))
    /\ UNCHANGED <<leases, clock, cleaner>>

SetPriority(j, priority) ==
    /\ jobs[j].status = "pending"
    /\ Update(j, [jobs[j] EXCEPT !.priority = priority])
    /\ UNCHANGED <<leases, clock, cleaner>>

DeleteJob(j) ==
    /\ IsTerminal(jobs[j])
    /\ Update(j, Absent("deleted"))
    /\ UNCHANGED <<leases, clock, cleaner>>

-----------------------------------------------------------------------------
(* The cleaner: two transactions with one `now`, in a thread of its own. *)

\* Mutant: revokes a lease that ran out but not one whose deadline passed.
CleanupExpireLeases(now) ==
    /\ cleaner = NULL
    /\ jobs' = [j \in Jobs |-> IF LeaseExpired(jobs[j], now)
                               THEN ExpireIfDue(jobs[j], now) ELSE jobs[j]]
    /\ cleaner' = now
    /\ UNCHANGED <<leases, clock>>

CleanupExpire(now) ==
    /\ cleaner = NULL
    /\ jobs' = [j \in Jobs |-> ExpireIfDue(jobs[j], now)]
    /\ cleaner' = now
    /\ UNCHANGED <<leases, clock>>

\* Mutant: forgets the cancelled jobs.
PurgeableReported(job, now) ==
    /\ job.status \in {"success", "failed"}
    /\ job.finished < now - RetentionMs

Purgeable(job, now) ==
    /\ IsTerminal(job)
    /\ job.finished < now - RetentionMs

CleanupPurge ==
    /\ cleaner # NULL
    /\ jobs' = [j \in Jobs |-> IF Purgeable(jobs[j], cleaner)
                               THEN Absent("deleted") ELSE jobs[j]]
    /\ cleaner' = NULL
    /\ UNCHANGED <<leases, clock>>

\* A crash, or an exception that _run_cleaner logs, between the two.
CleanupFails ==
    /\ cleaner # NULL
    /\ cleaner' = NULL
    /\ UNCHANGED <<jobs, leases, clock>>

Tick ==
    /\ clock < MaxClock
    /\ clock' = clock + 1
    /\ UNCHANGED <<jobs, leases, cleaner>>

-----------------------------------------------------------------------------

Init ==
    /\ jobs = [j \in Jobs |-> Absent("none")]
    /\ leases = [w \in Workers |-> NULL]
    /\ clock = 0
    /\ cleaner = NULL

WorkerStep ==
    \E w \in Workers, now \in Nows :
        \/ RegisterWorker(w, now)
        \/ HeartbeatWorker(w, now)
        \/ DeleteWorker(w, now)

ClaimStep ==
    \E w \in Workers, type \in Types, j \in Jobs, now \in Nows :
        ClaimJob(w, type, j, now)

\* What the worker w can ask with the token of an attempt of job j.
HolderStep ==
    \E j \in Jobs, w \in Workers :
        \E token \in DOMAIN jobs[j].attempts :
            \E now \in HolderNows(j, token) :
                \/ HeartbeatJob(j, w, token, now)
                \/ FinishSuccess(j, w, token, now)
                \/ FinishFailure(j, w, token, now)
                \/ ReleaseJob(j, w, token, now)

OperatorStep ==
    \E j \in Jobs, now \in Nows :
        \/ \E type \in Types, priority \in Priorities, maxRun \in MaxRuns,
              maxAttempt \in MaxAttempts, methods \in MethodCounts :
                CreateJob(j, type, priority, maxAttempt, maxRun, methods, now)
        \/ CancelJob(j, now)
        \/ RetryJob(j, now)
        \/ \E options \in Replays : ReplayJob(j, options, now)
        \/ \E priority \in Priorities : SetPriority(j, priority)
        \/ DeleteJob(j)

CleanerStep ==
    \/ \E now \in Nows : CleanupExpire(now)
    \/ CleanupPurge
    \/ CleanupFails

JobStep == ClaimStep \/ HolderStep \/ OperatorStep

Next == WorkerStep \/ JobStep \/ CleanerStep \/ Tick

Spec == Init /\ [][Next]_vars

\* Time passes, and the cleaner's loop runs again and again: it sleeps, logs
\* any exception and starts over.  Its thread may be slow, and a purge may
\* fail, but not every time.  Nothing is assumed of workers and operators.
Fairness ==
    /\ WF_vars(Tick)
    /\ WF_vars(\E now \in Nows : CleanupExpire(now))
    /\ WF_vars(CleanupPurge \/ CleanupFails)
    /\ SF_vars(CleanupPurge)

-----------------------------------------------------------------------------
(* Invariants: the row predicates of JobRow.tla, for every job. *)

\* The table constraints of be/db.py would make any write that breaks them
\* raise, which no caller expects: no sequence of operations ever asks SQLite
\* for a row that the CHECKs or the foreign key to `workers` refuse.
SchemaHolds ==
    \A j \in Jobs : /\ RowChecks(jobs[j])
                    /\ jobs[j].worker # NULL => jobs[j].worker \in Registered

\* A job has an open attempt exactly while it runs, and it is the attempt of
\* the lease.
OneOpenAttempt == \A j \in Jobs : LogMatchesLease(jobs[j])

\* However often a lease is renewed or reclaimed, no run goes past the
\* deadline of its claim (_reclaim_lease, heartbeat_job).
DeadlineRespected == \A j \in Jobs : RunsWithinDeadline(jobs[j])

\* A job that no operator requeued never has more than max_attempt runs that
\* count (_retry_or_fail).
AttemptBudget == \A j \in Jobs : WithinBudget(jobs[j])

\* The attempt that just ended is among those counted, so the exponent of the
\* backoff is never negative (_retry_or_fail).
BudgetCountsNewest == \A j \in Jobs : StartsAfterRequeue(jobs[j])

\* A report is owed only for an outcome that stands (_start_report, _hold,
\* retry_job, replay_job).
ReportOnlyForOutcome == \A j \in Jobs : ReportMatchesStatus(jobs[j])

-----------------------------------------------------------------------------
(* Action properties. *)

\* The attempt log is history: an attempt that is not the newest never
\* changes, and an ended newest attempt changes only by the reclaim of an
\* expired lease, which opens it again.
LogStep(old, new) ==
    new.status # "deleted" =>
        \A k \in DOMAIN old.attempts :
            /\ k \in DOMAIN new.attempts
            /\ \/ new.attempts[k] = old.attempts[k]
               \/ /\ k = Newest(old)
                  /\ old.attempts[k].outcome \in {NULL, "lease_expired"}
                  /\ new.attempts[k].started = old.attempts[k].started
                  /\ new.attempts[k].worker = old.attempts[k].worker

HistoryStable == [][\A j \in Jobs : LogStep(jobs[j], jobs[j]')]_vars

\* A replay without overwrite cannot lose the success it started from: its
\* result and finished_at stay, and however the run ends (success, failure,
\* expiry, deadline, release, cancel) the job is queued, running or that
\* success again.
ReplayKeepsSuccess ==
    [][\A j \in Jobs :
          jobs[j].status \in {"pending", "running"} /\ KeepsOldSuccess(jobs[j])
          => /\ jobs[j]'.status \in {"pending", "running", "success"}
             /\ jobs[j]'.result = jobs[j].result
             /\ jobs[j]'.finished = jobs[j].finished]_vars

\* The purge takes only old history: no attempt of a purged job ended within the
\* retention time, but for an undone replay, which leaves finished_at as it was
\* (cleanup, _restore_success).
PurgeTakesOldRuns ==
    [][\A j \in Jobs :
          /\ cleaner # NULL /\ cleaner' = NULL
          /\ Exists(j) /\ jobs[j]'.status = "deleted"
          => \A k \in DOMAIN jobs[j].attempts :
                jobs[j].attempts[k].ended >= cleaner - RetentionMs + RequestLag =>
                    /\ jobs[j].attempts[k].replay
                    /\ jobs[j].attempts[k].ended # jobs[j].finished]_vars

\* A worker takes a job it already failed, lost or released only when no job
\* it has not touched is waiting, whatever the priorities are.
FreshJobsFirst ==
    [][\A j \in Jobs :
          jobs[j].status = "pending" /\ Newest(jobs[j]') > Newest(jobs[j])
          => LET w == jobs[j]'.worker
                 waiting == Claimable(jobs[j].type, jobs[j]'.started)
             IN  SentBack(w, j) => \A k \in waiting : SentBack(w, k)]_vars

\* "Requeue a failed or cancelled job in place with a fresh attempt budget"
\* (be/store.py:979): right after a retry no attempt counts as used.
RetryGivesFreshBudget ==
    [][\A j \in Jobs :
          /\ jobs[j].status \in {"failed", "cancelled"}
          /\ jobs[j]'.status = "pending"
          /\ jobs[j]'.attempts = jobs[j].attempts
          => UsedAttempts(jobs[j]') = 0]_vars

-----------------------------------------------------------------------------
(* Liveness, under Fairness. *)

\* A run ends: whatever its worker does, an attempt whose deadline comes
\* within the bound of the clock does not stay open.
RunEnds ==
    \A j \in Jobs, k \in 1..MaxClaims :
        LET runs == /\ jobs[j].status = "running"
                    /\ jobs[j].token = k
                    /\ jobs[j].deadline <= MaxClock
        IN  runs ~> ~runs

\* A finished job whose report is settled is purged once its retention is over,
\* unless it is requeued or deleted first.
FinishedIsPurged ==
    \A j \in Jobs, t \in 0..MaxClock :
        LET old == /\ IsTerminal(jobs[j])
                   /\ jobs[j].finished = t
                   /\ ~ReportBusy(jobs[j])
        IN  old /\ t + RetentionMs < MaxClock ~> ~old

-----------------------------------------------------------------------------
(* The promise of JobLife.tla. *)

\* What the worker of the newest attempt may still do, clock apart.
ClaimOf(job) ==
    CASE job.status = "running"            -> "held"
      [] /\ job.status \in {"pending", "failed"}
         /\ job.deadline # NULL
         /\ job.attempts # << >>
         /\ job.attempts[Newest(job)].outcome = "lease_expired" -> "lost"
      [] OTHER                             -> "over"

LifeOf(job) ==
    [status |-> job.status, run |-> Newest(job), claim |-> ClaimOf(job),
     result |-> IF job.result = NULL THEN 0 ELSE job.result,
     keeps |-> KeepsOldSuccess(job)]

Life == INSTANCE JobLife WITH life <- [j \in Jobs |-> LifeOf(jobs[j])]

\* Every operation, in every order, is a step of the life of a job or leaves it
\* as it is (be/store.py).
KeepsPromise == Life!LifeSpec

\* A run that is over stays over, whatever its worker, the operators and the
\* cleaner do next (_hold, _reclaim_lease, retry_job, replay_job).
OldRunsAreOver == Life!OverIsOver

\* A success has a result, and it is that of a run of the job; a replay that
\* keeps it is queued, running or that success again (_restore_success).
LifeHolds == Life!LifeInv

=============================================================================
