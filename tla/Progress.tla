------------------------------- MODULE Progress -------------------------------
(***************************************************************************)
(* Step progress: the column jobs.progress, which a worker's heartbeats    *)
(* fill while the job runs, and what the control room makes of it.  It     *)
(* goes along with the operations of JobStore, so each action here is one  *)
(* of theirs with what it does to the steps.                               *)
(*                                                                         *)
(* A step is its id and its status; counts, percentages and messages are   *)
(* left out.  The attempt that sent it is kept beside it, for the          *)
(* properties only.                                                        *)
(***************************************************************************)
EXTENDS JobView

CONSTANTS
    StepIds,               \* ids of steps, chosen by workers
    SentStatuses,          \* bound: the statuses that workers send
    MaxSent,               \* bound: steps in one heartbeat
    MAX_PROGRESS_STEPS     \* 100

StepStatuses == {"pending", "running", "done", "failed", "skipped"}

ASSUME ProgressAssumption ==
    /\ SentStatuses \subseteq StepStatuses
    /\ {MaxSent, MAX_PROGRESS_STEPS} \subseteq Nat \ {0}

\* A list of steps is not the NULL of SQL.
ASSUME NoStepsAssumption ==
    NULL \notin Seq([id : StepIds, status : StepStatuses, run : Nat])

VARIABLE
    progress               \* the steps of each job, else NULL

progressVars == <<jobs, leases, clock, cleaner, progress>>

\* What heartbeats may carry, ids that repeat included; NULL for nothing.
Bodies ==
    {NULL} \cup UNION {[1..n -> [id : StepIds, status : SentStatuses]] : n \in 1..MaxSent}

Distinct(steps) == \A i, k \in DOMAIN steps : steps[i].id = steps[k].id => i = k

Steps(j) == IF progress[j] = NULL THEN << >> ELSE progress[j]

-----------------------------------------------------------------------------
(* The store. *)

\* A list in which an id repeats is dropped as a malformed one is.
ValidProgress(body) ==
    IF body # NULL /\ Distinct(body) THEN body ELSE NULL

\* Where the sent list has an id, and where it has those that are new.
Named(sent, id) == {i \in DOMAIN sent : sent[i].id = id}

Fresh(steps, sent) ==
    {i \in DOMAIN sent : \A k \in DOMAIN steps : steps[k].id # sent[i].id}

\* A known id is replaced in its place, a new one goes to the end.
Merged(steps, sent) ==
    LET old == Len(steps)
        new == Fresh(steps, sent)
        nth(n) == CHOOSE i \in new : Cardinality({h \in new : h <= i}) = n
    IN  [i \in 1..(old + Cardinality(new)) |->
            CASE i > old -> sent[nth(i - old)]
              [] i <= old /\ Named(sent, steps[i].id) # {} ->
                     sent[CHOOSE k \in Named(sent, steps[i].id) : TRUE]
              [] OTHER -> steps[i]]

\* Mutant: the limit is that of one heartbeat.
UpsertedEach(steps, sent) ==
    IF sent = NULL \/ Len(sent) > MAX_PROGRESS_STEPS THEN steps
    ELSE Merged(IF steps = NULL THEN << >> ELSE steps, sent)

\* The whole list is dropped if it would grow the job past the limit.
Upserted(steps, sent) ==
    LET merged == Merged(IF steps = NULL THEN << >> ELSE steps, sent)
    IN  IF sent = NULL \/ Len(merged) > MAX_PROGRESS_STEPS THEN steps ELSE merged

FromRun(sent, run) ==
    IF sent = NULL THEN NULL
    ELSE [i \in DOMAIN sent |->
             [id |-> sent[i].id, status |-> sent[i].status, run |-> run]]

Reset(j) == progress' = [progress EXCEPT ![j] = NULL]

\* Mutant: the steps of the last run stay.
ClaimKeepsSteps(w, type, j, now) ==
    ClaimJob(w, type, j, now) /\ UNCHANGED progress

Claim(w, type, j, now) == ClaimJob(w, type, j, now) /\ Reset(j)

\* Also of a job that this very heartbeat reclaims.
Heartbeat(j, w, token, now, body) ==
    /\ HeartbeatJob(j, w, token, now)
    /\ progress' = [progress EXCEPT
                       ![j] = Upserted(@, FromRun(ValidProgress(body), token))]

Retry(j, now) == RetryJob(j, now) /\ Reset(j)

Replay(j, options, now) == ReplayJob(j, options, now) /\ Reset(j)

Delete(j) == DeleteJob(j) /\ Reset(j)

Purge ==
    /\ CleanupPurge
    /\ progress' = [j \in Jobs |->
                       IF jobs'[j].status = "deleted" THEN NULL ELSE progress[j]]

\* Expiry, release, finish and cancel keep what was reported.
Other ==
    /\ \/ CleanupFails \/ Tick \/ WorkerStep
       \/ \E now \in Nows : CleanupExpire(now)
       \/ \E j \in Jobs, now \in Nows :
             \/ \E type \in Types, priority \in Priorities, maxRun \in MaxRuns,
                   maxAttempt \in MaxAttempts, methods \in MethodCounts :
                     CreateJob(j, type, priority, maxAttempt, maxRun, methods, now)
             \/ CancelJob(j, now)
             \/ \E priority \in Priorities : SetPriority(j, priority)
       \/ \E j \in Jobs, w \in Workers :
             \E token \in DOMAIN jobs[j].attempts :
                 \E now \in HolderNows(j, token) :
                     \/ FinishSuccess(j, w, token, now)
                     \/ FinishFailure(j, w, token, now)
                     \/ ReleaseJob(j, w, token, now)
    /\ UNCHANGED progress

ProgressNext ==
    \/ \E w \in Workers, type \in Types, j \in Jobs, now \in Nows :
          Claim(w, type, j, now)
    \/ \E j \in Jobs, w \in Workers :
          \E token \in DOMAIN jobs[j].attempts :
              \E now \in HolderNows(j, token), body \in Bodies :
                  Heartbeat(j, w, token, now, body)
    \/ \E j \in Jobs, now \in Nows :
          \/ Retry(j, now)
          \/ \E options \in Replays : Replay(j, options, now)
          \/ Delete(j)
    \/ Purge
    \/ Other

ProgressInit == Init /\ progress = [j \in Jobs |-> NULL]

ProgressSpec == ProgressInit /\ [][ProgressNext]_progressVars

-----------------------------------------------------------------------------
(* The screens. *)

\* Mutant: a step that runs when its job ends is shown to run.
ShownStepStatusAsSent(status, job) ==
    IF job.status = "success" /\ status \in {"running", "pending"} THEN "done"
    ELSE status

\* A step last reported as running is stale once the job stopped running, and a
\* succeeded job is taken to have finished all.
ShownStepStatus(status, job) ==
    CASE job.status = "success" /\ status \in {"running", "pending"} -> "done"
      [] job.status \notin {"success", "running"} /\ status = "running" -> "stopped"
      [] OTHER -> status

First(steps, status) ==
    LET found == {i \in DOMAIN steps : steps[i].status = status}
    IN  IF found = {} THEN NULL
        ELSE steps[CHOOSE i \in found : \A k \in found : i <= k].id

\* The step to name next to the bar.
CurrentStep(job, steps) ==
    CASE job.status = "running" -> First(steps, "running")
      [] job.status \in {"failed", "cancelled"} ->
             IF First(steps, "failed") # NULL THEN First(steps, "failed")
             ELSE First(steps, "running")
      [] OTHER -> NULL

\* In the row of the list; nothing of a job that waits or has succeeded.
ProgressBar(job, steps) ==
    IF steps = << >> \/ job.status \in {"pending", "success"} THEN NULL
    ELSE [step |-> CurrentStep(job, steps), running |-> job.status = "running"]

\* In the panel.
ProgressCard(job, steps) ==
    IF steps = << >> THEN NULL
    ELSE [lastAttempt |-> job.status = "pending",
          items |-> [i \in DOMAIN steps |->
                        [id |-> steps[i].id,
                         shown |-> ShownStepStatus(steps[i].status, job)]]]

-----------------------------------------------------------------------------

\* The steps a job has are those of its newest run, whoever held it before and
\* however that run was lost, reclaimed or given back; and of a run that an
\* operator's requeue left behind nothing is shown (claim_job, retry_job,
\* replay_job).
StepsAreOfTheRun ==
    \A j \in Shown : \A i \in DOMAIN Steps(j) :
        LET job == jobs[j]
        IN  /\ Steps(j)[i].run = Newest(job)
            /\ job.requeued # NULL =>
                   job.attempts[Newest(job)].started >= job.requeued

\* The card and the bar tell of a job what it is: a step is said to run only in
\* a run that is held; a step is said to be done only if its worker said so or
\* succeeded; and the step named beside the bar looks so on the card.  Exempt is
\* a replay that was undone, which is a success again with the steps of the run
\* that was not (job-cells.tsx, progress-card.tsx).
TrueOf(job, steps) ==
    LET card == ProgressCard(job, steps)
        bar == ProgressBar(job, steps)
        newest == job.attempts[Newest(job)]
        look(id) == card.items[CHOOSE i \in DOMAIN card.items :
                                   card.items[i].id = id].shown
    IN  card # NULL =>
            /\ \A i \in DOMAIN card.items :
                  /\ card.items[i].shown = "running" => newest.outcome = NULL
                  /\ card.items[i].shown = "done" =>
                        \/ steps[i].status = "done"
                        \/ newest.outcome = "succeeded"
                        \/ newest.replay
            /\ card.lastAttempt => newest.outcome # NULL
            /\ bar # NULL /\ bar.step # NULL =>
                  IF bar.running THEN look(bar.step) = "running"
                  ELSE look(bar.step) \in {"failed", "stopped"}

StepsShownAreTrue == \A j \in Shown : TrueOf(jobs[j], Steps(j))

\* What is shown of the steps of a job is of its newest run, and true of it.
StepsSpeakOfTheRun == StepsAreOfTheRun /\ StepsShownAreTrue

\* "Steps are never removed", "order is the order ids were first seen", and
\* "progress [is] kept through lease expiry/reclaim and after finish"
\* (WORKER.md): until the next claim or requeue the steps of a job only grow at
\* the end, up to the limit, and change only while the job runs.
StepsStay ==
    [][\A j \in Jobs :
          /\ Exists(j) /\ jobs[j]'.status # "deleted"
          /\ Newest(jobs[j]') = Newest(jobs[j])
          /\ jobs[j].status \in {"pending", "running"}
                \/ jobs[j]'.status # "pending"
          => /\ \A i \in DOMAIN Steps(j) :
                    i \in DOMAIN Steps(j)' /\ Steps(j)'[i].id = Steps(j)[i].id
             /\ Len(Steps(j)') <= MAX_PROGRESS_STEPS
             /\ Steps(j)' # Steps(j) => jobs[j]'.status = "running"]_progressVars

=============================================================================
