------------------------------ MODULE Overview ------------------------------
(***************************************************************************)
(* The Overview screen: the answer of GET /overview (be/stats.py) and what *)
(* the screen makes of it (fe/src/features/overview).                      *)
(*                                                                         *)
(* The connection has no transaction open, so each SELECT of the answer    *)
(* sees the store at a moment of its own, and the store goes on between    *)
(* them.  The SELECTs after the one for the workers are made at once.      *)
(* Run times (the p95 of a type), step progress and styling are left out.  *)
(***************************************************************************)
EXTENDS JobStore, Collections

CONSTANTS
    ConcurrentLimit,   \* the slots of each worker
    Ip,                \* the machine of each worker
    HideMs,            \* OFFLINE_HIDE_MS: 24 h
    DayMs,             \* DAY_MS: 24 h
    AlertWorkerMs,     \* ALERT_WORKER_MS: 1 h
    AlertAttemptMs,    \* ALERT_ATTEMPT_MS: 15 min
    QueueWarnMs,       \* 5 min, thresholds.ts
    SmallSample,       \* SMALL_SAMPLE: 20
    MaxShown           \* MAX_SHOWN: 3 workers in the banner

ASSUME OverviewAssumption ==
    /\ ConcurrentLimit \in [Workers -> Nat \ {0}]
    /\ DOMAIN Ip = Workers
    /\ {HideMs, DayMs, AlertWorkerMs, AlertAttemptMs, QueueWarnMs,
        SmallSample, MaxShown} \subseteq Nat
    /\ AlertWorkerMs <= HideMs

VARIABLES
    answer,    \* the answer as far as it is read, NULL when nobody asks
    touched,   \* log: jobs whose status or worker changed since it was asked for
    beaten     \* log: workers whose lease changed since

readVars == <<answer, touched, beaten>>

MinOf(S) == CHOOSE x \in S : \A y \in S : x <= y

-----------------------------------------------------------------------------
(* The SELECTs. *)

Counts == [s \in {"pending", "running", "success", "failed", "cancelled"} |->
              Cardinality({j \in Jobs : jobs[j].status = s})]

\* Mutant: leaves out a run whose lease ran out.
RunningLeased(now) ==
    [j \in {j \in Jobs : jobs[j].status = "running" /\ jobs[j].until > now} |->
        jobs[j].worker]

\* The worker of each running job.
Running(now) ==
    [j \in {j \in Jobs : jobs[j].status = "running"} |-> jobs[j].worker]

\* list_workers, without those that have long been silent.
ListWorkers(now) ==
    [w \in {w \in Registered : leases[w] >= now - HideMs} |-> leases[w]]

Queues ==
    LET pending(t) == {j \in Jobs : jobs[j].status = "pending" /\ jobs[j].type = t}
    IN  [t \in {t \in Types : pending(t) # {}} |->
            [pending |-> Cardinality(pending(t)),
             oldest |-> MinOf({jobs[j].available : j \in pending(t)})]]

\* Mutant: what is not a success is a failure.
FinishedAll(start, end) ==
    LET ended(S) == {j \in Jobs : /\ jobs[j].status \in S
                                  /\ jobs[j].finished >= start
                                  /\ jobs[j].finished < end}
    IN  [success |-> Cardinality(ended({"success"})),
         failed |-> Cardinality(ended({"failed", "cancelled"}))]

Finished(start, end) ==
    LET ended(s) == {j \in Jobs : /\ jobs[j].status = s
                                  /\ jobs[j].finished >= start
                                  /\ jobs[j].finished < end}
    IN  [success |-> Cardinality(ended("success")),
         failed |-> Cardinality(ended("failed"))]

LostWorkers(now) ==
    {[kind |-> "worker_lost", worker |-> w, job |-> NULL, at |-> leases[w]] :
        w \in {w \in Registered : leases[w] \in (now - AlertWorkerMs)..now}}

ExpiredAttempts(now) ==
    UNION {{[kind |-> "attempt_expired", worker |-> jobs[j].attempts[k].worker,
             job |-> j, at |-> jobs[j].attempts[k].ended] :
               k \in {k \in DOMAIN jobs[j].attempts :
                         /\ jobs[j].attempts[k].outcome \in
                               {"lease_expired", "deadline_exceeded"}
                         /\ jobs[j].attempts[k].ended >= now - AlertAttemptMs}} :
           j \in Jobs}

-----------------------------------------------------------------------------
(* The answer, part by part. *)

Complete == answer # NULL /\ answer.part = "complete"

Ask(now) ==
    /\ answer = NULL
    /\ answer' = [part |-> "counts", now |-> now, counts |-> Counts]
    /\ touched' = {} /\ beaten' = {}
    /\ UNCHANGED vars

ReadRunning ==
    /\ answer # NULL /\ answer.part = "counts"
    /\ answer' = [part |-> "running", now |-> answer.now,
                  counts |-> answer.counts, running |-> Running(answer.now)]
    /\ UNCHANGED <<vars, touched, beaten>>

ReadWorkers ==
    /\ answer # NULL /\ answer.part = "running"
    /\ answer' = [part |-> "workers", now |-> answer.now,
                  counts |-> answer.counts, running |-> answer.running,
                  workers |-> ListWorkers(answer.now)]
    /\ UNCHANGED <<vars, touched, beaten>>

ReadRest ==
    /\ answer # NULL /\ answer.part = "workers"
    /\ LET now == answer.now
       IN  answer' = [part |-> "complete", now |-> now,
                      counts |-> answer.counts, running |-> answer.running,
                      workers |-> answer.workers, queues |-> Queues,
                      finished |-> Finished(now - DayMs, now + 1),
                      previous |-> Finished(now - 2 * DayMs, now - DayMs),
                      alerts |-> LostWorkers(now) \cup ExpiredAttempts(now)]
    /\ UNCHANGED <<vars, touched, beaten>>

ReadStep == (\E now \in Nows : Ask(now)) \/ ReadRunning \/ ReadWorkers \/ ReadRest

\* The store goes on; a complete answer has been sent and is forgotten.
Meanwhile ==
    /\ answer' = IF Complete THEN NULL ELSE answer
    /\ IF answer = NULL \/ Complete
       THEN touched' = {} /\ beaten' = {}
       ELSE /\ touched' = touched \cup
                  {j \in Jobs : \/ jobs'[j].status # jobs[j].status
                                \/ jobs'[j].worker # jobs[j].worker
                                \/ jobs'[j].finished # jobs[j].finished}
            /\ beaten' = beaten \cup {w \in Workers : leases'[w] # leases[w]}

OverviewInit == Init /\ answer = NULL /\ touched = {} /\ beaten = {}

OverviewNext == ReadStep \/ (Next /\ Meanwhile)

OverviewSpec == OverviewInit /\ [][OverviewNext]_<<vars, readVars>>

-----------------------------------------------------------------------------
(* The fleet: functions of a complete answer `a`. *)

Connected(a, w) == a.workers[w] > a.now

JobsOf(a, w) == {j \in DOMAIN a.running : a.running[j] = w}

RowsOf(a) == DOMAIN a.workers
Live(a, W) == {w \in W : Connected(a, w)}

Total(W) == SumOf([w \in W |-> ConcurrentLimit[w]])
Busy(a, W) == SumOf([w \in W |-> Cardinality(JobsOf(a, w))])

\* Slots of a worker that answers; nothing of the jobs of one that does not.
WorkerRow(a, w) ==
    IF ~Connected(a, w) THEN [state |-> "stopped responding", slots |-> {}, idle |-> 0]
    ELSE LET free == ConcurrentLimit[w] - Cardinality(JobsOf(a, w))
         IN  [state |-> IF JobsOf(a, w) = {} THEN "idle" ELSE "busy",
              slots |-> JobsOf(a, w), idle |-> IF free > 0 THEN free ELSE 0]

Machine(a, ip) ==
    LET W == {w \in RowsOf(a) : Ip[w] = ip}
    IN  [rows |-> [w \in W |-> WorkerRow(a, w)],
         lost |-> Cardinality(W \ Live(a, W)),
         total |-> Total(Live(a, W)), busy |-> Busy(a, Live(a, W))]

PendingTone(wait) == IF wait # NULL /\ wait > QueueWarnMs THEN "warn" ELSE "fg"

Wait(a, t) == IF a.now > a.queues[t].oldest THEN a.now - a.queues[t].oldest ELSE 0

\* The longest of the waits, NULL when nothing waits.
OldestWait(a) ==
    IF DOMAIN a.queues = {} THEN NULL
    ELSE CHOOSE n \in {Wait(a, t) : t \in DOMAIN a.queues} :
            \A t \in DOMAIN a.queues : Wait(a, t) <= n

Lost(a) == {x.worker : x \in {x \in a.alerts : x.kind = "worker_lost"}}

FailedShown(a) == Min2(a.counts["failed"], a.finished.failed)

\* Mutant: a queue backs up only when there are more jobs than slots.
FleetVerdictOver(a) ==
    CASE Cardinality(Lost(a)) > 0 -> "stopped responding"
      [] Cardinality(Lost(a)) = 0 /\ FailedShown(a) > 0 -> "jobs failed"
      [] OTHER -> IF /\ Busy(a, Live(a, RowsOf(a))) > Total(Live(a, RowsOf(a)))
                     /\ PendingTone(OldestWait(a)) = "warn"
                  THEN "queue backing up" ELSE "all clear"

\* Is anything wrong?  The most severe issue first.
FleetVerdict(a) ==
    CASE Cardinality(Lost(a)) > 0 -> "stopped responding"
      [] Cardinality(Lost(a)) = 0 /\ FailedShown(a) > 0 -> "jobs failed"
      [] OTHER -> IF /\ Busy(a, Live(a, RowsOf(a))) >= Total(Live(a, RowsOf(a)))
                     /\ PendingTone(OldestWait(a)) = "warn"
                  THEN "queue backing up" ELSE "all clear"

Fleet(a) ==
    [verdict |-> FleetVerdict(a), total |-> Total(Live(a, RowsOf(a))),
     busy |-> Busy(a, Live(a, RowsOf(a))),
     machines |-> [ip \in {Ip[w] : w \in RowsOf(a)} |-> Machine(a, ip)]]

-----------------------------------------------------------------------------
(* The banner. *)

\* What there is to say of each worker.
Groups(a) ==
    LET of(w) == {x \in a.alerts : x.worker = w}
    IN  {[worker |-> w,
          lost |-> \E x \in of(w) : x.kind = "worker_lost",
          jobs |-> {x.job : x \in of(w)} \ {NULL},
          latest |-> CHOOSE t \in {x.at : x \in of(w)} : \A x \in of(w) : x.at <= t] :
            w \in {x.worker : x \in a.alerts}}

\* Mutant: the operands of the first comparison are swapped.
GroupAlertsLostLast(a) ==
    Sorted(Groups(a), LAMBDA g, h :
               IF g.lost = h.lost THEN g.latest > h.latest ELSE h.lost)

\* One entry for each worker, lost workers first, then the most recent.
GroupAlerts(a) ==
    Sorted(Groups(a), LAMBDA g, h :
               IF g.lost = h.lost THEN g.latest > h.latest ELSE g.lost)

\* "Stopped responding", "... while running", or "timed out on".
AlertText(g) ==
    [says |-> IF g.lost THEN "stopped responding" ELSE "timed out on",
     worker |-> g.worker, jobs |-> g.jobs]

AlertBanner(a) ==
    LET groups == GroupAlerts(a)
        n == Min2(Len(groups), MaxShown)
    IN  [shown |-> [i \in 1..n |-> AlertText(groups[i])], more |-> Len(groups) - n]

-----------------------------------------------------------------------------
(* The figures. *)

QueueRows(a) ==
    Sorted({[type |-> t, pending |-> a.queues[t].pending,
             tone |-> PendingTone(Wait(a, t))] : t \in DOMAIN a.queues},
           LAMBDA q, r : q.pending > r.pending)

\* A percentage rounded down, or "n of total" of a small sample.
SuccessShown(f) ==
    LET total == f.success + f.failed
    IN  CASE total = 0                      -> [kind |-> "none", n |-> 0]
          [] 0 < total /\ total < SmallSample -> [kind |-> "of total", n |-> f.success]
          [] OTHER -> [kind |-> "percent", n |-> (100 * f.success) \div total]

KpiCard(a) ==
    [pending |-> a.counts["pending"], tone |-> PendingTone(OldestWait(a)),
     rows |-> QueueRows(a), success |-> SuccessShown(a.finished),
     failed |-> a.finished.failed,
     below |-> CASE a.counts["failed"] > 0                             -> "retry all"
                 [] a.counts["failed"] = 0 /\ a.finished.failed > 0 -> "none still failed"
                 [] OTHER                                              -> "none in 24h"]

OverviewScreen(a) == [banner |-> AlertBanner(a), fleet |-> Fleet(a), kpis |-> KpiCard(a)]

-----------------------------------------------------------------------------
(* Invariants of a complete answer, which nothing makes one moment's. *)

Rows(a) == UNION {{[worker |-> w, row |-> Fleet(a).machines[ip].rows[w]] :
                      w \in DOMAIN Fleet(a).machines[ip].rows} :
                  ip \in DOMAIN Fleet(a).machines}

\* Every job that ran all the while is in a slot of its worker and of no other,
\* or its worker's row says that it stopped responding, or its worker has no row:
\* it has been silent for longer than OFFLINE_HIDE_MS, or was until it came back
\* while the answer was read (stats.py overview, fleet.tsx WorkerRow).
UntouchedJobsHaveAPlace ==
    Complete =>
        \A j \in Jobs \ touched :
            jobs[j].status = "running" =>
                \/ {x.worker : x \in {x \in Rows(answer) : j \in x.row.slots}}
                      = {jobs[j].worker}
                \/ [worker |-> jobs[j].worker,
                    row |-> [state |-> "stopped responding", slots |-> {}, idle |-> 0]]
                      \in Rows(answer)
                \/ /\ jobs[j].worker \in Registered \ RowsOf(answer)
                   /\ \/ jobs[j].worker \in beaten
                      \/ leases[jobs[j].worker] < answer.now - HideMs

\* The figures that are read apart differ by no more than the jobs that changed
\* in between: the count of waiting jobs and the rows of the queues, the slots in
\* use and the count of running jobs, the failed of 24 h and the failed now.
FiguresAgree ==
    Complete =>
        LET n == Cardinality(touched)
            rows == KpiCard(answer).rows
            queued == SumOf([i \in DOMAIN rows |-> rows[i].pending])
        IN  /\ queued \in (answer.counts["pending"] - n)..(answer.counts["pending"] + n)
            /\ Fleet(answer).busy <= answer.counts["running"] + n
            /\ answer.finished.failed <= answer.counts["failed"] + n
            /\ KpiCard(answer).below = "none still failed" => n > 0

\* A worker that the banner says is lost, and that did not come back in
\* between, has the row of one that stopped responding; a row that stopped
\* responding within ALERT_WORKER_MS is in the banner or counted below it, and a
\* lost worker never gives way there to one that only timed out (stats.py
\* _alerts, summary.ts groupAlerts).
LostWorkersAreAnnounced ==
    Complete =>
        LET shown == AlertBanner(answer).shown
            lost == {shown[i].worker : i \in {i \in DOMAIN shown :
                                                shown[i].says = "stopped responding"}}
            silent == {x.worker : x \in {x \in Rows(answer) :
                                             x.row.state = "stopped responding"}}
        IN  /\ lost \ beaten \subseteq silent
            /\ \A w \in silent \ beaten :
                   leases[w] >= answer.now - AlertWorkerMs =>
                       \/ w \in lost
                       \/ /\ AlertBanner(answer).more > 0
                          /\ Cardinality(lost) = Len(shown)

\* "All clear" is only said when no job of which nothing changed meanwhile failed
\* within 24 h, no worker was lost within the hour, and no job waits for longer
\* than five minutes with every slot taken (summary.ts fleetVerdict).
AllClearIsTrue ==
    Complete /\ Fleet(answer).verdict = "all clear" =>
        /\ \A j \in Jobs \ touched :
               /\ ~(/\ jobs[j].status = "failed"
                    /\ jobs[j].finished \in (answer.now - DayMs)..answer.now)
               /\ jobs[j].status = "pending"
                      /\ jobs[j].available < answer.now - QueueWarnMs
                  => \E x \in Rows(answer) : x.row.idle > 0
        /\ \A w \in Registered \ beaten :
               leases[w] \notin (answer.now - AlertWorkerMs)..answer.now

=============================================================================
