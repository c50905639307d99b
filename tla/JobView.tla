------------------------------ MODULE JobView ------------------------------
(***************************************************************************)
(* What the control room says of a job (fe/src/features): the row of the   *)
(* list, the card of the small screen and the detail panel, as functions   *)
(* of a row of the store and of the browser's `now`.  The texts are        *)
(* reduced to what they claim: an attempt number, a time span, what will   *)
(* happen next.  Styling is left out; step progress is in Progress.tla.    *)
(*                                                                         *)
(* The panel is computed from rows that the store can be in, so what it    *)
(* claims is checked against the store's own rules.                        *)
(***************************************************************************)
EXTENDS JobStore

\* What the panel shows of a lease and a deadline is not NULL.
ASSUME ViewAssumption == NULL \notin {"left", "expired", "ahead", "passed"}

-----------------------------------------------------------------------------
(* The list. *)

\* The n of "n/max": attempts that count, and the one under way.
AttemptsShown(job) ==
    UsedAttempts(job) + (IF job.status = "running" THEN 1 ELSE 0)

Span(kind, ms) == [kind |-> kind, ms |-> ms]

\* Of a pending job the time until it is ready, or since; of another the time
\* it has run.
ShownDuration(job, now) ==
    CASE job.status = "pending" ->
             IF now < job.available THEN Span("ready", job.available - now)
             ELSE Span("waiting", now - job.available)
      [] job.status # "pending" /\ job.started = NULL -> NULL
      [] job.status = "running" -> Span("running", now - job.started)
      [] OTHER -> Span("finished", job.finished - job.started)

\* The worker that has the job, else the last one that had it.
WorkerOf(job) ==
    CASE job.worker # NULL                           -> job.worker
      [] job.worker = NULL /\ job.attempts # << >>   ->
             job.attempts[Newest(job)].worker
      [] OTHER                                       -> NULL

ErrorLine(job) == IF job.status = "failed" THEN job.error ELSE NULL

TableRow(job, now) ==
    [worker |-> WorkerOf(job), duration |-> ShownDuration(job, now),
     attempts |-> AttemptsShown(job), error |-> ErrorLine(job),
     started |-> IF job.status = "pending" THEN NULL ELSE job.started]

\* The card leaves out a first attempt that has not failed.
Card(job, now) ==
    [TableRow(job, now) EXCEPT
        !.attempts = IF @ > 1 \/ job.status = "failed" THEN @ ELSE NULL]

-----------------------------------------------------------------------------
(* The panel. *)

\* Mutant: a job that ran once is shown with that run.
HeroElapsedOld(job, now) ==
    CASE job.status = "running" -> Span("running", now - job.started)
      [] job.started # NULL /\ job.finished # NULL ->
             Span("finished", job.finished - job.started)
      [] job.status = "pending" ->
             IF job.available > now THEN Span("ready", job.available - now)
             ELSE Span("waiting", now - job.available)
      [] OTHER -> NULL

HeroElapsed(job, now) ==
    CASE job.status = "running" /\ job.started # NULL ->
             Span("running", now - job.started)
      [] job.status = "pending" ->
             IF job.available > now THEN Span("ready", job.available - now)
             ELSE Span("waiting", now - job.available)
      [] job.status \notin {"running", "pending"}
             /\ job.started # NULL /\ job.finished # NULL ->
             Span("finished", job.finished - job.started)
      [] OTHER -> NULL

\* Mutant: speaks of the last attempt whatever became of the job.
RetryNoteAlways(job) ==
    IF job.status # "pending" \/ job.attempts = << >> THEN NULL
    ELSE [failed |-> Newest(job), next |-> UsedAttempts(job) + 1]

\* Of a pending job whose last attempt counted and did not succeed: which one
\* it was, and which of max_attempt comes next.
RetryNote(job) ==
    IF \/ job.status # "pending"
       \/ UsedAttempts(job) = 0
       \/ job.attempts[Newest(job)].outcome \in {NULL, "succeeded"}
    THEN NULL
    ELSE [failed |-> Newest(job), next |-> UsedAttempts(job) + 1]

Hero(job, now) ==
    LET note == RetryNote(job)
    IN  [elapsed |-> HeroElapsed(job, now), note |-> note,
         error |-> IF note = NULL /\ job.status = "failed" THEN job.error ELSE NULL]

\* `retries`: the lease is noted with "the job will be retried".
Facts(job, now) ==
    [lease |-> IF job.status # "running" THEN NULL
               ELSE IF job.until - now > 0 THEN "left" ELSE "expired",
     retries |-> job.status = "running" /\ job.until - now <= 0,
     deadline |-> IF job.status # "running" THEN NULL
                  ELSE IF job.deadline - now > 0 THEN "ahead" ELSE "passed",
     finished |-> job.finished # NULL /\ job.status \notin {"running", "pending"}]

\* Later starts stand above earlier ones; attempts that started at once stay in
\* their order.
StandsAbove(job, a, b) ==
    LET start(k) == job.attempts[k].started
    IN  start(a) > start(b) \/ (start(a) = start(b) /\ a < b)

\* The attempts from the newest start to the oldest: the i-th has i - 1 above it.
Timeline(job) ==
    [i \in DOMAIN job.attempts |->
        CHOOSE k \in DOMAIN job.attempts :
            Cardinality({m \in DOMAIN job.attempts : StandsAbove(job, m, k)}) = i - 1]

\* "Requeued" stands above the first attempt that did not start after it.
AboveMarker(job) ==
    {k \in DOMAIN job.attempts :
        \/ job.requeued = NULL
        \/ \A m \in DOMAIN job.attempts :
              job.attempts[m].started <= job.requeued => StandsAbove(job, k, m)}

Panel(job, now) ==
    [hero |-> Hero(job, now), facts |-> Facts(job, now), items |-> Timeline(job),
     aside |-> AttemptsShown(job),
     result |-> IF job.status = "success" THEN job.result ELSE NULL]

-----------------------------------------------------------------------------
(* Invariants, each the conjunction of the parts named before it. *)

Shown == {j \in Jobs : Exists(j)}

\* What is shown as the time a job has run is the time of one run: of the one
\* under way, or of the one that gave a success or a failure, also when the job
\* was reclaimed, replayed or restored in between (job-cells.tsx jobDuration).
DurationIsThatOfARun ==
    \A j \in Shown :
        LET job == jobs[j]
            shown == ShownDuration(job, clock)
        IN  /\ job.status = "running" =>
                  shown.ms = clock - job.attempts[Newest(job)].started
            /\ job.status \in {"success", "failed"} =>
                  \E k \in DOMAIN job.attempts :
                      /\ job.attempts[k].ended = job.finished
                      /\ shown.ms = job.attempts[k].ended - job.attempts[k].started

\* The row, the card and the panel, which compute the same figures apart, never
\* disagree on a job (job-cells.tsx, wording.ts, job-detail.tsx).
RowAgreesWithPanel ==
    \A j \in Shown :
        LET row == TableRow(jobs[j], clock)
            card == Card(jobs[j], clock)
            panel == Panel(jobs[j], clock)
        IN  /\ row.duration = panel.hero.elapsed
            /\ row.error = panel.hero.error
            /\ card.attempts \in {panel.aside, NULL}
            /\ card.duration # NULL => card.duration.ms = panel.hero.elapsed.ms
            /\ row.worker = NULL <=> panel.items = << >>
            /\ panel.result # NULL => panel.facts.finished

\* What the list and the panel say of the time a job has run is true, and the same.
RunTimesAreTrue == DurationIsThatOfARun /\ RowAgreesWithPanel

\* No attempt is dated from the requeue to `lag` after it: it is clear from the
\* row which attempts are those of before.
StartsApart(job, lag) ==
    job.requeued = NULL
    \/ \A k \in DOMAIN job.attempts :
          job.attempts[k].started \notin job.requeued..(job.requeued + lag)

\* The "n of max" beside the timeline counts the attempts above "Requeued" that
\* were not released.  The store counts with >= and the panel places with <=, so
\* a start in the millisecond of the requeue is counted but stands below.
MarkerSplitsTheBudget ==
    \A j \in Shown :
        LET job == jobs[j]
        IN  StartsApart(job, 0)
            => AttemptsShown(job) =
                 Cardinality({k \in AboveMarker(job) :
                                  job.attempts[k].outcome # "released"})

\* "Attempt k failed ... (attempt n of max)": the attempt was the newest one,
\* another that counts follows, and n is within max.  Exempt is a requeue that
\* counts a run of before: in its millisecond, see RetryGivesFreshBudget, or
\* dated later, when the request read the clock before it (wording.ts retryNote).
RetryNoteIsTrue ==
    \A j \in Shown :
        LET job == jobs[j]
            note == RetryNote(job)
        IN  note # NULL /\ StartsApart(job, RequestLag)
            => /\ note.next <= job.maxAttempt
               /\ job.replay = NULL
               /\ note.failed \in AboveMarker(job)

\* The panel says "Expired" of a lease exactly when the next request on the job
\* takes it away, "passed" of a deadline exactly when it is that which ends the
\* run, and shows neither of a job that does not run.  Of an expired lease it
\* says "the job will be retried": the store does exactly when the n of the
\* "n of max" is below max and the job is no replay (facts.tsx, _expire_if_due).
LeaseShownIsTheStores ==
    \A j \in Shown :
        LET facts == Facts(jobs[j], clock)
            due == ExpireIfDue(jobs[j], clock)
        IN  /\ facts.lease = "expired" <=> due # jobs[j]
            /\ facts.deadline = "passed" <=> PastDeadline(jobs[j], clock)
            /\ facts.deadline = "passed" => facts.lease = "expired"
            /\ facts.finished <=> IsTerminal(jobs[j])
            /\ facts.retries =>
                  (due.status = "pending" <=>
                       /\ AttemptsShown(jobs[j]) < jobs[j].maxAttempt
                       /\ jobs[j].replay = NULL)

\* What the panel says of attempts and leases is what the store counts and does.
PanelSpeaksForTheStore ==
    MarkerSplitsTheBudget /\ RetryNoteIsTrue /\ LeaseShownIsTheStores

=============================================================================
