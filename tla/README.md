# simple-jobs-store: verification project

TLA+ models of the job store (`be/`, Python, FastAPI and SQLite), checked with TLC, and proofs
about them checked with TLAPS. A *row* below is a row of the table `jobs` together with its rows
of `job_attempts`.

## 1. The system

Providers create jobs, workers claim them over HTTP under a lease and report how they ended, and
the store tells the providers. Execution is at least once: a worker that falls silent loses its
job to another. One backend process owns one SQLite file.

| Component | State | Operations | What makes it correct |
|---|---|---|---|
| Job rows (`be/store.py`, `be/domain.py`, `be/db.py`) | `jobs`, `job_attempts` | create, claim, heartbeat, finish, release, cancel, retry, replay, set priority, delete | one open attempt exactly while the job runs, never past its deadline, never more runs than `max_attempt`; an old worker cannot touch a job that moved on; a replay cannot lose the success it started from |
| Worker registry | `workers.lease_until` | register, heartbeat, forget | a job's worker is always in the table |
| Claim order (`_CLAIM_SQL`) | none | pick | no job goes back to a worker that sent it back while another waits |
| Cleaner (`be/api/app.py`) | the thread's `now` between its two transactions | revoke expired leases, purge | every run ends, every finished job is purged |
| Reporter (`be/api/app.py`, `be/reports.py`) | the send under way; the report columns of a row | take due report, send, record | `success` means the provider acknowledged this outcome; a send is never forgotten and never repeated for ever |
| Manual sends (`be/api/jobs.py`) | one HTTP request each | check, send, record | shown only with the report it belongs to |
| Step progress | `jobs.progress` | upsert on heartbeat, reset | the steps of a job are those of its newest run, and stay until the next |
| HTTP layer (`be/api`) | one clock reading per request | routes, validation, bulk | a bulk action is a series of single ones |
| Statistics and lists (`be/stats.py`, the SELECTs of `be/store.py`) | none | `GET /overview`, `/stats`, `/workers`, `/attempts`, `/jobs` | windows, buckets, rates and counts agree with the rows and with each other, also when an answer is read in parts |
| Example worker (`worker-example/worker.py`) | two heartbeat threads, `done`, `lost` | loop | every claim is finished, released or lost |
| Control room, its actions (`fe/src/api`, `fe/src/features/jobs`) | copies of jobs, selection, open dialog, requests in flight | poll, select, open a panel, act on one job or on many | offers only what the store accepts; a control is free again when its effect shows; an outage is shown while it lasts |
| Control room, what it says (`fe/src/features`) | none | rows, cards, panel, report card, Overview, Stats and Machines screens | what a screen claims of a job, a worker or the fleet is true of the store it was read from |

Interaction: every write is one `BEGIN IMMEDIATE` transaction, so operations are atomic against
each other, and the hard cases lie *between* transactions:

- a request reads the clock before it gets the write lock, so a later transaction may carry an
  earlier `now` (`be/api/deps.py:38`);
- a worker's call may come after its lease expired, before or after the cleaner noticed, and then
  takes the job back if nobody else did (`_hold`, `_reclaim_lease`);
- the reporter and a manual send hold a job's data during an HTTP request while the job moves on;
- the process may die at any point, leaving a report `reporting` and a cleanup half done;
- cleanup is two transactions with one `now`;
- an answer of `GET /overview` is several SELECTs without a transaction, and the store goes on between
  them;
- the control room shows copies that are seconds old, and an operator acts on what they show; and it
  decides once more, from the columns of a row, what the store decides: which attempts count, whose a
  lease is, what was reported to whom.

PROJECT.json lists these hazards at their lines.

## 2. The modules

| Module | Models |
|---|---|
| `JobRow` | one row and what each operation does to it, as functions of the row and `now` |
| `JobLife` | what the backend promises about the life of a job, without clocks, leases and attempts; `JobStore` implements it |
| `JobStore` | the tables, one action per operation of `be/store.py`, the cleaner, the clock |
| `ReportDelivery` | `JobStore` with the reporter, its provider, manual sends and crashes of the process |
| `WorkerLoop` | processes of the example worker with their heartbeat threads, and the network between them and `JobStore` |
| `ControlRoom` | the Jobs screen: polled copies, its controls, and their requests, over a store of which only the statuses are kept |
| `JobView` | what the list, the card of the small screen and the panel say of a job, over `JobStore` |
| `ReportView` | what the report card says of the sends, over `ReportDelivery` |
| `Progress` | `JobStore` with the steps that heartbeats report, and what bar and card make of them |
| `Overview` | `JobStore` with an answer of `GET /overview` that is read in parts, and the Overview screen |
| `Stats` | `GET /stats` and the Stats screen, over `JobStore` |
| `MachinesView` | `JobStore` with the polled answers of the Machines screen, its lanes and its drawer, over `Stats` |
| `Collections` | sorted lists and sums, as the SELECTs and the screens use them |
| `MCJobStore`, `MCStats`, `MCScreens`, `MCProgress`, `MCReportDelivery`, `MCWorkerLoop`, `MCControlRoom` | instances for TLC |
| `JobStore_proofs` | proofs about rows and tables |
| `JobStoreRows_proofs` | what rows keep: times, budget, report, log, a kept success; what a purge takes |
| `JobLife_proofs`, `JobStoreLife_proofs` | what follows from the promise; the store keeps it |
| `ReportDelivery_proofs` | what a report says was told; the whole backend keeps the store's promise |
| `WorkerLoop_proofs` | the example worker takes steps of the store, runs nothing twice before a loss and leaves nothing behind |
| `Screens_proofs` | run times, timeline, notes and facts of `JobView`; jobs, figures, verdict and banner of an overview; rates, runs and buckets of `Stats`; lanes of `MachinesView`; steps of `Progress` |
| `ControlRoom_proofs` | the screen's safety; what the screen assumes of the store is what `JobLife` promises |

### JobRow

A row is a record with the columns under shorter names (`until` is `lease_until`, `available` is
`available_at`, and so on). `attempts` is the sequence of its attempts; `jobs.attempt` is its
length. Deleted rows keep an id that is never given again (AUTOINCREMENT), so a row has the status
`"none"` before and `"deleted"` after its life.

Abstractions:

- A lease token is the number of the attempt it was issued for: tokens are fresh random strings
  and are compared only with tokens of the same job.
- A result is the number of the attempt that sent it. Errors of workers are one value.
- `report_methods` is the length of the list; the URLs are data. `report_sends` is the set of
  indexes that have an entry.
- `min(base * 2 ** (n - 1), cap)` is `Capped`: the same for every `n` an operation can produce,
  which `BudgetCountsNewest` and `ScheduleInRange` show never to be below 1.
- `description`, `error_detail`, `updated_at`, `created_at`, and name, ip and limit of a worker are
  left out; no guard reads them. `progress` is added by the module `Progress`, ip and limit by
  `Overview`, as constants.

Each operator stands for a helper of `store.py` or for the UPDATE of an operation: `ExpireIfDue`
for `_expire_if_due`, `RetryOrFail` for `_retry_or_fail`, `RestoreSuccess` for `_restore_success`,
`Hold` for `_hold`, and so on; PROJECT.json maps every one. `_hold` raises when the caller may not
have the job, which rolls the transaction back *with the expiry it may have written*: hence
`CanHold` and `CanReclaim` are guards on the expired row, and the action writes nothing when they
fail.

### JobStore

`jobs`, `leases` (a worker's `lease_until`, NULL when unknown), `clock`, and `cleaner` (the `now`
of a cleanup between its two transactions). An action of the model is one transaction. `Nows` is
what a request may have read from the clock: anything of the last `RequestLag` units. A worker
learns a token from the answer to its claim, so its calls read the clock no earlier than the claim
did (`HolderNows`). Workers, providers and operators are otherwise free: any call at any time, with
any token ever issued and under any worker's name, which includes zombies, duplicates and late
calls. The cleaner's transactions are `CleanupExpire` and `CleanupPurge`; `CleanupFails` is a
crash, or an exception that `_run_cleaner` logs, between them.

### JobLife

The abstract specification has one variable, the *life* of each job: its status, how many runs it
had, what the worker of the newest run may still do (`"held"`: it holds the job; `"lost"`: it fell
silent but may take the job up again; `"over"`), which run its result is from, and whether a replay
will end back at that result. There is no clock: a lease may lapse, and a run may fall, at any time,
and only *who may decide what, and what may follow what* is left, in eleven steps of a few lines.
`LifeOf` in `JobStore` maps a row to its life, and `Life` is the instance of `JobLife` on the mapped
table. The mapping shows why the store may forget the lease when it revokes it: the deadline that
stays in the row and the outcome `lease_expired` of the newest attempt together are the `"lost"`
claim, and `retry_job` and `replay_job` must clear the deadline to end it.

### ReportDelivery

Adds `sending` (the reporter's one send under way: its job, its token, the outcome it tells),
`manual` (one slot per concurrent operator request) and `acked` (the outcomes a provider answered
2xx for; only properties read it). `TakeDueReport` and `NothingDue` are the two ends of
`take_due_report`, both after counting the interrupted sends; `SendDelivered` and `SendFailed` are
`record_report`; `ReporterFails` is an exception that `_run_reporter` logs; `Crash` is the death of
the process: the database survives, everything in flight is gone. A provider that received a send
whose answer got lost is `SendFailed` or `Crash`. Sends have no maximal duration: httpx limits the
wait for each part of an answer, not the whole.

### WorkerLoop

`JobStore` lets workers do anything; `WorkerLoop` lets them do what `worker-example/worker.py` does.
A process is a place in its main loop (`main`), a place of the thread for its worker lease
(`keepalive`), the claim at hand and the event `lost` that the thread for the job lease may set; that
thread runs exactly while `BeatsJob` holds. A call is one step: the store does what it asks for
(`Accepted`), refuses (`Rejected`), or the process sees an `OSError` (`Unanswered`) and the request
stays on the way, in `late` if it carries a claim and in `adrift` if not, from where it reaches the store at any
later time (`Arrives`, `Drifts`) or gets lost. Its `now` is that of the server when it arrives, never before the
claim whose token it carries. A claim that timed out is such a request: the loop goes on, and the store may later
give the worker a job that the process does not know of. So is a heartbeat that is under way when `done` is set:
nobody looks at its answer. The loops send heartbeats and claims again and again, so one of them in `late` or
`adrift` stands for any number, and need not leave it when it arrives.
What an exception leaves alive follows the `except` clauses: an `OSError` ends the process in
`register` and `finish`, makes the loop go on in `claim` and the heartbeats, and ends the thread for
the worker lease in its own `register`. Process ids are not used twice, so a process that stopped
stays stopped. Operators forget any worker whose lease ran out (`Forget`), whether its process lives or not;
`forgotten` logs the claims it had been told of, which only properties read.

### ControlRoom

The store is reduced to the status of each job, and `past` logs the statuses after each change, so a
copy is simply the index of the log entry it was read from, and "old" means a smaller index. `Moves`
is what others may do to a job and `Outcomes` what an operator's request does to it;
`ControlRoom_proofs` shows that the steps of `JobLife`, hence of `JobStore`, are among them.

`query` holds the polled copies: the list, and the job in the panel. The list also stands for the
other queries that the page polls (counts, overview): they are fetched, invalidated and awaited
alike. What TanStack Query does is external and modelled from the options that `fe/src` gives it: a
fetch under way is joined by a poll; an invalidation cancels and repeats it if the query has data of
its own and joins it otherwise; an error stays beside data until the next answer, and without data
until the next fetch; `keepPreviousData` lets the list of the old key stand in for the new one. A
query that the screen has left is dropped, and a panel may be opened with any older copy of its job,
which covers the cache of five minutes. A change of filter, sort or page is a key not fetched before.

`request` has one slot for each request that may be in flight. A request is `unsent` (it cannot reach
the server), `sent`, `refetching` (answered, its `onSuccess` waits for the invalidated queries in
`await`), or an `orphan`, whose browser has given up while the server still works on it. `Handle` is
the server's transaction for one id; a bulk action is a series of them, between which everything else
may happen. `ours` says that the control that sent it is still mounted: a control that is drawn anew
does not know of the request. `dialog` is the confirmation and the copy it was offered on.

`Draw` is what rendering does to the state: unmounted controls lose their dialogs and requests.
`Settling` makes the callbacks of promises that are resolved come before other events of the browser,
as microtasks do; the server and the others do not wait for them.

Left out: the pause of fetches while `navigator.onLine` is false, hidden windows (they do not poll; the
fairness speaks of a visible one), the distinction of 5xx answers from other errors of a request, and
the actions of the other screens.

### What the screens say: JobView, ReportView, Progress, Stats, MachinesView, Overview

These modules translate the pure functions of `fe/src/features` and the SELECTs they read into
operators on the tables of `JobStore`. A text is reduced to what it claims: an attempt number, a span
of time, who holds the job, what will happen next. Their properties compare these claims with the
rules of the store, in every state the store can reach. That is where they could fail: the panel
repeats in TypeScript what `store.py` decides in SQL, from columns that half a dozen operations set,
keep and restore.

`Progress` is a state machine of its own: each of its actions is an action of `JobStore` with what it
does to the column `progress`. The attempt that sent a step is kept beside it, for the properties.

`Overview` is one as well. `Ask` is the request with its `now` and its first SELECT, the counts; then
come `ReadRunning`, `ReadWorkers`, and `ReadRest` with the SELECTs after the workers, which are taken
at once. Every action of `JobStore` may come in between. `touched` and `beaten` log which jobs and workers
changed while the answer was read, so that a property may say "nothing that stayed the same is lost".

`MachinesView` is the third. The screen joins the answers of four queries that are polled apart (the workers with
and without offline ones, the overview, the attempts for the lanes and for the drawer), each read once, in any
order (`PollStep`), the overview in its two SELECTs; `MachinesScreen` and `Drawer` are computed from what was read
and the browser's clock. The busy slots are those of the overview (`RunningOf`): none for a worker that it hides.
`moved` and `heard` log what changed. Left out are the heads of the machine groups, and the rows of another
worker that stand in while the drawer goes from one worker to the next.

`Stats` is a function of one state. `Sorted` of `Collections` is *some* list of a set in
the order asked for: `ORDER BY` leaves equal rows in any order, and no property may depend on it. `SumOf`
adds the values of a function. A rate is a pair of numbers, and `FormatRate` adds `1/Nudge` and rounds down as
`formatRate` does; that its floats give the same figure is `RatesReadDown` in section 5. `Rounded` is `Math.round`
of the exact number: the floats of `formatDelta` may round a tie the other way. Percentiles are reduced to their
samples.

## 3. The runs

Bounds are named in the cfg files. Time is counted in units in which the lease is 1, so one tick
is "a lease time later"; a run of 2 has a deadline one lease after the lease, which is what a
reclaim needs. `CrewSpec` starts with workers registered for the whole run, so the states go to
the jobs; `liveness` and the runs of `WorkerLoop` are those where they come and go.

| Run | Bounds | Question |
|---|---|---|
| `leases` | 1 job with reports, or without and then replayed (2 claims), 2 workers, clock 0..3, 3 claims, 2 attempts, run of 3 | lease, reclaim, cancel, retry and cleanup in every order: log and lease agree, deadline, budget, report withdrawn, history stable |
| `late_requests` | 1 job of 1 or 2 attempts (of 1 when it is replayed), 1 worker, replays that keep the old success, clock 0..3, `now` up to 1 late, 2 claims; window of 2 | transactions in the opposite order of their clock readings: `JobStore` implements `JobLife`; backoff exponent; a kept success; times in list and panel, what the panel says of attempts and leases is what the store counts and does, rates of the Stats screen |
| `progress` | 1 job, 1 worker, clock 0..2, 2 claims, 3 step ids, 3 statuses, at most 2 steps in a heartbeat and in the column | whose the steps of a job are, that they stay and stop at the limit, and what bar and card make of them |
| `screens` | 2 jobs, 2 workers with one slot on one machine, clock 3..4, hidden and lost workers at once; 1 change and no pause of the cleaner while answers are read. For the overview: one job retried after a failure, 2 priorities, 2 attempts in all. For the Machines screen: one job failed and running again, one running or cancelled before its start; lanes of 3, drawer of 4 with 1 ended attempt. Chart: window of 2 buckets of 2 | answers read apart: no running job is lost or shown twice, figures differ by what changed, verdict and banner say what is so; lanes, busy slots and drawer name the same runs; no job is in two bars, none missing but in the oldest part of the window; who gets which job |
| `liveness` | `FairDeliverySpec`: 1 job, 1 method, 2 rounds, 1 worker that registers, lapses, is forgotten, crashes of the process, clock 0..3, 1 claim | CHECKs and the foreign key; runs end, no report is stuck, finished jobs are purged |
| `delivery` | 1 job, 2 methods, 2 rounds, replays that keep, overwrite and report, 1 manual request, crashes, clock 0..3, 2 claims | the schedule of sends; what `success` and the manual sends mean; the lines of the report card |
| `worker_loop` | 1 job, 2 processes past their start, `now` up to 1 late, job lease 2, run of 3, clock 0..2, 2 claims that are answered, 1 other call late at a time, retries, replays that keep the old success | late and lost heartbeats and reports, Ctrl+C: no job is held by a process that is not at it, none is run twice at once unless the first run lost it |
| `worker_liveness` | 1 job, 1 process that operators may forget, any of its calls unanswered and late, clock 0..1, 2 claims | what it left it takes back by no late request, and a job it never learned of is free one lease later; a due job is run while a process lives, also when its heartbeat thread died |
| `control_room` | 2 jobs that have succeeded, 2 requests at once, 3 events, no panel, no retries of reads | rows and bulk bar with polls, filters, dialogs, changes by others and outages in every order: what is offered and accepted, one request per control, own writes are read |
| `control_room_live` | 1 job, panel, 1 request, 1 retry, 2 events | copies catch up, controls come back, the indicator follows the connection; own writes are read in the panel |
| `retry_budget` (violation) | 1 job | see Findings |
| `manual_send_of_old_report` (violation) | 1 job, 1 manual request | see Findings |

Operations touch one row each, except the claim's choice and the cleaner, so one job is enough for
everything but `screens`, where one is chosen before the other and figures are sums; two workers are
enough for "another worker took it". Two claims give a run and one after a retry, a requeue or a
replay; `leases` has three; the clock lets a lease and a deadline pass and a purge follow. One change
while an answer is read is enough to tear it: each property allows for as many differences as there
were changes, so the question is what a single one does. A worker lease that lapsed at 3 is hidden at 4
(`HideMs` is 0), so that the answer meets workers that are there, silent,
gone, and back again; the lanes have such workers from 4 on (`OfflineHideMs` is 1). The chart at 4 has a cancelled job in its oldest
part, and one at 3 has jobs in both bars. Two steps fill a column for two, and the
third id is the one that does not fit. The wrap-around of the report schedule, and what the card makes of it,
needs two methods and two rounds: `delivery` has both. What a late claim of a process or a forgotten
worker does is in `worker_liveness`, where one process is enough, and what two processes do to each other in
`worker_loop`, which has the late clock readings: at lease 2 a replay may be refused and then revived. All passing
runs check for deadlock: the system can always take some step, because a cleanup is always possible;
the screen can always poll or move.

An event of the control room is a request, a new key of the list, a change by others, or an outage.
`MaxEvents` bounds them together; polls, dialogs and selections are unbounded. Once they are used
up no action is pressed any more, since it could not be sent. Three events are a
change, a request on the old copy and an outage under it, or two requests and a change. Jobs start as
successes (`FirstStatuses`) because replay and delete lead from there to every other status that
offers something. `Slots` are symmetric. The panel is in the second run, whose liveness needs no
second job: what relates two jobs are the list and the bulk bar.

What the properties rule out is said at each of them. The ones to read first: `OneOpenAttempt`,
`ReplayKeepsSuccess`, `OutcomeAcknowledged`, `SendsAreCounted`, `OverlapOnlyAfterLoss`,
`UntouchedJobsHaveAPlace`, `StepsSpeakOfTheRun`, `ReadsOwnWrites`. Some are conjunctions of properties
with a name and a comment of their own: `DeliveryInv`, `LoopInv`, `IndicatorFollows`,
`PanelSpeaksForTheStore`, `RunTimesAreTrue`, `StepsSpeakOfTheRun`.

Every property of a passing run has a mutant in PROJECT.json: a definition with the comment
"Mutant", a plausible mistake in the definition after it, under which TLC finds the property
violated in that run.

### Fairness

`Fairness` assumes that time passes, that the cleaner's loop comes round, and that its purge does
not fail every time; `DeliveryFairness` that the reporter's loop comes round and that a send ends.
Both loops in `be/api/app.py` are `while True` with an `except Exception` inside, and every send has
a timeout. Nothing is assumed of workers, operators and providers, and crashes may be as frequent
as they like. `RunEnds`, `FinishedIsPurged` and `ReportMoves` speak of moments within the bound of
the clock only. `ReportMoves` with `SendsAreCounted` and `ScheduleInRange` gives that a report is
settled after at most methods * rounds sends.

`LoopFairness` assumes of a process that its main thread goes on: `handle()` ends, and the calls of
the main loop are answered now and then, or the process stops. It assumes nothing of its heartbeat
threads and of late requests. `DueJobsRun` speaks of jobs whose claims are within the bound.

The fairness of `ControlRoom`: each query on the screen is polled again (`refetchInterval`, a visible
window), a fetch ends in an answer or in an error, a request is answered or lost, and callbacks run.
Nothing is assumed of the operator, of others, or of the connection. `TheRoomCatchesUp`,
`OutageIsShown` and `RecoveryIsShown` therefore speak of a connection that in the end stays or stays
away; `ControlsComeBack` of any.

## 4. Findings

- **A retry may start with a used attempt.** `retry_job` promises "a fresh attempt budget"
  (`be/store.py:979`, `be/README.md:131`), but `_used_attempts` counts attempts with
  `started_at >= requeued_at`: one that started in the same millisecond counts. Run
  `retry_budget`. (With `>` instead, an attempt claimed in the millisecond of the retry would not
  be counted, and the exponent of its backoff would be -1: `BudgetCountsNewest` relies on the `>=`.)
- **A manual send may be stored in a newer report.** `record_manual_send` says it is ignored "when
  the report restarted [...] since `resend_report`" (`be/store.py:1103`), but only tests that the
  report is settled when the send ends. If the worker reclaims the failed job, finishes it, and the
  new report is delivered while the send is under way, the old send is shown in the new report.
  Run `manual_send_of_old_report`.

Three places where the example worker does not follow its documents, without a run of their own: the
thread for the worker lease is said to register the worker again (`worker-example/README.md:36`), but
if the store is unreachable at that moment, the `OSError` comes from within an `except` clause and
ends the thread (`worker.py:51`; the main loop recovers at its next refused claim, which `DueJobsRun`
shows); a finish that gets no answer ends the process and is not retried (`worker.py:95`, `WORKER.md:176`; the
job is not lost, the store has the outcome or revokes the lease), and Ctrl+C releases a job even if
`lost` is set (`worker.py:85`, `WORKER.md:167`; the store rejects it). `FinishFails` and `Interrupted`
are the last two.

What the screens say, met while modelling and exempt in the properties or left out of them:

- A replay that was undone is a success again with the steps of the run that was not: the card shows
  steps as "done" that nobody finished. The comment of `shownStepStatus` (`job-cells.tsx:27`) says that
  a succeeded job finished every step. `StepsShownAreTrue` exempts it.
- Heartbeats of one run that are applied out of order set a step back.
- The list and the overview compute the percentage of a job differently (`jobProgress`, in which steps
  without a percentage count 0 or 100, and `_progress_percent` at `stats.py:209`).
- "Sent when the job finishes" is also said of a cancelled job and of a replay that does not report.
- "Expired", "the job will be retried" (`job-detail/facts.tsx:40`) is also said of the last attempt, whose expiry
  fails the job (`_retry_or_fail`), and of a replay, which is never tried again. `LeaseShownIsTheStores` says of which
  jobs it is true.
- "Ran for" of a job that was cancelled while pending includes the time it waited.
- The Stats screen hides the errors of attempts when no job finished in the window.
- Buckets may together exceed the figure above them when a request that read the clock early finished
  a job after `now`. Such a request also makes a mean run or a busy time negative.
- "All clear" (`summary.ts`) looks at workers lost within the hour: one that is silent for longer has a
  row that stopped responding beside it, and so may the banner have attempts that timed out.
- "none still failed" while jobs failed is possible in an answer that was read while one changed.
- An alert may link to a worker that was forgotten.
- The "Retry all" dialog says that every job currently failed is requeued (`kpi-card.tsx:126`); the loop
  pages by offset through a list that changes, and stops at the count it started from.

Others, without a run of their own:

- The panel of a job that is gone, and the error block of a list that never loaded, give way to their
  placeholders at every poll: a refetch of a query without data clears its error.
- In an outage the indicator says "Live" from the start of each poll until its first attempt has
  failed (`live.ts:25`): a fetch resets the count of failures. `OutageIsShown` therefore says "again
  and again".
- When a job in the open panel is deleted by others, the panel keeps its last copy, with its actions
  enabled, beside the error. `RefusedOnlyIfChanged` covers what the actions then do.
- A first fetch that is under way is joined by an invalidation, not repeated, so after a mutation the
  list of a new key may be one poll old when the control is free. `ReadsOwnWrites` exempts it. It also
  exempts a list whose new key was never answered: a poll clears the error of its failed first fetch, and the
  copy of the old key is on the screen again, as old as it was. The attempt to prove the property showed this;
  it takes more events than the runs allow.
- A replay that was undone keeps its old `finished_at` (`be/store.py:1190`), so the next purge may take it the
  moment it ends, with a report that is still pending. `PurgeTakesOldRuns` exempts it.
- `be/README.md:121` says that buckets "can start before the window"; the first bucket of `be/stats.py:415`
  always starts after the start of the window.
- `PROVIDER.md:99` describes `startedAt` as the latest claim; `_restore_success`
  (`be/store.py:604`) sets it back to that of the success that is kept.
- The overview hides a worker whose lease lapsed more than 24 h ago, and its running job with it,
  although heartbeats of the job alone keep the job running. The Machines screen takes its busy slots from there:
  lane and drawer of such a worker say 0 busy (`worker-drawer.tsx:125`) beside the runs they show.
  `LanesShowTheRuns` exempts it.

## 5. Proofs

TLAPS proves for every number of jobs and workers, every setting and every clock, under the
assumptions `SettingsAssumption` (settings are positive), `NullAssumption` (NULL is no value of
another type), `StoreAssumption` (types of the remaining constants) and `FiniteAssumption` (jobs, workers
and types are finitely many: SQLite bounds row ids and the length of texts; the counts need it):

- `TypesHold`: `Spec => []TypeOK`;
- `SchemaAlwaysHolds`: `Spec => []SchemaHolds`;
- `OneOpenAttemptAlways`: `Spec => []OneOpenAttempt`;
- `DeadlineAlwaysRespected`, `BudgetAlwaysKept`, `BudgetAlwaysCountsNewest`, `ReportAlwaysForOutcome`:
  `Spec => []DeadlineRespected`, and so on for `AttemptBudget`, `BudgetCountsNewest` and
  `ReportOnlyForOutcome`;
- `HistoryAlwaysStable`: `Spec => HistoryStable`, and `ReplayAlwaysKeepsSuccess`:
  `Spec => ReplayKeepsSuccess`;
- `StoreKeepsPromise`: `Spec => KeepsPromise`, the refinement of `JobLife`;
- `PurgeAlwaysTakesOldRuns`: `Spec => PurgeTakesOldRuns` (in no run of its own), and `FreshAlwaysFirst`:
  `Spec => FreshJobsFirst`, the order of claims;
- of the screens, `RunTimesAlwaysTrue`, `MarkerAlwaysSplitsTheBudget` and `LeaseShownIsAlwaysTheStores`
  (`Spec => []RunTimesAreTrue`, `[]MarkerSplitsTheBudget`, `[]LeaseShownIsTheStores`), and
  `PanelAlwaysSpeaksForTheStore` (`Spec => []PanelSpeaksForTheStore`);
- of an overview that is read in parts, under `OverviewAssumption`, `UntouchedJobsAlwaysHaveAPlace`,
  `FiguresAlwaysAgree`, `LostWorkersAreAlwaysAnnounced` and `AllClearIsAlwaysTrue` (`OverviewSpec => []` of
  `UntouchedJobsHaveAPlace`, `FiguresAgree`, `LostWorkersAreAnnounced`, `AllClearIsTrue`);
- of the other screens, under `StatsAssumption` (the window is a number of whole buckets; NULL is neither a
  rate nor a chart), `BucketsAlwaysCoverTheWindow` and `RatesAlwaysHaveTheirRuns` (`Spec => []` of
  `BucketsCoverTheWindow` and `RatesHaveTheirRuns`), for every window and bucket, and, with the assumptions of
  `MachinesView`, `LanesAlwaysShowTheRuns` (`MachinesSpec => []LanesShowTheRuns`), for every lane and drawer;
- of the steps of a job, under `ProgressAssumption` and `NoStepsAssumption`,
  `StepsAlwaysSpeakOfTheRun` and `StepsAlwaysStay` (`ProgressSpec => []StepsSpeakOfTheRun`, `=> StepsStay`);
- `OldRunsNeverReturn`: `Spec => OldRunsAreOver`, and `LifeAlwaysHolds`: `Spec => []LifeHolds`, which
  no run checks: they follow from the promise;
- of the whole backend, also for every number of methods, rounds and sends under way
  (`DeliveryAssumption`: the timeout is positive): `OutcomeAlwaysAcknowledged`, `DeliveryAlwaysInRange`
  and `TablesKeptByDelivery` (`DeliverySpec => []OutcomeAcknowledged`, `[]DeliveryInv`, and `[]` of
  `SchemaHolds`, `OneOpenAttempt` and `ReportOnlyForOutcome`), `SendsAlwaysCounted` and
  `LinesAlwaysFollowTheSends` (`DeliverySpec => SendsAreCounted`, `=> LinesFollowTheSends`) and
  `DeliveryKeepsPromise` (`DeliverySpec => KeepsPromise`);
- of the example worker, for every number of processes and of late requests: `LoopKeepsStore`
  (`LoopSpec => Spec`), `LoopTypesHold` (`LoopSpec => []LoopTypeOK`), `OverlapAlwaysAfterLoss`
  (`LoopSpec => []OverlapOnlyAfterLoss`), and `NothingIsLeftBehind` (`LoopSpec => []LoopInv`).

The argument for the invariants: `RowInv` (a row has its types, passes the CHECKs, and its log
agrees with its lease) is kept by every row operator (one lemma per operator);
`IInv` is `TypeOK`, `RowInv` of every row and `OwnersKnown` (a lease belongs to a registered
worker). None of the three is inductive alone: that a heartbeat's lease is a time needs the CHECK
that a leased job has a deadline; that ending a run closes the only open attempt needs the log to
agree with the lease; that a reclaim may name its worker in the row needs the worker to be known.
The lemmas for rows that ended (`AllEnded`, `Unowned`) are the common part of all the operations
that take a job from its worker.

The argument for what rows keep (`JobStoreRows_proofs`): none of the four invariants and two action
properties is inductive, and they need each other. `RowsKept` adds to `RowInv`, for each row:

- `Timely`: an attempt ended within its time unless it ended because that was over; `deadline_at` is
  that of the newest attempt, which started after the requeue that the budget is counted from; a lease
  ends between the start of its attempt and the deadline; a requeued job is not available before its
  requeue. A reclaim takes up a run by nothing but the deadline left in the row, so its own time check
  is worth as much as that deadline.
- `BudgetKept`: beside `AttemptBudget`, a *failed* job used no more attempts than it had. A reclaim
  from `failed` gives back the last attempt, and only this says that it then is below the maximum.
- `ReportMatchesStatus` and `NewIsEmpty`: a report belongs to an outcome, and an id never inserted has
  neither attempts nor report.
- `KeptIsNotLost`: a pending or failed replay that keeps a success and has a deadline cannot be reclaimed. A
  reclaim would withdraw the `lease_expired` that the restored success relies on.

Each operation has a lemma that gives the fields it changes, and one, `...Follows`, that it keeps
`RowsKept` and takes a step of `LogStep` (only the newest attempt changes, and once ended only by a
reclaim) and of `KeepsIt` (a kept success stays). These are lifted over the actions of `Next` once.

The argument for the purge: `PurgeTakesOldRuns` compares the end of every run with `finished_at`, which
operations set, keep, restore and clear. `Dated` is what it needs: no run of a finished job, nor of one
that keeps a success, ended later than its `finished_at` by more than the age of a request, replays
excepted. `Writes` says in five lines what any operation may do to a row as far as that goes: an
attempt that ends does so at the `now` of the transaction, `finished_at` becomes that `now` or stays,
and a deadline is the one there was or that of a new run. Each operation has a lemma that it `Writes`;
`_hold` and what follows it are two such writes in one (`WritesTwice`).

The arguments for the screens (`Screens_proofs`) follow the columns they read back to the log:

- `RunTimesAlwaysTrue`: list and panel subtract `started_at` from `finished_at`, which a dozen operations
  set, keep or restore separately. `Told` says whose they are: of the newest run while the job is queued
  again, runs or has failed, of a run that won if the job is a success; a kept success is still in the log. Every step
  of the store is an operation on each row (`Operated`), and each operation keeps it, together with
  `RowsKept` and `Dated`, which say that a run ends after it began and by whose end the row is dated.
- `MarkerAlwaysSplitsTheBudget`: the timeline sorts attempts by their start and puts the marker of a
  requeue above the first one that did not start later, so an attempt is above it exactly if it started
  after the requeue (`AboveIsAfter`), as `_used_attempts` counts but for a start in the same millisecond.
  While the job runs, the run at hand is one more than those that ended.
- `PanelAlwaysSpeaksForTheStore` adds the note that another attempt follows. `Budgeted` is why it is true:
  a queued or running job has an attempt left, a failed one used no more than it had, also after a
  reclaim gave one back, and a job that was just requeued used none; a replay has one. The note is exempt
  (`StartsApart`) when the requeue counts a run of before. In the millisecond of the requeue that is the first of
  the Findings. With late requests it takes longer: a replay reads the clock, waits for the write lock while a run of the
  job succeeds, and is applied with the older time. The run of that success then counts as one of the replay,
  and the first release makes the panel speak of it. Such a run is dated within `RequestLag` after the requeue,
  and so the exemption covers no other. What an expired lease says of a retry follows from the same count
  (`LeaseShownIsAlwaysTheStores`), without exemption.
- `UntouchedJobsAlwaysHaveAPlace`: each SELECT of an overview sees another state of the store.
  `AnswerKeeps` says that what was read of a job or worker is still so if nothing changed of it since the
  question was asked, and `OwnersKnown` of the store that the worker of a running job is in the table. Reading
  changes nothing (`ReadingLeavesTheStore`), so an `OverviewSpec` is a `Spec`. The attempt to prove this
  showed that the property was too strong before: a worker that was hidden when workers were read, and
  came back before the answer was complete, has no row although it was heard of. The bounds of
  `screens` contain that.
- `FiguresAlwaysAgree`: a count that was read earlier is the size of a set of jobs that still have the
  status, but for those that changed (`CountsKept`). Two such sets differ by changed jobs only, so their
  sizes differ by no more. The rows of the queues are a sorted list of jobs grouped by type, and their sum is
  the size of the union (`SumOfSizes`).
- `LostWorkersAreAlwaysAnnounced` and `AllClearIsAlwaysTrue`: alerts are grouped, ordered and cut off, so
  the first says of the order that a lost worker stands before one that only timed out
  (`GroupsAreOrdered`), and of the cut that what is left out is counted. The second is by the four things
  the verdict looks at, each read in another SELECT and still so if nothing changed. It was too strong
  for answers with an older `now`: a job that failed *after* the `now` of the answer is outside the window
  of its SELECT, and so the property now says `(answer.now - DayMs)..answer.now`.
- Sorted lists: `Sorted` chooses a list, so that there is one must be shown. `SortedListExists` takes a
  smallest set that has none, and takes away an element that belongs last; that a list of
  the right length without repetition has every element (`ListHasThemAll`) is by counting.
- `RatesAlwaysHaveTheirRuns`: `Told` says that a success has the run that won, and a failed job the
  error of its newest run, which ended when the job did. So a job is mapped to a run in the window, and
  no two to the same one.
- `BucketsAlwaysCoverTheWindow`: every moment of the buckets' time is in one bucket and no two overlap
  (`BucketOfATime`), so the bars are the sizes of disjoint sets (`BucketsTogether`). The part of the window
  that they miss, and what finished after `now` but is in the last one, are in the statement.
- `LanesAlwaysShowTheRuns`: an attempt without an end is the newest run of a running job (`OpenRowsRun`),
  so it is of the worker that has it. `ScreenKeeps` says of each answer that what it tells of a job that has not
  moved since, or of a worker that was not heard of, is still so; the windows of the two lists are compared
  with the start of the run, hence the exemption of runs that began after one of them. A bar is cut to its lane,
  and the bounds hold because a run ends after it began, and of those that did not the bar is left out.
- `StepsAlwaysSpeakOfTheRun` and `StepsAlwaysStay`: `ProgressKept` says that the steps stored of a job are
  no more than the limit, each id once, all sent by its newest run, and that a job with steps has a
  deadline. What operations do to `progress` then depends on whose run is the newest (`StepsOfAJob`); `Won`, that a success
  was won by the newest run or is one that a replay kept, is why a finished bar is of the run that won.
  `MergedList` gives the list after a heartbeat by the rank of each id in it, so that nothing is
  proved by induction.
- `RatesReadDown`: `formatRate` computes in floats, adds 1e-9 and rounds down. `FloatSum` is any sum that
  is at least the exact figure and at most 2e-9 above it (the floats are off by much less than the 1e-9 that is
  added), and the theorem says that for a `Coarse` ratio the floor of such a sum is that of the exact figure, and
  what `FormatRate` gives: a figure below a whole number is so by more than 2e-9, being a fraction over `den`. Hence a figure reads as a threshold exactly when the
  ratio reaches it, as 100 % only for 1 and as 0 % only for 0; of a figure of one unit nothing is said, because
  that is also what a smaller ratio is raised to. `Coarse` asks that `den` is below 1e9 / 2 jobs, which a store that keeps its
  jobs for days does not reach; for the utilisation, whose `den` is the time of all slots in ms but a multiple of 100,
  that is 82 slots over 7 days.

The argument for the refinement: `JobStoreLife_proofs` gives, for each row operator, the step of the
life that it is, under `RowInv`. A call of a worker first runs `_hold`, which may expire the lease
and reclaim it in one transaction; that is two steps of a life in one, and `LapseThenContinue`,
`ContinueThenFall` and `ContinueThenSucceed` show that the two are again one step. Then each action
of `JobStore` is a step of one life, the cleaner's are steps of many, and the rest stutters. What
`JobLife` implies by itself (`JobLife_proofs`) then holds of the store. `FreshAlwaysFirst` uses the same
lemmas: a step of a life that is not a claim adds no run (`NoNewRun`), so a run by a worker that had
the job before was added by a claim, and the first column of the claim order decides what that takes.

The argument for the delivery (`ReportDelivery_proofs`) has two halves. Of the store it needs that each
operation either goes on with the report and what it tells (`GoesOn`), or ends it together with its
outcome (`Restarts`); `Tells` is one of the two. The hard case is a late `finish_job` with a failure: in
one transaction it takes back a run whose expiry has failed the job, withdraws the report of that, and
fails the job again, with a report that starts anew. That this is another outcome is seen by the error
alone, so `ErrorOfNewest` (the error of a failed job is how its newest run ended) is part of the
invariant. Of the delivery it needs that each step writes a report and nothing else (`Moves`), which
leaves rows, lives and outcomes as they are. `OutcomeAcknowledged` is then strengthened by `SendingTells`
(the send whose answer is awaited is of the outcome the job has) and by `AckedTells`, which speaks of the
success a replay keeps (`Told`) while the job runs again. The lines of the report card are computed from
cursor, round and status, and each step leaves the three alone, or ends one try of the method at the cursor
(`Tries`): only the line of that method counts one try more (`LinesOfATry`), also over the wrap-around and in
the last round.

The argument for the example worker (`WorkerLoop_proofs`): the invariant says what ties a process to the
store: a claim that was answered is a run of its worker in the log (`RunsKnown`), a process works on a
claim of its own (`OwnClaims`), and a late request is of such a claim, its process having stopped unless
it is a heartbeat (`LateKnown`). With these each step of a process is a step of the store. For the
overlap, `HandledOpen` says that a run under its handler is open or was lost. A step of the store ends
runs by losses only (`EndsByLoss`), or is a report; a report comes from a process past its handler or
from one that stopped, and ends no run but its worker's (`ReportsEndOwnRun`).

`NothingLeftBehind` speaks of leases that may be renewed. Its invariant (`Behind`) speaks of claims that
are over for good: `Gone` lists five ways, each of which stays (`GoneStaysGone`), whatever is reclaimed.
A refusal is proof of one of them (`RefusedIsGone`), and so is an accepted report (`ReportEndsRun`). The
property has two exemptions, without either of which TLC finds a counterexample (`worker_liveness`, `worker_loop`):

- a worker forgotten since the claim: an operator forgets a process between a lapse of its worker lease and the next
  renewal of it. A heartbeat of its job is refused because the worker is not in the table; the process
  drops the job, is registered again, and a heartbeat that was delayed on the way reclaims the job for it.
- a replay that keeps its success, if requests may be older than their transaction: a heartbeat is refused because
  the lease of the replay has run out. The refusal rolls the expiry back, so the job still runs, and a
  heartbeat that read the clock before the expiry and waited for the write lock renews the lease. The
  process has dropped the job by then. Other jobs are safe with any `RequestLag`: their expired leases are
  not refused but reclaimed.

In both cases nobody works on the job until its lease runs out again, which the cleaner notices. The same holds
of a job that a late claim gave to a process that does not know of it. `UnseenRunsOut` says that this happens one
lease after the claim: no request carries a token that nobody was told (`AcceptedLeased`, `HeldToken`), so the
lease is still the one of the claim (`StepsLease`).

Of the control room TLAPS proves, for any number of jobs, requests in flight, retries and events
(`RoomAssumption`: ids are positive numbers, NULL is none, and so on; `NoRequestAssumption`: no request is
taken for none):

- `RefusalsAreChanges`: `Spec => []RefusedOnlyIfChanged`, and `RoomTypesHold`: `Spec => []RoomTypeOK`;
- `OneRequestAlways`: `Spec => []OneRequestPerControl`;
- `OwnWritesAlwaysRead`: `Spec => ReadsOwnWrites`;
- `StoreMoves` and `StoreOutcomes`: the steps of `JobLife` are among `Moves` and `Outcomes`.

The first is not inductive alone. Its invariant follows the knowledge of the screen back to the
store: what a request still asks for was possible in the copy it names (`WorkOK`), as was what a
dialog offers (`OfferOK`), and a copy is an entry of the log (`CopyOK`); the log only grows
(`LongerLog`), so a refusal by the newest entry is a difference from the entry of the copy. The
second needs (`Alone`) that an open dialog has no request of its control beside it, because the
dialog is confirmed without looking at the button again, and that a lost request has no control.
`FewerAlone` then covers every step but a new request. `ReadsOwnWrites` is about the moment a control is
free; `Asked` says what holds of each copy it had fetched again until then: it is on the screen, a fetch of it
that is under way started after the server had done the work (`CopyMeets`), and unless one is awaited the copy
is as new as that or has an error. Whatever leaves the screen is asked for no more (`LeaveAsked`), and that
an answer to another request has the copies fetched once again makes them no older (`StartMeets`).

Every invariant and action property of the passing runs is thus proved. Only model-checked: liveness and
what needs fairness (`RunEnds`, `FinishedIsPurged`, `ReportMoves`, `DueJobsRun`, `TheRoomCatchesUp`,
`ControlsComeBack`, `IndicatorFollows`), which is out of the prover's reach.

## 6. Not modelled, and the plan

Next, in this order:

1. The other actions of the control room: a send by hand, forgetting a worker, `Retry all` with its
   pages.
2. Searches, filters and pages of `list_jobs`, with the pager and the placeholder it counts from.

Left out: validation and serialisation, schema migration, rendering beyond what it claims, generated and
third-party code, and build files. PROJECT.json gives the reason for each.
