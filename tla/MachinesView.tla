----------------------------- MODULE MachinesView -----------------------------
(***************************************************************************)
(* The Machines screen (fe/src/features/machines): the lane of each worker *)
(* and the drawer of one.  The screen joins answers that are polled apart: *)
(* the workers (GET /workers), what they run (GET /overview) and their     *)
(* attempts (GET /attempts, for the lanes and for the drawer).  Each is    *)
(* read here once, in any order, and the store goes on in between: the     *)
(* answers that a screen is drawn from are the last ones of the polls.     *)
(* Until the next answer the rows of an older window are drawn             *)
(* (keepPreviousData).  Positions on a lane are in units of time.          *)
(* Machines and styling are left out.                                      *)
(***************************************************************************)
EXTENDS Stats

LOCAL Fns == INSTANCE Functions

CONSTANTS
    RangeMs,           \* length of the lanes, RANGES
    DrawerMs,          \* length of the drawer's window, DAY_MS: 24 h
    StepMs,            \* STEP_MS: 3 s, by which the windows move
    OfflineHideMs,     \* OFFLINE_HIDE_MS: 24 h
    RecentMax          \* RECENT: 10

ASSUME MachinesAssumption ==
    {RangeMs, DrawerMs, StepMs, OfflineHideMs, RecentMax} \subseteq Nat \ {0}

VARIABLES
    workersRead,   \* GET /workers: is each connected; with and without offline ones
    overviewRead,  \* GET /overview: the running jobs, then those of each worker
    lanesRead,     \* GET /attempts for the lanes
    drawerRead,    \* GET /attempts for the drawer, and the worker it is open for
    moved,         \* log: jobs that changed hands since the first of the answers
    heard          \* log: workers whose lease changed since

screenVars == <<workersRead, overviewRead, lanesRead, drawerRead, moved, heard>>

-----------------------------------------------------------------------------
(* The answers. *)

AttemptWindow(now, span) ==
    LET to == (now \div StepMs) * StepMs IN [from |-> to - span, to |-> to]

AttemptRow(x) == [job |-> x[1], number |-> x[2], at |-> At(x)]

AttemptRows(win) == {AttemptRow(x) : x \in AttemptsBetween(win.from, win.to)}

\* `now` is the server's for the workers and the overview, and the browser's for
\* the windows; by when the answer is taken, either may be RequestLag old.
GetWorkers(now, offline) ==
    /\ workersRead[offline] = NULL
    /\ LET known == {w \in Registered : offline \/ leases[w] >= now - OfflineHideMs}
       IN  workersRead' = [workersRead EXCEPT ![offline] =
                              [w \in known |-> leases[w] > now]]
    /\ UNCHANGED <<vars, overviewRead, lanesRead, drawerRead, moved, heard>>

\* The overview first selects the running jobs.
GetRunning ==
    /\ overviewRead = NULL
    /\ overviewRead' =
          [running |-> [j \in {j \in Jobs : jobs[j].status = "running"} |-> jobs[j].worker],
           loads |-> NULL]
    /\ UNCHANGED <<vars, workersRead, lanesRead, drawerRead, moved, heard>>

\* Then the workers, without those that have long been silent.
GetLoads(now) ==
    /\ overviewRead # NULL /\ overviewRead.loads = NULL
    /\ LET running == overviewRead.running
       IN  overviewRead' = [overviewRead EXCEPT !.loads =
              [w \in {w \in Registered : leases[w] >= now - OfflineHideMs} |->
                  {j \in DOMAIN running : running[j] = w}]]
    /\ UNCHANGED <<vars, workersRead, lanesRead, drawerRead, moved, heard>>

GetLanes(now) ==
    /\ lanesRead = NULL
    /\ lanesRead' = [asked |-> now, rows |-> AttemptRows(AttemptWindow(now, RangeMs))]
    /\ UNCHANGED <<vars, workersRead, overviewRead, drawerRead, moved, heard>>

GetDrawer(w, now) ==
    /\ drawerRead = NULL
    /\ LET rows == AttemptRows(AttemptWindow(now, DrawerMs))
       IN  drawerRead' = [of |-> w, asked |-> now, rows |-> {r \in rows : r.at.worker = w}]
    /\ UNCHANGED <<vars, workersRead, overviewRead, lanesRead, moved, heard>>

PollStep ==
    \/ GetRunning
    \/ \E now \in Nows : \/ \E offline \in BOOLEAN : GetWorkers(now, offline)
                         \/ GetLoads(now)
                         \/ GetLanes(now)
                         \/ \E w \in Workers : GetDrawer(w, now)

SomethingRead ==
    \/ \E offline \in BOOLEAN : workersRead[offline] # NULL
    \/ overviewRead # NULL \/ lanesRead # NULL \/ drawerRead # NULL

Between ==
    /\ IF SomethingRead
       THEN /\ moved' = moved \cup
                  {j \in Jobs : \/ jobs'[j].status # jobs[j].status
                                \/ jobs'[j].worker # jobs[j].worker
                                \/ jobs'[j].started # jobs[j].started}
            /\ heard' = heard \cup {w \in Workers : leases'[w] # leases[w]}
       ELSE UNCHANGED <<moved, heard>>
    /\ UNCHANGED <<workersRead, overviewRead, lanesRead, drawerRead>>

ScreenInit ==
    /\ workersRead = [offline \in BOOLEAN |-> NULL]
    /\ overviewRead = NULL /\ lanesRead = NULL /\ drawerRead = NULL
    /\ moved = {} /\ heard = {}

MachinesInit == Init /\ ScreenInit

MachinesNext == PollStep \/ (Next /\ Between)

MachinesSpec == MachinesInit /\ [][MachinesNext]_<<vars, screenVars>>

-----------------------------------------------------------------------------
(* The lanes. *)

Ended(r, to) == IF r.at.ended = NULL THEN to ELSE r.at.ended

\* The bars.  The rows may be of an older window, and a request that read the
\* clock early may have ended an attempt before its start: those have no bar.
LayoutLanes(rows, win) ==
    LET start(r) == Later(r.at.started, win.from)
        end(r) == Min2(Ended(r, win.to), win.to)
    IN  {[of |-> r, left |-> start(r) - win.from, width |-> end(r) - start(r),
          ms |-> Ended(r, win.to) - r.at.started] :
            r \in {r \in rows : end(r) >= start(r)}}

Bar(bar) ==
    [says |-> IF bar.of.at.outcome = NULL THEN "running for" ELSE "took", ms |-> bar.ms,
     link |-> bar.of.job, at |-> <<bar.left, bar.left + bar.width>>,
     hatched |-> bar.of.at.outcome \notin {NULL, "succeeded"}]

\* What the last overview said; nothing of a worker that is not in it.
RunningOf(w) ==
    IF overviewRead = NULL THEN {}
    ELSE IF overviewRead.loads = NULL THEN {}
    ELSE IF w \in DOMAIN overviewRead.loads THEN overviewRead.loads[w] ELSE {}

WorkerLabel(w, connected) ==
    IF connected THEN [busy |-> Cardinality(RunningOf(w)), of |-> Slots[w]]
    ELSE "last seen"

\* Without `offline` only the workers that answer have a lane.
MachinesScreen(now, offline) ==
    LET known == workersRead[offline]
        shown == {w \in DOMAIN known : offline \/ known[w]}
        rows == IF lanesRead = NULL THEN {} ELSE lanesRead.rows
        bars == LayoutLanes(rows, AttemptWindow(now, RangeMs))
    IN  [lanes |-> [w \in shown |->
                       [label |-> WorkerLabel(w, known[w]),
                        bars |-> {Bar(b) : b \in {b \in bars : b.of.at.worker = w}}]],
         hidden |-> Cardinality(DOMAIN known \ shown)]

-----------------------------------------------------------------------------
(* The drawer. *)

SummarizeAttempts(rows) ==
    LET ended == {r \in rows : r.at.ended # NULL}
        good == {r \in ended : r.at.outcome = "succeeded"}
        total == Fns!SumFunction([r \in ended |-> r.at.ended - r.at.started])
    IN  IF ended = {} THEN [done |-> 0, rate |-> NULL, mean |-> NULL]
        ELSE [done |-> Cardinality(ended),
              rate |-> [num |-> Cardinality(good), den |-> Cardinality(ended)],
              mean |-> [num |-> total, den |-> Cardinality(ended)]]

\* Mutant: the newest attempts, running or not.
LatestAttemptsOfAll(rows) ==
    LET all == Sorted(rows, LAMBDA r, q : r.at.started > q.at.started)
    IN  SubSeq(all, 1, Min2(Len(all), RecentMax))

\* Every running attempt, then the newest of the ended ones.
LatestAttempts(rows) ==
    LET newest(R) == Sorted(R, LAMBDA r, q : r.at.started > q.at.started)
        running == {r \in rows : r.at.outcome = NULL}
        all == newest(running) \o newest(rows \ running)
    IN  SubSeq(all, 1, Min2(Len(all), Later(RecentMax, Cardinality(running))))

RecentAttempts(recent, now) ==
    [i \in DOMAIN recent |->
        [job |-> recent[i].job, outcome |-> recent[i].at.outcome,
         ms |-> Ended(recent[i], now) - recent[i].at.started]]

\* The drawer of a worker that the answer of GET /workers has.
Drawer(now) ==
    LET w == drawerRead.of
        connected == workersRead[TRUE][w]
        stats == SummarizeAttempts(drawerRead.rows)
    IN  [connected |-> connected, busy |-> Cardinality(RunningOf(w)),
         done |-> stats.done, succeeded |-> FormatRate(stats.rate, stats.done),
         recent |-> RecentAttempts(LatestAttempts(drawerRead.rows), now),
         canForget |-> ~connected]

-----------------------------------------------------------------------------

\* Every answer is there and the worker of the drawer has a lane.
ScreenComplete(offline) ==
    /\ workersRead[offline] # NULL /\ workersRead[TRUE] # NULL
    /\ overviewRead # NULL /\ lanesRead # NULL /\ drawerRead # NULL
    /\ overviewRead.loads # NULL
    /\ drawerRead.of \in DOMAIN MachinesScreen(clock, offline).lanes
    /\ drawerRead.of \in DOMAIN workersRead[TRUE]

\* Of the jobs that did not change hands between the answers, and did not start
\* after the windows end, the lane and the drawer of a worker show the same as
\* running; the slots that the overview says are busy are as many, but for the
\* jobs that did, unless the worker has been silent for longer than
\* OFFLINE_HIDE_MS or was heard of in between: then none may be busy beside the
\* runs.  And every bar lies on its lane, the window of the rows being older, and
\* whatever reading of the clock ended the attempt (lanes.ts, worker-drawer.tsx).
LanesShowTheRuns ==
    \A offline \in BOOLEAN :
        ScreenComplete(offline) =>
            LET w == drawerRead.of
                bars == MachinesScreen(clock, offline).lanes[w].bars
                drawer == Drawer(clock)
                drawn == {b.link : b \in {b \in bars : b.says = "running for"}}
                listed == {drawer.recent[i].job : i \in {i \in DOMAIN drawer.recent :
                                                        drawer.recent[i].outcome = NULL}}
                horizon == Min2(AttemptWindow(lanesRead.asked, RangeMs).to,
                                AttemptWindow(drawerRead.asked, DrawerMs).to)
                begun == {j \in Jobs : jobs[j].status = "running"
                                          /\ jobs[j].started >= horizon}
            IN  /\ \A b \in bars : /\ b.at[1] >= 0 /\ b.at[2] >= b.at[1]
                                   /\ b.at[2] <= RangeMs
                                   /\ b.says = "running for" => b.at[2] = RangeMs
                /\ drawn \ (moved \cup begun) = listed \ (moved \cup begun)
                /\ drawer.busy <= Cardinality(listed \cup moved \cup begun)
                /\ \/ Cardinality(listed \ moved) <= drawer.busy
                   \/ w \in heard
                   \/ leases[w] < clock - OfflineHideMs

=============================================================================
