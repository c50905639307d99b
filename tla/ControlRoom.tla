---------------------------- MODULE ControlRoom ----------------------------
(***************************************************************************)
(* The operator's Jobs screen (fe/src): a list polled from the backend, a  *)
(* detail panel polled from it, and the controls that cancel, retry,       *)
(* replay, delete and reprioritise jobs one by one or in bulk.  The screen *)
(* acts on a copy of jobs that others change meanwhile.  Of the backend    *)
(* only the status of each job is kept; ControlRoom_proofs shows that      *)
(* every step of JobLife, hence of JobStore, is one of Moves.              *)
(*                                                                         *)
(* The query cache of TanStack Query, the router and the browser are       *)
(* external: they are modelled from how fe/src uses them.  A query is one  *)
(* polled copy.  `past` logs the status of every job after each change of  *)
(* the store, so a copy is the index of the log entry it was read from.    *)
(***************************************************************************)
EXTENDS Integers, FiniteSets, Sequences

CONSTANTS
    Jobs,            \* job ids
    NULL,            \* nothing: no panel, no dialog, no request
    Slots,           \* requests the operator may have in flight
    FetchRetries,    \* retries of a read that got no answer (3)
    FirstStatuses,   \* bound: statuses of jobs when the screen is opened
    Panels,          \* bound: jobs whose panel the operator opens
    Ticks,           \* bound: jobs the operator selects
    MaxEvents        \* bound: requests, new list keys, changes by others and
                     \* outages, together

List      == 0
Abandoned == -1      \* the fetch of a query that the screen has left
Queries   == {List} \cup Jobs

\* The statuses of a job the screen can show, and two for a job that is not
\* created yet and one that is deleted.
Statuses  == {"pending", "running", "success", "failed", "cancelled"}
JobStates == Statuses \cup {"none", "deleted"}

ASSUME RoomAssumption ==
    /\ Jobs \subseteq Nat \ {0}
    /\ NULL \notin Int
    /\ FetchRetries \in Nat
    /\ FirstStatuses \subseteq JobStates

VARIABLES
    past,        \* log: the status of each job after each change
    up,          \* the server answers
    query,       \* the copy of the list and of the job in the panel
    latest,      \* the query that last got an answer or an error
    panel,       \* the job whose detail panel is open
    selected,    \* ids ticked in the list (selectedJobIdsAtom)
    dialog,      \* the open confirmation
    request,     \* what each slot has in flight
    spent        \* events so far

room  == <<query, latest, panel, selected, dialog, request>>
vars  == <<past, up, query, latest, panel, selected, dialog, request, spent>>

-----------------------------------------------------------------------------
(* What the screen may ask for, and what the store makes of it. *)

Actions  == {"cancel", "retry", "delete", "priority", "replay"}

Allowed == [cancel   |-> {"pending", "running"},
            retry    |-> {"failed", "cancelled"},
            delete   |-> {"success", "failed", "cancelled"},
            priority |-> {"pending"},
            replay   |-> {"success"}]

\* Mutant: a job that succeeded may be retried.
CanRetrySuccess(action, status) ==
    status \in Allowed[action] \/ (action = "retry" /\ status = "success")

\* The screen offers an action on a job it shows in this status.
Can(action, status) == status \in Allowed[action]

\* The statuses an accepted action may give a job; none when it is refused.
\* A replay that keeps its result is cancelled back to success.
Outcomes(action, status) ==
    CASE action = "cancel" /\ status \in {"pending", "running"} ->
             {"cancelled", "success"}
      [] action = "retry" /\ status \in {"failed", "cancelled"} -> {"pending"}
      [] action = "delete" /\ status \in {"success", "failed", "cancelled"} ->
             {"deleted"}
      [] action = "priority" /\ status = "pending" -> {"pending"}
      [] action = "replay" /\ status = "success" -> {"pending"}
      [] OTHER -> {}

\* Where workers, producers, the cleanup and other operators may take a job.
Moves ==
    [none      |-> {"pending"},
     pending   |-> {"running", "success", "failed", "cancelled"},
     running   |-> {"pending", "success", "failed", "cancelled"},
     success   |-> {"pending", "deleted"},
     failed    |-> {"pending", "running", "success", "deleted"},
     cancelled |-> {"pending", "deleted"},
     deleted   |-> {}]

Status(j) == past[Len(past)][j]

Write(j, status) ==
    past' = Append(past, [past[Len(past)] EXCEPT ![j] = status])

-----------------------------------------------------------------------------
(* The cached copies. *)

\* A fetch is known by the log entry it started at: the server reads the store
\* some time between then and the answer.
Absent == [asOf |-> 0, own |-> TRUE, fetch |-> "idle", since |-> 0,
           tries |-> 0, error |-> "none"]

HasData(e) == e.own /\ e.asOf > 0

\* The failure count is reset; an error stays as long as there is data to show
\* beside it.
Start(e) == [e EXCEPT !.fetch = "fetching", !.since = Len(past), !.tries = 0,
                      !.error = IF HasData(e) THEN @ ELSE "none"]

\* Asked for again: a fetch under way is cancelled only if the query has data
\* of its own; without, the caller joins it.
Joins(e) == e.fetch = "fetching" /\ ~HasData(e)

\* Mutant: any fetch under way is joined.
InvalidateJoins(e) == IF e.fetch = "fetching" THEN e ELSE Start(e)

Invalidate(e) == IF Joins(e) THEN e ELSE Start(e)

\* A read that got no answer is tried again.
Retries(e) == e.tries < FetchRetries

\* A fetch gives up; the copy stays.
Failed(e, error) == [e EXCEPT !.fetch = "idle", !.since = 0, !.tries = @ + 1,
                              !.error = error]

\* The copy is on the screen; data kept from another list key goes when the
\* first fetch of the new key fails (keepPreviousData).
Shown(e) == e.asOf > 0 /\ (e.own \/ e.error = "none")

Active(p) == {List} \cup ({p} \ {NULL})
Rows(Q)   == IF ~Shown(Q[List]) THEN {}
             ELSE {j \in Jobs : past[Q[List].asOf][j] \in Statuses}

\* The requests that wait for a fetch of q wait no more, or wait for one that
\* goes on out of sight.
Resolve(q) == [s \in Slots |-> IF request[s] = NULL THEN NULL
                               ELSE [request[s] EXCEPT !.await = @ \ {q}]]

\* Mutant: a request goes on waiting for a query that is gone.
LeaveWaiting(q) == [s \in Slots |->
                      IF request[s] = NULL THEN NULL
                      ELSE [request[s] EXCEPT !.asked = @ \ {q}]]

Leave(q) == [s \in Slots |->
               IF request[s] = NULL THEN NULL
               ELSE [request[s] EXCEPT
                       !.asked = @ \ {q},
                       !.await = IF q \in @ THEN (@ \ {q}) \cup {Abandoned}
                                 ELSE @]]

-----------------------------------------------------------------------------
(* The controls: JobActions of a row or of the panel, and the BulkBar. *)

Bulk     == <<"bulk", List>>
Controls == ({"row", "panel"} \X Jobs) \cup {Bulk}

\* The copy a control takes the status of a job from.
Source(c) == IF c[1] = "panel" THEN c[2] ELSE List

Visible(c, Q, p, sel) ==
    CASE c[1] = "row"   -> c[2] \in Rows(Q)
      [] c[1] = "panel" -> p = c[2] /\ Shown(Q[p])
      [] c[1] = "bulk"  -> sel \cap Rows(Q) # {}

StatusOf(c, j) == past[query[Source(c)].asOf][j]

Eligible(action) ==
    {j \in selected \cap Rows(query) : Can(action, StatusOf(Bulk, j))}

\* Mutant: free as soon as the answer is there.
BusySending(c) == \E s \in Slots :
                     /\ request[s] # NULL /\ request[s].from = c
                     /\ request[s].ours
                     /\ request[s].phase \in {"sent", "unsent"}

Busy(c) == \E s \in Slots :
              /\ request[s] # NULL /\ request[s].from = c
              /\ request[s].ours
              /\ request[s].phase \in {"sent", "unsent", "refetching"}

\* The screen is drawn again.  A dialog or a pending request belongs to the
\* control that made it: the dialog goes with it, and a control drawn anew
\* knows nothing of the request.  Of the jobs, only the copy in the panel is
\* followed.
Draw(Q, p, sel, req, d) ==
    /\ query' = [q \in Queries |->
                    IF q \in Active(p) THEN Q[q] ELSE Absent]
    /\ panel' = p
    /\ selected' = sel
    /\ dialog' = IF d = NULL \/ ~Visible(d.from, Q, p, sel) THEN NULL ELSE d
    /\ request' = [s \in Slots |->
                     IF req[s] = NULL THEN NULL
                     ELSE [req[s] EXCEPT
                             !.ours = @ /\ Visible(req[s].from, Q, p, sel)]]

\* Mutant: an answer that the job is gone counts as a lost connection.
StaleIfAnyError == query[latest].tries > 0 /\ query[latest].error # "none"

\* The indicator: the query that last got an answer or an error decides.
Stale == query[latest].tries > 0 /\ query[latest].error = "connection"

-----------------------------------------------------------------------------
(* Polling. *)

\* Mutant: nothing is fetched twice.
PollOnce(q) ==
    /\ q \in Active(panel) /\ query[q].fetch = "idle" /\ ~HasData(query[q])
    /\ Draw([query EXCEPT ![q] = Start(query[q])],
            panel, selected, request, dialog)
    /\ UNCHANGED <<past, up, latest, spent>>

\* The interval passes, the window gets the focus, or Retry is pressed: a
\* fetch under way is joined, so only an idle query starts one.
Poll(q) ==
    /\ q \in Active(panel) /\ query[q].fetch \in {"idle", "removed"}
    /\ Draw([query EXCEPT ![q] = Start(IF query[q].fetch = "removed"
                                       THEN Absent ELSE query[q])],
            panel, selected, request, dialog)
    /\ UNCHANGED <<past, up, latest, spent>>

\* The answer arrives: a copy, or JOB_NOT_FOUND, which is not retried.
Arrive(q) ==
    /\ up /\ query[q].fetch = "fetching"
    /\ \E v \in query[q].since..Len(past) :
         Draw([query EXCEPT ![q] =
                 IF q = List \/ past[v][q] \in Statuses
                 THEN [Absent EXCEPT !.asOf = v]
                 ELSE Failed(@, "missing")],
              panel, selected, Resolve(q), dialog)
    /\ latest' = q
    /\ UNCHANGED <<past, up, spent>>

\* No answer: asked again, up to FetchRetries times.
FailAttempt(q) ==
    /\ ~up /\ query[q].fetch = "fetching"
    /\ IF Retries(query[q])
       THEN /\ query' = [query EXCEPT ![q].tries = @ + 1,
                                      ![q].since = Len(past)]
            /\ UNCHANGED <<latest, panel, selected, dialog, request>>
       ELSE /\ Draw([query EXCEPT ![q] = Failed(@, "connection")],
                    panel, selected, Resolve(q), dialog)
            /\ latest' = q
    /\ UNCHANGED <<past, up, spent>>

-----------------------------------------------------------------------------
(* Requests. *)

\* A request is sent with the copy its control last checked it against.
Send(c, action, ids, basis, d) ==
    /\ spent < MaxEvents
    /\ \E s \in Slots :
        /\ request[s] = NULL
        /\ Draw(query, panel, selected,
                [request EXCEPT ![s] =
                    [from |-> c, action |-> action, basis |-> basis,
                     todo |-> ids, done |-> {}, skipped |-> {},
                     phase |-> IF up THEN "sent" ELSE "unsent", commit |-> 0,
                     await |-> {}, asked |-> {}, ours |-> TRUE]], d)
    /\ spent' = spent + 1
    /\ UNCHANGED <<past, up, latest>>

\* A row or the panel offers an action; Retry needs no confirmation.  Nothing
\* is pressed that could not be sent any more (MaxEvents).
Press(c, action) ==
    /\ spent < MaxEvents /\ dialog = NULL /\ c # Bulk
    /\ Visible(c, query, panel, selected) /\ ~Busy(c)
    /\ Can(action, StatusOf(c, c[2]))
    /\ LET basis == query[Source(c)].asOf
       IN  IF action = "retry" THEN Send(c, action, {c[2]}, basis, NULL)
           ELSE /\ Draw(query, panel, selected, request,
                        [from |-> c, action |-> action, basis |-> basis])
                /\ UNCHANGED <<past, up, latest, spent>>

PressBulk(action) ==
    /\ spent < MaxEvents /\ dialog = NULL /\ action # "replay"
    /\ Eligible(action) # {} /\ ~Busy(Bulk)
    /\ Draw(query, panel, selected, request,
            [from |-> Bulk, action |-> action, basis |-> query[List].asOf])
    /\ UNCHANGED <<past, up, latest, spent>>

\* A single action goes ahead as it was offered; the bulk bar looks again.
Confirm ==
    /\ dialog # NULL
    /\ IF dialog.from = Bulk
       THEN Send(Bulk, dialog.action, Eligible(dialog.action),
                 query[List].asOf, NULL)
       ELSE Send(dialog.from, dialog.action, {dialog.from[2]}, dialog.basis,
                 NULL)

Dismiss ==
    /\ dialog # NULL
    /\ Draw(query, panel, selected, request, NULL)
    /\ UNCHANGED <<past, up, latest, spent>>

\* The server takes the next id, newest first, in a transaction of its own.  A
\* replay is also refused while the report is being delivered.
Handle(s) ==
    LET r == request[s]
    IN  /\ r # NULL /\ r.todo # {}
        /\ (r.phase = "sent" /\ up) \/ r.phase = "orphan"
        /\ \E j \in r.todo :
             /\ \A k \in r.todo : k <= j
             /\ \/ /\ \E t \in Outcomes(r.action, Status(j)) : Write(j, t)
                   /\ request' = [request EXCEPT
                                    ![s].todo = @ \ {j},
                                    ![s].done = @ \cup {j},
                                    ![s].commit = Len(past) + 1]
                \/ /\ Outcomes(r.action, Status(j)) = {} \/ r.action = "replay"
                   /\ request' = [request EXCEPT ![s].todo = @ \ {j},
                                                 ![s].skipped = @ \cup {j}]
                   /\ UNCHANGED past
        /\ UNCHANGED <<up, query, latest, panel, selected, dialog, spent>>

\* Refused as a whole: a single action the store rejects, or an empty bulk.
Rejected(r) == r.done = {} /\ (r.from # Bulk \/ r.skipped = {})

\* The answer arrives.  What was deleted leaves the cache, the copies it may
\* have changed are fetched again, and the control stays busy until they are.
Answer(s) ==
    LET r       == request[s]
        removed == IF r.action = "delete" THEN r.done ELSE {}
        keys    == IF r.from = Bulk THEN Queries ELSE {List} \cup r.done
        asked   == {q \in (keys \ removed) \cap Active(panel) :
                        query[q].fetch # "removed"}
        Again(q) == IF q \in removed THEN [Absent EXCEPT !.asOf = query[q].asOf,
                                                   !.fetch = "removed"]
                    ELSE IF q \in asked THEN Invalidate(query[q])
                    ELSE query[q]
    IN  /\ r # NULL /\ r.phase = "sent" /\ r.todo = {} /\ up
        /\ IF Rejected(r)
           THEN Draw(query, panel, selected, [request EXCEPT ![s] = NULL],
                     dialog)
           ELSE Draw([q \in Queries |-> Again(q)], panel, selected,
                        [t \in Slots |->
                           IF request[t] = NULL THEN NULL
                           ELSE IF t = s
                           THEN [r EXCEPT !.phase = "refetching",
                                   !.basis = 0, !.done = {}, !.skipped = {},
                                   !.await = asked,
                                   !.asked = {q \in asked : ~Joins(query[q])}]
                           ELSE [request[t] EXCEPT !.await = @ \ removed,
                                                   !.asked = @ \ removed]],
                        dialog)
        /\ latest' = IF latest \in removed THEN List ELSE latest
        /\ UNCHANGED <<past, up, spent>>

\* The refetches have ended, well or not: the bulk bar clears the selection,
\* a delete from the panel closes it, whatever it shows by now.
Settle(s) ==
    LET r     == request[s]
        close == r.from[1] = "panel" /\ r.action = "delete" /\ panel # NULL
    IN  /\ r # NULL /\ r.phase = "refetching" /\ r.await = {}
        /\ Draw(query, IF close THEN NULL ELSE panel,
                IF r.from = Bulk THEN {} ELSE selected,
                [IF close THEN Leave(panel) ELSE request EXCEPT ![s] = NULL],
                dialog)
        /\ latest' = IF close THEN List ELSE latest
        /\ UNCHANGED <<past, up, spent>>

\* The connection breaks under a request, which is not repeated: its control is
\* free.  The server may still be working on one it received.
Lose(s) ==
    LET r == request[s]
    IN  /\ r # NULL
        /\ r.phase = "unsent" \/ (r.phase = "sent" /\ ~up)
        /\ \/ request' = [request EXCEPT ![s] = NULL]
           \/ /\ r.phase = "sent" /\ r.todo # {}
              /\ request' = [request EXCEPT ![s].phase = "orphan",
                                            ![s].ours = FALSE]
        /\ UNCHANGED <<past, up, query, latest, panel, selected, dialog, spent>>

\* The server has finished it, or was the one that went down.
Bury(s) ==
    /\ request[s] # NULL /\ request[s].phase = "orphan"
    /\ request[s].todo = {} \/ ~up
    /\ request' = [request EXCEPT ![s] = NULL]
    /\ UNCHANGED <<past, up, query, latest, panel, selected, dialog, spent>>

-----------------------------------------------------------------------------
(* The operator moves about, and the world goes on. *)

Tick(ids) ==
    /\ dialog = NULL
    /\ Draw(query, panel, ids, request, dialog)
    /\ UNCHANGED <<past, up, latest, spent>>

Select ==
    \/ \E j \in Ticks \cap Rows(query) :
          Tick((selected \ {j}) \cup ({j} \ selected))
    \/ Tick(Ticks \cap Rows(query))
    \/ Tick({})

\* A panel is opened from the list, or the open one steps to a neighbour.  The
\* cache may still have an earlier copy of the job.
OpenPanel(j) ==
    /\ dialog = NULL /\ j \in Panels \cap Rows(query) /\ panel # j
    /\ \E v \in 0..Len(past) :
          /\ v > 0 => past[v][j] \in Statuses
          /\ Draw([query EXCEPT ![j] = Start([Absent EXCEPT !.asOf = v])], j,
                  selected, IF panel = NULL THEN request ELSE Leave(panel),
                  dialog)
          /\ latest' \in IF v = 0 THEN {List} ELSE {List, j}
    /\ UNCHANGED <<past, up, spent>>

ClosePanel ==
    /\ dialog = NULL /\ panel # NULL
    /\ Draw(query, NULL, selected, Leave(panel), dialog)
    /\ latest' = List
    /\ UNCHANGED <<past, up, spent>>

\* The list gets a key that was not fetched before: what it showed stands in.
NewKey(sel) ==
    /\ spent < MaxEvents
    /\ Draw([query EXCEPT ![List] = Start([@ EXCEPT !.own = FALSE])],
            panel, sel, Leave(List), dialog)
    /\ latest' = IF panel = NULL THEN List ELSE panel
    /\ spent' = spent + 1
    /\ UNCHANGED <<past, up>>

\* Another filter, sort or page clears the selection.  The minute that moves the
\* created-since filter and the way back from a page past the end do not.
ChangeSearch == dialog = NULL /\ NewKey({})
KeyMoves     == NewKey(selected)

\* A fetch out of sight ends too.
AbandonedEnds(s) ==
    /\ request[s] # NULL /\ Abandoned \in request[s].await
    /\ request' = [request EXCEPT ![s].await = @ \ {Abandoned}]
    /\ UNCHANGED <<past, up, query, latest, panel, selected, dialog, spent>>

\* Workers, producers, the cleanup and other operators change a job.
OthersStep ==
    /\ spent < MaxEvents /\ spent' = spent + 1
    /\ \E j \in Jobs : \E t \in Moves[Status(j)] : Write(j, t)
    /\ UNCHANGED <<up, room>>

Outage ==
    /\ spent < MaxEvents /\ spent' = spent + 1
    /\ up /\ up' = FALSE
    /\ UNCHANGED <<past, room>>

Recovery ==
    /\ ~up /\ up' = TRUE
    /\ UNCHANGED <<past, room, spent>>

-----------------------------------------------------------------------------

Init ==
    /\ \E f \in [Jobs -> FirstStatuses] : past = <<f>>
    /\ up = TRUE
    /\ query = [q \in Queries |-> IF q = List THEN Start(Absent) ELSE Absent]
    /\ latest = List
    /\ panel = NULL /\ selected = {} /\ dialog = NULL
    /\ request = [s \in Slots |-> NULL]
    /\ spent = 0

\* The callbacks of promises come before anything else in the browser.
Settling == \E s \in Slots : /\ request[s] # NULL
                             /\ request[s].phase = "refetching"
                             /\ request[s].await = {}

Fetching == \E q \in Queries : Poll(q) \/ Arrive(q) \/ FailAttempt(q)
Requests == \E s \in Slots : Answer(s) \/ Lose(s) \/ AbandonedEnds(s)
Operator ==
    \/ \E c \in Controls \ {Bulk}, a \in Actions : Press(c, a)
    \/ \E a \in Actions : PressBulk(a)
    \/ Confirm \/ Dismiss \/ Select \/ ClosePanel \/ ChangeSearch
    \/ \E j \in Jobs : OpenPanel(j)
Server   == \E s \in Slots : Handle(s) \/ Bury(s)
World    == OthersStep \/ Outage \/ Recovery

Next == \/ \E s \in Slots : Settle(s)
        \/ ~Settling /\ (Fetching \/ Requests \/ Operator \/ KeyMoves)
        \/ Server \/ World

Spec == Init /\ [][Next]_vars

\* The page polls, and what is under way ends one way or the other; nobody
\* promises that the operator does anything, that others do, or that the
\* connection comes or goes.
Fairness ==
    /\ \A q \in Queries : /\ WF_vars(Poll(q))
                          /\ WF_vars(Arrive(q) \/ FailAttempt(q))
    /\ \A s \in Slots : /\ WF_vars(Handle(s) \/ Answer(s) \/ Lose(s))
                        /\ WF_vars(Settle(s)) /\ WF_vars(AbandonedEnds(s))

FairSpec == Spec /\ Fairness

-----------------------------------------------------------------------------

Entries == [asOf : Nat, own : BOOLEAN,
            fetch : {"idle", "fetching", "removed"}, since : Nat,
            tries : 0..FetchRetries + 1,
            error : {"none", "connection", "missing"}]

Sent == [from : Controls, action : Actions, basis : Nat,
         todo : SUBSET Jobs, done : SUBSET Jobs, skipped : SUBSET Jobs,
         phase : {"sent", "unsent", "refetching", "orphan"}, commit : Nat,
         await : SUBSET (Queries \cup {Abandoned}), asked : SUBSET Queries,
         ours : BOOLEAN]

\* No request is taken for none.
ASSUME NoRequestAssumption == NULL \notin Sent

Dialogs == [from : Controls, action : Actions, basis : Nat]

RoomTypeOK ==
    /\ past \in Seq([Jobs -> JobStates]) /\ past # <<>>
    /\ up \in BOOLEAN /\ spent \in Nat
    /\ query \in [Queries -> Entries]
    /\ latest \in Queries
    /\ panel \in Jobs \cup {NULL}
    /\ selected \in SUBSET Jobs
    /\ dialog \in Dialogs \cup {NULL}
    /\ request \in [Slots -> Sent \cup {NULL}]

\* The store refuses an action the screen offered only if the job has changed
\* since the copy the operator saw: the two have the same rules
\* (eligibility.ts against the guards of store.py).  A replay may also meet
\* a report that is being delivered.
RefusedOnlyIfChanged ==
    \A s \in Slots :
        request[s] # NULL /\ request[s].action # "replay" =>
        \A j \in request[s].skipped :
            \E v \in request[s].basis..Len(past) :
                past[v][j] # past[request[s].basis][j]

\* A control is free again only when the copies it had fetched again show its
\* effect, or say that the fetch failed (the awaited invalidateQueries of
\* useJobMutation): nobody sees the old status beside an idle button.  A first
\* fetch that was under way is exempt, the library does not start it again; so
\* is a list that has no copy of its own yet, the one of its old key stands in.
ReadsOwnWrites ==
    [][\A s \in Slots :
         request[s] # NULL /\ request[s].phase = "refetching"
         /\ request'[s] = NULL =>
         \A q \in request[s].asked :
            \/ query[q].asOf >= request[s].commit
            \/ query[q].error # "none"
            \/ ~HasData(query[q])]_vars

\* No control waits for two requests as long as it stays on the screen.
OneRequestPerControl ==
    \A s, t \in Slots :
        /\ request[s] # NULL /\ request[t] # NULL /\ s # t
        /\ request[s].ours /\ request[t].ours
        => request[s].from # request[t].from

-----------------------------------------------------------------------------

UpToDate(q) == LET e == query[q]
               IN  \/ /\ Shown(e) /\ e.own /\ e.asOf = Len(past)
                   \/ /\ q # List /\ Status(q) \notin Statuses
                      /\ e.error = "missing" \/ ~Shown(e)

\* Once the connection stays, the list shows the store as it is; so does a
\* panel that stays open, or it says that the job is gone, or, while it asks
\* again for a job it never got, nothing (refetchInterval).
TheRoomCatchesUp ==
    /\ <>[]up => <>[]UpToDate(List)
    /\ \A j \in Jobs : <>[](up /\ panel = j) => <>[]UpToDate(j)

\* A control that sent a request is free again, whatever happens to the
\* request and to the refetches it waits for.
ControlsComeBack ==
    \A c \in Controls : Busy(c) ~> ~Busy(c)

\* An outage that lasts is shown again and again, and one that is over is not
\* shown for ever.
OutageIsShown   == <>[]~up => []<>Stale
RecoveryIsShown == <>[]up => <>[]~Stale
IndicatorFollows == OutageIsShown /\ RecoveryIsShown

=============================================================================
