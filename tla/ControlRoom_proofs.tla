------------------------- MODULE ControlRoom_proofs -------------------------
(***************************************************************************)
(* The screen acts on old copies but asks only for what it saw to be       *)
(* possible, and no control waits for two requests, for any number of      *)
(* jobs, requests in flight, retries of reads and changes by others.  What *)
(* it assumes of the store follows from JobLife.                           *)
(***************************************************************************)
EXTENDS ControlRoom, TLAPS

-----------------------------------------------------------------------------
(* The invariant.  Each part is stated of a log h, since most steps leave  *)
(* the log alone and the others only append to it.                         *)

Logs == Seq([Jobs -> JobStates]) \ {<<>>}

\* A copy is of an entry of the log, and only a fetch that may still be
\* repeated goes on.
CopyOK(e, h) ==
    /\ e.asOf <= Len(h)
    /\ e.fetch = "fetching" => e.tries <= FetchRetries

\* An open dialog is about what its copy allowed.
OfferOK(d, h) ==
    /\ d \in Dialogs
    /\ d.from # Bulk => /\ d.basis \in 1..Len(h)
                        /\ Can(d.action, h[d.basis][d.from[2]])

\* A request asks for what its copy allowed, and was refused what has changed.
WorkOK(r, h) ==
    /\ r.todo \cup r.skipped # {} => r.basis \in 1..Len(h)
    /\ \A j \in r.todo : Can(r.action, h[r.basis][j])
    /\ r.action # "replay" =>
         \A j \in r.skipped : \E v \in r.basis..Len(h) : h[v][j] # h[r.basis][j]

CopiesOK(Q, h) ==
    /\ Q \in [Queries -> Entries]
    /\ \A q \in Queries : CopyOK(Q[q], h)

RequestsOK(req, h) ==
    /\ req \in [Slots -> Sent \cup {NULL}]
    /\ \A s \in Slots : req[s] # NULL => WorkOK(req[s], h)

\* What Draw puts on the screen.
ScreenOK(Q, p, sel, req, d, h) ==
    /\ CopiesOK(Q, h)
    /\ p \in Jobs \cup {NULL} /\ sel \in SUBSET Jobs
    /\ RequestsOK(req, h)
    /\ d # NULL => OfferOK(d, h)

\* RefusedOnlyIfChanged is not inductive alone: that a refusal needs a change
\* is known from what the request asked for, that from the dialog it came
\* from, and that from the copy that was on the screen.
IInv ==
    /\ past \in Logs /\ up \in BOOLEAN /\ spent \in Nat /\ latest \in Queries
    /\ ScreenOK(query, panel, selected, request, dialog, past)

LEMMA IInvImplies == IInv => RoomTypeOK /\ RefusedOnlyIfChanged
  BY DEF IInv, Logs, ScreenOK, CopiesOK, RequestsOK, OfferOK, WorkOK,
         RoomTypeOK, RefusedOnlyIfChanged

-----------------------------------------------------------------------------
(* The log. *)

LEMMA LogAppend ==
    ASSUME NEW h \in Logs, NEW f \in [Jobs -> JobStates]
    PROVE  /\ Append(h, f) \in Logs
           /\ Len(Append(h, f)) = Len(h) + 1
           /\ \A v \in 1..Len(h) : Append(h, f)[v] = h[v]
<1>1. h \in Seq([Jobs -> JobStates])
  BY DEF Logs
<1>2. Append(h, f) # <<>>
  BY <1>1
<1> QED
  BY <1>1, <1>2 DEF Logs

\* The newest entry, with one job changed, is the next one.
LEMMA Written ==
    ASSUME IInv, NEW j \in Jobs, NEW t \in JobStates, Write(j, t)
    PROVE  /\ past' \in Logs
           /\ Len(past) \in Nat /\ Len(past') = Len(past) + 1
           /\ \A v \in 1..Len(past) : past'[v] = past[v]
<1>1. past \in Seq([Jobs -> JobStates]) /\ past # <<>>
  BY DEF IInv, Logs
<1>2. Len(past) \in 1..Len(past) /\ Len(past) \in Nat
  BY <1>1
<1>3. past[Len(past)] \in [Jobs -> JobStates]
  BY <1>1, <1>2
<1>4. [past[Len(past)] EXCEPT ![j] = t] \in [Jobs -> JobStates]
  BY <1>3
<1> QED
  BY <1>1, <1>2, <1>4, LogAppend DEF IInv, Write

\* What was right of a log is right of a longer one.
LEMMA LongerLog ==
    ASSUME NEW h \in Logs, NEW k \in Logs, Len(h) <= Len(k),
           \A v \in 1..Len(h) : k[v] = h[v]
    PROVE  /\ \A Q : CopiesOK(Q, h) => CopiesOK(Q, k)
           /\ \A d : OfferOK(d, h) => OfferOK(d, k)
           /\ \A r \in Sent : WorkOK(r, h) => WorkOK(r, k)
<1>1. Len(h) \in Nat /\ Len(k) \in Nat
  BY DEF Logs
<1>2. ASSUME NEW Q, CopiesOK(Q, h)
      PROVE  CopiesOK(Q, k)
  BY <1>1, <1>2 DEF CopiesOK, CopyOK, Entries
<1>3. ASSUME NEW d, OfferOK(d, h)
      PROVE  OfferOK(d, k)
  BY <1>1, <1>3 DEF OfferOK
<1>4. ASSUME NEW r \in Sent, WorkOK(r, h)
      PROVE  WorkOK(r, k)
  <2>1. ASSUME r.todo \cup r.skipped # {}
        PROVE  r.basis \in 1..Len(h) /\ k[r.basis] = h[r.basis]
    BY <1>4, <2>1 DEF WorkOK
  <2>2. \A j \in r.todo : Can(r.action, k[r.basis][j])
    BY <1>4, <2>1 DEF WorkOK
  <2>3. ASSUME r.action # "replay", NEW j \in r.skipped
        PROVE  \E v \in r.basis..Len(k) : k[v][j] # k[r.basis][j]
    <3>1. r.basis \in 1..Len(h) /\ k[r.basis] = h[r.basis]
      BY <2>1, <2>3
    <3>2. PICK v \in r.basis..Len(h) : h[v][j] # h[r.basis][j]
      BY <1>4, <2>3 DEF WorkOK
    <3>3. v \in 1..Len(h) /\ v \in r.basis..Len(k)
      BY <1>1, <3>1
    <3> QED
      BY <3>1, <3>2, <3>3
  <2> QED
    BY <1>1, <1>4, <2>1, <2>2, <2>3 DEF WorkOK
<1> QED
  BY <1>2, <1>3, <1>4

-----------------------------------------------------------------------------
(* The screen. *)

LEMMA AbsentOK == /\ Absent \in Entries
                  /\ \A h \in Logs : CopyOK(Absent, h)
  BY RoomAssumption DEF Absent, Entries, CopyOK, Logs

\* What a step does to a request while its work stays the same.
LEMMA SameWork ==
    ASSUME NEW r, NEW t, NEW h, WorkOK(r, h),
           t.action = r.action, t.basis = r.basis, t.todo = r.todo,
           t.skipped = r.skipped
    PROVE  WorkOK(t, h)
  BY DEF WorkOK

LEMMA DrawKeeps ==
    ASSUME NEW h \in Logs, NEW Q, NEW p, NEW sel, NEW req, NEW d,
           ScreenOK(Q, p, sel, req, d, h), Draw(Q, p, sel, req, d)
    PROVE  ScreenOK(query', panel', selected', request', dialog', h)
<1>1. CopiesOK(query', h)
  BY AbsentOK DEF ScreenOK, Draw, CopiesOK
<1>2. RequestsOK(request', h)
  <2>1. ASSUME NEW s \in Slots, req[s] # NULL
        PROVE  /\ request'[s] \in Sent /\ WorkOK(request'[s], h)
    <3>1. req[s] \in Sent /\ WorkOK(req[s], h)
      BY <2>1 DEF ScreenOK, RequestsOK
    <3> DEFINE mine == req[s].ours /\ Visible(req[s].from, Q, p, sel)
    <3>2. request'[s] = [req[s] EXCEPT !.ours = mine]
      BY <2>1 DEF Draw
    <3>3. mine \in BOOLEAN
      OBVIOUS
    <3> HIDE DEF mine
    <3>4. /\ request'[s] \in Sent
          /\ request'[s].action = req[s].action
          /\ request'[s].basis = req[s].basis
          /\ request'[s].todo = req[s].todo
          /\ request'[s].skipped = req[s].skipped
      BY <3>1, <3>2, <3>3 DEF Sent
    <3> QED
      BY <3>1, <3>4, SameWork
  <2>2. \A s \in Slots : req[s] = NULL => request'[s] = NULL
    BY DEF Draw
  <2>3. request' = [s \in Slots |-> request'[s]]
    BY DEF Draw
  <2> QED
    BY <2>1, <2>2, <2>3 DEF RequestsOK
<1>3. dialog' # NULL => OfferOK(dialog', h)
  BY DEF ScreenOK, Draw
<1> QED
  BY <1>1, <1>2, <1>3 DEF ScreenOK, Draw

\* Most steps draw the screen and leave the store alone.
LEMMA Drawn ==
    ASSUME IInv, NEW Q, NEW p, NEW sel, NEW req, NEW d,
           ScreenOK(Q, p, sel, req, d, past), Draw(Q, p, sel, req, d),
           past' = past, up' \in BOOLEAN, spent' \in Nat, latest' \in Queries
    PROVE  IInv'
  BY DrawKeeps DEF IInv

-----------------------------------------------------------------------------
(* The copies. *)

LEMMA LogIndex ==
    ASSUME IInv
    PROVE  Len(past) \in Nat /\ Len(past) \in 1..Len(past)
  BY DEF IInv, Logs

LEMMA CopySet ==
    ASSUME NEW h, NEW Q, CopiesOK(Q, h), NEW q \in Queries,
           NEW e \in Entries, CopyOK(e, h)
    PROVE  CopiesOK([Q EXCEPT ![q] = e], h)
  BY DEF CopiesOK

\* A fetch that starts, or is asked for again, keeps the copy.
LEMMA StartOK ==
    ASSUME IInv, NEW e \in Entries, CopyOK(e, past)
    PROVE  /\ Start(e) \in Entries /\ CopyOK(Start(e), past)
           /\ Invalidate(e) \in Entries /\ CopyOK(Invalidate(e), past)
<1>1. Len(past) \in Nat
  BY LogIndex
<1> DEFINE since == Len(past)
           error == IF HasData(e) THEN e.error ELSE "none"
<1>2. /\ since \in Nat /\ error \in {"none", "connection", "missing"}
      /\ 0 \in 0..FetchRetries + 1
  BY <1>1, RoomAssumption DEF Entries
<1>3. Start(e) = [e EXCEPT !.fetch = "fetching", !.since = since,
                           !.tries = 0, !.error = error]
  BY DEF Start
<1> HIDE DEF since, error
<1>4. /\ Start(e) \in Entries /\ Start(e).asOf = e.asOf /\ Start(e).tries = 0
  BY <1>2, <1>3 DEF Entries
<1>5. CopyOK(Start(e), past)
  BY <1>4, RoomAssumption DEF CopyOK
<1> QED
  BY <1>4, <1>5 DEF Invalidate

\* A copy that is shown is of an entry of the log.
LEMMA ShownIsLogged ==
    ASSUME IInv, NEW q \in Queries, Shown(query[q])
    PROVE  query[q].asOf \in 1..Len(past)
  BY LogIndex DEF IInv, ScreenOK, CopiesOK, CopyOK, Entries, Shown

LEMMA RowsAreJobs ==
    ASSUME IInv, NEW j \in Rows(query)
    PROVE  j \in Jobs /\ Shown(query[List])
  BY DEF Rows

-----------------------------------------------------------------------------
(* The requests. *)

LEMMA RequestsMapped ==
    ASSUME NEW h, NEW req, RequestsOK(req, h), NEW f,
           f = [s \in Slots |-> f[s]],
           \A s \in Slots :
             f[s] # NULL =>
               /\ f[s] \in Sent /\ req[s] # NULL
               /\ f[s].action = req[s].action /\ f[s].basis = req[s].basis
               /\ f[s].todo = req[s].todo /\ f[s].skipped = req[s].skipped
    PROVE  RequestsOK(f, h)
<1>1. ASSUME NEW s \in Slots, f[s] # NULL
      PROVE  f[s] \in Sent /\ WorkOK(f[s], h)
  BY <1>1, SameWork DEF RequestsOK
<1>2. \A s \in Slots : f[s] \in Sent \cup {NULL}
  BY <1>1
<1> QED
  BY <1>1, <1>2 DEF RequestsOK

LEMMA RequestSet ==
    ASSUME NEW h, NEW req, RequestsOK(req, h), NEW s \in Slots,
           NEW r \in Sent \cup {NULL}, r # NULL => WorkOK(r, h)
    PROVE  RequestsOK([req EXCEPT ![s] = r], h)
  BY DEF RequestsOK

\* Waiting no more for a fetch changes nothing else in a request.
LEMMA WaitingOK ==
    ASSUME IInv, NEW q \in Queries
    PROVE  RequestsOK(Resolve(q), past) /\ RequestsOK(Leave(q), past)
<1>1. RequestsOK(request, past)
  BY DEF IInv, ScreenOK
<1>2. RequestsOK(Resolve(q), past)
  <2>1. ASSUME NEW s \in Slots, Resolve(q)[s] # NULL
        PROVE  /\ Resolve(q)[s] \in Sent /\ request[s] # NULL
               /\ Resolve(q)[s].action = request[s].action
               /\ Resolve(q)[s].basis = request[s].basis
               /\ Resolve(q)[s].todo = request[s].todo
               /\ Resolve(q)[s].skipped = request[s].skipped
    <3>1. request[s] # NULL /\ request[s] \in Sent
      BY <1>1, <2>1 DEF Resolve, RequestsOK
    <3>2. Resolve(q)[s] = [request[s] EXCEPT !.await = request[s].await \ {q}]
      BY <3>1 DEF Resolve
    <3> QED
      BY <3>1, <3>2 DEF Sent
  <2> QED
    BY <1>1, <2>1, RequestsMapped DEF Resolve
<1>3. RequestsOK(Leave(q), past)
  <2>1. ASSUME NEW s \in Slots, Leave(q)[s] # NULL
        PROVE  /\ Leave(q)[s] \in Sent /\ request[s] # NULL
               /\ Leave(q)[s].action = request[s].action
               /\ Leave(q)[s].basis = request[s].basis
               /\ Leave(q)[s].todo = request[s].todo
               /\ Leave(q)[s].skipped = request[s].skipped
    <3>1. request[s] # NULL /\ request[s] \in Sent
      BY <1>1, <2>1 DEF Leave, RequestsOK
    <3> DEFINE await == IF q \in request[s].await
                        THEN (request[s].await \ {q}) \cup {Abandoned}
                        ELSE request[s].await
    <3>2. Leave(q)[s] = [request[s] EXCEPT
                            !.asked = request[s].asked \ {q}, !.await = await]
      BY <3>1 DEF Leave
    <3>3. await \in SUBSET (Queries \cup {Abandoned})
      BY <3>1 DEF Sent
    <3> HIDE DEF await
    <3> QED
      BY <3>1, <3>2, <3>3 DEF Sent
  <2> QED
    BY <1>1, <2>1, RequestsMapped DEF Leave
<1> QED
  BY <1>2, <1>3

-----------------------------------------------------------------------------
(* Polling. *)

LEMMA PollKeeps == ASSUME IInv, NEW q \in Queries, Poll(q) PROVE IInv'
<1> DEFINE from == IF query[q].fetch = "removed" THEN Absent ELSE query[q]
<1>1. past \in Logs /\ CopiesOK(query, past)
  BY DEF IInv, ScreenOK
<1>2. from \in Entries /\ CopyOK(from, past)
  BY <1>1, AbsentOK DEF CopiesOK
<1> HIDE DEF from
<1>3. Start(from) \in Entries /\ CopyOK(Start(from), past)
  BY <1>2, StartOK
<1>4. CopiesOK([query EXCEPT ![q] = Start(from)], past)
  BY <1>1, <1>3, CopySet
<1>5. Draw([query EXCEPT ![q] = Start(from)], panel, selected, request, dialog)
  BY DEF Poll, from
<1> QED
  BY <1>4, <1>5, Drawn DEF Poll, IInv, ScreenOK

\* A fetch that gives up keeps the copy.
LEMMA FailedOK ==
    ASSUME IInv, NEW e \in Entries, CopyOK(e, past), e.fetch = "fetching",
           NEW error \in {"missing", "connection"}
    PROVE  Failed(e, error) \in Entries /\ CopyOK(Failed(e, error), past)
<1>1. e.tries + 1 \in 0..FetchRetries + 1
  BY RoomAssumption DEF Entries, CopyOK
<1> QED
  BY <1>1 DEF Failed, Entries, CopyOK

LEMMA ArriveKeeps == ASSUME IInv, NEW q \in Queries, Arrive(q) PROVE IInv'
<1>1. /\ past \in Logs /\ CopiesOK(query, past)
      /\ query[q] \in Entries /\ CopyOK(query[q], past)
  BY DEF IInv, ScreenOK, CopiesOK
<1>2. PICK v \in query[q].since..Len(past) :
         Draw([query EXCEPT ![q] =
                 IF q = List \/ past[v][q] \in Statuses
                 THEN [Absent EXCEPT !.asOf = v]
                 ELSE Failed(query[q], "missing")],
              panel, selected, Resolve(q), dialog)
  BY DEF Arrive
<1> DEFINE copy == [Absent EXCEPT !.asOf = v]
           miss == Failed(query[q], "missing")
           e    == IF q = List \/ past[v][q] \in Statuses THEN copy ELSE miss
<1>3. copy \in Entries /\ CopyOK(copy, past)
  <2>1. v \in Nat /\ v <= Len(past)
    BY <1>1, LogIndex DEF Entries
  <2>2. Absent \in Entries /\ Absent.fetch = "idle"
    BY AbsentOK DEF Absent
  <2>3. copy \in Entries /\ copy.asOf = v /\ copy.fetch = "idle"
    BY <2>1, <2>2 DEF Entries
  <2> QED
    BY <2>1, <2>3 DEF CopyOK
<1>4. miss \in Entries /\ CopyOK(miss, past)
  BY <1>1, FailedOK DEF Arrive
<1>5. e \in Entries /\ CopyOK(e, past)
  BY <1>3, <1>4
<1>6. Draw([query EXCEPT ![q] = e], panel, selected, Resolve(q), dialog)
  BY <1>2
<1> HIDE DEF e
<1>7. CopiesOK([query EXCEPT ![q] = e], past)
  BY <1>1, <1>5, CopySet
<1> QED
  BY <1>6, <1>7, WaitingOK, Drawn DEF Arrive, IInv, ScreenOK

LEMMA FailAttemptKeeps ==
    ASSUME IInv, NEW q \in Queries, FailAttempt(q) PROVE IInv'
<1>1. /\ past \in Logs /\ CopiesOK(query, past)
      /\ query[q] \in Entries /\ CopyOK(query[q], past)
  BY DEF IInv, ScreenOK, CopiesOK
<1>2. Len(past) \in Nat
  BY LogIndex
<1>3. CASE Retries(query[q])
  <2> DEFINE tries == query[q].tries + 1
             since == Len(past)
             e     == [query[q] EXCEPT !.tries = tries, !.since = since]
  <2>1. query' = [query EXCEPT ![q] = e]
    BY <1>1, <1>3 DEF FailAttempt, CopiesOK, Entries
  <2>2. tries \in 0..FetchRetries /\ tries \in 0..FetchRetries + 1
    BY <1>1, <1>3, RoomAssumption DEF Retries, Entries
  <2>3. since \in Nat
    BY <1>2
  <2> HIDE DEF tries, since
  <2>4. /\ e \in Entries /\ e.asOf = query[q].asOf /\ e.tries = tries
    BY <1>1, <2>2, <2>3 DEF Entries
  <2>5. CopyOK(e, past)
    BY <1>1, <2>2, <2>4, RoomAssumption DEF CopyOK
  <2> HIDE DEF e
  <2>6. CopiesOK(query', past)
    BY <1>1, <2>1, <2>4, <2>5, CopySet
  <2> QED
    BY <1>3, <2>6 DEF FailAttempt, IInv, ScreenOK
<1>4. CASE ~Retries(query[q])
  <2>1. Draw([query EXCEPT ![q] = Failed(query[q], "connection")],
             panel, selected, Resolve(q), dialog)
    BY <1>4 DEF FailAttempt
  <2>2. CopiesOK([query EXCEPT ![q] = Failed(query[q], "connection")], past)
    BY <1>1, FailedOK, CopySet DEF FailAttempt
  <2> QED
    BY <1>4, <2>1, <2>2, WaitingOK, Drawn DEF FailAttempt, IInv, ScreenOK
<1> QED
  BY <1>3, <1>4

-----------------------------------------------------------------------------
(* The controls. *)

LEMMA ControlParts ==
    /\ Bulk \in Controls /\ Source(Bulk) = List /\ List \in Queries
    /\ \A c \in Controls \ {Bulk} : /\ c[1] \in {"row", "panel"}
                                    /\ c[2] \in Jobs /\ Source(c) \in Queries
  BY DEF Bulk, Controls, Source, List, Queries

\* A control that is on the screen shows a copy of the store.
LEMMA VisibleIsLogged ==
    ASSUME IInv, NEW c \in Controls \ {Bulk},
           Visible(c, query, panel, selected)
    PROVE  query[Source(c)].asOf \in 1..Len(past)
<1>1. c[1] \in {"row", "panel"} /\ c[2] \in Jobs /\ Source(c) \in Queries
  BY ControlParts
<1>2. CASE c[1] = "row"
  <2>1. c[2] \in Rows(query) /\ Source(c) = List
    BY <1>2 DEF Visible, Source
  <2> QED
    BY <1>1, <2>1, RowsAreJobs, ShownIsLogged
<1>3. CASE c[1] = "panel"
  <2>1. Shown(query[Source(c)])
    BY <1>3 DEF Visible, Source
  <2> QED
    BY <1>1, <2>1, ShownIsLogged
<1> QED
  BY <1>1, <1>2, <1>3

LEMMA EligibleOK ==
    ASSUME IInv, NEW action
    PROVE  /\ Eligible(action) \subseteq Jobs
           /\ Eligible(action) # {} => query[List].asOf \in 1..Len(past)
           /\ \A j \in Eligible(action) :
                Can(action, past[query[List].asOf][j])
<1>1. \A j \in Eligible(action) : j \in Jobs /\ Shown(query[List])
  BY RowsAreJobs DEF Eligible
<1> QED
  BY <1>1, ControlParts, ShownIsLogged DEF Eligible, StatusOf

\* A control sends what its copy allows.
LEMMA SendKeeps ==
    ASSUME IInv, NEW c \in Controls, NEW action \in Actions,
           NEW ids \in SUBSET Jobs, NEW basis \in Nat, NEW d,
           ids # {} => basis \in 1..Len(past),
           \A j \in ids : Can(action, past[basis][j]),
           d # NULL => OfferOK(d, past), Send(c, action, ids, basis, d)
    PROVE  IInv'
<1> DEFINE r == [from |-> c, action |-> action, basis |-> basis,
                 todo |-> ids, done |-> {}, skipped |-> {},
                 phase |-> IF up THEN "sent" ELSE "unsent", commit |-> 0,
                 await |-> {}, asked |-> {}, ours |-> TRUE]
<1>1. PICK s \in Slots : Draw(query, panel, selected,
                              [request EXCEPT ![s] = r], d)
  BY DEF Send
<1>2. r \in Sent /\ WorkOK(r, past)
  BY DEF Sent, WorkOK
<1> HIDE DEF r
<1>3. ScreenOK(query, panel, selected, [request EXCEPT ![s] = r], d, past)
  BY <1>2, RequestSet DEF IInv, ScreenOK
<1> QED
  BY <1>1, <1>3, Drawn DEF Send, IInv

\* A dialog is about what was on offer.
LEMMA OfferKeeps ==
    ASSUME IInv, NEW d, d # NULL => OfferOK(d, past),
           Draw(query, panel, selected, request, d),
           UNCHANGED <<past, up, latest, spent>>
    PROVE  IInv'
<1>1. ScreenOK(query, panel, selected, request, d, past)
  BY DEF IInv, ScreenOK
<1> QED
  BY <1>1, Drawn DEF IInv

LEMMA PressKeeps ==
    ASSUME IInv, NEW c \in Controls \ {Bulk}, NEW action \in Actions,
           Press(c, action)
    PROVE  IInv'
<1> DEFINE basis == query[Source(c)].asOf
<1>1. c[2] \in Jobs
  BY ControlParts
<1>2. basis \in 1..Len(past) /\ basis \in Nat
  BY VisibleIsLogged, LogIndex DEF Press
<1>3. Can(action, past[basis][c[2]])
  BY DEF Press, StatusOf
<1> DEFINE d == [from |-> c, action |-> action, basis |-> basis]
<1>4. \/ Send(c, action, {c[2]}, basis, NULL)
      \/ /\ Draw(query, panel, selected, request, d)
         /\ UNCHANGED <<past, up, latest, spent>>
  BY DEF Press
<1> HIDE DEF basis
<1>5. OfferOK(d, past)
  BY <1>2, <1>3 DEF OfferOK, Dialogs
<1> HIDE DEF d
<1>6. CASE Send(c, action, {c[2]}, basis, NULL)
  BY <1>1, <1>2, <1>3, <1>6, SendKeeps
<1> QED
  BY <1>4, <1>5, <1>6, OfferKeeps

LEMMA PressBulkKeeps ==
    ASSUME IInv, NEW action \in Actions, PressBulk(action)
    PROVE  IInv'
<1> DEFINE d == [from |-> Bulk, action |-> action, basis |-> query[List].asOf]
<1>1. query[List].asOf \in Nat
  BY ControlParts DEF IInv, ScreenOK, CopiesOK, Entries
<1>2. OfferOK(d, past)
  BY <1>1, ControlParts DEF OfferOK, Dialogs
<1> QED
  BY <1>2, OfferKeeps DEF PressBulk

LEMMA ConfirmKeeps == ASSUME IInv, Confirm PROVE IInv'
<1>1. dialog \in Dialogs /\ OfferOK(dialog, past)
  BY DEF Confirm, IInv, ScreenOK, OfferOK
<1>2. dialog.from \in Controls /\ dialog.action \in Actions /\ dialog.basis \in Nat
  BY <1>1 DEF Dialogs
<1>3. CASE dialog.from = Bulk
  <2>1. query[List].asOf \in Nat
    BY ControlParts DEF IInv, ScreenOK, CopiesOK, Entries
  <2>2. Send(Bulk, dialog.action, Eligible(dialog.action), query[List].asOf,
             NULL)
    BY <1>3 DEF Confirm
  <2> HIDE DEF Bulk
  <2> QED
    BY <1>2, <2>1, <2>2, ControlParts, EligibleOK, SendKeeps
<1>4. CASE dialog.from # Bulk
  <2>1. Send(dialog.from, dialog.action, {dialog.from[2]}, dialog.basis, NULL)
    BY <1>4 DEF Confirm
  <2>2. dialog.from[2] \in Jobs
    BY <1>2, <1>4, ControlParts
  <2>3. /\ dialog.basis \in 1..Len(past)
        /\ Can(dialog.action, past[dialog.basis][dialog.from[2]])
    BY <1>1, <1>4 DEF OfferOK
  <2> QED
    BY <1>2, <2>1, <2>2, <2>3, SendKeeps
<1> QED
  BY <1>3, <1>4

-----------------------------------------------------------------------------
(* The server. *)

LEMMA StatusesOK ==
    /\ \A action \in Actions : \A status : Outcomes(action, status) \subseteq JobStates
    /\ \A status \in JobStates : Moves[status] \subseteq JobStates
    /\ \A action \in Actions \ {"replay"} : \A status :
         Can(action, status) => Outcomes(action, status) # {}
<1>1. \A action \in Actions : \A status : Outcomes(action, status) \subseteq JobStates
  BY DEF Actions, Outcomes, JobStates, Statuses
<1>2. \A status \in JobStates : Moves[status] \subseteq JobStates
  BY DEF Moves, JobStates, Statuses
<1>3. \A action \in Actions \ {"replay"} : \A status :
         Can(action, status) => Outcomes(action, status) # {}
  BY DEF Actions, Can, Allowed, Outcomes
<1> QED
  BY <1>1, <1>2, <1>3

LEMMA StatusIsState ==
    ASSUME IInv, NEW j \in Jobs
    PROVE  Status(j) \in JobStates
<1>1. past \in Seq([Jobs -> JobStates]) /\ Len(past) \in 1..Len(past)
  BY LogIndex DEF IInv, Logs
<1>2. past[Len(past)] \in [Jobs -> JobStates]
  BY <1>1
<1> QED
  BY <1>2 DEF Status

\* A write leaves the screen as it is, but for the requests.
LEMMA WriteKeeps ==
    ASSUME IInv, NEW j \in Jobs, NEW t \in JobStates, Write(j, t),
           UNCHANGED <<query, latest, panel, selected, dialog>>,
           up' \in BOOLEAN, spent' \in Nat,
           RequestsOK(request', past')
    PROVE  IInv'
<1>1. /\ past \in Logs /\ past' \in Logs /\ Len(past) <= Len(past')
      /\ \A v \in 1..Len(past) : past'[v] = past[v]
  BY Written DEF IInv
<1>2. CopiesOK(query, past') /\ (dialog # NULL => OfferOK(dialog, past'))
  BY <1>1, LongerLog DEF IInv, ScreenOK
<1> QED
  BY <1>1, <1>2 DEF IInv, ScreenOK

\* The requests, too, if their work stays the same.
LEMMA RequestsLonger ==
    ASSUME IInv, NEW j \in Jobs, NEW t \in JobStates, Write(j, t)
    PROVE  RequestsOK(request, past')
<1>1. /\ past \in Logs /\ past' \in Logs /\ Len(past) <= Len(past')
      /\ \A v \in 1..Len(past) : past'[v] = past[v]
  BY Written DEF IInv
<1>2. RequestsOK(request, past)
  BY DEF IInv, ScreenOK
<1>3. \A s \in Slots : request[s] # NULL => WorkOK(request[s], past')
  BY <1>1, <1>2, LongerLog DEF RequestsOK
<1> QED
  BY <1>2, <1>3 DEF RequestsOK

LEMMA HandleKeeps == ASSUME IInv, NEW s \in Slots, Handle(s) PROVE IInv'
<1> DEFINE r == request[s]
<1>1. /\ RequestsOK(request, past) /\ r \in Sent /\ WorkOK(r, past)
  BY DEF Handle, IInv, ScreenOK, RequestsOK
<1>2. PICK j \in r.todo :
        \/ /\ \E t \in Outcomes(r.action, Status(j)) : Write(j, t)
           /\ request' = [request EXCEPT ![s].todo = @ \ {j},
                                         ![s].done = @ \cup {j},
                                         ![s].commit = Len(past) + 1]
        \/ /\ Outcomes(r.action, Status(j)) = {} \/ r.action = "replay"
           /\ request' = [request EXCEPT ![s].todo = @ \ {j},
                                         ![s].skipped = @ \cup {j}]
           /\ UNCHANGED past
  BY DEF Handle
<1>3. j \in Jobs /\ r.action \in Actions
  BY <1>1 DEF Sent
<1>4. ASSUME NEW t \in Outcomes(r.action, Status(j)), Write(j, t),
             request' = [request EXCEPT ![s].todo = @ \ {j},
                                        ![s].done = @ \cup {j},
                                        ![s].commit = Len(past) + 1]
      PROVE  IInv'
  <2>1. t \in JobStates
    BY <1>3, StatusesOK
  <2> DEFINE commit == Len(past) + 1
             r2 == [r EXCEPT !.todo = r.todo \ {j}, !.done = r.done \cup {j},
                             !.commit = commit]
  <2>2. commit \in Nat
    BY LogIndex
  <2> HIDE DEF commit
  <2>3. /\ r2 \in Sent /\ r2.todo = r.todo \ {j} /\ r2.skipped = r.skipped
        /\ r2.action = r.action /\ r2.basis = r.basis
    BY <1>1, <1>3, <2>2 DEF Sent
  <2>4. request' = [request EXCEPT ![s] = r2]
    BY <1>1, <1>4 DEF RequestsOK, Sent, commit
  <2> HIDE DEF r2
  <2>5. RequestsOK(request, past')
    BY <1>3, <1>4, <2>1, RequestsLonger
  <2>6. WorkOK(r, past')
    BY <2>5 DEF RequestsOK, Handle
  <2>7. WorkOK(r2, past')
    BY <2>3, <2>6 DEF WorkOK
  <2>8. RequestsOK(request', past')
    BY <2>3, <2>4, <2>5, <2>7, RequestSet
  <2> QED
    BY <1>3, <1>4, <2>1, <2>8, WriteKeeps DEF Handle, IInv
<1>5. ASSUME Outcomes(r.action, Status(j)) = {} \/ r.action = "replay",
             request' = [request EXCEPT ![s].todo = @ \ {j},
                                        ![s].skipped = @ \cup {j}],
             UNCHANGED past
      PROVE  IInv'
  <2> DEFINE r2 == [r EXCEPT !.todo = r.todo \ {j},
                             !.skipped = r.skipped \cup {j}]
  <2>1. /\ r2 \in Sent /\ r2.todo = r.todo \ {j}
        /\ r2.skipped = r.skipped \cup {j}
        /\ r2.action = r.action /\ r2.basis = r.basis
    BY <1>1, <1>3 DEF Sent
  <2>2. request' = [request EXCEPT ![s] = r2]
    BY <1>1, <1>5 DEF RequestsOK, Sent
  <2> HIDE DEF r2
  <2>3. r.basis \in 1..Len(past) /\ Can(r.action, past[r.basis][j])
    BY <1>1, <1>2 DEF WorkOK
  <2>4. r.action # "replay" =>
          \E v \in r.basis..Len(past) : past[v][j] # past[r.basis][j]
    <3> SUFFICES ASSUME r.action # "replay"
                 PROVE  past[Len(past)][j] # past[r.basis][j]
      BY <2>3, LogIndex
    <3> QED
      BY <1>3, <1>5, <2>3, StatusesOK DEF Status
  <2>5. WorkOK(r2, past)
    BY <1>1, <2>1, <2>3, <2>4 DEF WorkOK
  <2>6. RequestsOK(request', past)
    BY <1>1, <2>1, <2>2, <2>5, RequestSet
  <2> QED
    BY <1>5, <2>6 DEF Handle, IInv, ScreenOK
<1> QED
  BY <1>2, <1>4, <1>5

\* What a step does to one request that keeps its work, or ends.
LEMMA RequestMoves ==
    ASSUME IInv, NEW s \in Slots, NEW r \in Sent \cup {NULL},
           request[s] # NULL,
           r # NULL => /\ r.action = request[s].action
                       /\ r.basis = request[s].basis
                       /\ r.todo = request[s].todo
                       /\ r.skipped = request[s].skipped
    PROVE  RequestsOK([request EXCEPT ![s] = r], past)
<1>1. RequestsOK(request, past)
  BY DEF IInv, ScreenOK
<1>2. r # NULL => WorkOK(r, past)
  BY <1>1, SameWork DEF RequestsOK
<1> QED
  BY <1>1, <1>2, RequestSet

LEMMA LoseKeeps == ASSUME IInv, NEW s \in Slots, Lose(s) PROVE IInv'
<1>1. request[s] \in Sent /\ request[s] # NULL
  BY DEF Lose, IInv, ScreenOK, RequestsOK
<1> DEFINE r == [request[s] EXCEPT !.phase = "orphan", !.ours = FALSE]
<1>2. /\ r \in Sent /\ r.action = request[s].action
      /\ r.basis = request[s].basis /\ r.todo = request[s].todo
      /\ r.skipped = request[s].skipped
  BY <1>1 DEF Sent
<1>3. \/ request' = [request EXCEPT ![s] = NULL]
      \/ request' = [request EXCEPT ![s] = r]
  BY <1>1 DEF Lose, IInv, ScreenOK, RequestsOK, Sent
<1> HIDE DEF r
<1>4. RequestsOK(request', past)
  BY <1>1, <1>2, <1>3, RequestMoves
<1> QED
  BY <1>4 DEF Lose, IInv, ScreenOK

LEMMA BuryKeeps == ASSUME IInv, NEW s \in Slots, Bury(s) PROVE IInv'
<1>1. RequestsOK(request', past)
  BY RequestMoves DEF Bury
<1> QED
  BY <1>1 DEF Bury, IInv, ScreenOK

LEMMA AbandonedEndsKeeps ==
    ASSUME IInv, NEW s \in Slots, AbandonedEnds(s) PROVE IInv'
<1>1. request[s] \in Sent /\ request[s] # NULL
  BY DEF AbandonedEnds, IInv, ScreenOK, RequestsOK
<1> DEFINE r == [request[s] EXCEPT !.await = request[s].await \ {Abandoned}]
<1>2. /\ r \in Sent /\ r.action = request[s].action
      /\ r.basis = request[s].basis /\ r.todo = request[s].todo
      /\ r.skipped = request[s].skipped
  BY <1>1 DEF Sent
<1>3. request' = [request EXCEPT ![s] = r]
  BY <1>1 DEF AbandonedEnds, IInv, ScreenOK, RequestsOK, Sent
<1> HIDE DEF r
<1>4. RequestsOK(request', past)
  BY <1>1, <1>2, <1>3, RequestMoves
<1> QED
  BY <1>4 DEF AbandonedEnds, IInv, ScreenOK

-----------------------------------------------------------------------------
(* The answer. *)

LEMMA AnswerKeeps == ASSUME IInv, NEW s \in Slots, Answer(s) PROVE IInv'
<1> DEFINE r       == request[s]
           removed == IF r.action = "delete" THEN r.done ELSE {}
           keys    == IF r.from = Bulk THEN Queries ELSE {List} \cup r.done
           asked   == {q \in (keys \ removed) \cap Active(panel) :
                          query[q].fetch # "removed"}
           Again(q) == IF q \in removed
                       THEN [Absent EXCEPT !.asOf = query[q].asOf,
                                           !.fetch = "removed"]
                       ELSE IF q \in asked THEN Invalidate(query[q])
                       ELSE query[q]
           joined  == {q \in asked : ~Joins(query[q])}
           r2      == [r EXCEPT !.phase = "refetching", !.basis = 0,
                                !.done = {}, !.skipped = {}, !.await = asked,
                                !.asked = joined]
           Q       == [q \in Queries |-> Again(q)]
           req     == [t \in Slots |->
                         IF request[t] = NULL THEN NULL
                         ELSE IF t = s THEN r2
                         ELSE [request[t] EXCEPT !.await = @ \ removed,
                                                 !.asked = @ \ removed]]
<1>1. /\ past \in Logs /\ CopiesOK(query, past) /\ RequestsOK(request, past)
      /\ r \in Sent /\ r # NULL /\ r.todo = {}
  BY DEF Answer, IInv, ScreenOK, RequestsOK
<1>2. /\ latest' \in Queries /\ past' = past /\ up' \in BOOLEAN
      /\ spent' \in Nat
  BY ControlParts DEF Answer, IInv
<1>3. CASE Rejected(r)
  <2>1. Draw(query, panel, selected, [request EXCEPT ![s] = NULL], dialog)
    BY <1>3 DEF Answer
  <2>2. RequestsOK([request EXCEPT ![s] = NULL], past)
    BY <1>1, RequestMoves
  <2> QED
    BY <1>2, <2>1, <2>2, Drawn DEF IInv, ScreenOK
<1>4. CASE ~Rejected(r)
  <2>1. Draw(Q, panel, selected, req, dialog)
    BY <1>4 DEF Answer
  <2>2. CopiesOK(Q, past)
    <3>1. ASSUME NEW q \in Queries
          PROVE  Again(q) \in Entries /\ CopyOK(Again(q), past)
      <4>1. query[q] \in Entries /\ CopyOK(query[q], past)
        BY <1>1 DEF CopiesOK
      <4>2. Invalidate(query[q]) \in Entries /\ CopyOK(Invalidate(query[q]), past)
        BY <4>1, StartOK
      <4> DEFINE gone == [Absent EXCEPT !.asOf = query[q].asOf,
                                        !.fetch = "removed"]
      <4>3. gone \in Entries /\ gone.asOf = query[q].asOf /\ gone.fetch = "removed"
        BY <4>1, AbsentOK DEF Entries
      <4>4. CopyOK(gone, past)
        BY <4>1, <4>3 DEF CopyOK
      <4> HIDE DEF gone
      <4> QED
        BY <4>1, <4>2, <4>3, <4>4 DEF gone
    <3> HIDE DEF Again
    <3> QED
      BY <3>1 DEF CopiesOK
  <2>3. r2 \in Sent /\ WorkOK(r2, past)
    <3>1. joined \in SUBSET Queries
      BY DEF Active, Queries, List, IInv, ScreenOK
    <3>2. asked \in SUBSET (Queries \cup {Abandoned})
      BY DEF Active, Queries, List, IInv, ScreenOK
    <3> HIDE DEF joined, asked, r
    <3>3. r2 \in Sent /\ r2.todo = {} /\ r2.skipped = {}
      BY <1>1, <3>1, <3>2 DEF Sent
    <3> QED
      BY <3>3 DEF WorkOK
  <2>4. RequestsOK(req, past)
    <3>1. ASSUME NEW t \in Slots, req[t] # NULL
          PROVE  req[t] \in Sent /\ WorkOK(req[t], past)
      <4>1. CASE t = s
        BY <1>1, <2>3, <4>1
      <4>2. CASE t # s
        <5> HIDE DEF removed
        <5>1. /\ request[t] \in Sent /\ request[t] # NULL
              /\ WorkOK(request[t], past)
          BY <1>1, <3>1 DEF RequestsOK
        <5> DEFINE await2 == request[t].await \ removed
                   asked2 == request[t].asked \ removed
        <5>2. req[t] = [request[t] EXCEPT !.await = await2, !.asked = asked2]
          BY <4>2, <5>1
        <5>3. /\ await2 \in SUBSET (Queries \cup {Abandoned})
              /\ asked2 \in SUBSET Queries
          BY <5>1 DEF Sent
        <5> HIDE DEF req, await2, asked2
        <5>4. /\ req[t] \in Sent
              /\ req[t].action = request[t].action
              /\ req[t].basis = request[t].basis
              /\ req[t].todo = request[t].todo
              /\ req[t].skipped = request[t].skipped
          BY <5>1, <5>2, <5>3 DEF Sent
        <5> QED
          BY <5>1, <5>4, SameWork
      <4> QED
        BY <4>1, <4>2
    <3>2. req = [t \in Slots |-> req[t]]
      OBVIOUS
    <3> HIDE DEF req
    <3> QED
      BY <3>1, <3>2 DEF RequestsOK
  <2> HIDE DEF Q, req
  <2> QED
    BY <1>2, <2>1, <2>2, <2>4, Drawn DEF IInv, ScreenOK
<1> QED
  BY <1>3, <1>4

LEMMA SettleKeeps == ASSUME IInv, NEW s \in Slots, Settle(s) PROVE IInv'
<1> DEFINE close == /\ request[s].from[1] = "panel"
                    /\ request[s].action = "delete" /\ panel # NULL
           req   == IF close THEN Leave(panel) ELSE request
           p     == IF close THEN NULL ELSE panel
           sel   == IF request[s].from = Bulk THEN {} ELSE selected
<1>1. Draw(query, p, sel, [req EXCEPT ![s] = NULL], dialog)
  BY DEF Settle
<1>2. close => panel \in Queries
  BY DEF IInv, ScreenOK, Queries
<1>3. RequestsOK(req, past)
  BY <1>2, WaitingOK DEF IInv, ScreenOK
<1>4. p \in Jobs \cup {NULL} /\ sel \in SUBSET Jobs
  BY DEF IInv, ScreenOK
<1>5. latest' \in Queries
  BY ControlParts DEF Settle, IInv
<1> HIDE DEF req, p, sel
<1>6. RequestsOK([req EXCEPT ![s] = NULL], past)
  BY <1>3, RequestSet
<1> QED
  BY <1>1, <1>4, <1>5, <1>6, Drawn DEF Settle, IInv, ScreenOK

-----------------------------------------------------------------------------
(* The operator moves about. *)

LEMMA TickKeeps ==
    ASSUME IInv, NEW ids \in SUBSET Jobs, Tick(ids)
    PROVE  IInv'
  BY Drawn DEF Tick, IInv, ScreenOK

LEMMA SelectKeeps == ASSUME IInv, Select PROVE IInv'
<1>1. selected \in SUBSET Jobs /\ Rows(query) \subseteq Jobs
  BY DEF IInv, ScreenOK, Rows
<1>2. PICK ids \in SUBSET Jobs : Tick(ids)
  BY <1>1 DEF Select
<1> QED
  BY <1>2, TickKeeps

LEMMA OpenPanelKeeps == ASSUME IInv, NEW j \in Jobs, OpenPanel(j) PROVE IInv'
<1> DEFINE req == IF panel = NULL THEN request ELSE Leave(panel)
<1>1. PICK v \in 0..Len(past) :
        /\ Draw([query EXCEPT ![j] = Start([Absent EXCEPT !.asOf = v])], j,
                selected, req, dialog)
        /\ latest' \in IF v = 0 THEN {List} ELSE {List, j}
  BY DEF OpenPanel
<1> DEFINE e == [Absent EXCEPT !.asOf = v]
<1>2. v \in Nat /\ v <= Len(past)
  BY LogIndex
<1>3. e \in Entries /\ e.asOf = v /\ e.fetch = "idle"
  <2>1. Absent \in Entries /\ Absent.fetch = "idle"
    BY AbsentOK DEF Absent
  <2> QED
    BY <1>2, <2>1 DEF Entries
<1>4. CopyOK(e, past)
  BY <1>2, <1>3 DEF CopyOK
<1> HIDE DEF e
<1>5. Start(e) \in Entries /\ CopyOK(Start(e), past)
  BY <1>3, <1>4, StartOK
<1>6. j \in Queries /\ List \in Queries
  BY DEF Queries
<1>7. CopiesOK([query EXCEPT ![j] = Start(e)], past)
  BY <1>5, <1>6, CopySet DEF IInv, ScreenOK
<1>8. RequestsOK(req, past)
  BY WaitingOK DEF IInv, ScreenOK, Queries
<1>9. Draw([query EXCEPT ![j] = Start(e)], j, selected, req, dialog)
  BY <1>1 DEF e
<1> HIDE DEF req
<1> QED
  BY <1>1, <1>6, <1>7, <1>8, <1>9, Drawn DEF OpenPanel, IInv, ScreenOK

LEMMA ClosePanelKeeps == ASSUME IInv, ClosePanel PROVE IInv'
<1>1. RequestsOK(Leave(panel), past)
  BY WaitingOK DEF ClosePanel, IInv, ScreenOK, Queries
<1> QED
  BY <1>1, ControlParts, Drawn DEF ClosePanel, IInv, ScreenOK

LEMMA NewKeyKeeps ==
    ASSUME IInv, NEW sel \in SUBSET Jobs, NewKey(sel)
    PROVE  IInv'
<1> DEFINE e == [query[List] EXCEPT !.own = FALSE]
<1>1. query[List] \in Entries /\ CopyOK(query[List], past)
  BY ControlParts DEF IInv, ScreenOK, CopiesOK
<1>2. e \in Entries /\ CopyOK(e, past)
  BY <1>1 DEF Entries, CopyOK
<1>3. Draw([query EXCEPT ![List] = Start(e)], panel, sel, Leave(List), dialog)
  BY DEF NewKey
<1> HIDE DEF e
<1>4. Start(e) \in Entries /\ CopyOK(Start(e), past)
  BY <1>2, StartOK
<1>5. CopiesOK([query EXCEPT ![List] = Start(e)], past)
  BY <1>4, ControlParts, CopySet DEF IInv, ScreenOK
<1>6. RequestsOK(Leave(List), past)
  BY WaitingOK, ControlParts
<1>7. latest' \in Queries
  BY DEF NewKey, IInv, ScreenOK, Queries
<1> QED
  BY <1>3, <1>5, <1>6, <1>7, Drawn DEF NewKey, IInv, ScreenOK

LEMMA OthersStepKeeps == ASSUME IInv, OthersStep PROVE IInv'
<1>1. PICK j \in Jobs : \E t \in Moves[Status(j)] : Write(j, t)
  BY DEF OthersStep
<1>2. PICK t \in Moves[Status(j)] : Write(j, t)
  BY <1>1
<1>3. t \in JobStates
  BY <1>2, StatusIsState, StatusesOK
<1>4. RequestsOK(request, past')
  BY <1>2, <1>3, RequestsLonger
<1> QED
  BY <1>2, <1>3, <1>4, WriteKeeps DEF OthersStep, room, IInv

-----------------------------------------------------------------------------

LEMMA InitOK == Init => IInv
<1> SUFFICES ASSUME Init PROVE IInv
  OBVIOUS
<1>1. PICK f \in [Jobs -> FirstStatuses] : past = <<f>>
  BY DEF Init
<1>2. past \in Logs
  <2>1. f \in [Jobs -> JobStates]
    BY RoomAssumption
  <2> QED
    BY <1>1, <2>1 DEF Logs
<1>3. CopiesOK(query, past)
  <2>1. Start(Absent) \in Entries /\ CopyOK(Start(Absent), past)
    <3> DEFINE since == Len(past)
    <3>1. since \in Nat /\ 0 \in 0..FetchRetries + 1 /\ 0 <= since
      BY <1>2, RoomAssumption DEF Logs
    <3>2. Start(Absent) = [Absent EXCEPT !.fetch = "fetching", !.since = since,
                                         !.tries = 0, !.error = "none"]
      BY DEF Start, HasData, Absent
    <3> HIDE DEF since
    <3>3. Start(Absent) \in Entries
      BY <3>1, <3>2, AbsentOK DEF Entries
    <3>4. Start(Absent).asOf = 0 /\ Start(Absent).tries = 0
      BY <3>2 DEF Absent
    <3> QED
      BY <3>1, <3>3, <3>4, RoomAssumption DEF CopyOK, since
  <2> QED
    BY <1>2, <2>1, AbsentOK DEF Init, CopiesOK
<1>4. RequestsOK(request, past)
  BY DEF Init, RequestsOK
<1> QED
  BY <1>2, <1>3, <1>4 DEF Init, IInv, ScreenOK, Queries

LEMMA NextOK == IInv /\ [Next]_vars => IInv'
<1> SUFFICES ASSUME IInv, [Next]_vars PROVE IInv'
  OBVIOUS
<1>1. CASE Fetching
  BY <1>1, PollKeeps, ArriveKeeps, FailAttemptKeeps DEF Fetching
<1>2. CASE Requests
  BY <1>2, AnswerKeeps, LoseKeeps, AbandonedEndsKeeps DEF Requests
<1>3. CASE Operator
  <2>1. CASE Dismiss
    BY <2>1, OfferKeeps DEF Dismiss
  <2>2. CASE ChangeSearch
    BY <2>2, NewKeyKeeps DEF ChangeSearch
  <2> QED
    BY <1>3, <2>1, <2>2, PressKeeps, PressBulkKeeps, ConfirmKeeps, SelectKeeps,
       OpenPanelKeeps, ClosePanelKeeps DEF Operator
<1>4. CASE KeyMoves
  BY <1>4, NewKeyKeeps DEF KeyMoves, IInv, ScreenOK
<1>5. CASE Server
  BY <1>5, HandleKeeps, BuryKeeps DEF Server
<1>6. CASE World
  <2>1. CASE Outage \/ Recovery
    <3>1. UNCHANGED <<past, query, latest, panel, selected, dialog, request>>
      BY <2>1 DEF Outage, Recovery, room
    <3>2. up' \in BOOLEAN
      BY <2>1, Zenon DEF Outage, Recovery
    <3>3. spent' \in Nat
      BY <2>1 DEF Outage, Recovery, IInv
    <3> QED
      BY <3>1, <3>2, <3>3 DEF IInv
  <2> QED
    BY <1>6, <2>1, OthersStepKeeps DEF World
<1>7. CASE UNCHANGED vars
  BY <1>7 DEF vars, IInv
<1> QED
  BY <1>1, <1>2, <1>3, <1>4, <1>5, <1>6, <1>7, SettleKeeps DEF Next

\* Copies, dialogs, requests and the log keep their types: also, no read is
\* tried more than FetchRetries times again (retryNetworkErrors).
THEOREM RoomTypesHold == Spec => []RoomTypeOK
<1>1. IInv => RoomTypeOK
  BY IInvImplies
<1> QED
  BY <1>1, InitOK, NextOK, PTL DEF Spec

\* Whatever the operator, the server, the network and the others do, and in
\* whatever order, the store refuses an action that the screen offered only if
\* the job has changed since.
THEOREM RefusalsAreChanges == Spec => []RefusedOnlyIfChanged
<1>1. IInv => RefusedOnlyIfChanged
  BY IInvImplies
<1> QED
  BY <1>1, InitOK, NextOK, PTL DEF Spec

-----------------------------------------------------------------------------
(* One request per control.                                                *)

\* OneRequestPerControl is not inductive alone: a dialog that is open must have
\* no request of its control beside it, and a request that was lost no control.
Alone ==
    /\ OneRequestPerControl
    /\ \A s \in Slots : request[s] # NULL /\ request[s].ours =>
          /\ request[s].phase # "orphan"
          /\ dialog # NULL => dialog.from # request[s].from

\* Every step but a new request leaves each control with those it had.
Fewer(req) ==
    \A s \in Slots : req[s] # NULL =>
        /\ request[s] # NULL /\ req[s].from = request[s].from
        /\ req[s].ours => request[s].ours /\ req[s].phase # "orphan"

LEMMA FewerAlone ==
    ASSUME Alone, Fewer(request'), dialog' \in {NULL, dialog}
    PROVE  Alone'
  BY DEF Alone, Fewer, OneRequestPerControl

LEMMA RequestType == ASSUME IInv PROVE request \in [Slots -> Sent \cup {NULL}]
  BY DEF IInv, ScreenOK, RequestsOK

LEMMA SameRequests == ASSUME IInv, Alone PROVE Fewer(request)
  BY DEF Alone, Fewer

\* Drawing takes requests away from controls and gives them none.
LEMMA DrawnRequests ==
    ASSUME NEW Q, NEW p, NEW sel, NEW req, NEW d, Draw(Q, p, sel, req, d)
    PROVE  /\ \A s \in Slots : request'[s] # NULL =>
                /\ req[s] # NULL
                /\ req[s] \in Sent =>
                     /\ request'[s].from = req[s].from
                     /\ request'[s].phase = req[s].phase
                     /\ request'[s].ours => req[s].ours
           /\ dialog' \in {NULL, d}
<1>1. ASSUME NEW s \in Slots, request'[s] # NULL
      PROVE  /\ req[s] # NULL
             /\ req[s] \in Sent =>
                  /\ request'[s].from = req[s].from
                  /\ request'[s].phase = req[s].phase
                  /\ request'[s].ours => req[s].ours
  <2>1. req[s] # NULL
    BY <1>1 DEF Draw
  <2> DEFINE mine == req[s].ours /\ Visible(req[s].from, Q, p, sel)
  <2>2. request'[s] = [req[s] EXCEPT !.ours = mine]
    BY <2>1 DEF Draw
  <2>3. mine => req[s].ours
    OBVIOUS
  <2> HIDE DEF mine
  <2> QED
    BY <2>1, <2>2, <2>3 DEF Sent
<1> QED
  BY <1>1 DEF Draw

LEMMA DrawnAlone ==
    ASSUME Alone, NEW Q, NEW p, NEW sel, NEW req, NEW d,
           Draw(Q, p, sel, req, d), Fewer(req), d \in {NULL, dialog},
           \A s \in Slots : req[s] # NULL => req[s] \in Sent
    PROVE  Alone'
<1>1. Fewer(request')
  BY DrawnRequests DEF Fewer
<1> QED
  BY <1>1, DrawnRequests, FewerAlone

LEMMA WaitingFewer ==
    ASSUME IInv, Alone, NEW q \in Queries
    PROVE  /\ Fewer(Resolve(q)) /\ Fewer(Leave(q))
           /\ \A s \in Slots : /\ Resolve(q)[s] # NULL => Resolve(q)[s] \in Sent
                               /\ Leave(q)[s] # NULL => Leave(q)[s] \in Sent
<1>1. \A s \in Slots : /\ Resolve(q)[s] # NULL => Resolve(q)[s] \in Sent
                       /\ Leave(q)[s] # NULL => Leave(q)[s] \in Sent
  BY WaitingOK DEF RequestsOK
<1>2. ASSUME NEW s \in Slots, request[s] # NULL
      PROVE  /\ Resolve(q)[s].from = request[s].from
             /\ Resolve(q)[s].phase = request[s].phase
             /\ Resolve(q)[s].ours = request[s].ours
             /\ Leave(q)[s].from = request[s].from
             /\ Leave(q)[s].phase = request[s].phase
             /\ Leave(q)[s].ours = request[s].ours
  BY <1>2, RequestType DEF Resolve, Leave, Sent
<1>3. \A s \in Slots : request[s] = NULL =>
                         Resolve(q)[s] = NULL /\ Leave(q)[s] = NULL
  BY DEF Resolve, Leave
<1> QED
  BY <1>1, <1>2, <1>3 DEF Alone, Fewer

\* A control sends only when it waits for nothing.
LEMMA SendAlone ==
    ASSUME IInv, Alone, NEW c \in Controls, NEW action \in Actions,
           NEW ids \in SUBSET Jobs, NEW basis \in Nat,
           Send(c, action, ids, basis, NULL),
           \A s \in Slots : request[s] # NULL /\ request[s].ours =>
                              request[s].from # c
    PROVE  Alone'
<1> DEFINE r == [from |-> c, action |-> action, basis |-> basis,
                 todo |-> ids, done |-> {}, skipped |-> {},
                 phase |-> IF up THEN "sent" ELSE "unsent", commit |-> 0,
                 await |-> {}, asked |-> {}, ours |-> TRUE]
<1>1. PICK s \in Slots : Draw(query, panel, selected,
                              [request EXCEPT ![s] = r], NULL)
  BY DEF Send
<1>2. r \in Sent /\ r.from = c /\ r.phase # "orphan"
  BY DEF Sent
<1> HIDE DEF r
<1> DEFINE req == [request EXCEPT ![s] = r]
<1>3. /\ req[s] = r
      /\ \A t \in Slots \ {s} : req[t] = request[t]
      /\ \A t \in Slots : req[t] # NULL => req[t] \in Sent
  BY <1>2, RequestType
<1>4. Draw(query, panel, selected, req, NULL)
  BY <1>1
<1> HIDE DEF req
<1>5. /\ dialog' = NULL
      /\ request'[s] # NULL => request'[s].from = c
                               /\ request'[s].phase # "orphan"
  BY <1>2, <1>3, <1>4, DrawnRequests
<1>6. ASSUME NEW t \in Slots \ {s}, request'[t] # NULL
      PROVE  /\ request[t] # NULL /\ request'[t].from = request[t].from
             /\ request'[t].phase = request[t].phase
             /\ request'[t].ours => request[t].ours
  BY <1>3, <1>4, <1>6, DrawnRequests
<1> QED
  BY <1>5, <1>6 DEF Alone, OneRequestPerControl

LEMMA NotBusy ==
    ASSUME IInv, Alone, NEW c, ~Busy(c)
    PROVE  \A s \in Slots : request[s] # NULL /\ request[s].ours =>
                              request[s].from # c
  BY RequestType DEF Alone, Busy, Sent

\* A dialog is opened by a control that waits for nothing.
LEMMA OfferAlone ==
    ASSUME IInv, Alone, NEW d, Draw(query, panel, selected, request, d),
           ~Busy(d.from)
    PROVE  Alone'
<1>1. \A s \in Slots : request'[s] # NULL =>
         /\ request[s] # NULL /\ request'[s].from = request[s].from
         /\ request'[s].phase = request[s].phase
         /\ request'[s].ours => request[s].ours
  BY DrawnRequests, RequestType
<1>2. dialog' \in {NULL, d}
  BY DrawnRequests
<1> QED
  BY <1>1, <1>2, NotBusy DEF Alone, OneRequestPerControl

LEMMA ServerAlone ==
    ASSUME IInv, Alone, NEW s \in Slots,
           Handle(s) \/ Lose(s) \/ Bury(s) \/ AbandonedEnds(s)
    PROVE  Alone'
<1>1. request[s] # NULL /\ request[s] \in Sent
  BY RequestType DEF Handle, Lose, Bury, AbandonedEnds
<1>2. dialog' = dialog /\ \A t \in Slots \ {s} : request'[t] = request[t]
  BY RequestType DEF Handle, Lose, Bury, AbandonedEnds
<1>3. request'[s] # NULL =>
         /\ request'[s].from = request[s].from
         /\ request'[s].ours => request[s].ours
                                /\ request'[s].phase = request[s].phase
  <2>1. CASE Handle(s)
    <3>1. PICK j \in request[s].todo :
             \/ request' = [request EXCEPT
                              ![s].todo = request[s].todo \ {j},
                              ![s].done = request[s].done \cup {j},
                              ![s].commit = Len(past) + 1]
             \/ request' = [request EXCEPT
                              ![s].todo = request[s].todo \ {j},
                              ![s].skipped = request[s].skipped \cup {j}]
      BY <2>1 DEF Handle
    <3> DEFINE commit == Len(past) + 1
    <3>2. \/ request'[s] = [request[s] EXCEPT !.todo = request[s].todo \ {j},
                                  !.done = request[s].done \cup {j},
                                  !.commit = commit]
          \/ request'[s] = [request[s] EXCEPT !.todo = request[s].todo \ {j},
                                  !.skipped = request[s].skipped \cup {j}]
      BY <3>1, RequestType
    <3> HIDE DEF commit
    <3> QED
      BY <1>1, <3>2 DEF Sent
  <2>2. CASE Lose(s)
    BY <1>1, <2>2, RequestType DEF Lose, Sent
  <2>3. CASE Bury(s)
    BY <1>1, <2>3, RequestType DEF Bury
  <2>4. CASE AbandonedEnds(s)
    BY <1>1, <2>4, RequestType DEF AbandonedEnds, Sent
  <2> QED
    BY <2>1, <2>2, <2>3, <2>4
<1>4. Fewer(request')
  BY <1>1, <1>2, <1>3 DEF Alone, Fewer
<1> QED
  BY <1>2, <1>4, FewerAlone

LEMMA FetchingAlone == ASSUME IInv, Alone, Fetching PROVE Alone'
<1>1. PICK q \in Queries : Poll(q) \/ Arrive(q) \/ FailAttempt(q)
  BY DEF Fetching
<1>2. CASE Poll(q)
  BY <1>2, RequestType, SameRequests, DrawnAlone DEF Poll
<1>3. CASE Arrive(q)
  BY <1>3, WaitingFewer, DrawnAlone DEF Arrive
<1>4. CASE FailAttempt(q)
  <2>1. CASE UNCHANGED <<dialog, request>>
    BY <2>1, SameRequests, FewerAlone
  <2>2. CASE Draw([query EXCEPT ![q] = Failed(query[q], "connection")],
                  panel, selected, Resolve(q), dialog)
    BY <2>2, WaitingFewer, DrawnAlone
  <2> QED
    BY <1>4, <2>1, <2>2 DEF FailAttempt
<1> QED
  BY <1>1, <1>2, <1>3, <1>4

LEMMA AnswerAlone == ASSUME IInv, Alone, NEW s \in Slots, Answer(s) PROVE Alone'
<1> DEFINE r       == request[s]
           removed == IF r.action = "delete" THEN r.done ELSE {}
           keys    == IF r.from = Bulk THEN Queries ELSE {List} \cup r.done
           asked   == {q \in (keys \ removed) \cap Active(panel) :
                          query[q].fetch # "removed"}
           Again(q) == IF q \in removed
                       THEN [Absent EXCEPT !.asOf = query[q].asOf,
                                           !.fetch = "removed"]
                       ELSE IF q \in asked THEN Invalidate(query[q])
                       ELSE query[q]
           joined  == {q \in asked : ~Joins(query[q])}
           r2      == [r EXCEPT !.phase = "refetching", !.basis = 0,
                                !.done = {}, !.skipped = {}, !.await = asked,
                                !.asked = joined]
           Q       == [q \in Queries |-> Again(q)]
           req     == [t \in Slots |->
                         IF request[t] = NULL THEN NULL
                         ELSE IF t = s THEN r2
                         ELSE [request[t] EXCEPT !.await = @ \ removed,
                                                 !.asked = @ \ removed]]
<1>1. r \in Sent /\ r # NULL
  BY RequestType DEF Answer
<1>2. CASE Rejected(r)
  <2> DEFINE rest == [request EXCEPT ![s] = NULL]
  <2>1. Draw(query, panel, selected, rest, dialog)
    BY <1>2 DEF Answer
  <2>2. \A t \in Slots : rest[t] # NULL => rest[t] = request[t]
    BY RequestType
  <2> HIDE DEF rest
  <2>3. Fewer(rest) /\ \A t \in Slots : rest[t] # NULL => rest[t] \in Sent
    BY <2>2, RequestType DEF Alone, Fewer
  <2> QED
    BY <2>1, <2>3, DrawnAlone
<1>3. CASE ~Rejected(r)
  <2>1. Draw(Q, panel, selected, req, dialog)
    BY <1>3 DEF Answer
  <2> HIDE DEF Again
  <2>2. /\ asked \in SUBSET (Queries \cup {Abandoned})
        /\ joined \in SUBSET Queries
    BY DEF Active, Queries, List, IInv, ScreenOK
  <2>3. /\ r2 \in Sent /\ r2.from = r.from /\ r2.phase # "orphan"
        /\ r2.ours => r.ours
    <3> HIDE DEF r, asked, joined
    <3> QED
      BY <1>1, <2>2 DEF Sent
  <2>4. ASSUME NEW t \in Slots, req[t] # NULL
        PROVE  /\ req[t] \in Sent
               /\ request[t] # NULL /\ req[t].from = request[t].from
               /\ req[t].ours => request[t].ours /\ req[t].phase # "orphan"
    <3>1. request[t] \in Sent /\ request[t] # NULL
      BY <2>4, RequestType
    <3>2. CASE t = s
      BY <1>1, <2>3, <3>2
    <3>3. CASE t # s
      <4> HIDE DEF removed
      <4> DEFINE await2 == request[t].await \ removed
                 asked2 == request[t].asked \ removed
      <4>1. req[t] = [request[t] EXCEPT !.await = await2, !.asked = asked2]
        BY <3>1, <3>3
      <4>2. /\ await2 \in SUBSET (Queries \cup {Abandoned})
            /\ asked2 \in SUBSET Queries
        BY <3>1 DEF Sent
      <4> HIDE DEF req, await2, asked2
      <4>3. /\ req[t] \in Sent /\ req[t].from = request[t].from
            /\ req[t].phase = request[t].phase
            /\ req[t].ours = request[t].ours
        BY <3>1, <4>1, <4>2 DEF Sent
      <4> QED
        BY <3>1, <4>3 DEF Alone
    <3> QED
      BY <3>2, <3>3
  <2> HIDE DEF Q, req
  <2>5. Fewer(req)
    BY <2>4 DEF Fewer
  <2> QED
    BY <2>1, <2>4, <2>5, DrawnAlone
<1> QED
  BY <1>2, <1>3

LEMMA SettleAlone == ASSUME IInv, Alone, NEW s \in Slots, Settle(s) PROVE Alone'
<1> DEFINE close == /\ request[s].from[1] = "panel"
                    /\ request[s].action = "delete" /\ panel # NULL
           held  == IF close THEN Leave(panel) ELSE request
           rest  == [held EXCEPT ![s] = NULL]
           p     == IF close THEN NULL ELSE panel
           sel   == IF request[s].from = Bulk THEN {} ELSE selected
<1>1. Draw(query, p, sel, rest, dialog)
  BY DEF Settle
<1>2. close => panel \in Queries
  BY DEF IInv, ScreenOK, Queries
<1>3. /\ Fewer(held) /\ held = [t \in Slots |-> held[t]]
      /\ \A t \in Slots : held[t] # NULL => held[t] \in Sent
  <2>1. CASE close
    BY <1>2, <2>1, WaitingFewer DEF Leave
  <2>2. CASE ~close
    BY <2>2, SameRequests, RequestType
  <2> QED
    BY <2>1, <2>2
<1> HIDE DEF held, p, sel
<1>4. \A t \in Slots : rest[t] # NULL => rest[t] = held[t]
  BY <1>3
<1> HIDE DEF rest
<1>5. Fewer(rest) /\ \A t \in Slots : rest[t] # NULL => rest[t] \in Sent
  BY <1>3, <1>4 DEF Fewer
<1> QED
  BY <1>1, <1>5, DrawnAlone

LEMMA PressAlone ==
    ASSUME IInv, Alone, NEW c \in Controls \ {Bulk}, NEW action \in Actions,
           Press(c, action)
    PROVE  Alone'
<1> DEFINE basis == query[Source(c)].asOf
           d     == [from |-> c, action |-> action, basis |-> basis]
<1>1. c[2] \in Jobs
  BY ControlParts
<1>2. basis \in Nat
  BY VisibleIsLogged, LogIndex DEF Press
<1>3. ~Busy(c) /\ d.from = c
  BY DEF Press
<1>4. \/ Send(c, action, {c[2]}, basis, NULL)
      \/ Draw(query, panel, selected, request, d)
  BY DEF Press
<1> HIDE DEF basis, d
<1>5. CASE Send(c, action, {c[2]}, basis, NULL)
  BY <1>1, <1>2, <1>3, <1>5, NotBusy, SendAlone
<1>6. CASE Draw(query, panel, selected, request, d)
  BY <1>3, <1>6, OfferAlone
<1> QED
  BY <1>4, <1>5, <1>6

LEMMA PressBulkAlone ==
    ASSUME IInv, Alone, NEW action \in Actions, PressBulk(action)
    PROVE  Alone'
<1> DEFINE d == [from |-> Bulk, action |-> action, basis |-> query[List].asOf]
<1>1. Draw(query, panel, selected, request, d) /\ d.from = Bulk /\ ~Busy(Bulk)
  BY DEF PressBulk
<1> HIDE DEF d
<1> QED
  BY <1>1, OfferAlone

LEMMA ConfirmAlone == ASSUME IInv, Alone, Confirm PROVE Alone'
<1>1. dialog \in Dialogs /\ dialog # NULL
  BY DEF Confirm, IInv, ScreenOK, OfferOK
<1>2. /\ dialog.from \in Controls /\ dialog.action \in Actions
      /\ dialog.basis \in Nat
  BY <1>1 DEF Dialogs
<1>3. \A s \in Slots : request[s] # NULL /\ request[s].ours =>
                         request[s].from # dialog.from
  BY <1>1 DEF Alone
<1>4. CASE dialog.from = Bulk
  <2>1. query[List].asOf \in Nat
    BY ControlParts DEF IInv, ScreenOK, CopiesOK, Entries
  <2>2. Send(dialog.from, dialog.action, Eligible(dialog.action),
             query[List].asOf, NULL)
    BY <1>4 DEF Confirm
  <2> QED
    BY <1>2, <1>3, <2>1, <2>2, EligibleOK, SendAlone
<1>5. CASE dialog.from # Bulk
  <2>1. Send(dialog.from, dialog.action, {dialog.from[2]}, dialog.basis, NULL)
    BY <1>5 DEF Confirm
  <2>2. dialog.from[2] \in Jobs
    BY <1>2, <1>5, ControlParts
  <2> QED
    BY <1>2, <1>3, <2>1, <2>2, SendAlone
<1> QED
  BY <1>4, <1>5

\* Moving about the page sends nothing.
LEMMA MovesAlone ==
    ASSUME IInv, Alone, Dismiss \/ Select \/ ClosePanel \/ ChangeSearch
                        \/ KeyMoves \/ \E j \in Jobs : OpenPanel(j)
    PROVE  Alone'
<1>1. panel # NULL => panel \in Queries
  BY DEF IInv, ScreenOK, Queries
<1>2. \A s \in Slots : request[s] # NULL => request[s] \in Sent
  BY RequestType
<1>3. CASE Dismiss
  BY <1>2, <1>3, SameRequests, DrawnAlone DEF Dismiss
<1>4. CASE Select
  <2>1. PICK ids : Tick(ids)
    BY <1>4 DEF Select
  <2> QED
    BY <1>2, <2>1, SameRequests, DrawnAlone DEF Tick
<1>5. CASE ClosePanel
  BY <1>1, <1>5, WaitingFewer, DrawnAlone DEF ClosePanel
<1>6. CASE ChangeSearch \/ KeyMoves
  <2>1. PICK sel : NewKey(sel)
    BY <1>6 DEF ChangeSearch, KeyMoves
  <2> QED
    BY <2>1, ControlParts, WaitingFewer, DrawnAlone DEF NewKey
<1>7. CASE \E j \in Jobs : OpenPanel(j)
  <2> DEFINE req == IF panel = NULL THEN request ELSE Leave(panel)
  <2>1. PICK j \in Jobs : OpenPanel(j)
    BY <1>7
  <2>2. PICK v : Draw([query EXCEPT ![j] = Start([Absent EXCEPT !.asOf = v])],
                      j, selected, req, dialog)
    BY <2>1 DEF OpenPanel
  <2>3. Fewer(req) /\ \A s \in Slots : req[s] # NULL => req[s] \in Sent
    BY <1>1, <1>2, SameRequests, WaitingFewer
  <2> HIDE DEF req
  <2> QED
    BY <2>2, <2>3, DrawnAlone
<1> QED
  BY <1>3, <1>4, <1>5, <1>6, <1>7 DEF KeyMoves

LEMMA AloneNext == IInv /\ Alone /\ [Next]_vars => Alone'
<1> SUFFICES ASSUME IInv, Alone, [Next]_vars PROVE Alone'
  OBVIOUS
<1>1. CASE Requests
  BY <1>1, AnswerAlone, ServerAlone DEF Requests
<1>2. CASE Operator
  BY <1>2, PressAlone, PressBulkAlone, ConfirmAlone, MovesAlone DEF Operator
<1>3. CASE Server
  BY <1>3, ServerAlone DEF Server
<1>4. CASE World \/ UNCHANGED vars
  <2>1. dialog' = dialog /\ request' = request
    BY <1>4 DEF World, OthersStep, Outage, Recovery, room, vars
  <2> QED
    BY <2>1, SameRequests, FewerAlone
<1> QED
  BY <1>1, <1>2, <1>3, <1>4, FetchingAlone, SettleAlone, MovesAlone DEF Next

\* A control never waits for two requests, however requests are lost, answered
\* late or overtaken by a row that goes and comes back.
THEOREM OneRequestAlways == Spec => []OneRequestPerControl
<1>1. Init => Alone
  BY DEF Init, Alone, OneRequestPerControl
<1>2. Alone => OneRequestPerControl
  BY DEF Alone
<1> QED
  BY <1>1, <1>2, InitOK, NextOK, AloneNext, PTL DEF Spec

-----------------------------------------------------------------------------
(* A request that waits for copies to be fetched again. *)

\* What a copy owes a request that changed the store at `commit`: a fetch under
\* way will see the change, and so does the copy, once no fetch is awaited.
CopyMeets(e, commit, awaited) ==
    /\ e.fetch = "fetching" => e.since >= commit
    /\ awaited \/ e.asOf >= commit \/ e.error # "none" \/ ~HasData(e)

AskedOK(r, Q, p, n) ==
    /\ r.commit <= n
    /\ r.phase # "refetching" => r.asked = {}
    /\ r.asked \subseteq Active(p)
    /\ \A q \in r.asked : CopyMeets(Q[q], r.commit, q \in r.await)

\* ReadsOwnWrites is about the moment a control is free; until then each copy
\* asked for is awaited or good, on the screen, and fetched late enough.
Asked ==
    \A s \in Slots :
        request[s] # NULL => AskedOK(request[s], query, panel, Len(past))

\* The same requests over other copies, or with less to wait for.
LEMMA StillAsked ==
    ASSUME NEW r, NEW t, NEW Q, NEW R, NEW p, NEW z, NEW n \in Nat,
           NEW m \in Nat, AskedOK(r, Q, p, n), n <= m, r.commit \in Nat,
           t.commit = r.commit, t.phase = r.phase, t.asked \subseteq r.asked,
           t.asked \subseteq Active(z),
           \A q \in t.asked :
              CopyMeets(Q[q], r.commit, q \in r.await) =>
              CopyMeets(R[q], r.commit, q \in t.await)
    PROVE  AskedOK(t, R, z, m)
  BY DEF AskedOK

\* A screen that is drawn keeps what the requests wait for.
LEMMA DrawnAsked ==
    ASSUME NEW Q, NEW p, NEW sel, NEW req, NEW d, Draw(Q, p, sel, req, d),
           \A s \in Slots : req[s] # NULL =>
              req[s] \in Sent /\ AskedOK(req[s], Q, p, Len(past'))
    PROVE  Asked'
<1> SUFFICES ASSUME NEW s \in Slots, request'[s] # NULL
             PROVE  AskedOK(request'[s], query', panel', Len(past'))
  BY DEF Asked
<1>1. req[s] # NULL
  BY DEF Draw
<1>2. req[s] \in Sent /\ AskedOK(req[s], Q, p, Len(past'))
  BY <1>1
<1> DEFINE mine == req[s].ours /\ Visible(req[s].from, Q, p, sel)
<1>3. request'[s] = [req[s] EXCEPT !.ours = mine]
  BY <1>1 DEF Draw
<1> HIDE DEF mine
<1>4. /\ request'[s].commit = req[s].commit
      /\ request'[s].phase = req[s].phase
      /\ request'[s].asked = req[s].asked
      /\ request'[s].await = req[s].await
  BY <1>2, <1>3 DEF Sent
<1>5. req[s].asked \subseteq Queries /\ req[s].asked \subseteq Active(p)
  BY <1>2 DEF Sent, AskedOK
<1>6. \A q \in req[s].asked : query'[q] = Q[q]
  BY <1>5 DEF Draw
<1>7. panel' = p
  BY DEF Draw
<1> QED
  BY <1>2, <1>4, <1>6, <1>7 DEF AskedOK

\* Nothing but the dialog or the selection changes.
LEMMA RedrawnAsked ==
    ASSUME IInv, Asked, NEW sel, NEW d, past' = past,
           Draw(query, panel, sel, request, d)
    PROVE  Asked'
<1>1. \A s \in Slots : request[s] # NULL =>
         /\ request[s] \in Sent
         /\ AskedOK(request[s], query, panel, Len(past'))
  BY RequestType DEF Asked
<1> QED
  BY <1>1, DrawnAsked

\* A fetch that starts now sees every change there was.
LEMMA StartMeets ==
    ASSUME IInv, NEW e \in Entries, NEW commit \in Nat, commit <= Len(past),
           NEW awaited \in BOOLEAN
    PROVE  /\ CopyMeets(Start(e), commit, TRUE)
           /\ CopyMeets(e, commit, awaited) =>
                /\ CopyMeets(Start(e), commit, awaited)
                /\ CopyMeets(Invalidate(e), commit, awaited)
           /\ ~Joins(e) => CopyMeets(Invalidate(e), commit, TRUE)
<1>1. Len(past) \in Nat
  BY LogIndex
<1> DEFINE since == Len(past)
           error == IF HasData(e) THEN e.error ELSE "none"
<1>2. Start(e) = [e EXCEPT !.fetch = "fetching", !.since = since,
                           !.tries = 0, !.error = error]
  BY DEF Start
<1> HIDE DEF since, error
<1>3. /\ Start(e).since = since /\ Start(e).asOf = e.asOf
      /\ Start(e).own = e.own /\ Start(e).error = error
  BY <1>2 DEF Entries
<1>4. HasData(Start(e)) <=> HasData(e)
  BY <1>3 DEF HasData
<1>5. Start(e).since >= commit
  BY <1>1, <1>3 DEF since
<1>6. CopyMeets(Start(e), commit, TRUE)
  BY <1>5 DEF CopyMeets
<1>7. CopyMeets(e, commit, awaited) => CopyMeets(Start(e), commit, awaited)
  BY <1>3, <1>4, <1>5 DEF CopyMeets, error
<1> QED
  BY <1>6, <1>7 DEF Invalidate

\* One copy changes, and the requests wait for the others as before.
LEMMA CopyAsked ==
    ASSUME IInv, Asked, NEW q \in Queries, NEW e,
           \A commit \in 0..Len(past) : \A awaited \in BOOLEAN :
              CopyMeets(query[q], commit, awaited) =>
              CopyMeets(e, commit, awaited)
    PROVE  \A s \in Slots : request[s] # NULL =>
              /\ request[s] \in Sent
              /\ AskedOK(request[s], [query EXCEPT ![q] = e], panel, Len(past))
<1> DEFINE Q == [query EXCEPT ![q] = e]
<1>1. ASSUME NEW s \in Slots, request[s] # NULL
      PROVE  request[s] \in Sent /\ AskedOK(request[s], Q, panel, Len(past))
  <2>1. /\ request[s] \in Sent
        /\ AskedOK(request[s], query, panel, Len(past))
    BY <1>1, RequestType DEF Asked
  <2>2. /\ Len(past) \in Nat /\ request[s].commit \in Nat
        /\ request[s].commit \in 0..Len(past)
        /\ request[s].asked \subseteq Queries
    BY <2>1, LogIndex DEF AskedOK, Sent
  <2>3. \A x \in request[s].asked :
           x # q => Q[x] = query[x]
    BY <2>2 DEF IInv, ScreenOK, CopiesOK
  <2>4. Q[q] = e
    BY DEF IInv, ScreenOK, CopiesOK
  <2> HIDE DEF Q
  <2>5. ASSUME NEW x \in request[s].asked,
               CopyMeets(query[x], request[s].commit, x \in request[s].await)
        PROVE  CopyMeets(Q[x], request[s].commit, x \in request[s].await)
    <3> DEFINE awaited == x \in request[s].await
    <3>1. awaited \in BOOLEAN
      OBVIOUS
    <3> HIDE DEF awaited
    <3>2. CopyMeets(query[x], request[s].commit, awaited)
      BY <2>5 DEF awaited
    <3>3. CopyMeets(Q[x], request[s].commit, awaited)
      BY <2>2, <2>3, <2>4, <3>1, <3>2
    <3> QED
      BY <3>3 DEF awaited
  <2> QED
    BY <2>1, <2>5 DEF AskedOK
<1> QED
  BY <1>1

LEMMA PollAsked ==
    ASSUME IInv, Asked, NEW q \in Queries, Poll(q) PROVE Asked'
<1> DEFINE e == IF query[q].fetch = "removed" THEN Absent ELSE query[q]
<1>1. query[q] \in Entries /\ Absent \in Entries
  BY AbsentOK DEF IInv, ScreenOK, CopiesOK
<1>2. ASSUME NEW commit \in 0..Len(past), NEW awaited \in BOOLEAN,
             CopyMeets(query[q], commit, awaited)
      PROVE  CopyMeets(e, commit, awaited)
  BY <1>1, <1>2 DEF CopyMeets, Absent, HasData
<1>3. e \in Entries
  BY <1>1
<1>4. Draw([query EXCEPT ![q] = Start(e)], panel, selected, request, dialog)
  BY DEF Poll
<1> HIDE DEF e
<1>5. ASSUME NEW commit \in 0..Len(past), NEW awaited \in BOOLEAN,
             CopyMeets(query[q], commit, awaited)
      PROVE  CopyMeets(Start(e), commit, awaited)
  <2>1. CopyMeets(e, commit, awaited)
    BY <1>2, <1>5
  <2>2. commit \in Nat /\ commit <= Len(past)
    BY LogIndex
  <2> QED
    BY <1>3, <2>1, <2>2, StartMeets
<1> DEFINE Q == [query EXCEPT ![q] = Start(e)]
<1>6. past' = past /\ Draw(Q, panel, selected, request, dialog)
  BY <1>4 DEF Poll
<1>7. \A s \in Slots : request[s] # NULL =>
         /\ request[s] \in Sent
         /\ AskedOK(request[s], Q, panel, Len(past'))
  BY <1>5, <1>6, CopyAsked
<1> HIDE DEF Q
<1> QED
  BY <1>6, <1>7, DrawnAsked

\* A fetch ends, well or not, and nobody waits for it any more.
LEMMA EndedAsked ==
    ASSUME IInv, Asked, NEW q \in Queries, NEW e, past' = past,
           Draw([query EXCEPT ![q] = e], panel, selected, Resolve(q), dialog),
           \A commit \in 0..Len(past) :
              query[q].since >= commit => CopyMeets(e, commit, FALSE),
           query[q].fetch = "fetching"
    PROVE  Asked'
<1> DEFINE Q   == [query EXCEPT ![q] = e]
           req == Resolve(q)
<1>1. ASSUME NEW s \in Slots, req[s] # NULL
      PROVE  req[s] \in Sent /\ AskedOK(req[s], Q, panel, Len(past'))
  <2>1. /\ request[s] # NULL /\ request[s] \in Sent
        /\ AskedOK(request[s], query, panel, Len(past))
    BY <1>1, RequestType DEF Asked, Resolve
  <2>2. /\ Len(past) \in Nat /\ request[s].commit \in Nat
        /\ request[s].commit \in 0..Len(past)
        /\ request[s].asked \subseteq Queries
    BY <2>1, LogIndex DEF AskedOK, Sent
  <2>3. req[s] = [request[s] EXCEPT !.await = request[s].await \ {q}]
    BY <2>1 DEF Resolve
  <2>4. req[s] \in Sent
    BY <2>1, <2>3 DEF Sent
  <2>5. /\ req[s].commit = request[s].commit /\ req[s].phase = request[s].phase
        /\ req[s].asked = request[s].asked
        /\ req[s].await = request[s].await \ {q}
    BY <2>1, <2>3 DEF Sent
  <2>6. \A x \in request[s].asked : x # q => Q[x] = query[x]
    BY <2>2 DEF IInv, ScreenOK, CopiesOK
  <2>7. Q[q] = e
    BY DEF IInv, ScreenOK, CopiesOK
  <2> HIDE DEF Q, req
  <2>8. ASSUME NEW x \in request[s].asked,
               CopyMeets(query[x], request[s].commit, x \in request[s].await)
        PROVE  CopyMeets(Q[x], request[s].commit, x \in req[s].await)
    <3>1. CASE x = q
      <4>1. query[q].since >= request[s].commit
        BY <2>8, <3>1 DEF CopyMeets
      <4>2. CopyMeets(e, request[s].commit, FALSE)
        BY <2>2, <4>1
      <4> QED
        BY <2>7, <3>1, <4>2 DEF CopyMeets
    <3>2. CASE x # q
      <4>1. x \in req[s].await <=> x \in request[s].await
        BY <2>5, <3>2
      <4> QED
        BY <2>6, <2>8, <3>2, <4>1 DEF CopyMeets
    <3> QED
      BY <3>1, <3>2
  <2> QED
    BY <2>1, <2>4, <2>5, <2>8 DEF AskedOK
<1>2. Draw(Q, panel, selected, req, dialog)
  OBVIOUS
<1> HIDE DEF Q, req
<1> QED
  BY <1>1, <1>2, DrawnAsked

LEMMA FailedMeets ==
    ASSUME NEW e \in Entries, NEW error \in {"missing", "connection"},
           NEW commit
    PROVE  CopyMeets(Failed(e, error), commit, FALSE)
<1>1. Failed(e, error).fetch = "idle" /\ Failed(e, error).error = error
  BY DEF Failed, Entries
<1> QED
  BY <1>1 DEF CopyMeets

LEMMA ArriveAsked ==
    ASSUME IInv, Asked, NEW q \in Queries, Arrive(q) PROVE Asked'
<1>1. query[q] \in Entries /\ Absent \in Entries
  BY AbsentOK DEF IInv, ScreenOK, CopiesOK
<1>2. PICK v \in query[q].since..Len(past) :
         Draw([query EXCEPT ![q] =
                 IF q = List \/ past[v][q] \in Statuses
                 THEN [Absent EXCEPT !.asOf = v]
                 ELSE Failed(query[q], "missing")],
              panel, selected, Resolve(q), dialog)
  BY DEF Arrive
<1> DEFINE copy == [Absent EXCEPT !.asOf = v]
           e    == IF q = List \/ past[v][q] \in Statuses THEN copy
                   ELSE Failed(query[q], "missing")
<1>3. copy.asOf = v /\ copy.fetch = "idle"
  BY DEF Absent
<1>4. ASSUME NEW commit \in 0..Len(past), query[q].since >= commit
      PROVE  CopyMeets(e, commit, FALSE)
  <2>1. v >= commit
    BY <1>1, <1>4, LogIndex DEF Entries
  <2>2. CopyMeets(copy, commit, FALSE)
    BY <1>3, <2>1 DEF CopyMeets
  <2> QED
    BY <1>1, <2>2, FailedMeets
<1>5. Draw([query EXCEPT ![q] = e], panel, selected, Resolve(q), dialog)
  BY <1>2
<1>6. past' = past /\ query[q].fetch = "fetching"
  BY DEF Arrive
<1> HIDE DEF e
<1> QED
  BY <1>4, <1>5, <1>6, EndedAsked

LEMMA FailAttemptAsked ==
    ASSUME IInv, Asked, NEW q \in Queries, FailAttempt(q) PROVE Asked'
<1>1. query[q] \in Entries /\ query[q].fetch = "fetching" /\ past' = past
  BY DEF FailAttempt, IInv, ScreenOK, CopiesOK
<1>2. CASE Retries(query[q])
  <2> DEFINE tries == query[q].tries + 1
             since == Len(past)
             e     == [query[q] EXCEPT !.tries = tries, !.since = since]
             Q     == [query EXCEPT ![q] = e]
  <2>1. query' = Q /\ UNCHANGED <<panel, request>>
    BY <1>1, <1>2 DEF FailAttempt, IInv, ScreenOK, CopiesOK, Entries
  <2> HIDE DEF tries, since
  <2>2. /\ e.asOf = query[q].asOf /\ e.own = query[q].own
        /\ e.error = query[q].error /\ e.since = since
    BY <1>1 DEF Entries
  <2> HIDE DEF e
  <2>3. ASSUME NEW commit \in 0..Len(past), NEW awaited \in BOOLEAN,
               CopyMeets(query[q], commit, awaited)
        PROVE  CopyMeets(e, commit, awaited)
    <3>1. e.since >= commit
      BY <2>2, LogIndex DEF since
    <3> QED
      BY <2>2, <2>3, <3>1 DEF CopyMeets, HasData
  <2>4. \A s \in Slots : request[s] # NULL =>
           AskedOK(request[s], Q, panel, Len(past))
    BY <2>3, CopyAsked
  <2> HIDE DEF Q
  <2> QED
    BY <1>1, <2>1, <2>4 DEF Asked
<1>3. CASE ~Retries(query[q])
  <2> DEFINE e == Failed(query[q], "connection")
  <2>1. Draw([query EXCEPT ![q] = e], panel, selected, Resolve(q), dialog)
    BY <1>3 DEF FailAttempt
  <2>2. \A commit \in 0..Len(past) : CopyMeets(e, commit, FALSE)
    BY <1>1, FailedMeets
  <2> HIDE DEF e
  <2> QED
    BY <1>1, <2>1, <2>2, EndedAsked
<1> QED
  BY <1>2, <1>3

\* A query that the screen leaves is no longer waited for: what remains of it
\* is what was on the screen before.
LEMMA LeaveAsked ==
    ASSUME IInv, Asked, NEW q \in Queries, NEW Q, NEW p,
           \A x \in Active(panel) \ {q} : x \in Active(p) /\ Q[x] = query[x]
    PROVE  \A s \in Slots : Leave(q)[s] # NULL =>
              /\ Leave(q)[s] \in Sent
              /\ AskedOK(Leave(q)[s], Q, p, Len(past))
<1> DEFINE req == Leave(q)
<1>1. ASSUME NEW s \in Slots, req[s] # NULL
      PROVE  req[s] \in Sent /\ AskedOK(req[s], Q, p, Len(past))
  <2> DEFINE await == IF q \in request[s].await
                      THEN (request[s].await \ {q}) \cup {Abandoned}
                      ELSE request[s].await
             asked == request[s].asked \ {q}
  <2>1. /\ request[s] # NULL /\ request[s] \in Sent
        /\ AskedOK(request[s], query, panel, Len(past))
    BY <1>1, RequestType DEF Asked, Leave
  <2>2. req[s] = [request[s] EXCEPT !.asked = asked, !.await = await]
    BY <2>1 DEF Leave
  <2>3. /\ await \in SUBSET (Queries \cup {Abandoned})
        /\ asked \in SUBSET Queries
    BY <2>1 DEF Sent
  <2>4. \A x \in asked : x \in await <=> x \in request[s].await
    <3>1. Abandoned \notin Queries
      BY RoomAssumption DEF Abandoned, Queries, List
    <3> QED
      BY <2>3, <3>1
  <2>5. asked \subseteq request[s].asked /\ asked \subseteq Active(panel) \ {q}
    BY <2>1 DEF AskedOK
  <2> HIDE DEF await, asked, req
  <2>6. req[s] \in Sent
    BY <2>1, <2>2, <2>3 DEF Sent
  <2>7. /\ req[s].commit = request[s].commit /\ req[s].phase = request[s].phase
        /\ req[s].asked = asked /\ req[s].await = await
    BY <2>1, <2>2 DEF Sent
  <2>8. ASSUME NEW x \in asked
        PROVE  /\ x \in Active(p)
               /\ CopyMeets(Q[x], request[s].commit, x \in await)
    <3>1. CopyMeets(query[x], request[s].commit, x \in request[s].await)
      BY <2>1, <2>5 DEF AskedOK
    <3>2. x \in Active(p) /\ Q[x] = query[x]
      BY <2>5
    <3> QED
      BY <2>4, <3>1, <3>2 DEF CopyMeets
  <2> QED
    BY <2>1, <2>5, <2>6, <2>7, <2>8 DEF AskedOK
<1> QED
  BY <1>1

\* Behind the screen only one request moves, and the log only grows.
LEMMA SlotAsked ==
    ASSUME IInv, Asked, NEW s \in Slots, UNCHANGED <<query, panel>>,
           Len(past') \in Nat, Len(past) <= Len(past'),
           \A t \in Slots \ {s} : request'[t] = request[t],
           request'[s] # NULL =>
              AskedOK(request'[s], query, panel, Len(past'))
    PROVE  Asked'
<1>1. ASSUME NEW t \in Slots \ {s}, request[t] # NULL
      PROVE  AskedOK(request[t], query, panel, Len(past'))
  <2>1. /\ AskedOK(request[t], query, panel, Len(past))
        /\ request[t].commit \in Nat /\ Len(past) \in Nat
    BY <1>1, RequestType, LogIndex DEF Asked, Sent
  <2> QED
    BY <2>1 DEF AskedOK
<1> QED
  BY <1>1 DEF Asked

LEMMA HandleAsked == ASSUME IInv, Asked, NEW s \in Slots, Handle(s) PROVE Asked'
<1> DEFINE r == request[s]
<1>1. r # NULL /\ r \in Sent /\ AskedOK(r, query, panel, Len(past))
  BY RequestType DEF Handle, Asked
<1>2. r.asked = {} /\ r.phase # "refetching"
  BY <1>1 DEF Handle, AskedOK
<1>3. PICK j \in r.todo :
        \/ /\ \E t \in Outcomes(r.action, Status(j)) : Write(j, t)
           /\ request' = [request EXCEPT ![s].todo = @ \ {j},
                                         ![s].done = @ \cup {j},
                                         ![s].commit = Len(past) + 1]
        \/ /\ request' = [request EXCEPT ![s].todo = @ \ {j},
                                         ![s].skipped = @ \cup {j}]
           /\ UNCHANGED past
  BY DEF Handle
<1>4. j \in Jobs /\ r.action \in Actions
  BY <1>1 DEF Sent
<1>5. /\ UNCHANGED <<query, panel>> /\ Len(past) \in Nat
      /\ \A t \in Slots \ {s} : request'[t] = request[t]
  BY <1>3, LogIndex, RequestType DEF Handle
<1>6. ASSUME NEW t \in Outcomes(r.action, Status(j)), Write(j, t),
             request' = [request EXCEPT ![s].todo = @ \ {j},
                                        ![s].done = @ \cup {j},
                                        ![s].commit = Len(past) + 1]
      PROVE  Asked'
  <2> DEFINE commit == Len(past) + 1
  <2>1. Len(past') \in Nat /\ Len(past') = commit /\ Len(past) <= Len(past')
    <3>1. t \in JobStates
      BY <1>4, StatusesOK
    <3> QED
      BY <1>4, <1>6, <3>1, Written
  <2>2. request'[s] = [r EXCEPT !.todo = r.todo \ {j},
                                !.done = r.done \cup {j}, !.commit = commit]
    BY <1>6, RequestType
  <2> HIDE DEF commit, r
  <2>3. /\ request'[s].asked = r.asked /\ request'[s].phase = r.phase
        /\ request'[s].commit = commit
    BY <1>1, <2>2 DEF Sent
  <2>4. AskedOK(request'[s], query, panel, Len(past'))
    BY <1>2, <2>1, <2>3 DEF AskedOK
  <2> QED
    BY <1>5, <2>1, <2>4, SlotAsked
<1>7. ASSUME request' = [request EXCEPT ![s].todo = @ \ {j},
                                        ![s].skipped = @ \cup {j}],
             UNCHANGED past
      PROVE  Asked'
  <2>1. request'[s] = [r EXCEPT !.todo = r.todo \ {j},
                                !.skipped = r.skipped \cup {j}]
    BY <1>7, RequestType
  <2> HIDE DEF r
  <2>2. /\ request'[s].asked = r.asked /\ request'[s].phase = r.phase
        /\ request'[s].commit = r.commit
    BY <1>1, <2>1 DEF Sent
  <2>3. Len(past') \in Nat /\ Len(past) <= Len(past')
    BY <1>5, <1>7
  <2>4. AskedOK(request'[s], query, panel, Len(past'))
    BY <1>1, <1>2, <1>7, <2>2 DEF AskedOK
  <2> QED
    BY <1>5, <2>3, <2>4, SlotAsked
<1> QED
  BY <1>3, <1>6, <1>7

\* A connection that breaks, a request nobody waits for that ends, and a fetch
\* out of sight that does.
LEMMA LostAsked ==
    ASSUME IInv, Asked, NEW s \in Slots,
           Lose(s) \/ Bury(s) \/ AbandonedEnds(s)
    PROVE  Asked'
<1> DEFINE r == request[s]
<1>1. r # NULL /\ r \in Sent /\ AskedOK(r, query, panel, Len(past))
  BY RequestType DEF Lose, Bury, AbandonedEnds, Asked
<1>2. /\ UNCHANGED <<query, panel, past>> /\ Len(past) \in Nat
      /\ \A t \in Slots \ {s} : request'[t] = request[t]
  BY LogIndex, RequestType DEF Lose, Bury, AbandonedEnds
<1>3. CASE request'[s] = NULL
  BY <1>2, <1>3, SlotAsked
<1>4. CASE request'[s] # NULL /\ Lose(s)
  <2>1. /\ request'[s] = [r EXCEPT !.phase = "orphan", !.ours = FALSE]
        /\ r.phase = "sent"
    BY <1>4, RequestType DEF Lose
  <2> HIDE DEF r
  <2>2. /\ request'[s].asked = r.asked /\ request'[s].commit = r.commit
        /\ r.asked = {}
    BY <1>1, <2>1 DEF Sent, AskedOK
  <2>3. AskedOK(request'[s], query, panel, Len(past'))
    BY <1>1, <1>2, <2>2 DEF AskedOK
  <2> QED
    BY <1>2, <2>3, SlotAsked
<1>5. CASE AbandonedEnds(s)
  <2>1. request'[s] = [r EXCEPT !.await = r.await \ {Abandoned}]
    BY <1>5, RequestType DEF AbandonedEnds
  <2> HIDE DEF r
  <2>2. /\ request'[s].asked = r.asked /\ request'[s].commit = r.commit
        /\ request'[s].phase = r.phase
        /\ request'[s].await = r.await \ {Abandoned}
    BY <1>1, <2>1 DEF Sent
  <2>3. Abandoned \notin r.asked
    BY <1>1, RoomAssumption DEF Sent, Abandoned, Queries, List
  <2>4. AskedOK(request'[s], query, panel, Len(past'))
    BY <1>1, <1>2, <2>2, <2>3 DEF AskedOK, CopyMeets
  <2> QED
    BY <1>2, <2>4, SlotAsked
<1>6. Bury(s) => request'[s] = NULL
  BY RequestType DEF Bury
<1> QED
  BY <1>3, <1>4, <1>5, <1>6

\* A request that is sent asks for no copy yet.
LEMMA SendAsked ==
    ASSUME IInv, Asked, NEW c \in Controls, NEW action \in Actions,
           NEW ids \in SUBSET Jobs, NEW basis \in Nat,
           Send(c, action, ids, basis, NULL)
    PROVE  Asked'
<1> DEFINE r == [from |-> c, action |-> action, basis |-> basis,
                 todo |-> ids, done |-> {}, skipped |-> {},
                 phase |-> IF up THEN "sent" ELSE "unsent", commit |-> 0,
                 await |-> {}, asked |-> {}, ours |-> TRUE]
<1>1. PICK s \in Slots : Draw(query, panel, selected,
                              [request EXCEPT ![s] = r], NULL)
  BY DEF Send
<1>2. r \in Sent /\ r.asked = {} /\ r.commit = 0
  BY DEF Sent
<1>3. past' = past /\ Len(past) \in Nat
  BY LogIndex DEF Send
<1> HIDE DEF r
<1>4. AskedOK(r, query, panel, Len(past'))
  BY <1>2, <1>3 DEF AskedOK
<1> DEFINE req == [request EXCEPT ![s] = r]
<1>5. ASSUME NEW t \in Slots, req[t] # NULL
      PROVE  req[t] \in Sent /\ AskedOK(req[t], query, panel, Len(past'))
  BY <1>2, <1>3, <1>4, <1>5, RequestType DEF Asked
<1>6. Draw(query, panel, selected, req, NULL)
  BY <1>1
<1> HIDE DEF req
<1> QED
  BY <1>5, <1>6, DrawnAsked

LEMMA PressAsked ==
    ASSUME IInv, Asked, NEW c \in Controls \ {Bulk}, NEW action \in Actions,
           Press(c, action)
    PROVE  Asked'
<1> DEFINE basis == query[Source(c)].asOf
           d     == [from |-> c, action |-> action, basis |-> basis]
<1>1. c[2] \in Jobs
  BY ControlParts
<1>2. basis \in Nat
  BY VisibleIsLogged, LogIndex DEF Press
<1>3. \/ Send(c, action, {c[2]}, basis, NULL)
      \/ past' = past /\ Draw(query, panel, selected, request, d)
  BY DEF Press
<1> HIDE DEF basis, d
<1> QED
  BY <1>1, <1>2, <1>3, SendAsked, RedrawnAsked

LEMMA ConfirmAsked == ASSUME IInv, Asked, Confirm PROVE Asked'
<1>1. /\ dialog.from \in Controls /\ dialog.action \in Actions
      /\ dialog.basis \in Nat
  BY DEF Confirm, IInv, ScreenOK, OfferOK, Dialogs
<1>2. CASE dialog.from = Bulk
  <2>1. query[List].asOf \in Nat
    BY ControlParts DEF IInv, ScreenOK, CopiesOK, Entries
  <2>2. Send(dialog.from, dialog.action, Eligible(dialog.action),
             query[List].asOf, NULL)
    BY <1>2 DEF Confirm
  <2> QED
    BY <1>1, <2>1, <2>2, EligibleOK, SendAsked
<1>3. CASE dialog.from # Bulk
  <2>1. Send(dialog.from, dialog.action, {dialog.from[2]}, dialog.basis, NULL)
    BY <1>3 DEF Confirm
  <2>2. dialog.from[2] \in Jobs
    BY <1>1, <1>3, ControlParts
  <2> QED
    BY <1>1, <2>1, <2>2, SendAsked
<1> QED
  BY <1>2, <1>3

\* Only the list and the panel are on the screen, and a panel is no list.
LEMMA OnScreen ==
    ASSUME IInv
    PROVE  /\ List \in Queries /\ panel # List
           /\ panel # NULL => panel \in Queries
           /\ Active(NULL) = {List}
           /\ Active(panel) = IF panel = NULL THEN {List} ELSE {List, panel}
<1>1. panel \in Jobs \cup {NULL} /\ List \notin Jobs /\ List # NULL
  BY RoomAssumption DEF IInv, ScreenOK, List
<1> QED
  BY <1>1 DEF Active, Queries

LEMMA SettleAsked == ASSUME IInv, Asked, NEW s \in Slots, Settle(s) PROVE Asked'
<1> DEFINE close == /\ request[s].from[1] = "panel"
                    /\ request[s].action = "delete" /\ panel # NULL
           held  == IF close THEN Leave(panel) ELSE request
           rest  == [held EXCEPT ![s] = NULL]
           p     == IF close THEN NULL ELSE panel
           sel   == IF request[s].from = Bulk THEN {} ELSE selected
<1>1. Draw(query, p, sel, rest, dialog) /\ past' = past
  BY DEF Settle
<1>2. /\ held = [t \in Slots |-> held[t]]
      /\ \A t \in Slots : held[t] # NULL =>
            held[t] \in Sent /\ AskedOK(held[t], query, p, Len(past))
  <2>1. CASE close
    <3>1. \A x \in Active(panel) \ {panel} : x \in Active(NULL)
      BY <2>1, OnScreen
    <3>2. \A t \in Slots : Leave(panel)[t] # NULL =>
             /\ Leave(panel)[t] \in Sent
             /\ AskedOK(Leave(panel)[t], query, NULL, Len(past))
      BY <2>1, <3>1, OnScreen, LeaveAsked
    <3> QED
      BY <2>1, <3>2 DEF Leave
  <2>2. CASE ~close
    BY <2>2, RequestType DEF Asked
  <2> QED
    BY <2>1, <2>2
<1> HIDE DEF held, p, sel
<1>3. \A t \in Slots : rest[t] # NULL => rest[t] = held[t]
  BY <1>2
<1> HIDE DEF rest
<1>4. \A t \in Slots : rest[t] # NULL =>
         rest[t] \in Sent /\ AskedOK(rest[t], query, p, Len(past'))
  BY <1>1, <1>2, <1>3
<1> QED
  BY <1>1, <1>4, DrawnAsked

\* Moving about the page lets go of what is left behind.
LEMMA MovesAsked ==
    ASSUME IInv, Asked, Dismiss \/ Select \/ ClosePanel \/ ChangeSearch
                        \/ KeyMoves \/ \E j \in Jobs : OpenPanel(j)
    PROVE  Asked'
<1>1. CASE Dismiss
  BY <1>1, RedrawnAsked DEF Dismiss
<1>2. CASE Select
  <2>1. PICK ids : Tick(ids)
    BY <1>2 DEF Select
  <2> QED
    BY <2>1, RedrawnAsked DEF Tick
<1>3. CASE ClosePanel
  <2>1. /\ Draw(query, NULL, selected, Leave(panel), dialog)
        /\ past' = past /\ panel # NULL
    BY <1>3 DEF ClosePanel
  <2>2. \A x \in Active(panel) \ {panel} : x \in Active(NULL)
    BY <2>1, OnScreen
  <2>3. \A t \in Slots : Leave(panel)[t] # NULL =>
           /\ Leave(panel)[t] \in Sent
           /\ AskedOK(Leave(panel)[t], query, NULL, Len(past'))
    BY <2>1, <2>2, OnScreen, LeaveAsked
  <2> QED
    BY <2>1, <2>3, DrawnAsked
<1>4. CASE ChangeSearch \/ KeyMoves
  <2>1. PICK sel : NewKey(sel)
    BY <1>4 DEF ChangeSearch, KeyMoves
  <2> DEFINE e == Start([query[List] EXCEPT !.own = FALSE])
             Q == [query EXCEPT ![List] = e]
  <2>2. Draw(Q, panel, sel, Leave(List), dialog) /\ past' = past
    BY <2>1, OnScreen DEF NewKey, IInv, ScreenOK, CopiesOK
  <2> HIDE DEF e
  <2>3. \A x \in Active(panel) \ {List} : x \in Active(panel) /\ Q[x] = query[x]
    BY OnScreen DEF IInv, ScreenOK, CopiesOK
  <2> HIDE DEF Q
  <2>4. \A t \in Slots : Leave(List)[t] # NULL =>
           /\ Leave(List)[t] \in Sent
           /\ AskedOK(Leave(List)[t], Q, panel, Len(past'))
    BY <2>2, <2>3, OnScreen, LeaveAsked
  <2> QED
    BY <2>2, <2>4, DrawnAsked
<1>5. CASE \E j \in Jobs : OpenPanel(j)
  <2> DEFINE req == IF panel = NULL THEN request ELSE Leave(panel)
  <2>1. PICK j \in Jobs : OpenPanel(j)
    BY <1>5
  <2>2. PICK v : Draw([query EXCEPT ![j] = Start([Absent EXCEPT !.asOf = v])],
                      j, selected, req, dialog)
    BY <2>1 DEF OpenPanel
  <2> DEFINE e == Start([Absent EXCEPT !.asOf = v])
             Q == [query EXCEPT ![j] = e]
  <2>3. Draw(Q, j, selected, req, dialog) /\ past' = past
    BY <2>1, <2>2 DEF OpenPanel
  <2>4. j # List /\ List \in Active(j)
    BY RoomAssumption DEF List, Active
  <2> HIDE DEF e
  <2>5. Q[List] = query[List]
    BY <2>4, OnScreen DEF IInv, ScreenOK, CopiesOK
  <2> HIDE DEF Q
  <2>6. ASSUME NEW t \in Slots, req[t] # NULL
        PROVE  req[t] \in Sent /\ AskedOK(req[t], Q, j, Len(past'))
    <3>1. CASE panel = NULL
      <4>1. /\ request[t] \in Sent
            /\ AskedOK(request[t], query, panel, Len(past))
        BY <2>6, <3>1, RequestType DEF Asked
      <4>2. request[t].asked \subseteq {List}
        BY <3>1, <4>1, OnScreen DEF AskedOK
      <4> QED
        BY <2>3, <2>4, <2>5, <3>1, <4>1, <4>2 DEF AskedOK
    <3>2. CASE panel # NULL
      <4>1. \A x \in Active(panel) \ {panel} : x \in Active(j) /\ Q[x] = query[x]
        BY <2>4, <2>5, <3>2, OnScreen
      <4>2. Leave(panel)[t] # NULL =>
               /\ Leave(panel)[t] \in Sent
               /\ AskedOK(Leave(panel)[t], Q, j, Len(past))
        BY <3>2, <4>1, OnScreen, LeaveAsked
      <4> QED
        BY <2>3, <2>6, <3>2, <4>2
    <3> QED
      BY <3>1, <3>2
  <2> HIDE DEF req
  <2> QED
    BY <2>3, <2>6, DrawnAsked
<1> QED
  BY <1>1, <1>2, <1>3, <1>4, <1>5 DEF KeyMoves

\* The answer has the copies fetched again: those it asks for it can await, and
\* those of others are fetched no earlier than before.
LEMMA AnswerAsked == ASSUME IInv, Asked, NEW s \in Slots, Answer(s) PROVE Asked'
<1> DEFINE r       == request[s]
           removed == IF r.action = "delete" THEN r.done ELSE {}
           keys    == IF r.from = Bulk THEN Queries ELSE {List} \cup r.done
           asked   == {q \in (keys \ removed) \cap Active(panel) :
                          query[q].fetch # "removed"}
           Again(q) == IF q \in removed
                       THEN [Absent EXCEPT !.asOf = query[q].asOf,
                                           !.fetch = "removed"]
                       ELSE IF q \in asked THEN Invalidate(query[q])
                       ELSE query[q]
           joined  == {q \in asked : ~Joins(query[q])}
           r2      == [r EXCEPT !.phase = "refetching", !.basis = 0,
                                !.done = {}, !.skipped = {}, !.await = asked,
                                !.asked = joined]
           Q       == [q \in Queries |-> Again(q)]
           req     == [t \in Slots |->
                         IF request[t] = NULL THEN NULL
                         ELSE IF t = s THEN r2
                         ELSE [request[t] EXCEPT !.await = @ \ removed,
                                                 !.asked = @ \ removed]]
<1>1. /\ r # NULL /\ r \in Sent /\ AskedOK(r, query, panel, Len(past))
      /\ past' = past
  BY RequestType DEF Answer, Asked
<1>2. CASE Rejected(r)
  <2> DEFINE rest == [request EXCEPT ![s] = NULL]
  <2>1. Draw(query, panel, selected, rest, dialog)
    BY <1>2 DEF Answer
  <2>2. \A t \in Slots : rest[t] # NULL => rest[t] = request[t]
    BY RequestType
  <2> HIDE DEF rest
  <2>3. \A t \in Slots : rest[t] # NULL =>
           rest[t] \in Sent /\ AskedOK(rest[t], query, panel, Len(past'))
    BY <1>1, <2>2, RequestType DEF Asked
  <2> QED
    BY <2>1, <2>3, DrawnAsked
<1>3. CASE ~Rejected(r)
  <2>1. Draw(Q, panel, selected, req, dialog)
    BY <1>3 DEF Answer
  <2>2. /\ asked \in SUBSET Queries /\ joined \subseteq asked
        /\ asked \subseteq Active(panel) /\ asked \cap removed = {}
        /\ \A q \in joined : ~Joins(query[q])
    BY OnScreen
  <2>3. \A q \in Queries : query[q] \in Entries
    BY DEF IInv, ScreenOK, CopiesOK
  <2>4. \A q \in Queries : q \notin removed =>
           Q[q] = IF q \in asked THEN Invalidate(query[q]) ELSE query[q]
    <3> HIDE DEF removed, asked
    <3> QED
      OBVIOUS
  <2>5. req[s] = r2
    BY <1>1
  <2>6. ASSUME NEW t \in Slots \ {s}, req[t] # NULL
        PROVE  /\ request[t] # NULL
               /\ req[t] = [request[t] EXCEPT
                              !.await = request[t].await \ removed,
                              !.asked = request[t].asked \ removed]
    BY <2>6
  <2>7. r2 = [r EXCEPT !.phase = "refetching", !.basis = 0, !.done = {},
                       !.skipped = {}, !.await = asked, !.asked = joined]
    OBVIOUS
  <2> HIDE DEF r, removed, asked, Again, joined, r2, Q, req
  <2>8. req[s] \in Sent /\ AskedOK(req[s], Q, panel, Len(past'))
    <3>1. asked \in SUBSET (Queries \cup {Abandoned})
          /\ joined \in SUBSET Queries
      BY <2>2
    <3>2. /\ r2 \in Sent /\ r2.phase = "refetching" /\ r2.commit = r.commit
          /\ r2.await = asked /\ r2.asked = joined
      BY <1>1, <2>7, <3>1 DEF Sent
    <3>3. r.commit \in Nat /\ r.commit <= Len(past)
      BY <1>1 DEF Sent, AskedOK
    <3>4. ASSUME NEW q \in joined
          PROVE  CopyMeets(Q[q], r.commit, q \in asked)
      <4>1. /\ Q[q] = Invalidate(query[q]) /\ ~Joins(query[q])
            /\ q \in asked /\ query[q] \in Entries
        BY <2>2, <2>3, <2>4
      <4>2. CopyMeets(Invalidate(query[q]), r.commit, TRUE)
        BY <3>3, <4>1, StartMeets
      <4> QED
        BY <4>1, <4>2 DEF CopyMeets
    <3>5. AskedOK(r2, Q, panel, Len(past'))
      BY <1>1, <2>2, <3>2, <3>3, <3>4 DEF AskedOK
    <3> QED
      BY <2>5, <3>2, <3>5
  <2>9. ASSUME NEW t \in Slots \ {s}, req[t] # NULL
        PROVE  req[t] \in Sent /\ AskedOK(req[t], Q, panel, Len(past'))
    <3> DEFINE m    == request[t]
               left == m.asked \ removed
               wait == m.await \ removed
    <3>1. /\ m \in Sent /\ AskedOK(m, query, panel, Len(past))
          /\ req[t] = [m EXCEPT !.await = wait, !.asked = left]
      BY <2>6, <2>9, RequestType DEF Asked
    <3>2. /\ wait \in SUBSET (Queries \cup {Abandoned})
          /\ left \in SUBSET Queries
      BY <3>1 DEF Sent
    <3>3. \A q \in left : /\ q \in m.asked /\ q \notin removed
                          /\ q \in wait <=> q \in m.await
      OBVIOUS
    <3> HIDE DEF m, left, wait
    <3>4. /\ req[t] \in Sent /\ req[t].commit = m.commit
          /\ req[t].phase = m.phase
          /\ req[t].asked = left /\ req[t].await = wait
      BY <3>1, <3>2 DEF Sent
    <3>5. m.commit \in Nat /\ m.commit <= Len(past)
      BY <3>1 DEF Sent, AskedOK
    <3>6. ASSUME NEW q \in left
          PROVE  CopyMeets(Q[q], m.commit, q \in wait)
      <4> DEFINE awaited == q \in wait
      <4>1. awaited \in BOOLEAN
        OBVIOUS
      <4>2. CopyMeets(query[q], m.commit, awaited)
        BY <3>1, <3>3 DEF AskedOK, CopyMeets
      <4>3. /\ q \in Queries /\ query[q] \in Entries
            /\ Q[q] = IF q \in asked THEN Invalidate(query[q]) ELSE query[q]
        BY <2>3, <2>4, <3>2, <3>3
      <4> HIDE DEF awaited
      <4>4. CopyMeets(Q[q], m.commit, awaited)
        BY <3>5, <4>1, <4>2, <4>3, StartMeets
      <4> QED
        BY <4>4 DEF awaited
    <3>7. AskedOK(req[t], Q, panel, Len(past'))
      BY <1>1, <3>1, <3>3, <3>4, <3>6 DEF AskedOK
    <3> QED
      BY <3>4, <3>7
  <2>10. \A t \in Slots : req[t] # NULL =>
            req[t] \in Sent /\ AskedOK(req[t], Q, panel, Len(past'))
    BY <2>8, <2>9
  <2> QED
    BY <2>1, <2>10, DrawnAsked
<1> QED
  BY <1>2, <1>3

\* The world may change the store, the screen it does not touch.
LEMMA WorldAsked ==
    ASSUME IInv, Asked, World \/ UNCHANGED vars PROVE Asked'
<1>1. UNCHANGED <<query, panel, request>>
  BY DEF World, OthersStep, Outage, Recovery, room, vars
<1>2. Len(past') \in Nat /\ Len(past) <= Len(past')
  <2>1. CASE OthersStep
    <3>1. PICK j \in Jobs : \E t \in Moves[Status(j)] : Write(j, t)
      BY <2>1 DEF OthersStep
    <3>2. PICK t \in Moves[Status(j)] : Write(j, t)
      BY <3>1
    <3>3. t \in JobStates
      BY <3>2, StatusIsState, StatusesOK
    <3> QED
      BY <3>2, <3>3, Written
  <2>2. CASE past' = past
    BY <2>2, LogIndex
  <2> QED
    BY <2>1, <2>2 DEF World, Outage, Recovery, vars
<1>3. ASSUME NEW s \in Slots, request[s] # NULL
      PROVE  AskedOK(request[s], query, panel, Len(past'))
  <2>1. /\ AskedOK(request[s], query, panel, Len(past))
        /\ request[s].commit \in Nat /\ Len(past) \in Nat
    BY <1>3, RequestType, LogIndex DEF Asked, Sent
  <2> QED
    BY <1>2, <2>1 DEF AskedOK
<1> QED
  BY <1>1, <1>3 DEF Asked

LEMMA AskedNext == IInv /\ Asked /\ [Next]_vars => Asked'
<1> SUFFICES ASSUME IInv, Asked, [Next]_vars PROVE Asked'
  OBVIOUS
<1>1. CASE Fetching
  BY <1>1, PollAsked, ArriveAsked, FailAttemptAsked DEF Fetching
<1>2. CASE Requests
  BY <1>2, AnswerAsked, LostAsked DEF Requests
<1>3. CASE Operator
  <2>1. ASSUME NEW a \in Actions, PressBulk(a)
        PROVE  Asked'
    <3> DEFINE d == [from |-> Bulk, action |-> a, basis |-> query[List].asOf]
    <3>1. past' = past /\ Draw(query, panel, selected, request, d)
      BY <2>1 DEF PressBulk
    <3> HIDE DEF d
    <3> QED
      BY <3>1, RedrawnAsked
  <2> QED
    BY <1>3, <2>1, PressAsked, ConfirmAsked, MovesAsked DEF Operator
<1>4. CASE Server
  BY <1>4, HandleAsked, LostAsked DEF Server
<1> QED
  BY <1>1, <1>2, <1>3, <1>4, SettleAsked, MovesAsked, WorldAsked DEF Next

\* What ReadsOwnWrites says of one request.
Shows(s) ==
    request[s] # NULL /\ request[s].phase = "refetching" /\ request'[s] = NULL =>
    \A q \in request[s].asked :
       \/ query[q].asOf >= request[s].commit
       \/ query[q].error # "none"
       \/ ~HasData(query[q])

\* Drawing ends no request.
LEMMA DrawnStay ==
    ASSUME NEW Q, NEW p, NEW sel, NEW req, NEW d, Draw(Q, p, sel, req, d),
           NEW s \in Slots, req[s] \in Sent
    PROVE  request'[s] # NULL
<1>1. req[s] # NULL
  BY NoRequestAssumption
<1> DEFINE mine == req[s].ours /\ Visible(req[s].from, Q, p, sel)
<1>2. request'[s] = [req[s] EXCEPT !.ours = mine]
  BY <1>1 DEF Draw
<1>3. mine \in BOOLEAN
  OBVIOUS
<1> HIDE DEF mine
<1>4. request'[s] \in Sent
  BY <1>2, <1>3 DEF Sent
<1> QED
  BY <1>4, NoRequestAssumption

\* Of the requests whose answer is there, only one that settles ends.
LEMMA RefetchingEnds ==
    ASSUME IInv, [Next]_vars, NEW s \in Slots, request[s] # NULL,
           request[s].phase = "refetching", request'[s] = NULL
    PROVE  Settle(s)
<1>1. request[s] \in Sent
  BY RequestType
<1>2. \A q \in Queries : Resolve(q)[s] \in Sent /\ Leave(q)[s] \in Sent
  <2>1. ASSUME NEW q \in Queries
        PROVE  Resolve(q)[s] # NULL /\ Leave(q)[s] # NULL
    <3> DEFINE left == request[s].asked \ {q}
               wait == IF q \in request[s].await
                       THEN (request[s].await \ {q}) \cup {Abandoned}
                       ELSE request[s].await
    <3>1. /\ Resolve(q)[s] = [request[s] EXCEPT !.await = @ \ {q}]
          /\ Leave(q)[s] = [request[s] EXCEPT !.asked = left, !.await = wait]
      BY DEF Resolve, Leave
    <3>2. /\ wait \in SUBSET (Queries \cup {Abandoned})
          /\ left \in SUBSET Queries
      BY <1>1 DEF Sent
    <3> HIDE DEF left, wait
    <3>3. Resolve(q)[s] \in Sent /\ Leave(q)[s] \in Sent
      BY <1>1, <3>1, <3>2 DEF Sent
    <3> QED
      BY <3>3, NoRequestAssumption
  <2> QED
    BY <2>1, WaitingOK DEF RequestsOK
<1>3. panel # NULL => panel \in Queries
  BY OnScreen
<1>4. ~Fetching
  <2> SUFFICES ASSUME NEW q \in Queries, Poll(q) \/ Arrive(q) \/ FailAttempt(q)
               PROVE  FALSE
    BY DEF Fetching
  <2>1. CASE Poll(q)
    BY <1>1, <2>1, DrawnStay DEF Poll
  <2>2. CASE Arrive(q)
    BY <1>2, <2>2, DrawnStay DEF Arrive
  <2>3. CASE FailAttempt(q)
    <3>1. \/ request' = request
          \/ \E e : Draw([query EXCEPT ![q] = e], panel, selected,
                         Resolve(q), dialog)
      BY <2>3 DEF FailAttempt
    <3> QED
      BY <1>2, <3>1, DrawnStay
  <2> QED
    BY <2>1, <2>2, <2>3
<1>5. ASSUME NEW t \in Slots, Answer(t)
      PROVE  FALSE
  <2>1. t # s /\ request[t] # NULL
    BY <1>5 DEF Answer
  <2> DEFINE removed == IF request[t].action = "delete" THEN request[t].done
                        ELSE {}
             left    == request[s].asked \ removed
             wait    == request[s].await \ removed
             r       == [request[s] EXCEPT !.await = wait, !.asked = left]
  <2>2. r \in Sent
    <3>1. /\ wait \in SUBSET (Queries \cup {Abandoned})
          /\ left \in SUBSET Queries
      BY <1>1 DEF Sent
    <3> HIDE DEF left, wait
    <3> QED
      BY <1>1, <3>1 DEF Sent
  <2>3. ASSUME NEW Q, NEW req, req[s] \in Sent,
               Draw(Q, panel, selected, req, dialog)
        PROVE  FALSE
    BY <2>3, DrawnStay
  <2>4. CASE Rejected(request[t])
    <3> DEFINE rest == [request EXCEPT ![t] = NULL]
    <3>1. Draw(query, panel, selected, rest, dialog)
      BY <1>5, <2>4 DEF Answer
    <3>2. rest[s] \in Sent
      BY <1>1, <2>1, RequestType
    <3> HIDE DEF rest
    <3> QED
      BY <2>3, <3>1, <3>2
  <2>5. CASE ~Rejected(request[t])
    <3>1. PICK Q, r2 :
             Draw(Q, panel, selected,
                  [u \in Slots |->
                     IF request[u] = NULL THEN NULL
                     ELSE IF u = t THEN r2
                     ELSE [request[u] EXCEPT !.await = @ \ removed,
                                             !.asked = @ \ removed]],
                  dialog)
      BY <1>5, <2>5 DEF Answer
    <3> DEFINE req == [u \in Slots |->
                     IF request[u] = NULL THEN NULL
                     ELSE IF u = t THEN r2
                     ELSE [request[u] EXCEPT !.await = @ \ removed,
                                             !.asked = @ \ removed]]
    <3>2. req[s] = r
      BY <2>1
    <3>3. Draw(Q, panel, selected, req, dialog)
      BY <3>1
    <3> HIDE DEF req, r
    <3> QED
      BY <2>2, <2>3, <3>2, <3>3
  <2> QED
    BY <2>4, <2>5
<1>6. ASSUME NEW t \in Slots, Settle(t)
      PROVE  t = s
  <2> SUFFICES ASSUME t # s PROVE FALSE
    OBVIOUS
  <2>1. PICK p, sel, held :
           /\ Draw(query, p, sel, [held EXCEPT ![t] = NULL], dialog)
           /\ held = [u \in Slots |-> held[u]]
           /\ held[s] \in Sent
    <3> DEFINE close == /\ request[t].from[1] = "panel"
                        /\ request[t].action = "delete" /\ panel # NULL
               held == IF close THEN Leave(panel) ELSE request
    <3>1. /\ held = [u \in Slots |-> held[u]]
          /\ held[s] \in Sent
      BY <1>1, <1>2, <1>3, RequestType DEF Leave
    <3> QED
      BY <1>6, <3>1 DEF Settle
  <2> DEFINE rest == [held EXCEPT ![t] = NULL]
  <2>2. Draw(query, p, sel, rest, dialog) /\ rest[s] \in Sent
    BY <2>1
  <2> HIDE DEF rest
  <2> QED
    BY <2>2, DrawnStay
<1>7. \A sel, d : ~Draw(query, panel, sel, request, d)
  BY <1>1, DrawnStay
<1>8. \A c, action, ids, basis : ~Send(c, action, ids, basis, NULL)
  <2> SUFFICES ASSUME NEW c, NEW action, NEW ids, NEW basis,
                      Send(c, action, ids, basis, NULL)
               PROVE  FALSE
    OBVIOUS
  <2>1. PICK t, r :
           /\ t \in Slots /\ request[t] = NULL
           /\ Draw(query, panel, selected, [request EXCEPT ![t] = r], NULL)
    BY DEF Send
  <2> DEFINE req == [request EXCEPT ![t] = r]
  <2>2. req[s] \in Sent /\ Draw(query, panel, selected, req, NULL)
    BY <1>1, <2>1, RequestType
  <2> HIDE DEF req
  <2> QED
    BY <2>2, DrawnStay
<1>9. ~Operator /\ ~KeyMoves
  <2>1. \A c \in Controls \ {Bulk}, a \in Actions : ~Press(c, a)
    BY <1>7, <1>8 DEF Press
  <2>2. \A a \in Actions : ~PressBulk(a)
    BY <1>7 DEF PressBulk
  <2>3. ~Confirm /\ ~Dismiss
    BY <1>7, <1>8 DEF Confirm, Dismiss
  <2>4. ~Select
    BY <1>7 DEF Select, Tick
  <2>5. ~ClosePanel
    BY <1>2, <1>3, DrawnStay DEF ClosePanel
  <2>6. \A sel : ~NewKey(sel)
    BY <1>2, OnScreen, DrawnStay DEF NewKey
  <2>7. \A j \in Jobs : ~OpenPanel(j)
    <3> SUFFICES ASSUME NEW j \in Jobs, OpenPanel(j)
                 PROVE  FALSE
      OBVIOUS
    <3> DEFINE req == IF panel = NULL THEN request ELSE Leave(panel)
    <3>1. req[s] \in Sent
      BY <1>1, <1>2, <1>3
    <3>2. PICK Q : Draw(Q, j, selected, req, dialog)
      BY DEF OpenPanel
    <3> HIDE DEF req
    <3> QED
      BY <3>1, <3>2, DrawnStay
  <2> QED
    BY <2>1, <2>2, <2>3, <2>4, <2>5, <2>6, <2>7
       DEF Operator, ChangeSearch, KeyMoves
<1>10. ASSUME NEW t \in Slots,
              Lose(t) \/ AbandonedEnds(t) \/ Handle(t) \/ Bury(t)
       PROVE  FALSE
  <2>1. CASE t # s
    BY <1>1, <1>10, <2>1, RequestType, NoRequestAssumption
       DEF Lose, AbandonedEnds, Handle, Bury
  <2>2. CASE t = s
    <3>1. AbandonedEnds(s)
      BY <1>10, <2>2 DEF Lose, Handle, Bury
    <3>2. request'[s] = [request[s] EXCEPT
                            !.await = request[s].await \ {Abandoned}]
      BY <3>1, RequestType DEF AbandonedEnds
    <3>3. request'[s] \in Sent
      BY <1>1, <3>2 DEF Sent
    <3> QED
      BY <3>3, NoRequestAssumption
  <2> QED
    BY <2>1, <2>2
<1>11. ~(World \/ UNCHANGED vars)
  BY DEF World, OthersStep, Outage, Recovery, room, vars
<1> QED
  BY <1>4, <1>5, <1>6, <1>9, <1>10, <1>11 DEF Next, Requests, Server

\* Whatever the operator, the connection, the polls and the others do meanwhile,
\* a control that is free again stands beside copies that show what it did.
THEOREM OwnWritesAlwaysRead == Spec => ReadsOwnWrites
<1>1. Init => Asked
  BY DEF Init, Asked
<1>2. IInv /\ Asked /\ [Next]_vars => [\A s \in Slots : Shows(s)]_vars
  <2> SUFFICES ASSUME IInv, Asked, [Next]_vars, NEW s \in Slots,
                      request[s] # NULL, request[s].phase = "refetching",
                      request'[s] = NULL
               PROVE  \A q \in request[s].asked :
                         \/ query[q].asOf >= request[s].commit
                         \/ query[q].error # "none"
                         \/ ~HasData(query[q])
    BY DEF Shows
  <2>1. request[s].await = {}
    BY RefetchingEnds DEF Settle
  <2> QED
    BY <2>1 DEF Asked, AskedOK, CopyMeets
<1> QED
  BY <1>1, <1>2, InitOK, NextOK, AskedNext, PTL DEF Spec, ReadsOwnWrites, Shows

-----------------------------------------------------------------------------
(* ControlRoom keeps only the status of each job.  What it assumes of the  *)
(* store is what the store promises: every step of a job in JobLife, which *)
(* JobStore implements (JobStoreLife_proofs), is one of Moves, and a step  *)
(* that an operator asks for is among its Outcomes.                        *)

VARIABLE life          \* the life of each job in the store

Store == INSTANCE JobLife_proofs

\* A step of a job that is in order changes its status as Moves allows.
LEMMA StepMoves ==
    ASSUME NEW l \in Store!Lives, NEW m, Store!LifeOK(l),
           Store!LifeStep(l, m), m.status # l.status
    PROVE  m.status \in Moves[l.status]
<1>1. CASE Store!Create(l, m) \/ Store!Vanish(l, m)
  BY <1>1 DEF Store!Create, Store!Vanish, Store!Unborn, Moves
<1>2. CASE Store!Begin(l, m) \/ Store!Retry(l, m) \/ Store!Replay(l, m)
  <2>1. \/ l.status = "pending" /\ m.status = "running"
        \/ /\ l.status \in {"failed", "cancelled", "success"}
           /\ m.status = "pending"
    BY <1>2 DEF Store!Begin, Store!Retry, Store!Replay, Store!Lives
  <2> QED
    BY <2>1 DEF Moves
<1>3. CASE Store!Cancel(l, m)
  BY <1>3 DEF Store!Cancel, Store!Lives, Moves
<1>4. l.claim # "over" => l.status \in {"pending", "running", "failed"}
  BY DEF Store!LifeOK, Store!Lives
<1>5. CASE Store!Continue(l, m) \/ Store!Release(l, m) \/ Store!Succeed(l, m)
  <2>1. m.status \in {"running", "success"} \/ Store!Release(l, m)
    BY <1>5 DEF Store!Continue, Store!Succeed, Store!Lives
  <2>2. Store!Release(l, m) => l.status = "running" /\ m.status = "pending"
    BY DEF Store!Release, Store!LifeOK, Store!Lives
  <2>3. l.claim # "over"
    BY <1>5 DEF Store!Continue, Store!Release, Store!Succeed
  <2> QED
    BY <1>4, <2>1, <2>2, <2>3 DEF Moves
<1>6. CASE Store!Lapse(l, m) \/ Store!Fall(l, m)
  <2>1. PICK claim \in {"lost", "over"} : m \in Store!Unsuccessful(l, claim)
    BY <1>6 DEF Store!Lapse, Store!Fall
  <2>2. /\ m.status \in {"pending", "failed", "success"}
        /\ l.keeps => m.status = "success"
    BY <2>1 DEF Store!Unsuccessful, Store!Lives
  <2>3. l.claim # "over"
    BY <1>6 DEF Store!Lapse, Store!Fall
  <2> QED
    BY <1>4, <2>2, <2>3 DEF Moves
<1> QED
  BY <1>1, <1>2, <1>3, <1>5, <1>6 DEF Store!LifeStep

\* Whatever happens in the store, a job changes its status only as the screen's
\* model lets the others change it.
THEOREM StoreMoves ==
    Store!LifeSpec =>
        [][\A j \in Jobs :
              life'[j].status # life[j].status =>
                  life'[j].status \in Moves[life[j].status]]_life
<1>1. Store!LifeIInv /\ [Store!LifeNext]_life =>
         [\A j \in Jobs :
             life'[j].status # life[j].status =>
                 life'[j].status \in Moves[life[j].status]]_life
  <2> SUFFICES ASSUME Store!LifeIInv, Store!LifeNext, NEW j \in Jobs,
                      life'[j].status # life[j].status
               PROVE  life'[j].status \in Moves[life[j].status]
    OBVIOUS
  <2>1. life[j] \in Store!Lives /\ Store!LifeOK(life[j])
    BY DEF Store!LifeIInv, Store!LifeTypeOK, Store!LifeInv, Store!LifeOK
  <2>2. Store!LifeStep(life[j], life'[j])
    BY DEF Store!LifeNext
  <2> QED
    BY <2>1, <2>2, StepMoves
<1>2. Store!LifeInit => Store!LifeIInv
  BY Store!UnbornOK
     DEF Store!LifeInit, Store!LifeIInv, Store!LifeTypeOK, Store!LifeInv,
         Store!LifeOK
<1> QED
  BY <1>1, <1>2, Store!LifeNextOK, PTL DEF Store!LifeSpec

\* What the store does to a job when an operator asks for it is among the
\* outcomes the screen's model gives the request.
THEOREM StoreOutcomes ==
    ASSUME NEW l \in Store!Lives, NEW m
    PROVE  /\ Store!Cancel(l, m) => m.status \in Outcomes("cancel", l.status)
           /\ Store!Retry(l, m)  => m.status \in Outcomes("retry", l.status)
           /\ Store!Replay(l, m) => m.status \in Outcomes("replay", l.status)
           /\ Store!Vanish(l, m) => m.status \in Outcomes("delete", l.status)
<1>1. Store!Cancel(l, m) => m.status \in Outcomes("cancel", l.status)
  BY DEF Store!Cancel, Store!Lives, Outcomes
<1>2. Store!Retry(l, m) => m.status \in Outcomes("retry", l.status)
  BY DEF Store!Retry, Store!Lives, Outcomes
<1>3. Store!Replay(l, m) => m.status \in Outcomes("replay", l.status)
  BY DEF Store!Replay, Store!Lives, Outcomes
<1>4. Store!Vanish(l, m) => m.status \in Outcomes("delete", l.status)
  BY DEF Store!Vanish, Store!Unborn, Outcomes
<1> QED
  BY <1>1, <1>2, <1>3, <1>4

=============================================================================
