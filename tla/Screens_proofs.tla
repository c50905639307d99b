--------------------------- MODULE Screens_proofs ---------------------------
(***************************************************************************)
(* What the screens say is what the store has: the run times, timeline,    *)
(* notes and facts of JobView.tla; the running jobs, figures, verdict and  *)
(* banner of an overview that is read in parts (Overview.tla); the rates,  *)
(* runs and buckets of Stats.tla; the lanes of MachinesView.tla; and the   *)
(* steps of Progress.tla.                                                  *)
(***************************************************************************)
EXTENDS JobView, JobStoreRows_proofs, SequenceTheorems, Overview, MachinesView, Progress

-----------------------------------------------------------------------------
(* The start that a row tells. *)

\* started_at is that of the newest run as long as the row is of it, of a run
\* that won if the job is a success, and a failure is of the newest run; a success
\* that a replay keeps is still in the log.
Told(job) ==
    /\ job.status \in {"pending", "running", "failed"} /\ job.deadline # NULL =>
          job.started = job.attempts[Newest(job)].started
    /\ job.status = "failed" =>
          /\ job.deadline # NULL
          /\ job.attempts[Newest(job)].ended = job.finished
          /\ job.attempts[Newest(job)].outcome \in JobErrors
    /\ KeepsOldSuccess(job) => Wins(job) # {}
    /\ job.status = "success" =>
          \E k \in Wins(job) : job.attempts[k].started = job.started

RowsTold == \A j \in Jobs : Told(jobs[j])

\* What is written does not matter to it.
LEMMA SameTold ==
    ASSUME NEW old, NEW new, Told(old), new.status = old.status,
           new.attempts = old.attempts, new.started = old.started,
           new.finished = old.finished, SameFrame(new, old)
    PROVE  Told(new)
<1>1. /\ Newest(new) = Newest(old) /\ Wins(new) = Wins(old)
      /\ KeepsOldSuccess(new) <=> KeepsOldSuccess(old)
      /\ new.deadline = old.deadline
  BY DEF Newest, Wins, KeepsOldSuccess, SameFrame
<1> QED
  BY <1>1 DEF Told

\* A run that won stays one that won.
LEMMA WinsStay ==
    ASSUME NEW old, NEW new, LogKept(old, new), new.finished = old.finished
    PROVE  /\ Wins(old) \subseteq Wins(new)
           /\ Wins(old) # {} => Wins(new) # {}
<1>1. ASSUME NEW k \in Wins(old)
      PROVE  k \in Wins(new)
  <2>1. k \in DOMAIN old.attempts /\ old.attempts[k].outcome = "succeeded"
    BY <1>1 DEF Wins
  <2>2. new.attempts[k] = old.attempts[k]
    BY <2>1, NullIsNoString DEF LogKept, Outcomes
  <2> QED
    BY <1>1, <2>1, <2>2 DEF Wins, LogKept
<1> QED
  BY <1>1

\* A success that is restored tells the start of one of its runs.
LEMMA RestoredTold ==
    ASSUME NEW job \in Job, Wins(job) # {}
    PROVE  Told(RestoreSuccess(job))
<1> DEFINE m == RestoreSuccess(job)
           idle == Unleased(job)
           start == job.attempts[LastWin(job)].started
<1>1. /\ m.status = "success" /\ m.attempts = job.attempts
      /\ m.finished = job.finished
  BY RestoredFields DEF SameOutcome
<1>2. idle \in Job
  BY UnleasedFields
<1>3. m = [idle EXCEPT !.status = "success", !.error = NULL, !.started = start]
  BY DEF RestoreSuccess
<1> HIDE DEF m, idle, start
<1>4. m.started = start
  BY <1>2, <1>3 DEF Job
<1>5. LastWin(job) \in Wins(job)
  BY LastWinIsAWin
<1>6. Wins(m) = Wins(job)
  BY <1>1 DEF Wins
<1> QED
  BY <1>1, <1>4, <1>5, <1>6 DEF Told, m, start

\* What the parts of an end leave of the start.
LEMMA EndedStart ==
    ASSUME NEW job \in Job, NEW outcome, NEW now
    PROVE  LET e == EndAttempt(job, outcome, now)
           IN  e.started = job.started /\ Unleased(job).started = job.started
  BY DEF EndAttempt, WithNewest, Unleased, Job

LEMMA StartedStart ==
    ASSUME NEW job \in Job, NEW now
    PROVE  StartReport(job, now).started = job.started
<1> DEFINE report == [NoReport EXCEPT !.status = "pending", !.nextAt = now]
<1>1. StartReport(job, now) = IF job.methods = 0 THEN job
                              ELSE [job EXCEPT !.report = report]
  BY DEF StartReport
<1> HIDE DEF report
<1> QED
  BY <1>1 DEF Job

\* _retry_or_fail keeps the start, unless it restores a success.
LEMMA RetryOrFailStart ==
    ASSUME NEW job \in Job, NEW error \in JobErrors, NEW now \in Time,
           ~KeepsOldSuccess(job)
    PROVE  RetryOrFail(job, error, now).started = job.started
<1> DEFINE m == RetryOrFail(job, error, now)
           idle == Unleased(job)
<1>1. idle \in Job /\ idle.started = job.started
  BY UnleasedFields, EndedStart
<1>2. CASE OutOfAttempts(job)
  <2> DEFINE ended == [idle EXCEPT !.status = "failed", !.error = error,
                                   !.result = NULL, !.finished = now]
             reports == job.replay = NULL \/ job.replay.reportFailed
  <2>1. m = IF reports THEN StartReport(ended, now) ELSE ended
    BY <1>2 DEF RetryOrFail, Fail
  <2> HIDE DEF idle
  <2>2. ended \in Job /\ ended.started = job.started
    BY <1>1, FailedIsAJob DEF Job
  <2> HIDE DEF ended, reports
  <2> QED
    BY <2>1, <2>2, StartedStart
<1>3. CASE ~OutOfAttempts(job)
  <2> DEFINE next == now + RetryBackoff(UsedAttempts(job))
  <2>1. m = [idle EXCEPT !.status = "pending", !.error = error,
                         !.available = next]
    BY <1>3 DEF RetryOrFail, Requeue
  <2> HIDE DEF next, idle
  <2> QED
    BY <1>1, <2>1 DEF Job
<1> QED
  BY <1>2, <1>3

\* The end of a run: its newest attempt is closed, the start stays.
LEMMA ClosedTold ==
    ASSUME NEW job, RowInv(job), Told(job), job.token # NULL,
           NEW outcome \in Outcomes, NEW now \in Time
    PROVE  LET e == EndAttempt(job, outcome, now)
               n == Newest(job)
           IN  /\ e \in Job /\ SameFrame(e, job)
               /\ e.finished = job.finished /\ e.started = job.started
               /\ job.deadline # NULL
               /\ Newest(e) = n /\ n \in DOMAIN e.attempts
               /\ e.attempts[n].started = job.started
               /\ e.attempts[n].ended = now
               /\ e.attempts[n].outcome = outcome
               /\ KeepsOldSuccess(e) <=> KeepsOldSuccess(job)
               /\ KeepsOldSuccess(job) => Wins(e) # {}
<1> DEFINE e == EndAttempt(job, outcome, now)
           n == Newest(job)
           a == Closed(job.attempts[n], outcome, now)
<1>1. /\ e \in Job /\ SameFrame(e, job) /\ SameOutcome(e, job)
      /\ n \in DOMAIN job.attempts /\ job.attempts[n] \in Attempt
      /\ Newest(e) = n
      /\ DOMAIN e.attempts = DOMAIN job.attempts
      /\ e.attempts[n] = a
  BY EndedFields
<1>2. a.started = job.attempts[n].started /\ a.ended = now /\ a.outcome = outcome
  BY <1>1, AttemptClosed
<1>3. job \in Job /\ job.status = "running" /\ job.deadline # NULL
  BY DEF RowInv, RowChecks, LeaseChecks
<1>4. job.attempts[n].started = job.started
  BY <1>3 DEF Told
<1>5. e.started = job.started
  BY <1>3, EndedStart
<1>6. LogKept(job, e)
  BY EndedLog
<1> HIDE DEF e, a, n
<1>7. KeepsOldSuccess(e) <=> KeepsOldSuccess(job)
  BY <1>1 DEF SameFrame, KeepsOldSuccess
<1>8. KeepsOldSuccess(job) => Wins(e) # {}
  BY <1>1, <1>6, WinsStay DEF Told, SameOutcome
<1> QED
  BY <1>1, <1>2, <1>3, <1>4, <1>5, <1>7, <1>8 DEF SameOutcome, e, n

\* A run that does not succeed.
LEMMA FallenTold ==
    ASSUME NEW job, RowInv(job), Told(job), job.token # NULL,
           NEW outcome \in Outcomes \cap JobErrors, NEW now \in Time
    PROVE  Told(RetryOrFail(EndAttempt(job, outcome, now), outcome, now))
<1> DEFINE e == EndAttempt(job, outcome, now)
           m == RetryOrFail(e, outcome, now)
           n == Newest(job)
<1>1. /\ e \in Job /\ SameFrame(e, job) /\ e.started = job.started
      /\ job.deadline # NULL
      /\ Newest(e) = n
      /\ e.attempts[n].started = job.started
      /\ e.attempts[n].ended = now /\ e.attempts[n].outcome = outcome
      /\ KeepsOldSuccess(e) => Wins(e) # {}
  BY ClosedTold
<1> HIDE DEF e
<1>2. CASE KeepsOldSuccess(e)
  <2>1. m = RestoreSuccess(e)
    BY <1>2 DEF RetryOrFail
  <2> QED
    BY <1>1, <1>2, <2>1, RestoredTold DEF e
<1>3. CASE ~KeepsOldSuccess(e)
  <2>1. /\ m.attempts = e.attempts /\ SameFrame(m, e)
        /\ (m.status = "failed" /\ m.finished = now) \/ m.status = "pending"
    BY <1>1, <1>3, RetryOrFailFields
  <2>2. m.started = job.started
    BY <1>1, <1>3, RetryOrFailStart
  <2> HIDE DEF m
  <2>3. Newest(m) = n /\ ~KeepsOldSuccess(m) /\ m.deadline # NULL
    BY <1>1, <1>3, <2>1 DEF Newest, KeepsOldSuccess, SameFrame
  <2>4. Told(m)
    BY <1>1, <2>1, <2>2, <2>3 DEF Told
  <2> QED
    BY <2>4 DEF m, e
<1> QED
  BY <1>2, <1>3

LEMMA ExpiredTold ==
    ASSUME NEW job, RowInv(job), Told(job), NEW now \in Time
    PROVE  Told(ExpireIfDue(job, now))
<1>1. /\ "lease_expired" \in Outcomes \cap JobErrors
      /\ "deadline_exceeded" \in Outcomes \cap JobErrors
  BY DEF Outcomes, JobErrors
<1>2. CASE PastDeadline(job, now)
  <2>1. job.token # NULL /\ ~LeaseExpired(job, now)
    BY <1>2 DEF PastDeadline, LeaseExpired
  <2>2. ExpireIfDue(job, now) = Revoke(job, "deadline_exceeded", now)
    BY <1>2, <2>1 DEF ExpireIfDue
  <2> QED
    BY <1>1, <2>1, <2>2, FallenTold DEF Revoke
<1>3. CASE LeaseExpired(job, now)
  <2>1. job.token # NULL /\ ~PastDeadline(job, now)
    BY <1>3 DEF LeaseExpired
  <2>2. ExpireIfDue(job, now) = Revoke(job, "lease_expired", now)
    BY <1>3, <2>1 DEF ExpireIfDue
  <2> QED
    BY <1>1, <2>1, <2>2, FallenTold DEF Revoke
<1>4. CASE ~PastDeadline(job, now) /\ ~LeaseExpired(job, now)
  BY <1>4 DEF ExpireIfDue
<1> QED
  BY <1>2, <1>3, <1>4

\* A reclaim leaves the start of the run it opens again.
LEMMA ReclaimedTold ==
    ASSUME NEW job, RowInv(job), Told(job), NEW w \in Workers, NEW token,
           NEW now \in Time, NEW registered,
           Reclaimable(job, w, token, now, registered), ~KeepsOldSuccess(job)
    PROVE  Told(Reclaim(job, w, token, now))
<1> DEFINE n == Newest(job)
           open == Closed(job.attempts[n], NULL, NULL)
           lease == [job EXCEPT !.status = "running", !.worker = w,
                        !.token = token,
                        !.until = Min2(now + JobLeaseMs, job.deadline),
                        !.error = NULL, !.finished = NULL,
                        !.report = [@ EXCEPT !.status = NULL, !.nextAt = NULL]]
           m == Reclaim(job, w, token, now)
<1>1. /\ n \in DOMAIN job.attempts /\ job.attempts[n] \in Attempt
      /\ m.status = "running" /\ SameFrame(m, job) /\ Newest(m) = n
      /\ m.attempts[n] = open
  BY ReclaimedFields
<1>2. open.started = job.attempts[n].started
  BY <1>1, AttemptClosed
<1>3. job.attempts[n].started = job.started
  BY DEF Reclaimable, Told
<1>4. m.started = job.started
  <2>1. m = WithNewest(lease, open)
    BY DEF Reclaim
  <2> HIDE DEF m, open
  <2>2. m.started = lease.started
    BY <2>1 DEF WithNewest, RowInv, Job
  <2>3. lease.started = job.started
    BY DEF RowInv, Job
  <2> QED
    BY <2>2, <2>3
<1> HIDE DEF m, open, n, lease
<1>5. ~KeepsOldSuccess(m)
  BY <1>1 DEF SameFrame, KeepsOldSuccess
<1> QED
  BY <1>1, <1>2, <1>3, <1>4, <1>5 DEF Told, m

\* What _hold returns.
LEMMA HeldTold ==
    ASSUME NEW job, RowInv(job), RowKept(job), Told(job), NEW w \in Workers,
           NEW token, NEW now \in Time, NEW registered,
           \/ CanHold(job, w, token, now)
           \/ CanReclaim(job, w, token, now, registered)
    PROVE  Told(Hold(job, w, token, now))
<1> DEFINE current == ExpireIfDue(job, now)
           h == Hold(job, w, token, now)
<1>1. /\ RowInv(current) /\ RowKept(current) /\ Told(current)
  BY ExpiredRow, ExpiredKept, ExpiredTold
<1>2. CASE Holds(current, w, token)
  BY <1>1, <1>2 DEF Hold
<1>3. CASE ~Holds(current, w, token)
  <2>1. Reclaimable(current, w, token, now, registered)
    BY <1>3 DEF CanHold, CanReclaim
  <2>2. h = Reclaim(current, w, token, now)
    BY <1>3 DEF Hold
  <2> HIDE DEF current, h
  <2>3. ~KeepsOldSuccess(current)
    BY <1>1, <2>1 DEF Reclaimable, RowKept, KeptIsNotLost
  <2> QED
    BY <1>1, <2>1, <2>2, <2>3, ReclaimedTold DEF h
<1> QED
  BY <1>2, <1>3

\* A heartbeat and a new priority leave it alone.
LEMMA BeatenTold ==
    ASSUME NEW job \in Job, Told(job), NEW now
    PROVE  Told(Beaten(job, now))
<1> DEFINE m == Beaten(job, now)
<1>1. /\ m.status = job.status /\ m.attempts = job.attempts
      /\ m.started = job.started /\ m.finished = job.finished
      /\ SameFrame(m, job)
  BY DEF Beaten, Job, SameFrame
<1> HIDE DEF m
<1> QED
  BY <1>1, SameTold DEF m

LEMMA PrioritisedTold ==
    ASSUME NEW job \in Job, Told(job), NEW priority
    PROVE  Told([job EXCEPT !.priority = priority])
<1> DEFINE m == [job EXCEPT !.priority = priority]
<1>1. /\ m.status = job.status /\ m.attempts = job.attempts
      /\ m.started = job.started /\ m.finished = job.finished
      /\ SameFrame(m, job)
  BY DEF Job, SameFrame
<1> HIDE DEF m
<1> QED
  BY <1>1, SameTold DEF m

\* A success is one of the newest run, or the old one that is restored.
LEMMA SucceededTold ==
    ASSUME NEW job, RowInv(job), Told(job), job.token # NULL, NEW now \in Time
    PROVE  Told(Succeeded(job, now))
<1> DEFINE e == EndAttempt(job, "succeeded", now)
           m == Succeeded(job, now)
           n == Newest(job)
           idle == Unleased(e)
           ended == [idle EXCEPT !.status = "success", !.result = n,
                                 !.error = NULL, !.finished = now]
           reports == job.replay = NULL \/ job.replay.reportSuccess
<1>1. /\ e \in Job /\ SameFrame(e, job)
      /\ e.started = job.started
      /\ n \in DOMAIN e.attempts
      /\ e.attempts[n].started = job.started
      /\ e.attempts[n].ended = now
      /\ e.attempts[n].outcome = "succeeded"
      /\ KeepsOldSuccess(job) => Wins(e) # {}
  BY ClosedTold DEF Outcomes
<1>2. CASE KeepsOldSuccess(job)
  <2>1. m = RestoreSuccess(e)
    BY <1>2 DEF Succeeded
  <2> HIDE DEF e, m
  <2> QED
    BY <1>1, <1>2, <2>1, RestoredTold DEF m
<1>3. CASE ~KeepsOldSuccess(job)
  <2>1. /\ m.status = "success" /\ m.attempts = e.attempts
        /\ SameFrame(m, job) /\ m.finished = now
    BY <1>3, SucceededFields
  <2>2. m.started = job.started
    <3>1. m = IF reports THEN StartReport(ended, now) ELSE ended
      BY <1>3 DEF Succeeded
    <3>2. idle \in Job /\ idle.started = job.started
      BY <1>1, UnleasedFields, EndedStart
    <3>3. n \in Nat
      BY DEF RowInv, Job, Newest
    <3> HIDE DEF e, m, idle, n
    <3>4. ended \in Job
      BY <3>2, <3>3, WonIsAJob
    <3>5. ended.started = job.started
      BY <3>2 DEF Job
    <3> HIDE DEF ended, reports
    <3> QED
      BY <3>1, <3>4, <3>5, StartedStart
  <2> HIDE DEF e, m, n
  <2>3. n \in Wins(m) /\ m.attempts[n].started = m.started
    BY <1>1, <2>1, <2>2 DEF Wins
  <2>4. ~KeepsOldSuccess(m)
    BY <1>3, <2>1 DEF SameFrame, KeepsOldSuccess
  <2>5. Told(m)
    BY <2>1, <2>3, <2>4 DEF Told
  <2> QED
    BY <2>5 DEF m
<1> QED
  BY <1>2, <1>3

\* A release keeps the start of the run it ends.
LEMMA ReleasedTold ==
    ASSUME NEW job, RowInv(job), Told(job), job.token # NULL, NEW now \in Time
    PROVE  Told(Released(job, now))
<1> DEFINE e == EndAttempt(job, "released", now)
           idle == Unleased(e)
           m == Released(job, now)
           n == Newest(job)
<1>1. /\ e \in Job /\ SameFrame(e, job)
      /\ e.started = job.started /\ Newest(e) = n
      /\ e.attempts[n].started = job.started
      /\ KeepsOldSuccess(e) => Wins(e) # {}
  BY ClosedTold DEF Outcomes
<1>2. m = [idle EXCEPT !.status = "pending", !.available = now]
  BY DEF Released
<1> HIDE DEF e, m
<1>3. /\ idle \in Job /\ idle.attempts = e.attempts /\ idle.started = e.started
      /\ SameFrame(idle, e) /\ SameOutcome(idle, e)
  BY <1>1, UnleasedFields, EndedStart
<1> HIDE DEF idle
<1>4. /\ m.status = "pending" /\ m.attempts = e.attempts
      /\ m.started = e.started /\ m.finished = e.finished /\ SameFrame(m, e)
  BY <1>2, <1>3 DEF Job, SameFrame, SameOutcome
<1>5. /\ Newest(m) = n /\ Wins(m) = Wins(e)
      /\ KeepsOldSuccess(m) <=> KeepsOldSuccess(e)
  BY <1>1, <1>4 DEF Newest, Wins, KeepsOldSuccess, SameFrame
<1>6. Told(m)
  BY <1>1, <1>4, <1>5 DEF Told
<1> QED
  BY <1>6 DEF m

\* A cancel restores the success a replay keeps, or tells nothing.
LEMMA CancelledTold ==
    ASSUME NEW job, RowInv(job), Told(job), NEW now \in Time
    PROVE  Told(Cancelled(job, now))
<1> DEFINE closed == IF job.token = NULL THEN job
                     ELSE EndAttempt(job, "cancelled", now)
           idle == Unleased(closed)
           m == Cancelled(job, now)
<1>1. /\ closed \in Job /\ SameFrame(closed, job)
      /\ KeepsOldSuccess(job) => Wins(closed) # {}
  <2>1. CASE job.token = NULL
    BY <2>1 DEF RowInv, Told, SameFrame
  <2>2. CASE job.token # NULL
    BY <2>2, ClosedTold DEF Outcomes
  <2> QED
    BY <2>1, <2>2
<1>2. m = IF KeepsOldSuccess(job) THEN RestoreSuccess(closed)
          ELSE [idle EXCEPT !.status = "cancelled", !.result = NULL,
                            !.finished = now]
  BY DEF Cancelled
<1> HIDE DEF closed, m
<1>3. CASE KeepsOldSuccess(job)
  BY <1>1, <1>2, <1>3, RestoredTold DEF m
<1>4. CASE ~KeepsOldSuccess(job)
  <2>1. idle \in Job /\ SameFrame(idle, closed)
    BY <1>1, UnleasedFields
  <2> HIDE DEF idle
  <2>2. m.status = "cancelled" /\ SameFrame(m, idle)
    BY <1>2, <1>4, <2>1 DEF Job, SameFrame
  <2>3. ~KeepsOldSuccess(m)
    BY <1>1, <1>4, <2>1, <2>2 DEF SameFrame, KeepsOldSuccess
  <2>4. Told(m)
    BY <2>2, <2>3 DEF Told
  <2> QED
    BY <2>4 DEF m
<1> QED
  BY <1>3, <1>4

\* What is queued again has no run to tell of, and a replay keeps the log.
LEMMA RequeuedTold ==
    ASSUME NEW job \in Job, Told(job), NEW now
    PROVE  /\ Told(Retried(job, now))
           /\ \A options \in Replays :
                 job.status = "success" => Told(Replayed(job, options, now))
<1>1. Told(Retried(job, now))
  <2> DEFINE m == Retried(job, now)
  <2>1. m.status = "pending" /\ m.replay = NULL /\ m.deadline = NULL
    BY DEF Retried, Job
  <2> HIDE DEF m
  <2>2. Told(m)
    BY <2>1 DEF Told, KeepsOldSuccess
  <2> QED
    BY <2>2 DEF m
<1>2. ASSUME NEW options \in Replays, job.status = "success"
      PROVE  Told(Replayed(job, options, now))
  <2> DEFINE m == Replayed(job, options, now)
  <2>1. /\ m.status = "pending" /\ m.deadline = NULL
        /\ m.finished = job.finished /\ m.attempts = job.attempts
    BY DEF Replayed, Job
  <2> HIDE DEF m
  <2>2. Wins(m) = Wins(job)
    BY <2>1 DEF Wins
  <2>3. Told(m)
    BY <1>2, <2>1, <2>2 DEF Told
  <2> QED
    BY <2>3 DEF m
<1> QED
  BY <1>1, <1>2

\* A claim tells the start of the attempt it adds.
LEMMA ClaimedTold ==
    ASSUME NEW job \in Job, Told(job), NEW w, NEW now
    PROVE  Told(Claimed(job, w, now))
<1> DEFINE n == Newest(job)
           attempt == [worker |-> w, outcome |-> NULL, started |-> now,
                       ended |-> NULL, replay |-> job.replay # NULL]
           log == Append(job.attempts, attempt)
           m == Claimed(job, w, now)
<1>1. job.attempts \in Seq(Attempt) /\ n \in Nat
  BY DEF Job, Newest
<1>2. /\ DOMAIN job.attempts \subseteq DOMAIN log /\ Len(log) = n + 1
      /\ \A k \in DOMAIN job.attempts : log[k] = job.attempts[k]
      /\ log[n + 1] = attempt
  BY <1>1 DEF Newest
<1>3. attempt.started = now
  OBVIOUS
<1>4. /\ m.attempts = log /\ m.status = "running" /\ m.started = now
      /\ m.replay = job.replay /\ m.finished = job.finished
  BY <1>1 DEF Claimed, Job
<1> HIDE DEF m, log, attempt
<1>5. Newest(m) = n + 1
  BY <1>2, <1>4 DEF Newest
<1>6. Wins(job) \subseteq Wins(m)
  BY <1>2, <1>4 DEF Wins
<1>7. KeepsOldSuccess(m) => Wins(m) # {}
  BY <1>4, <1>6 DEF Told, KeepsOldSuccess
<1>8. Told(m)
  BY <1>2, <1>3, <1>4, <1>5, <1>7 DEF Told
<1> QED
  BY <1>8 DEF m

LEMMA BlankTold ==
    ASSUME NEW job, Blank(job)
    PROVE  Told(job)
  BY DEF Blank, Told, KeepsOldSuccess, IsTerminal, TerminalStatuses

-----------------------------------------------------------------------------
(* Every step of the store is one operation on each row. *)

Operated(old, new, now) ==
    \/ new \in {old, ExpireIfDue(old, now), Absent("deleted")}
    \/ old.status = "none" /\ new.maxAttempt \in Nat \ {0} /\ Blank(new)
    \/ old.status \in {"pending", "running"} /\ new = Cancelled(old, now)
    \/ old.status \in {"failed", "cancelled"} /\ new = Retried(old, now)
    \/ \E options \in Replays :
          old.status = "success" /\ new = Replayed(old, options, now)
    \/ \E priority \in Priorities : new = [old EXCEPT !.priority = priority]
    \/ \E w \in Workers :
          old.status = "pending" /\ old.available <= now /\ new = Claimed(old, w, now)
    \/ \E w \in Workers, token \in DOMAIN old.attempts :
          /\ old.attempts[token].started <= now
          /\ \/ CanHold(old, w, token, now)
             \/ CanReclaim(old, w, token, now, Registered)
          /\ LET h == Hold(old, w, token, now)
             IN  new \in {Beaten(h, now), Succeeded(h, now), Failed(h, now),
                          Released(h, now)}

\* One row is written, the others stay.
LEMMA OneOperated ==
    ASSUME TypeOK, NEW j \in Jobs, NEW row, NEW now \in Nows,
           Operated(jobs[j], row, now), Update(j, row)
    PROVE  \A k \in Jobs : \E t \in Nows : Operated(jobs[k], jobs'[k], t)
<1>1. \A k \in Jobs : jobs'[k] = IF k = j THEN row ELSE jobs[k]
  BY DEF TypeOK, Update
<1>2. \A k \in Jobs : Operated(jobs[k], jobs[k], now)
  BY DEF Operated
<1> QED
  BY <1>1, <1>2

LEMMA StepsOperate ==
    TypeOK /\ [Next]_vars =>
        \A k \in Jobs : \E now \in Nows : Operated(jobs[k], jobs'[k], now)
<1> DEFINE Goal == \A k \in Jobs : \E now \in Nows : Operated(jobs[k], jobs'[k], now)
<1> SUFFICES ASSUME TypeOK, [Next]_vars
             PROVE  Goal
  OBVIOUS
<1>1. clock \in Nows
  BY StoreAssumption DEF TypeOK, Time, Nows
<1>2. CASE UNCHANGED jobs
  BY <1>1, <1>2 DEF Operated
<1>3. CASE ClaimStep
  <2>1. PICK w \in Workers, type \in Types, j \in Jobs, now \in Nows :
            ClaimJob(w, type, j, now)
    BY <1>3 DEF ClaimStep
  <2> DEFINE row == Claimed(jobs[j], w, now)
  <2>2. Update(j, row) /\ jobs[j].status = "pending" /\ jobs[j].available <= now
    BY <2>1 DEF ClaimJob, Claimable
  <2>3. Operated(jobs[j], row, now)
    BY <2>2 DEF Operated
  <2> HIDE DEF row
  <2> QED
    BY <2>2, <2>3, OneOperated
<1>4. CASE HolderStep
  <2>1. \E j \in Jobs, w \in Workers :
          \E token \in DOMAIN jobs[j].attempts :
            \E now \in HolderNows(j, token) :
                HeartbeatJob(j, w, token, now) \/ Reports(j, w, token, now)
    BY <1>4 DEF HolderStep, Reports
  <2> SUFFICES ASSUME NEW j \in Jobs, NEW w \in Workers,
                      NEW token \in DOMAIN jobs[j].attempts,
                      NEW now \in HolderNows(j, token),
                      HeartbeatJob(j, w, token, now) \/ Reports(j, w, token, now)
               PROVE  Goal
    BY <2>1
  <2> DEFINE h == Hold(jobs[j], w, token, now)
  <2>2. now \in Nows /\ jobs[j].attempts[token].started <= now
    BY DEF HolderNows
  <2>3. \/ CanHold(jobs[j], w, token, now)
        \/ CanReclaim(jobs[j], w, token, now, Registered)
    BY DEF HeartbeatJob, Reports, FinishSuccess, FinishFailure, ReleaseJob,
           HoldOrReclaim
  <2>4. PICK row \in {Beaten(h, now), Succeeded(h, now), Failed(h, now),
                      Released(h, now)} : Update(j, row)
    BY DEF HeartbeatJob, Reports, FinishSuccess, FinishFailure, ReleaseJob
  <2>5. Operated(jobs[j], row, now)
    BY <2>2, <2>3, <2>4 DEF Operated
  <2> QED
    BY <2>2, <2>4, <2>5, OneOperated
<1>5. CASE OperatorStep
  <2>1. PICK j \in Jobs, now \in Nows :
          \/ \E type \in Types, priority \in Priorities, maxRun \in MaxRuns,
                maxAttempt \in MaxAttempts, methods \in MethodCounts :
                  CreateJob(j, type, priority, maxAttempt, maxRun, methods, now)
          \/ CancelJob(j, now)
          \/ RetryJob(j, now)
          \/ \E options \in Replays : ReplayJob(j, options, now)
          \/ \E priority \in Priorities : SetPriority(j, priority)
          \/ DeleteJob(j)
    BY <1>5 DEF OperatorStep
  <2>2. ASSUME NEW type \in Types, NEW priority \in Priorities,
               NEW maxRun \in MaxRuns, NEW maxAttempt \in MaxAttempts,
               NEW methods \in MethodCounts,
               CreateJob(j, type, priority, maxAttempt, maxRun, methods, now)
        PROVE  Goal
    <3> DEFINE row == NewJob(type, priority, maxAttempt, maxRun, methods, now)
    <3>1. jobs[j].status = "none" /\ Update(j, row)
      BY <2>2 DEF CreateJob
    <3>2. Blank(row) /\ row.maxAttempt = maxAttempt
      BY NewIsBlank DEF NewJob
    <3>3. maxAttempt \in Nat \ {0}
      BY StoreAssumption
    <3> HIDE DEF row
    <3>4. Operated(jobs[j], row, now)
      BY <3>1, <3>2, <3>3 DEF Operated
    <3> QED
      BY <3>1, <3>4, OneOperated
  <2>3. ASSUME CancelJob(j, now) \/ RetryJob(j, now) \/ DeleteJob(j)
        PROVE  Goal
    <3>1. PICK row \in {Cancelled(jobs[j], now), Retried(jobs[j], now),
                        Absent("deleted")} :
              Operated(jobs[j], row, now) /\ Update(j, row)
      BY <2>3 DEF CancelJob, RetryJob, DeleteJob, Operated
    <3> QED
      BY <3>1, OneOperated
  <2>4. ASSUME NEW options \in Replays, ReplayJob(j, options, now)
        PROVE  Goal
    <3> DEFINE row == Replayed(jobs[j], options, now)
    <3>1. Operated(jobs[j], row, now) /\ Update(j, row)
      BY <2>4 DEF ReplayJob, Operated
    <3> QED
      BY <3>1, OneOperated
  <2>5. ASSUME NEW priority \in Priorities, SetPriority(j, priority)
        PROVE  Goal
    <3> DEFINE row == [jobs[j] EXCEPT !.priority = priority]
    <3>1. Operated(jobs[j], row, now) /\ Update(j, row)
      BY <2>5 DEF SetPriority, Operated
    <3> QED
      BY <3>1, OneOperated
  <2> QED
    BY <2>1, <2>2, <2>3, <2>4, <2>5
<1>6. ASSUME NEW now \in Nows, CleanupExpire(now)
      PROVE  Goal
  BY <1>6 DEF CleanupExpire, Operated
<1>7. CASE CleanupPurge
  <2>1. \A k \in Jobs : jobs'[k] \in {Absent("deleted"), jobs[k]}
    BY <1>7 DEF CleanupPurge
  <2> QED
    BY <1>1, <2>1 DEF Operated
<1> HIDE DEF Goal
<1>8. WorkerStep \/ CleanupFails \/ Tick \/ UNCHANGED vars => UNCHANGED jobs
  BY DEF WorkerStep, RegisterWorker, HeartbeatWorker, DeleteWorker, CleanupFails,
         Tick, vars
<1> QED
  BY <1>2, <1>3, <1>4, <1>5, <1>6, <1>7, <1>8 DEF Next, JobStep, CleanerStep

\* Every operation tells the start that it should.
LEMMA OperatedTold ==
    ASSUME NEW old, RowInv(old), RowKept(old), Told(old), NEW new, NEW now \in Time,
           Operated(old, new, now)
    PROVE  Told(new)
<1>1. old \in Job
  BY DEF RowInv
<1>2. CASE new \in {old, ExpireIfDue(old, now), Absent("deleted")}
  <2>1. Told(Absent("deleted"))
    BY AbsentIsBlank, BlankTold DEF TerminalStatuses
  <2> QED
    BY <1>2, <2>1, ExpiredTold
<1>3. CASE old.status = "none" /\ new.maxAttempt \in Nat \ {0} /\ Blank(new)
  BY <1>3, BlankTold
<1>4. CASE new \in {Cancelled(old, now), Retried(old, now)}
  BY <1>1, <1>4, CancelledTold, RequeuedTold
<1>5. ASSUME NEW options \in Replays, old.status = "success",
             new = Replayed(old, options, now)
      PROVE  Told(new)
  BY <1>1, <1>5, RequeuedTold
<1>6. ASSUME NEW priority \in Priorities, new = [old EXCEPT !.priority = priority]
      PROVE  Told(new)
  BY <1>1, <1>6, PrioritisedTold
<1>7. ASSUME NEW w \in Workers, new = Claimed(old, w, now)
      PROVE  Told(new)
  BY <1>1, <1>7, ClaimedTold
<1>8. ASSUME NEW w \in Workers, NEW token \in DOMAIN old.attempts,
             \/ CanHold(old, w, token, now)
             \/ CanReclaim(old, w, token, now, Registered),
             new \in {Beaten(Hold(old, w, token, now), now),
                      Succeeded(Hold(old, w, token, now), now),
                      Failed(Hold(old, w, token, now), now),
                      Released(Hold(old, w, token, now), now)}
      PROVE  Told(new)
  <2> DEFINE h == Hold(old, w, token, now)
  <2>1. token \in Nat
    BY <1>1 DEF Job
  <2>2. RowInv(h) /\ h.token # NULL /\ Told(h)
    BY <1>8, <2>1, HeldRow, HeldTold
  <2>3. h \in Job
    BY <2>2 DEF RowInv
  <2>4. "failed" \in Outcomes \cap JobErrors
    BY DEF Outcomes, JobErrors
  <2> HIDE DEF h
  <2>5. /\ Told(Beaten(h, now)) /\ Told(Succeeded(h, now))
        /\ Told(Failed(h, now)) /\ Told(Released(h, now))
    BY <2>2, <2>3, <2>4, BeatenTold, SucceededTold, FallenTold, ReleasedTold DEF Failed
  <2> QED
    BY <1>8, <2>5 DEF h
<1> QED
  BY <1>2, <1>3, <1>4, <1>5, <1>6, <1>7, <1>8 DEF Operated

\* In every reachable state every row tells the start of a run it had.
THEOREM RowsAlwaysTold == Spec => [](IInv /\ RowsKept /\ RowsDated /\ RowsTold)
<1>1. Init => RowsTold
  <2>1. Told(Absent("none"))
    BY AbsentIsBlank, BlankTold DEF TerminalStatuses
  <2> QED
    BY <2>1 DEF Init, RowsTold
<1>2. IInv /\ RowsKept /\ RowsTold /\ [Next]_vars => RowsTold'
  <2> SUFFICES ASSUME IInv, RowsKept, RowsTold, [Next]_vars, NEW j \in Jobs
               PROVE  Told(jobs'[j])
    BY DEF RowsTold
  <2>1. RowInv(jobs[j]) /\ RowKept(jobs[j]) /\ Told(jobs[j]) /\ TypeOK
    BY DEF IInv, RowsKept, RowsTold
  <2>2. PICK now \in Nows : Operated(jobs[j], jobs'[j], now)
    BY <2>1, StepsOperate
  <2> QED
    BY <2>1, <2>2, NowsAreTimes, OperatedTold
<1> QED
  BY <1>1, <1>2, RowsAlwaysDated, PTL DEF Spec

-----------------------------------------------------------------------------
(* The times of the list and of the panel. *)

\* A row that runs or has ended has the times that are shown of it.
LEMMA TimesOfARow ==
    ASSUME NEW job, RowInv(job), RowKept(job), Dated(job), Told(job)
    PROVE  /\ job \in Job
           /\ job.status = "running" =>
                 /\ job.started # NULL /\ job.token # NULL /\ job.worker # NULL
                 /\ job.started = job.attempts[Newest(job)].started
           /\ IsTerminal(job) => job.finished # NULL
           /\ job.status \in {"success", "failed"} =>
                 /\ job.started # NULL
                 /\ \E k \in DOMAIN job.attempts :
                       /\ job.attempts[k].ended = job.finished
                       /\ job.attempts[k].started = job.started
<1>1. job \in Job /\ job.attempts \in Seq(Attempt)
  BY DEF RowInv, Job
<1>2. \A k \in DOMAIN job.attempts : job.attempts[k].started # NULL
  <2> SUFFICES ASSUME NEW k \in DOMAIN job.attempts
               PROVE  job.attempts[k].started # NULL
    OBVIOUS
  <2>1. job.attempts[k] \in Attempt
    BY <1>1
  <2> QED
    BY <2>1, NullAssumption DEF Attempt, Time
<1>3. job.deadline # NULL => Newest(job) \in DOMAIN job.attempts
  <2>1. job.deadline # NULL => Newest(job) > 0
    BY DEF RowKept, Timely, DeadlineOfNewest
  <2> QED
    BY <1>1, <2>1 DEF Newest
<1>4. CASE job.status = "running"
  <2>1. job.token # NULL /\ job.worker # NULL /\ job.deadline # NULL
    BY <1>4 DEF RowInv, RowChecks, LeaseChecks
  <2>2. job.started = job.attempts[Newest(job)].started
    BY <1>4, <2>1 DEF Told
  <2> QED
    BY <1>1, <1>2, <1>3, <1>4, <2>1, <2>2 DEF IsTerminal, TerminalStatuses
<1>5. IsTerminal(job) => job.finished # NULL
  BY DEF Dated, Settled
<1>6. CASE job.status = "failed"
  <2>1. /\ job.deadline # NULL
        /\ job.attempts[Newest(job)].ended = job.finished
        /\ job.attempts[Newest(job)].started = job.started
    BY <1>6 DEF Told
  <2> QED
    BY <1>1, <1>2, <1>3, <1>5, <1>6, <2>1
<1>7. CASE job.status = "success"
  <2>1. PICK k \in Wins(job) : job.attempts[k].started = job.started
    BY <1>7 DEF Told
  <2>2. k \in DOMAIN job.attempts /\ job.attempts[k].ended = job.finished
    BY DEF Wins
  <2> QED
    BY <1>1, <1>2, <1>5, <1>7, <2>1, <2>2
<1> QED
  BY <1>1, <1>4, <1>5, <1>6, <1>7

\* An empty log has an empty timeline, and no other has.
LEMMA TimelineIsOfTheLog ==
    ASSUME NEW job \in Job
    PROVE  Timeline(job) = << >> <=> job.attempts = << >>
<1> DEFINE line == Timeline(job)
<1>1. job.attempts \in Seq(Attempt)
  BY DEF Job
<1>2. DOMAIN line = DOMAIN job.attempts
  BY DEF Timeline
<1> HIDE DEF line
<1>3. DOMAIN job.attempts = {} <=> job.attempts = << >>
  <2>1. Len(job.attempts) \in Nat /\ DOMAIN job.attempts = 1..Len(job.attempts)
    BY <1>1
  <2>2. 1..Len(job.attempts) = {} <=> Len(job.attempts) = 0
    BY <2>1
  <2>3. Len(job.attempts) = 0 <=> job.attempts = << >>
    BY <1>1, EmptySeq
  <2> QED
    BY <2>1, <2>2, <2>3
<1>4. CASE job.attempts = << >>
  <2>1. Timeline(job) = [i \in {} |-> CHOOSE k \in DOMAIN job.attempts :
            Cardinality({m \in DOMAIN job.attempts : StandsAbove(job, m, k)}) = i - 1]
    BY <1>3, <1>4 DEF Timeline
  <2> QED
    BY <1>4, <2>1
<1>5. CASE job.attempts # << >>
  <2>1. DOMAIN line # DOMAIN << >>
    BY <1>2, <1>3, <1>5
  <2> QED
    BY <1>5, <2>1 DEF line
<1> QED
  BY <1>4, <1>5

\* The list and the panel give the same time.
LEMMA SameDuration ==
    ASSUME NEW job \in Job, NEW now \in Nat,
           job.status \in {"pending", "running"} \/ IsTerminal(job),
           job.status = "running" => job.started # NULL,
           IsTerminal(job) => job.finished # NULL
    PROVE  ShownDuration(job, now) = HeroElapsed(job, now)
<1>1. CASE job.status = "pending"
  <2>1. job.available \in Nat
    BY DEF Job, Time
  <2>2. now < job.available <=> job.available > now
    BY <2>1
  <2> QED
    BY <1>1, <2>2 DEF ShownDuration, HeroElapsed
<1>2. CASE job.status = "running"
  BY <1>2 DEF ShownDuration, HeroElapsed
<1>3. CASE IsTerminal(job)
  <2>1. job.status \notin {"pending", "running"} /\ job.finished # NULL
    BY <1>3 DEF IsTerminal, TerminalStatuses
  <2>2. CASE job.started = NULL
    <3>1. ShownDuration(job, now) = NULL
      BY <2>1, <2>2 DEF ShownDuration
    <3>2. HeroElapsed(job, now) = NULL
      BY <2>1, <2>2 DEF HeroElapsed
    <3> QED
      BY <3>1, <3>2
  <2>3. CASE job.started # NULL
    <3>1. ShownDuration(job, now) = Span("finished", job.finished - job.started)
      BY <2>1, <2>3 DEF ShownDuration
    <3>2. HeroElapsed(job, now) = Span("finished", job.finished - job.started)
      BY <2>1, <2>3 DEF HeroElapsed
    <3> QED
      BY <3>1, <3>2
  <2> QED
    BY <2>2, <2>3
<1> QED
  BY <1>1, <1>2, <1>3

\* A worker is shown as soon as there was one.
LEMMA WorkerIsOfTheLog ==
    ASSUME NEW job, RowInv(job)
    PROVE  WorkerOf(job) = NULL <=> job.attempts = << >>
<1>1. job \in Job /\ job.attempts \in Seq(Attempt)
  BY DEF RowInv, Job
<1>2. CASE job.worker # NULL
  <2>1. job.token \in DOMAIN job.attempts
    BY <1>2 DEF RowInv, RowChecks, LeaseChecks, LogMatchesLease
  <2>2. job.attempts # << >>
    BY <2>1
  <2> QED
    BY <1>2, <2>2 DEF WorkerOf
<1>3. CASE job.worker = NULL /\ job.attempts # << >>
  <2>1. Newest(job) \in DOMAIN job.attempts
    BY <1>1, <1>3 DEF Newest
  <2>2. job.attempts[Newest(job)] \in Attempt
    BY <1>1, <2>1
  <2>3. job.attempts[Newest(job)].worker # NULL
    BY <2>2, NullAssumption DEF Attempt
  <2> QED
    BY <1>3, <2>3 DEF WorkerOf
<1>4. CASE job.worker = NULL /\ job.attempts = << >>
  BY <1>4 DEF WorkerOf
<1> QED
  BY <1>2, <1>3, <1>4

\* What the list and the panel say of the time a job has run is true, and the
\* same, however often it was lost, reclaimed, replayed or restored
\* (job-cells.tsx jobDuration, wording.ts heroElapsed, store.py).
THEOREM RunTimesAlwaysTrue == Spec => []RunTimesAreTrue
<1>1. IInv /\ RowsKept /\ RowsDated /\ RowsTold => RunTimesAreTrue
  <2> SUFFICES ASSUME IInv, RowsKept, RowsDated, RowsTold, NEW j \in Shown
               PROVE  LET job == jobs[j]
                          shown == ShownDuration(job, clock)
                          row == TableRow(job, clock)
                          card == Card(job, clock)
                          panel == Panel(job, clock)
                      IN  /\ job.status = "running" =>
                                shown.ms = clock - job.attempts[Newest(job)].started
                          /\ job.status \in {"success", "failed"} =>
                                \E k \in DOMAIN job.attempts :
                                    /\ job.attempts[k].ended = job.finished
                                    /\ shown.ms = job.attempts[k].ended
                                                     - job.attempts[k].started
                          /\ row.duration = panel.hero.elapsed
                          /\ row.error = panel.hero.error
                          /\ card.attempts \in {panel.aside, NULL}
                          /\ card.duration # NULL =>
                                card.duration.ms = panel.hero.elapsed.ms
                          /\ row.worker = NULL <=> panel.items = << >>
                          /\ panel.result # NULL => panel.facts.finished
    BY DEF RunTimesAreTrue, DurationIsThatOfARun, RowAgreesWithPanel
  <2> DEFINE job == jobs[j]
             shown == ShownDuration(job, clock)
  <2>1. /\ RowInv(job) /\ RowKept(job) /\ Dated(job) /\ Told(job)
        /\ clock \in Nat /\ Exists(j)
    BY DEF IInv, TypeOK, RowsKept, RowsDated, RowsTold, Shown, Time
  <2>2. job.status \in {"pending", "running"} \/ IsTerminal(job)
    BY <2>1 DEF Exists, RowInv, Job, Statuses, IsTerminal, TerminalStatuses
  <2> HIDE DEF job
  <2>3. /\ job \in Job
        /\ job.status = "running" =>
              /\ job.started # NULL
              /\ job.started = job.attempts[Newest(job)].started
        /\ IsTerminal(job) => job.finished # NULL
        /\ job.status \in {"success", "failed"} =>
              /\ job.started # NULL
              /\ \E k \in DOMAIN job.attempts :
                    /\ job.attempts[k].ended = job.finished
                    /\ job.attempts[k].started = job.started
    BY <2>1, TimesOfARow
  <2>4. job.status = "running" => shown.ms = clock - job.attempts[Newest(job)].started
    BY <2>3 DEF ShownDuration, Span
  <2>5. job.status \in {"success", "failed"} =>
            shown.ms = job.finished - job.started
    BY <2>3 DEF ShownDuration, Span
  <2>6. shown = HeroElapsed(job, clock)
    BY <2>1, <2>2, <2>3, SameDuration
  <2> HIDE DEF shown
  <2>7. TableRow(job, clock).duration = Panel(job, clock).hero.elapsed
    BY <2>6 DEF TableRow, Panel, Hero, shown
  <2>8. TableRow(job, clock).error = Panel(job, clock).hero.error
    BY DEF TableRow, ErrorLine, Panel, Hero, RetryNote
  <2>9. Card(job, clock).attempts \in {Panel(job, clock).aside, NULL}
    BY DEF Card, TableRow, Panel
  <2>10. Card(job, clock).duration = TableRow(job, clock).duration
    BY DEF Card, TableRow
  <2>11. TableRow(job, clock).worker = NULL <=> Panel(job, clock).items = << >>
    BY <2>1, <2>3, WorkerIsOfTheLog, TimelineIsOfTheLog DEF TableRow, Panel
  <2>12. Panel(job, clock).result # NULL => Panel(job, clock).facts.finished
    BY <2>3 DEF Panel, Facts, IsTerminal, TerminalStatuses
  <2> QED
    BY <2>3, <2>4, <2>5, <2>7, <2>8, <2>9, <2>10, <2>11, <2>12 DEF job, shown
<1> QED
  BY <1>1, RowsAlwaysTold, PTL

-----------------------------------------------------------------------------
(* The attempts that a job has left. *)

\* The row shows which attempts are those of before the requeue.
Apart(job) == StartsApart(job, RequestLag)

\* A replay has one run.
Allowance(job) == IF job.replay = NULL THEN job.maxAttempt ELSE 1

\* What is queued or runs has an attempt left, and what failed used no more than
\* it had; what was just queued again used none.
Budgeted(job) ==
    /\ job.maxAttempt > 0
    /\ job.replay # NULL => job.requeued # NULL
    /\ Apart(job) =>
          /\ job.status \in {"pending", "running"} =>
                UsedAttempts(job) < Allowance(job)
          /\ job.status = "failed" => UsedAttempts(job) <= Allowance(job)
          /\ job.status = "pending" /\ job.deadline = NULL => UsedAttempts(job) = 0

BegunBy(job, t) == \A k \in DOMAIN job.attempts : job.attempts[k].started <= t

RowsBudgeted == \A j \in Jobs : Budgeted(jobs[j]) /\ BegunBy(jobs[j], clock)

\* The same attempts, counted from the same requeue.
SameRuns(old, new) ==
    /\ SameFrame(new, old)
    /\ DOMAIN new.attempts = DOMAIN old.attempts
    /\ \A k \in DOMAIN old.attempts :
          new.attempts[k].started = old.attempts[k].started

LEMMA KeptLogIsSameRuns ==
    ASSUME NEW old, NEW new, SameFrame(new, old), LogKept(old, new)
    PROVE  SameRuns(old, new)
  BY DEF SameRuns, LogKept

LEMMA StillBudgeted ==
    ASSUME NEW old, NEW new, Budgeted(old), SameRuns(old, new),
           Apart(old) =>
              /\ new.status \in {"pending", "running"} =>
                    UsedAttempts(new) < Allowance(old)
              /\ new.status = "failed" => UsedAttempts(new) <= Allowance(old)
              /\ new.status = "pending" /\ old.deadline = NULL =>
                    UsedAttempts(new) = 0
    PROVE  Budgeted(new)
<1>1. /\ Allowance(new) = Allowance(old) /\ new.deadline = old.deadline
      /\ new.maxAttempt = old.maxAttempt /\ new.replay = old.replay
      /\ new.requeued = old.requeued
  BY DEF Allowance, SameRuns, SameFrame
<1>2. Apart(new) => Apart(old)
  BY <1>1 DEF Apart, StartsApart, SameRuns
<1> QED
  BY <1>1, <1>2 DEF Budgeted

LEMMA SettledBudgeted ==
    ASSUME NEW old, NEW new, Budgeted(old), SameRuns(old, new),
           new.status \in {"success", "cancelled"}
    PROVE  Budgeted(new)
  BY StillBudgeted

\* A run that does not succeed uses one attempt.
LEMMA FallenBudgeted ==
    ASSUME NEW job, RowInv(job), Budgeted(job), job.token # NULL,
           NEW outcome \in Outcomes \cap JobErrors, NEW now \in Time
    PROVE  LET m == RetryOrFail(EndAttempt(job, outcome, now), outcome, now)
           IN  Budgeted(m) /\ SameRuns(job, m)
<1> DEFINE e == EndAttempt(job, outcome, now)
           m == RetryOrFail(e, outcome, now)
<1>1. /\ e \in Job /\ job \in Job /\ SameFrame(e, job) /\ LogKept(job, e)
      /\ job.status = "running" /\ job.deadline # NULL
  BY EndedFields, EndedLog DEF RowInv, RowChecks, LeaseChecks
<1>2. UsedAttempts(e) <= UsedAttempts(job) + 1
  BY EndedSpent
<1>3. UsedAttempts(e) \in Nat /\ UsedAttempts(job) \in Nat
  BY <1>1, SpentIsFinite
<1>4. job.maxAttempt \in Nat
  BY <1>1 DEF Job
<1> HIDE DEF e
<1>5. /\ m.attempts = e.attempts /\ SameFrame(m, e)
      /\ \/ m.status = "success"
         \/ m.status = "failed"
         \/ /\ m.status = "pending" /\ e.replay = NULL
            /\ UsedAttempts(e) < e.maxAttempt
  BY <1>1, RetryOrFailFields
<1> HIDE DEF m
<1>6. SameRuns(job, m)
  BY <1>1, <1>5 DEF SameRuns, SameFrame, LogKept
<1>7. UsedAttempts(m) = UsedAttempts(e)
  BY <1>5, SameSpent DEF SameFrame
<1>8. Apart(job) => UsedAttempts(m) <= Allowance(job)
  BY <1>1, <1>2, <1>3, <1>4, <1>7 DEF Budgeted, Allowance
<1>9. m.status = "pending" => UsedAttempts(m) < Allowance(job)
  BY <1>1, <1>5, <1>7 DEF SameFrame, Allowance
<1>10. Budgeted(m)
  BY <1>1, <1>5, <1>6, <1>8, <1>9, StillBudgeted
<1> QED
  BY <1>6, <1>10 DEF m, e

LEMMA ExpiredBudgeted ==
    ASSUME NEW job, RowInv(job), Budgeted(job), NEW now \in Time
    PROVE  Budgeted(ExpireIfDue(job, now)) /\ SameRuns(job, ExpireIfDue(job, now))
<1>1. /\ "lease_expired" \in Outcomes \cap JobErrors
      /\ "deadline_exceeded" \in Outcomes \cap JobErrors
  BY DEF Outcomes, JobErrors
<1>2. CASE PastDeadline(job, now)
  <2>1. job.token # NULL /\ ~LeaseExpired(job, now)
    BY <1>2 DEF PastDeadline, LeaseExpired
  <2>2. ExpireIfDue(job, now) = Revoke(job, "deadline_exceeded", now)
    BY <1>2, <2>1 DEF ExpireIfDue
  <2> QED
    BY <1>1, <2>1, <2>2, FallenBudgeted DEF Revoke
<1>3. CASE LeaseExpired(job, now)
  <2>1. job.token # NULL /\ ~PastDeadline(job, now)
    BY <1>3 DEF LeaseExpired
  <2>2. ExpireIfDue(job, now) = Revoke(job, "lease_expired", now)
    BY <1>3, <2>1 DEF ExpireIfDue
  <2> QED
    BY <1>1, <2>1, <2>2, FallenBudgeted DEF Revoke
<1>4. CASE ~PastDeadline(job, now) /\ ~LeaseExpired(job, now)
  <2>1. ExpireIfDue(job, now) = job
    BY <1>4 DEF ExpireIfDue
  <2> QED
    BY <2>1 DEF SameRuns, SameFrame
<1> QED
  BY <1>2, <1>3, <1>4

LEMMA ReclaimedRuns ==
    ASSUME NEW job, RowInv(job), NEW w \in Workers, NEW token, NEW now \in Time,
           NEW registered, Reclaimable(job, w, token, now, registered)
    PROVE  SameRuns(job, Reclaim(job, w, token, now))
<1> DEFINE n == Newest(job)
           open == Closed(job.attempts[n], NULL, NULL)
           m == Reclaim(job, w, token, now)
<1>1. /\ n \in DOMAIN job.attempts /\ job.attempts[n] \in Attempt
      /\ job.attempts[n].outcome = "lease_expired"
      /\ SameFrame(m, job)
      /\ DOMAIN m.attempts = DOMAIN job.attempts
      /\ \A k \in DOMAIN job.attempts :
            m.attempts[k] = IF k = n THEN open ELSE job.attempts[k]
  BY ReclaimedFields
<1>2. open.started = job.attempts[n].started
  <2> HIDE DEF n
  <2> QED
    BY <1>1 DEF Closed, Attempt
<1> HIDE DEF m, open, n
<1>3. SameRuns(job, m)
  BY <1>1, <1>2 DEF SameRuns
<1> QED
  BY <1>3 DEF m

\* What _hold returns: a reclaim gives back the attempt that the expiry used.
LEMMA HeldBudgeted ==
    ASSUME NEW job, RowInv(job), RowKept(job), Budgeted(job), NEW w \in Workers,
           NEW token \in DOMAIN job.attempts, NEW now \in Time,
           now >= job.attempts[token].started, NEW registered,
           \/ CanHold(job, w, token, now)
           \/ CanReclaim(job, w, token, now, registered)
    PROVE  LET h == Hold(job, w, token, now)
           IN  Budgeted(h) /\ SameRuns(job, h)
<1> DEFINE current == ExpireIfDue(job, now)
           h == Hold(job, w, token, now)
<1>1. RowInv(current) /\ RowKept(current) /\ Budgeted(current)
      /\ SameRuns(job, current)
  BY ExpiredRow, ExpiredKept, ExpiredBudgeted
<1>2. CASE Holds(current, w, token)
  <2>1. h = current
    BY <1>2 DEF Hold
  <2> QED
    BY <1>1, <2>1
<1>3. CASE ~Holds(current, w, token)
  <2>1. Reclaimable(current, w, token, now, registered)
    BY <1>3 DEF CanHold, CanReclaim
  <2>2. h = Reclaim(current, w, token, now)
    BY <1>3 DEF Hold
  <2> HIDE DEF current, h
  <2>3. h.status = "running" /\ SameRuns(current, h)
    BY <1>1, <2>1, <2>2, ReclaimedFields, ReclaimedRuns
  <2>4. UsedAttempts(h) = UsedAttempts(current) - 1
    BY <1>1, <2>1, <2>2, ReclaimedSpent
  <2>5. /\ current.status \in {"pending", "failed"} /\ current.deadline # NULL
        /\ UsedAttempts(current) \in Nat /\ Allowance(current) \in Nat
    BY <1>1, <2>1, SpentIsFinite DEF Reclaimable, RowInv, Job, Allowance
  <2>6. Apart(current) => UsedAttempts(h) < Allowance(current)
    BY <1>1, <2>4, <2>5 DEF Budgeted
  <2>7. Budgeted(h)
    BY <1>1, <2>3, <2>6, StillBudgeted
  <2>8. SameRuns(job, h)
    BY <1>1, <2>3 DEF SameRuns, SameFrame
  <2> QED
    BY <2>7, <2>8 DEF h
<1> QED
  BY <1>2, <1>3

\* A worker's own end, a heartbeat, a cancel and a new priority.
LEMMA ReportedBudgeted ==
    ASSUME NEW job, RowInv(job), RowKept(job), Budgeted(job), job.token # NULL,
           NEW now \in Time, now < job.deadline,
           now >= job.attempts[Newest(job)].started
    PROVE  \A m \in {Beaten(job, now), Succeeded(job, now), Failed(job, now),
                     Released(job, now)} : Budgeted(m) /\ SameRuns(job, m)
<1>1. job \in Job /\ job.status = "running" /\ job.deadline # NULL
  BY DEF RowInv, RowChecks, LeaseChecks
<1>2. Budgeted(Beaten(job, now)) /\ SameRuns(job, Beaten(job, now))
  <2> DEFINE m == Beaten(job, now)
  <2>1. /\ m.status = job.status /\ m.attempts = job.attempts
        /\ SameFrame(m, job)
    BY <1>1 DEF Beaten, Job, SameFrame
  <2> HIDE DEF m
  <2>2. SameRuns(job, m)
    BY <2>1 DEF SameRuns
  <2>3. UsedAttempts(m) = UsedAttempts(job)
    BY <2>1, SameSpent DEF SameFrame
  <2>4. Budgeted(m)
    BY <1>1, <2>1, <2>2, <2>3, StillBudgeted DEF Budgeted
  <2> QED
    BY <2>2, <2>4 DEF m
<1>3. Budgeted(Succeeded(job, now)) /\ SameRuns(job, Succeeded(job, now))
  <2> DEFINE m == Succeeded(job, now)
  <2>1. m.status = "success" /\ SameFrame(m, job)
    BY SucceededFields
  <2>2. LogKept(job, m)
    BY SucceededFollows
  <2> HIDE DEF m
  <2>3. SameRuns(job, m)
    BY <2>1, <2>2, KeptLogIsSameRuns
  <2>4. Budgeted(m)
    BY <2>1, <2>3, SettledBudgeted
  <2> QED
    BY <2>3, <2>4 DEF m
<1>4. Budgeted(Failed(job, now)) /\ SameRuns(job, Failed(job, now))
  <2>1. "failed" \in Outcomes \cap JobErrors
    BY DEF Outcomes, JobErrors
  <2> QED
    BY <2>1, FallenBudgeted DEF Failed
<1>5. Budgeted(Released(job, now)) /\ SameRuns(job, Released(job, now))
  <2> DEFINE e == EndAttempt(job, "released", now)
             idle == Unleased(e)
             m == Released(job, now)
  <2>1. "released" \in Outcomes
    BY DEF Outcomes
  <2>2. e \in Job /\ SameFrame(e, job)
    BY <2>1, EndedFields
  <2>3. UsedAttempts(e) = UsedAttempts(job)
    BY <2>1, EndedSpent
  <2>4. m = [idle EXCEPT !.status = "pending", !.available = now]
    BY DEF Released
  <2>5. LogKept(job, m)
    BY ReleasedFollows
  <2> HIDE DEF e, m
  <2>6. idle \in Job /\ idle.attempts = e.attempts /\ SameFrame(idle, e)
    BY <2>2, UnleasedFields
  <2> HIDE DEF idle
  <2>7. m.status = "pending" /\ m.attempts = idle.attempts /\ SameFrame(m, idle)
    BY <2>4, <2>6 DEF Job, SameFrame
  <2>8. m.attempts = e.attempts /\ SameFrame(m, e) /\ SameFrame(m, job)
    BY <2>2, <2>6, <2>7 DEF SameFrame
  <2>9. UsedAttempts(m) = UsedAttempts(job)
    BY <2>3, <2>8, SameSpent DEF SameFrame
  <2>10. SameRuns(job, m)
    BY <2>5, <2>8, KeptLogIsSameRuns
  <2>11. Budgeted(m)
    BY <1>1, <2>7, <2>9, <2>10, StillBudgeted DEF Budgeted
  <2> QED
    BY <2>10, <2>11 DEF m
<1> QED
  BY <1>2, <1>3, <1>4, <1>5

LEMMA CancelledBudgeted ==
    ASSUME NEW job, RowInv(job), RowKept(job), Budgeted(job),
           job.status \in {"pending", "running"}, NEW now \in Time
    PROVE  Budgeted(Cancelled(job, now)) /\ SameRuns(job, Cancelled(job, now))
<1> DEFINE closed == IF job.token = NULL THEN job
                     ELSE EndAttempt(job, "cancelled", now)
           idle == Unleased(closed)
           m == Cancelled(job, now)
<1>1. "cancelled" \in Outcomes
  BY DEF Outcomes
<1>2. closed \in Job /\ SameFrame(closed, job) /\ LogKept(job, closed)
  <2>1. CASE job.token = NULL
    <3>1. closed = job
      BY <2>1
    <3> QED
      BY <3>1, SameLog DEF RowInv, SameFrame
  <2>2. CASE job.token # NULL
    <3>1. closed = EndAttempt(job, "cancelled", now)
      BY <2>2
    <3> QED
      BY <1>1, <2>2, <3>1, EndedFields, EndedLog
  <2> QED
    BY <2>1, <2>2
<1>3. m = IF KeepsOldSuccess(job) THEN RestoreSuccess(closed)
          ELSE [idle EXCEPT !.status = "cancelled", !.result = NULL,
                            !.finished = now]
  BY DEF Cancelled
<1> HIDE DEF closed, m
<1>4. idle \in Job /\ idle.attempts = closed.attempts /\ SameFrame(idle, closed)
  BY <1>2, UnleasedFields
<1> HIDE DEF idle
<1>5. /\ m.status \in {"success", "cancelled"}
      /\ m.attempts = closed.attempts /\ SameFrame(m, closed)
  <2>1. CASE KeepsOldSuccess(job)
    BY <1>2, <1>3, <2>1, RestoredFields
  <2>2. CASE ~KeepsOldSuccess(job)
    <3>1. m = [idle EXCEPT !.status = "cancelled", !.result = NULL,
                           !.finished = now]
      BY <1>3, <2>2
    <3>2. m.status = "cancelled" /\ m.attempts = idle.attempts /\ SameFrame(m, idle)
      BY <1>4, <3>1 DEF Job, SameFrame
    <3> QED
      BY <1>4, <3>2 DEF SameFrame
  <2> QED
    BY <2>1, <2>2
<1>6. SameRuns(job, m)
  BY <1>2, <1>5 DEF SameRuns, SameFrame, LogKept
<1>7. Budgeted(m)
  BY <1>5, <1>6, SettledBudgeted
<1> QED
  BY <1>6, <1>7 DEF m

LEMMA PrioritisedBudgeted ==
    ASSUME NEW job \in Job, Budgeted(job), NEW priority
    PROVE  LET m == [job EXCEPT !.priority = priority]
           IN  Budgeted(m) /\ SameRuns(job, m)
<1> DEFINE m == [job EXCEPT !.priority = priority]
<1>1. m.status = job.status /\ m.attempts = job.attempts /\ SameFrame(m, job)
  BY DEF Job, SameFrame
<1> HIDE DEF m
<1>2. SameRuns(job, m)
  BY <1>1 DEF SameRuns
<1>3. UsedAttempts(m) = UsedAttempts(job)
  BY <1>1, SameSpent DEF SameFrame
<1>4. Budgeted(m)
  BY <1>1, <1>2, <1>3, StillBudgeted DEF Budgeted
<1> QED
  BY <1>2, <1>4 DEF m

\* A row that is queued again counts none of its runs, unless one began between
\* the reading of the clock and the requeue.
LEMMA RequeuedBudgeted ==
    ASSUME NEW job \in Job, job.maxAttempt > 0, NEW now \in Time, NEW t \in Time,
           t <= now + RequestLag, BegunBy(job, t),
           NEW m \in Job, m.attempts = job.attempts,
           m.maxAttempt = job.maxAttempt, m.requeued = now, m.status = "pending"
    PROVE  Budgeted(m)
<1>1. /\ now # NULL /\ now \in Nat /\ t \in Nat /\ m.maxAttempt \in Nat
      /\ RequestLag \in Nat
  BY NullAssumption, StoreAssumption DEF Time, Job
<1>2. ASSUME Apart(m)
      PROVE  UsedAttempts(m) = 0
  <2>1. ASSUME NEW k \in DOMAIN m.attempts
        PROVE  ~(m.attempts[k].started >= m.requeued)
    <3>1. m.attempts[k] \in Attempt
      BY DEF Job
    <3>2. m.attempts[k].started \in Nat /\ m.attempts[k].started <= t
      BY <3>1 DEF BegunBy, Attempt, Time
    <3>3. m.attempts[k].started \notin now..(now + RequestLag)
      BY <1>1, <1>2 DEF Apart, StartsApart
    <3> QED
      BY <1>1, <3>2, <3>3
  <2>2. Spent(m) = {}
    BY <1>1, <2>1 DEF Spent
  <2> QED
    BY <2>2, SpentIsFinite, FS_EmptySet
<1>3. Allowance(m) \in Nat /\ Allowance(m) > 0
  BY <1>1 DEF Allowance
<1> QED
  BY <1>1, <1>2, <1>3 DEF Budgeted

\* A claim moves a row from the ones that are queued to the ones that run.
LEMMA ClaimedBudgeted ==
    ASSUME NEW job \in Job, Budgeted(job), job.status = "pending", NEW w,
           NEW now \in Time
    PROVE  /\ Budgeted(Claimed(job, w, now))
           /\ \A t \in Time : BegunBy(job, t) /\ now <= t =>
                 BegunBy(Claimed(job, w, now), t)
<1> DEFINE attempt == [worker |-> w, outcome |-> NULL, started |-> now,
                       ended |-> NULL, replay |-> job.replay # NULL]
           log == Append(job.attempts, attempt)
           n == Newest(job)
           m == Claimed(job, w, now)
<1>1. job.attempts \in Seq(Attempt) /\ n \in Nat /\ DOMAIN job.attempts = 1..n
  BY DEF Job, Newest
<1>2. /\ DOMAIN log = 1..(n + 1) /\ log[n + 1] = attempt
      /\ \A k \in 1..n : log[k] = job.attempts[k]
  BY <1>1 DEF Newest
<1>3. attempt.started = now
  OBVIOUS
<1>4. /\ m.attempts = log /\ m.requeued = job.requeued /\ m.replay = job.replay
      /\ m.status = "running" /\ m.maxAttempt = job.maxAttempt
  BY <1>1 DEF Claimed, Job
<1>5. UsedAttempts(m) = UsedAttempts(job)
  BY ClaimedSpent
<1>6. \A k : k \in 1..(n + 1) <=> k \in 1..n \/ k = n + 1
  BY <1>1
<1> HIDE DEF m, log, attempt, n
<1>7. Apart(m) => Apart(job)
  BY <1>1, <1>2, <1>4, <1>6 DEF Apart, StartsApart
<1>8. Allowance(m) = Allowance(job)
  BY <1>4 DEF Allowance
<1>9. Budgeted(m)
  BY <1>4, <1>5, <1>7, <1>8 DEF Budgeted
<1>10. ASSUME NEW t \in Time, BegunBy(job, t), now <= t
       PROVE  BegunBy(m, t)
  BY <1>1, <1>2, <1>3, <1>4, <1>6, <1>10 DEF BegunBy
<1> QED
  BY <1>9, <1>10 DEF m

\* A row without a past has all its attempts.
LEMMA BlankBudgeted ==
    ASSUME NEW job, Blank(job), job.maxAttempt \in Nat \ {0}
    PROVE  Budgeted(job) /\ \A t : BegunBy(job, t)
<1>1. DOMAIN job.attempts = {} /\ job.replay = NULL
  BY DEF Blank
<1>2. UsedAttempts(job) = Cardinality({})
  <2>1. {k \in DOMAIN job.attempts :
            /\ job.attempts[k].outcome \notin {NULL, "released"}
            /\ job.requeued = NULL \/ job.attempts[k].started >= job.requeued} = {}
    BY <1>1
  <2> QED
    BY <2>1 DEF UsedAttempts
<1>3. UsedAttempts(job) = 0
  BY <1>2, FS_EmptySet
<1> QED
  BY <1>1, <1>3 DEF Budgeted, Allowance, BegunBy

LEMMA AbsentBudgeted ==
    ASSUME NEW status, status \notin TerminalStatuses
    PROVE  Budgeted(Absent(status)) /\ \A t : BegunBy(Absent(status), t)
<1>1. Absent(status).maxAttempt = 1
  BY DEF Absent, NewJob
<1> QED
  BY <1>1, AbsentIsBlank, BlankBudgeted

LEMMA SameRunsBegun ==
    ASSUME NEW old, NEW new, SameRuns(old, new), NEW t, BegunBy(old, t)
    PROVE  BegunBy(new, t)
  BY DEF SameRuns, BegunBy

\* Every operation keeps the budget, whatever it waited for the store.
LEMMA OperatedBudgeted ==
    ASSUME NEW old, RowInv(old), RowKept(old), Budgeted(old), NEW new \in Job,
           NEW now \in Time, NEW t \in Time, now <= t, t <= now + RequestLag,
           BegunBy(old, t), Operated(old, new, now)
    PROVE  Budgeted(new) /\ BegunBy(new, t)
<1>1. old \in Job /\ old.maxAttempt > 0
  BY DEF RowInv, Budgeted
<1>2. CASE new \in {old, ExpireIfDue(old, now), Absent("deleted")}
  <2>1. Budgeted(Absent("deleted")) /\ BegunBy(Absent("deleted"), t)
    BY AbsentBudgeted DEF TerminalStatuses
  <2> QED
    BY <1>2, <2>1, ExpiredBudgeted, SameRunsBegun
<1>3. CASE old.status = "none" /\ new.maxAttempt \in Nat \ {0} /\ Blank(new)
  BY <1>3, BlankBudgeted
<1>4. CASE old.status \in {"pending", "running"} /\ new = Cancelled(old, now)
  BY <1>4, CancelledBudgeted, SameRunsBegun
<1>5. CASE new = Retried(old, now)
  <2>1. /\ new.attempts = old.attempts /\ new.maxAttempt = old.maxAttempt
        /\ new.requeued = now /\ new.status = "pending"
    BY <1>1, <1>5 DEF Retried, Job
  <2> QED
    BY <1>1, <2>1, RequeuedBudgeted DEF BegunBy
<1>6. ASSUME NEW options \in Replays, new = Replayed(old, options, now)
      PROVE  Budgeted(new) /\ BegunBy(new, t)
  <2>1. /\ new.attempts = old.attempts /\ new.maxAttempt = old.maxAttempt
        /\ new.requeued = now /\ new.status = "pending"
    BY <1>1, <1>6 DEF Replayed, Job
  <2> QED
    BY <1>1, <2>1, RequeuedBudgeted DEF BegunBy
<1>7. ASSUME NEW priority \in Priorities, new = [old EXCEPT !.priority = priority]
      PROVE  Budgeted(new) /\ BegunBy(new, t)
  BY <1>1, <1>7, PrioritisedBudgeted, SameRunsBegun
<1>8. ASSUME NEW w \in Workers, old.status = "pending", new = Claimed(old, w, now)
      PROVE  Budgeted(new) /\ BegunBy(new, t)
  BY <1>1, <1>8, ClaimedBudgeted
<1>9. ASSUME NEW w \in Workers, NEW token \in DOMAIN old.attempts,
             old.attempts[token].started <= now,
             \/ CanHold(old, w, token, now)
             \/ CanReclaim(old, w, token, now, Registered),
             new \in {Beaten(Hold(old, w, token, now), now),
                      Succeeded(Hold(old, w, token, now), now),
                      Failed(Hold(old, w, token, now), now),
                      Released(Hold(old, w, token, now), now)}
      PROVE  Budgeted(new) /\ BegunBy(new, t)
  <2> DEFINE h == Hold(old, w, token, now)
  <2>1. now >= old.attempts[token].started
    <3>1. old.attempts[token] \in Attempt
      BY <1>1 DEF Job
    <3> QED
      BY <1>9, <3>1 DEF Attempt, Time
  <2>2. /\ RowInv(h) /\ RowKept(h) /\ h.token # NULL /\ now < h.deadline
        /\ now >= h.attempts[Newest(h)].started
    BY <1>9, <2>1, HeldKept
  <2>3. Budgeted(h) /\ SameRuns(old, h)
    BY <1>9, <2>1, HeldBudgeted
  <2> HIDE DEF h
  <2>4. Budgeted(new) /\ SameRuns(h, new)
    BY <1>9, <2>2, <2>3, ReportedBudgeted DEF h
  <2> QED
    BY <2>3, <2>4, SameRunsBegun
<1> QED
  BY <1>2, <1>3, <1>4, <1>5, <1>6, <1>7, <1>8, <1>9 DEF Operated

\* Every row has the attempts that the operator or the provider gave it.
THEOREM RowsAlwaysBudgeted ==
    Spec => [](IInv /\ RowsKept /\ RowsDated /\ RowsTold /\ RowsBudgeted)
<1>1. Init => RowsBudgeted
  BY AbsentBudgeted DEF Init, RowsBudgeted, TerminalStatuses
<1>2. IInv /\ IInv' /\ RowsKept /\ RowsBudgeted /\ [Next]_vars => RowsBudgeted'
  <2> SUFFICES ASSUME IInv, IInv', RowsKept, RowsBudgeted, [Next]_vars,
                      NEW j \in Jobs
               PROVE  Budgeted(jobs'[j]) /\ BegunBy(jobs'[j], clock')
    BY DEF RowsBudgeted
  <2>1. /\ RowInv(jobs[j]) /\ RowKept(jobs[j]) /\ Budgeted(jobs[j])
        /\ BegunBy(jobs[j], clock) /\ TypeOK /\ clock \in Nat
        /\ jobs'[j] \in Job
    BY DEF IInv, RowsKept, RowsBudgeted, TypeOK, Time
  <2>2. PICK now \in Nows : Operated(jobs[j], jobs'[j], now)
    BY <2>1, StepsOperate
  <2>3. now \in Time /\ clock \in Time /\ now <= clock /\ clock <= now + RequestLag
    BY <2>1 DEF Nows, Time
  <2>4. Budgeted(jobs'[j]) /\ BegunBy(jobs'[j], clock)
    BY <2>1, <2>2, <2>3, OperatedBudgeted
  <2>5. clock' \in {clock, clock + 1}
    <3>1. CASE Tick
      BY <3>1 DEF Tick
    <3>2. CASE ~Tick
      BY <3>2, ClocksApart DEF Next
    <3> QED
      BY <3>1, <3>2
  <2>6. BegunBy(jobs'[j], clock')
    <3> SUFFICES ASSUME NEW k \in DOMAIN jobs'[j].attempts
                 PROVE  jobs'[j].attempts[k].started <= clock'
      BY DEF BegunBy
    <3>1. jobs'[j].attempts[k] \in Attempt
      BY <2>1 DEF Job
    <3> QED
      BY <2>1, <2>4, <2>5, <3>1 DEF BegunBy, Attempt, Time
  <2> QED
    BY <2>4, <2>6
<1> QED
  BY <1>1, <1>2, RowsAlwaysTold, PTL DEF Spec

-----------------------------------------------------------------------------
(* What the panel says of attempts and leases. *)

\* "Requeued" stands below the attempts that started after it.
LEMMA AboveIsAfter ==
    ASSUME NEW job \in Job
    PROVE  AboveMarker(job) =
              {k \in DOMAIN job.attempts :
                  job.requeued = NULL \/ job.attempts[k].started > job.requeued}
<1> DEFINE start(k) == job.attempts[k].started
<1>1. \A k \in DOMAIN job.attempts : k \in Int /\ start(k) \in Nat
  <2> SUFFICES ASSUME NEW k \in DOMAIN job.attempts
               PROVE  k \in Int /\ start(k) \in Nat
    OBVIOUS
  <2>1. job.attempts[k] \in Attempt /\ k \in Int
    BY DEF Job
  <2> QED
    BY <2>1 DEF Attempt, Time
<1>2. job.requeued # NULL => job.requeued \in Nat
  BY DEF Job, Time
<1>3. ASSUME NEW k \in DOMAIN job.attempts, job.requeued # NULL
      PROVE  start(k) > job.requeued <=>
                \A m \in DOMAIN job.attempts :
                    start(m) <= job.requeued => StandsAbove(job, k, m)
  <2>1. ASSUME start(k) > job.requeued,
               NEW m \in DOMAIN job.attempts, start(m) <= job.requeued
        PROVE  StandsAbove(job, k, m)
    <3>1. start(k) > start(m)
      BY <1>1, <1>2, <1>3, <2>1
    <3> QED
      BY <3>1 DEF StandsAbove
  <2>2. ASSUME ~(start(k) > job.requeued)
        PROVE  start(k) <= job.requeued /\ ~StandsAbove(job, k, k)
    BY <1>1, <1>2, <1>3, <2>2 DEF StandsAbove
  <2> QED
    BY <2>1, <2>2
<1> QED
  BY <1>3 DEF AboveMarker

\* The attempts that the store counts and the one under way are those above
\* "Requeued" that were not released.
LEMMA MarkerOfARow ==
    ASSUME NEW job, RowInv(job), RowKept(job), StartsApart(job, 0)
    PROVE  AttemptsShown(job) =
              Cardinality({k \in AboveMarker(job) :
                               job.attempts[k].outcome # "released"})
<1> DEFINE n == Newest(job)
           above == {k \in AboveMarker(job) : job.attempts[k].outcome # "released"}
<1>1. job \in Job
  BY DEF RowInv
<1>2. \A k \in DOMAIN job.attempts :
         job.requeued # NULL =>
            (job.attempts[k].started > job.requeued <=>
                job.attempts[k].started >= job.requeued)
  <2> SUFFICES ASSUME NEW k \in DOMAIN job.attempts, job.requeued # NULL
               PROVE  job.attempts[k].started > job.requeued <=>
                          job.attempts[k].started >= job.requeued
    OBVIOUS
  <2>1. job.attempts[k] \in Attempt /\ job.requeued \in Nat
    BY <1>1 DEF Job, Time
  <2>2. job.attempts[k].started \in Nat /\ job.attempts[k].started # job.requeued
    BY <2>1, NullAssumption DEF Attempt, Time, StartsApart
  <2> QED
    BY <2>1, <2>2
<1>3. above = {k \in DOMAIN job.attempts :
                  /\ job.attempts[k].outcome # "released"
                  /\ job.requeued = NULL
                     \/ job.attempts[k].started >= job.requeued}
  BY <1>1, <1>2, AboveIsAfter
<1>4. \A k \in DOMAIN job.attempts :
         job.attempts[k].outcome = NULL <=> job.status = "running" /\ k = n
  BY DEF RowInv, LogMatchesLease
<1>5. /\ IsFiniteSet(Spent(job)) /\ UsedAttempts(job) = Cardinality(Spent(job))
      /\ UsedAttempts(job) \in Nat
  BY <1>1, SpentIsFinite
<1> HIDE DEF above, n
<1>6. CASE job.status = "running"
  <2>1. /\ n \in DOMAIN job.attempts
        /\ job.requeued = NULL \/ job.attempts[n].started >= job.requeued
    BY <1>6 DEF RowInv, RowChecks, LeaseChecks, LogMatchesLease, RowKept, Timely,
                DeadlineOfNewest, n
  <2>2. job.attempts[n].outcome = NULL /\ NULL # "released"
    BY <1>4, <1>6, <2>1, NullIsNoString DEF Outcomes
  <2>3. \A k : k \in above <=> k \in Spent(job) \/ k = n
    BY <1>3, <1>4, <2>1, <2>2 DEF Spent
  <2>4. above = Spent(job) \cup {n} /\ n \notin Spent(job)
    BY <2>2, <2>3 DEF Spent
  <2>5. Cardinality(above) = UsedAttempts(job) + 1
    BY <1>5, <2>4, FS_AddElement
  <2> QED
    BY <1>6, <2>5 DEF AttemptsShown, above
<1>7. CASE job.status # "running"
  <2>1. above = Spent(job)
    BY <1>3, <1>4, <1>7 DEF Spent
  <2>2. AttemptsShown(job) = Cardinality(above)
    BY <1>5, <1>7, <2>1 DEF AttemptsShown
  <2> QED
    BY <2>2 DEF above
<1> QED
  BY <1>6, <1>7

\* The "n of max" of every job in every reachable state (wording.ts, timeline.ts).
THEOREM MarkerAlwaysSplitsTheBudget == Spec => []MarkerSplitsTheBudget
<1>1. IInv /\ RowsKept => MarkerSplitsTheBudget
  BY MarkerOfARow DEF IInv, RowsKept, MarkerSplitsTheBudget, Shown
<1> QED
  BY <1>1, RowsAlwaysKept, PTL

\* A lease that is shown as expired is one that the store takes away.
LEMMA DueIsExpired ==
    ASSUME NEW job, RowInv(job), RowKept(job), NEW now \in Time
    PROVE  LET facts == Facts(job, now)
           IN  /\ facts.lease = "expired" <=> ExpireIfDue(job, now) # job
               /\ facts.deadline = "passed" <=> PastDeadline(job, now)
               /\ facts.deadline = "passed" => facts.lease = "expired"
<1>1. /\ job \in Job /\ now \in Nat
      /\ job.status = "running" <=> job.token # NULL
  BY DEF RowInv, RowChecks, LeaseChecks, Time
<1>2. CASE job.status # "running"
  <2>1. ExpireIfDue(job, now) = job /\ ~PastDeadline(job, now)
    BY <1>1, <1>2 DEF ExpireIfDue, PastDeadline, LeaseExpired
  <2>2. Facts(job, now).lease = NULL /\ Facts(job, now).deadline = NULL
    BY <1>2 DEF Facts
  <2> QED
    BY <2>1, <2>2, ViewAssumption
<1>3. CASE job.status = "running"
  <2>1. /\ job.until \in Nat /\ job.deadline \in Nat /\ job.until <= job.deadline
    BY <1>1, <1>3, LeasedTimes DEF RowKept, Timely, Time
  <2>2. /\ Facts(job, now).lease = IF job.until - now > 0 THEN "left" ELSE "expired"
        /\ Facts(job, now).deadline = IF job.deadline - now > 0 THEN "ahead"
                                                                ELSE "passed"
    BY <1>3 DEF Facts
  <2>3. /\ PastDeadline(job, now) <=> now >= job.deadline
        /\ LeaseExpired(job, now) <=> now >= job.until /\ ~PastDeadline(job, now)
    BY <1>1, <1>3 DEF PastDeadline, LeaseExpired
  <2>4. PastDeadline(job, now) \/ LeaseExpired(job, now) <=> now >= job.until
    BY <1>1, <2>1, <2>3
  <2>5. now >= job.until <=> ExpireIfDue(job, now) # job
    <3>1. CASE ~(now >= job.until)
      BY <2>4, <3>1 DEF ExpireIfDue
    <3>2. CASE now >= job.until
      <4>1. PICK outcome \in Outcomes \cap JobErrors :
                ExpireIfDue(job, now) =
                    RetryOrFail(EndAttempt(job, outcome, now), outcome, now)
        <5>1. CASE PastDeadline(job, now)
          BY <2>3, <5>1 DEF ExpireIfDue, Revoke, Outcomes, JobErrors
        <5>2. CASE LeaseExpired(job, now)
          BY <2>3, <5>2 DEF ExpireIfDue, Revoke, Outcomes, JobErrors
        <5> QED
          BY <2>4, <3>2, <5>1, <5>2
      <4>2. EndAttempt(job, outcome, now) \in Job
        BY <1>1, <1>3, EndedFields
      <4>3. ExpireIfDue(job, now).token = NULL
        BY <4>1, <4>2, RetryOrFailFields
      <4> QED
        BY <1>1, <1>3, <3>2, <4>3
    <3> QED
      BY <3>1, <3>2
  <2>6. /\ Facts(job, now).lease = "expired" <=> now >= job.until
        /\ Facts(job, now).deadline = "passed" <=> now >= job.deadline
    BY <1>1, <2>1, <2>2
  <2> QED
    BY <1>1, <2>1, <2>3, <2>5, <2>6
<1> QED
  BY <1>2, <1>3

\* A run that ends without a release uses the attempt that it was.
LEMMA FallenSpends ==
    ASSUME NEW job, RowInv(job), RowKept(job), job.token # NULL,
           NEW outcome \in Outcomes, outcome # "released", NEW now \in Time
    PROVE  UsedAttempts(EndAttempt(job, outcome, now)) = UsedAttempts(job) + 1
<1> DEFINE e == EndAttempt(job, outcome, now)
           n == Newest(job)
           a == Closed(job.attempts[n], outcome, now)
<1>1. /\ e \in Job /\ job \in Job
      /\ e.requeued = job.requeued
      /\ n \in DOMAIN job.attempts /\ job.attempts[n] \in Attempt
      /\ DOMAIN e.attempts = DOMAIN job.attempts
      /\ \A k \in DOMAIN job.attempts :
            e.attempts[k] = IF k = n THEN a ELSE job.attempts[k]
  BY EndedFields DEF SameFrame, RowInv
<1>2. a.outcome = outcome /\ a.started = job.attempts[n].started
  BY <1>1, AttemptClosed
<1>3. job.attempts[n].outcome = NULL /\ job.deadline # NULL
  BY <1>1 DEF RowInv, RowChecks, LeaseChecks, LogMatchesLease
<1>4. job.requeued # NULL => job.attempts[n].started >= job.requeued
  BY <1>3 DEF RowKept, Timely, DeadlineOfNewest
<1>5. outcome # NULL
  BY NullAssumption
<1> HIDE DEF e, a, n
<1>6. Spent(e) = Spent(job) \cup {n} /\ n \notin Spent(job)
  BY <1>1, <1>2, <1>3, <1>4, <1>5 DEF Spent
<1>7. /\ IsFiniteSet(Spent(job)) /\ Cardinality(Spent(job)) = UsedAttempts(job)
      /\ Cardinality(Spent(e)) = UsedAttempts(e)
  BY <1>1, SpentIsFinite
<1>8. Cardinality(Spent(e)) = Cardinality(Spent(job)) + 1
  BY <1>6, <1>7, FS_AddElement
<1> QED
  BY <1>7, <1>8 DEF e

\* A lost run is queued again exactly when the job has attempts beyond it.
LEMMA LostIsQueuedAgain ==
    ASSUME NEW job, RowInv(job), RowKept(job), job.token # NULL,
           NEW outcome \in Outcomes \cap JobErrors, NEW now \in Time
    PROVE  RetryOrFail(EndAttempt(job, outcome, now), outcome, now).status = "pending"
               <=> AttemptsShown(job) < job.maxAttempt /\ job.replay = NULL
<1> DEFINE e == EndAttempt(job, outcome, now)
           m == RetryOrFail(e, outcome, now)
<1>1. outcome \in Outcomes /\ outcome \in JobErrors /\ outcome # "released"
  BY DEF JobErrors
<1>2. e \in Job /\ SameFrame(e, job) /\ job \in Job
  BY <1>1, EndedFields DEF RowInv
<1>3. e.maxAttempt = job.maxAttempt /\ e.replay = job.replay /\ e.maxAttempt \in Nat
  BY <1>2 DEF SameFrame, Job
<1>4. UsedAttempts(e) = AttemptsShown(job) /\ UsedAttempts(e) \in Nat
  <2>1. job.status = "running"
    BY DEF RowInv, RowChecks, LeaseChecks
  <2> QED
    BY <1>1, <1>2, <2>1, FallenSpends, SpentIsFinite DEF AttemptsShown
<1> DEFINE spare == UsedAttempts(e) < e.maxAttempt /\ e.replay = NULL
<1>5. ASSUME spare
      PROVE  m.status = "pending"
  <2>1. ~KeepsOldSuccess(e) /\ ~OutOfAttempts(e)
    BY <1>3, <1>4, <1>5 DEF KeepsOldSuccess, OutOfAttempts
  <2>2. m = Requeue(e, outcome, now)
    BY <2>1 DEF RetryOrFail
  <2> HIDE DEF e, m
  <2>3. Unleased(e) \in Job
    BY <1>2, UnleasedFields
  <2> QED
    BY <2>2, <2>3 DEF Requeue, Job
<1>6. ASSUME m.status = "pending"
      PROVE  spare
  <2> HIDE DEF e
  <2> QED
    BY <1>1, <1>2, <1>6, RetryOrFailFields
<1> QED
  BY <1>3, <1>4, <1>5, <1>6

\* "the job will be retried" stands beside a lease that runs out as it should
\* where the job has attempts left.
LEMMA PromiseOfARow ==
    ASSUME NEW job, RowInv(job), RowKept(job), NEW now \in Time,
           Facts(job, now).retries
    PROVE  ExpireIfDue(job, now).status = "pending" <=>
               AttemptsShown(job) < job.maxAttempt /\ job.replay = NULL
<1>1. job.status = "running" /\ job.until - now <= 0
  BY DEF Facts
<1>2. job.token # NULL /\ job \in Job
  BY <1>1 DEF RowInv, RowChecks, LeaseChecks
<1>3. job.until \in Nat /\ now \in Nat
  BY <1>2, LeasedTimes DEF RowKept, Timely, Time
<1>4. PastDeadline(job, now) \/ LeaseExpired(job, now)
  BY <1>1, <1>2, <1>3 DEF PastDeadline, LeaseExpired
<1>5. PICK outcome \in Outcomes \cap JobErrors :
          ExpireIfDue(job, now) =
              RetryOrFail(EndAttempt(job, outcome, now), outcome, now)
  <2>1. CASE PastDeadline(job, now)
    BY <2>1 DEF ExpireIfDue, Revoke, Outcomes, JobErrors
  <2>2. CASE LeaseExpired(job, now)
    BY <2>2 DEF ExpireIfDue, Revoke, Outcomes, JobErrors, LeaseExpired
  <2> QED
    BY <1>4, <2>1, <2>2
<1> QED
  BY <1>2, <1>5, LostIsQueuedAgain

\* The panel's lease and deadline in every reachable state (facts.tsx, _expire_if_due).
THEOREM LeaseShownIsAlwaysTheStores == Spec => []LeaseShownIsTheStores
<1>1. IInv /\ RowsKept /\ RowsDated => LeaseShownIsTheStores
  <2> SUFFICES ASSUME IInv, RowsKept, RowsDated, NEW j \in Shown
               PROVE  LET facts == Facts(jobs[j], clock)
                          due == ExpireIfDue(jobs[j], clock)
                      IN  /\ facts.lease = "expired" <=> due # jobs[j]
                          /\ facts.deadline = "passed" <=> PastDeadline(jobs[j], clock)
                          /\ facts.deadline = "passed" => facts.lease = "expired"
                          /\ facts.finished <=> IsTerminal(jobs[j])
                          /\ facts.retries =>
                                (due.status = "pending" <=>
                                     /\ AttemptsShown(jobs[j]) < jobs[j].maxAttempt
                                     /\ jobs[j].replay = NULL)
    BY DEF LeaseShownIsTheStores
  <2>1. /\ RowInv(jobs[j]) /\ RowKept(jobs[j]) /\ Dated(jobs[j])
        /\ clock \in Time /\ Exists(j) /\ jobs[j] \in Job
    BY DEF IInv, TypeOK, RowsKept, RowsDated, Shown
  <2>2. Facts(jobs[j], clock).finished <=>
            jobs[j].finished # NULL /\ jobs[j].status \notin {"running", "pending"}
    BY DEF Facts
  <2>3. Facts(jobs[j], clock).finished <=> IsTerminal(jobs[j])
    BY <2>1, <2>2 DEF Dated, Settled, IsTerminal, TerminalStatuses, Exists, Job,
                      Statuses
  <2> QED
    BY <2>1, <2>3, DueIsExpired, PromiseOfARow
<1> QED
  BY <1>1, RowsAlwaysDated, PTL

\* What the note of a pending job says of its attempts.
LEMMA NoteOfARow ==
    ASSUME NEW job, RowInv(job), RowKept(job), Budgeted(job), Apart(job),
           RetryNote(job) # NULL
    PROVE  /\ RetryNote(job).next <= job.maxAttempt
           /\ job.replay = NULL
           /\ RetryNote(job).failed \in AboveMarker(job)
<1> DEFINE n == Newest(job)
<1>1. /\ job \in Job /\ job.attempts \in Seq(Attempt)
      /\ UsedAttempts(job) \in Nat /\ job.maxAttempt \in Nat
  BY SpentIsFinite DEF RowInv, Job
<1>2. job.status = "pending" /\ UsedAttempts(job) # 0
  BY DEF RetryNote
<1>3. RetryNote(job) = [failed |-> n, next |-> UsedAttempts(job) + 1]
  BY DEF RetryNote
<1>4. UsedAttempts(job) < Allowance(job)
  BY <1>2 DEF Budgeted
<1>5. job.replay = NULL /\ UsedAttempts(job) < job.maxAttempt
  BY <1>1, <1>2, <1>4 DEF Allowance
<1>6. job.deadline # NULL
  BY <1>2 DEF Budgeted
<1>7. n > 0 /\ (job.requeued # NULL => job.attempts[n].started >= job.requeued)
  BY <1>6 DEF RowKept, Timely, DeadlineOfNewest
<1>8. n \in DOMAIN job.attempts
  BY <1>1, <1>7 DEF Newest
<1>9. job.requeued = NULL \/ job.attempts[n].started > job.requeued
  <2>1. /\ job.attempts[n] \in Attempt
        /\ job.requeued # NULL =>
              job.attempts[n].started \notin job.requeued..(job.requeued + RequestLag)
    BY <1>1, <1>8 DEF Apart, StartsApart
  <2>2. job.attempts[n].started \in Nat /\ RequestLag \in Nat
    BY <2>1, StoreAssumption DEF Attempt, Time
  <2>3. job.requeued # NULL => job.requeued \in Nat
    BY <1>1 DEF Job, Time
  <2> QED
    BY <1>7, <2>1, <2>2, <2>3
<1>10. n \in AboveMarker(job)
  BY <1>1, <1>8, <1>9, AboveIsAfter
<1> QED
  BY <1>1, <1>3, <1>5, <1>10

\* What the panel says of attempts and leases, however long the requests wait
\* for the store (wording.ts, timeline.ts, facts.tsx).
THEOREM PanelAlwaysSpeaksForTheStore == Spec => []PanelSpeaksForTheStore
<1>1. IInv /\ RowsKept /\ RowsBudgeted => RetryNoteIsTrue
  BY NoteOfARow DEF IInv, RowsKept, RowsBudgeted, RetryNoteIsTrue, Shown, Apart
<1> QED
  BY <1>1, RowsAlwaysBudgeted, MarkerAlwaysSplitsTheBudget,
     LeaseShownIsAlwaysTheStores, PTL DEF PanelSpeaksForTheStore

-----------------------------------------------------------------------------
(* An answer that is read in parts. *)

\* What has been read of the jobs and of the workers is still so of those that
\* nothing changed of since the answer was asked for.
AnswerKeeps ==
    answer # NULL =>
        /\ answer.part \in {"counts", "running", "workers", "complete"}
        /\ answer.now \in Int
        /\ answer.part # "counts" =>
              \A j \in Jobs \ touched :
                  /\ j \in DOMAIN answer.running <=> jobs[j].status = "running"
                  /\ jobs[j].status = "running" => answer.running[j] = jobs[j].worker
        /\ answer.part \in {"workers", "complete"} =>
              /\ RowsOf(answer) \subseteq Workers
              /\ \A w \in Workers \ beaten :
                    /\ w \in RowsOf(answer) <=>
                          w \in Registered /\ leases[w] >= answer.now - HideMs
                    /\ w \in RowsOf(answer) => answer.workers[w] = leases[w]

\* Reading leaves the store alone.
LEMMA ReadingLeavesTheStore ==
    /\ ReadStep => UNCHANGED vars
    /\ [OverviewNext]_<<vars, readVars>> => [Next]_vars
<1>1. ReadStep => UNCHANGED vars
  BY DEF ReadStep, Ask, ReadRunning, ReadWorkers, ReadRest
<1> QED
  BY <1>1 DEF OverviewNext

\* Every SELECT, and every step of the store in between, keeps it.
LEMMA AnswerIsKept ==
    TypeOK /\ AnswerKeeps /\ [OverviewNext]_<<vars, readVars>> => AnswerKeeps'
<1> SUFFICES ASSUME TypeOK, AnswerKeeps, [OverviewNext]_<<vars, readVars>>
             PROVE  AnswerKeeps'
  OBVIOUS
<1>1. ASSUME NEW now \in Nows, Ask(now)
      PROVE  AnswerKeeps'
  <2> DEFINE new == [part |-> "counts", now |-> now, counts |-> Counts]
  <2>1. answer' = new /\ new.part = "counts" /\ new.now = now
    BY <1>1 DEF Ask
  <2>2. now \in Int
    BY <1>1, NowsAreTimes DEF Time
  <2> HIDE DEF new
  <2> QED
    BY <2>1, <2>2 DEF AnswerKeeps
<1>2. CASE ReadRunning
  <2> DEFINE running == Running(answer.now)
             new == [part |-> "running", now |-> answer.now,
                     counts |-> answer.counts, running |-> running]
  <2>1. /\ answer # NULL
        /\ answer' = new /\ new.part = "running" /\ new.running = running
        /\ new.now = answer.now
    BY <1>2 DEF ReadRunning
  <2>2. UNCHANGED <<jobs, touched>>
    BY <1>2 DEF ReadRunning, vars
  <2>3. \A j \in Jobs : /\ j \in DOMAIN running <=> jobs[j].status = "running"
                        /\ jobs[j].status = "running" => running[j] = jobs[j].worker
    BY DEF Running
  <2> HIDE DEF new, running
  <2> QED
    BY <2>1, <2>2, <2>3 DEF AnswerKeeps
<1>3. CASE ReadWorkers
  <2> DEFINE workers == ListWorkers(answer.now)
             new == [part |-> "workers", now |-> answer.now,
                     counts |-> answer.counts, running |-> answer.running,
                     workers |-> workers]
  <2>1. /\ answer # NULL /\ answer.part = "running"
        /\ answer' = new /\ new.part = "workers" /\ new.running = answer.running
        /\ new.workers = workers /\ new.now = answer.now
    BY <1>3 DEF ReadWorkers
  <2>2. UNCHANGED <<jobs, leases, touched, beaten>>
    BY <1>3 DEF ReadWorkers, vars
  <2>3. /\ DOMAIN workers = {w \in Registered : leases[w] >= answer.now - HideMs}
        /\ \A w \in DOMAIN workers : workers[w] = leases[w]
    BY DEF ListWorkers
  <2> HIDE DEF new, workers
  <2> QED
    BY <2>1, <2>2, <2>3 DEF AnswerKeeps, RowsOf, Registered
<1>4. CASE ReadRest
  <2>1. /\ answer # NULL /\ answer.part = "workers"
        /\ answer'.part = "complete" /\ answer'.now = answer.now
        /\ answer'.running = answer.running /\ answer'.workers = answer.workers
    BY <1>4 DEF ReadRest
  <2>2. UNCHANGED <<jobs, leases, touched, beaten>>
    BY <1>4 DEF ReadRest, vars
  <2> QED
    BY <2>1, <2>2 DEF AnswerKeeps, RowsOf, Registered
<1>5. CASE Meanwhile
  <2>1. CASE answer' = NULL
    BY <2>1 DEF AnswerKeeps
  <2>2. CASE answer' # NULL
    <3>1. /\ answer' = answer /\ answer # NULL
          /\ touched \subseteq touched' /\ beaten \subseteq beaten'
          /\ \A j \in Jobs \ touched' : /\ jobs'[j].status = jobs[j].status
                                        /\ jobs'[j].worker = jobs[j].worker
          /\ \A w \in Workers \ beaten' : leases'[w] = leases[w]
      BY <1>5, <2>2 DEF Meanwhile, Complete
    <3> QED
      BY <3>1 DEF AnswerKeeps, RowsOf, Registered
  <2> QED
    BY <2>1, <2>2
<1>6. CASE UNCHANGED <<vars, readVars>>
  BY <1>6 DEF AnswerKeeps, RowsOf, Registered, vars, readVars
<1> QED
  BY <1>1, <1>2, <1>3, <1>4, <1>5, <1>6 DEF OverviewNext, ReadStep

\* The screen is read from a store that is well formed.
LEMMA AnswersAreKept == OverviewSpec => [](IInv /\ AnswerKeeps)
<1>1. OverviewInit => Init /\ AnswerKeeps
  BY DEF OverviewInit, AnswerKeeps
<1>2. OverviewSpec => Spec
  BY <1>1, ReadingLeavesTheStore, PTL DEF OverviewSpec, Spec
<1>3. OverviewSpec => []AnswerKeeps
  <2>1. IInv => TypeOK
    BY DEF IInv
  <2> QED
    BY <1>1, <1>2, <2>1, AnswerIsKept, StoreInvariant, PTL DEF OverviewSpec
<1> QED
  BY <1>2, <1>3, StoreInvariant, PTL

\* The fleet shows a row for each worker of the answer.
LEMMA RowsAreTheWorkers ==
    ASSUME NEW a
    PROVE  Rows(a) = {[worker |-> w, row |-> WorkerRow(a, w)] : w \in RowsOf(a)}
<1> DEFINE M(ip) == Machine(a, ip)
           ips == {Ip[w] : w \in RowsOf(a)}
<1>1. Fleet(a).machines = [ip \in ips |-> M(ip)]
  BY DEF Fleet
<1>2. \A ip : M(ip).rows = [w \in {w \in RowsOf(a) : Ip[w] = ip} |-> WorkerRow(a, w)]
  BY DEF Machine
<1> HIDE DEF M
<1>3. Rows(a) = UNION {{[worker |-> w, row |-> M(ip).rows[w]] :
                            w \in DOMAIN M(ip).rows} : ip \in ips}
  BY <1>1 DEF Rows
<1>4. ASSUME NEW x
      PROVE  x \in Rows(a) <=>
                \E w \in RowsOf(a) : x = [worker |-> w, row |-> WorkerRow(a, w)]
  <2>1. ASSUME x \in Rows(a)
        PROVE  \E w \in RowsOf(a) : x = [worker |-> w, row |-> WorkerRow(a, w)]
    <3>1. PICK ip \in ips : x \in {[worker |-> w, row |-> M(ip).rows[w]] :
                                        w \in DOMAIN M(ip).rows}
      BY <1>3, <2>1
    <3>2. PICK w \in DOMAIN M(ip).rows : x = [worker |-> w, row |-> M(ip).rows[w]]
      BY <3>1
    <3>3. w \in RowsOf(a) /\ M(ip).rows[w] = WorkerRow(a, w)
      BY <1>2, <3>2
    <3> QED
      BY <3>2, <3>3
  <2>2. ASSUME NEW w \in RowsOf(a), x = [worker |-> w, row |-> WorkerRow(a, w)]
        PROVE  x \in Rows(a)
    <3>1. Ip[w] \in ips
      OBVIOUS
    <3>2. w \in DOMAIN M(Ip[w]).rows /\ M(Ip[w]).rows[w] = WorkerRow(a, w)
      BY <1>2
    <3>3. x \in {[worker |-> v, row |-> M(Ip[w]).rows[v]] : v \in DOMAIN M(Ip[w]).rows}
      BY <2>2, <3>2
    <3> HIDE DEF ips
    <3> QED
      BY <1>3, <3>1, <3>3
  <2> QED
    BY <2>1, <2>2
<1> QED
  BY <1>4

\* The slots of a row, by whether its worker answers.
LEMMA SlotsOfARow ==
    ASSUME NEW a, NEW w
    PROVE  /\ WorkerRow(a, w).slots = IF Connected(a, w) THEN JobsOf(a, w) ELSE {}
           /\ ~Connected(a, w) =>
                 WorkerRow(a, w) =
                     [state |-> "stopped responding", slots |-> {}, idle |-> 0]
BY DEF WorkerRow

\* Every job that ran all the while the overview was read has a place on it: the
\* SELECTs see the store at moments of their own, but the running job and its
\* worker are the same at each of them (stats.py overview, fleet.tsx WorkerRow).
THEOREM UntouchedJobsAlwaysHaveAPlace == OverviewSpec => []UntouchedJobsHaveAPlace
<1>1. IInv /\ AnswerKeeps => UntouchedJobsHaveAPlace
  <2> SUFFICES ASSUME IInv, AnswerKeeps, Complete, NEW j \in Jobs \ touched,
                      jobs[j].status = "running"
               PROVE  \/ {x.worker : x \in {x \in Rows(answer) : j \in x.row.slots}}
                            = {jobs[j].worker}
                      \/ [worker |-> jobs[j].worker,
                          row |-> [state |-> "stopped responding", slots |-> {},
                                   idle |-> 0]] \in Rows(answer)
                      \/ /\ jobs[j].worker \in Registered \ RowsOf(answer)
                         /\ \/ jobs[j].worker \in beaten
                            \/ leases[jobs[j].worker] < answer.now - HideMs
    BY DEF UntouchedJobsHaveAPlace
  <2> DEFINE w == jobs[j].worker
  <2>1. /\ j \in DOMAIN answer.running
        /\ answer.running[j] = w
        /\ \A v \in Workers \ beaten :
              v \in RowsOf(answer) <=>
                  v \in Registered /\ leases[v] >= answer.now - HideMs
    BY DEF AnswerKeeps, Complete
  <2>2. w \in Workers /\ w \in Registered /\ leases[w] \in Int
    <3>1. /\ jobs[j].worker \in Workers \cup {NULL}
          /\ jobs[j].worker # NULL
      BY DEF IInv, RowInv, RowChecks, LeaseChecks, Job
    <3>2. w \in Registered
      BY <3>1 DEF IInv, OwnersKnown
    <3> QED
      BY <3>1, <3>2, NullAssumption DEF IInv, TypeOK, Registered, Time
  <2>3. \A v : v \in RowsOf(answer) =>
              [worker |-> v, row |-> WorkerRow(answer, v)] \in Rows(answer)
    BY RowsAreTheWorkers
  <2>4. CASE w \in RowsOf(answer) /\ Connected(answer, w)
    <3>1. \A v \in RowsOf(answer) : j \in WorkerRow(answer, v).slots <=> v = w
      <4> TAKE v \in RowsOf(answer)
      <4>1. j \in JobsOf(answer, v) <=> v = w
        BY <2>1 DEF JobsOf
      <4>2. WorkerRow(answer, v).slots =
                IF Connected(answer, v) THEN JobsOf(answer, v) ELSE {}
        BY SlotsOfARow
      <4> QED
        BY <2>4, <4>1, <4>2
    <3>2. \A y : y \in {x.worker : x \in {x \in Rows(answer) : j \in x.row.slots}}
                    <=> y = w
      <4> TAKE y
      <4>1. ASSUME NEW x \in Rows(answer), j \in x.row.slots
            PROVE  x.worker = w
        BY <3>1, <4>1, RowsAreTheWorkers
      <4>2. [worker |-> w, row |-> WorkerRow(answer, w)] \in
                {x \in Rows(answer) : j \in x.row.slots}
        BY <2>3, <2>4, <3>1
      <4> QED
        BY <4>1, <4>2
    <3> QED
      BY <3>2
  <2>5. CASE w \in RowsOf(answer) /\ ~Connected(answer, w)
    BY <2>3, <2>5, SlotsOfARow
  <2>6. CASE w \notin RowsOf(answer)
    <3>1. answer.now \in Int /\ HideMs \in Nat
      BY OverviewAssumption DEF AnswerKeeps, Complete
    <3>2. w \in beaten \/ ~(leases[w] >= answer.now - HideMs)
      BY <2>1, <2>2, <2>6
    <3>3. w \in beaten \/ leases[w] < answer.now - HideMs
      BY <2>2, <3>1, <3>2
    <3> QED
      BY <2>2, <2>6, <3>3
  <2> QED
    BY <2>4, <2>5, <2>6
<1> QED
  BY <1>1, AnswersAreKept, PTL

-----------------------------------------------------------------------------
(* The rounding of the rates of Stats.tla, for every fraction. *)

\* What integer division gives.
LEMMA DivisionRoundsDown ==
    ASSUME NEW a \in Nat, NEW b \in Nat \ {0}
    PROVE  /\ a \div b \in Nat
           /\ b * (a \div b) <= a
           /\ a < b * ((a \div b) + 1)
<1>1. /\ a = (b * (a \div b)) + (a % b)
      /\ a % b \in 0..(b - 1)
      /\ a \div b \in Nat
  BY SMTT(30)
<1>2. b * ((a \div b) + 1) = (b * (a \div b)) + b
  BY <1>1, SMTT(30)
<1> QED
  BY <1>1, <1>2, SMTT(30)

\* A product with a positive factor grows with the other factor.
LEMMA ProductsGrow ==
    ASSUME NEW x \in Int, NEW y \in Int, NEW b \in Nat \ {0}, x <= y
    PROVE  b * x <= b * y
BY SMTT(30)

\* A quotient reaches a whole number exactly when the fraction does.
LEMMA QuotientReaches ==
    ASSUME NEW a \in Nat, NEW b \in Nat \ {0}, NEW n \in Nat
    PROVE  a \div b >= n <=> a >= b * n
<1> DEFINE q == a \div b
<1>1. q \in Nat /\ b * q <= a /\ a < b * (q + 1)
  BY DivisionRoundsDown
<1>2. b * n \in Nat /\ b * q \in Nat /\ b * (q + 1) \in Nat
  BY <1>1, SMTT(30)
<1> HIDE DEF q
<1>3. CASE q >= n
  <2>1. b * n <= b * q
    BY <1>1, <1>3, ProductsGrow
  <2> QED
    BY <1>1, <1>2, <1>3, <2>1 DEF q
<1>4. CASE ~(q >= n)
  <2>1. q + 1 <= n
    BY <1>1, <1>4
  <2>2. b * (q + 1) <= b * n
    BY <1>1, <2>1, ProductsGrow
  <2> QED
    BY <1>1, <1>2, <1>4, <2>2 DEF q
<1> QED
  BY <1>3, <1>4

\* A fraction with this denominator that is below a whole number of units is so
\* by more than 2/Nudge of one.
Coarse(den, scale) ==
    \E g, b, c \in Nat \ {0} : den = g * b /\ 100 * scale = g * c /\ 2 * b < Nudge

\* What floats make of the sum that is rounded down: x/u, which is num/den in the
\* units of the scale or more by at most 2/Nudge.  Their own error is much less
\* than 1/Nudge, but the sum need not be exact.
FloatSum(x, u, num, den, scale) ==
    /\ 100 * scale * num * u <= x * den
    /\ (x * den - 100 * scale * num * u) * Nudge <= 2 * den * u

\* Such a sum is rounded down to where the fraction itself would be.
LEMMA NudgedFloor ==
    ASSUME NEW den \in Nat \ {0}, NEW num \in Nat, NEW scale \in Nat \ {0},
           Coarse(den, scale), NEW x \in Nat, NEW u \in Nat \ {0},
           FloatSum(x, u, num, den, scale)
    PROVE  x \div u = (100 * scale * num) \div den
<1> DEFINE e == 100 * scale * num
           q == e \div den
           r == x \div u
<1>1. PICK g \in Nat \ {0}, b \in Nat \ {0}, c \in Nat \ {0} :
          den = g * b /\ 100 * scale = g * c /\ 2 * b < Nudge
  BY DEF Coarse
<1>2. e \in Nat /\ e = g * (c * num)
  <2>1. e = (g * c) * num
    BY <1>1
  <2>2. (g * c) * num = g * (c * num) /\ c * num \in Nat
    BY SMTT(30)
  <2>3. g * (c * num) \in Nat
    BY <2>2, SMTT(30)
  <2> QED
    BY <2>1, <2>2, <2>3
<1>3. Nudge \in Nat \ {0}
  BY StatsAssumption
<1>4. e * u <= x * den /\ (x * den - e * u) * Nudge <= 2 * den * u
  BY DEF FloatSum
<1> HIDE DEF e
<1>5. q \in Nat /\ den * q <= e /\ e < den * (q + 1)
  BY <1>2, DivisionRoundsDown
<1>6. r \in Nat /\ u * r <= x /\ x < u * (r + 1)
  BY DivisionRoundsDown
<1> HIDE DEF q, r
<1>7. e + g <= den * (q + 1)
  <2> DEFINE n == c * num
             m == b * (q + 1)
  <2>1. n \in Nat /\ m \in Nat
    BY <1>5, SMTT(30)
  <2>2. e = g * n /\ den * (q + 1) = g * m
    BY <1>1, <1>2, <1>5, SMTT(30)
  <2> HIDE DEF n, m
  <2>3. n < m
    <3>1. CASE m <= n
      <4>1. g * m <= g * n
        BY <2>1, <3>1, ProductsGrow
      <4>2. g * m \in Nat /\ g * n \in Nat
        BY <2>1, SMTT(30)
      <4> QED
        BY <1>5, <2>2, <4>1, <4>2
    <3> QED
      BY <2>1, <3>1
  <2>4. g * (n + 1) <= g * m
    BY <2>1, <2>3, ProductsGrow
  <2>5. g * (n + 1) = g * n + g
    BY <2>1, SMTT(30)
  <2> QED
    BY <2>2, <2>4, <2>5
<1>8. ~(q + 1 <= r)
  <2> SUFFICES ASSUME q + 1 <= r
               PROVE  FALSE
    OBVIOUS
  <2>1. u * (q + 1) <= x
    <3>1. u * (q + 1) <= u * r
      BY <1>5, <1>6, ProductsGrow
    <3>2. u * (q + 1) \in Nat /\ u * r \in Nat
      BY <1>5, <1>6, SMTT(30)
    <3> QED
      BY <1>6, <3>1, <3>2
  <2>2. den * (u * (q + 1)) <= den * x
    <3>1. u * (q + 1) \in Int
      BY <1>5, SMTT(30)
    <3> QED
      BY <2>1, <3>1, ProductsGrow
  <2>3. u * (e + g) <= u * (den * (q + 1))
    <3>1. den * (q + 1) \in Int /\ e + g \in Int
      BY <1>2, <1>5, SMTT(30)
    <3> QED
      BY <1>7, <3>1, ProductsGrow
  <2>4. /\ u * (e + g) = e * u + u * g
        /\ u * (den * (q + 1)) = den * (u * (q + 1))
        /\ den * x = x * den
    BY <1>2, <1>5, SMTT(30)
  <2>5. e * u \in Nat /\ u * g \in Nat /\ x * den \in Nat
        /\ den * (u * (q + 1)) \in Nat
    BY <1>2, <1>5, SMTT(30)
  <2>6. u * g <= x * den - e * u
    <3> DEFINE k == den * (u * (q + 1))
    <3>1. k \in Nat /\ e * u + u * g <= k /\ k <= x * den
      BY <2>2, <2>3, <2>4, <2>5
    <3> HIDE DEF k
    <3> QED
      BY <2>5, <3>1
  <2>7. Nudge * (u * g) <= 2 * den * u
    <3> DEFINE k == x * den - e * u
    <3>1. k \in Int /\ u * g <= k
      BY <2>5, <2>6
    <3>2. k * Nudge <= 2 * den * u
      BY <1>4
    <3> HIDE DEF k
    <3>3. Nudge * (u * g) <= Nudge * k
      BY <1>3, <2>5, <3>1, ProductsGrow
    <3>4. Nudge * k = k * Nudge /\ Nudge * k \in Int /\ Nudge * (u * g) \in Int
          /\ 2 * den * u \in Int
      BY <1>3, <2>5, <3>1, SMTT(30)
    <3> QED
      BY <3>2, <3>3, <3>4
  <2>8. (u * g) * (2 * b + 1) <= (u * g) * Nudge
    <3>1. u * g \in Nat \ {0}
      BY SMTT(30)
    <3> QED
      BY <1>1, <1>3, <3>1, ProductsGrow
  <2>9. /\ (u * g) * (2 * b + 1) = 2 * den * u + u * g
        /\ (u * g) * Nudge = Nudge * (u * g)
        /\ u * g > 0
    <3>1. 2 * (g * b) * u + u * g = (u * g) * (2 * b + 1)
      BY SMTT(30)
    <3>2. (u * g) * Nudge = Nudge * (u * g) /\ u * g > 0
      BY <1>3, SMTT(30)
    <3> QED
      BY <1>1, <3>1, <3>2
  <2> QED
    <3> DEFINE k == 2 * den * u
    <3>1. k \in Nat /\ u * g \in Nat /\ Nudge * (u * g) \in Nat
      BY <1>3, SMTT(30)
    <3>2. k + u * g <= Nudge * (u * g) /\ Nudge * (u * g) <= k
      BY <2>7, <2>8, <2>9
    <3> HIDE DEF k
    <3> QED
      BY <2>9, <3>1, <3>2
<1>9. ~(r + 1 <= q)
  <2> SUFFICES ASSUME r + 1 <= q
               PROVE  FALSE
    OBVIOUS
  <2>1. den * (r + 1) <= e
    <3>1. den * (r + 1) <= den * q
      BY <1>5, <1>6, ProductsGrow
    <3>2. den * (r + 1) \in Nat /\ den * q \in Nat
      BY <1>5, <1>6, SMTT(30)
    <3> QED
      BY <1>2, <1>5, <3>1, <3>2
  <2>2. u * (den * (r + 1)) <= u * e
    <3>1. den * (r + 1) \in Int
      BY <1>6, SMTT(30)
    <3> QED
      BY <1>2, <2>1, <3>1, ProductsGrow
  <2>3. x + 1 <= u * (r + 1)
    <3>1. u * (r + 1) \in Nat
      BY <1>6, SMTT(30)
    <3> QED
      BY <1>6, <3>1
  <2>4. den * (x + 1) <= den * (u * (r + 1))
    <3>1. u * (r + 1) \in Int
      BY <1>6, SMTT(30)
    <3> QED
      BY <2>3, <3>1, ProductsGrow
  <2>5. /\ den * (x + 1) = x * den + den
        /\ u * (den * (r + 1)) = den * (u * (r + 1))
        /\ u * e = e * u
    BY <1>2, <1>6, SMTT(30)
  <2>6. e * u \in Nat /\ x * den \in Nat /\ den * (u * (r + 1)) \in Nat
    BY <1>2, <1>6, SMTT(30)
  <2> QED
    <3> DEFINE k == den * (u * (r + 1))
    <3>1. k \in Nat /\ x * den + den <= k /\ k <= e * u /\ e * u <= x * den
      BY <1>4, <2>2, <2>4, <2>5, <2>6
    <3> HIDE DEF k
    <3> QED
      BY <2>6, <3>1
<1>10. q = r
  BY <1>5, <1>6, <1>8, <1>9
<1> QED
  BY <1>10 DEF q, r, e

\* The sum without any error of the floats is such a sum.
LEMMA ExactSum ==
    ASSUME NEW den \in Nat \ {0}, NEW num \in Nat, NEW scale \in Nat \ {0}
    PROVE  LET x == 100 * scale * num * Nudge + den
           IN  /\ x \in Nat /\ den * Nudge \in Nat \ {0}
               /\ FloatSum(x, den * Nudge, num, den, scale)
<1> DEFINE e == 100 * scale * num
<1>1. Nudge \in Nat \ {0} /\ e \in Nat
  BY StatsAssumption, SMTT(30)
<1>2. 100 * scale * num * Nudge = e * Nudge
  OBVIOUS
<1> HIDE DEF e
<1>3. e * Nudge + den \in Nat /\ den * Nudge \in Nat \ {0}
  BY <1>1, SMTT(30)
<1>4. (e * Nudge + den) * den = e * (den * Nudge) + den * den
  BY <1>1, SMTT(30)
<1>5. /\ e * (den * Nudge) \in Nat /\ den * den \in Nat
      /\ (den * den) * Nudge \in Nat
      /\ 2 * den * (den * Nudge) = 2 * ((den * den) * Nudge)
  BY <1>1, SMTT(30)
<1>6. (e * Nudge + den) * den - e * (den * Nudge) = den * den
  BY <1>4, <1>5
<1>7. /\ e * (den * Nudge) <= (e * Nudge + den) * den
      /\ ((e * Nudge + den) * den - e * (den * Nudge)) * Nudge
             <= 2 * den * (den * Nudge)
  BY <1>4, <1>5, <1>6
<1> QED
  BY <1>2, <1>3, <1>7 DEF FloatSum, e

\* A rate is rounded down, and the floats show the same as exact numbers would:
\* it reads as a threshold of two units or more, 100% among them, exactly when it
\* reaches it, and as 0% only when nothing succeeded (delta.ts formatRate).
THEOREM RatesReadDown ==
    ASSUME NEW den \in Nat \ {0}, NEW num \in 0..den, NEW sample \in Nat,
           NEW scale, scale = IF sample >= LargeSample THEN 10 ELSE 1,
           Coarse(den, scale), NEW x \in Nat, NEW u \in Nat \ {0},
           FloatSum(x, u, num, den, scale)
    PROVE  LET shown == FormatRate([num |-> num, den |-> den], sample)
           IN  /\ shown = [pct |-> IF num > 0 THEN Later(x \div u, 1) ELSE x \div u,
                           scale |-> scale]
               /\ \A p \in Nat \ {0, 1} : shown.pct >= p <=> 100 * scale * num >= p * den
               /\ shown.pct >= 100 * scale <=> num = den
               /\ shown.pct = 0 <=> num = 0
<1> DEFINE rate == [num |-> num, den |-> den]
           e == 100 * scale * num
           y == 100 * scale * num * Nudge + den
           f == e \div den
           pct == IF num > 0 THEN Later(f, 1) ELSE f
<1>1. rate # NULL
  BY StatsAssumption
<1>2. scale \in {1, 10}
  OBVIOUS
<1>3. num \in Nat /\ num <= den
  OBVIOUS
<1>4. FormatRate(rate, sample) =
         [pct |-> IF num > 0 THEN Later(y \div (den * Nudge), 1)
                  ELSE y \div (den * Nudge), scale |-> scale]
  BY <1>1 DEF FormatRate
<1>5. x \div u = f /\ y \div (den * Nudge) = f
  <2>1. scale \in Nat \ {0}
    BY <1>2
  <2>2. x \div u = f
    BY <1>3, <2>1, NudgedFloor
  <2>3. /\ y \in Nat /\ den * Nudge \in Nat \ {0}
        /\ FloatSum(y, den * Nudge, num, den, scale)
    BY <1>3, <2>1, ExactSum
  <2> HIDE DEF y
  <2>4. y \div (den * Nudge) = f
    BY <1>3, <2>1, <2>3, NudgedFloor
  <2> QED
    BY <2>2, <2>4
<1>6. FormatRate(rate, sample) = [pct |-> pct, scale |-> scale]
  BY <1>4, <1>5
<1>7. e \in Nat
  BY <1>2, <1>3, SMTT(30)
<1>8. f \in Nat /\ \A p \in Nat : f >= p <=> e >= den * p
  BY <1>7, DivisionRoundsDown, QuotientReaches
<1> HIDE DEF f
<1>9. pct \in Nat /\ \A p \in Nat \ {0, 1} : pct >= p <=> f >= p
  BY <1>8 DEF Later
<1>10. \A p \in Nat : den * p = p * den
  BY SMTT(30)
<1>11. \A p \in Nat \ {0, 1} : pct >= p <=> e >= p * den
  BY <1>8, <1>9, <1>10
<1>12. pct >= 100 * scale <=> num = den
  <2>1. 100 * scale \in Nat \ {0, 1}
    BY <1>2
  <2>2. pct >= 100 * scale <=> e >= 100 * scale * den
    BY <1>11, <2>1
  <2>3. e >= 100 * scale * den <=> num >= den
    <3>1. CASE scale = 1
      BY <1>3, <3>1, SMTT(30)
    <3>2. CASE scale = 10
      BY <1>3, <3>2, SMTT(30)
    <3> QED
      BY <1>2, <3>1, <3>2
  <2> QED
    BY <1>3, <2>2, <2>3
<1>13. pct = 0 <=> num = 0
  <2>1. CASE num > 0
    BY <1>8, <2>1 DEF Later
  <2>2. CASE num = 0
    <3>1. e = 0 /\ ~(e >= den * 1)
      BY <1>2, <2>2, SMTT(30)
    <3>2. ~(f >= 1)
      BY <1>8, <3>1
    <3> QED
      BY <1>8, <2>2, <3>2
  <2> QED
    BY <1>3, <2>1, <2>2
<1> HIDE DEF pct, e
<1>14. FormatRate(rate, sample).pct = pct
  BY <1>6
<1>15. FormatRate(rate, sample) =
          [pct |-> IF num > 0 THEN Later(x \div u, 1) ELSE x \div u, scale |-> scale]
  BY <1>4, <1>5
<1>16. e = 100 * scale * num
  BY DEF e
<1> QED
  BY <1>11, <1>12, <1>13, <1>14, <1>15, <1>16, Zenon

-----------------------------------------------------------------------------
(* The lists of steps. *)

\* A set of numbers has a least one.
LEMMA LeastOfASet ==
    ASSUME NEW T \in SUBSET Nat, T # {}
    PROVE  \E x \in T : \A y \in T : x <= y
<1>1. PICK x \in T : \A y \in T : ~ (<<y, x>> \in OpToRel(<, Nat))
  BY NatLessThanWellFounded, WFMin
<1>2. \A y \in T : ~ (y < x)
  BY <1>1 DEF OpToRel
<1> QED
  BY <1>2

\* The elements of a set of numbers stand one after the other: there is one at
\* every place.
LEMMA EveryPlaceIsTaken ==
    ASSUME NEW n \in Nat, NEW S \in SUBSET (1..n), NEW r \in 1..Cardinality(S)
    PROVE  \E i \in S : Cardinality({h \in S : h <= i}) = r
<1> DEFINE upTo(i) == {h \in S : h <= i}
           T == {i \in Nat : Cardinality(upTo(i)) >= r}
<1>0. \A h \in S : h \in Nat /\ 0 < h /\ h <= n
  OBVIOUS
<1>1. /\ IsFiniteSet(S) /\ Cardinality(S) \in Nat
      /\ \A i \in Nat : IsFiniteSet(upTo(i)) /\ Cardinality(upTo(i)) \in Nat
  <2>1. IsFiniteSet(1..n)
    BY FS_Interval
  <2>2. IsFiniteSet(S)
    BY <2>1, FS_Subset
  <2>3. \A i \in Nat : IsFiniteSet(upTo(i))
    BY <2>2, FS_Subset
  <2> QED
    BY <2>2, <2>3, FS_CardinalityType
<1>2. n \in T
  <2>1. upTo(n) = S
    BY <1>0
  <2> QED
    BY <1>1, <2>1
<1>3. PICK i \in T : \A k \in T : i <= k
  BY <1>2, LeastOfASet
<1>4. i # 0
  <2>1. upTo(0) = {}
    <3>1. \A h \in S : ~(h <= 0)
      BY <1>0
    <3> QED
      BY <3>1
  <2>2. Cardinality(upTo(0)) = 0
    BY <2>1, FS_EmptySet
  <2> HIDE DEF upTo
  <2> QED
    BY <1>3, <2>2
<1> DEFINE p == i - 1
<1>5. p \in Nat /\ Cardinality(upTo(p)) < r
  <2>1. i \in Nat
    BY <1>3
  <2>2. p \in Nat /\ ~(i <= p)
    BY <1>4, <2>1
  <2>3. p \notin T
    <3> HIDE DEF T, p
    <3> QED
      BY <1>3, <2>2
  <2> HIDE DEF p, upTo
  <2> QED
    BY <1>1, <2>2, <2>3
<1>6. upTo(i) = IF i \in S THEN upTo(p) \cup {i} ELSE upTo(p)
  <2>1. i \in Nat
    BY <1>3
  <2>2. \A h \in S : h <= i <=> h <= p \/ h = i
    BY <1>0, <2>1
  <2>3. i <= i
    BY <2>1
  <2> HIDE DEF p
  <2> QED
    BY <2>2, <2>3
<1>7. i \in Nat /\ Cardinality(upTo(i)) >= r
  BY <1>3
<1>8. i \notin upTo(p)
  BY <1>3, <1>4
<1> HIDE DEF upTo, p
<1>9. i \in S
  BY <1>1, <1>5, <1>6, <1>7
<1>10. Cardinality(upTo(i)) = Cardinality(upTo(p)) + 1
  BY <1>1, <1>5, <1>6, <1>8, <1>9, FS_AddElement
<1>11. Cardinality(upTo(i)) = r
  BY <1>1, <1>5, <1>7, <1>10
<1> QED
  BY <1>9, <1>11 DEF upTo

StoredStep == [id : StepIds, status : StepStatuses, run : Nat]

\* A list that is merged into another keeps every id in its place, adds each new
\* one once, and has no other.
LEMMA MergedList ==
    ASSUME NEW steps \in Seq(StoredStep), NEW sent \in Seq(StoredStep),
           Distinct(steps), Distinct(sent)
    PROVE  LET m == Merged(steps, sent)
           IN  /\ m \in Seq(StoredStep) /\ Distinct(m)
               /\ \A i \in DOMAIN steps : i \in DOMAIN m /\ m[i].id = steps[i].id
               /\ \A i \in DOMAIN m : \/ \E k \in DOMAIN steps : m[i] = steps[k]
                                      \/ \E k \in DOMAIN sent : m[i] = sent[k]
<1> DEFINE old == Len(steps)
           new == Fresh(steps, sent)
           place(i) == Cardinality({h \in new : h <= i})
           nth(n) == CHOOSE i \in new : place(i) = n
           named(i) == Named(sent, steps[i].id)
           m == Merged(steps, sent)
<1>1. /\ old \in Nat /\ DOMAIN steps = 1..old
      /\ Len(sent) \in Nat /\ new \subseteq 1..Len(sent)
      /\ DOMAIN sent = 1..Len(sent)
  BY DEF Fresh
<1>2. Cardinality(new) \in Nat
  <2>1. IsFiniteSet(1..Len(sent))
    BY <1>1, FS_Interval
  <2> HIDE DEF new
  <2> QED
    BY <1>1, <2>1, FS_Subset, FS_CardinalityType
<1>3. \A n \in 1..Cardinality(new) : nth(n) \in new /\ place(nth(n)) = n
  <2> SUFFICES ASSUME NEW n \in 1..Cardinality(new)
               PROVE  nth(n) \in new /\ place(nth(n)) = n
    OBVIOUS
  <2>1. \E i \in new : place(i) = n
    <3>1. new \in SUBSET (1..Len(sent)) /\ Len(sent) \in Nat
      BY <1>1
    <3> HIDE DEF new
    <3>2. \E i \in new : Cardinality({h \in new : h <= i}) = n
      BY <3>1, EveryPlaceIsTaken
    <3> QED
      BY <3>2
  <2> HIDE DEF place
  <2> QED
    BY <2>1
<1> DEFINE size == old + Cardinality(new)
<1>4. m = [i \in 1..size |->
              CASE i > old -> sent[nth(i - old)]
                [] i <= old /\ named(i) # {} -> sent[CHOOSE k \in named(i) : TRUE]
                [] OTHER -> steps[i]]
  BY DEF Merged
<1>5. \A k \in DOMAIN sent : k \in new <=>
                                \A i \in DOMAIN steps : steps[i].id # sent[k].id
  BY DEF Fresh
<1> HIDE DEF m, nth, new, place, old
<1>6. \A i \in 1..old :
          /\ m[i].id = steps[i].id
          /\ m[i] = steps[i] \/ \E k \in DOMAIN sent : m[i] = sent[k]
  <2> SUFFICES ASSUME NEW i \in 1..old
               PROVE  /\ m[i].id = steps[i].id
                      /\ m[i] = steps[i] \/ \E k \in DOMAIN sent : m[i] = sent[k]
    OBVIOUS
  <2>1. i \in 1..size /\ i <= old /\ ~(i > old)
    BY <1>1, <1>2
  <2>2. CASE named(i) # {}
    <3> DEFINE k == CHOOSE k \in named(i) : TRUE
    <3>1. k \in named(i)
      BY <2>2
    <3>2. m[i] = sent[k]
      BY <1>4, <2>1, <2>2
    <3>3. k \in DOMAIN sent /\ sent[k].id = steps[i].id
      BY <3>1 DEF Named
    <3> HIDE DEF k
    <3> QED
      BY <3>2, <3>3
  <2>3. CASE named(i) = {}
    BY <1>4, <2>1, <2>3
  <2> QED
    BY <2>2, <2>3
<1>7. \A i \in (old + 1)..size :
          /\ i - old \in 1..Cardinality(new)
          /\ nth(i - old) \in new
          /\ m[i] = sent[nth(i - old)]
  <2> SUFFICES ASSUME NEW i \in (old + 1)..size
               PROVE  /\ i - old \in 1..Cardinality(new)
                      /\ nth(i - old) \in new
                      /\ m[i] = sent[nth(i - old)]
    OBVIOUS
  <2>1. i \in 1..size /\ i > old /\ ~(i <= old) /\ i - old \in 1..Cardinality(new)
    BY <1>1, <1>2
  <2>2. m[i] = sent[nth(i - old)]
    BY <1>4, <2>1
  <2> QED
    BY <1>3, <2>1, <2>2
<1>8. DOMAIN m = 1..size /\ size \in Nat
  BY <1>1, <1>2, <1>4
<1>9. \A i \in 1..size : i \in 1..old \/ i \in (old + 1)..size
  BY <1>1, <1>2
<1>10. \A i \in DOMAIN m : \/ \E k \in DOMAIN steps : m[i] = steps[k]
                           \/ \E k \in DOMAIN sent : m[i] = sent[k]
  BY <1>1, <1>6, <1>7, <1>8, <1>9
<1>11. m \in Seq(StoredStep)
  <2>1. \A i \in 1..size : m[i] \in StoredStep
    BY <1>8, <1>10
  <2>2. m = [i \in 1..size |-> m[i]]
    BY <1>4
  <2> HIDE DEF size
  <2> QED
    BY <1>8, <2>1, <2>2
<1>12. Distinct(m)
  <2> SUFFICES ASSUME NEW i \in 1..size, NEW k \in 1..size, m[i].id = m[k].id
               PROVE  i = k
    BY <1>8 DEF Distinct
  <2>1. CASE i \in 1..old /\ k \in 1..old
    BY <1>1, <1>6, <2>1 DEF Distinct
  <2>2. CASE i \in (old + 1)..size /\ k \in (old + 1)..size
    <3>1. sent[nth(i - old)].id = sent[nth(k - old)].id
      BY <1>7, <2>2
    <3>2. nth(i - old) = nth(k - old)
      BY <1>1, <1>7, <2>2, <3>1 DEF Distinct
    <3>3. i - old = k - old
      BY <1>3, <1>7, <2>2, <3>2
    <3> QED
      BY <1>1, <1>8, <3>3
  <2>3. ASSUME NEW a \in 1..old, NEW b \in (old + 1)..size
        PROVE  m[a].id # m[b].id
    <3> DEFINE c == nth(b - old)
    <3>1. c \in new /\ c \in DOMAIN sent /\ m[b] = sent[c]
      BY <1>1, <1>7
    <3>2. a \in DOMAIN steps /\ m[a].id = steps[a].id
      BY <1>1, <1>6
    <3> HIDE DEF c
    <3> QED
      BY <1>5, <3>1, <3>2
  <2> QED
    BY <1>9, <2>1, <2>2, <2>3
<1>13. \A i \in DOMAIN steps : i \in DOMAIN m /\ m[i].id = steps[i].id
  BY <1>1, <1>2, <1>6, <1>8
<1> QED
  BY <1>10, <1>11, <1>12, <1>13 DEF m

-----------------------------------------------------------------------------
(* The run that the steps of a job are of. *)

\* No claim and no requeue came between.
SameRun(old, new) == SameFrame(new, old) /\ Newest(new) = Newest(old)

\* A job that is a success since its newest claim was won by it, or restored
\* from a replay.
Won(job) ==
    job.status = "success" /\ job.deadline # NULL =>
        \/ job.replay # NULL
        \/ job.attempts[Newest(job)].outcome = "succeeded"

RowsWon == \A j \in Jobs : Won(jobs[j])

\* A run that does not succeed.
LEMMA FallenWon ==
    ASSUME NEW job, RowInv(job), job.token # NULL,
           NEW outcome \in Outcomes \cap JobErrors, NEW now \in Time
    PROVE  LET m == RetryOrFail(EndAttempt(job, outcome, now), outcome, now)
           IN  SameRun(job, m) /\ Won(m)
<1> DEFINE e == EndAttempt(job, outcome, now)
           m == RetryOrFail(e, outcome, now)
<1>1. SameRun(job, m)
  BY FallenWrites DEF SameRun
<1>2. e \in Job
  BY EndedFields
<1> HIDE DEF e
<1>3. /\ SameFrame(m, e)
      /\ KeepsOldSuccess(e) \/ m.status \in {"failed", "pending"}
  BY <1>2, RetryOrFailFields
<1> HIDE DEF m
<1>4. Won(m)
  BY <1>3 DEF Won, KeepsOldSuccess, SameFrame
<1> QED
  BY <1>1, <1>4 DEF m, e

LEMMA ExpiredWon ==
    ASSUME NEW job, RowInv(job), Won(job), NEW now \in Time
    PROVE  SameRun(job, ExpireIfDue(job, now)) /\ Won(ExpireIfDue(job, now))
<1>1. /\ "lease_expired" \in Outcomes \cap JobErrors
      /\ "deadline_exceeded" \in Outcomes \cap JobErrors
  BY DEF Outcomes, JobErrors
<1>2. CASE PastDeadline(job, now)
  <2>1. job.token # NULL /\ ~LeaseExpired(job, now)
    BY <1>2 DEF PastDeadline, LeaseExpired
  <2>2. ExpireIfDue(job, now) = Revoke(job, "deadline_exceeded", now)
    BY <1>2, <2>1 DEF ExpireIfDue
  <2> QED
    BY <1>1, <2>1, <2>2, FallenWon DEF Revoke
<1>3. CASE LeaseExpired(job, now)
  <2>1. job.token # NULL /\ ~PastDeadline(job, now)
    BY <1>3 DEF LeaseExpired
  <2>2. ExpireIfDue(job, now) = Revoke(job, "lease_expired", now)
    BY <1>3, <2>1 DEF ExpireIfDue
  <2> QED
    BY <1>1, <2>1, <2>2, FallenWon DEF Revoke
<1>4. CASE ~PastDeadline(job, now) /\ ~LeaseExpired(job, now)
  <2>1. ExpireIfDue(job, now) = job
    BY <1>4 DEF ExpireIfDue
  <2> QED
    BY <2>1 DEF SameRun, SameFrame
<1> QED
  BY <1>2, <1>3, <1>4

\* A heartbeat and what ends a run.
LEMMA ReportedWon ==
    ASSUME NEW job, RowInv(job), job.token # NULL, NEW now \in Time
    PROVE  /\ Beaten(job, now).status = "running"
           /\ \A m \in {Beaten(job, now), Succeeded(job, now), Failed(job, now),
                        Released(job, now)} : SameRun(job, m) /\ Won(m)
<1>1. job \in Job /\ job.status = "running"
  BY DEF RowInv, RowChecks, LeaseChecks
<1>2. LET m == Beaten(job, now)
      IN  SameRun(job, m) /\ Won(m) /\ m.status = "running"
  <2> DEFINE m == Beaten(job, now)
  <2>1. /\ m.status = "running" /\ m.attempts = job.attempts
        /\ SameFrame(m, job)
    BY <1>1 DEF Beaten, Job, SameFrame
  <2> HIDE DEF m
  <2>2. SameRun(job, m) /\ Won(m)
    BY <2>1 DEF SameRun, Newest, Won
  <2> QED
    BY <2>1, <2>2 DEF m
<1>3. SameRun(job, Succeeded(job, now)) /\ Won(Succeeded(job, now))
  <2> DEFINE n == Newest(job)
             e == EndAttempt(job, "succeeded", now)
             a == Closed(job.attempts[n], "succeeded", now)
             m == Succeeded(job, now)
  <2>1. "succeeded" \in Outcomes
    BY DEF Outcomes
  <2>2. /\ n \in DOMAIN job.attempts /\ job.attempts[n] \in Attempt
        /\ Newest(e) = n /\ e.attempts[n] = a
    BY <2>1, EndedFields
  <2>3. a.outcome = "succeeded"
    BY <2>1, <2>2, AttemptClosed
  <2>4. m.attempts = e.attempts /\ SameFrame(m, job)
    BY SucceededFields
  <2> HIDE DEF m, e, a, n
  <2>5. Newest(m) = n
    BY <2>2, <2>4 DEF Newest
  <2>6. SameRun(job, m) /\ Won(m)
    BY <2>2, <2>3, <2>4, <2>5 DEF SameRun, Won, n
  <2> QED
    BY <2>6 DEF m
<1>4. SameRun(job, Failed(job, now)) /\ Won(Failed(job, now))
  <2>1. "failed" \in Outcomes \cap JobErrors
    BY DEF Outcomes, JobErrors
  <2> QED
    BY <2>1, FallenWon DEF Failed
<1>5. SameRun(job, Released(job, now)) /\ Won(Released(job, now))
  <2> DEFINE e == EndAttempt(job, "released", now)
             idle == Unleased(e)
             m == Released(job, now)
  <2>1. "released" \in Outcomes
    BY DEF Outcomes
  <2>2. e \in Job /\ SameFrame(e, job) /\ Newest(e) = Newest(job)
    BY <2>1, EndedFields
  <2>3. m = [idle EXCEPT !.status = "pending", !.available = now]
    BY DEF Released
  <2> HIDE DEF e, m
  <2>4. idle \in Job /\ idle.attempts = e.attempts /\ SameFrame(idle, e)
    BY <2>2, UnleasedFields
  <2> HIDE DEF idle
  <2>5. m.status = "pending" /\ m.attempts = e.attempts /\ SameFrame(m, idle)
    BY <2>3, <2>4 DEF Job, SameFrame
  <2>6. SameRun(job, m) /\ Won(m)
    BY <2>2, <2>4, <2>5 DEF SameRun, SameFrame, Newest, Won
  <2> QED
    BY <2>6 DEF m
<1> QED
  BY <1>2, <1>3, <1>4, <1>5

\* A cancel restores the success of a replay, or is none.
LEMMA CancelledWon ==
    ASSUME NEW job, RowInv(job), NEW now \in Time
    PROVE  SameRun(job, Cancelled(job, now)) /\ Won(Cancelled(job, now))
<1> DEFINE closed == IF job.token = NULL THEN job
                     ELSE EndAttempt(job, "cancelled", now)
           idle == Unleased(closed)
           m == Cancelled(job, now)
<1>1. /\ closed \in Job /\ SameFrame(closed, job)
      /\ Newest(closed) = Newest(job)
  <2>1. CASE job.token = NULL
    BY <2>1 DEF RowInv, SameFrame
  <2>2. CASE job.token # NULL
    BY <2>2, EndedFields DEF Outcomes
  <2> QED
    BY <2>1, <2>2
<1>2. m = IF KeepsOldSuccess(job) THEN RestoreSuccess(closed)
          ELSE [idle EXCEPT !.status = "cancelled", !.result = NULL,
                            !.finished = now]
  BY DEF Cancelled
<1> HIDE DEF closed, m
<1>3. CASE KeepsOldSuccess(job)
  <2>1. m.attempts = closed.attempts /\ SameFrame(m, closed)
    BY <1>1, <1>2, <1>3, RestoredFields
  <2>2. SameRun(job, m) /\ Won(m)
    BY <1>1, <1>3, <2>1 DEF SameRun, SameFrame, Newest, Won, KeepsOldSuccess
  <2> QED
    BY <2>2 DEF m
<1>4. CASE ~KeepsOldSuccess(job)
  <2>1. idle \in Job /\ idle.attempts = closed.attempts /\ SameFrame(idle, closed)
    BY <1>1, UnleasedFields
  <2> HIDE DEF idle
  <2>2. m.status = "cancelled" /\ m.attempts = idle.attempts /\ SameFrame(m, idle)
    BY <1>2, <1>4, <2>1 DEF Job, SameFrame
  <2>3. SameRun(job, m) /\ Won(m)
    BY <1>1, <2>1, <2>2 DEF SameRun, SameFrame, Newest, Won
  <2> QED
    BY <2>3 DEF m
<1> QED
  BY <1>3, <1>4

LEMMA PrioritisedWon ==
    ASSUME NEW job \in Job, Won(job), NEW priority
    PROVE  LET m == [job EXCEPT !.priority = priority]
           IN  SameRun(job, m) /\ Won(m)
<1> DEFINE m == [job EXCEPT !.priority = priority]
<1>1. m.status = job.status /\ m.attempts = job.attempts /\ SameFrame(m, job)
  BY DEF Job, SameFrame
<1> HIDE DEF m
<1>2. SameRun(job, m) /\ Won(m)
  BY <1>1 DEF SameRun, SameFrame, Newest, Won
<1> QED
  BY <1>2 DEF m

\* Every operation, on every row.
LEMMA OperatedWon ==
    ASSUME NEW old, RowInv(old), RowKept(old), Won(old), NEW new, NEW now \in Time,
           Operated(old, new, now)
    PROVE  Won(new)
<1>1. old \in Job
  BY DEF RowInv
<1>2. CASE new \in {old, ExpireIfDue(old, now), Absent("deleted")}
  <2>1. Won(Absent("deleted"))
    BY AbsentIsBlank DEF TerminalStatuses, Blank, Won
  <2> QED
    BY <1>2, <2>1, ExpiredWon
<1>3. CASE old.status = "none" /\ new.maxAttempt \in Nat \ {0} /\ Blank(new)
  BY <1>3 DEF Blank, Won
<1>4. CASE new = Cancelled(old, now)
  BY <1>4, CancelledWon
<1>5. CASE new = Retried(old, now) \/ \E options \in Replays :
                                           new = Replayed(old, options, now)
  <2>1. new.status = "pending"
    BY <1>1, <1>5 DEF Retried, Replayed, Job
  <2> QED
    BY <2>1 DEF Won
<1>6. ASSUME NEW priority \in Priorities, new = [old EXCEPT !.priority = priority]
      PROVE  Won(new)
  BY <1>1, <1>6, PrioritisedWon
<1>7. ASSUME NEW w \in Workers, new = Claimed(old, w, now)
      PROVE  Won(new)
  <2>1. new.status = "running"
    BY <1>1, <1>7 DEF Claimed, Job
  <2> QED
    BY <2>1 DEF Won
<1>8. ASSUME NEW w \in Workers, NEW token \in DOMAIN old.attempts,
             \/ CanHold(old, w, token, now)
             \/ CanReclaim(old, w, token, now, Registered),
             new \in {Beaten(Hold(old, w, token, now), now),
                      Succeeded(Hold(old, w, token, now), now),
                      Failed(Hold(old, w, token, now), now),
                      Released(Hold(old, w, token, now), now)}
      PROVE  Won(new)
  <2>1. token \in Nat
    BY <1>1 DEF Job
  <2>2. RowInv(Hold(old, w, token, now)) /\ Hold(old, w, token, now).token # NULL
    BY <1>8, <2>1, HeldRow
  <2> QED
    BY <1>8, <2>2, ReportedWon
<1> QED
  BY <1>2, <1>3, <1>4, <1>5, <1>6, <1>7, <1>8 DEF Operated

LEMMA RowsAlwaysWon ==
    Spec => [](IInv /\ RowsKept /\ RowsDated /\ RowsWon)
<1>1. Init => RowsWon
  <2>1. Won(Absent("none"))
    BY AbsentIsBlank DEF TerminalStatuses, Blank, Won
  <2> QED
    BY <2>1 DEF Init, RowsWon
<1>2. IInv /\ RowsKept /\ RowsWon /\ [Next]_vars => RowsWon'
  <2> SUFFICES ASSUME IInv, RowsKept, RowsWon, [Next]_vars, NEW j \in Jobs
               PROVE  Won(jobs'[j])
    BY DEF RowsWon
  <2>1. RowInv(jobs[j]) /\ RowKept(jobs[j]) /\ Won(jobs[j]) /\ TypeOK
    BY DEF IInv, RowsKept, RowsWon
  <2>2. PICK now \in Nows : Operated(jobs[j], jobs'[j], now)
    BY <2>1, StepsOperate
  <2> QED
    BY <2>1, <2>2, NowsAreTimes, OperatedWon
<1> QED
  BY <1>1, <1>2, RowsAlwaysDated, PTL DEF Spec

-----------------------------------------------------------------------------
(* The steps of Progress.tla. *)

\* The steps that are stored of a job are those of its newest run, which has a
\* deadline until an operator queues the job again.
StepsKept(job, steps) ==
    steps # NULL =>
        /\ Len(steps) <= MAX_PROGRESS_STEPS
        /\ Distinct(steps)
        /\ job.deadline # NULL
        /\ \A i \in DOMAIN steps : steps[i].run = Newest(job)

ProgressKept ==
    /\ progress \in [Jobs -> {NULL} \cup Seq(StoredStep)]
    /\ \A j \in Jobs : StepsKept(jobs[j], progress[j])

LEMMA SameStepsKept ==
    ASSUME NEW old, NEW new, NEW steps, StepsKept(old, steps), SameRun(old, new)
    PROVE  StepsKept(new, steps)
  BY DEF StepsKept, SameRun, SameFrame

\* What is stored of a heartbeat.
LEMMA UpsertedList ==
    ASSUME NEW steps \in {NULL} \cup Seq(StoredStep),
           NEW body \in Bodies, NEW run \in Nat,
           steps # NULL => Distinct(steps) /\ Len(steps) <= MAX_PROGRESS_STEPS
    PROVE  LET m == Upserted(steps, FromRun(ValidProgress(body), run))
               old == IF steps = NULL THEN << >> ELSE steps
           IN  \/ m = steps
               \/ /\ m \in Seq(StoredStep) /\ Distinct(m)
                  /\ Len(m) <= MAX_PROGRESS_STEPS
                  /\ \A i \in DOMAIN old : i \in DOMAIN m /\ m[i].id = old[i].id
                  /\ \A i \in DOMAIN m : \/ \E k \in DOMAIN old : m[i] = old[k]
                                         \/ m[i].run = run
<1> DEFINE sent == FromRun(ValidProgress(body), run)
           old == IF steps = NULL THEN << >> ELSE steps
           merged == Merged(old, sent)
           m == Upserted(steps, sent)
<1>1. old \in Seq(StoredStep) /\ Distinct(old)
  BY DEF Distinct
<1>2. m = IF sent = NULL \/ Len(merged) > MAX_PROGRESS_STEPS THEN steps
          ELSE merged
  BY DEF Upserted
<1>3. CASE sent = NULL \/ Len(merged) > MAX_PROGRESS_STEPS
  BY <1>2, <1>3
<1>4. CASE sent # NULL /\ ~(Len(merged) > MAX_PROGRESS_STEPS)
  <2> DEFINE valid == ValidProgress(body)
  <2>1. /\ valid # NULL
        /\ sent = [i \in DOMAIN valid |-> [id |-> valid[i].id,
                                           status |-> valid[i].status, run |-> run]]
    BY <1>4 DEF FromRun
  <2>2. valid = body /\ body # NULL /\ Distinct(body)
    BY <2>1 DEF ValidProgress
  <2>3. PICK n \in 1..MaxSent : body \in [1..n -> [id : StepIds, status : SentStatuses]]
    BY <2>2 DEF Bodies
  <2> HIDE DEF valid, sent
  <2>4. /\ DOMAIN sent = 1..n
        /\ \A i \in 1..n : /\ sent[i] \in StoredStep /\ sent[i].run = run
                           /\ sent[i].id = body[i].id
    <3> SUFFICES ASSUME NEW i \in 1..n
                 PROVE  /\ sent[i] \in StoredStep /\ sent[i].run = run
                        /\ sent[i].id = body[i].id
      BY <2>1, <2>2, <2>3
    <3>1. body[i] \in [id : StepIds, status : SentStatuses]
      BY <2>3
    <3>2. sent[i] = [id |-> body[i].id, status |-> body[i].status, run |-> run]
      BY <2>1, <2>2, <2>3
    <3>3. SentStatuses \subseteq StepStatuses
      BY ProgressAssumption
    <3> QED
      BY <3>1, <3>2, <3>3 DEF StoredStep
  <2>5. sent \in Seq(StoredStep)
    <3>1. sent = [i \in 1..n |-> sent[i]]
      BY <2>1, <2>4
    <3>2. n \in Nat
      BY <2>3, ProgressAssumption
    <3> QED
      BY <2>4, <3>1, <3>2
  <2>6. Distinct(sent)
    BY <2>2, <2>3, <2>4 DEF Distinct
  <2> HIDE DEF old, merged, m
  <2>7. /\ merged \in Seq(StoredStep) /\ Distinct(merged)
        /\ \A i \in DOMAIN old : i \in DOMAIN merged /\ merged[i].id = old[i].id
        /\ \A i \in DOMAIN merged : \/ \E k \in DOMAIN old : merged[i] = old[k]
                                    \/ \E k \in DOMAIN sent : merged[i] = sent[k]
    BY <1>1, <2>5, <2>6, MergedList DEF merged
  <2>8. Len(merged) <= MAX_PROGRESS_STEPS
    BY <1>4, <2>7, ProgressAssumption
  <2>9. m = merged
    BY <1>2, <1>4
  <2>10. \A i \in DOMAIN m : \/ \E k \in DOMAIN old : m[i] = old[k]
                             \/ m[i].run = run
    BY <2>4, <2>7, <2>9
  <2> QED
    BY <2>7, <2>8, <2>9, <2>10 DEF m, old, sent
<1> QED
  BY <1>3, <1>4

\* A transaction that writes one row leaves the run of the others alone.
LEMMA OneRunStays ==
    ASSUME TypeOK, NEW k \in Jobs, NEW row, Update(k, row),
           jobs[k].deadline = NULL \/ SameRun(jobs[k], row), NEW j \in Jobs
    PROVE  jobs[j].deadline # NULL => SameRun(jobs[j], jobs'[j])
<1>1. jobs'[j] = IF j = k THEN row ELSE jobs[j]
  BY DEF TypeOK, Update
<1> QED
  BY <1>1 DEF SameRun, SameFrame

\* A row that was never inserted has no deadline.
LEMMA NewHasNoDeadline ==
    ASSUME NEW job, RowKept(job), job.status = "none"
    PROVE  job.deadline = NULL
<1>1. job.attempts = << >>
  BY DEF RowKept, NewIsEmpty
<1>2. Newest(job) = 0
  BY <1>1 DEF Newest
<1> QED
  BY <1>2 DEF RowKept, Timely, DeadlineOfNewest

\* A call with a token of a job, and what it writes.
LEMMA HolderStays ==
    ASSUME IInv, RowsKept, RowsWon, NEW k \in Jobs, NEW w \in Workers,
           NEW token \in DOMAIN jobs[k].attempts, NEW now \in HolderNows(k, token),
           \/ CanHold(jobs[k], w, token, now)
           \/ CanReclaim(jobs[k], w, token, now, Registered)
    PROVE  LET h == Hold(jobs[k], w, token, now)
           IN  /\ token = Newest(jobs[k]) /\ token \in Nat
               /\ Beaten(h, now).status = "running"
               /\ Beaten(h, now).deadline # NULL
               /\ \A row \in {Beaten(h, now), Succeeded(h, now), Failed(h, now),
                              Released(h, now)} : SameRun(jobs[k], row)
<1> DEFINE h == Hold(jobs[k], w, token, now)
<1>1. RowInv(jobs[k]) /\ RowKept(jobs[k]) /\ now \in Time
  BY NowsAreTimes DEF IInv, RowsKept, HolderNows
<1>2. token \in Nat
  BY <1>1 DEF RowInv, Job
<1>3. token = Newest(jobs[k])
  BY <1>1, <1>2, HolderIsNewest
<1>4. RowInv(h) /\ h.token # NULL
  BY <1>1, <1>2, HeldRow
<1>5. SameRun(jobs[k], h)
  BY <1>1, HeldWrites DEF SameRun
<1>6. h.deadline # NULL
  BY <1>4 DEF RowInv, RowChecks, LeaseChecks
<1> HIDE DEF h
<1>7. /\ Beaten(h, now).status = "running"
      /\ \A row \in {Beaten(h, now), Succeeded(h, now), Failed(h, now),
                     Released(h, now)} : SameRun(h, row)
  BY <1>1, <1>4, ReportedWon
<1>8. \A row : SameRun(h, row) => SameRun(jobs[k], row)
  BY <1>5 DEF SameRun, SameFrame
<1>9. Beaten(h, now).deadline # NULL
  BY <1>6, <1>7 DEF SameRun, SameFrame
<1> QED
  BY <1>2, <1>3, <1>7, <1>8, <1>9 DEF h

\* What is no claim, no requeue and no delete leaves every run its job's.
LEMMA OthersLeaveTheRun ==
    ASSUME IInv, RowsKept, RowsWon, Other, NEW j \in Jobs
    PROVE  jobs[j].deadline # NULL => SameRun(jobs[j], jobs'[j])
<1> DEFINE Goal == jobs[j].deadline # NULL => SameRun(jobs[j], jobs'[j])
<1>1. /\ TypeOK
      /\ \A k \in Jobs : RowInv(jobs[k]) /\ RowKept(jobs[k]) /\ Won(jobs[k])
  BY DEF IInv, RowsKept, RowsWon
<1>2. CASE CleanupFails \/ Tick \/ WorkerStep
  <2>1. UNCHANGED jobs
    BY <1>2 DEF CleanupFails, Tick, WorkerStep, RegisterWorker, HeartbeatWorker,
                DeleteWorker
  <2> QED
    BY <2>1 DEF SameRun, SameFrame
<1>3. ASSUME NEW now \in Nows, CleanupExpire(now)
      PROVE  Goal
  <2>1. jobs'[j] = ExpireIfDue(jobs[j], now) /\ now \in Time
    BY <1>1, <1>3, NowsAreTimes DEF CleanupExpire
  <2> QED
    BY <1>1, <2>1, ExpiredWon
<1>4. ASSUME NEW k \in Jobs, NEW now \in Nows, NEW type \in Types,
             NEW priority \in Priorities, NEW maxRun \in MaxRuns,
             NEW maxAttempt \in MaxAttempts, NEW methods \in MethodCounts,
             CreateJob(k, type, priority, maxAttempt, maxRun, methods, now)
      PROVE  Goal
  <2>1. jobs[k].status = "none"
    BY <1>4 DEF CreateJob
  <2>2. jobs[k].deadline = NULL
    BY <1>1, <2>1, NewHasNoDeadline
  <2> QED
    BY <1>1, <1>4, <2>2, OneRunStays DEF CreateJob
<1>5. ASSUME NEW k \in Jobs, NEW now \in Nows, CancelJob(k, now)
      PROVE  Goal
  <2>1. SameRun(jobs[k], Cancelled(jobs[k], now))
    BY <1>1, NowsAreTimes, CancelledWon
  <2> QED
    BY <1>1, <1>5, <2>1, OneRunStays DEF CancelJob
<1>6. ASSUME NEW k \in Jobs, NEW priority \in Priorities, SetPriority(k, priority)
      PROVE  Goal
  <2> DEFINE row == [jobs[k] EXCEPT !.priority = priority]
  <2>1. SameRun(jobs[k], row)
    BY <1>1, PrioritisedWon DEF RowInv
  <2>2. Update(k, row)
    BY <1>6 DEF SetPriority
  <2> HIDE DEF row
  <2> QED
    BY <1>1, <2>1, <2>2, OneRunStays
<1>7. ASSUME NEW k \in Jobs, NEW w \in Workers,
             NEW token \in DOMAIN jobs[k].attempts, NEW now \in HolderNows(k, token),
             Reports(k, w, token, now)
      PROVE  Goal
  <2> DEFINE h == Hold(jobs[k], w, token, now)
  <2>1. \/ CanHold(jobs[k], w, token, now)
        \/ CanReclaim(jobs[k], w, token, now, Registered)
    BY <1>7 DEF Reports, FinishSuccess, FinishFailure, ReleaseJob, HoldOrReclaim
  <2>2. PICK row \in {Succeeded(h, now), Failed(h, now), Released(h, now)} :
            Update(k, row)
    BY <1>7 DEF Reports, FinishSuccess, FinishFailure, ReleaseJob
  <2>3. SameRun(jobs[k], row)
    BY <2>1, <2>2, HolderStays
  <2> QED
    BY <1>1, <2>2, <2>3, OneRunStays
<1> HIDE DEF Goal
<1>8. Goal
  BY <1>2, <1>3, <1>4, <1>5, <1>6, <1>7 DEF Other, Reports, Goal
<1> QED
  BY <1>8 DEF Goal

\* The job stays, in the run it has.
Stays(j) ==
    /\ Exists(j) /\ jobs'[j].status # "deleted"
    /\ Newest(jobs'[j]) = Newest(jobs[j])
    /\ jobs[j].status \in {"pending", "running"} \/ jobs'[j].status # "pending"

\* A heartbeat tells of it.
Tells(j, body) ==
    /\ SameRun(jobs[j], jobs'[j])
    /\ jobs'[j].status = "running" /\ jobs'[j].deadline # NULL
    /\ Newest(jobs[j]) \in Nat
    /\ progress'[j] = Upserted(progress[j],
                               FromRun(ValidProgress(body), Newest(jobs[j])))

Stepped(j) ==
    \/ progress'[j] = NULL /\ ~Stays(j)
    \/ /\ progress'[j] = progress[j]
       /\ jobs[j].deadline # NULL => SameRun(jobs[j], jobs'[j])
    \/ \E body \in Bodies : Tells(j, body)

\* The steps of one job are written, or dropped, and those of the others stay.
LEMMA OneStepped ==
    ASSUME TypeOK, ProgressKept, NEW k \in Jobs, NEW row, Update(k, row),
           NEW steps, progress' = [progress EXCEPT ![k] = steps],
           Stepped(k), NEW j \in Jobs
    PROVE  Stepped(j)
<1>1. CASE j = k
  BY <1>1
<1>2. CASE j # k
  <2>1. jobs'[j] = jobs[j] /\ progress'[j] = progress[j]
    BY <1>2 DEF TypeOK, Update, ProgressKept
  <2> QED
    BY <2>1 DEF Stepped, SameRun, SameFrame
<1> QED
  BY <1>1, <1>2

\* An operation that drops them.
LEMMA DroppedStepped ==
    ASSUME TypeOK, ProgressKept, NEW k \in Jobs, NEW row, Update(k, row), Reset(k),
           \/ row.status = "deleted"
           \/ row.status = "pending" /\ IsTerminal(jobs[k])
           \/ Newest(row) # Newest(jobs[k]),
           NEW j \in Jobs
    PROVE  Stepped(j)
<1>1. progress' = [progress EXCEPT ![k] = NULL]
  BY DEF Reset
<1>2. jobs'[k] = row /\ progress'[k] = NULL
  BY <1>1 DEF TypeOK, Update, ProgressKept
<1>3. Stepped(k)
  BY <1>2 DEF Stepped, Stays, IsTerminal, TerminalStatuses
<1> QED
  BY <1>1, <1>3, OneStepped

LEMMA StepsOfAJob ==
    ASSUME IInv, RowsKept, RowsWon, ProgressKept, [ProgressNext]_progressVars,
           NEW j \in Jobs
    PROVE  Stepped(j)
<1>1. /\ TypeOK /\ jobs \in [Jobs -> Job]
      /\ \A k \in Jobs : RowInv(jobs[k]) /\ RowKept(jobs[k])
  BY DEF IInv, RowsKept, TypeOK
<1>2. ASSUME NEW w \in Workers, NEW type \in Types, NEW k \in Jobs, NEW now \in Nows,
             Claim(w, type, k, now)
      PROVE  Stepped(j)
  <2> DEFINE row == Claimed(jobs[k], w, now)
             attempt == [worker |-> w, outcome |-> NULL, started |-> now,
                         ended |-> NULL, replay |-> jobs[k].replay # NULL]
  <2>1. Update(k, row) /\ Reset(k)
    BY <1>2 DEF Claim, ClaimJob
  <2>2. row.attempts = Append(jobs[k].attempts, attempt)
    BY <1>1 DEF Claimed, Job
  <2>3. jobs[k].attempts \in Seq(Attempt)
    BY <1>1 DEF Job
  <2> HIDE DEF row, attempt
  <2>4. Newest(row) # Newest(jobs[k])
    BY <2>2, <2>3 DEF Newest
  <2> QED
    BY <1>1, <2>1, <2>4, DroppedStepped
<1>3. ASSUME NEW k \in Jobs, NEW now \in Nows, Retry(k, now)
      PROVE  Stepped(j)
  <2> DEFINE row == Retried(jobs[k], now)
  <2>1. Update(k, row) /\ Reset(k) /\ IsTerminal(jobs[k])
    BY <1>3 DEF Retry, RetryJob, IsTerminal, TerminalStatuses
  <2>2. row.status = "pending"
    BY <1>1 DEF Retried, Job
  <2> HIDE DEF row
  <2> QED
    BY <1>1, <2>1, <2>2, DroppedStepped
<1>4. ASSUME NEW k \in Jobs, NEW now \in Nows, NEW options \in Replays,
             Replay(k, options, now)
      PROVE  Stepped(j)
  <2> DEFINE row == Replayed(jobs[k], options, now)
  <2>1. Update(k, row) /\ Reset(k) /\ IsTerminal(jobs[k])
    BY <1>4 DEF Replay, ReplayJob, IsTerminal, TerminalStatuses
  <2>2. row.status = "pending"
    BY <1>1 DEF Replayed, Job
  <2> HIDE DEF row
  <2> QED
    BY <1>1, <2>1, <2>2, DroppedStepped
<1>5. ASSUME NEW k \in Jobs, Delete(k)
      PROVE  Stepped(j)
  <2>1. Update(k, Absent("deleted")) /\ Reset(k)
    BY <1>5 DEF Delete, DeleteJob
  <2>2. Absent("deleted").status = "deleted"
    BY DEF Absent, NewJob
  <2> QED
    BY <1>1, <2>1, <2>2, DroppedStepped
<1>6. CASE Purge
  <2>1. /\ jobs'[j] = IF Purgeable(jobs[j], cleaner) THEN Absent("deleted") ELSE jobs[j]
        /\ progress'[j] = IF jobs'[j].status = "deleted" THEN NULL ELSE progress[j]
    BY <1>6 DEF Purge, CleanupPurge
  <2>2. Absent("deleted").status = "deleted"
    BY DEF Absent, NewJob
  <2> QED
    BY <2>1, <2>2 DEF Stepped, Stays, SameRun, SameFrame
<1>7. ASSUME NEW k \in Jobs, NEW w \in Workers,
             NEW token \in DOMAIN jobs[k].attempts, NEW now \in HolderNows(k, token),
             NEW body \in Bodies, Heartbeat(k, w, token, now, body)
      PROVE  Stepped(j)
  <2> DEFINE row == Beaten(Hold(jobs[k], w, token, now), now)
             steps == Upserted(progress[k], FromRun(ValidProgress(body), token))
  <2>1. /\ Update(k, row)
        /\ \/ CanHold(jobs[k], w, token, now)
           \/ CanReclaim(jobs[k], w, token, now, Registered)
    BY <1>7 DEF Heartbeat, HeartbeatJob, HoldOrReclaim
  <2>2. /\ token = Newest(jobs[k]) /\ token \in Nat
        /\ row.status = "running" /\ row.deadline # NULL
        /\ SameRun(jobs[k], row)
    BY <2>1, HolderStays
  <2>3. progress' = [progress EXCEPT ![k] = steps]
    BY <1>7 DEF Heartbeat
  <2> HIDE DEF row
  <2>4. jobs'[k] = row /\ progress'[k] = steps
    BY <2>1, <2>3 DEF TypeOK, IInv, Update, ProgressKept
  <2>5. Tells(k, body)
    BY <2>2, <2>4 DEF Tells
  <2> HIDE DEF steps
  <2>6. Stepped(k)
    BY <2>5 DEF Stepped
  <2> QED
    BY <1>1, <2>1, <2>3, <2>6, OneStepped
<1>8. CASE Other
  BY <1>8, OthersLeaveTheRun DEF Other, Stepped
<1>9. CASE UNCHANGED progressVars
  BY <1>9 DEF progressVars, Stepped, SameRun, SameFrame
<1> QED
  BY <1>2, <1>3, <1>4, <1>5, <1>6, <1>7, <1>8, <1>9 DEF ProgressNext

\* What is stored of a job afterwards.
LEMMA SteppedKept ==
    ASSUME NEW j \in Jobs, Stepped(j), progress[j] \in {NULL} \cup Seq(StoredStep),
           StepsKept(jobs[j], progress[j])
    PROVE  /\ progress'[j] \in {NULL} \cup Seq(StoredStep)
           /\ StepsKept(jobs'[j], progress'[j])
           /\ Stays(j) =>
                 /\ \A i \in DOMAIN Steps(j) :
                       i \in DOMAIN Steps(j)' /\ Steps(j)'[i].id = Steps(j)[i].id
                 /\ Len(Steps(j)') <= MAX_PROGRESS_STEPS
                 /\ Steps(j)' # Steps(j) => jobs'[j].status = "running"
<1>1. NULL \notin Seq(StoredStep)
  BY NoStepsAssumption DEF StoredStep
<1>2. /\ Steps(j) = IF progress[j] = NULL THEN << >> ELSE progress[j]
      /\ Steps(j)' = IF progress'[j] = NULL THEN << >> ELSE progress'[j]
  BY DEF Steps
<1>3. 0 <= MAX_PROGRESS_STEPS /\ Len(<< >>) = 0
  BY ProgressAssumption
<1>4. CASE progress'[j] = NULL /\ ~Stays(j)
  BY <1>4 DEF StepsKept
<1>5. CASE /\ progress'[j] = progress[j]
           /\ jobs[j].deadline # NULL => SameRun(jobs[j], jobs'[j])
  <2>1. StepsKept(jobs'[j], progress'[j])
    BY <1>5, SameStepsKept DEF StepsKept
  <2>2. Steps(j)' = Steps(j) /\ Len(Steps(j)') <= MAX_PROGRESS_STEPS
    BY <1>2, <1>3, <1>5 DEF StepsKept
  <2> QED
    BY <1>5, <2>1, <2>2
<1>6. ASSUME NEW body \in Bodies, Tells(j, body)
      PROVE  /\ progress'[j] \in {NULL} \cup Seq(StoredStep)
             /\ StepsKept(jobs'[j], progress'[j])
             /\ \A i \in DOMAIN Steps(j) :
                   i \in DOMAIN Steps(j)' /\ Steps(j)'[i].id = Steps(j)[i].id
             /\ Len(Steps(j)') <= MAX_PROGRESS_STEPS
             /\ jobs'[j].status = "running"
  <2> DEFINE run == Newest(jobs[j])
             m == Upserted(progress[j], FromRun(ValidProgress(body), run))
  <2>1. /\ SameRun(jobs[j], jobs'[j]) /\ run \in Nat
        /\ jobs'[j].status = "running" /\ jobs'[j].deadline # NULL
        /\ progress'[j] = m
    BY <1>6 DEF Tells
  <2>2. Newest(jobs'[j]) = run
    BY <2>1 DEF SameRun
  <2>3. progress[j] # NULL => Distinct(progress[j]) /\ Len(progress[j]) <= MAX_PROGRESS_STEPS
    BY DEF StepsKept
  <2>4. \/ m = progress[j]
        \/ /\ m \in Seq(StoredStep) /\ Distinct(m)
           /\ Len(m) <= MAX_PROGRESS_STEPS
           /\ \A i \in DOMAIN Steps(j) : i \in DOMAIN m /\ m[i].id = Steps(j)[i].id
           /\ \A i \in DOMAIN m : \/ \E k \in DOMAIN Steps(j) : m[i] = Steps(j)[k]
                                  \/ m[i].run = run
    <3> DEFINE old == IF progress[j] = NULL THEN << >> ELSE progress[j]
    <3>1. \/ m = progress[j]
          \/ /\ m \in Seq(StoredStep) /\ Distinct(m)
             /\ Len(m) <= MAX_PROGRESS_STEPS
             /\ \A i \in DOMAIN old : i \in DOMAIN m /\ m[i].id = old[i].id
             /\ \A i \in DOMAIN m : \/ \E k \in DOMAIN old : m[i] = old[k]
                                    \/ m[i].run = run
      <4> HIDE DEF run
      <4> QED
        BY <2>1, <2>3, UpsertedList
    <3>2. Steps(j) = old
      BY <1>2
    <3> HIDE DEF old, m
    <3> QED
      BY <3>1, <3>2
  <2> HIDE DEF m
  <2>5. CASE m = progress[j]
    BY <1>2, <1>3, <2>1, <2>5, SameStepsKept DEF StepsKept
  <2>6. CASE /\ m \in Seq(StoredStep) /\ Distinct(m)
             /\ Len(m) <= MAX_PROGRESS_STEPS
             /\ \A i \in DOMAIN Steps(j) : i \in DOMAIN m /\ m[i].id = Steps(j)[i].id
             /\ \A i \in DOMAIN m : \/ \E k \in DOMAIN Steps(j) : m[i] = Steps(j)[k]
                                    \/ m[i].run = run
    <3>1. Steps(j)' = m
      BY <1>1, <1>2, <2>1, <2>6
    <3>2. \A k \in DOMAIN Steps(j) : Steps(j)[k].run = run
      BY <1>2 DEF StepsKept
    <3>3. \A i \in DOMAIN m : m[i].run = run
      BY <2>6, <3>2
    <3>4. StepsKept(jobs'[j], m)
      BY <2>1, <2>2, <2>6, <3>3 DEF StepsKept
    <3> QED
      BY <2>1, <2>6, <3>1, <3>4
  <2> QED
    BY <2>4, <2>5, <2>6
<1> QED
  BY <1>4, <1>5, <1>6 DEF Stepped

LEMMA ProgressIsKept ==
    IInv /\ RowsKept /\ RowsWon /\ ProgressKept /\ [ProgressNext]_progressVars
    => ProgressKept'
<1> SUFFICES ASSUME IInv, RowsKept, RowsWon, ProgressKept,
                    [ProgressNext]_progressVars
             PROVE  ProgressKept'
  OBVIOUS
<1>1. \A j \in Jobs : /\ progress[j] \in {NULL} \cup Seq(StoredStep)
                      /\ StepsKept(jobs[j], progress[j])
  BY DEF ProgressKept
<1>2. \A j \in Jobs : /\ progress'[j] \in {NULL} \cup Seq(StoredStep)
                      /\ StepsKept(jobs'[j], progress'[j])
  BY <1>1, StepsOfAJob, SteppedKept
<1>3. progress' = [j \in Jobs |-> progress'[j]]
  <2>1. progress = [j \in Jobs |-> progress[j]]
    BY DEF ProgressKept
  <2>2. CASE \E k \in Jobs : \E steps : progress' = [progress EXCEPT ![k] = steps]
    BY <2>1, <2>2
  <2>3. CASE Purge
    BY <2>3 DEF Purge
  <2>4. CASE UNCHANGED progress
    BY <2>1, <2>4
  <2> QED
    BY <2>2, <2>3, <2>4 DEF ProgressNext, Claim, Heartbeat, Retry, Replay, Delete, Reset,
       Other, progressVars
<1> QED
  BY <1>2, <1>3 DEF ProgressKept

\* The store goes on as it does, whatever it keeps of the steps.
LEMMA ProgressFollowsTheStore ==
    /\ ProgressInit => Init
    /\ [ProgressNext]_progressVars => [Next]_vars
<1>1. ASSUME ProgressNext
      PROVE  Next
  <2>1. CASE \E w \in Workers, type \in Types, j \in Jobs, now \in Nows :
                Claim(w, type, j, now)
    BY <2>1 DEF Claim, Next, JobStep, ClaimStep
  <2>2. CASE \E j \in Jobs, w \in Workers :
                \E token \in DOMAIN jobs[j].attempts :
                    \E now \in HolderNows(j, token), body \in Bodies :
                        Heartbeat(j, w, token, now, body)
    BY <2>2 DEF Heartbeat, Next, JobStep, HolderStep
  <2>3. CASE \E j \in Jobs, now \in Nows :
                \/ Retry(j, now)
                \/ \E options \in Replays : Replay(j, options, now)
                \/ Delete(j)
    BY <2>3 DEF Retry, Replay, Delete, Next, JobStep, OperatorStep
  <2>4. CASE Purge
    BY <2>4 DEF Purge, Next, CleanerStep
  <2>5. CASE Other
    BY <2>5 DEF Other, Next, CleanerStep, JobStep, OperatorStep, HolderStep
  <2> QED
    BY <1>1, <2>1, <2>2, <2>3, <2>4, <2>5 DEF ProgressNext
<1>2. UNCHANGED progressVars => UNCHANGED vars
  BY DEF progressVars, vars
<1> QED
  BY <1>1, <1>2 DEF ProgressInit

LEMMA StepsAlwaysKept ==
    ProgressSpec => [](IInv /\ RowsKept /\ RowsDated /\ RowsWon /\ ProgressKept)
<1>1. ProgressSpec => Spec
  BY ProgressFollowsTheStore, PTL DEF ProgressSpec, Spec
<1>2. ProgressInit => ProgressKept
  BY DEF ProgressInit, ProgressKept, StepsKept
<1> QED
  BY <1>1, <1>2, RowsAlwaysWon, ProgressIsKept, PTL DEF ProgressSpec

\* Until the next claim or requeue the steps of a job only grow at the end, up
\* to the limit, and change only while the job runs.
THEOREM StepsAlwaysStay == ProgressSpec => StepsStay
<1> DEFINE Kept == \A j \in Jobs :
                     /\ Exists(j) /\ jobs[j]'.status # "deleted"
                     /\ Newest(jobs[j]') = Newest(jobs[j])
                     /\ jobs[j].status \in {"pending", "running"}
                           \/ jobs[j]'.status # "pending"
                     => /\ \A i \in DOMAIN Steps(j) :
                              i \in DOMAIN Steps(j)' /\ Steps(j)'[i].id = Steps(j)[i].id
                        /\ Len(Steps(j)') <= MAX_PROGRESS_STEPS
                        /\ Steps(j)' # Steps(j) => jobs[j]'.status = "running"
<1>1. IInv /\ RowsKept /\ RowsWon /\ ProgressKept /\ [ProgressNext]_progressVars
      => [Kept]_progressVars
  <2> SUFFICES ASSUME IInv, RowsKept, RowsWon, ProgressKept,
                      [ProgressNext]_progressVars
               PROVE  Kept
    OBVIOUS
  <2>1. \A j \in Jobs : Stays(j) =>
           /\ \A i \in DOMAIN Steps(j) :
                 i \in DOMAIN Steps(j)' /\ Steps(j)'[i].id = Steps(j)[i].id
           /\ Len(Steps(j)') <= MAX_PROGRESS_STEPS
           /\ Steps(j)' # Steps(j) => jobs'[j].status = "running"
    BY StepsOfAJob, SteppedKept DEF ProgressKept
  <2> QED
    BY <2>1 DEF Stays
<1> HIDE DEF Kept
<1>2. ProgressSpec => [][Kept]_progressVars
  BY <1>1, StepsAlwaysKept, PTL DEF ProgressSpec
<1> QED
  BY <1>2 DEF Kept, StepsStay

\* The step that is named is one of the list, with that status.
LEMMA FirstIsOfTheList ==
    ASSUME NEW steps \in Seq(StoredStep), NEW status
    PROVE  \/ First(steps, status) = NULL
           \/ \E i \in DOMAIN steps : /\ steps[i].id = First(steps, status)
                                      /\ steps[i].status = status
<1> DEFINE found == {i \in DOMAIN steps : steps[i].status = status}
           least == CHOOSE i \in found : \A k \in found : i <= k
<1>1. CASE found = {}
  BY <1>1 DEF First
<1>2. CASE found # {}
  <2>1. found \in SUBSET Nat
    OBVIOUS
  <2>2. \E i \in found : \A k \in found : i <= k
    <3> HIDE DEF found
    <3> QED
      BY <1>2, <2>1, LeastOfASet
  <2>3. least \in found
    <3> HIDE DEF found
    <3> QED
      BY <2>2
  <2>4. First(steps, status) = steps[least].id
    BY <1>2 DEF First
  <2> HIDE DEF least
  <2> QED
    BY <2>3, <2>4
<1> QED
  BY <1>1, <1>2

\* What is shown of a job that is well formed, and has these steps.
LEMMA StepsOfARow ==
    ASSUME NEW job, RowInv(job), RowKept(job), Dated(job), Won(job),
           NEW steps \in Seq(StoredStep), StepsKept(job, steps), steps # NULL,
           job.status \notin {"none", "deleted"}
    PROVE  TrueOf(job, steps)
<1> DEFINE items == [i \in DOMAIN steps |->
                        [id |-> steps[i].id,
                         shown |-> ShownStepStatus(steps[i].status, job)]]
           n == Newest(job)
           newest == job.attempts[n]
           card == ProgressCard(job, steps)
           bar == ProgressBar(job, steps)
           at(id) == CHOOSE i \in DOMAIN items : items[i].id = id
<1>1. Distinct(steps) /\ job.deadline # NULL
  BY DEF StepsKept
<1>2. n \in DOMAIN job.attempts
  <2>1. n > 0 /\ job.attempts \in Seq(Attempt)
    BY <1>1 DEF RowKept, Timely, DeadlineOfNewest, RowInv, Job
  <2> QED
    BY <2>1 DEF Newest
<1>3. newest.outcome = NULL <=> job.status = "running"
  BY <1>2 DEF RowInv, LogMatchesLease
<1>4. job.status = "success" => newest.outcome = "succeeded" \/ newest.replay
  BY <1>1 DEF Won, Dated
<1>5. /\ DOMAIN items = DOMAIN steps
      /\ \A i \in DOMAIN steps :
            /\ items[i].id = steps[i].id
            /\ items[i].shown = ShownStepStatus(steps[i].status, job)
  OBVIOUS
<1>6. CASE steps = << >>
  BY <1>6 DEF ProgressCard, TrueOf
<1>7. CASE steps # << >>
  <2>1. card.items = items /\ card.lastAttempt = (job.status = "pending")
    BY <1>7 DEF ProgressCard
  <2> HIDE DEF items, newest, n
  <2>2. ASSUME NEW i \in DOMAIN steps
        PROVE  /\ items[i].shown = "running" => newest.outcome = NULL
               /\ items[i].shown = "done" =>
                     \/ steps[i].status = "done"
                     \/ newest.outcome = "succeeded"
                     \/ newest.replay
    BY <1>3, <1>4, <1>5 DEF ShownStepStatus
  <2>3. ASSUME NEW i \in DOMAIN steps
        PROVE  at(steps[i].id) = i
    <3>1. /\ at(steps[i].id) \in DOMAIN steps
          /\ steps[at(steps[i].id)].id = steps[i].id
      BY <1>5
    <3> HIDE DEF at
    <3> QED
      BY <1>1, <3>1 DEF Distinct
  <2> HIDE DEF at
  <2>4. ASSUME bar # NULL, bar.step # NULL
        PROVE  \E i \in DOMAIN steps :
                  /\ bar.step = steps[i].id
                  /\ \/ job.status = "running" /\ steps[i].status = "running"
                     \/ /\ job.status \in {"failed", "cancelled"}
                        /\ steps[i].status \in {"failed", "running"}
    <3>1. bar.step = CurrentStep(job, steps)
      BY <1>7, <2>4 DEF ProgressBar
    <3>2. \/ job.status = "running" /\ bar.step = First(steps, "running")
          \/ /\ job.status \in {"failed", "cancelled"}
             /\ \/ bar.step = First(steps, "failed")
                \/ bar.step = First(steps, "running")
      BY <2>4, <3>1 DEF CurrentStep
    <3> HIDE DEF bar
    <3>3. ASSUME NEW status, bar.step = First(steps, status)
          PROVE  \E i \in DOMAIN steps : steps[i].id = bar.step /\ steps[i].status = status
      BY <2>4, <3>3, FirstIsOfTheList
    <3> QED
      BY <3>2, <3>3
  <2>5. ASSUME bar # NULL, bar.step # NULL
        PROVE  IF bar.running THEN items[at(bar.step)].shown = "running"
               ELSE items[at(bar.step)].shown \in {"failed", "stopped"}
    <3>1. PICK i \in DOMAIN steps :
                  /\ bar.step = steps[i].id
                  /\ \/ job.status = "running" /\ steps[i].status = "running"
                     \/ /\ job.status \in {"failed", "cancelled"}
                        /\ steps[i].status \in {"failed", "running"}
      BY <2>4, <2>5
    <3>2. bar.running = (job.status = "running")
      BY <2>5 DEF ProgressBar
    <3> HIDE DEF bar
    <3>3. items[at(bar.step)].shown = ShownStepStatus(steps[i].status, job)
      BY <1>5, <2>3, <3>1
    <3> QED
      BY <3>1, <3>2, <3>3 DEF ShownStepStatus
  <2>6. card.lastAttempt => newest.outcome # NULL
    BY <1>3, <2>1
  <2> HIDE DEF card, bar
  <2> QED
    BY <1>5, <2>1, <2>2, <2>5, <2>6 DEF TrueOf, card, bar, at, newest, n
<1> QED
  BY <1>6, <1>7

\* In every reachable state the steps of a job are of its newest run, and what
\* is shown of them is true of it.
THEOREM StepsAlwaysSpeakOfTheRun == ProgressSpec => []StepsSpeakOfTheRun
<1>1. IInv /\ RowsKept /\ RowsDated /\ RowsWon /\ ProgressKept => StepsSpeakOfTheRun
  <2> SUFFICES ASSUME IInv, RowsKept, RowsDated, RowsWon, ProgressKept
               PROVE  StepsAreOfTheRun /\ StepsShownAreTrue
    BY DEF StepsSpeakOfTheRun
  <2>1. \A j \in Jobs : /\ RowInv(jobs[j]) /\ RowKept(jobs[j]) /\ Dated(jobs[j])
                        /\ Won(jobs[j]) /\ StepsKept(jobs[j], progress[j])
                        /\ progress[j] \in {NULL} \cup Seq(StoredStep)
    BY DEF IInv, RowsKept, RowsDated, RowsWon, ProgressKept
  <2>2. \A j \in Jobs : /\ progress[j] = NULL => Steps(j) = << >>
                        /\ progress[j] # NULL => Steps(j) = progress[j]
    BY DEF Steps
  <2>3. StepsAreOfTheRun
    <3> SUFFICES ASSUME NEW j \in Shown, NEW i \in DOMAIN Steps(j)
                 PROVE  /\ Steps(j)[i].run = Newest(jobs[j])
                        /\ jobs[j].requeued # NULL =>
                              jobs[j].attempts[Newest(jobs[j])].started
                                  >= jobs[j].requeued
      BY DEF StepsAreOfTheRun
    <3>1. j \in Jobs
      BY DEF Shown
    <3>2. progress[j] # NULL /\ Steps(j) = progress[j]
      BY <2>2, <3>1
    <3>3. jobs[j].deadline # NULL /\ Steps(j)[i].run = Newest(jobs[j])
      BY <2>1, <3>1, <3>2 DEF StepsKept
    <3> QED
      BY <2>1, <3>1, <3>3 DEF RowKept, Timely, DeadlineOfNewest
  <2>4. StepsShownAreTrue
    <3> SUFFICES ASSUME NEW j \in Shown
                 PROVE  TrueOf(jobs[j], Steps(j))
      BY DEF StepsShownAreTrue
    <3>1. j \in Jobs /\ jobs[j].status \notin {"none", "deleted"}
      BY DEF Shown, Exists
    <3>2. CASE progress[j] = NULL
      BY <2>2, <3>1, <3>2 DEF ProgressCard, TrueOf
    <3>3. CASE progress[j] # NULL
      BY <2>1, <2>2, <3>1, <3>3, StepsOfARow
    <3> QED
      BY <3>2, <3>3
  <2> QED
    BY <2>3, <2>4
<1> QED
  BY <1>1, StepsAlwaysKept, PTL

-----------------------------------------------------------------------------
(* Collections.tla: sorted lists and sums. *)

\* A finite set that is ordered has an element that comes before no other.
LEMMA LastOfASet ==
    ASSUME NEW S, IsFiniteSet(S), S # {}, NEW R,
           \A x \in S : <<x, x>> \notin R,
           \A x, y, z \in S : <<x, y>> \in R /\ <<y, z>> \in R => <<x, z>> \in R
    PROVE  \E x \in S : \A y \in S : <<x, y>> \notin R
<1> DEFINE HasLast(T) == \E x \in T : \A y \in T : <<x, y>> \notin R
           Bad == {T \in SUBSET S : T # {} /\ ~HasLast(T)}
<1>1. SUFFICES ASSUME Bad # {}
               PROVE  FALSE
  OBVIOUS
<1>2. PICK T \in Bad : \A U \in Bad : <<U, T>> \notin StrictSubsetOrdering(S)
  <2>1. IsWellFoundedOn(StrictSubsetOrdering(S), SUBSET S)
    BY FS_StrictSubsetOrderingWellFounded, FS_FiniteSubsetsOfFinite
  <2> HIDE DEF Bad
  <2>2. Bad \subseteq SUBSET S
    BY DEF Bad
  <2> QED
    BY <1>1, <2>1, <2>2, WFMin
<1>3. PICK y \in T : TRUE
  OBVIOUS
<1>4. CASE T \ {y} = {}
  <2>1. \A z \in T : z = y
    BY <1>4
  <2> QED
    BY <2>1, <1>3
<1>5. CASE T \ {y} # {}
  <2>1. T \ {y} \notin Bad
    <3>1. T \ {y} \in SUBSET S /\ T \in SUBSET S /\ T \ {y} # T
      BY <1>2, <1>3
    <3>2. <<T \ {y}, T>> \in StrictSubsetOrdering(S)
      BY <3>1 DEF StrictSubsetOrdering
    <3> QED
      BY <1>2, <3>2
  <2>2. PICK z \in T \ {y} : \A u \in T \ {y} : <<z, u>> \notin R
    BY <1>5, <2>1
  <2>3. CASE <<z, y>> \notin R
    BY <2>2, <2>3
  <2>4. CASE <<z, y>> \in R
    <3>1. ASSUME NEW u \in T, <<y, u>> \in R
          PROVE  FALSE
      <4>1. u # y
        BY <3>1, <1>3
      <4>2. <<z, u>> \in R
        BY <2>2, <2>4, <3>1, <1>3
      <4> QED
        BY <2>2, <4>1, <4>2, <3>1
    <3> QED
      BY <3>1, <1>3
  <2> QED
    BY <2>3, <2>4
<1> QED
  BY <1>4, <1>5

\* A finite set that is ordered can be sorted.
LEMMA SortedListExists ==
    ASSUME NEW S, IsFiniteSet(S), NEW R,
           \A x \in S : <<x, x>> \notin R,
           \A x, y, z \in S : <<x, y>> \in R /\ <<y, z>> \in R => <<x, z>> \in R
    PROVE  \E s \in [1..Cardinality(S) -> S] :
              \A i, j \in 1..Cardinality(S) :
                  i < j => s[i] # s[j] /\ <<s[j], s[i]>> \notin R
<1> DEFINE Sorts(T, s) == \A i, j \in 1..Cardinality(T) :
                              i < j => s[i] # s[j] /\ <<s[j], s[i]>> \notin R
           HasList(T) == \E s \in [1..Cardinality(T) -> T] : Sorts(T, s)
           Bad == {T \in SUBSET S : ~HasList(T)}
<1>1. SUFFICES ASSUME Bad # {}
               PROVE  FALSE
  OBVIOUS
<1>2. PICK T \in Bad : \A U \in Bad : <<U, T>> \notin StrictSubsetOrdering(S)
  <2>1. IsWellFoundedOn(StrictSubsetOrdering(S), SUBSET S)
    BY FS_StrictSubsetOrderingWellFounded, FS_FiniteSubsetsOfFinite
  <2> HIDE DEF Bad
  <2>2. Bad \subseteq SUBSET S
    BY DEF Bad
  <2> QED
    BY <1>1, <2>1, <2>2, WFMin
<1>3. IsFiniteSet(T) /\ Cardinality(T) \in Nat
  BY FS_Subset, FS_CardinalityType
<1>4. CASE T = {}
  <2>1. Cardinality(T) = 0
    BY <1>4, FS_EmptySet
  <2> DEFINE s == [i \in 1..0 |-> i]
  <2>2. s \in [1..Cardinality(T) -> T]
    BY <2>1
  <2>3. Sorts(T, s)
    BY <2>1
  <2> HIDE DEF s
  <2> QED
    BY <2>2, <2>3
<1>5. CASE T # {}
  <2>1. PICK last \in T : \A y \in T : <<last, y>> \notin R
    BY <1>3, <1>5, LastOfASet
  <2> DEFINE U == T \ {last}
             n == Cardinality(T)
  <2>2. IsFiniteSet(U) /\ Cardinality(U) = n - 1 /\ n \in Nat \ {0}
    BY <1>3, <1>5, FS_RemoveElement, FS_EmptySet
  <2>3. U \notin Bad /\ U \subseteq S
    <3>1. U \in SUBSET S /\ T \in SUBSET S /\ U # T
      BY <1>2, <2>1
    <3>2. <<U, T>> \in StrictSubsetOrdering(S)
      BY <3>1 DEF StrictSubsetOrdering
    <3> QED
      BY <1>2, <3>1, <3>2
  <2>4. PICK s \in [1..(n - 1) -> U] :
           \A i, j \in 1..(n - 1) : i < j => s[i] # s[j] /\ <<s[j], s[i]>> \notin R
    BY <2>2, <2>3
  <2> DEFINE t == [i \in 1..n |-> IF i = n THEN last ELSE s[i]]
  <2> HIDE DEF n, U
  <2>5. \A i \in 1..(n - 1) : t[i] = s[i] /\ s[i] \in T /\ s[i] # last /\ i \in 1..n
    BY <2>2, <2>4 DEF U
  <2>6. \A i \in 1..n : i = n \/ i \in 1..(n - 1)
    BY <2>2
  <2>7. t[n] = last /\ t \in [1..n -> T]
    BY <2>1, <2>2, <2>5, <2>6
  <2> HIDE DEF t
  <2>8. ASSUME NEW i \in 1..n, NEW j \in 1..n, i < j
        PROVE  t[i] # t[j] /\ <<t[j], t[i]>> \notin R
    <3>1. i \in 1..(n - 1)
      BY <2>2, <2>8
    <3>2. CASE j = n
      BY <3>1, <3>2, <2>1, <2>5, <2>7
    <3>3. CASE j \in 1..(n - 1)
      BY <3>1, <3>3, <2>4, <2>5, <2>8
    <3> QED
      BY <3>2, <3>3, <2>6
  <2>9. Sorts(T, t)
    BY <2>8 DEF n
  <2> QED
    BY <2>7, <2>9 DEF n
<1> QED
  BY <1>4, <1>5

\* A list that names every element of a set once has them all.
LEMMA ListHasThemAll ==
    ASSUME NEW S, IsFiniteSet(S), NEW s \in [1..Cardinality(S) -> S],
           \A i, j \in 1..Cardinality(S) : i < j => s[i] # s[j]
    PROVE  /\ Cardinality(S) \in Nat
           /\ \A x \in S : \E i \in 1..Cardinality(S) : s[i] = x
<1> DEFINE n == Cardinality(S)
<1>1. n \in Nat
  BY FS_CardinalityType
<1>2. IsFiniteSet(1..n) /\ Cardinality(1..n) = n
  BY <1>1, FS_Interval
<1> HIDE DEF n
<1>3. ASSUME NEW i \in 1..n, NEW j \in 1..n, s[i] = s[j]
      PROVE  i = j
  BY <1>1, <1>3 DEF n
<1>4. s \in Injection(1..n, S)
  BY <1>3 DEF n, Injection, IsInjective
<1>5. s \in Surjection(1..n, S)
  BY <1>2, <1>4, FS_Injection DEF n
<1> QED
  BY <1>1, <1>5 DEF n, Surjection

\* The union of finitely many finite sets is finite.
LEMMA UnionIsFinite ==
    ASSUME NEW I, IsFiniteSet(I), NEW A, \A i \in I : IsFiniteSet(A[i])
    PROVE  IsFiniteSet(UNION {A[i] : i \in I})
<1> DEFINE F == {A[i] : i \in I}
           f == [i \in I |-> A[i]]
<1>1. f \in Surjection(I, F)
  BY DEF Surjection
<1> HIDE DEF f
<1>2. IsFiniteSet(F)
  BY <1>1, FS_Surjection
<1>3. \A T \in F : IsFiniteSet(T)
  OBVIOUS
<1> QED
  BY <1>2, <1>3, FS_UNION

\* The units of a sum.
Units(f) == UNION {{x} \X (1..f[x]) : x \in DOMAIN f}

LEMMA UnitsAreFinite ==
    ASSUME NEW I, IsFiniteSet(I), NEW f \in [I -> Nat]
    PROVE  /\ SumOf(f) = Cardinality(Units(f))
           /\ IsFiniteSet(Units(f)) /\ SumOf(f) \in Nat
           /\ \A u : u \in Units(f) <=> \E x \in I : \E n \in 1..f[x] : u = <<x, n>>
<1> DEFINE A == [x \in I |-> {x} \X (1..f[x])]
<1>1. \A x \in I : IsFiniteSet(A[x])
  <2> TAKE x \in I
  <2>1. IsFiniteSet({x})
    BY FS_Singleton
  <2>2. IsFiniteSet(1..f[x])
    <3>1. f[x] \in Int
      OBVIOUS
    <3> QED
      BY <3>1, FS_Interval
  <2> QED
    BY <2>1, <2>2, FS_Product
<1>2. Units(f) = UNION {A[x] : x \in I}
  <2>1. DOMAIN f = I
    OBVIOUS
  <2>2. \A x \in I : A[x] = {x} \X (1..f[x])
    OBVIOUS
  <2> HIDE DEF A
  <2>3. {{x} \X (1..f[x]) : x \in DOMAIN f} = {A[x] : x \in I}
    BY <2>1, <2>2
  <2> QED
    BY <2>3 DEF Units
<1>3. IsFiniteSet(Units(f))
  <2> HIDE DEF A
  <2> QED
    BY <1>1, <1>2, UnionIsFinite
<1>4. SumOf(f) = Cardinality(Units(f))
  BY DEF SumOf, Units
<1>5. \A u : u \in Units(f) <=> \E x \in I : \E n \in 1..f[x] : u = <<x, n>>
  <2> TAKE u
  <2>1. \A x \in I : u \in {x} \X (1..f[x]) <=> \E n \in 1..f[x] : u = <<x, n>>
    OBVIOUS
  <2> QED
    BY <2>1 DEF Units
<1> QED
  BY <1>3, <1>4, <1>5, FS_CardinalityType

\* A sum grows with its terms.
LEMMA SumsGrow ==
    ASSUME NEW I, IsFiniteSet(I), NEW f \in [I -> Nat], NEW g \in [I -> Nat],
           \A x \in I : f[x] <= g[x]
    PROVE  SumOf(f) <= SumOf(g)
<1>1. Units(f) \subseteq Units(g)
  <2> SUFFICES ASSUME NEW u \in Units(f)
               PROVE  u \in Units(g)
    OBVIOUS
  <2>1. PICK x \in I : \E n \in 1..f[x] : u = <<x, n>>
    BY UnitsAreFinite
  <2>2. PICK n \in 1..f[x] : u = <<x, n>>
    BY <2>1
  <2>3. f[x] \in Nat /\ g[x] \in Nat /\ f[x] <= g[x]
    OBVIOUS
  <2>4. n \in 1..g[x]
    BY <2>3
  <2> QED
    BY <2>2, <2>4, UnitsAreFinite
<1> QED
  BY <1>1, UnitsAreFinite, FS_Subset

\* A sum is nothing if its terms are.
LEMMA SumOfNothing ==
    ASSUME NEW I, IsFiniteSet(I), NEW f \in [I -> Nat]
    PROVE  SumOf(f) = 0 <=> \A x \in I : f[x] = 0
<1>1. SumOf(f) = 0 <=> Units(f) = {}
  BY UnitsAreFinite, FS_EmptySet
<1>2. ASSUME NEW x \in I, f[x] # 0
      PROVE  Units(f) # {}
  <2>1. f[x] \in Nat
    OBVIOUS
  <2>2. 1 \in 1..f[x]
    BY <1>2, <2>1
  <2>3. <<x, 1>> \in Units(f)
    BY <2>2, UnitsAreFinite
  <2> QED
    BY <2>3
<1>3. ASSUME Units(f) # {}
      PROVE  \E x \in I : f[x] # 0
  <2>1. PICK u : u \in Units(f)
    BY <1>3
  <2>2. PICK x \in I : \E n \in 1..f[x] : u = <<x, n>>
    BY <2>1, UnitsAreFinite
  <2> QED
    BY <2>2
<1> QED
  BY <1>1, <1>2, <1>3

\* The sum of the sizes of sets that have nothing in common.
LEMMA SumOfSizes ==
    ASSUME NEW I, IsFiniteSet(I), NEW A, \A i \in I : IsFiniteSet(A[i]),
           \A i, j \in I : i # j => A[i] \cap A[j] = {},
           NEW f \in [I -> Nat], \A i \in I : f[i] = Cardinality(A[i]),
           NEW U, \A i \in I : A[i] \subseteq U, \A x \in U : \E i \in I : x \in A[i]
    PROVE  IsFiniteSet(U) /\ SumOf(f) = Cardinality(U)
<1> DEFINE nth(i) == CHOOSE b : b \in Bijection(1..f[i], A[i])
           h == [u \in Units(f) |-> nth(u[1])[u[2]]]
<1>1. f \in [I -> Nat] /\ \A i \in I : f[i] = Cardinality(A[i])
  OBVIOUS
<1>2. \A i \in I : nth(i) \in Bijection(1..f[i], A[i])
  <2> TAKE i \in I
  <2>1. ExistsBijection(1..f[i], A[i])
    BY <1>1, FS_CardinalityType
  <2> QED
    BY <2>1 DEF ExistsBijection
<1> HIDE DEF nth
<1>3. \A i \in I : /\ nth(i) \in [1..f[i] -> A[i]]
                   /\ \A m, n \in 1..f[i] : nth(i)[m] = nth(i)[n] => m = n
                   /\ \A x \in A[i] : \E n \in 1..f[i] : nth(i)[n] = x
  <2> TAKE i \in I
  <2>1. nth(i) \in Bijection(1..f[i], A[i])
    BY <1>2
  <2> QED
    BY <2>1 DEF Bijection, Injection, Surjection, IsInjective
<1>4. \A u : u \in Units(f) <=> \E x \in I : \E n \in 1..f[x] : u = <<x, n>>
  BY <1>1, UnitsAreFinite
<1>5. \A i \in I : \A n \in 1..f[i] : /\ <<i, n>> \in Units(f)
                                      /\ h[<<i, n>>] = nth(i)[n]
                                      /\ nth(i)[n] \in A[i] /\ A[i] \subseteq U
  <2> TAKE i \in I
  <2> TAKE n \in 1..f[i]
  <2>1. <<i, n>> \in Units(f)
    BY <1>4
  <2>2. nth(i)[n] \in A[i]
    BY <1>3
  <2> QED
    BY <2>1, <2>2
<1>6. DOMAIN h = Units(f) /\ h = [u \in Units(f) |-> h[u]]
  OBVIOUS
<1> HIDE DEF h
<1>7. h \in [Units(f) -> U]
  <2>1. \A u \in Units(f) : h[u] \in U
    BY <1>4, <1>5
  <2> QED
    BY <1>6, <2>1
<1>8. ASSUME NEW u \in Units(f), NEW v \in Units(f), h[u] = h[v]
      PROVE  u = v
  <2>1. PICK i \in I : \E n \in 1..f[i] : u = <<i, n>>
    BY <1>4
  <2>2. PICK m \in 1..f[i] : u = <<i, m>>
    BY <2>1
  <2>3. PICK j \in I : \E n \in 1..f[j] : v = <<j, n>>
    BY <1>4
  <2>4. PICK n \in 1..f[j] : v = <<j, n>>
    BY <2>3
  <2>5. h[u] \in A[i] /\ h[v] \in A[j]
    BY <1>5, <2>2, <2>4
  <2>6. i = j
    BY <1>8, <2>5
  <2> QED
    BY <1>3, <1>5, <1>8, <2>2, <2>4, <2>6
<1>9. ASSUME NEW x \in U
      PROVE  \E u \in Units(f) : h[u] = x
  <2>1. PICK i \in I : x \in A[i]
    OBVIOUS
  <2>2. PICK n \in 1..f[i] : nth(i)[n] = x
    BY <1>3, <2>1
  <2>3. <<i, n>> \in Units(f) /\ h[<<i, n>>] = nth(i)[n]
    BY <1>5
  <2> QED
    BY <2>2, <2>3
<1>10. h \in Bijection(Units(f), U)
  BY <1>7, <1>8, <1>9 DEF Bijection, Injection, Surjection, IsInjective
<1>11. ExistsBijection(Units(f), U)
  BY <1>10 DEF ExistsBijection
<1>12. IsFiniteSet(Units(f)) /\ SumOf(f) = Cardinality(Units(f))
  BY <1>1, UnitsAreFinite
<1>13. IsFiniteSet(U) /\ Cardinality(U) = SumOf(f)
  BY <1>11, <1>12, FS_Bijection
<1> QED
  BY <1>13

-----------------------------------------------------------------------------
(* The counts of an answer that is read in parts. *)

\* A count was of a set of jobs that have the status still, but for those that
\* changed since; what is read last is of this moment.
CountsKept ==
    /\ touched \subseteq Jobs
    /\ answer # NULL =>
          /\ \A s \in {"pending", "running", "failed"} :
                \E S \in SUBSET Jobs :
                    /\ answer.counts[s] = Cardinality(S)
                    /\ \A j \in Jobs \ touched : j \in S <=> jobs[j].status = s
          /\ answer.part # "counts" => DOMAIN answer.running \subseteq Jobs
    /\ Complete =>
          /\ answer.queues = Queues
          /\ answer.finished = Finished(answer.now - DayMs, answer.now + 1)
          /\ answer.alerts = LostWorkers(answer.now) \cup ExpiredAttempts(answer.now)

LEMMA SameStoreSameAnswer ==
    ASSUME UNCHANGED <<jobs, leases>>, NEW start, NEW end, NEW now
    PROVE  /\ Queues' = Queues
           /\ Finished(start, end)' = Finished(start, end)
           /\ LostWorkers(now)' = LostWorkers(now)
           /\ ExpiredAttempts(now)' = ExpiredAttempts(now)
<1>1. Queues' = Queues
  BY DEF Queues, MinOf
<1>2. Finished(start, end)' = Finished(start, end)
  BY DEF Finished
<1>3. LostWorkers(now)' = LostWorkers(now)
  BY DEF LostWorkers, Registered
<1>4. ExpiredAttempts(now)' = ExpiredAttempts(now)
  BY DEF ExpiredAttempts
<1> QED
  BY <1>1, <1>2, <1>3, <1>4

LEMMA CountsStay ==
    CountsKept /\ AnswerKeeps /\ [OverviewNext]_<<vars, readVars>> => CountsKept'
<1> SUFFICES ASSUME CountsKept, AnswerKeeps, [OverviewNext]_<<vars, readVars>>
             PROVE  CountsKept'
  OBVIOUS
<1>1. ASSUME NEW now \in Nows, Ask(now)
      PROVE  CountsKept'
  <2> DEFINE new == [part |-> "counts", now |-> now, counts |-> Counts]
  <2>1. /\ answer' = new /\ new.part = "counts" /\ new.counts = Counts
        /\ jobs' = jobs /\ touched' = {}
    BY <1>1 DEF Ask, vars
  <2>2. ASSUME NEW s \in {"pending", "running", "failed"}
        PROVE  \E S \in SUBSET Jobs :
                   /\ Counts[s] = Cardinality(S)
                   /\ \A j \in Jobs : j \in S <=> jobs[j].status = s
    <3> DEFINE S == {j \in Jobs : jobs[j].status = s}
    <3>1. Counts[s] = Cardinality(S)
      BY <2>2 DEF Counts
    <3>2. S \in SUBSET Jobs /\ \A j \in Jobs : j \in S <=> jobs[j].status = s
      OBVIOUS
    <3> HIDE DEF S
    <3> QED
      BY <3>1, <3>2
  <2> HIDE DEF new
  <2> QED
    BY <2>1, <2>2 DEF CountsKept, Complete
<1>2. CASE ReadRunning
  <2> DEFINE new == [part |-> "running", now |-> answer.now,
                     counts |-> answer.counts, running |-> Running(answer.now)]
  <2>1. /\ answer # NULL
        /\ answer' = new /\ new.part = "running"
        /\ new.running = Running(answer.now) /\ new.counts = answer.counts
        /\ jobs' = jobs /\ touched' = touched
    BY <1>2 DEF ReadRunning, vars
  <2>2. DOMAIN Running(answer.now) \subseteq Jobs
    BY DEF Running
  <2> HIDE DEF new
  <2> QED
    BY <2>1, <2>2 DEF CountsKept, Complete
<1>3. CASE ReadWorkers
  <2> DEFINE new == [part |-> "workers", now |-> answer.now,
                     counts |-> answer.counts, running |-> answer.running,
                     workers |-> ListWorkers(answer.now)]
  <2>1. /\ answer # NULL /\ answer.part = "running"
        /\ answer' = new /\ new.part = "workers"
        /\ new.running = answer.running /\ new.counts = answer.counts
        /\ jobs' = jobs /\ touched' = touched
    BY <1>3 DEF ReadWorkers, vars
  <2> HIDE DEF new
  <2> QED
    BY <2>1 DEF CountsKept, Complete
<1>4. CASE ReadRest
  <2> DEFINE new(now) == [part |-> "complete", now |-> now,
                     counts |-> answer.counts, running |-> answer.running,
                     workers |-> answer.workers, queues |-> Queues,
                     finished |-> Finished(now - DayMs, now + 1),
                     previous |-> Finished(now - 2 * DayMs, now - DayMs),
                     alerts |-> LostWorkers(now) \cup ExpiredAttempts(now)]
  <2>1. PICK now : now = answer.now
    OBVIOUS
  <2>2. /\ answer # NULL /\ answer.part = "workers"
        /\ answer' = new(now)
        /\ jobs' = jobs /\ leases' = leases /\ touched' = touched
    BY <1>4, <2>1 DEF ReadRest, vars
  <2>3. /\ new(now).part = "complete" /\ new(now).now = now
        /\ new(now).running = answer.running /\ new(now).counts = answer.counts
        /\ new(now).queues = Queues
        /\ new(now).finished = Finished(now - DayMs, now + 1)
        /\ new(now).alerts = LostWorkers(now) \cup ExpiredAttempts(now)
    OBVIOUS
  <2>4. /\ Queues' = Queues
        /\ Finished(now - DayMs, now + 1)' = Finished(now - DayMs, now + 1)
        /\ LostWorkers(now)' = LostWorkers(now)
        /\ ExpiredAttempts(now)' = ExpiredAttempts(now)
    BY <2>2, SameStoreSameAnswer
  <2> HIDE DEF new
  <2> QED
    BY <2>2, <2>3, <2>4 DEF CountsKept, Complete
<1>5. CASE Meanwhile
  <2>1. CASE answer' = NULL
    BY <1>5, <2>1 DEF CountsKept, Complete, Meanwhile
  <2>2. CASE answer' # NULL
    <3>1. /\ answer' = answer /\ answer # NULL /\ ~Complete /\ ~Complete'
          /\ touched \subseteq touched' /\ touched' \subseteq Jobs
          /\ \A j \in Jobs \ touched' : jobs'[j].status = jobs[j].status
      BY <1>5, <2>2 DEF Meanwhile, Complete, CountsKept
    <3> QED
      BY <3>1 DEF CountsKept
  <2> QED
    BY <2>1, <2>2
<1>6. CASE UNCHANGED <<vars, readVars>>
  <2>1. PICK now : now = answer.now
    OBVIOUS
  <2>2. /\ answer' = answer /\ touched' = touched /\ jobs' = jobs /\ leases' = leases
    BY <1>6 DEF vars, readVars
  <2>3. /\ Queues' = Queues
        /\ Finished(now - DayMs, now + 1)' = Finished(now - DayMs, now + 1)
        /\ LostWorkers(now)' = LostWorkers(now)
        /\ ExpiredAttempts(now)' = ExpiredAttempts(now)
    BY <2>2, SameStoreSameAnswer
  <2> QED
    BY <2>1, <2>2, <2>3 DEF CountsKept, Complete
<1> QED
  BY <1>1, <1>2, <1>3, <1>4, <1>5, <1>6 DEF OverviewNext, ReadStep

LEMMA OverviewIsOfTheStore == OverviewSpec => Spec
<1>1. OverviewInit => Init
  BY DEF OverviewInit
<1> QED
  BY <1>1, ReadingLeavesTheStore, PTL DEF OverviewSpec, Spec

LEMMA CountsAreKept == OverviewSpec => [](IInv /\ AnswerKeeps /\ CountsKept)
<1>1. OverviewInit => CountsKept
  BY DEF OverviewInit, CountsKept, Complete
<1> QED
  BY <1>1, CountsStay, AnswersAreKept, PTL DEF OverviewSpec

\* A set of finitely many numbers has a greatest one.
LEMMA GreatestOfASet ==
    ASSUME NEW S \in SUBSET Int, IsFiniteSet(S), S # {}
    PROVE  \E x \in S : \A y \in S : y <= x
<1> DEFINE R == {p \in S \X S : p[1] < p[2]}
<1>1. \A x, y \in S : <<x, y>> \in R <=> x < y
  OBVIOUS
<1>2. /\ \A x \in S : <<x, x>> \notin R
      /\ \A x, y, z \in S : <<x, y>> \in R /\ <<y, z>> \in R => <<x, z>> \in R
  BY <1>1
<1> HIDE DEF R
<1>3. PICK x \in S : \A y \in S : <<x, y>> \notin R
  BY <1>2, LastOfASet
<1>4. ASSUME NEW y \in S
      PROVE  y <= x
  <2>1. ~(x < y) /\ x \in Int /\ y \in Int
    BY <1>1, <1>3
  <2> QED
    BY <2>1
<1> QED
  BY <1>4

\* What an all clear excludes.
SaysClear(a) == Fleet(a).verdict = "all clear"

WaitsLong(a) == PendingTone(OldestWait(a)) = "warn"

LEMMA ClearExcludes ==
    ASSUME NEW a, Cardinality(Lost(a)) \in Nat, SaysClear(a)
    PROVE  /\ Cardinality(Lost(a)) = 0
           /\ ~(FailedShown(a) > 0)
           /\ ~(/\ Busy(a, Live(a, RowsOf(a))) >= Total(Live(a, RowsOf(a)))
                /\ WaitsLong(a))
<1>1. Cardinality(Lost(a)) = 0
  BY DEF SaysClear, Fleet, FleetVerdict
<1>2. ~(FailedShown(a) > 0)
  BY <1>1 DEF SaysClear, Fleet, FleetVerdict
<1>3. ~(/\ Busy(a, Live(a, RowsOf(a))) >= Total(Live(a, RowsOf(a)))
        /\ WaitsLong(a))
  BY <1>1, <1>2 DEF SaysClear, WaitsLong, Fleet, FleetVerdict
<1> QED
  BY <1>1, <1>2, <1>3

\* The queue of a waiting job.
LEMMA QueueOfAJob ==
    ASSUME IInv, NEW j \in Jobs, jobs[j].status = "pending"
    PROVE  LET t == jobs[j].type
           IN  /\ t \in DOMAIN Queues /\ Queues[t].oldest \in Nat
               /\ Queues[t].oldest <= jobs[j].available
<1> DEFINE t == jobs[j].type
           waiting == {k \in Jobs : jobs[k].status = "pending" /\ jobs[k].type = t}
           times == {jobs[k].available : k \in waiting}
<1>1. t \in Types /\ \A k \in Jobs : jobs[k].available \in Nat
  BY DEF IInv, RowInv, Job, Time
<1>2. j \in waiting /\ times \in SUBSET Nat /\ times # {} /\ jobs[j].available \in times
  BY <1>1
<1>3. t \in DOMAIN Queues /\ Queues[t].oldest = MinOf(times)
  BY <1>1, <1>2 DEF Queues
<1> HIDE DEF times
<1>4. MinOf(times) \in times /\ \A y \in times : MinOf(times) <= y
  BY <1>2, LeastOfASet DEF MinOf
<1> QED
  BY <1>2, <1>3, <1>4

\* A job that waits for long makes the oldest wait long.
LEMMA LongWaitIsTold ==
    ASSUME IInv, NEW a, a.queues = Queues, a.now \in Int,
           NEW j \in Jobs, jobs[j].status = "pending",
           jobs[j].available < a.now - QueueWarnMs
    PROVE  WaitsLong(a)
<1> DEFINE t == jobs[j].type
           waits == {Wait(a, u) : u \in DOMAIN a.queues}
<1>1. /\ t \in DOMAIN a.queues /\ a.queues[t].oldest \in Nat
      /\ a.queues[t].oldest <= jobs[j].available
      /\ jobs[j].available \in Nat
  BY QueueOfAJob DEF IInv, RowInv, Job, Time
<1>2. QueueWarnMs \in Nat
  BY OverviewAssumption
<1>3. Wait(a, t) \in Nat /\ Wait(a, t) > QueueWarnMs
  BY <1>1, <1>2 DEF Wait
<1>4. \A u \in DOMAIN a.queues : Wait(a, u) \in Nat
  <2> TAKE u \in DOMAIN a.queues
  <2>1. PICK k \in Jobs : jobs[k].status = "pending" /\ jobs[k].type = u
    BY DEF Queues
  <2>2. a.queues[u].oldest \in Nat
    BY <2>1, QueueOfAJob
  <2> QED
    BY <2>2 DEF Wait
<1>5. IsFiniteSet(waits)
  <2> DEFINE f == [u \in DOMAIN a.queues |-> Wait(a, u)]
  <2>1. DOMAIN a.queues \subseteq Types
    BY DEF Queues
  <2>2. IsFiniteSet(DOMAIN a.queues)
    BY <2>1, FiniteAssumption, FS_Subset
  <2>3. f \in Surjection(DOMAIN a.queues, waits)
    BY DEF Surjection
  <2> HIDE DEF f, waits
  <2> QED
    BY <2>2, <2>3, FS_Surjection
<1>6. waits \in SUBSET Int /\ waits # {} /\ Wait(a, t) \in waits
  BY <1>1, <1>4
<1>7. OldestWait(a) \in waits /\ \A u \in DOMAIN a.queues : Wait(a, u) <= OldestWait(a)
  <2>1. PICK n \in waits : \A y \in waits : y <= n
    <3> HIDE DEF waits
    <3> QED
      BY <1>5, <1>6, GreatestOfASet
  <2>2. n \in waits /\ \A u \in DOMAIN a.queues : Wait(a, u) <= n
    BY <2>1
  <2>3. OldestWait(a) = CHOOSE m \in waits : \A u \in DOMAIN a.queues : Wait(a, u) <= m
    BY <1>1 DEF OldestWait
  <2> HIDE DEF waits
  <2> QED
    BY <2>2, <2>3
<1>8. OldestWait(a) \in Int /\ OldestWait(a) > QueueWarnMs
  <2>1. OldestWait(a) \in Int /\ Wait(a, t) <= OldestWait(a)
    BY <1>1, <1>6, <1>7
  <2> QED
    BY <1>2, <1>3, <2>1
<1> QED
  BY <1>8, NullAssumption DEF PendingTone, WaitsLong

\* If not every slot is taken, a row shows one that is free.
LEMMA FreeSlotIsShown ==
    ASSUME NEW a, RowsOf(a) \subseteq Workers, DOMAIN a.running \subseteq Jobs,
           ~(Busy(a, Live(a, RowsOf(a))) >= Total(Live(a, RowsOf(a))))
    PROVE  \E x \in Rows(a) : x.row.idle > 0
<1> DEFINE W == Live(a, RowsOf(a))
           f == [w \in W |-> Cardinality(JobsOf(a, w))]
           g == [w \in W |-> ConcurrentLimit[w]]
<1>1. W \subseteq Workers /\ IsFiniteSet(W)
  <2>1. W \subseteq Workers
    BY DEF Live
  <2> QED
    BY <2>1, FiniteAssumption, FS_Subset
<1>2. \A w : Cardinality(JobsOf(a, w)) \in Nat
  <2> TAKE w
  <2>1. JobsOf(a, w) \subseteq Jobs
    BY DEF JobsOf
  <2>2. IsFiniteSet(JobsOf(a, w))
    BY <2>1, FiniteAssumption, FS_Subset
  <2> QED
    BY <2>2, FS_CardinalityType
<1>3. \A w \in Workers : ConcurrentLimit[w] \in Nat
  BY OverviewAssumption
<1>4. f \in [W -> Nat] /\ g \in [W -> Nat]
  BY <1>1, <1>2, <1>3
<1>5. ~(SumOf(f) >= SumOf(g)) /\ SumOf(f) \in Nat /\ SumOf(g) \in Nat
  <2>1. ~(SumOf(f) >= SumOf(g))
    BY DEF Busy, Total
  <2> HIDE DEF f, g, W
  <2> QED
    BY <1>1, <1>4, <2>1, UnitsAreFinite
<1>6. ~(\A w \in W : g[w] <= f[w])
  <2> HIDE DEF f, g, W
  <2> QED
    BY <1>1, <1>4, <1>5, SumsGrow
<1>7. PICK w \in W : ~(ConcurrentLimit[w] <= Cardinality(JobsOf(a, w)))
  BY <1>6
<1>8. w \in RowsOf(a) /\ Connected(a, w)
  BY DEF Live
<1>9. WorkerRow(a, w).idle > 0
  <2> DEFINE free == ConcurrentLimit[w] - Cardinality(JobsOf(a, w))
  <2>1. free \in Int /\ free > 0
    BY <1>1, <1>2, <1>3, <1>7
  <2>2. WorkerRow(a, w).idle = IF free > 0 THEN free ELSE 0
    BY <1>8 DEF WorkerRow
  <2> QED
    BY <2>1, <2>2
<1>10. [worker |-> w, row |-> WorkerRow(a, w)] \in Rows(a)
  BY <1>8, RowsAreTheWorkers
<1> QED
  BY <1>9, <1>10

\* What the parts of an answer are made of.
LEMMA ExpiredAreExpired ==
    ASSUME NEW now
    PROVE  \A x \in ExpiredAttempts(now) : x.kind = "attempt_expired"
BY DEF ExpiredAttempts

LEMMA FinishedCounts ==
    ASSUME NEW start, NEW end
    PROVE  Finished(start, end).failed =
               Cardinality({j \in Jobs : /\ jobs[j].status = "failed"
                                         /\ jobs[j].finished >= start
                                         /\ jobs[j].finished < end})
BY DEF Finished

\* An all clear is not said over what nobody touched: a failure within a day, a lost
\* worker, or a job that waits while every slot is taken (summary.ts fleetVerdict).
THEOREM AllClearIsAlwaysTrue == OverviewSpec => []AllClearIsTrue
<1>1. IInv /\ AnswerKeeps /\ CountsKept => AllClearIsTrue
  <2> SUFFICES ASSUME IInv, AnswerKeeps, CountsKept, Complete,
                      SaysClear(answer)
               PROVE  /\ \A j \in Jobs \ touched :
                            /\ ~(/\ jobs[j].status = "failed"
                                 /\ jobs[j].finished \in (answer.now - DayMs)..answer.now)
                            /\ jobs[j].status = "pending"
                                   /\ jobs[j].available < answer.now - QueueWarnMs
                               => \E x \in Rows(answer) : x.row.idle > 0
                      /\ \A w \in Registered \ beaten :
                            leases[w] \notin (answer.now - AlertWorkerMs)..answer.now
    BY DEF AllClearIsTrue, SaysClear
  <2> DEFINE now == answer.now
             missing == {w \in Registered : leases[w] \in (now - AlertWorkerMs)..now}
  <2>1. /\ now \in Int /\ RowsOf(answer) \subseteq Workers
        /\ DOMAIN answer.running \subseteq Jobs
        /\ answer.queues = Queues
        /\ answer.finished = Finished(now - DayMs, now + 1)
        /\ answer.alerts = LostWorkers(now) \cup ExpiredAttempts(now)
    BY DEF AnswerKeeps, CountsKept, Complete
  <2> HIDE DEF now
  <2>3. Lost(answer) = missing
    <3>1. ASSUME NEW x \in answer.alerts, x.kind = "worker_lost"
          PROVE  x.worker \in missing
      <4>1. x \notin ExpiredAttempts(now)
        BY <3>1, ExpiredAreExpired
      <4>2. x \in LostWorkers(now)
        BY <2>1, <3>1, <4>1
      <4>3. PICK w \in missing : x = [kind |-> "worker_lost", worker |-> w, job |-> NULL,
                                      at |-> leases[w]]
        BY <4>2 DEF LostWorkers
      <4> QED
        BY <4>3
    <3>2. ASSUME NEW w \in missing
          PROVE  \E x \in answer.alerts : x.kind = "worker_lost" /\ x.worker = w
      <4> DEFINE x == [kind |-> "worker_lost", worker |-> w, job |-> NULL,
                       at |-> leases[w]]
      <4>1. x \in answer.alerts
        BY <2>1 DEF LostWorkers
      <4> QED
        BY <4>1
    <3> HIDE DEF missing
    <3> QED
      BY <3>1, <3>2 DEF Lost
  <2>4. IsFiniteSet(missing) /\ Cardinality(missing) \in Nat
    <3>1. missing \subseteq Workers
      BY DEF Registered
    <3> HIDE DEF missing
    <3>2. IsFiniteSet(missing)
      BY <3>1, FiniteAssumption, FS_Subset
    <3> QED
      BY <3>2, FS_CardinalityType
  <2> HIDE DEF missing
  <2>5. /\ Cardinality(missing) = 0
        /\ ~(FailedShown(answer) > 0)
        /\ ~(/\ Busy(answer, Live(answer, RowsOf(answer)))
                    >= Total(Live(answer, RowsOf(answer)))
             /\ WaitsLong(answer))
    BY <2>3, <2>4, ClearExcludes
  <2>6. missing = {}
    BY <2>4, <2>5, FS_EmptySet
  <2>7. ASSUME NEW j \in Jobs \ touched, jobs[j].status = "failed",
               jobs[j].finished \in (now - DayMs)..now
        PROVE  FALSE
    <3> DEFINE F == {k \in Jobs : /\ jobs[k].status = "failed"
                                  /\ jobs[k].finished >= now - DayMs
                                  /\ jobs[k].finished < now + 1}
    <3>1. answer.finished.failed = Cardinality(F)
      BY <2>1, FinishedCounts
    <3>2. j \in F
      <4>1. DayMs \in Nat
        BY OverviewAssumption
      <4> QED
        BY <2>1, <2>7, <4>1
    <3>3. PICK S \in SUBSET Jobs :
             /\ answer.counts["failed"] = Cardinality(S)
             /\ \A k \in Jobs \ touched : k \in S <=> jobs[k].status = "failed"
      BY DEF CountsKept, Complete
    <3>4. j \in S
      BY <2>7, <3>3
    <3>5. F \subseteq Jobs
      OBVIOUS
    <3> HIDE DEF F
    <3>6. IsFiniteSet(S) /\ IsFiniteSet(F)
      BY <3>5, FiniteAssumption, FS_Subset
    <3>7. /\ Cardinality(S) \in Nat /\ Cardinality(S) # 0
          /\ Cardinality(F) \in Nat /\ Cardinality(F) # 0
      BY <3>2, <3>4, <3>6, FS_EmptySet, FS_CardinalityType
    <3>8. FailedShown(answer) = Min2(Cardinality(S), Cardinality(F))
      BY <3>1, <3>3 DEF FailedShown
    <3>9. Min2(Cardinality(S), Cardinality(F)) > 0
      BY <3>7 DEF Min2
    <3> QED
      BY <2>5, <3>8, <3>9
  <2>8. ASSUME NEW j \in Jobs, jobs[j].status = "pending",
               jobs[j].available < now - QueueWarnMs
        PROVE  \E x \in Rows(answer) : x.row.idle > 0
    <3>1. WaitsLong(answer)
      BY <2>1, <2>8, LongWaitIsTold DEF now
    <3> QED
      BY <2>1, <2>5, <3>1, FreeSlotIsShown
  <2> QED
    BY <2>6, <2>7, <2>8 DEF missing, now
<1> QED
  BY <1>1, CountsAreKept, PTL

-----------------------------------------------------------------------------
(* The banner of the overview. *)

\* Of whom and from when an alert is.
LEMMA AlertsAreOfWorkers ==
    ASSUME IInv, RowsDated, NEW now \in Int,
           NEW x \in LostWorkers(now) \cup ExpiredAttempts(now)
    PROVE  x.worker \in Workers /\ x.at \in Int
<1>1. CASE x \in LostWorkers(now)
  <2>1. PICK w \in Registered : x = [kind |-> "worker_lost", worker |-> w,
                                     job |-> NULL, at |-> leases[w]]
    BY <1>1 DEF LostWorkers
  <2>2. w \in Workers /\ leases[w] \in Int
    BY NullAssumption DEF Registered, IInv, TypeOK, Time
  <2> QED
    BY <2>1, <2>2
<1>2. CASE x \in ExpiredAttempts(now)
  <2>1. PICK j \in Jobs :
           x \in {[kind |-> "attempt_expired", worker |-> jobs[j].attempts[k].worker,
                   job |-> j, at |-> jobs[j].attempts[k].ended] :
                     k \in {k \in DOMAIN jobs[j].attempts :
                               /\ jobs[j].attempts[k].outcome \in
                                     {"lease_expired", "deadline_exceeded"}
                               /\ jobs[j].attempts[k].ended >= now - AlertAttemptMs}}
    BY <1>2 DEF ExpiredAttempts
  <2>2. PICK k \in DOMAIN jobs[j].attempts :
           /\ jobs[j].attempts[k].outcome \in {"lease_expired", "deadline_exceeded"}
           /\ x.worker = jobs[j].attempts[k].worker /\ x.at = jobs[j].attempts[k].ended
    BY <2>1
  <2>3. jobs[j].attempts[k] \in Attempt
    BY DEF IInv, RowInv, Job
  <2>4. jobs[j].attempts[k].ended # NULL
    BY <2>2, NullIsNoString DEF RowsDated, Dated, Outcomes
  <2> QED
    BY <2>2, <2>3, <2>4 DEF Attempt, Time
<1> QED
  BY <1>1, <1>2

\* The alerts of an answer.
AlertsOK(a) ==
    /\ IsFiniteSet(a.alerts)
    /\ \A x \in a.alerts : x.worker \in Workers /\ x.at \in Int

IsLost(a, w) == \E x \in a.alerts : x.worker = w /\ x.kind = "worker_lost"

\* There is one group for each worker.
LEMMA GroupsOfWorkers ==
    ASSUME NEW a, AlertsOK(a)
    PROVE  /\ IsFiniteSet(Groups(a))
           /\ \A g \in Groups(a) : /\ g.worker \in {x.worker : x \in a.alerts}
                                   /\ g.lost = IsLost(a, g.worker)
                                   /\ g.latest \in Int
           /\ \A w \in {x.worker : x \in a.alerts} : \E g \in Groups(a) : g.worker = w
           /\ \A g, h \in Groups(a) : g.worker = h.worker => g = h
<1> DEFINE of(w) == {x \in a.alerts : x.worker = w}
           W == {x.worker : x \in a.alerts}
           G(w) == [worker |-> w,
                    lost |-> \E x \in of(w) : x.kind = "worker_lost",
                    jobs |-> {x.job : x \in of(w)} \ {NULL},
                    latest |-> CHOOSE t \in {x.at : x \in of(w)} :
                                   \A x \in of(w) : x.at <= t]
<1>1. Groups(a) = {G(w) : w \in W}
  BY DEF Groups
<1>2. \A w : G(w).worker = w
  OBVIOUS
<1>3. \A w : G(w).lost = IsLost(a, w)
  <2> TAKE w
  <2>1. (\E x \in of(w) : x.kind = "worker_lost") <=> IsLost(a, w)
    BY DEF IsLost
  <2>2. G(w).lost = (\E x \in of(w) : x.kind = "worker_lost")
    OBVIOUS
  <2> QED
    BY <2>1, <2>2, Zenon DEF IsLost
<1>4. \A w \in W : G(w).latest \in Int
  <2> TAKE w \in W
  <2> DEFINE T == {x.at : x \in of(w)}
  <2>1. T \in SUBSET Int /\ T # {}
    BY DEF AlertsOK
  <2>2. IsFiniteSet(T)
    <3> DEFINE f == [x \in of(w) |-> x.at]
    <3>1. f \in Surjection(of(w), T)
      BY DEF Surjection
    <3>2. IsFiniteSet(of(w))
      BY FS_Subset DEF AlertsOK
    <3> HIDE DEF f, T
    <3> QED
      BY <3>1, <3>2, FS_Surjection
  <2>3. PICK t \in T : \A y \in T : y <= t
    <3> HIDE DEF T
    <3> QED
      BY <2>1, <2>2, GreatestOfASet
  <2>4. \A x \in of(w) : x.at <= t
    BY <2>3
  <2>5. (CHOOSE u \in T : \A x \in of(w) : x.at <= u) \in T
    BY <2>3, <2>4
  <2>6. G(w).latest = CHOOSE u \in T : \A x \in of(w) : x.at <= u
    OBVIOUS
  <2> QED
    BY <2>1, <2>5, <2>6
<1> HIDE DEF G
<1>5. IsFiniteSet(Groups(a))
  <2> DEFINE f == [w \in W |-> G(w)]
  <2>1. W \subseteq Workers
    BY DEF AlertsOK
  <2>2. IsFiniteSet(W)
    BY <2>1, FiniteAssumption, FS_Subset
  <2>3. f \in Surjection(W, Groups(a))
    BY <1>1 DEF Surjection
  <2> HIDE DEF f, W
  <2> QED
    BY <2>2, <2>3, FS_Surjection
<1> QED
  BY <1>1, <1>2, <1>3, <1>4, <1>5

\* Which of two groups stands first.
GoesFirst(g, h) == IF g.lost = h.lost THEN g.latest > h.latest ELSE g.lost

LEMMA GroupsAreOrdered ==
    ASSUME NEW a, AlertsOK(a)
    PROVE  /\ \A g \in Groups(a) : ~GoesFirst(g, g)
           /\ \A f, g, h \in Groups(a) :
                 GoesFirst(f, g) /\ GoesFirst(g, h) => GoesFirst(f, h)
<1> DEFINE rank(g) == IF g.lost THEN 1 ELSE 0
<1>1. \A g \in Groups(a) : g.lost \in BOOLEAN /\ g.latest \in Int
  BY GroupsOfWorkers DEF IsLost
<1>2. \A g, h \in Groups(a) : GoesFirst(g, h) <=>
            \/ rank(g) > rank(h)
            \/ rank(g) = rank(h) /\ g.latest > h.latest
  <2> TAKE g, h \in Groups(a)
  <2>1. g.lost \in {TRUE, FALSE} /\ h.lost \in {TRUE, FALSE}
    BY <1>1
  <2>2. CASE g.lost = TRUE /\ h.lost = TRUE
    <3>1. GoesFirst(g, h) <=> g.latest > h.latest
      BY <2>2, Zenon DEF GoesFirst
    <3>2. rank(g) = 1 /\ rank(h) = 1
      BY <2>2
    <3> HIDE DEF rank
    <3> QED
      BY <3>1, <3>2
  <2>3. CASE g.lost = TRUE /\ h.lost = FALSE
    BY <2>3 DEF GoesFirst
  <2>4. CASE g.lost = FALSE /\ h.lost = TRUE
    BY <2>4 DEF GoesFirst
  <2>5. CASE g.lost = FALSE /\ h.lost = FALSE
    <3>1. GoesFirst(g, h) <=> g.latest > h.latest
      BY <2>5, Zenon DEF GoesFirst
    <3>2. rank(g) = 0 /\ rank(h) = 0
      BY <2>5
    <3> HIDE DEF rank
    <3> QED
      BY <3>1, <3>2
  <2> QED
    BY <2>1, <2>2, <2>3, <2>4, <2>5
<1>3. \A g : rank(g) \in Int
  OBVIOUS
<1> HIDE DEF rank
<1> QED
  BY <1>1, <1>2, <1>3

\* The banner's list is sorted by it.
LEMMA GroupsAreSorted ==
    ASSUME NEW a, AlertsOK(a)
    PROVE  LET n == Cardinality(Groups(a))
               s == GroupAlerts(a)
           IN  /\ s \in [1..n -> Groups(a)]
               /\ \A i, j \in 1..n : i < j => s[i] # s[j] /\ ~GoesFirst(s[j], s[i])
<1> DEFINE S == Groups(a)
           R == {p \in S \X S : GoesFirst(p[1], p[2])}
           OK(s) == \A i, j \in 1..Cardinality(S) :
                        i < j => s[i] # s[j] /\ ~GoesFirst(s[j], s[i])
<1>1. IsFiniteSet(S)
  BY GroupsOfWorkers
<1>2. /\ \A x \in S : <<x, x>> \notin R
      /\ \A x, y, z \in S : <<x, y>> \in R /\ <<y, z>> \in R => <<x, z>> \in R
      /\ \A x, y \in S : <<x, y>> \in R <=> GoesFirst(x, y)
  BY GroupsAreOrdered
<1>3. GroupAlerts(a) = CHOOSE s \in [1..Cardinality(S) -> S] : OK(s)
  BY DEF GroupAlerts, Sorted, GoesFirst
<1> HIDE DEF R, S
<1>4. PICK s \in [1..Cardinality(S) -> S] :
         \A i, j \in 1..Cardinality(S) : i < j => s[i] # s[j] /\ <<s[j], s[i]>> \notin R
  BY <1>1, <1>2, SortedListExists
<1>5. OK(s)
  BY <1>2, <1>4
<1> HIDE DEF OK
<1>6. GroupAlerts(a) \in [1..Cardinality(S) -> S] /\ OK(GroupAlerts(a))
  BY <1>3, <1>5
<1> QED
  BY <1>6 DEF OK, S

LEMMA AlertsAreOK ==
    ASSUME IInv, RowsDated, AnswerKeeps, CountsKept, Complete
    PROVE  AlertsOK(answer)
<1> DEFINE now == answer.now
           expired(j) == {k \in DOMAIN jobs[j].attempts :
                             /\ jobs[j].attempts[k].outcome \in
                                   {"lease_expired", "deadline_exceeded"}
                             /\ jobs[j].attempts[k].ended >= now - AlertAttemptMs}
           alert(j, k) == [kind |-> "attempt_expired", job |-> j,
                           worker |-> jobs[j].attempts[k].worker,
                           at |-> jobs[j].attempts[k].ended]
           A == [j \in Jobs |-> {alert(j, k) : k \in expired(j)}]
           missing == {w \in Registered : leases[w] \in (now - AlertWorkerMs)..now}
           loss(w) == [kind |-> "worker_lost", worker |-> w, job |-> NULL,
                       at |-> leases[w]]
<1>1. \A j \in Jobs : IsFiniteSet(A[j])
  <2> TAKE j \in Jobs
  <2> DEFINE f == [k \in expired(j) |-> alert(j, k)]
             L == DOMAIN jobs[j].attempts
  <2>1. IsFiniteSet(L)
    <3>1. jobs[j].attempts \in Seq(Attempt)
      BY DEF IInv, RowInv, Job
    <3>2. L = 1..Len(jobs[j].attempts) /\ Len(jobs[j].attempts) \in Int
      BY <3>1
    <3> HIDE DEF L
    <3>3. IsFiniteSet(1..Len(jobs[j].attempts))
      BY <3>2, FS_Interval
    <3> QED
      BY <3>2, <3>3
  <2>2. IsFiniteSet(expired(j))
    BY <2>1, FS_Subset
  <2>3. f \in Surjection(expired(j), A[j])
    BY DEF Surjection
  <2> HIDE DEF f, A
  <2> QED
    BY <2>2, <2>3, FS_Surjection
<1>2. ExpiredAttempts(now) = UNION {A[j] : j \in Jobs}
  BY DEF ExpiredAttempts
<1>3. LostWorkers(now) = {loss(w) : w \in missing}
  BY DEF LostWorkers
<1>4. IsFiniteSet(ExpiredAttempts(now))
  <2> HIDE DEF A
  <2> QED
    BY <1>1, <1>2, FiniteAssumption, UnionIsFinite
<1>5. IsFiniteSet(LostWorkers(now))
  <2> DEFINE f == [w \in missing |-> loss(w)]
             L == LostWorkers(now)
  <2>1. missing \subseteq Workers
    BY DEF Registered
  <2>2. f \in Surjection(missing, L)
    BY <1>3 DEF Surjection
  <2> HIDE DEF f, missing, L
  <2>3. IsFiniteSet(missing)
    BY <2>1, FiniteAssumption, FS_Subset
  <2>4. IsFiniteSet(L)
    BY <2>2, <2>3, FS_Surjection
  <2> QED
    BY <2>4 DEF L
<1>6. answer.alerts = LostWorkers(now) \cup ExpiredAttempts(now) /\ now \in Int
  BY DEF AnswerKeeps, CountsKept, Complete
<1> HIDE DEF now
<1>7. IsFiniteSet(answer.alerts)
  BY <1>4, <1>5, <1>6, FS_Union
<1> QED
  BY <1>6, <1>7, AlertsAreOfWorkers DEF AlertsOK

\* What the banner shows of the list.
LEMMA BannerOfTheList ==
    ASSUME NEW a, AlertsOK(a)
    PROVE  LET n == Cardinality(Groups(a))
               m == Min2(n, MaxShown)
               s == GroupAlerts(a)
               b == AlertBanner(a)
           IN  /\ n \in Nat /\ m \in Nat /\ m <= n
               /\ b.more = n - m
               /\ Len(b.shown) = m /\ DOMAIN b.shown = 1..m
               /\ \A i \in 1..m : /\ b.shown[i].worker = s[i].worker
                                  /\ b.shown[i].says = "stopped responding" <=> s[i].lost
<1> DEFINE n == Cardinality(Groups(a))
           m == Min2(n, MaxShown)
           s == GroupAlerts(a)
           b == AlertBanner(a)
           shown == [i \in 1..m |-> AlertText(s[i])]
<1>1. n \in Nat /\ s \in [1..n -> Groups(a)]
  BY GroupsOfWorkers, GroupsAreSorted, FS_CardinalityType
<1>2. Len(s) = n
  BY <1>1
<1>3. m \in Nat /\ m <= n
  BY <1>1, OverviewAssumption DEF Min2
<1>4. b.shown = shown /\ b.more = n - m
  BY <1>2 DEF AlertBanner
<1> HIDE DEF n, m, s, b
<1>5. \A g \in Groups(a) : g.lost \in BOOLEAN
  BY GroupsOfWorkers DEF IsLost
<1>6. ASSUME NEW i \in 1..m
      PROVE  /\ s[i] \in Groups(a)
             /\ shown[i] = [says |-> IF s[i].lost THEN "stopped responding"
                                      ELSE "timed out on",
                            worker |-> s[i].worker, jobs |-> s[i].jobs]
             /\ shown[i].worker = s[i].worker
             /\ shown[i].says = "stopped responding" <=> s[i].lost
  <2>1. i \in 1..n
    BY <1>1, <1>3
  <2> QED
    BY <1>1, <1>5, <2>1 DEF AlertText
<1>7. Len(shown) = m /\ DOMAIN shown = 1..m
  BY <1>3
<1> HIDE DEF shown
<1> QED
  BY <1>1, <1>3, <1>4, <1>6, <1>7 DEF n, m, s, b

\* A worker that the banner says is lost has the row of one, and a row that stopped
\* responding within the hour is in the banner or one of those it only counts, with
\* nothing but lost workers before it (stats.py _alerts, summary.ts groupAlerts).
THEOREM LostWorkersAreAlwaysAnnounced == OverviewSpec => []LostWorkersAreAnnounced
<1>1. IInv /\ RowsDated /\ AnswerKeeps /\ CountsKept => LostWorkersAreAnnounced
  <2> DEFINE shown == AlertBanner(answer).shown
             lost == {shown[i].worker : i \in {i \in DOMAIN shown :
                                                 shown[i].says = "stopped responding"}}
             silent == {x.worker : x \in {x \in Rows(answer) :
                                              x.row.state = "stopped responding"}}
             more == AlertBanner(answer).more
             now == answer.now
             n == Cardinality(Groups(answer))
             m == Min2(n, MaxShown)
             s == GroupAlerts(answer)
  <2> SUFFICES ASSUME IInv, RowsDated, AnswerKeeps, CountsKept, Complete
               PROVE  /\ lost \ beaten \subseteq silent
                      /\ \A w \in silent \ beaten :
                            leases[w] >= now - AlertWorkerMs =>
                                \/ w \in lost
                                \/ more > 0 /\ Cardinality(lost) = Len(shown)
    BY DEF LostWorkersAreAnnounced
  <2>1. /\ now \in Int /\ RowsOf(answer) \subseteq Workers
        /\ answer.alerts = LostWorkers(now) \cup ExpiredAttempts(now)
        /\ \A w \in Workers \ beaten :
              /\ w \in RowsOf(answer) <=> w \in Registered /\ leases[w] >= now - HideMs
              /\ w \in RowsOf(answer) => answer.workers[w] = leases[w]
    BY DEF AnswerKeeps, CountsKept, Complete
  <2>2. AlertsOK(answer)
    BY AlertsAreOK
  <2>3. /\ n \in Nat /\ m \in Nat /\ m <= n /\ more = n - m
        /\ Len(shown) = m
    BY <2>2, BannerOfTheList
  <2>4. /\ s \in [1..n -> Groups(answer)]
        /\ \A i, j \in 1..n : i < j => s[i] # s[j] /\ ~GoesFirst(s[j], s[i])
    BY <2>2, GroupsAreSorted
  <2>5. /\ \A g \in Groups(answer) : g.lost = IsLost(answer, g.worker)
        /\ \A w \in {x.worker : x \in answer.alerts} : \E g \in Groups(answer) : g.worker = w
        /\ \A g, h \in Groups(answer) : g.worker = h.worker => g = h
        /\ IsFiniteSet(Groups(answer))
    BY <2>2, GroupsOfWorkers
  <2>6. \A w \in Workers : IsLost(answer, w) <=>
            w \in Registered /\ leases[w] \in (now - AlertWorkerMs)..now
    <3> HIDE DEF now
    <3> TAKE w \in Workers
    <3>1. ASSUME IsLost(answer, w)
          PROVE  w \in Registered /\ leases[w] \in (now - AlertWorkerMs)..now
      <4>1. PICK x \in answer.alerts : x.worker = w /\ x.kind = "worker_lost"
        BY <3>1 DEF IsLost
      <4>2. x \in LostWorkers(now)
        BY <2>1, <4>1, ExpiredAreExpired
      <4> QED
        BY <4>1, <4>2 DEF LostWorkers
    <3>2. ASSUME w \in Registered, leases[w] \in (now - AlertWorkerMs)..now
          PROVE  IsLost(answer, w)
      <4> DEFINE x == [kind |-> "worker_lost", worker |-> w, job |-> NULL,
                       at |-> leases[w]]
      <4>1. x \in answer.alerts
        BY <2>1, <3>2 DEF LostWorkers
      <4> QED
        BY <4>1 DEF IsLost
    <3> QED
      BY <3>1, <3>2
  <2>7. \A w : w \in silent <=> w \in RowsOf(answer) /\ ~Connected(answer, w)
    <3>1. \A w \in RowsOf(answer) :
             WorkerRow(answer, w).state = "stopped responding" <=> ~Connected(answer, w)
      BY DEF WorkerRow
    <3> QED
      <4> TAKE w
      <4>1. ASSUME NEW x \in Rows(answer), x.row.state = "stopped responding",
                   x.worker = w
            PROVE  w \in RowsOf(answer) /\ ~Connected(answer, w)
        <5>1. PICK v \in RowsOf(answer) :
                 x = [worker |-> v, row |-> WorkerRow(answer, v)]
          BY RowsAreTheWorkers
        <5> QED
          BY <3>1, <4>1, <5>1
      <4>2. ASSUME w \in RowsOf(answer), ~Connected(answer, w)
            PROVE  \E x \in Rows(answer) : /\ x.row.state = "stopped responding"
                                           /\ x.worker = w
        <5> DEFINE x == [worker |-> w, row |-> WorkerRow(answer, w)]
        <5>1. x \in Rows(answer)
          BY <4>2, RowsAreTheWorkers
        <5> QED
          BY <3>1, <4>2, <5>1
      <4> QED
        BY <4>1, <4>2
  <2>8. \A w : w \in lost <=> \E i \in 1..m : s[i].worker = w /\ s[i].lost
    <3>1. /\ DOMAIN shown = 1..m
          /\ \A i \in 1..m : /\ shown[i].worker = s[i].worker
                             /\ shown[i].says = "stopped responding" <=> s[i].lost
      BY <2>2, BannerOfTheList
    <3> QED
      BY <3>1
  <2>9. AlertWorkerMs \in Nat /\ HideMs \in Nat /\ AlertWorkerMs <= HideMs
    BY OverviewAssumption
  <2>10. \A w \in Registered : leases[w] \in Int /\ w \in Workers
    BY NullAssumption DEF Registered, IInv, TypeOK, Time
  <2> HIDE DEF shown, lost, silent, more, now, n, m, s
  <2>11. ASSUME NEW w \in lost \ beaten
         PROVE  w \in silent
    <3>1. PICK i \in 1..m : s[i].worker = w /\ s[i].lost
      BY <2>8, <2>11
    <3>2. s[i] \in Groups(answer)
      BY <2>3, <2>4, <3>1
    <3>3. w \in Workers /\ IsLost(answer, w)
      <4>1. IsLost(answer, w)
        BY <2>5, <3>1, <3>2
      <4>2. w \in {x.worker : x \in answer.alerts}
        BY <4>1 DEF IsLost
      <4> QED
        BY <2>2, <4>1, <4>2 DEF AlertsOK
    <3>4. w \in Registered /\ leases[w] \in (now - AlertWorkerMs)..now
      BY <2>6, <3>3
    <3>5. leases[w] \in Int /\ leases[w] >= now - HideMs /\ ~(leases[w] > now)
      BY <2>1, <2>9, <2>10, <3>4
    <3>6. w \in RowsOf(answer) /\ ~Connected(answer, w)
      BY <2>1, <2>11, <3>3, <3>4, <3>5 DEF Connected, now
    <3> QED
      BY <2>7, <3>6
  <2>12. ASSUME NEW w \in silent \ beaten, leases[w] >= now - AlertWorkerMs, w \notin lost
         PROVE  more > 0 /\ Cardinality(lost) = Len(shown)
    <3>1. w \in RowsOf(answer) /\ ~Connected(answer, w) /\ w \in Workers
      BY <2>1, <2>7, <2>12
    <3>2. w \in Registered /\ ~(leases[w] > now)
      BY <2>1, <2>12, <3>1 DEF Connected, now
    <3>3. leases[w] \in (now - AlertWorkerMs)..now
      BY <2>1, <2>9, <2>10, <2>12, <3>2
    <3>4. IsLost(answer, w)
      BY <2>6, <3>1, <3>2, <3>3
    <3>5. PICK g \in Groups(answer) : g.worker = w
      BY <2>5, <3>4 DEF IsLost
    <3>6. PICK i \in 1..n : s[i] = g
      <4> DEFINE S == Groups(answer)
      <4>1. s \in [1..Cardinality(S) -> S]
        BY <2>4 DEF n
      <4>2. \A k, l \in 1..Cardinality(S) : k < l => s[k] # s[l]
        BY <2>4 DEF n
      <4>3. IsFiniteSet(S) /\ g \in S
        BY <2>5
      <4> HIDE DEF S
      <4>4. \E i \in 1..Cardinality(S) : s[i] = g
        BY <4>1, <4>2, <4>3, ListHasThemAll
      <4> QED
        BY <4>4 DEF n, S
    <3>7. g.lost = IsLost(answer, w)
      BY <2>5, <3>5
    <3>8. i > m
      <4>1. s[i].lost /\ s[i].worker = w
        BY <3>4, <3>5, <3>6, <3>7
      <4>2. i \notin 1..m
        BY <2>8, <2>12, <4>1
      <4> QED
        BY <2>3, <4>2
    <3>9. \A k \in 1..m : k \in 1..n /\ s[k] \in Groups(answer) /\ s[k].lost
      <4> TAKE k \in 1..m
      <4>1. k \in 1..n /\ k < i /\ s[k] \in Groups(answer)
        BY <2>3, <2>4, <3>8
      <4>2. ~GoesFirst(g, s[k])
        BY <2>4, <3>6, <4>1
      <4>3. s[k].lost = IsLost(answer, s[k].worker)
        BY <2>5, <4>1
      <4>4. s[k].lost
        BY <3>4, <3>7, <4>2, <4>3 DEF GoesFirst, IsLost
      <4> QED
        BY <4>1, <4>4
    <3>10. more > 0
      BY <2>3, <3>8
    <3>11. Cardinality(lost) = m
      <4> DEFINE f == [k \in 1..m |-> s[k].worker]
      <4>1. \A k \in 1..m : f[k] \in lost
        BY <2>8, <3>9
      <4>2. \A x \in lost : \E k \in 1..m : f[k] = x
        BY <2>8
      <4>3. ASSUME NEW k \in 1..m, NEW l \in 1..m, f[k] = f[l]
            PROVE  k = l
        <5>1. s[k] = s[l]
          BY <2>5, <3>9, <4>3
        <5>2. ~(k < l) /\ ~(l < k)
          BY <2>4, <3>9, <5>1
        <5> QED
          BY <2>3, <5>2
      <4>4. f \in Bijection(1..m, lost)
        BY <4>1, <4>2, <4>3 DEF Bijection, Injection, Surjection, IsInjective
      <4> HIDE DEF f
      <4>5. ExistsBijection(1..m, lost)
        BY <4>4 DEF ExistsBijection
      <4> QED
        BY <2>3, <4>5, FS_CountingElements
    <3> QED
      BY <2>3, <3>10, <3>11
  <2> QED
    BY <2>11, <2>12
<1> QED
  BY <1>1, CountsAreKept, OverviewIsOfTheStore, RowsAlwaysDated, PTL

-----------------------------------------------------------------------------
(* The figures of the overview. *)

\* A finite set can be sorted by a number of each element, the greatest first.
LEMMA SortedByANumber ==
    ASSUME NEW S, IsFiniteSet(S), NEW f \in [S -> Int]
    PROVE  \E s \in [1..Cardinality(S) -> S] :
              \A i, j \in 1..Cardinality(S) :
                  i < j => s[i] # s[j] /\ ~(f[s[j]] > f[s[i]])
<1> DEFINE R == {p \in S \X S : f[p[1]] > f[p[2]]}
<1>1. \A x, y \in S : <<x, y>> \in R <=> f[x] > f[y]
  OBVIOUS
<1>2. /\ \A x \in S : <<x, x>> \notin R
      /\ \A x, y, z \in S : <<x, y>> \in R /\ <<y, z>> \in R => <<x, z>> \in R
  BY <1>1
<1> HIDE DEF R
<1>3. PICK s \in [1..Cardinality(S) -> S] :
         \A i, j \in 1..Cardinality(S) : i < j => s[i] # s[j] /\ <<s[j], s[i]>> \notin R
  BY <1>2, SortedListExists
<1> QED
  BY <1>1, <1>3

\* Sets of jobs that differ in some jobs differ in size by no more than those.
LEMMA SizesDiffer ==
    ASSUME NEW S \in SUBSET Jobs, NEW T \in SUBSET Jobs, NEW D \in SUBSET Jobs,
           S \ D \subseteq T
    PROVE  /\ Cardinality(S) \in Nat /\ Cardinality(T) \in Nat /\ Cardinality(D) \in Nat
           /\ Cardinality(S) <= Cardinality(T) + Cardinality(D)
<1>1. IsFiniteSet(S) /\ IsFiniteSet(T) /\ IsFiniteSet(D)
  BY FiniteAssumption, FS_Subset
<1>2. S \subseteq T \cup D
  OBVIOUS
<1>3. IsFiniteSet(T \cup D) /\ IsFiniteSet(T \cap D)
  BY <1>1, FS_Union, FS_Intersection
<1>4. /\ Cardinality(S) \in Nat /\ Cardinality(T) \in Nat /\ Cardinality(D) \in Nat
      /\ Cardinality(T \cap D) \in Nat /\ Cardinality(T \cup D) \in Nat
  BY <1>1, <1>3, FS_CardinalityType
<1>5. Cardinality(T \cup D) = Cardinality(T) + Cardinality(D) - Cardinality(T \cap D)
  BY <1>1, FS_Union
<1>6. Cardinality(S) <= Cardinality(T \cup D)
  BY <1>2, <1>3, FS_Subset
<1> QED
  BY <1>4, <1>5, <1>6

\* The rows of the queues together are the jobs that wait.
LEMMA QueueRowsTotal ==
    ASSUME IInv, NEW a, a.queues = Queues
    PROVE  LET rows == QueueRows(a)
           IN  SumOf([i \in DOMAIN rows |-> rows[i].pending])
                   = Cardinality({j \in Jobs : jobs[j].status = "pending"})
<1> DEFINE waiting(t) == {j \in Jobs : jobs[j].status = "pending" /\ jobs[j].type = t}
           row(t) == [type |-> t, pending |-> a.queues[t].pending,
                      tone |-> PendingTone(Wait(a, t))]
           S == {row(t) : t \in DOMAIN a.queues}
           n == Cardinality(S)
           rows == QueueRows(a)
           OK(s) == \A i, j \in 1..n :
                        i < j => s[i] # s[j] /\ ~(s[j].pending > s[i].pending)
<1>1. /\ DOMAIN a.queues \subseteq Types
      /\ \A t \in DOMAIN a.queues : a.queues[t].pending = Cardinality(waiting(t))
      /\ \A j \in Jobs : jobs[j].status = "pending" => jobs[j].type \in DOMAIN a.queues
  <2>1. Queues = [t \in {t \in Types : waiting(t) # {}} |->
                     [pending |-> Cardinality(waiting(t)),
                      oldest |-> MinOf({jobs[j].available : j \in waiting(t)})]]
    BY DEF Queues
  <2>2. \A j \in Jobs : jobs[j].status = "pending" => jobs[j].type \in DOMAIN Queues
    BY QueueOfAJob
  <2> QED
    BY <2>1, <2>2
<1>2. \A t : IsFiniteSet(waiting(t)) /\ Cardinality(waiting(t)) \in Nat
  <2> TAKE t
  <2>1. waiting(t) \subseteq Jobs
    OBVIOUS
  <2>2. IsFiniteSet(waiting(t))
    BY <2>1, FiniteAssumption, FS_Subset
  <2> QED
    BY <2>2, FS_CardinalityType
<1>3. \A t \in DOMAIN a.queues : row(t).type = t /\ row(t).pending = Cardinality(waiting(t))
  BY <1>1
<1>4. \A x \in S : x.type \in DOMAIN a.queues /\ x = row(x.type)
  BY <1>3
<1>5. IsFiniteSet(S)
  <2> DEFINE f == [t \in DOMAIN a.queues |-> row(t)]
  <2>1. IsFiniteSet(DOMAIN a.queues)
    BY <1>1, FiniteAssumption, FS_Subset
  <2>2. f \in Surjection(DOMAIN a.queues, S)
    BY DEF Surjection
  <2> HIDE DEF f
  <2> QED
    BY <2>1, <2>2, FS_Surjection
<1>6. rows = CHOOSE s \in [1..n -> S] : OK(s)
  BY DEF QueueRows, Sorted
<1>7. \A x \in S : x.pending \in Int
  <2> TAKE x \in S
  <2> HIDE DEF row, S, waiting
  <2>1. x.pending = Cardinality(waiting(x.type))
    BY <1>3, <1>4
  <2>2. x.pending \in Nat
    BY <1>2, <2>1
  <2> QED
    BY <2>2
<1>8. \A t \in DOMAIN a.queues : row(t) \in S
  OBVIOUS
<1> HIDE DEF row, S, rows
<1>9. \E s \in [1..n -> S] : OK(s)
  <2> DEFINE f == [x \in S |-> x.pending]
  <2>1. f \in [S -> Int]
    BY <1>7
  <2>2. PICK s \in [1..n -> S] :
           \A i, j \in 1..n : i < j => s[i] # s[j] /\ ~(f[s[j]] > f[s[i]])
    <3> HIDE DEF f
    <3> QED
      BY <1>5, <2>1, SortedByANumber
  <2>3. OK(s)
    BY <2>2
  <2> QED
    BY <2>3
<1> HIDE DEF OK
<1>10. rows \in [1..n -> S] /\ OK(rows)
  BY <1>6, <1>9
<1>11. n \in Nat /\ \A x \in S : \E i \in 1..n : rows[i] = x
  <2>1. \A i, j \in 1..n : i < j => rows[i] # rows[j]
    BY <1>10 DEF OK
  <2> QED
    BY <1>5, <1>10, <2>1, ListHasThemAll
<1> HIDE DEF n
<1> DEFINE A == [i \in 1..n |-> waiting(rows[i].type)]
           f == [i \in 1..n |-> rows[i].pending]
<1>12. \A i \in 1..n : /\ rows[i] \in S /\ A[i] = waiting(rows[i].type)
                       /\ rows[i].pending = Cardinality(A[i])
  BY <1>1, <1>3, <1>4, <1>10
<1>13. \A i \in 1..n : IsFiniteSet(A[i])
  BY <1>2
<1>14. ASSUME NEW i \in 1..n, NEW j \in 1..n, i # j
       PROVE  A[i] \cap A[j] = {}
  <2>1. rows[i] # rows[j]
    <3>1. i < j \/ j < i
      BY <1>11, <1>14
    <3> QED
      BY <1>10, <3>1 DEF OK
  <2>2. rows[i].type # rows[j].type
    BY <1>4, <1>12, <2>1
  <2> QED
    BY <1>12, <2>2
<1> DEFINE U == {j \in Jobs : jobs[j].status = "pending"}
<1>15. /\ \A i \in 1..n : A[i] \subseteq U
       /\ \A j \in U : \E i \in 1..n : j \in A[i]
  <2>1. \A i \in 1..n : A[i] \subseteq {j \in Jobs : jobs[j].status = "pending"}
    BY <1>12
  <2>2. ASSUME NEW j \in Jobs, jobs[j].status = "pending"
        PROVE  \E i \in 1..n : j \in A[i]
    <3> DEFINE t == jobs[j].type
    <3>1. t \in DOMAIN a.queues /\ row(t) \in S /\ row(t).type = t
      BY <1>1, <1>3, <1>8, <2>2
    <3>2. PICK i \in 1..n : rows[i] = row(t)
      BY <1>11, <3>1
    <3> QED
      BY <1>12, <2>2, <3>1, <3>2
  <2> QED
    BY <2>1, <2>2
<1>16. f \in [1..n -> Nat] /\ \A i \in 1..n : f[i] = Cardinality(A[i])
  <2>1. \A i \in 1..n : rows[i].pending \in Nat
    BY <1>2, <1>12
  <2> QED
    BY <1>12, <2>1
<1>17. IsFiniteSet(1..n)
  BY <1>11, FS_Interval
<1>18. SumOf(f) = Cardinality(U)
  <2> DEFINE I == 1..n
  <2>1. IsFiniteSet(I) /\ \A i \in I : IsFiniteSet(A[i])
    BY <1>13, <1>17
  <2>2. \A i, j \in I : i # j => A[i] \cap A[j] = {}
    BY <1>14
  <2>3. f \in [I -> Nat] /\ \A i \in I : f[i] = Cardinality(A[i])
    BY <1>16
  <2>4. \A i \in I : A[i] \subseteq U
    BY <1>15
  <2>5. \A x \in U : \E i \in I : x \in A[i]
    BY <1>15
  <2> HIDE DEF A, f, U, I
  <2> QED
    BY <2>1, <2>2, <2>3, <2>4, <2>5, SumOfSizes
<1>19. DOMAIN rows = 1..n
  BY <1>10
<1> QED
  BY <1>18, <1>19 DEF f, rows, U

\* The slots in use are of jobs that the answer has running.
LEMMA BusyAreRunning ==
    ASSUME NEW a, RowsOf(a) \subseteq Workers, DOMAIN a.running \subseteq Jobs
    PROVE  \E S \in SUBSET DOMAIN a.running : Fleet(a).busy = Cardinality(S)
<1> DEFINE W == Live(a, RowsOf(a))
           A == [w \in W |-> JobsOf(a, w)]
           f == [i \in W |-> Cardinality(A[i])]
           S == UNION {A[i] : i \in W}
<1>1. IsFiniteSet(W)
  <2>1. W \subseteq Workers
    BY DEF Live
  <2> QED
    BY <2>1, FiniteAssumption, FS_Subset
<1>2. \A w \in W : A[w] \subseteq DOMAIN a.running /\ IsFiniteSet(A[w])
  <2> TAKE w \in W
  <2>1. A[w] \subseteq DOMAIN a.running
    BY DEF JobsOf
  <2> QED
    BY <2>1, FiniteAssumption, FS_Subset
<1>3. \A i, j \in W : i # j => A[i] \cap A[j] = {}
  BY DEF JobsOf
<1>4. Fleet(a).busy = SumOf(f)
  BY DEF Fleet, Busy
<1>5. S \in SUBSET DOMAIN a.running
  BY <1>2
<1>6. \A i \in W : IsFiniteSet(A[i]) /\ Cardinality(A[i]) \in Nat /\ A[i] \subseteq S
  BY <1>2, FS_CardinalityType
<1>7. f \in [W -> Nat] /\ \A i \in W : f[i] = Cardinality(A[i])
  BY <1>6
<1>8. \A x \in S : \E i \in W : x \in A[i]
  OBVIOUS
<1> HIDE DEF A, W, f, S
<1>9. SumOf(f) = Cardinality(S)
  BY <1>1, <1>3, <1>6, <1>7, <1>8, SumOfSizes
<1> QED
  BY <1>4, <1>5, <1>9

\* What the card says when failures are gone.
LEMMA NoneStillFailed ==
    ASSUME NEW a, KpiCard(a).below = "none still failed"
    PROVE  ~(a.counts["failed"] > 0) /\ a.finished.failed > 0
<1>1. CASE a.counts["failed"] > 0
  BY <1>1 DEF KpiCard
<1>2. CASE ~(a.counts["failed"] > 0) /\ ~(a.finished.failed > 0)
  BY <1>2 DEF KpiCard
<1> QED
  BY <1>1, <1>2

\* The figures that are read apart differ by no more than the jobs that changed in
\* between: none of them misses or doubles a job that nobody touched (stats.py
\* overview, kpi-row.tsx).
THEOREM FiguresAlwaysAgree == OverviewSpec => []FiguresAgree
<1>1. IInv /\ AnswerKeeps /\ CountsKept => FiguresAgree
  <2> DEFINE n == Cardinality(touched)
             rows == KpiCard(answer).rows
             queued == SumOf([i \in DOMAIN rows |-> rows[i].pending])
             busy == Fleet(answer).busy
             now == answer.now
  <2> SUFFICES ASSUME IInv, AnswerKeeps, CountsKept, Complete
               PROVE  /\ queued \in (answer.counts["pending"] - n)
                                        ..(answer.counts["pending"] + n)
                      /\ busy <= answer.counts["running"] + n
                      /\ answer.finished.failed <= answer.counts["failed"] + n
                      /\ KpiCard(answer).below = "none still failed" => n > 0
    BY DEF FiguresAgree
  <2>1. /\ touched \in SUBSET Jobs /\ answer.queues = Queues
        /\ RowsOf(answer) \subseteq Workers /\ DOMAIN answer.running \subseteq Jobs
        /\ answer.finished = Finished(now - DayMs, now + 1)
        /\ \A j \in Jobs \ touched : j \in DOMAIN answer.running => jobs[j].status = "running"
    BY DEF AnswerKeeps, CountsKept, Complete
  <2>2. PICK P \in SUBSET Jobs :
           /\ answer.counts["pending"] = Cardinality(P)
           /\ \A j \in Jobs \ touched : j \in P <=> jobs[j].status = "pending"
    BY DEF CountsKept, Complete
  <2>3. PICK R \in SUBSET Jobs :
           /\ answer.counts["running"] = Cardinality(R)
           /\ \A j \in Jobs \ touched : j \in R <=> jobs[j].status = "running"
    BY DEF CountsKept, Complete
  <2>4. PICK F \in SUBSET Jobs :
           /\ answer.counts["failed"] = Cardinality(F)
           /\ \A j \in Jobs \ touched : j \in F <=> jobs[j].status = "failed"
    BY DEF CountsKept, Complete
  <2>5. /\ queued \in (answer.counts["pending"] - n)..(answer.counts["pending"] + n)
        /\ n \in Nat
    <3> DEFINE Q == {j \in Jobs : jobs[j].status = "pending"}
    <3>1. rows = QueueRows(answer)
      BY DEF KpiCard
    <3>2. queued = Cardinality(Q)
      BY <2>1, <3>1, QueueRowsTotal
    <3>3. Q \in SUBSET Jobs /\ Q \ touched \subseteq P /\ P \ touched \subseteq Q
      BY <2>2
    <3> HIDE DEF Q, queued
    <3>4. /\ Cardinality(Q) \in Nat /\ Cardinality(P) \in Nat /\ n \in Nat
          /\ Cardinality(Q) <= Cardinality(P) + n
          /\ Cardinality(P) <= Cardinality(Q) + n
      BY <2>1, <2>2, <3>3, SizesDiffer
    <3> QED
      BY <2>2, <3>2, <3>4
  <2>6. busy <= answer.counts["running"] + n
    <3>1. PICK S \in SUBSET DOMAIN answer.running : busy = Cardinality(S)
      BY <2>1, BusyAreRunning
    <3>2. S \in SUBSET Jobs /\ S \ touched \subseteq R
      BY <2>1, <2>3
    <3>3. Cardinality(S) <= Cardinality(R) + n
      BY <2>1, <2>3, <3>2, SizesDiffer
    <3> QED
      BY <2>3, <3>1, <3>3
  <2>7. /\ answer.finished.failed <= answer.counts["failed"] + n
        /\ answer.finished.failed \in Nat /\ answer.counts["failed"] \in Nat
    <3> DEFINE S == {j \in Jobs : /\ jobs[j].status = "failed"
                                  /\ jobs[j].finished >= now - DayMs
                                  /\ jobs[j].finished < now + 1}
    <3>1. answer.finished.failed = Cardinality(S)
      BY <2>1, FinishedCounts
    <3>2. S \in SUBSET Jobs /\ S \ touched \subseteq F
      BY <2>4
    <3> HIDE DEF S
    <3>3. /\ Cardinality(S) \in Nat /\ Cardinality(F) \in Nat
          /\ Cardinality(S) <= Cardinality(F) + n
      BY <2>1, <2>4, <3>2, SizesDiffer
    <3> QED
      BY <2>4, <3>1, <3>3
  <2>8. KpiCard(answer).below = "none still failed" => n > 0
    <3>1. ASSUME KpiCard(answer).below = "none still failed"
          PROVE  ~(answer.counts["failed"] > 0) /\ answer.finished.failed > 0
      BY <3>1, NoneStillFailed
    <3>2. ASSUME ~(answer.counts["failed"] > 0), answer.finished.failed > 0
          PROVE  n > 0
      BY <2>5, <2>7, <3>2
    <3> QED
      BY <3>1, <3>2
  <2> QED
    BY <2>5, <2>6, <2>7, <2>8
<1> QED
  BY <1>1, CountsAreKept, PTL

-----------------------------------------------------------------------------
(* The rates of Stats and the runs behind them. *)

\* There are finitely many attempts.
LEMMA LogIsFinite ==
    ASSUME IInv
    PROVE  IsFiniteSet(Log)
<1> DEFINE A == [j \in Jobs |-> {j} \X DOMAIN jobs[j].attempts]
<1>1. \A j \in Jobs : IsFiniteSet(A[j])
  <2> TAKE j \in Jobs
  <2> DEFINE D == DOMAIN jobs[j].attempts
  <2>1. jobs[j].attempts \in Seq(Attempt)
    BY DEF IInv, RowInv, Job
  <2>2. D = 1..Len(jobs[j].attempts) /\ Len(jobs[j].attempts) \in Int
    BY <2>1
  <2>3. A[j] = {j} \X D
    OBVIOUS
  <2> HIDE DEF D
  <2>4. IsFiniteSet(D)
    BY <2>2, FS_Interval
  <2>5. IsFiniteSet({j})
    BY FS_Singleton
  <2> QED
    BY <2>3, <2>4, <2>5, FS_Product
<1>2. Log = UNION {A[j] : j \in Jobs}
  BY DEF Log
<1> HIDE DEF A
<1> QED
  BY <1>1, <1>2, FiniteAssumption, UnionIsFinite

\* What is in the log is an attempt.
LEMMA LogHasAttempts ==
    ASSUME IInv
    PROVE  \A x \in Log : /\ x[1] \in Jobs /\ x[2] \in DOMAIN jobs[x[1]].attempts
                          /\ x = <<x[1], x[2]>> /\ At(x) \in Attempt
                          /\ At(x) = jobs[x[1]].attempts[x[2]]
<1> TAKE x \in Log
<1>1. PICK j \in Jobs : x \in {j} \X DOMAIN jobs[j].attempts
  BY DEF Log
<1>2. jobs[j].attempts \in Seq(Attempt)
  BY DEF IInv, RowInv, Job
<1> QED
  BY <1>1, <1>2 DEF At

LEMMA LogHasAll ==
    ASSUME NEW j \in Jobs, NEW k \in DOMAIN jobs[j].attempts
    PROVE  <<j, k>> \in Log /\ At(<<j, k>>) = jobs[j].attempts[k]
  BY DEF Log, At

\* A list of a set that is sorted by a number has each element of it once.
LEMMA SortedHasThemAll ==
    ASSUME NEW S, IsFiniteSet(S), NEW s \in [1..Cardinality(S) -> S],
           \A i, j \in 1..Cardinality(S) : i < j => s[i] # s[j]
    PROVE  /\ Cardinality(S) \in Nat
           /\ s \in Seq(S) /\ Len(s) = Cardinality(S)
           /\ \A i, j \in 1..Cardinality(S) : i # j => s[i] # s[j]
           /\ \A x \in S : \E i \in 1..Cardinality(S) : s[i] = x
<1> DEFINE n == Cardinality(S)
<1>1. n \in Nat /\ \A x \in S : \E i \in 1..n : s[i] = x
  BY ListHasThemAll
<1> HIDE DEF n
<1>2. s \in Seq(S) /\ Len(s) = n
  BY <1>1 DEF n
<1>3. \A i, j \in 1..n : i # j => s[i] # s[j]
  BY <1>1 DEF n
<1> QED
  BY <1>1, <1>2, <1>3 DEF n

\* A success has a run in the sample of its type.
LEMMA SuccessHasARun ==
    ASSUME IInv, RowsDated, RowsTold, NEW start \in Int, NEW end \in Int,
           NEW j \in FinishedIn("success", start, end)
    PROVE  LET types == ByType(start, end)
           IN  \E i \in DOMAIN types : \E x \in types[i].runs : x[1] = j
<1> DEFINE counts == FinishedByType(start, end)
           row(t) == [type |-> t, finished |-> SumOf(counts[t]),
                      rate |-> SuccessRate(counts[t]), runs |-> Runs(t, start, end),
                      waits |-> Waits(t, start, end), pending |-> Pending(t)]
           empty(r) == r.finished + r.pending = 0 /\ r.runs = {} /\ r.waits = {}
           S == {r \in {row(t) : t \in Types} : ~empty(r)}
           types == ByType(start, end)
           OK(s) == \A i, k \in 1..Cardinality(S) :
                        i < k => s[i] # s[k] /\ ~(s[k].finished > s[i].finished)
           t == jobs[j].type
<1>1. types = CHOOSE s \in [1..Cardinality(S) -> S] : OK(s)
  BY DEF ByType, Sorted
<1>2. \A u \in Types : /\ row(u).runs = Runs(u, start, end)
                       /\ row(u).finished = SumOf(counts[u])
  OBVIOUS
<1>3. \A u \in Types : SumOf(counts[u]) \in Int
  <2> TAKE u \in Types
  <2> DEFINE of(s) == {k \in FinishedIn(s, start, end) : jobs[k].type = u}
  <2>1. counts[u] = [s \in TerminalStatuses |-> Cardinality(of(s))]
    BY DEF FinishedByType
  <2>2. \A s : Cardinality(of(s)) \in Nat
    <3> TAKE s
    <3>1. of(s) \subseteq Jobs
      BY DEF FinishedIn
    <3>2. IsFiniteSet(of(s))
      BY <3>1, FiniteAssumption, FS_Subset
    <3> QED
      BY <3>2, FS_CardinalityType
  <2> HIDE DEF of
  <2>3. counts[u] \in [TerminalStatuses -> Nat]
    BY <2>1, <2>2
  <2>4. IsFiniteSet(TerminalStatuses)
    <3>1. TerminalStatuses = {"success", "failed"} \cup {"cancelled"}
      BY DEF TerminalStatuses
    <3>2. {"success", "failed"} = {"success"} \cup {"failed"}
      OBVIOUS
    <3> QED
      BY <3>1, <3>2, FS_Singleton, FS_Union
  <2> HIDE DEF counts
  <2>5. SumOf(counts[u]) \in Nat
    BY <2>3, <2>4, UnitsAreFinite
  <2> QED
    BY <2>5
<1>4. t \in Types /\ j \in Jobs
  BY DEF FinishedIn, IInv, RowInv, Job
<1>5. PICK x \in Runs(t, start, end) : x[1] = j
  <2>1. /\ jobs[j].status = "success" /\ Told(jobs[j])
        /\ jobs[j].finished >= start /\ jobs[j].finished < end
    BY <1>4 DEF FinishedIn, RowsTold
  <2>2. PICK k \in DOMAIN jobs[j].attempts :
           /\ jobs[j].attempts[k].outcome = "succeeded"
           /\ jobs[j].attempts[k].ended = jobs[j].finished
    BY <2>1 DEF Told, Wins
  <2> DEFINE y == <<j, k>>
  <2>3. y \in Log /\ At(y) = jobs[j].attempts[k] /\ y[1] = j
    BY <1>4, LogHasAll
  <2>4. At(y).outcome = "succeeded"
    BY <2>2, <2>3
  <2>5. At(y).ended = jobs[j].finished /\ At(y).ended # NULL
    <3>1. jobs[j].finished # NULL
      <4>1. Settled(jobs[j])
        BY <2>1 DEF Settled, IsTerminal, TerminalStatuses
      <4> QED
        BY <1>4, <4>1 DEF RowsDated, Dated
    <3> QED
      BY <2>2, <2>3, <3>1
  <2>6. At(y).ended \in start..(end - 1)
    <3>1. jobs[j].finished \in Int
      BY <1>4, <2>5 DEF IInv, RowInv, Job, Time
    <3>2. jobs[j].finished \in start..(end - 1)
      BY <2>1, <3>1
    <3> QED
      BY <2>5, <3>2
  <2> HIDE DEF y
  <2>7. y \in Runs(t, start, end)
    BY <2>3, <2>4, <2>6 DEF Runs
  <2> QED
    BY <2>3, <2>7
<1>6. row(t) \in S
  BY <1>2, <1>4, <1>5
<1>7. \A r \in S : \E u \in Types : r = row(u)
  OBVIOUS
<1>8. IsFiniteSet(S)
  <2> DEFINE f == [u \in Types |-> row(u)]
             Q == {row(u) : u \in Types}
  <2>1. f \in Surjection(Types, Q)
    BY DEF Surjection
  <2>2. S \subseteq Q
    OBVIOUS
  <2> HIDE DEF f, Q, S
  <2> QED
    BY <2>1, <2>2, FiniteAssumption, FS_Surjection, FS_Subset
<1>9. \A r \in S : r.finished \in Int
  BY <1>2, <1>3, <1>7
<1> HIDE DEF row, S, types
<1>10. \E s \in [1..Cardinality(S) -> S] : OK(s)
  <2> DEFINE f == [r \in S |-> r.finished]
  <2>1. f \in [S -> Int]
    BY <1>9
  <2>2. PICK s \in [1..Cardinality(S) -> S] :
           \A i, k \in 1..Cardinality(S) : i < k => s[i] # s[k] /\ ~(f[s[k]] > f[s[i]])
    <3> HIDE DEF f
    <3> QED
      BY <1>8, <2>1, SortedByANumber
  <2>3. OK(s)
    BY <2>2
  <2> QED
    BY <2>3
<1> HIDE DEF OK
<1>11. types \in [1..Cardinality(S) -> S] /\ OK(types)
  BY <1>1, <1>10
<1>12. \A r \in S : \E i \in 1..Cardinality(S) : types[i] = r
  <2>1. \A i, k \in 1..Cardinality(S) : i < k => types[i] # types[k]
    BY <1>11 DEF OK
  <2> QED
    BY <1>8, <1>11, <2>1, SortedHasThemAll
<1>13. PICK i \in 1..Cardinality(S) : types[i] = row(t)
  BY <1>6, <1>12
<1>14. i \in DOMAIN types /\ x \in types[i].runs
  BY <1>2, <1>4, <1>11, <1>13
<1> QED
  BY <1>5, <1>14 DEF types

\* Every failed attempt of a type in the list, when the list is not cut off.
LEMMA ListedErrorsAreAll ==
    ASSUME IInv, NEW start \in Int, NEW end \in Int, NEW t,
           Len(TopErrors(start, end)) < TopErrorsMax
    PROVE  LET errors == TopErrors(start, end)
               ofType == {i \in DOMAIN errors : errors[i].of.type = t}
               U == {x \in Log : /\ At(x).outcome \in JobErrors
                                 /\ At(x).ended \in start..(end - 1)
                                 /\ jobs[x[1]].type = t}
           IN  IsFiniteSet(U)
               /\ SumOf([i \in ofType |-> errors[i].count]) = Cardinality(U)
<1> DEFINE ended == {x \in Log : /\ At(x).outcome \in JobErrors
                                 /\ At(x).ended \in start..(end - 1)}
           group(x) == [error |-> At(x).outcome, type |-> jobs[x[1]].type]
           of(g) == {x \in ended : group(x) = g}
           row(g) == [of |-> g, count |-> Cardinality(of(g))]
           G == {group(x) : x \in ended}
           S == {row(g) : g \in G}
           n == Cardinality(S)
           OK(s) == \A i, k \in 1..n : i < k => s[i] # s[k] /\ ~(s[k].count > s[i].count)
           sorted == CHOOSE s \in [1..n -> S] : OK(s)
           errors == TopErrors(start, end)
           ofType == {i \in DOMAIN errors : errors[i].of.type = t}
           U == {x \in ended : jobs[x[1]].type = t}
<1>1. errors = SubSeq(sorted, 1, Min2(Len(sorted), TopErrorsMax))
  BY DEF TopErrors, Sorted
<1>2. /\ \A g : row(g).of = g /\ row(g).count = Cardinality(of(g))
      /\ \A x : group(x).type = jobs[x[1]].type
  OBVIOUS
<1>3. IsFiniteSet(ended)
  <2>1. ended \subseteq Log
    OBVIOUS
  <2> QED
    BY <2>1, LogIsFinite, FS_Subset
<1>4. \A g : IsFiniteSet(of(g)) /\ Cardinality(of(g)) \in Nat
  <2> TAKE g
  <2>1. of(g) \subseteq ended
    OBVIOUS
  <2> HIDE DEF ended
  <2>2. IsFiniteSet(of(g))
    BY <1>3, <2>1, FS_Subset
  <2> QED
    BY <2>2, FS_CardinalityType
<1>5. IsFiniteSet(S)
  <2> DEFINE f == [x \in ended |-> row(group(x))]
  <2>1. f \in Surjection(ended, S)
    BY DEF Surjection
  <2> HIDE DEF f, ended, S
  <2> QED
    BY <1>3, <2>1, FS_Surjection
<1>6. \A r \in S : r.of \in G /\ r = row(r.of)
  <2>1. \A r \in S : \E g \in G : r = row(g)
    OBVIOUS
  <2> HIDE DEF row, S, G
  <2> QED
    BY <1>2, <2>1
<1>7. \A x \in ended : group(x) \in G /\ row(group(x)) \in S
  OBVIOUS
<1>8. \A x \in U : x \in ended /\ group(x).type = t
  BY <1>2
<1>9. \A x \in ended : group(x).type = t => x \in U
  BY <1>2
<1>10. \A g : \A x : x \in of(g) <=> x \in ended /\ group(x) = g
  OBVIOUS
<1> HIDE DEF ended, group, of, row, G, S, U, errors
<1>11. \A r \in S : r.count \in Int
  <2> TAKE r \in S
  <2>1. r.count = Cardinality(of(r.of))
    BY <1>2, <1>6
  <2>2. r.count \in Nat
    BY <1>4, <2>1
  <2> QED
    BY <2>2
<1>12. \E s \in [1..n -> S] : OK(s)
  <2> DEFINE f == [r \in S |-> r.count]
  <2>1. f \in [S -> Int]
    BY <1>11
  <2>2. PICK s \in [1..n -> S] :
           \A i, k \in 1..n : i < k => s[i] # s[k] /\ ~(f[s[k]] > f[s[i]])
    <3> HIDE DEF f
    <3> QED
      BY <1>5, <2>1, SortedByANumber
  <2>3. OK(s)
    BY <2>2
  <2> QED
    BY <2>3
<1> HIDE DEF OK
<1>13. sorted \in [1..n -> S] /\ OK(sorted)
  BY <1>12
<1> HIDE DEF sorted
<1>14. /\ n \in Nat /\ sorted \in Seq(S) /\ Len(sorted) = n
       /\ \A i, k \in 1..n : i # k => sorted[i] # sorted[k]
       /\ \A r \in S : \E i \in 1..n : sorted[i] = r
  <2>1. \A i, k \in 1..n : i < k => sorted[i] # sorted[k]
    BY <1>13 DEF OK
  <2>2. sorted \in [1..n -> S]
    BY <1>13
  <2>3. \A i, k \in 1..Cardinality(S) : i < k => sorted[i] # sorted[k]
    BY <2>1
  <2>4. /\ Cardinality(S) \in Nat
        /\ sorted \in Seq(S) /\ Len(sorted) = Cardinality(S)
        /\ \A i, k \in 1..Cardinality(S) : i # k => sorted[i] # sorted[k]
        /\ \A r \in S : \E i \in 1..Cardinality(S) : sorted[i] = r
    <3>1. sorted \in [1..Cardinality(S) -> S]
      BY <2>2
    <3> HIDE DEF n
    <3> QED
      BY <1>5, <2>3, <3>1, SortedHasThemAll
  <2> QED
    BY <2>4
<1> HIDE DEF n
<1>15. DOMAIN errors = 1..n /\ \A i \in 1..n : errors[i] = sorted[i]
  <2>1. TopErrorsMax \in Nat
    BY StatsAssumption
  <2> DEFINE m == Min2(n, TopErrorsMax)
  <2>2. m \in Nat /\ m <= n
    BY <1>14, <2>1 DEF Min2
  <2>3. errors = SubSeq(sorted, 1, m)
    BY <1>1, <1>14
  <2>4. /\ Len(errors) = m
        /\ \A i \in 1..m : errors[i] = sorted[i]
        /\ DOMAIN errors = 1..m
    <3> HIDE DEF m
    <3> QED
      BY <1>14, <2>2, <2>3
  <2>5. m = n
    BY <1>14, <2>1, <2>2, <2>4 DEF Min2, errors
  <2> HIDE DEF m
  <2> QED
    BY <2>4, <2>5
<1> DEFINE A == [i \in ofType |-> of(errors[i].of)]
           f == [i \in ofType |-> errors[i].count]
<1>16. \A i \in ofType : /\ i \in 1..n /\ errors[i] = sorted[i] /\ errors[i] \in S
                         /\ errors[i].of.type = t
  BY <1>13, <1>15
<1>17. \A i \in ofType : A[i] = of(errors[i].of)
  OBVIOUS
<1>18. \A i \in 1..n : errors[i].of.type = t => i \in ofType
  BY <1>15
<1>19. IsFiniteSet(ofType)
  <2>1. IsFiniteSet(1..n)
    BY <1>14, FS_Interval
  <2>2. ofType \subseteq 1..n
    BY <1>16
  <2> QED
    BY <2>1, <2>2, FS_Subset
<1>20. DOMAIN f = ofType /\ f = [i \in ofType |-> f[i]]
       /\ \A i \in ofType : f[i] = errors[i].count
  OBVIOUS
<1> HIDE DEF A, f, ofType
<1>21. f \in [ofType -> Nat] /\ \A i \in ofType : f[i] = Cardinality(A[i])
  <2>1. \A i \in ofType : f[i] = Cardinality(A[i])
    BY <1>2, <1>6, <1>16, <1>17, <1>20
  <2>2. \A i \in ofType : f[i] \in Nat
    BY <1>4, <1>17, <2>1
  <2> QED
    BY <1>20, <2>1, <2>2
<1>22. \A i, k \in ofType : i # k => A[i] \cap A[k] = {}
  <2> SUFFICES ASSUME NEW i \in ofType, NEW k \in ofType, i # k,
                      NEW x \in A[i] \cap A[k]
               PROVE  FALSE
    OBVIOUS
  <2>1. group(x) = errors[i].of /\ group(x) = errors[k].of
    BY <1>10, <1>17
  <2>2. errors[i] = errors[k]
    BY <1>6, <1>16, <2>1
  <2> QED
    BY <1>14, <1>16, <2>2
<1>23. \A i \in ofType : IsFiniteSet(A[i]) /\ A[i] \subseteq U
  <2> TAKE i \in ofType
  <2>1. ASSUME NEW x \in A[i]
        PROVE  x \in U
    <3>1. x \in ended /\ group(x) = errors[i].of
      BY <1>10, <1>17, <2>1
    <3> QED
      BY <1>9, <1>16, <3>1
  <2> QED
    BY <1>4, <1>17, <2>1
<1>24. ASSUME NEW x \in U
       PROVE  \E i \in ofType : x \in A[i]
  <2>1. x \in ended /\ group(x).type = t /\ row(group(x)) \in S
    BY <1>7, <1>8
  <2>2. PICK i \in 1..n : sorted[i] = row(group(x))
    BY <1>14, <2>1
  <2>3. errors[i].of = group(x)
    BY <1>2, <1>15, <2>2
  <2>4. i \in ofType
    BY <1>18, <2>1, <2>3
  <2> QED
    BY <1>10, <1>17, <2>1, <2>3, <2>4
<1>25. IsFiniteSet(U) /\ SumOf(f) = Cardinality(U)
  BY <1>19, <1>21, <1>22, <1>23, <1>24, SumOfSizes
<1>26. U = {x \in Log : /\ At(x).outcome \in JobErrors
                        /\ At(x).ended \in start..(end - 1)
                        /\ jobs[x[1]].type = t}
  BY DEF U, ended
<1> QED
  BY <1>25, <1>26 DEF f, ofType, errors

\* The figures are taken from two tables and still tell one story: a success has a
\* run in the sample of its type, and a failure an error in the list, unless the list
\* is cut off (stats.py _by_type, _top_errors).
THEOREM RatesAlwaysHaveTheirRuns == Spec => []RatesHaveTheirRuns
<1>1. IInv /\ RowsKept /\ RowsDated /\ RowsTold => RatesHaveTheirRuns
  <2> SUFFICES ASSUME IInv, RowsKept, RowsDated, RowsTold, NEW now \in Nows, NEW t \in Types
               PROVE  LET start == now - WindowMs
                          types == ByType(start, now + 1)
                          errors == TopErrors(start, now + 1)
                          finished(s) == {j \in FinishedIn(s, start, now + 1) :
                                              jobs[j].type = t}
                          ofType == {i \in DOMAIN errors : errors[i].of.type = t}
                      IN  /\ \A j \in finished("success") :
                                \E i \in DOMAIN types :
                                    \E x \in types[i].runs : x[1] = j
                          /\ Len(errors) < TopErrorsMax =>
                                SumOf([i \in ofType |-> errors[i].count])
                                    >= Cardinality(finished("failed"))
    BY DEF RatesHaveTheirRuns
  <2> DEFINE start == now - WindowMs
             end == now + 1
             finished(s) == {j \in FinishedIn(s, start, end) : jobs[j].type = t}
             errors == TopErrors(start, end)
             ofType == {i \in DOMAIN errors : errors[i].of.type = t}
             sum == SumOf([i \in ofType |-> errors[i].count])
  <2>1. start \in Int /\ end \in Int
    <3>1. now \in Nat /\ WindowMs \in Nat
      BY NowsAreTimes, StatsAssumption DEF IInv, Time
    <3> QED
      BY <3>1
  <2> HIDE DEF start, end
  <2>2. \A j \in finished("success") :
           LET types == ByType(start, end)
           IN  \E i \in DOMAIN types : \E x \in types[i].runs : x[1] = j
    BY <2>1, SuccessHasARun
  <2>3. ASSUME Len(errors) < TopErrorsMax
        PROVE  sum >= Cardinality(finished("failed"))
    <3> DEFINE U == {x \in Log : /\ At(x).outcome \in JobErrors
                                 /\ At(x).ended \in start..(end - 1)
                                 /\ jobs[x[1]].type = t}
               F == finished("failed")
               f == [j \in F |-> <<j, Newest(jobs[j])>>]
    <3>1. IsFiniteSet(U) /\ sum = Cardinality(U)
      BY <2>1, <2>3, ListedErrorsAreAll
    <3>2. \A j \in F : f[j] \in U
      <4> TAKE j \in F
      <4> DEFINE k == Newest(jobs[j])
                 a == jobs[j].attempts[k]
                 x == <<j, k>>
      <4>1. /\ j \in Jobs /\ jobs[j].status = "failed" /\ jobs[j].type = t
            /\ jobs[j].finished >= start /\ jobs[j].finished < end
        BY DEF FinishedIn
      <4>2. /\ RowInv(jobs[j]) /\ Dated(jobs[j])
            /\ jobs[j].deadline # NULL /\ a.ended = jobs[j].finished
            /\ a.outcome \in JobErrors
        BY <4>1 DEF IInv, RowsDated, RowsTold, Told
      <4>3. jobs[j].finished \in Int
        <5>1. Settled(jobs[j])
          BY <4>1 DEF Settled, IsTerminal, TerminalStatuses
        <5> QED
          BY <4>2, <5>1 DEF RowInv, Job, Dated, Time
      <4>4. k \in DOMAIN jobs[j].attempts
        <5>1. jobs[j].attempts \in Seq(Attempt) /\ k = Len(jobs[j].attempts)
          BY <4>2 DEF RowInv, Job, Newest
        <5>2. k > 0
          BY <4>1, <4>2 DEF RowsKept, RowKept, Timely, DeadlineOfNewest
        <5> QED
          BY <5>1, <5>2
      <4>5. x \in Log /\ At(x) = a /\ x[1] = j
        BY <4>1, <4>4, LogHasAll
      <4>6. a.ended \in start..(end - 1)
        BY <2>1, <4>1, <4>2, <4>3
      <4>7. f[j] = x
        OBVIOUS
      <4> HIDE DEF a, x, f
      <4> QED
        BY <4>1, <4>2, <4>5, <4>6, <4>7
    <3>3. f \in Injection(F, U)
      <4>1. \A j, k \in F : f[j] = f[k] => j = k
        OBVIOUS
      <4>2. DOMAIN f = F /\ f = [j \in F |-> f[j]]
        OBVIOUS
      <4> HIDE DEF f, F, U
      <4>3. f \in [F -> U]
        BY <3>2, <4>2
      <4> QED
        BY <4>1, <4>3 DEF Injection, IsInjective
    <3> HIDE DEF f, F, U, sum
    <3>4. IsFiniteSet(F) /\ Cardinality(F) <= Cardinality(U)
      BY <3>1, <3>3, FS_Injection
    <3>5. Cardinality(F) \in Nat /\ Cardinality(U) \in Nat
      BY <3>1, <3>4, FS_CardinalityType
    <3> QED
      BY <3>1, <3>4, <3>5 DEF F
  <2> QED
    BY <2>2, <2>3 DEF start, end
<1> QED
  BY <1>1, RowsAlwaysTold, PTL

-----------------------------------------------------------------------------
(* The lanes and the drawer of Machines. *)

\* A window is as long as it is asked for, and the later one ends later.
LEMMA WindowOfALane ==
    ASSUME NEW now \in Nat, NEW span \in Nat \ {0},
           NEW before \in Nat, NEW other, before <= now
    PROVE  LET win == AttemptWindow(now, span)
           IN  /\ win.to \in Int /\ win.from \in Int /\ win.from = win.to - span
               /\ AttemptWindow(before, other).to \in Int
               /\ AttemptWindow(before, other).to <= win.to
<1> DEFINE n == now \div StepMs
           m == before \div StepMs
<1>1. StepMs \in Nat \ {0}
  BY MachinesAssumption
<1>2. n \in Nat /\ m \in Nat /\ StepMs * m <= before
  BY <1>1, DivisionRoundsDown
<1>3. n >= m
  <2>1. now >= StepMs * m
    <3>1. StepMs * m \in Int
      BY <1>1, <1>2, SMTT(30)
    <3> QED
      BY <1>2, <3>1
  <2> QED
    BY <1>1, <1>2, <2>1, QuotientReaches
<1> HIDE DEF n, m
<1>4. StepMs * m <= StepMs * n
  BY <1>1, <1>2, <1>3, ProductsGrow
<1>5. /\ n * StepMs = StepMs * n /\ m * StepMs = StepMs * m
      /\ n * StepMs \in Int /\ m * StepMs \in Int
  BY <1>1, <1>2, SMTT(30)
<1> DEFINE to == n * StepMs
           ended == m * StepMs
<1>6. /\ AttemptWindow(now, span).to = to
      /\ AttemptWindow(now, span).from = to - span
      /\ AttemptWindow(before, other).to = ended
  BY DEF AttemptWindow, n, m
<1>7. to \in Int /\ ended \in Int /\ ended <= to
  BY <1>4, <1>5
<1> HIDE DEF to, ended
<1> QED
  BY <1>6, <1>7

\* The rows of an answer: attempts of the workers W that started before the window
\* ended.  Of the jobs that did not change hands since, the open ones are those
\* of the jobs that run.
RowsKeep(rows, asked, span, W) ==
    /\ asked \in Nat /\ asked <= clock
    /\ IsFiniteSet(rows)
    /\ \A r \in rows :
          /\ r.job \in Jobs /\ r.at \in Attempt /\ r.at.worker \in W
          /\ r.at.started < AttemptWindow(asked, span).to
          /\ r.at.outcome = NULL =>
                /\ r.at.ended = NULL
                /\ r.job \notin moved => /\ jobs[r.job].status = "running"
                                         /\ jobs[r.job].worker = r.at.worker
    /\ \A j \in Jobs \ moved :
          /\ jobs[j].status = "running" /\ jobs[j].worker \in W
          /\ jobs[j].started < AttemptWindow(asked, span).to
          => \E r \in rows : r.job = j /\ r.at.outcome = NULL
                                /\ r.at.worker = jobs[j].worker

\* Polling leaves the store alone.
LEMMA PollingLeavesTheStore ==
    /\ PollStep => UNCHANGED <<vars, moved, heard>>
    /\ [MachinesNext]_<<vars, screenVars>> => [Next]_vars
<1>1. PollStep => UNCHANGED <<vars, moved, heard>>
  BY DEF PollStep, GetWorkers, GetRunning, GetLoads, GetLanes, GetDrawer
<1> QED
  BY <1>1 DEF MachinesNext

\* The rows that are read are those of the store.
LEMMA RowsAreRead ==
    ASSUME IInv, RowsDated, RowsTold, NEW asked \in Nows, NEW span, NEW W, NEW rows,
           rows = {r \in AttemptRows(AttemptWindow(asked, span)) : r.at.worker \in W}
    PROVE  RowsKeep(rows, asked, span, W)
<1> DEFINE to == AttemptWindow(asked, span).to
           from == AttemptWindow(asked, span).from
           X == AttemptsBetween(from, to)
<1>1. X \subseteq Log /\ \A x : x \in X <=>
                /\ x \in Log /\ At(x).started < to
                /\ At(x).ended = NULL \/ At(x).ended > from
  BY DEF AttemptsBetween
<1>2. ASSUME NEW j \in Jobs
      PROVE  /\ RowInv(jobs[j]) /\ Dated(jobs[j])
             /\ jobs[j].status = "running" =>
                   /\ Newest(jobs[j]) \in DOMAIN jobs[j].attempts
                   /\ jobs[j].started = jobs[j].attempts[Newest(jobs[j])].started
                   /\ jobs[j].worker = jobs[j].attempts[Newest(jobs[j])].worker
  <2>1. RowInv(jobs[j]) /\ Dated(jobs[j]) /\ Told(jobs[j])
    BY DEF IInv, RowsDated, RowsTold
  <2>2. ASSUME jobs[j].status = "running"
        PROVE  jobs[j].token # NULL /\ jobs[j].deadline # NULL
    BY <2>1, <2>2 DEF RowInv, RowChecks, LeaseChecks
  <2> QED
    BY <2>1, <2>2 DEF RowInv, LogMatchesLease, Told
<1>3. asked \in Nat /\ asked <= clock
  BY NowsAreTimes DEF IInv, TypeOK, Nows, Time
<1>4. \A x : /\ AttemptRow(x).job = x[1] /\ AttemptRow(x).at = At(x)
  BY DEF AttemptRow
<1>5. rows = {r \in {AttemptRow(x) : x \in X} : r.at.worker \in W}
  BY DEF AttemptRows
<1>6. IsFiniteSet(rows)
  <2>1. IsFiniteSet(X)
    BY <1>1, LogIsFinite, FS_Subset
  <2> HIDE DEF X
  <2>2. IsFiniteSet({AttemptRow(x) : x \in X})
    <3> DEFINE T == {AttemptRow(x) : x \in X}
               f == [x \in X |-> AttemptRow(x)]
    <3>1. f \in Surjection(X, T)
      BY DEF Surjection
    <3> HIDE DEF f, T
    <3>2. IsFiniteSet(T)
      BY <2>1, <3>1, FS_Surjection
    <3> QED
      BY <3>2 DEF T
  <2>3. rows \subseteq {AttemptRow(x) : x \in X}
    BY <1>5
  <2> QED
    BY <2>2, <2>3, FS_Subset
<1>7. ASSUME NEW r \in rows
      PROVE  /\ r.job \in Jobs /\ r.at \in Attempt /\ r.at.worker \in W
             /\ r.at.started < to
             /\ r.at.outcome = NULL => /\ r.at.ended = NULL
                                       /\ jobs[r.job].status = "running"
                                       /\ jobs[r.job].worker = r.at.worker
  <2>1. PICK x \in X : r = AttemptRow(x) /\ r.at.worker \in W
    BY <1>5
  <2>2. r.job = x[1] /\ r.at = At(x) /\ x \in Log /\ At(x).started < to
    BY <1>1, <1>4, <2>1
  <2>3. /\ x[1] \in Jobs /\ x[2] \in DOMAIN jobs[x[1]].attempts /\ At(x) \in Attempt
        /\ At(x) = jobs[x[1]].attempts[x[2]]
    BY <2>2, LogHasAttempts
  <2>4. ASSUME At(x).outcome = NULL
        PROVE  /\ At(x).ended = NULL /\ jobs[x[1]].status = "running"
               /\ x[2] = Newest(jobs[x[1]])
    BY <1>2, <2>3, <2>4 DEF RowInv, LogMatchesLease, Dated
  <2>5. At(x).outcome = NULL => jobs[x[1]].worker = At(x).worker
    BY <1>2, <2>3, <2>4
  <2> HIDE DEF to
  <2> QED
    BY <2>1, <2>2, <2>3, <2>4, <2>5
<1>8. ASSUME NEW j \in Jobs, jobs[j].status = "running", jobs[j].worker \in W,
             jobs[j].started < to
      PROVE  \E r \in rows : r.job = j /\ r.at.outcome = NULL
                                /\ r.at.worker = jobs[j].worker
  <2> DEFINE k == Newest(jobs[j])
             x == <<j, k>>
  <2>1. k \in DOMAIN jobs[j].attempts
    BY <1>2, <1>8
  <2>2. x \in Log /\ At(x) = jobs[j].attempts[k] /\ x[1] = j
    BY <2>1, LogHasAll
  <2>3. At(x).outcome = NULL /\ At(x).ended = NULL
    BY <1>2, <1>8, <2>1, <2>2 DEF RowInv, LogMatchesLease, Dated
  <2>4. At(x).started < to /\ At(x).worker = jobs[j].worker
    BY <1>2, <1>8, <2>2
  <2> HIDE DEF x, to, from, X
  <2>5. x \in X
    BY <1>1, <2>2, <2>3, <2>4
  <2>6. AttemptRow(x) \in rows
    BY <1>4, <1>5, <1>8, <2>4, <2>5
  <2> QED
    BY <1>4, <2>2, <2>3, <2>4, <2>6
<1> QED
  BY <1>3, <1>6, <1>7, <1>8 DEF RowsKeep

\* Rows stay as they are while the store goes on.
LEMMA RowsAreKept ==
    ASSUME NEW rows, NEW asked, NEW span, NEW W, RowsKeep(rows, asked, span, W),
           clock \in Nat, clock' \in Nat, clock <= clock', moved \subseteq moved',
           \A j \in Jobs \ moved' : /\ jobs'[j].status = jobs[j].status
                                    /\ jobs'[j].worker = jobs[j].worker
                                    /\ jobs'[j].started = jobs[j].started
    PROVE  RowsKeep(rows, asked, span, W)'
<1> DEFINE to == AttemptWindow(asked, span).to
<1>1. AttemptWindow(asked, span)' = AttemptWindow(asked, span)
  BY DEF AttemptWindow
<1>2. asked \in Nat /\ asked <= clock'
  BY DEF RowsKeep
<1>3. ASSUME NEW r \in rows
      PROVE  /\ r.job \in Jobs /\ r.at \in Attempt /\ r.at.worker \in W
             /\ r.at.started < to
             /\ r.at.outcome = NULL =>
                   /\ r.at.ended = NULL
                   /\ r.job \notin moved' => /\ jobs'[r.job].status = "running"
                                             /\ jobs'[r.job].worker = r.at.worker
  BY DEF RowsKeep
<1>4. ASSUME NEW j \in Jobs \ moved', jobs'[j].status = "running",
             jobs'[j].worker \in W, jobs'[j].started < to
      PROVE  \E r \in rows : r.job = j /\ r.at.outcome = NULL
                                /\ r.at.worker = jobs'[j].worker
  BY <1>4 DEF RowsKeep
<1>5. IsFiniteSet(rows)
  BY DEF RowsKeep
<1> QED
  BY <1>2, <1>3, <1>4, <1>5 DEF RowsKeep, AttemptWindow

\* What is read stays true of the store as it goes on.
LanesKeep ==
    lanesRead # NULL => RowsKeep(lanesRead.rows, lanesRead.asked, RangeMs, Workers)

DrawerKeeps ==
    drawerRead # NULL =>
        /\ drawerRead.of \in Workers
        /\ RowsKeep(drawerRead.rows, drawerRead.asked, DrawerMs, {drawerRead.of})

GoesOn ==
    /\ clock \in Nat /\ clock' \in Nat /\ clock <= clock' /\ moved \subseteq moved'
    /\ \A j \in Jobs \ moved' : /\ jobs'[j].status = jobs[j].status
                                /\ jobs'[j].worker = jobs[j].worker
                                /\ jobs'[j].started = jobs[j].started

LEMMA ReadRowsStay ==
    ASSUME GoesOn
    PROVE  /\ LanesKeep /\ UNCHANGED lanesRead => LanesKeep'
           /\ DrawerKeeps /\ UNCHANGED drawerRead => DrawerKeeps'
<1>1. ASSUME LanesKeep, UNCHANGED lanesRead
      PROVE  LanesKeep'
  <2> SUFFICES ASSUME lanesRead' # NULL
               PROVE  RowsKeep(lanesRead.rows, lanesRead.asked, RangeMs, Workers)'
    BY DEF LanesKeep
  <2>1. PICK copy : copy = lanesRead
    OBVIOUS
  <2>2. RowsKeep(copy.rows, copy.asked, RangeMs, Workers)
    BY <1>1, <2>1 DEF LanesKeep
  <2>3. RowsKeep(copy.rows, copy.asked, RangeMs, Workers)'
    BY <2>2, RowsAreKept DEF GoesOn
  <2>4. lanesRead' = copy
    BY <1>1, <2>1
  <2> QED
    BY <2>3, <2>4 DEF RowsKeep, AttemptWindow
<1>2. ASSUME DrawerKeeps, UNCHANGED drawerRead
      PROVE  DrawerKeeps'
  <2> SUFFICES ASSUME drawerRead' # NULL
               PROVE  /\ drawerRead'.of \in Workers
                      /\ RowsKeep(drawerRead.rows, drawerRead.asked, DrawerMs,
                                  {drawerRead.of})'
    BY DEF DrawerKeeps
  <2>1. PICK copy : copy = drawerRead
    OBVIOUS
  <2>2. copy.of \in Workers /\ RowsKeep(copy.rows, copy.asked, DrawerMs, {copy.of})
    BY <1>2, <2>1 DEF DrawerKeeps
  <2>3. RowsKeep(copy.rows, copy.asked, DrawerMs, {copy.of})'
    BY <2>2, RowsAreKept DEF GoesOn
  <2>4. drawerRead' = copy
    BY <1>2, <2>1
  <2> QED
    BY <2>2, <2>3, <2>4 DEF RowsKeep, AttemptWindow
<1> QED
  BY <1>1, <1>2

\* What the workers and the overview said.
WorkersKeep ==
    /\ DOMAIN workersRead = BOOLEAN
    /\ \A offline \in BOOLEAN :
          workersRead[offline] # NULL =>
              \A w \in DOMAIN workersRead[offline] :
                  w \in Workers /\ (w \notin heard => w \in Registered)

OverviewKeeps ==
    overviewRead # NULL =>
        /\ DOMAIN overviewRead.running \subseteq Jobs
        /\ \A j \in Jobs \ moved :
              /\ j \in DOMAIN overviewRead.running <=> jobs[j].status = "running"
              /\ jobs[j].status = "running" => overviewRead.running[j] = jobs[j].worker
        /\ overviewRead.loads # NULL =>
              /\ \A w \in DOMAIN overviewRead.loads :
                    overviewRead.loads[w] =
                        {j \in DOMAIN overviewRead.running : overviewRead.running[j] = w}
              /\ \A w \in Workers \ heard :
                    w \in Registered /\ w \notin DOMAIN overviewRead.loads
                    => leases[w] < clock - OfflineHideMs

ScreenKeeps ==
    WorkersKeep /\ OverviewKeeps /\ LanesKeep /\ DrawerKeeps /\ moved \subseteq Jobs

LEMMA ReadAnswersStay ==
    ASSUME GoesOn, TypeOK, heard \subseteq heard',
           \A w \in Workers \ heard' : leases'[w] = leases[w]
    PROVE  /\ WorkersKeep /\ UNCHANGED workersRead => WorkersKeep'
           /\ OverviewKeeps /\ UNCHANGED overviewRead => OverviewKeeps'
<1>1. \A w \in Workers \ heard' : w \in Registered' <=> w \in Registered
  BY DEF Registered
<1>2. WorkersKeep /\ UNCHANGED workersRead => WorkersKeep'
  BY <1>1 DEF WorkersKeep
<1>3. ASSUME OverviewKeeps, UNCHANGED overviewRead
      PROVE  OverviewKeeps'
  <2> SUFFICES ASSUME overviewRead # NULL
               PROVE  OverviewKeeps'
    BY <1>3 DEF OverviewKeeps
  <2>1. \A j \in Jobs \ moved' :
           /\ j \in DOMAIN overviewRead.running <=> jobs'[j].status = "running"
           /\ jobs'[j].status = "running" => overviewRead.running[j] = jobs'[j].worker
    BY <1>3 DEF OverviewKeeps, GoesOn
  <2>2. ASSUME overviewRead.loads # NULL, NEW w \in Workers \ heard',
               w \in Registered', w \notin DOMAIN overviewRead.loads
        PROVE  leases'[w] < clock' - OfflineHideMs
    <3>1. w \in Registered /\ leases[w] < clock - OfflineHideMs
      BY <1>1, <1>3, <2>2 DEF OverviewKeeps
    <3>2. leases'[w] = leases[w] /\ leases[w] \in Nat
      BY <3>1 DEF TypeOK, Time, Registered
    <3>3. OfflineHideMs \in Nat
      BY MachinesAssumption
    <3> QED
      BY <3>1, <3>2, <3>3 DEF GoesOn
  <2>3. /\ DOMAIN overviewRead.running \subseteq Jobs
        /\ overviewRead.loads # NULL =>
              \A w \in DOMAIN overviewRead.loads :
                  overviewRead.loads[w] =
                      {j \in DOMAIN overviewRead.running : overviewRead.running[j] = w}
    BY <1>3 DEF OverviewKeeps
  <2> QED
    BY <1>3, <2>1, <2>2, <2>3 DEF OverviewKeeps
<1> QED
  BY <1>2, <1>3

\* Every answer, and every step of the store in between, keeps it.
LEMMA ScreenIsKept ==
    ASSUME IInv, RowsDated, RowsTold, ScreenKeeps, IInv',
           [MachinesNext]_<<vars, screenVars>>
    PROVE  ScreenKeeps'
<1>1. /\ clock \in Nat /\ clock' \in Nat /\ OfflineHideMs \in Nat /\ TypeOK
  BY MachinesAssumption DEF IInv, TypeOK, Time
<1>2. WorkersKeep /\ OverviewKeeps /\ LanesKeep /\ DrawerKeeps /\ moved \subseteq Jobs
  BY DEF ScreenKeeps
<1>3. ASSUME UNCHANGED <<vars, moved, heard>>
      PROVE  /\ UNCHANGED <<jobs, leases, clock, moved, heard>>
             /\ UNCHANGED workersRead => WorkersKeep'
             /\ UNCHANGED overviewRead => OverviewKeeps'
             /\ UNCHANGED lanesRead => LanesKeep'
             /\ UNCHANGED drawerRead => DrawerKeeps'
             /\ moved' \subseteq Jobs
  <2>1. UNCHANGED <<jobs, leases, clock, moved, heard>>
    BY <1>3 DEF vars
  <2>2. GoesOn
    BY <1>1, <2>1 DEF GoesOn
  <2>3. /\ WorkersKeep /\ UNCHANGED workersRead => WorkersKeep'
        /\ OverviewKeeps /\ UNCHANGED overviewRead => OverviewKeeps'
    BY <1>1, <2>1, <2>2, ReadAnswersStay
  <2>4. /\ LanesKeep /\ UNCHANGED lanesRead => LanesKeep'
        /\ DrawerKeeps /\ UNCHANGED drawerRead => DrawerKeeps'
    BY <2>2, ReadRowsStay
  <2> QED
    BY <1>2, <2>1, <2>3, <2>4
<1>4. ASSUME NEW now \in Nows, NEW offline \in BOOLEAN, GetWorkers(now, offline)
      PROVE  ScreenKeeps'
  <2> DEFINE known == {w \in Registered : offline \/ leases[w] >= now - OfflineHideMs}
             new == [w \in known |-> leases[w] > now]
  <2>1. /\ workersRead' = [workersRead EXCEPT ![offline] = new]
        /\ UNCHANGED <<vars, overviewRead, lanesRead, drawerRead, moved, heard>>
    BY <1>4 DEF GetWorkers
  <2>2. DOMAIN new = known /\ known \subseteq Registered /\ Registered \subseteq Workers
    BY DEF Registered
  <2>3. Registered' = Registered /\ heard' = heard
    BY <1>3, <2>1 DEF Registered
  <2> HIDE DEF new, known
  <2>4. WorkersKeep'
    BY <1>2, <2>1, <2>2, <2>3 DEF WorkersKeep
  <2> QED
    BY <1>3, <2>1, <2>4 DEF ScreenKeeps
<1>5. ASSUME GetRunning
      PROVE  ScreenKeeps'
  <2> DEFINE run == [j \in {j \in Jobs : jobs[j].status = "running"} |-> jobs[j].worker]
             new == [running |-> run, loads |-> NULL]
  <2>1. /\ overviewRead' = new
        /\ UNCHANGED <<vars, workersRead, lanesRead, drawerRead, moved, heard>>
    BY <1>5 DEF GetRunning
  <2>2. new.running = run /\ new.loads = NULL
    OBVIOUS
  <2>3. /\ DOMAIN run \subseteq Jobs
        /\ \A j \in Jobs : /\ j \in DOMAIN run <=> jobs[j].status = "running"
                           /\ jobs[j].status = "running" => run[j] = jobs[j].worker
    OBVIOUS
  <2> HIDE DEF new, run
  <2>4. OverviewKeeps'
    BY <1>3, <2>1, <2>2, <2>3 DEF OverviewKeeps
  <2> QED
    BY <1>3, <2>1, <2>4 DEF ScreenKeeps
<1>6. ASSUME NEW now \in Nows, GetLoads(now)
      PROVE  ScreenKeeps'
  <2> DEFINE run == overviewRead.running
             W == {w \in Registered : leases[w] >= now - OfflineHideMs}
             new == [w \in W |-> {j \in DOMAIN run : run[j] = w}]
             next == [overviewRead EXCEPT !.loads = new]
  <2>1. /\ overviewRead # NULL /\ overviewRead.loads = NULL
        /\ overviewRead' = next
        /\ UNCHANGED <<vars, workersRead, lanesRead, drawerRead, moved, heard>>
    BY <1>6 DEF GetLoads
  <2>2. /\ DOMAIN new = W
        /\ \A w \in W : new[w] = {j \in DOMAIN run : run[j] = w}
    OBVIOUS
  <2>3. \A w \in Workers : w \in Registered /\ w \notin W => leases[w] < clock - OfflineHideMs
    <3>1. now \in Nat /\ now <= clock
      BY <1>1, NowsAreTimes DEF Nows, Time
    <3>2. \A w \in Registered : leases[w] \in Nat
      BY <1>1 DEF Registered, TypeOK, Time
    <3> QED
      BY <1>1, <3>1, <3>2
  <2>4. next.running = run /\ next.loads = new
    OBVIOUS
  <2>5. Registered' = Registered
    BY <1>3, <2>1 DEF Registered
  <2> HIDE DEF W, new, next
  <2>6. OverviewKeeps'
    BY <1>2, <1>3, <2>1, <2>2, <2>3, <2>4, <2>5 DEF OverviewKeeps
  <2> QED
    BY <1>3, <2>1, <2>6 DEF ScreenKeeps
<1>7. ASSUME NEW now \in Nows, GetLanes(now)
      PROVE  ScreenKeeps'
  <2> DEFINE rows == AttemptRows(AttemptWindow(now, RangeMs))
             new == [asked |-> now, rows |-> rows]
  <2>1. /\ lanesRead' = new
        /\ UNCHANGED <<vars, workersRead, overviewRead, drawerRead, moved, heard>>
    BY <1>7 DEF GetLanes
  <2>2. new.asked = now /\ new.rows = rows
    OBVIOUS
  <2>3. rows = {r \in rows : r.at.worker \in Workers}
    <3> SUFFICES ASSUME NEW r \in rows
                 PROVE  r.at.worker \in Workers
      OBVIOUS
    <3>1. PICK x \in Log : r = AttemptRow(x)
      BY DEF AttemptRows, AttemptsBetween
    <3>2. r.at = At(x) /\ At(x) \in Attempt
      BY <3>1, LogHasAttempts DEF AttemptRow
    <3> QED
      BY <3>2 DEF Attempt
  <2>4. PICK r : r = rows
    OBVIOUS
  <2>5. RowsKeep(r, now, RangeMs, Workers)
    BY <2>3, <2>4, RowsAreRead
  <2>6. GoesOn
    BY <1>1, <1>3, <2>1 DEF GoesOn
  <2> HIDE DEF new, rows
  <2>7. RowsKeep(r, now, RangeMs, Workers)'
    BY <2>5, <2>6, RowsAreKept DEF GoesOn
  <2>8. lanesRead'.rows = r /\ lanesRead'.asked = now
    BY <2>1, <2>2, <2>4
  <2>9. LanesKeep'
    BY <2>7, <2>8 DEF LanesKeep, RowsKeep, AttemptWindow
  <2> QED
    BY <1>3, <2>1, <2>9 DEF ScreenKeeps
<1>8. ASSUME NEW now \in Nows, NEW w \in Workers, GetDrawer(w, now)
      PROVE  ScreenKeeps'
  <2> DEFINE all == AttemptRows(AttemptWindow(now, DrawerMs))
             rows == {r \in all : r.at.worker = w}
             new == [of |-> w, asked |-> now, rows |-> rows]
  <2>1. /\ drawerRead' = new
        /\ UNCHANGED <<vars, workersRead, overviewRead, lanesRead, moved, heard>>
    BY <1>8 DEF GetDrawer
  <2>2. new.asked = now /\ new.rows = rows /\ new.of = w
    OBVIOUS
  <2>3. rows = {r \in all : r.at.worker \in {w}}
    OBVIOUS
  <2>4. PICK r : r = rows
    OBVIOUS
  <2>5. RowsKeep(r, now, DrawerMs, {w})
    BY <2>3, <2>4, RowsAreRead
  <2>6. GoesOn
    BY <1>1, <1>3, <2>1 DEF GoesOn
  <2> HIDE DEF new, rows, all
  <2>7. RowsKeep(r, now, DrawerMs, {w})'
    BY <2>5, <2>6, RowsAreKept DEF GoesOn
  <2>8. drawerRead'.rows = r /\ drawerRead'.asked = now /\ drawerRead'.of = w
    BY <2>1, <2>2, <2>4
  <2>9. DrawerKeeps'
    BY <2>7, <2>8 DEF DrawerKeeps, RowsKeep, AttemptWindow
  <2> QED
    BY <1>3, <2>1, <2>9 DEF ScreenKeeps
<1>9. ASSUME Next, Between
      PROVE  ScreenKeeps'
  <2>1. UNCHANGED <<workersRead, overviewRead, lanesRead, drawerRead>>
    BY <1>9 DEF Between
  <2>2. clock <= clock'
    <3>1. CASE Tick
      BY <1>1, <3>1 DEF Tick
    <3>2. CASE ~Tick
      BY <1>1, <1>9, <3>2, ClocksApart DEF Next
    <3> QED
      BY <3>1, <3>2
  <2>3. CASE SomethingRead
    <3>1. /\ moved \subseteq moved' /\ heard \subseteq heard'
          /\ \A j \in Jobs \ moved' : /\ jobs'[j].status = jobs[j].status
                                      /\ jobs'[j].worker = jobs[j].worker
                                      /\ jobs'[j].started = jobs[j].started
          /\ \A w \in Workers \ heard' : leases'[w] = leases[w]
      BY <1>9, <2>3 DEF Between
    <3>2. GoesOn
      BY <1>1, <2>2, <3>1 DEF GoesOn
    <3>3. WorkersKeep' /\ OverviewKeeps'
      BY <1>1, <1>2, <2>1, <3>1, <3>2, ReadAnswersStay
    <3>4. LanesKeep' /\ DrawerKeeps'
      BY <1>2, <2>1, <3>2, ReadRowsStay
    <3>5. moved' \subseteq Jobs
      BY <1>2, <1>9, <2>3 DEF Between
    <3> QED
      BY <3>3, <3>4, <3>5 DEF ScreenKeeps
  <2>4. CASE ~SomethingRead
    BY <1>2, <1>9, <2>1, <2>4
       DEF ScreenKeeps, SomethingRead, Between, WorkersKeep, OverviewKeeps, LanesKeep,
           DrawerKeeps
  <2> QED
    BY <2>3, <2>4
<1>10. CASE UNCHANGED <<vars, screenVars>>
  BY <1>3, <1>10 DEF ScreenKeeps, screenVars
<1> QED
  BY <1>4, <1>5, <1>6, <1>7, <1>8, <1>9, <1>10 DEF MachinesNext, PollStep

\* The screen is read from a store that is well formed.
LEMMA ScreensAreKept ==
    MachinesSpec => [](IInv /\ RowsDated /\ RowsTold /\ ScreenKeeps)
<1>1. MachinesInit => Init /\ ScreenKeeps
  BY DEF MachinesInit, ScreenInit, ScreenKeeps, WorkersKeep, OverviewKeeps, LanesKeep,
         DrawerKeeps
<1>2. MachinesSpec => Spec
  BY <1>1, PollingLeavesTheStore, PTL DEF MachinesSpec, Spec
<1>3. IInv /\ RowsDated /\ RowsTold /\ ScreenKeeps /\ IInv'
         /\ [MachinesNext]_<<vars, screenVars>> => ScreenKeeps'
  BY ScreenIsKept
<1> QED
  BY <1>1, <1>2, <1>3, RowsAlwaysTold, PTL DEF MachinesSpec

\* The jobs of the open rows.
OpenIn(rows) == {r.job : r \in {r \in rows : r.at.outcome = NULL}}

\* Where the bar of a row begins and ends.
BarStart(r, win) == Later(r.at.started, win.from)
BarEnd(r, win) == Min2(Ended(r, win.to), win.to)

\* The bars of a lane, those of them that run, and where all have to be.
LaneBars(rows, w) ==
    {Bar(b) : b \in {b \in LayoutLanes(rows, AttemptWindow(clock, RangeMs)) :
                         b.of.at.worker = w}}

DrawnIn(bars) == {b.link : b \in {b \in bars : b.says = "running for"}}

LieOnTheLane(bars) ==
    \A b \in bars : /\ b.at[1] >= 0 /\ b.at[2] >= b.at[1]
                    /\ b.at[2] <= RangeMs
                    /\ b.says = "running for" => b.at[2] = RangeMs

\* Every bar lies on its lane, however old the rows, and that of an open row goes
\* up to its end.
LEMMA BarsOnTheLane ==
    ASSUME NEW asked, NEW rows, RowsKeep(rows, asked, RangeMs, Workers),
           clock \in Nat, NEW w
    PROVE  /\ DrawnIn(LaneBars(rows, w)) = OpenIn({r \in rows : r.at.worker = w})
           /\ LieOnTheLane(LaneBars(rows, w))
<1> DEFINE win == AttemptWindow(clock, RangeMs)
           from == win.from
           to == win.to
           lay(r) == [of |-> r, left |-> BarStart(r, win) - from,
                      width |-> BarEnd(r, win) - BarStart(r, win),
                      ms |-> Ended(r, to) - r.at.started]
           X == {r \in rows : BarEnd(r, win) >= BarStart(r, win)}
           L == {b \in LayoutLanes(rows, win) : b.of.at.worker = w}
           bars == LaneBars(rows, w)
           mine == {r \in rows : r.at.worker = w}
           open == {r \in mine : r.at.outcome = NULL}
<1>1. LayoutLanes(rows, win) = {lay(r) : r \in X}
  BY DEF LayoutLanes, BarStart, BarEnd
<1>2. /\ to \in Int /\ from \in Int /\ RangeMs \in Nat /\ RangeMs > 0
      /\ from = to - RangeMs
      /\ AttemptWindow(asked, RangeMs).to \in Int
      /\ AttemptWindow(asked, RangeMs).to <= to
  <2>1. RangeMs \in Nat \ {0} /\ asked \in Nat /\ asked <= clock
    BY MachinesAssumption DEF RowsKeep
  <2> QED
    BY <2>1, WindowOfALane
<1>3. \A r : /\ Bar(lay(r)).says = "running for" <=> r.at.outcome = NULL
             /\ Bar(lay(r)).link = r.job
             /\ Bar(lay(r)).at[1] = BarStart(r, win) - from
             /\ Bar(lay(r)).at[2] = (BarStart(r, win) - from)
                                       + (BarEnd(r, win) - BarStart(r, win))
             /\ lay(r).of = r
  BY DEF Bar
<1>4. \A r \in rows :
         /\ BarStart(r, win) \in Int /\ BarEnd(r, win) \in Int
         /\ BarStart(r, win) >= from /\ BarEnd(r, win) <= to
         /\ r.at.ended = NULL => /\ BarEnd(r, win) = to
                                 /\ BarEnd(r, win) >= BarStart(r, win)
  <2> TAKE r \in rows
  <2>1. /\ r.at.started \in Nat /\ r.at.ended \in Nat \cup {NULL} /\ NULL \notin Nat
        /\ r.at.started < AttemptWindow(asked, RangeMs).to
    BY NullAssumption DEF RowsKeep, Attempt, Time
  <2> HIDE DEF win
  <2>2. BarStart(r, win) \in Int /\ BarStart(r, win) >= from /\ BarStart(r, win) <= to
    BY <1>2, <2>1 DEF BarStart, Later
  <2>3. CASE r.at.ended = NULL
    <3>1. BarEnd(r, win) = to
      BY <1>2, <2>3 DEF BarEnd, Ended, Min2
    <3> QED
      BY <1>2, <2>2, <3>1
  <2>4. CASE r.at.ended # NULL
    <3>1. BarEnd(r, win) \in Int /\ BarEnd(r, win) <= to
      BY <1>2, <2>1, <2>4 DEF BarEnd, Ended, Min2
    <3> QED
      BY <2>2, <2>4, <3>1
  <2> QED
    BY <2>3, <2>4
<1>5. \A r \in open : r \in X /\ r.at.worker = w /\ r.at.ended = NULL
  BY <1>4 DEF RowsKeep
<1>6. \A r \in X : r \in rows /\ BarEnd(r, win) >= BarStart(r, win)
  OBVIOUS
<1>7. \A r : r \in open <=> r \in rows /\ r.at.worker = w /\ r.at.outcome = NULL
  OBVIOUS
<1>8. OpenIn(mine) = {r.job : r \in open}
  BY DEF OpenIn
<1> DEFINE drawn == {Bar(b) : b \in L}
<1> HIDE DEF lay, X, open, mine
<1>9. drawn = bars
  BY DEF LaneBars
<1> HIDE DEF win, bars
<1>10. /\ \A b \in bars : \E r \in X : b = Bar(lay(r)) /\ r.at.worker = w
       /\ \A r \in X : r.at.worker = w => Bar(lay(r)) \in bars
  <2>1. L = {b \in {lay(r) : r \in X} : b.of.at.worker = w}
    BY <1>1
  <2>2. \A r : lay(r).of = r
    BY <1>3
  <2>3. \A r \in X : r.at.worker = w => lay(r) \in L
    <3> SUFFICES ASSUME NEW r \in X, r.at.worker = w
                 PROVE  lay(r).of.at.worker = w
      BY <2>1
    <3> QED
      BY <2>2
  <2>4. \A b \in L : \E r \in X : b = lay(r) /\ r.at.worker = w
    <3> SUFFICES ASSUME NEW r \in X, lay(r).of.at.worker = w
                 PROVE  r.at.worker = w
      BY <2>1
    <3> QED
      BY <2>2
  <2> HIDE DEF L
  <2>5. /\ \A b \in drawn : \E r \in X : b = Bar(lay(r)) /\ r.at.worker = w
        /\ \A r \in X : r.at.worker = w => Bar(lay(r)) \in drawn
    BY <2>3, <2>4
  <2> HIDE DEF drawn
  <2> QED
    BY <1>9, <2>5
<1> HIDE DEF drawn, L
<1>11. ASSUME NEW b \in bars
       PROVE  /\ b.at[1] >= 0 /\ b.at[2] >= b.at[1] /\ b.at[2] <= RangeMs
              /\ b.says = "running for" => /\ b.at[2] = RangeMs
                                           /\ b.link \in {r.job : r \in open}
  <2>1. PICK r \in X : b = Bar(lay(r)) /\ r.at.worker = w
    BY <1>10
  <2>2. /\ BarStart(r, win) \in Int /\ BarEnd(r, win) \in Int
        /\ BarStart(r, win) >= from /\ BarEnd(r, win) <= to
        /\ BarEnd(r, win) >= BarStart(r, win)
        /\ b.at[1] = BarStart(r, win) - from
        /\ b.at[2] = (BarStart(r, win) - from) + (BarEnd(r, win) - BarStart(r, win))
    BY <1>3, <1>4, <1>6, <2>1
  <2>3. b.says = "running for" =>
           r \in open /\ BarEnd(r, win) = to /\ b.link = r.job
    BY <1>3, <1>4, <1>5, <1>6, <1>7, <2>1
  <2>4. b.at[1] >= 0 /\ b.at[2] >= b.at[1] /\ b.at[2] <= RangeMs
    BY <1>2, <2>2
  <2>5. BarEnd(r, win) = to => b.at[2] = RangeMs
    BY <1>2, <2>2
  <2> QED
    BY <2>3, <2>4, <2>5
<1>12. ASSUME NEW r \in open
       PROVE  \E b \in bars : b.says = "running for" /\ b.link = r.job
  BY <1>3, <1>5, <1>7, <1>10
<1>13. DrawnIn(bars) = {r.job : r \in open}
  BY <1>11, <1>12 DEF DrawnIn
<1>14. LieOnTheLane(bars)
  BY <1>11 DEF LieOnTheLane
<1> QED
  BY <1>8, <1>13, <1>14 DEF bars, mine

\* A list of rows, the newest first, has each of them.
LEMMA NewestFirst ==
    ASSUME NEW Y, IsFiniteSet(Y), \A r \in Y : r.at.started \in Int
    PROVE  LET s == Sorted(Y, LAMBDA r, q : r.at.started > q.at.started)
           IN  /\ s \in Seq(Y)
               /\ Len(s) = Cardinality(Y) /\ Cardinality(Y) \in Nat
               /\ \A r \in Y : \E i \in 1..Len(s) : s[i] = r
<1> DEFINE n == Cardinality(Y)
           OK(s) == \A i, j \in 1..n :
                        i < j => s[i] # s[j] /\ ~(s[j].at.started > s[i].at.started)
           list == Sorted(Y, LAMBDA r, q : r.at.started > q.at.started)
           f == [r \in Y |-> r.at.started]
<1>1. list = CHOOSE s \in [1..n -> Y] : OK(s)
  BY DEF Sorted
<1>2. f \in [Y -> Int] /\ \A r \in Y : f[r] = r.at.started
  OBVIOUS
<1> HIDE DEF f, list
<1>3. PICK s \in [1..Cardinality(Y) -> Y] :
         \A i, j \in 1..Cardinality(Y) : i < j => s[i] # s[j] /\ ~(f[s[j]] > f[s[i]])
  BY <1>2, SortedByANumber
<1>4. s \in [1..n -> Y] /\ OK(s)
  BY <1>2, <1>3
<1> HIDE DEF OK, n
<1>5. list \in [1..n -> Y] /\ OK(list)
  BY <1>1, <1>4
<1>6. /\ list \in [1..Cardinality(Y) -> Y]
      /\ \A i, j \in 1..Cardinality(Y) : i < j => list[i] # list[j]
  BY <1>5 DEF OK, n
<1>7. /\ Cardinality(Y) \in Nat
      /\ list \in Seq(Y) /\ Len(list) = Cardinality(Y)
      /\ \A r \in Y : \E i \in 1..Cardinality(Y) : list[i] = r
  BY <1>6, SortedHasThemAll
<1> QED
  BY <1>7 DEF list

\* The drawer lists every open row, however many have ended since.
LEMMA OpenAreListed ==
    ASSUME NEW X, IsFiniteSet(X), \A r \in X : r.at.started \in Int, NEW now
    PROVE  LET recent == RecentAttempts(LatestAttempts(X), now)
           IN  {recent[i].job : i \in {i \in DOMAIN recent : recent[i].outcome = NULL}}
                   = OpenIn(X)
<1> DEFINE open == {r \in X : r.at.outcome = NULL}
           a == Sorted(open, LAMBDA r, q : r.at.started > q.at.started)
           b == Sorted(X \ open, LAMBDA r, q : r.at.started > q.at.started)
           all == a \o b
           m == Min2(Len(all), Later(RecentMax, Cardinality(open)))
           latest == LatestAttempts(X)
           recent == RecentAttempts(latest, now)
<1>1. latest = SubSeq(all, 1, m)
  BY DEF LatestAttempts
<1>2. OpenIn(X) = {r.job : r \in open}
  BY DEF OpenIn
<1>3. /\ open \subseteq X /\ IsFiniteSet(open) /\ IsFiniteSet(X \ open)
      /\ \A r \in open : r.at.started \in Int
      /\ \A r \in X \ open : r.at.started \in Int
  BY FS_Subset
<1>4. /\ a \in Seq(open) /\ Len(a) = Cardinality(open) /\ Cardinality(open) \in Nat
      /\ \A r \in open : \E i \in 1..Len(a) : a[i] = r
  BY <1>3, NewestFirst
<1>5. b \in Seq(X \ open)
  BY <1>3, NewestFirst
<1>6. \A r \in X \ open : r.at.outcome # NULL
  OBVIOUS
<1>7. \A r \in open : r.at.outcome = NULL
  OBVIOUS
<1> HIDE DEF open, a, b, latest
<1>8. /\ all \in Seq(X) /\ Len(all) = Len(a) + Len(b)
      /\ \A i \in 1..Len(a) : all[i] = a[i] /\ a[i] \in open
      /\ \A i \in (Len(a) + 1)..Len(all) : all[i] \in X \ open
  <2>1. a \in Seq(X) /\ b \in Seq(X)
    BY <1>3, <1>4, <1>5
  <2>2. all \in Seq(X) /\ Len(all) = Len(a) + Len(b)
        /\ \A i \in 1..Len(all) : all[i] = IF i <= Len(a) THEN a[i] ELSE b[i - Len(a)]
    BY <2>1, ConcatProperties
  <2> HIDE DEF all
  <2>3. Len(a) \in Nat /\ Len(b) \in Nat
    BY <2>1
  <2>4. ASSUME NEW i \in 1..Len(a)
        PROVE  all[i] = a[i] /\ a[i] \in open
    BY <1>4, <2>2, <2>3, <2>4
  <2>5. ASSUME NEW i \in (Len(a) + 1)..Len(all)
        PROVE  all[i] \in X \ open
    <3>1. i \in 1..Len(all) /\ ~(i <= Len(a)) /\ (i - Len(a)) \in 1..Len(b)
      BY <2>2, <2>3
    <3>2. all[i] = b[i - Len(a)]
      BY <2>2, <3>1
    <3>3. b[i - Len(a)] \in X \ open
      BY <1>5, <3>1
    <3> QED
      BY <3>2, <3>3
  <2> QED
    BY <2>2, <2>4, <2>5
<1>9. /\ m \in Nat /\ m <= Len(all) /\ Len(a) <= m /\ Len(a) \in Nat /\ Len(all) \in Nat
  <2>1. Len(a) \in Nat /\ Len(b) \in Nat
    BY <1>4, <1>5
  <2>2. RecentMax \in Nat
    BY MachinesAssumption
  <2> HIDE DEF all
  <2> QED
    BY <1>4, <1>8, <2>1, <2>2 DEF Min2, Later
<1> HIDE DEF all, m
<1>10. DOMAIN latest = 1..m /\ \A i \in 1..m : latest[i] = all[i]
  BY <1>1, <1>8, <1>9, SubSeqProperties
<1>11. /\ DOMAIN recent = 1..m
       /\ \A i \in 1..m : /\ recent[i].job = latest[i].job
                          /\ recent[i].outcome = latest[i].at.outcome
  BY <1>10 DEF RecentAttempts
<1> HIDE DEF recent
<1>12. ASSUME NEW i \in DOMAIN recent, recent[i].outcome = NULL
       PROVE  \E r \in open : recent[i].job = r.job
  <2>1. i \in 1..m /\ all[i].at.outcome = NULL /\ recent[i].job = all[i].job
    BY <1>10, <1>11, <1>12
  <2>2. i \in 1..Len(a)
    <3>1. i \notin (Len(a) + 1)..Len(all)
      BY <1>6, <1>8, <2>1
    <3> QED
      BY <1>9, <2>1, <3>1
  <2> QED
    BY <1>8, <2>1, <2>2
<1>13. ASSUME NEW r \in open
       PROVE  \E i \in DOMAIN recent : recent[i].outcome = NULL /\ recent[i].job = r.job
  <2>1. PICK i \in 1..Len(a) : a[i] = r
    BY <1>4
  <2>2. i \in 1..m
    BY <1>9
  <2>3. latest[i] = r
    BY <1>8, <1>10, <2>1, <2>2
  <2> QED
    BY <1>7, <1>11, <2>2, <2>3
<1> QED
  BY <1>2, <1>12, <1>13 DEF recent, latest

\* The jobs that run on a worker.
RunsOn(w) == {j \in Jobs : jobs[j].status = "running" /\ jobs[j].worker = w}

\* The open rows of a worker that did not change hands are those of the jobs that
\* run on it, but for those that started after the window.
LEMMA OpenRowsRun ==
    ASSUME NEW rows, NEW asked, NEW span, NEW W, NEW w \in W,
           RowsKeep(rows, asked, span, W), IInv, asked \in Nat,
           AttemptWindow(asked, span).to \in Int
    PROVE  LET open == OpenIn({r \in rows : r.at.worker = w})
           IN  /\ open \subseteq Jobs
               /\ open \ moved \subseteq RunsOn(w)
               /\ \A j \in RunsOn(w) \ moved :
                     \/ j \in open
                     \/ ~(jobs[j].started < AttemptWindow(asked, span).to)
<1> DEFINE mine == {r \in rows : r.at.worker = w /\ r.at.outcome = NULL}
           open == OpenIn({r \in rows : r.at.worker = w})
<1>1. open = {r.job : r \in mine}
  BY DEF OpenIn
<1>2. \A r \in mine : /\ r.job \in Jobs
                      /\ r.job \notin moved => r.job \in RunsOn(w)
  BY DEF RowsKeep, RunsOn
<1>3. ASSUME NEW j \in RunsOn(w) \ moved,
             jobs[j].started < AttemptWindow(asked, span).to
      PROVE  \E r \in mine : r.job = j
  <2>1. j \in Jobs \ moved /\ jobs[j].status = "running" /\ jobs[j].worker = w
    BY DEF RunsOn
  <2>2. PICK r \in rows : r.job = j /\ r.at.outcome = NULL
                             /\ r.at.worker = jobs[j].worker
    BY <1>3, <2>1 DEF RowsKeep
  <2> QED
    BY <2>1, <2>2
<1> HIDE DEF mine, open
<1>4. open \subseteq Jobs /\ open \ moved \subseteq RunsOn(w)
  BY <1>1, <1>2
<1>5. \A j \in RunsOn(w) \ moved :
         \/ j \in open
         \/ ~(jobs[j].started < AttemptWindow(asked, span).to)
  BY <1>1, <1>3
<1> QED
  BY <1>4, <1>5 DEF open

\* The lane and the drawer of a worker show the same as running, and the overview
\* says that as many slots are busy, but for what changed between the answers; and
\* every bar lies on its lane (lanes.ts, worker-drawer.tsx).
THEOREM LanesAlwaysShowTheRuns == MachinesSpec => []LanesShowTheRuns
<1>1. IInv /\ RowsTold /\ ScreenKeeps => LanesShowTheRuns
  <2> SUFFICES ASSUME IInv, RowsTold, ScreenKeeps, NEW offline \in BOOLEAN,
                      ScreenComplete(offline)
               PROVE  LET w == drawerRead.of
                          bars == MachinesScreen(clock, offline).lanes[w].bars
                          drawer == Drawer(clock)
                          drawn == {b.link : b \in {b \in bars : b.says = "running for"}}
                          listed == {drawer.recent[i].job :
                                        i \in {i \in DOMAIN drawer.recent :
                                                  drawer.recent[i].outcome = NULL}}
                          horizon == Min2(AttemptWindow(lanesRead.asked, RangeMs).to,
                                          AttemptWindow(drawerRead.asked, DrawerMs).to)
                          begun == {j \in Jobs : jobs[j].status = "running"
                                                    /\ jobs[j].started >= horizon}
                      IN  /\ \A b \in bars : /\ b.at[1] >= 0 /\ b.at[2] >= b.at[1]
                                             /\ b.at[2] <= RangeMs
                                             /\ b.says = "running for" => b.at[2] = RangeMs
                          /\ drawn \ (moved \cup begun) = listed \ (moved \cup begun)
                          /\ drawer.busy <= Cardinality(listed \cup moved \cup begun)
                          /\ \/ Cardinality(listed \ moved) <= drawer.busy
                             \/ w \in heard
                             \/ leases[w] < clock - OfflineHideMs
    BY DEF LanesShowTheRuns
  <2> DEFINE w == drawerRead.of
             bars == MachinesScreen(clock, offline).lanes[w].bars
             drawer == Drawer(clock)
             drawn == {b.link : b \in {b \in bars : b.says = "running for"}}
             listed == {drawer.recent[i].job :
                           i \in {i \in DOMAIN drawer.recent :
                                     drawer.recent[i].outcome = NULL}}
             end == AttemptWindow(lanesRead.asked, RangeMs).to
             last == AttemptWindow(drawerRead.asked, DrawerMs).to
             begun == {j \in Jobs : jobs[j].status = "running"
                                       /\ jobs[j].started >= Min2(end, last)}
             L == lanesRead.rows
             D == drawerRead.rows
             loads == overviewRead.loads
             running == overviewRead.running
             screen == MachinesScreen(clock, offline)
  <2>1. /\ overviewRead # NULL /\ lanesRead # NULL /\ drawerRead # NULL /\ loads # NULL
        /\ w \in DOMAIN screen.lanes /\ w \in DOMAIN workersRead[TRUE]
        /\ workersRead[TRUE] # NULL
    BY DEF ScreenComplete
  <2>2. /\ w \in Workers /\ clock \in Nat
        /\ RowsKeep(L, lanesRead.asked, RangeMs, Workers)
        /\ RowsKeep(D, drawerRead.asked, DrawerMs, {w})
        /\ w \notin heard => w \in Registered
    BY <2>1 DEF ScreenKeeps, LanesKeep, DrawerKeeps, WorkersKeep, IInv, TypeOK, Time
  <2>3. bars = {Bar(b) : b \in {b \in LayoutLanes(L, AttemptWindow(clock, RangeMs)) :
                                    b.of.at.worker = w}}
    <3> DEFINE known == workersRead[offline]
               shown == {v \in DOMAIN known : offline \/ known[v]}
               all == LayoutLanes(L, AttemptWindow(clock, RangeMs))
               of(v) == {Bar(b) : b \in {b \in all : b.of.at.worker = v}}
               f == [v \in shown |-> [label |-> WorkerLabel(v, known[v]), bars |-> of(v)]]
    <3>1. screen.lanes = f
      BY <2>1 DEF MachinesScreen
    <3>2. w \in shown
      BY <2>1, <3>1
    <3>3. f[w].bars = of(w)
      BY <3>2
    <3> QED
      BY <3>1, <3>3
  <2>4. /\ drawn = OpenIn({r \in L : r.at.worker = w})
        /\ LieOnTheLane(bars)
    <3>1. bars = LaneBars(L, w)
      BY <2>3 DEF LaneBars
    <3>2. drawn = DrawnIn(bars)
      BY DEF DrawnIn
    <3> HIDE DEF bars, w, L, drawn
    <3>3. /\ DrawnIn(LaneBars(L, w)) = OpenIn({r \in L : r.at.worker = w})
          /\ LieOnTheLane(LaneBars(L, w))
      BY <2>2, BarsOnTheLane
    <3> QED
      BY <3>1, <3>2, <3>3
  <2>5. listed = OpenIn(D)
    <3>1. IsFiniteSet(D) /\ \A r \in D : r.at.started \in Int
      BY <2>2 DEF RowsKeep, Attempt, Time
    <3>2. drawer.recent = RecentAttempts(LatestAttempts(D), clock)
      BY DEF Drawer
    <3> HIDE DEF drawer, D
    <3> QED
      BY <3>1, <3>2, OpenAreListed
  <2>6. OpenIn(D) = OpenIn({r \in D : r.at.worker = w})
    <3>1. \A r \in D : r.at.worker = w
      BY <2>2 DEF RowsKeep
    <3>2. D = {r \in D : r.at.worker = w}
      BY <3>1
    <3> HIDE DEF D, w
    <3> QED
      BY <3>2
  <2>7. /\ end \in Int /\ last \in Int
        /\ lanesRead.asked \in Nat /\ drawerRead.asked \in Nat
    <3>1. RangeMs \in Nat \ {0} /\ DrawerMs \in Nat \ {0}
      BY MachinesAssumption
    <3>2. lanesRead.asked \in Nat /\ drawerRead.asked \in Nat
      BY <2>2 DEF RowsKeep
    <3>3. end \in Int
      BY <3>1, <3>2, WindowOfALane
    <3>4. last \in Int
      BY <3>1, <3>2, WindowOfALane
    <3> QED
      BY <3>2, <3>3, <3>4
  <2> HIDE DEF drawn, listed, bars
  <2>8. /\ drawn \subseteq Jobs /\ drawn \ moved \subseteq RunsOn(w)
        /\ \A j \in RunsOn(w) \ moved : j \in drawn \/ ~(jobs[j].started < end)
    <3> DEFINE open == OpenIn({r \in L : r.at.worker = w})
    <3> HIDE DEF L, w
    <3>1. /\ open \subseteq Jobs /\ open \ moved \subseteq RunsOn(w)
          /\ \A j \in RunsOn(w) \ moved : j \in open \/ ~(jobs[j].started < end)
      BY <2>2, <2>7, OpenRowsRun
    <3>2. drawn = open
      BY <2>4
    <3> HIDE DEF open
    <3> QED
      BY <3>1, <3>2
  <2>9. /\ listed \subseteq Jobs /\ listed \ moved \subseteq RunsOn(w)
        /\ \A j \in RunsOn(w) \ moved : j \in listed \/ ~(jobs[j].started < last)
    BY <2>2, <2>5, <2>6, <2>7, OpenRowsRun
  <2>10. \A j \in RunsOn(w) : jobs[j].started \in Nat
    <3> SUFFICES ASSUME NEW j \in RunsOn(w)
                 PROVE  jobs[j].started \in Nat
      OBVIOUS
    <3>1. j \in Jobs /\ jobs[j].status = "running" /\ RowInv(jobs[j]) /\ Told(jobs[j])
      BY DEF RunsOn, IInv, RowsTold
    <3>2. jobs[j].token # NULL /\ jobs[j].deadline # NULL
      BY <3>1 DEF RowInv, RowChecks, LeaseChecks
    <3>3. /\ Newest(jobs[j]) \in DOMAIN jobs[j].attempts
          /\ jobs[j].attempts[Newest(jobs[j])] \in Attempt
      BY <3>1, <3>2 DEF RowInv, LogMatchesLease, Job
    <3> QED
      BY <3>1, <3>2, <3>3 DEF Told, Attempt, Time
  <2>11. /\ begun \subseteq Jobs
         /\ \A j \in RunsOn(w) : \/ j \in begun
                                 \/ jobs[j].started < end /\ jobs[j].started < last
    <3> SUFFICES ASSUME NEW j \in RunsOn(w), j \notin begun
                 PROVE  jobs[j].started < end /\ jobs[j].started < last
      OBVIOUS
    <3>1. ~(jobs[j].started >= Min2(end, last)) /\ jobs[j].started \in Nat
      BY <2>10 DEF RunsOn
    <3> HIDE DEF end, last, begun
    <3> QED
      BY <2>7, <3>1 DEF Min2
  <2>12. RunningOf(w) = IF w \in DOMAIN loads THEN {j \in DOMAIN running : running[j] = w}
                        ELSE {}
    BY <2>1 DEF RunningOf, ScreenKeeps, OverviewKeeps
  <2>13. /\ RunningOf(w) \subseteq Jobs
         /\ RunningOf(w) \ moved \subseteq RunsOn(w)
         /\ w \in DOMAIN loads => RunsOn(w) \ moved \subseteq RunningOf(w)
    <3>1. /\ DOMAIN running \subseteq Jobs
          /\ \A j \in Jobs \ moved :
                /\ j \in DOMAIN running <=> jobs[j].status = "running"
                /\ jobs[j].status = "running" => running[j] = jobs[j].worker
      BY <2>1 DEF ScreenKeeps, OverviewKeeps
    <3> HIDE DEF running, w, loads
    <3> QED
      BY <2>12, <3>1 DEF RunsOn
  <2>14. \/ w \in DOMAIN loads \/ w \in heard
         \/ leases[w] < clock - OfflineHideMs
    BY <2>1, <2>2 DEF ScreenKeeps, OverviewKeeps
  <2>15. drawer.busy = Cardinality(RunningOf(w))
    BY DEF Drawer
  <2> HIDE DEF begun, drawer, w, loads, running, end, last
  <2>16. drawn \ (moved \cup begun) = listed \ (moved \cup begun)
    BY <2>8, <2>9, <2>11
  <2>17. drawer.busy <= Cardinality(listed \cup moved \cup begun)
    <3> DEFINE all == listed \cup moved \cup begun
    <3>1. moved \subseteq Jobs
      BY DEF ScreenKeeps
    <3>2. RunningOf(w) \subseteq all /\ all \subseteq Jobs
      BY <2>9, <2>11, <2>13, <3>1
    <3> HIDE DEF all
    <3>3. IsFiniteSet(all)
      BY <3>2, FiniteAssumption, FS_Subset
    <3>4. Cardinality(RunningOf(w)) <= Cardinality(all)
      BY <3>2, <3>3, FS_Subset
    <3> QED
      BY <2>15, <3>4 DEF all
  <2>18. \/ Cardinality(listed \ moved) <= drawer.busy
         \/ w \in heard
         \/ leases[w] < clock - OfflineHideMs
    <3>1. ASSUME w \in DOMAIN loads
          PROVE  Cardinality(listed \ moved) <= drawer.busy
      <4>1. listed \ moved \subseteq RunningOf(w)
        BY <2>9, <2>13, <3>1
      <4>2. IsFiniteSet(RunningOf(w))
        BY <2>13, FiniteAssumption, FS_Subset
      <4> QED
        BY <2>15, <4>1, <4>2, FS_Subset
    <3> QED
      BY <2>14, <3>1
  <2> QED
    BY <2>4, <2>16, <2>17, <2>18
       DEF LieOnTheLane, w, bars, drawer, drawn, listed, begun, end, last
<1> QED
  BY <1>1, ScreensAreKept, PTL

-----------------------------------------------------------------------------
(* The buckets of the chart. *)

\* The buckets end with the one that `now` is in and are as long as the window.
LEMMA BucketsOfAWindow ==
    ASSUME NEW now \in Nat
    PROVE  LET count == WindowMs \div BucketMs
               last == (now \div BucketMs) * BucketMs
               first == last - (count - 1) * BucketMs
           IN  /\ count \in Nat \ {0} /\ BucketMs \in Nat \ {0} /\ WindowMs \in Nat
               /\ last \in Nat /\ last <= now /\ now < last + BucketMs
               /\ first \in Int /\ first = last - WindowMs + BucketMs
               /\ first + (count - 1) * BucketMs = last
               /\ count * BucketMs = WindowMs
<1> DEFINE count == WindowMs \div BucketMs
           q == now \div BucketMs
<1>1. WindowMs \in Nat \ {0} /\ BucketMs \in Nat \ {0} /\ WindowMs % BucketMs = 0
  BY StatsAssumption
<1>2. WindowMs = BucketMs * count /\ count \in Nat
  BY <1>1, SMTT(30)
<1>3. q \in Nat /\ BucketMs * q <= now /\ now < BucketMs * (q + 1)
  BY <1>1, DivisionRoundsDown
<1> HIDE DEF count, q
<1>4. count # 0
  BY <1>1, <1>2, SMTT(30)
<1>5. BucketMs * (q + 1) = BucketMs * q + BucketMs /\ q * BucketMs = BucketMs * q
      /\ q * BucketMs \in Nat
  BY <1>1, <1>3, SMTT(30)
<1>6. /\ (count - 1) * BucketMs = BucketMs * count - BucketMs
      /\ count * BucketMs = BucketMs * count /\ BucketMs * count \in Nat
  BY <1>1, <1>2, <1>4, SMTT(30)
<1> DEFINE last == q * BucketMs
           rest == (count - 1) * BucketMs
<1>7. /\ last \in Nat /\ last <= now /\ now < last + BucketMs
      /\ rest = WindowMs - BucketMs /\ rest \in Int
  BY <1>1, <1>2, <1>3, <1>5, <1>6
<1> HIDE DEF last, rest
<1>8. /\ last - rest \in Int /\ last - rest = last - WindowMs + BucketMs
      /\ (last - rest) + rest = last
  BY <1>1, <1>7
<1> QED
  BY <1>1, <1>2, <1>4, <1>6, <1>7, <1>8 DEF last, rest, count, q

\* Every moment of them is in one bucket and no two buckets overlap.
LEMMA BucketOfATime ==
    ASSUME NEW first \in Int, NEW count \in Nat \ {0}, NEW b \in Nat \ {0}
    PROVE  LET start(i) == first + (i - 1) * b
           IN  /\ \A i \in 1..count : /\ start(i) \in Int /\ first <= start(i)
                                      /\ start(i) + b <= first + count * b
               /\ \A i, k \in 1..count : i < k => start(i) + b <= start(k)
               /\ \A t \in Int : first <= t /\ t < first + count * b =>
                     \E i \in 1..count : start(i) <= t /\ t < start(i) + b
<1> DEFINE start(i) == first + (i - 1) * b
<1>1. \A i \in Int : /\ (i - 1) * b \in Int /\ i * b \in Int
                     /\ b * i = i * b /\ b * (i - 1) = (i - 1) * b
                     /\ (i - 1) * b + b = i * b
  BY SMTT(30)
<1>2. \A x, y \in Int : x <= y => x * b <= y * b
  <2> SUFFICES ASSUME NEW x \in Int, NEW y \in Int, x <= y
               PROVE  x * b <= y * b
    OBVIOUS
  <2>1. b * x <= b * y
    BY ProductsGrow
  <2> QED
    BY <1>1, <2>1
<1>3. ASSUME NEW i \in 1..count
      PROVE  /\ start(i) \in Int /\ first <= start(i)
             /\ start(i) + b <= first + count * b
  <2>1. i \in Int /\ count \in Int /\ 0 <= i - 1 /\ i <= count /\ i - 1 \in Int
    OBVIOUS
  <2> DEFINE p == (i - 1) * b
             q == i * b
             r == count * b
  <2>2. 0 * b <= p /\ q <= r
    BY <1>2, <2>1
  <2>3. 0 * b = 0
    OBVIOUS
  <2>4. p \in Int /\ q \in Int /\ r \in Int /\ p + b = q
    BY <1>1, <2>1
  <2> HIDE DEF p, q, r
  <2>5. first + p \in Int /\ first <= first + p /\ (first + p) + b <= first + r
    BY <2>2, <2>3, <2>4
  <2> QED
    BY <2>5 DEF p, r
<1>4. ASSUME NEW i \in 1..count, NEW k \in 1..count, i < k
      PROVE  start(i) + b <= start(k)
  <2> DEFINE p == (i - 1) * b
             q == i * b
             r == (k - 1) * b
  <2>1. i \in Int /\ k - 1 \in Int /\ i <= k - 1 /\ k \in Int
    BY <1>4
  <2>2. q <= r
    BY <1>2, <2>1
  <2>3. p \in Int /\ q \in Int /\ r \in Int /\ p + b = q
    BY <1>1, <2>1
  <2> HIDE DEF p, q, r
  <2>4. (first + p) + b <= first + r
    BY <2>2, <2>3
  <2> QED
    BY <2>4 DEF p, r
<1>5. ASSUME NEW t \in Int, first <= t, t < first + count * b
      PROVE  \E i \in 1..count : start(i) <= t /\ t < start(i) + b
  <2> DEFINE d == (t - first) \div b
             r == count * b
  <2>1. d \in Nat /\ b * d <= t - first /\ t - first < b * (d + 1)
    BY <1>5, DivisionRoundsDown
  <2> HIDE DEF d
  <2>2. d * b \in Int /\ (d + 1) * b \in Int /\ r \in Int
        /\ b * d = d * b /\ b * (d + 1) = (d + 1) * b
        /\ d * b + b = (d + 1) * b
    <3>1. d + 1 \in Int /\ (d + 1) - 1 = d /\ d \in Int /\ count \in Int
      BY <2>1
    <3> QED
      BY <1>1, <3>1
  <2> DEFINE p == d * b
             q == (d + 1) * b
  <2>3. p <= t - first /\ t - first < q /\ p + b = q /\ p \in Int /\ q \in Int
    BY <2>1, <2>2
  <2>4. ~(count <= d)
    <3>1. count <= d => r <= p
      BY <1>2, <2>1
    <3> HIDE DEF p, q, r
    <3>2. t < first + r
      BY <1>5 DEF r
    <3> QED
      BY <1>5, <2>2, <2>3, <3>1, <3>2
  <2>5. d + 1 \in 1..count /\ (d + 1) - 1 = d
    BY <2>1, <2>4
  <2>6. start(d + 1) = first + p
    BY <2>5
  <2> HIDE DEF p, q, r
  <2>7. first + p <= t /\ t < (first + p) + b
    BY <1>5, <2>3
  <2> HIDE DEF start
  <2> QED
    BY <2>5, <2>6, <2>7
<1> QED
  BY <1>3, <1>4, <1>5

\* What has an outcome finished at a time, not in the future.
LEMMA FinishedIsATime ==
    ASSUME IInv, RowsDated, NEW j \in Jobs, jobs[j].status \in TerminalStatuses
    PROVE  jobs[j].finished \in Nat /\ jobs[j].finished <= clock
<1>1. Settled(jobs[j]) /\ Dated(jobs[j]) /\ jobs[j] \in Job
  BY DEF Settled, IsTerminal, RowsDated, IInv, RowInv
<1> QED
  BY <1>1 DEF Dated, Job, Time

LEMMA FinishedIsFinite ==
    ASSUME NEW s, NEW from, NEW to
    PROVE  /\ FinishedIn(s, from, to) \subseteq Jobs
           /\ IsFiniteSet(FinishedIn(s, from, to))
           /\ Cardinality(FinishedIn(s, from, to)) \in Nat
<1>1. FinishedIn(s, from, to) \subseteq Jobs
  BY DEF FinishedIn
<1>2. IsFiniteSet(FinishedIn(s, from, to))
  BY <1>1, FiniteAssumption, FS_Subset
<1> QED
  BY <1>1, <1>2, FS_CardinalityType

\* A bucket.
LEMMA BucketIsACount ==
    ASSUME NEW now
    PROVE  LET count == WindowMs \div BucketMs
               first == (now \div BucketMs) * BucketMs - (count - 1) * BucketMs
               start(i) == first + (i - 1) * BucketMs
               buckets == StatsBuckets(now)
           IN  /\ DOMAIN buckets = 1..count
               /\ \A i \in 1..count :
                     /\ buckets[i].start = start(i)
                     /\ \A s \in TerminalStatuses :
                           buckets[i].counts[s] =
                               Cardinality(FinishedIn(s, start(i), start(i) + BucketMs))
  BY DEF StatsBuckets, FinishedOf

\* The buckets together are what finished in their time, each job once.
LEMMA BucketsTogether ==
    ASSUME IInv, RowsDated, NEW now \in Nat, NEW s \in TerminalStatuses
    PROVE  LET buckets == StatsBuckets(now)
               last == (now \div BucketMs) * BucketMs
               total == SumOf([i \in DOMAIN buckets |-> buckets[i].counts[s]])
           IN  /\ total = Cardinality(FinishedIn(s, last - WindowMs + BucketMs,
                                                 last + BucketMs))
               /\ total > 0 <=> \E i \in DOMAIN buckets : buckets[i].counts[s] > 0
<1> DEFINE count == WindowMs \div BucketMs
           last == (now \div BucketMs) * BucketMs
           first == last - (count - 1) * BucketMs
           start(i) == first + (i - 1) * BucketMs
           end == last + BucketMs
           buckets == StatsBuckets(now)
           I == 1..count
           A == [i \in I |-> FinishedIn(s, start(i), start(i) + BucketMs)]
           f == [i \in I |-> buckets[i].counts[s]]
           U == FinishedIn(s, first, end)
<1>1. /\ count \in Nat \ {0} /\ BucketMs \in Nat \ {0} /\ WindowMs \in Nat
      /\ last \in Nat /\ first \in Int /\ first = last - WindowMs + BucketMs
      /\ count * BucketMs = WindowMs
  BY BucketsOfAWindow
<1>2. /\ DOMAIN buckets = I
      /\ \A i \in I : buckets[i].counts[s]
                          = Cardinality(FinishedIn(s, start(i), start(i) + BucketMs))
  BY BucketIsACount
<1>3. /\ \A i \in I : /\ start(i) \in Int /\ first <= start(i)
                      /\ start(i) + BucketMs <= first + count * BucketMs
      /\ \A i, k \in I : i < k => start(i) + BucketMs <= start(k)
      /\ \A t \in Int : first <= t /\ t < first + count * BucketMs =>
            \E i \in I : start(i) <= t /\ t < start(i) + BucketMs
  BY <1>1, BucketOfATime
<1>4. end = first + count * BucketMs /\ end \in Int
  <2> HIDE DEF last, first, count
  <2> QED
    BY <1>1
<1>5. \A i \in I : /\ A[i] = FinishedIn(s, start(i), start(i) + BucketMs)
                   /\ f[i] = Cardinality(A[i])
                   /\ f[i] = buckets[i].counts[s]
  BY <1>2
<1>6. \A i \in I : IsFiniteSet(A[i]) /\ Cardinality(A[i]) \in Nat
  BY FinishedIsFinite
<1>7. DOMAIN f = I /\ f = [i \in I |-> f[i]]
  OBVIOUS
<1>8. \A i, k \in I : i # k => i < k \/ k < i
  BY <1>1
<1>9. IsFiniteSet(I)
  BY <1>1, FS_Interval
<1> HIDE DEF count, last, first, start, end, buckets, I, A, f
<1>10. f \in [I -> Nat]
  BY <1>5, <1>6, <1>7
<1>11. \A i \in I : \A j : j \in A[i] <=>
          /\ j \in Jobs /\ jobs[j].status = s
          /\ jobs[j].finished >= start(i) /\ jobs[j].finished < start(i) + BucketMs
  BY <1>5 DEF FinishedIn
<1>12. \A j : j \in U <=>
          /\ j \in Jobs /\ jobs[j].status = s
          /\ jobs[j].finished >= first /\ jobs[j].finished < end
  BY DEF FinishedIn
<1>13. \A j \in Jobs : jobs[j].status = s => jobs[j].finished \in Nat
  BY FinishedIsATime
<1> HIDE DEF U
<1>14. \A i, k \in I : i # k => A[i] \cap A[k] = {}
  <2>1. ASSUME NEW i \in I, NEW k \in I, i < k, NEW j \in A[i] \cap A[k]
        PROVE  FALSE
    <3>1. /\ jobs[j].finished \in Int /\ jobs[j].finished >= start(k)
          /\ jobs[j].finished < start(i) + BucketMs
      BY <1>11, <1>13
    <3>2. start(i) + BucketMs <= start(k) /\ start(i) \in Int /\ start(k) \in Int
      BY <1>3, <2>1
    <3> QED
      BY <1>1, <3>1, <3>2
  <2> QED
    BY <1>8, <2>1
<1>15. \A i \in I : A[i] \subseteq U
  <2> SUFFICES ASSUME NEW i \in I, NEW j \in A[i]
               PROVE  j \in U
    OBVIOUS
  <2>1. /\ j \in Jobs /\ jobs[j].status = s /\ jobs[j].finished \in Int
        /\ jobs[j].finished >= start(i) /\ jobs[j].finished < start(i) + BucketMs
    BY <1>11, <1>13
  <2>2. start(i) \in Int /\ first <= start(i) /\ start(i) + BucketMs <= end
    BY <1>3, <1>4
  <2>3. jobs[j].finished >= first /\ jobs[j].finished < end
    BY <1>1, <1>4, <2>1, <2>2
  <2> QED
    BY <1>12, <2>1, <2>3
<1>16. ASSUME NEW j \in U
       PROVE  \E i \in I : j \in A[i]
  <2>1. /\ j \in Jobs /\ jobs[j].status = s /\ jobs[j].finished \in Int
        /\ first <= jobs[j].finished /\ jobs[j].finished < end
    <3>1. /\ j \in Jobs /\ jobs[j].status = s /\ jobs[j].finished \in Int
          /\ jobs[j].finished >= first /\ jobs[j].finished < end
      BY <1>12, <1>13
    <3> QED
      BY <1>1, <3>1
  <2>2. PICK i \in I : /\ start(i) <= jobs[j].finished
                       /\ jobs[j].finished < start(i) + BucketMs
    BY <1>3, <1>4, <2>1
  <2>3. start(i) \in Int
    BY <1>3
  <2>4. jobs[j].finished >= start(i)
    BY <2>1, <2>2, <2>3
  <2> QED
    BY <1>11, <2>1, <2>2, <2>4
<1>17. SumOf(f) = Cardinality(U)
  BY <1>5, <1>6, <1>9, <1>10, <1>14, <1>15, <1>16, SumOfSizes
<1>18. SumOf(f) > 0 <=> \E i \in I : f[i] > 0
  <2>1. SumOf(f) = 0 <=> \A i \in I : f[i] = 0
    BY <1>9, <1>10, SumOfNothing
  <2>2. SumOf(f) \in Nat /\ \A i \in I : f[i] \in Nat
    BY <1>9, <1>10, UnitsAreFinite
  <2> QED
    BY <2>1, <2>2
<1>19. SumOf(f) > 0 <=> \E i \in I : buckets[i].counts[s] > 0
  BY <1>5, <1>18
<1>20. U = FinishedIn(s, last - WindowMs + BucketMs, last + BucketMs)
  BY <1>1 DEF U, end
<1>21. f = [i \in DOMAIN buckets |-> buckets[i].counts[s]]
  BY <1>2 DEF f
<1> QED
  BY <1>2, <1>17, <1>19, <1>20, <1>21 DEF buckets, last

\* A set of finished jobs counts for no more than one it is part of.
LEMMA FinishedGrows ==
    ASSUME IInv, RowsDated, NEW s \in TerminalStatuses,
           NEW from \in Int, NEW to \in Int, NEW from2 \in Int, NEW to2 \in Int,
           from2 <= from, to <= to2 \/ clock < to2
    PROVE  Cardinality(FinishedIn(s, from, to)) <= Cardinality(FinishedIn(s, from2, to2))
<1>1. SUFFICES FinishedIn(s, from, to) \subseteq FinishedIn(s, from2, to2)
  BY <1>1, FinishedIsFinite, FS_Subset
<1> SUFFICES ASSUME NEW j \in FinishedIn(s, from, to)
             PROVE  j \in FinishedIn(s, from2, to2)
  OBVIOUS
<1>2. /\ j \in Jobs /\ jobs[j].status = s
      /\ jobs[j].finished >= from /\ jobs[j].finished < to
  BY DEF FinishedIn
<1>3. jobs[j].finished \in Nat /\ jobs[j].finished <= clock /\ clock \in Nat
  BY <1>2, FinishedIsATime DEF IInv, TypeOK, Time
<1>4. jobs[j].finished >= from2 /\ jobs[j].finished < to2
  BY <1>2, <1>3
<1> QED
  BY <1>2, <1>4 DEF FinishedIn

\* The counts of a time.
LEMMA FinishedOfIsCounts ==
    ASSUME NEW from, NEW to
    PROVE  /\ FinishedOf(from, to) \in [TerminalStatuses -> Nat]
           /\ SumOf(FinishedOf(from, to)) = 0 =>
                 \A s \in TerminalStatuses : Cardinality(FinishedIn(s, from, to)) = 0
<1> DEFINE f == FinishedOf(from, to)
<1>1. f = [s \in TerminalStatuses |-> Cardinality(FinishedIn(s, from, to))]
  BY DEF FinishedOf
<1>2. \A s \in TerminalStatuses : Cardinality(FinishedIn(s, from, to)) \in Nat
  BY FinishedIsFinite
<1> HIDE DEF f
<1>3. f \in [TerminalStatuses -> Nat]
  BY <1>1, <1>2
<1>4. IsFiniteSet(TerminalStatuses)
  <2>1. TerminalStatuses = {"success", "failed"} \cup {"cancelled"}
    BY DEF TerminalStatuses
  <2>2. {"success", "failed"} = {"success"} \cup {"failed"}
    OBVIOUS
  <2> QED
    BY <2>1, <2>2, FS_Singleton, FS_Union
<1>5. SumOf(f) = 0 => \A s \in TerminalStatuses : f[s] = 0
  BY <1>3, <1>4, SumOfNothing
<1>6. \A s \in TerminalStatuses : f[s] = Cardinality(FinishedIn(s, from, to))
  BY <1>1
<1> QED
  BY <1>3, <1>5, <1>6 DEF f

\* A chart is not the absence of one.
LEMMA ChartIsThere ==
    ASSUME NEW a, NEW now, a.buckets = StatsBuckets(now)
    PROVE  FinishedChart(a) # NULL
<1> DEFINE count == WindowMs \div BucketMs
           B == a.buckets
           series == {s \in TerminalStatuses : \E i \in DOMAIN B : B[i].counts[s] > 0}
           bars == [i \in DOMAIN B |-> [counts |-> B[i].counts, pale |-> i = Len(B)]]
           OneBar == [counts : [TerminalStatuses -> Nat], pale : BOOLEAN]
<1>1. count \in Nat
  BY StatsAssumption, SMTT(30)
<1>2. DOMAIN B = 1..count /\ \A i \in 1..count : \E u, v : B[i].counts = FinishedOf(u, v)
  BY DEF StatsBuckets
<1> HIDE DEF B, count
<1>3. \A i \in 1..count : [counts |-> B[i].counts, pale |-> i = Len(B)] \in OneBar
  <2> TAKE i \in 1..count
  <2>1. B[i].counts \in [TerminalStatuses -> Nat]
    BY <1>2, FinishedOfIsCounts
  <2>2. (i = Len(B)) \in BOOLEAN
    OBVIOUS
  <2> QED
    BY <2>1, <2>2
<1> HIDE DEF OneBar
<1>4. bars \in [1..count -> OneBar]
  BY <1>2, <1>3
<1> HIDE DEF bars
<1>5. bars \in Seq(OneBar)
  BY <1>1, <1>4
<1>6. series \in SUBSET TerminalStatuses
  OBVIOUS
<1> HIDE DEF series
<1>7. [series |-> series, bars |-> bars] \in [series : SUBSET TerminalStatuses,
                                              bars : Seq(OneBar)]
  BY <1>5, <1>6
<1>8. FinishedChart(a) = [series |-> series, bars |-> bars]
  BY DEF FinishedChart, series, bars, B
<1>9. NULL \notin [series : SUBSET TerminalStatuses, bars : Seq(OneBar)]
  BY StatsAssumption DEF OneBar
<1> QED
  BY <1>7, <1>8, <1>9

\* The bars of the chart together are every job that finished in the window but in
\* its oldest part, shorter than a bucket; without a chart nothing finished
\* (stats.py _stats_buckets, stats-page.tsx).
THEOREM BucketsAlwaysCoverTheWindow == Spec => []BucketsCoverTheWindow
<1>1. IInv /\ RowsDated => BucketsCoverTheWindow
  <2> SUFFICES ASSUME IInv, RowsDated, NEW now \in Nows
               PROVE  LET a == StatsForRange(now)
                          screen == StatsScreen(a)
                          total(s) == SumOf([i \in DOMAIN a.buckets |->
                                                a.buckets[i].counts[s]])
                          in(s, from, to) == Cardinality(FinishedIn(s, from, to))
                      IN  /\ screen.chart # NULL =>
                                \A s \in TerminalStatuses :
                                    /\ total(s) >= in(s, now - WindowMs + BucketMs, now + 1)
                                    /\ total(s) <= in(s, now - WindowMs, clock + 1)
                                    /\ total(s) > 0 <=> s \in screen.chart.series
                          /\ screen.chart = NULL =>
                                \A s \in TerminalStatuses :
                                    in(s, now - WindowMs, now + 1) = 0
                          /\ a.buckets[Len(a.buckets)].start
                                 \in (now - BucketMs + 1)..now
    BY DEF BucketsCoverTheWindow
  <2> DEFINE a == StatsForRange(now)
             screen == StatsScreen(a)
             B == a.buckets
             count == WindowMs \div BucketMs
             last == (now \div BucketMs) * BucketMs
             total(s) == SumOf([i \in DOMAIN B |-> B[i].counts[s]])
             in(s, from, to) == Cardinality(FinishedIn(s, from, to))
             start == now - WindowMs
             end == now + 1
  <2>1. now \in Nat /\ clock \in Nat
    BY NowsAreTimes DEF IInv, TypeOK, Time
  <2>2. /\ BucketMs \in Nat \ {0} /\ WindowMs \in Nat /\ count \in Nat \ {0}
        /\ last \in Nat /\ last <= now /\ now < last + BucketMs
        /\ (last - (count - 1) * BucketMs) + (count - 1) * BucketMs = last
    BY <2>1, BucketsOfAWindow
  <2>3. /\ B = StatsBuckets(now)
        /\ a.kpis.finished = SumOf(FinishedOf(start, end))
    BY DEF StatsForRange, Kpis
  <2>4. FinishedChart(a) # NULL
    BY <2>3, ChartIsThere
  <2>5. /\ a.kpis.finished = 0 => screen.chart = NULL
        /\ a.kpis.finished # 0 => screen.chart = FinishedChart(a)
    BY Zenon DEF StatsScreen
  <2>6. FinishedChart(a).series = {s \in TerminalStatuses :
                                      \E i \in DOMAIN B : B[i].counts[s] > 0}
    BY DEF FinishedChart
  <2>7. \A s \in TerminalStatuses :
           /\ total(s) = in(s, last - WindowMs + BucketMs, last + BucketMs)
           /\ total(s) > 0 <=> \E i \in DOMAIN B : B[i].counts[s] > 0
    BY <2>1, <2>3, BucketsTogether
  <2>8. B[Len(B)].start = last
    <3>1. /\ DOMAIN B = 1..count
          /\ \A i \in 1..count : B[i].start = (last - (count - 1) * BucketMs)
                                                  + (i - 1) * BucketMs
      BY <2>3, BucketIsACount
    <3>2. B = [i \in 1..count |-> B[i]]
      BY <2>3, <3>1 DEF StatsBuckets
    <3> HIDE DEF B, last, count
    <3>3. Len(B) = count
      <4>1. count \in Nat
        BY <2>2
      <4> QED
        BY <3>1, <4>1
    <3>4. count \in 1..count
      BY <2>2
    <3>5. B[count].start = (last - (count - 1) * BucketMs) + (count - 1) * BucketMs
      BY <3>1, <3>4
    <3> QED
      BY <2>2, <3>3, <3>5
  <2>9. ASSUME NEW s \in TerminalStatuses
        PROVE  /\ total(s) >= in(s, now - WindowMs + BucketMs, now + 1)
               /\ total(s) <= in(s, now - WindowMs, clock + 1)
    <3> HIDE DEF B, last, count, total
    <3> DEFINE from == last - WindowMs + BucketMs
               to == last + BucketMs
    <3>1. /\ from \in Int /\ to \in Int
          /\ start \in Int /\ start + BucketMs \in Int /\ end \in Int
          /\ now - WindowMs + BucketMs = start + BucketMs
          /\ clock + 1 \in Int /\ clock < clock + 1
          /\ from <= start + BucketMs /\ end <= to /\ start <= from
      BY <2>1, <2>2
    <3> HIDE DEF from, to, start, end
    <3>2. in(s, start + BucketMs, end) <= in(s, from, to)
      BY <3>1, FinishedGrows
    <3>3. in(s, from, to) <= in(s, start, clock + 1)
      BY <3>1, FinishedGrows
    <3>4. /\ in(s, from, to) \in Nat /\ in(s, start + BucketMs, end) \in Nat
          /\ in(s, start, clock + 1) \in Nat
      BY FinishedIsFinite
    <3>5. total(s) = in(s, from, to)
      BY <2>7 DEF from, to
    <3> HIDE DEF in
    <3>6. /\ total(s) >= in(s, start + BucketMs, end)
          /\ total(s) <= in(s, start, clock + 1)
      BY <3>2, <3>3, <3>4, <3>5
    <3> QED
      BY <3>1, <3>6 DEF start, end
  <2>10. \A s \in TerminalStatuses : screen.chart # NULL =>
            (total(s) > 0 <=> s \in screen.chart.series)
    <3> HIDE DEF total, B, screen, a
    <3> QED
      BY <2>4, <2>5, <2>6, <2>7
  <2>11. screen.chart = NULL =>
            \A s \in TerminalStatuses : in(s, start, end) = 0
    BY <2>3, <2>4, <2>5, FinishedOfIsCounts
  <2>12. B[Len(B)].start \in (now - BucketMs + 1)..now
    <3> HIDE DEF B, last, count
    <3> QED
      BY <2>1, <2>2, <2>8
  <2>13. screen.chart # NULL =>
            \A s \in TerminalStatuses :
                /\ total(s) >= in(s, now - WindowMs + BucketMs, now + 1)
                /\ total(s) <= in(s, now - WindowMs, clock + 1)
                /\ total(s) > 0 <=> s \in screen.chart.series
    BY <2>9, <2>10
  <2> QED
    BY <2>11, <2>12, <2>13, Zenon
<1> QED
  BY <1>1, RowsAlwaysTold, PTL

=============================================================================
