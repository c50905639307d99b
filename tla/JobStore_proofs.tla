---------------------------- MODULE JobStore_proofs ----------------------------
(***************************************************************************)
(* Rows and tables stay well formed, for any number of jobs, workers and   *)
(* claims and any settings.  First the rows: each operator of JobRow maps  *)
(* a well formed row to a well formed row.  Then the table: the row lemmas *)
(* applied to it, one step per action.                                     *)
(***************************************************************************)
EXTENDS JobStore, WellFoundedInduction, TLAPS

\* A row as the operations find it and leave it.
RowInv(job) == job \in Job /\ RowChecks(job) /\ LogMatchesLease(job)

\* Such a row of a job that no worker holds.
Unowned(job) == RowInv(job) /\ job.worker = NULL

\* A row whose attempts have all ended, whatever its lease columns still say.
AllEnded(job) ==
    /\ job \in Job
    /\ ReportChecks(job)
    /\ \A k \in DOMAIN job.attempts : job.attempts[k].outcome # NULL

\* NULL is none of the values the text columns take.
LEMMA NullIsNoString ==
    /\ NULL \notin Outcomes
    /\ NULL \notin ReportStatuses
    /\ NULL \notin JobErrors
  BY NullAssumption

\* Closing an attempt, or opening it again, keeps who ran it and when it
\* started.
LEMMA AttemptClosed ==
    ASSUME NEW a \in Attempt, NEW outcome \in Outcomes \cup {NULL},
           NEW ended \in Time \cup {NULL}
    PROVE  /\ Closed(a, outcome, ended) \in Attempt
           /\ Closed(a, outcome, ended).outcome = outcome
           /\ Closed(a, outcome, ended).worker = a.worker
           /\ Closed(a, outcome, ended).started = a.started
           /\ Closed(a, outcome, ended).ended = ended
  BY DEF Closed, Attempt

\* Writing the newest attempt leaves the others and their number alone.
LEMMA NewestReplaced ==
    ASSUME NEW job \in Job, Newest(job) > 0, NEW a \in Attempt
    PROVE  /\ WithNewest(job, a) \in Job
           /\ DOMAIN WithNewest(job, a).attempts = DOMAIN job.attempts
           /\ Newest(WithNewest(job, a)) = Newest(job)
           /\ \A k \in DOMAIN job.attempts :
                 WithNewest(job, a).attempts[k] =
                    IF k = Newest(job) THEN a ELSE job.attempts[k]
<1> DEFINE n == Len(job.attempts)
           s == [job.attempts EXCEPT ![n] = a]
<1>1. job.attempts \in Seq(Attempt) /\ n \in Nat /\ n > 0
  BY DEF Job, Newest
<1>2. /\ s \in Seq(Attempt)
      /\ Len(s) = n
      /\ DOMAIN s = DOMAIN job.attempts
      /\ \A k \in DOMAIN job.attempts : s[k] = IF k = n THEN a ELSE job.attempts[k]
  BY <1>1
<1>3. WithNewest(job, a) = [job EXCEPT !.attempts = s]
  BY DEF WithNewest, Newest
<1> HIDE DEF s
<1>4. [job EXCEPT !.attempts = s] \in Job
  BY <1>2 DEF Job
<1>5. [job EXCEPT !.attempts = s].attempts = s
  BY DEF Job
<1> QED
  BY <1>2, <1>3, <1>4, <1>5 DEF Newest

\* EndAttempt ends the open attempt and touches nothing but the log.
LEMMA EndedAttempt ==
    ASSUME NEW job, RowInv(job), job.token # NULL, NEW outcome \in Outcomes,
           NEW now \in Time
    PROVE  AllEnded(EndAttempt(job, outcome, now))
<1> DEFINE n == Newest(job)
           a == Closed(job.attempts[n], outcome, now)
           e == EndAttempt(job, outcome, now)
<1>1. /\ job \in Job
      /\ n \in DOMAIN job.attempts
      /\ job.attempts \in Seq(Attempt)
      /\ n > 0
  BY DEF RowInv, LogMatchesLease, Job, Newest
<1>2. job.attempts[n] \in Attempt
  BY <1>1
<1>3. a \in Attempt /\ a.outcome = outcome
  BY <1>2, AttemptClosed
<1>4. e = WithNewest(job, a)
  BY DEF EndAttempt
<1> HIDE DEF a, e
<1>5. /\ e \in Job
      /\ DOMAIN e.attempts = DOMAIN job.attempts
      /\ \A k \in DOMAIN job.attempts :
            e.attempts[k] = IF k = n THEN a ELSE job.attempts[k]
  BY <1>1, <1>3, <1>4, NewestReplaced
<1>6. ReportChecks(e)
  BY <1>1, <1>4 DEF RowInv, RowChecks, ReportChecks, ReportBusy, WithNewest, Job
<1>7. \A k \in DOMAIN e.attempts : e.attempts[k].outcome # NULL
  BY <1>3, <1>5, NullIsNoString DEF RowInv, LogMatchesLease
<1> QED
  BY <1>5, <1>6, <1>7 DEF AllEnded, e

-----------------------------------------------------------------------------
(* Rows that are not leased any more. *)

\* A job that holds no lease has ended all its attempts.
LEMMA IdleHasEnded ==
    ASSUME NEW job, RowInv(job), job.token = NULL
    PROVE  AllEnded(job)
  BY DEF RowInv, AllEnded, RowChecks, LeaseChecks, LogMatchesLease

\* A row with ended attempts and no lease is well formed in any state but
\* running.
LEMMA EndedIsWellFormed ==
    ASSUME NEW job, AllEnded(job), job.token = NULL, job.worker = NULL,
           job.until = NULL, job.status # "running"
    PROVE  Unowned(job)
  BY DEF Unowned, RowInv, AllEnded, RowChecks, LeaseChecks, LogMatchesLease

\* Clearing the lease columns leaves no lease and keeps the log.
LEMMA UnleasedRow ==
    ASSUME NEW job, AllEnded(job)
    PROVE  /\ AllEnded(Unleased(job))
           /\ Unleased(job).token = NULL
           /\ Unleased(job).worker = NULL
           /\ Unleased(job).until = NULL
<1>1. Unleased(job) \in Job
  BY DEF AllEnded, Unleased, Job
<1>2. /\ Unleased(job).attempts = job.attempts
      /\ Unleased(job).report = job.report
      /\ Unleased(job).methods = job.methods
      /\ Unleased(job).token = NULL
      /\ Unleased(job).worker = NULL
      /\ Unleased(job).until = NULL
  BY DEF AllEnded, Unleased, Job
<1> QED
  BY <1>1, <1>2 DEF AllEnded, ReportChecks, ReportBusy

\* Starting the report of a finished job keeps the row well formed.
LEMMA StartedReport ==
    ASSUME NEW job, AllEnded(job), job.token = NULL, job.worker = NULL,
           job.until = NULL, job.status # "running", NEW now \in Time
    PROVE  Unowned(StartReport(job, now))
<1> DEFINE report == [NoReport EXCEPT !.status = "pending", !.nextAt = now]
           row == [job EXCEPT !.report = report]
<1>1. CASE job.methods = 0
  BY <1>1, EndedIsWellFormed DEF StartReport
<1>2. CASE job.methods # 0
  <2>1. /\ report \in Report
        /\ report.status = "pending"
        /\ report.nextAt = now
    BY DEF NoReport, Report, ReportStatuses, Time
  <2>2. job \in Job /\ job.methods \in Nat
    BY DEF AllEnded, Job
  <2> HIDE DEF report
  <2>3. row \in Job
    BY <2>1, <2>2 DEF Job
  <2>4. /\ row.report = report
        /\ row.methods = job.methods
        /\ row.attempts = job.attempts
        /\ row.token = NULL
        /\ row.worker = NULL
        /\ row.until = NULL
        /\ row.status # "running"
    BY <2>2 DEF Job
  <2> HIDE DEF row
  <2>5. now # NULL
    BY NullAssumption DEF Time
  <2>6. ReportChecks(row)
    BY <1>2, <2>1, <2>2, <2>4, <2>5 DEF ReportChecks, ReportBusy
  <2>7. AllEnded(row)
    BY <2>3, <2>4, <2>6 DEF AllEnded
  <2>8. Unowned(row)
    BY <2>4, <2>7, EndedIsWellFormed
  <2> QED
    BY <1>2, <2>8 DEF StartReport, row, report
<1> QED
  BY <1>1, <1>2

\* A success that a replay can end back at: the latest of the attempts that
\* can have given it exists.
LEMMA LastWinIsAWin ==
    ASSUME NEW job \in Job, Wins(job) # {}
    PROVE  LastWin(job) \in Wins(job)
<1> DEFINE n == Len(job.attempts)
           T == {n - k : k \in Wins(job)}
<1>1. n \in Nat /\ Wins(job) \subseteq 1..n
  BY DEF Wins, Job
<1>2. T \subseteq Nat /\ T # {}
  BY <1>1
<1>3. \E x \in T : \A y \in T : ~ (<<y, x>> \in OpToRel(<, Nat))
  BY <1>2, NatLessThanWellFounded, WFMin
<1>4. PICK x \in T : \A y \in T : ~ (<<y, x>> \in OpToRel(<, Nat))
  BY <1>3
<1>5. \A y \in T : ~ (y < x)
  BY <1>2, <1>4 DEF OpToRel
<1>6. PICK k \in Wins(job) : x = n - k
  BY <1>4
<1>7. \A m \in Wins(job) : m <= k
  <2> SUFFICES ASSUME NEW m \in Wins(job)
               PROVE  m <= k
    OBVIOUS
  <2>1. n - m \in T /\ ~ (n - m < n - k)
    BY <1>5, <1>6
  <2> QED
    BY <1>1, <2>1
<1> QED
  BY <1>7 DEF LastWin

\* A replay that ends back at its old success leaves a well formed row.
LEMMA RestoredRow ==
    ASSUME NEW job, AllEnded(job)
    PROVE  Unowned(RestoreSuccess(job))
<1> DEFINE idle == Unleased(job)
           start == IF Wins(job) = {} THEN idle.started
                    ELSE job.attempts[LastWin(job)].started
           row == [idle EXCEPT !.status = "success", !.error = NULL,
                               !.started = start]
<1>1. AllEnded(idle) /\ idle.token = NULL /\ idle.worker = NULL
      /\ idle.until = NULL
  BY UnleasedRow
<1>2. start \in Time \cup {NULL}
  <2>1. idle.started \in Time \cup {NULL}
    BY <1>1 DEF AllEnded, Job
  <2>2. ASSUME Wins(job) # {}
        PROVE  job.attempts[LastWin(job)].started \in Time
    <3>1. LastWin(job) \in DOMAIN job.attempts
      BY <2>2, LastWinIsAWin DEF AllEnded, Wins
    <3>2. job.attempts[LastWin(job)] \in Attempt
      BY <3>1 DEF AllEnded, Job
    <3> QED
      BY <3>2 DEF Attempt
  <2> QED
    BY <2>1, <2>2
<1>3. RestoreSuccess(job) = row
  BY DEF RestoreSuccess
<1> HIDE DEF idle, start
<1>4. row \in Job
  <2>1. idle \in Job
    BY <1>1 DEF AllEnded
  <2> QED
    BY <1>2, <2>1 DEF Job, Statuses
<1>5. /\ row.attempts = idle.attempts /\ row.report = idle.report
      /\ row.methods = idle.methods /\ row.token = NULL
      /\ row.worker = NULL /\ row.until = NULL /\ row.status = "success"
  BY <1>1 DEF AllEnded, Job
<1> HIDE DEF row
<1>6. AllEnded(row)
  BY <1>1, <1>4, <1>5 DEF AllEnded, ReportChecks, ReportBusy
<1> QED
  BY <1>3, <1>5, <1>6, EndedIsWellFormed

\* A capped delay lies between 0 and the cap, whatever the delay was.
LEMMA BackoffIsADelay ==
    ASSUME NEW delay, NEW cap \in Nat
    PROVE  Capped(delay, cap) \in 0..cap
  BY DEF Capped

\* A job that fails for good is well formed, with its report or without.
LEMMA FailedRow ==
    ASSUME NEW job, AllEnded(job), NEW error \in JobErrors, NEW now \in Time
    PROVE  Unowned(Fail(job, error, now))
<1> DEFINE idle == Unleased(job)
           row == [idle EXCEPT !.status = "failed", !.error = error,
                               !.result = NULL, !.finished = now]
<1>1. AllEnded(idle) /\ idle.token = NULL /\ idle.worker = NULL
      /\ idle.until = NULL
  BY UnleasedRow
<1>2. \/ Fail(job, error, now) = row
      \/ Fail(job, error, now) = StartReport(row, now)
  BY DEF Fail
<1> HIDE DEF idle
<1>3. row \in Job
  <2>1. idle \in Job
    BY <1>1 DEF AllEnded
  <2> QED
    BY <2>1 DEF Job, Statuses
<1>4. /\ row.attempts = idle.attempts /\ row.report = idle.report
      /\ row.methods = idle.methods /\ row.token = NULL
      /\ row.worker = NULL /\ row.until = NULL /\ row.status = "failed"
  BY <1>1 DEF AllEnded, Job
<1> HIDE DEF row
<1>5. AllEnded(row)
  BY <1>1, <1>3, <1>4 DEF AllEnded, ReportChecks, ReportBusy
<1> QED
  BY <1>2, <1>4, <1>5, EndedIsWellFormed, StartedReport

\* A job queued again after its backoff is well formed.
LEMMA RequeuedRow ==
    ASSUME NEW job, AllEnded(job), NEW error \in JobErrors, NEW now \in Time
    PROVE  Unowned(Requeue(job, error, now))
<1> DEFINE idle == Unleased(job)
           next == now + RetryBackoff(UsedAttempts(job))
           row == [idle EXCEPT !.status = "pending", !.error = error,
                               !.available = next]
<1>1. AllEnded(idle) /\ idle.token = NULL /\ idle.worker = NULL
      /\ idle.until = NULL
  BY UnleasedRow
<1>2. next \in Time
  <2>1. RetryBackoff(UsedAttempts(job)) \in 0..BackoffCapMs
    BY BackoffIsADelay, SettingsAssumption DEF RetryBackoff
  <2> QED
    BY <2>1, SettingsAssumption DEF Time
<1>3. Requeue(job, error, now) = row
  BY DEF Requeue
<1> HIDE DEF idle, next
<1>4. row \in Job
  <2>1. idle \in Job
    BY <1>1 DEF AllEnded
  <2> QED
    BY <1>2, <2>1 DEF Job, Statuses
<1>5. /\ row.attempts = idle.attempts /\ row.report = idle.report
      /\ row.methods = idle.methods /\ row.token = NULL
      /\ row.worker = NULL /\ row.until = NULL /\ row.status = "pending"
  BY <1>1 DEF AllEnded, Job
<1> HIDE DEF row
<1>6. AllEnded(row)
  BY <1>1, <1>4, <1>5 DEF AllEnded, ReportChecks, ReportBusy
<1> QED
  BY <1>3, <1>5, <1>6, EndedIsWellFormed

\* Whatever _retry_or_fail decides, the row it leaves is well formed.
LEMMA RetriedOrFailedRow ==
    ASSUME NEW job, AllEnded(job), NEW error \in JobErrors, NEW now \in Time
    PROVE  Unowned(RetryOrFail(job, error, now))
<1>1. CASE KeepsOldSuccess(job)
  BY <1>1, RestoredRow DEF RetryOrFail
<1>2. CASE ~KeepsOldSuccess(job) /\ OutOfAttempts(job)
  BY <1>2, FailedRow DEF RetryOrFail
<1>3. CASE ~KeepsOldSuccess(job) /\ ~OutOfAttempts(job)
  BY <1>3, RequeuedRow DEF RetryOrFail
<1> QED
  BY <1>1, <1>2, <1>3

\* _expire_if_due leaves the job as it is or takes it from its worker.
LEMMA ExpiredRow ==
    ASSUME NEW job, RowInv(job), NEW now \in Time
    PROVE  /\ RowInv(ExpireIfDue(job, now))
           /\ ExpireIfDue(job, now).worker \in {NULL, job.worker}
<1>1. CASE PastDeadline(job, now)
  <2>1. /\ job.token # NULL
        /\ ~LeaseExpired(job, now)
        /\ "deadline_exceeded" \in Outcomes \cap JobErrors
    BY <1>1 DEF PastDeadline, LeaseExpired, Outcomes, JobErrors
  <2>2. AllEnded(EndAttempt(job, "deadline_exceeded", now))
    BY <2>1, EndedAttempt
  <2> QED
    BY <1>1, <2>1, <2>2, RetriedOrFailedRow DEF ExpireIfDue, Revoke, Unowned
<1>2. CASE LeaseExpired(job, now)
  <2>1. /\ job.token # NULL
        /\ ~PastDeadline(job, now)
        /\ "lease_expired" \in Outcomes \cap JobErrors
    BY <1>2 DEF LeaseExpired, Outcomes, JobErrors
  <2>2. AllEnded(EndAttempt(job, "lease_expired", now))
    BY <2>1, EndedAttempt
  <2> QED
    BY <1>2, <2>1, <2>2, RetriedOrFailedRow DEF ExpireIfDue, Revoke, Unowned
<1>3. CASE ~PastDeadline(job, now) /\ ~LeaseExpired(job, now)
  BY <1>3 DEF ExpireIfDue
<1> QED
  BY <1>1, <1>2, <1>3

-----------------------------------------------------------------------------
(* Leases. *)

\* A reclaim opens the newest attempt again, under the lease it had.
LEMMA ReclaimedRow ==
    ASSUME NEW job, RowInv(job), NEW w \in Workers, NEW token, NEW now \in Time,
           NEW registered, Reclaimable(job, w, token, now, registered)
    PROVE  RowInv(Reclaim(job, w, token, now))
<1> DEFINE report == [job.report EXCEPT !.status = NULL, !.nextAt = NULL]
           until == Min2(now + JobLeaseMs, job.deadline)
           lease == [job EXCEPT !.status = "running", !.worker = w,
                                !.token = token, !.until = until,
                                !.error = NULL, !.finished = NULL,
                                !.report = report]
           open == Closed(job.attempts[Newest(job)], NULL, NULL)
           row == Reclaim(job, w, token, now)
<1>1. /\ job \in Job
      /\ job.deadline \in Time
      /\ token = Newest(job)
      /\ token \in DOMAIN job.attempts
      /\ token \in Nat
      /\ token > 0
      /\ job.attempts[token] \in Attempt
      /\ job.attempts[token].worker = w
      /\ job.status # "running"
  BY DEF Reclaimable, RowInv, Job, Newest
<1>2. open \in Attempt /\ open.outcome = NULL /\ open.worker = w
  BY <1>1, AttemptClosed
<1>3. report \in Report /\ report.status = NULL /\ report.nextAt = NULL
  BY <1>1 DEF Job, Report
<1>4. until \in Time
  BY <1>1, SettingsAssumption DEF Min2, Time
<1>5. row = WithNewest(lease, open)
  BY DEF Reclaim
<1> HIDE DEF report, until, open
<1>6. lease \in Job
  <2>1. job \in Job
    BY <1>1
  <2>2. token \in Nat
    BY <1>1
  <2>3. report \in Report
    BY <1>3
  <2> QED
    BY <1>4, <2>1, <2>2, <2>3 DEF Job, Statuses
<1>7. /\ lease.status = "running" /\ lease.worker = w /\ lease.token = token
      /\ lease.until = until /\ lease.report = report
      /\ lease.deadline = job.deadline /\ lease.methods = job.methods
      /\ lease.attempts = job.attempts
  BY <1>1 DEF Job
<1> HIDE DEF lease
<1>8. Newest(lease) = token /\ Newest(lease) > 0
  BY <1>1, <1>7 DEF Newest
<1>9. /\ row \in Job
      /\ DOMAIN row.attempts = DOMAIN job.attempts
      /\ Newest(row) = token
      /\ \A k \in DOMAIN job.attempts :
            row.attempts[k] = IF k = token THEN open ELSE job.attempts[k]
  BY <1>2, <1>5, <1>6, <1>7, <1>8, NewestReplaced
<1>10. /\ row.status = "running" /\ row.worker = w /\ row.token = token
       /\ row.until = until /\ row.report = report
       /\ row.deadline = job.deadline /\ row.methods = job.methods
  BY <1>5, <1>6, <1>7 DEF WithNewest, Job
<1> HIDE DEF row
<1>11. w # NULL /\ token # NULL /\ until # NULL /\ job.deadline # NULL
  BY <1>1, <1>4, NullAssumption DEF Time
<1>12. RowChecks(row)
  <2>1. LeaseChecks(row)
    BY <1>10, <1>11 DEF LeaseChecks
  <2>2. ReportChecks(row)
    BY <1>3, <1>10, NullIsNoString DEF ReportChecks, ReportBusy, ReportStatuses
  <2> QED
    BY <2>1, <2>2 DEF RowChecks
<1>13. LogMatchesLease(row)
  BY <1>1, <1>2, <1>9, <1>10 DEF RowInv, LogMatchesLease
<1> QED
  BY <1>9, <1>12, <1>13 DEF RowInv, row


\* What _hold returns is a running job, leased to the caller.
LEMMA HeldRow ==
    ASSUME NEW job, RowInv(job), NEW w \in Workers, NEW token \in Nat,
           NEW now \in Time, NEW registered,
           \/ CanHold(job, w, token, now)
           \/ CanReclaim(job, w, token, now, registered)
    PROVE  /\ RowInv(Hold(job, w, token, now))
           /\ Hold(job, w, token, now).token # NULL
           /\ Hold(job, w, token, now).worker = w
           /\ job.worker = w \/ w \in registered
<1> DEFINE current == ExpireIfDue(job, now)
           held == Hold(job, w, token, now)
<1>1. RowInv(current) /\ current.worker \in {NULL, job.worker}
  BY ExpiredRow
<1>2. token # NULL /\ w # NULL
  BY NullAssumption
<1>3. CASE Holds(current, w, token)
  <2>1. held = current
    BY <1>3 DEF Hold
  <2> QED
    BY <1>1, <1>2, <1>3, <2>1 DEF Holds
<1>4. CASE ~Holds(current, w, token)
  <2>1. Reclaimable(current, w, token, now, registered)
    BY <1>4 DEF CanHold, CanReclaim
  <2>2. held = Reclaim(current, w, token, now)
    BY <1>4 DEF Hold
  <2>3. RowInv(held)
    BY <1>1, <2>1, <2>2, ReclaimedRow
  <2>4. held.token = token /\ held.worker = w
    BY <1>1, <2>2 DEF Reclaim, WithNewest, RowInv, Job
  <2>5. w \in registered
    BY <2>1 DEF Reclaimable
  <2> QED
    BY <1>2, <2>3, <2>4, <2>5
<1> QED
  BY <1>3, <1>4

\* A heartbeat renews the lease and nothing else.
LEMMA BeatenRow ==
    ASSUME NEW job, RowInv(job), job.token # NULL, NEW now \in Time
    PROVE  RowInv(Beaten(job, now)) /\ Beaten(job, now).worker = job.worker
<1> DEFINE until == Min2(now + JobLeaseMs, job.deadline)
           row == [job EXCEPT !.until = until]
<1>1. job \in Job /\ job.deadline \in Time /\ job.until # NULL
  BY DEF RowInv, RowChecks, LeaseChecks, Job
<1>2. until \in Time /\ until # NULL
  BY <1>1, SettingsAssumption, NullAssumption DEF Min2, Time
<1>3. Beaten(job, now) = row
  BY DEF Beaten
<1> HIDE DEF until
<1>4. row \in Job
  <2>1. job \in Job
    BY <1>1
  <2> QED
    BY <1>2, <2>1 DEF Job
<1>5. /\ row.status = job.status /\ row.worker = job.worker
      /\ row.token = job.token /\ row.until = until
      /\ row.report = job.report /\ row.deadline = job.deadline
      /\ row.methods = job.methods /\ row.attempts = job.attempts
  BY <1>1 DEF Job
<1> HIDE DEF row
<1>6. RowChecks(row)
  BY <1>1, <1>2, <1>5
     DEF RowInv, RowChecks, LeaseChecks, ReportChecks, ReportBusy
<1>7. LogMatchesLease(row)
  BY <1>5 DEF RowInv, LogMatchesLease, Newest
<1> QED
  BY <1>3, <1>4, <1>5, <1>6, <1>7 DEF RowInv, row

\* A success ends the attempt, the lease and, but for a replay that keeps its
\* old success, the job.
LEMMA SucceededRow ==
    ASSUME NEW job, RowInv(job), job.token # NULL, NEW now \in Time
    PROVE  Unowned(Succeeded(job, now))
<1> DEFINE closed == EndAttempt(job, "succeeded", now)
           idle == Unleased(closed)
           row == [idle EXCEPT !.status = "success", !.result = Newest(job),
                               !.error = NULL, !.finished = now]
           reports == job.replay = NULL \/ job.replay.reportSuccess
<1>1. AllEnded(closed)
  BY EndedAttempt DEF Outcomes
<1>2. AllEnded(idle) /\ idle.token = NULL /\ idle.worker = NULL
      /\ idle.until = NULL
  BY <1>1, UnleasedRow
<1>3. Newest(job) \in Nat
  BY DEF RowInv, Job, Newest
<1>4. Succeeded(job, now) =
        CASE KeepsOldSuccess(job)              -> RestoreSuccess(closed)
          [] ~KeepsOldSuccess(job) /\ reports  -> StartReport(row, now)
          [] OTHER                             -> row
  BY DEF Succeeded
<1> HIDE DEF idle, closed, reports
<1>5. row \in Job
  <2>1. idle \in Job
    BY <1>2 DEF AllEnded
  <2> QED
    BY <1>3, <2>1 DEF Job, Statuses
<1>6. /\ row.attempts = idle.attempts /\ row.report = idle.report
      /\ row.methods = idle.methods /\ row.token = NULL
      /\ row.worker = NULL /\ row.until = NULL /\ row.status = "success"
  BY <1>2 DEF AllEnded, Job
<1> HIDE DEF row
<1>7. AllEnded(row)
  BY <1>2, <1>5, <1>6 DEF AllEnded, ReportChecks, ReportBusy
<1>8. CASE KeepsOldSuccess(job)
  BY <1>1, <1>4, <1>8, RestoredRow
<1>9. CASE ~KeepsOldSuccess(job) /\ reports
  BY <1>4, <1>6, <1>7, <1>9, StartedReport
<1>10. CASE ~KeepsOldSuccess(job) /\ ~reports
  BY <1>4, <1>6, <1>7, <1>10, EndedIsWellFormed
<1> QED
  BY <1>8, <1>9, <1>10

\* A failure ends the attempt, and the job is queued, failed or restored.
LEMMA ReportedFailureRow ==
    ASSUME NEW job, RowInv(job), job.token # NULL, NEW now \in Time
    PROVE  Unowned(Failed(job, now))
<1>1. "failed" \in Outcomes \cap JobErrors
  BY DEF Outcomes, JobErrors
<1>2. AllEnded(EndAttempt(job, "failed", now))
  BY <1>1, EndedAttempt
<1> QED
  BY <1>1, <1>2, RetriedOrFailedRow DEF Failed

\* A release ends the attempt and queues the job.
LEMMA ReleasedRow ==
    ASSUME NEW job, RowInv(job), job.token # NULL, NEW now \in Time
    PROVE  Unowned(Released(job, now))
<1> DEFINE closed == EndAttempt(job, "released", now)
           idle == Unleased(closed)
           row == [idle EXCEPT !.status = "pending", !.available = now]
<1>1. AllEnded(closed)
  BY EndedAttempt DEF Outcomes
<1>2. AllEnded(idle) /\ idle.token = NULL /\ idle.worker = NULL
      /\ idle.until = NULL
  BY <1>1, UnleasedRow
<1>3. Released(job, now) = row
  BY DEF Released
<1> HIDE DEF idle, closed
<1>4. row \in Job
  <2>1. idle \in Job
    BY <1>2 DEF AllEnded
  <2> QED
    BY <2>1 DEF Job, Statuses
<1>5. /\ row.attempts = idle.attempts /\ row.report = idle.report
      /\ row.methods = idle.methods /\ row.token = NULL
      /\ row.worker = NULL /\ row.until = NULL /\ row.status = "pending"
  BY <1>2 DEF AllEnded, Job
<1> HIDE DEF row
<1>6. AllEnded(row)
  BY <1>2, <1>4, <1>5 DEF AllEnded, ReportChecks, ReportBusy
<1> QED
  BY <1>3, <1>5, <1>6, EndedIsWellFormed

-----------------------------------------------------------------------------
(* Operators. *)

\* Cancelling ends the open attempt if there is one.
LEMMA CancelledRow ==
    ASSUME NEW job, RowInv(job), NEW now \in Time
    PROVE  Unowned(Cancelled(job, now))
<1> DEFINE closed == IF job.token = NULL THEN job
                     ELSE EndAttempt(job, "cancelled", now)
           idle == Unleased(closed)
           row == [idle EXCEPT !.status = "cancelled", !.result = NULL,
                               !.finished = now]
<1>1. AllEnded(closed)
  <2>1. CASE job.token = NULL
    BY <2>1, IdleHasEnded
  <2>2. CASE job.token # NULL
    BY <2>2, EndedAttempt DEF Outcomes
  <2> QED
    BY <2>1, <2>2
<1>2. AllEnded(idle) /\ idle.token = NULL /\ idle.worker = NULL
      /\ idle.until = NULL
  BY <1>1, UnleasedRow
<1>3. Cancelled(job, now) =
        IF KeepsOldSuccess(job) THEN RestoreSuccess(closed) ELSE row
  BY DEF Cancelled
<1> HIDE DEF idle, closed
<1>4. row \in Job
  <2>1. idle \in Job
    BY <1>2 DEF AllEnded
  <2> QED
    BY <2>1 DEF Job, Statuses
<1>5. /\ row.attempts = idle.attempts /\ row.report = idle.report
      /\ row.methods = idle.methods /\ row.token = NULL
      /\ row.worker = NULL /\ row.until = NULL /\ row.status = "cancelled"
  BY <1>2 DEF AllEnded, Job
<1> HIDE DEF row
<1>6. AllEnded(row)
  BY <1>2, <1>4, <1>5 DEF AllEnded, ReportChecks, ReportBusy
<1> QED
  BY <1>1, <1>3, <1>5, <1>6, EndedIsWellFormed, RestoredRow

\* A job that does not run holds no lease.
LEMMA IdleRow ==
    ASSUME NEW job, RowInv(job), job.status # "running"
    PROVE  /\ job.token = NULL /\ job.worker = NULL /\ job.until = NULL
           /\ AllEnded(job)
<1>1. job.token = NULL /\ job.worker = NULL /\ job.until = NULL
  BY DEF RowInv, RowChecks, LeaseChecks
<1> QED
  BY <1>1, IdleHasEnded

\* The report of a job that was not finished, or was queued again.
LEMMA NoReportIsAReport ==
    /\ NoReport \in Report
    /\ NoReport.status = NULL
    /\ NoReport.nextAt = NULL
  BY DEF NoReport, Report, Time

\* A retry queues the job and forgets its outcome and its report.
LEMMA RetriedRow ==
    ASSUME NEW job, RowInv(job), job.status # "running", NEW now \in Time
    PROVE  Unowned(Retried(job, now))
<1> DEFINE row == Retried(job, now)
<1>1. job \in Job /\ job.token = NULL /\ job.worker = NULL
      /\ job.until = NULL /\ AllEnded(job)
  BY IdleRow DEF RowInv
<1>2. row \in Job
  <2>1. job \in Job
    BY <1>1
  <2> QED
    BY <2>1, NoReportIsAReport DEF Retried, Job, Statuses
<1>3. /\ row.attempts = job.attempts /\ row.report = NoReport
      /\ row.token = NULL /\ row.worker = NULL /\ row.until = NULL
      /\ row.status = "pending"
  BY <1>1 DEF Retried, Job
<1> HIDE DEF row
<1>4. AllEnded(row)
  BY <1>1, <1>2, <1>3, NoReportIsAReport, NullIsNoString
     DEF AllEnded, ReportChecks, ReportBusy, ReportStatuses
<1> QED
  BY <1>3, <1>4, EndedIsWellFormed DEF row

\* A replay queues the job and keeps its outcome; only one that overwrites
\* forgets the report.
LEMMA ReplayedRow ==
    ASSUME NEW job, RowInv(job), job.status # "running",
           NEW options \in ReplayOptions, NEW now \in Time
    PROVE  Unowned(Replayed(job, options, now))
<1> DEFINE report == IF options.overwrite THEN NoReport ELSE job.report
           row == [job EXCEPT !.status = "pending", !.available = now,
                              !.requeued = now, !.deadline = NULL,
                              !.replay = options, !.report = report]
<1>1. job \in Job /\ job.token = NULL /\ job.worker = NULL
      /\ job.until = NULL /\ AllEnded(job)
  BY IdleRow DEF RowInv
<1>2. report \in Report
  BY <1>1, NoReportIsAReport DEF Job
<1>3. row = Replayed(job, options, now)
  BY <1>1 DEF Replayed, Job
<1> HIDE DEF report
<1>4. row \in Job
  <2>1. job \in Job
    BY <1>1
  <2> QED
    BY <1>2, <2>1 DEF Job, Statuses
<1>5. /\ row.attempts = job.attempts /\ row.report = report
      /\ row.methods = job.methods
      /\ row.token = NULL /\ row.worker = NULL /\ row.until = NULL
      /\ row.status = "pending"
  BY <1>1 DEF Job
<1> HIDE DEF row
<1>6. ReportChecks(row)
  <2>1. CASE report = NoReport
    BY <1>5, <2>1, NoReportIsAReport, NullIsNoString
       DEF ReportChecks, ReportBusy, ReportStatuses
  <2>2. CASE report = job.report
    BY <1>1, <1>5, <2>2 DEF AllEnded, ReportChecks, ReportBusy
  <2> QED
    BY <2>1, <2>2 DEF report
<1>7. AllEnded(row)
  BY <1>1, <1>4, <1>5, <1>6 DEF AllEnded
<1> QED
  BY <1>3, <1>5, <1>7, EndedIsWellFormed

-----------------------------------------------------------------------------
(* Claims and new rows. *)

\* A claim opens one more attempt, the one its lease is for.
LEMMA ClaimedRow ==
    ASSUME NEW job, RowInv(job), job.status = "pending", NEW w \in Workers,
           NEW now \in Time
    PROVE  RowInv(Claimed(job, w, now)) /\ Claimed(job, w, now).worker = w
<1> DEFINE n == Newest(job)
           deadline == now + job.maxRun
           until == Min2(now + JobLeaseMs, deadline)
           attempt == [worker |-> w, outcome |-> NULL, started |-> now,
                       ended |-> NULL, replay |-> job.replay # NULL]
           log == Append(job.attempts, attempt)
           row == [job EXCEPT !.status = "running", !.worker = w,
                              !.token = n + 1, !.deadline = deadline,
                              !.until = until, !.started = now,
                              !.attempts = log]
<1>1. job \in Job /\ AllEnded(job) /\ n \in Nat
      /\ job.attempts \in Seq(Attempt) /\ n = Len(job.attempts)
  BY IdleRow DEF RowInv, Job, Newest
<1>2. deadline \in Time /\ until \in Time
  BY <1>1, SettingsAssumption DEF Job, Min2, Time
<1>3. attempt \in Attempt /\ attempt.outcome = NULL /\ attempt.worker = w
  BY DEF Attempt, Time
<1> HIDE DEF attempt
<1>4. /\ log \in Seq(Attempt)
      /\ Len(log) = n + 1
      /\ DOMAIN log = 1..(n + 1)
      /\ DOMAIN job.attempts = 1..n
      /\ \A k \in 1..(n + 1) :
            log[k] = IF k = n + 1 THEN attempt ELSE job.attempts[k]
  BY <1>1, <1>3
<1>5. row = Claimed(job, w, now)
  BY <1>1 DEF Claimed, attempt, Job
<1> HIDE DEF deadline, until, log
<1>6. row \in Job
  <2>1. job \in Job
    BY <1>1
  <2>2. n + 1 \in Nat
    BY <1>1
  <2>3. log \in Seq(Attempt)
    BY <1>4
  <2> HIDE DEF n
  <2> QED
    BY <1>2, <2>1, <2>2, <2>3 DEF Job, Statuses
<1>7. /\ row.status = "running" /\ row.worker = w /\ row.token = n + 1
      /\ row.until = until /\ row.report = job.report
      /\ row.deadline = deadline /\ row.methods = job.methods
      /\ row.attempts = log
  BY <1>1 DEF Job
<1> HIDE DEF row
<1>8. w # NULL /\ n + 1 # NULL /\ until # NULL /\ deadline # NULL
  BY <1>1, <1>2, NullAssumption DEF Time
<1>9. RowChecks(row)
  <2>1. LeaseChecks(row)
    BY <1>7, <1>8 DEF LeaseChecks
  <2>2. ReportChecks(row)
    BY <1>1, <1>7 DEF AllEnded, ReportChecks, ReportBusy
  <2> QED
    BY <2>1, <2>2 DEF RowChecks
<1>10. Newest(row) = n + 1
  BY <1>4, <1>7 DEF Newest
<1>11. LogMatchesLease(row)
  <2>1. \A k \in 1..(n + 1) : log[k].outcome = NULL <=> k = n + 1
    BY <1>1, <1>3, <1>4 DEF AllEnded
  <2>2. n + 1 \in 1..(n + 1) /\ log[n + 1].worker = w
    BY <1>1, <1>3, <1>4
  <2> QED
    BY <1>4, <1>7, <1>10, <2>1, <2>2 DEF LogMatchesLease
<1> QED
  BY <1>5, <1>6, <1>7, <1>9, <1>11 DEF RowInv, row

\* A row that create_job inserts.
LEMMA NewRow ==
    ASSUME NEW type \in Types, NEW priority \in Int, NEW maxAttempt \in Nat,
           NEW maxRun \in Nat, NEW methods \in Nat, NEW now \in Time
    PROVE  /\ AllEnded(NewJob(type, priority, maxAttempt, maxRun, methods, now))
           /\ Unowned(NewJob(type, priority, maxAttempt, maxRun, methods, now))
<1> DEFINE row == NewJob(type, priority, maxAttempt, maxRun, methods, now)
<1>1. << >> \in Seq(Attempt) /\ DOMAIN << >> = {}
  OBVIOUS
<1>2. row \in Job
  BY <1>1, NoReportIsAReport DEF NewJob, Job, Statuses
<1>3. /\ row.attempts = << >> /\ row.report = NoReport
      /\ row.token = NULL /\ row.worker = NULL /\ row.until = NULL
      /\ row.status = "pending"
  BY DEF NewJob
<1> HIDE DEF row
<1>4. AllEnded(row)
  BY <1>1, <1>2, <1>3, NoReportIsAReport, NullIsNoString
     DEF AllEnded, ReportChecks, ReportBusy, ReportStatuses
<1> QED
  BY <1>3, <1>4, EndedIsWellFormed DEF row

\* A row that is not in the table.
LEMMA AbsentRow ==
    ASSUME NEW status \in {"none", "deleted"}, Types # {}
    PROVE  Unowned(Absent(status))
<1> DEFINE type == CHOOSE t \in Types : TRUE
           new == NewJob(type, 0, 1, 1, 0, 0)
           row == [new EXCEPT !.status = status]
<1>1. type \in Types
  OBVIOUS
<1>2. AllEnded(new)
  BY <1>1, NewRow DEF Time
<1>3. new.token = NULL /\ new.worker = NULL /\ new.until = NULL
  BY DEF NewJob
<1>4. Absent(status) = row
  BY DEF Absent
<1> HIDE DEF new
<1>5. new \in Job
  BY <1>2 DEF AllEnded
<1>6. row \in Job
  BY <1>5 DEF Job, Statuses
<1>7. /\ row.attempts = new.attempts /\ row.report = new.report
      /\ row.methods = new.methods
      /\ row.token = NULL /\ row.worker = NULL /\ row.until = NULL
      /\ row.status = status
  BY <1>3, <1>5 DEF Job
<1> HIDE DEF row
<1>8. AllEnded(row)
  BY <1>2, <1>6, <1>7 DEF AllEnded, ReportChecks, ReportBusy
<1> QED
  BY <1>4, <1>7, <1>8, EndedIsWellFormed

\* A priority is not part of what makes a row well formed.
LEMMA PrioritisedRow ==
    ASSUME NEW job, RowInv(job), NEW priority \in Int
    PROVE  RowInv([job EXCEPT !.priority = priority])
<1> DEFINE row == [job EXCEPT !.priority = priority]
<1>1. job \in Job
  BY DEF RowInv
<1>2. row \in Job
  BY <1>1 DEF Job
<1>3. /\ row.status = job.status /\ row.worker = job.worker
      /\ row.token = job.token /\ row.until = job.until
      /\ row.report = job.report /\ row.deadline = job.deadline
      /\ row.methods = job.methods /\ row.attempts = job.attempts
  BY <1>1 DEF Job
<1> HIDE DEF row
<1>4. RowChecks(row)
  BY <1>3 DEF RowInv, RowChecks, LeaseChecks, ReportChecks, ReportBusy
<1>5. LogMatchesLease(row)
  BY <1>3 DEF RowInv, LogMatchesLease, Newest
<1> QED
  BY <1>2, <1>4, <1>5 DEF RowInv, row

-----------------------------------------------------------------------------
(* The tables. *)

\* A lease belongs to a worker that is in the table `workers`.
OwnersKnown == \A j \in Jobs : jobs[j].worker # NULL => jobs[j].worker \in Registered

\* TypeOK alone is not inductive: a claim is of a pending job, and that it
\* leaves one open attempt needs the log to agree with the lease before it;
\* that a heartbeat's new lease is a time needs the CHECK on deadline_at.
IInv ==
    /\ TypeOK
    /\ \A j \in Jobs : RowInv(jobs[j])
    /\ OwnersKnown

\* A request's clock is a time.
LEMMA NowsAreTimes ==
    ASSUME TypeOK, NEW now \in Nows
    PROVE  now \in Time
  BY DEF TypeOK, Nows, Time

\* A transaction that writes one well formed row, of a known worker or of
\* none, keeps the invariant.
LEMMA RowWritten ==
    ASSUME IInv, NEW j \in Jobs, NEW row, RowInv(row),
           row.worker \in {NULL} \cup Registered, Update(j, row),
           UNCHANGED <<leases, clock, cleaner>>
    PROVE  IInv'
<1>1. /\ jobs \in [Jobs -> Job]
      /\ row \in Job
      /\ jobs' = [jobs EXCEPT ![j] = row]
  BY DEF IInv, TypeOK, RowInv, Update
<1>2. /\ jobs' \in [Jobs -> Job]
      /\ \A k \in Jobs : jobs'[k] = IF k = j THEN row ELSE jobs[k]
  BY <1>1
<1>3. TypeOK'
  BY <1>2 DEF IInv, TypeOK
<1>4. Registered' = Registered
  BY DEF Registered
<1>5. \A k \in Jobs : RowInv(jobs'[k])
  BY <1>2 DEF IInv
<1>6. OwnersKnown'
  BY <1>2, <1>4 DEF IInv, OwnersKnown
<1> QED
  BY <1>3, <1>5, <1>6 DEF IInv

\* The jobs themselves are untouched when only the workers, the clock or the
\* cleaner move, as long as no worker that owns a job is forgotten.
LEMMA JobsUntouched ==
    ASSUME IInv, UNCHANGED jobs, TypeOK',
           \A j \in Jobs : jobs[j].worker # NULL /\ jobs[j].worker \in Registered
                             => jobs[j].worker \in Registered'
    PROVE  IInv'
<1>1. \A j \in Jobs : RowInv(jobs'[j])
  BY DEF IInv
<1>2. OwnersKnown'
  BY DEF IInv, OwnersKnown
<1> QED
  BY <1>1, <1>2 DEF IInv

\* The store starts empty.
LEMMA InitHolds == Init => IInv
<1> SUFFICES ASSUME Init
             PROVE  IInv
  OBVIOUS
<1>1. Unowned(Absent("none"))
  BY AbsentRow, StoreAssumption
<1>2. \A j \in Jobs : jobs[j] = Absent("none")
  BY DEF Init
<1>3. jobs \in [Jobs -> Job]
  BY <1>1 DEF Init, Unowned, RowInv
<1>4. TypeOK
  BY <1>3 DEF Init, TypeOK, Time
<1>5. \A j \in Jobs : RowInv(jobs[j]) /\ jobs[j].worker = NULL
  BY <1>1, <1>2 DEF Unowned
<1> QED
  BY <1>4, <1>5 DEF IInv, OwnersKnown

\* Registering, renewing and forgetting workers.
LEMMA WorkerStepHolds == IInv /\ WorkerStep => IInv'
<1> SUFFICES ASSUME IInv, NEW w \in Workers, NEW now \in Nows,
                    \/ RegisterWorker(w, now)
                    \/ HeartbeatWorker(w, now)
                    \/ DeleteWorker(w, now)
             PROVE  IInv'
  BY DEF WorkerStep
<1>1. /\ TypeOK
      /\ now \in Time
      /\ now + WorkerLeaseMs \in Time
      /\ now + WorkerLeaseMs # NULL
  BY NowsAreTimes, StoreAssumption, NullAssumption DEF IInv, Time
<1>2. CASE RegisterWorker(w, now) \/ HeartbeatWorker(w, now)
  <2>1. leases' = [leases EXCEPT ![w] = now + WorkerLeaseMs]
        /\ UNCHANGED <<jobs, clock, cleaner>>
    BY <1>2 DEF RegisterWorker, HeartbeatWorker
  <2>2. TypeOK'
    BY <1>1, <2>1 DEF TypeOK
  <2>3. Registered \subseteq Registered'
    BY <1>1, <2>1 DEF TypeOK, Registered
  <2> QED
    BY <2>1, <2>2, <2>3, JobsUntouched
<1>3. CASE DeleteWorker(w, now)
  <2>1. /\ leases' = [leases EXCEPT ![w] = NULL]
        /\ \A j \in Jobs : jobs[j].worker # w
        /\ UNCHANGED <<jobs, clock, cleaner>>
    BY <1>3 DEF DeleteWorker
  <2>2. TypeOK'
    BY <1>1, <2>1 DEF TypeOK
  <2>3. Registered \ {w} \subseteq Registered'
    BY <1>1, <2>1 DEF TypeOK, Registered
  <2> QED
    BY <2>1, <2>2, <2>3, JobsUntouched
<1> QED
  BY <1>2, <1>3

\* A claim is a registered worker's.
LEMMA ClaimStepHolds == IInv /\ ClaimStep => IInv'
<1> SUFFICES ASSUME IInv, NEW w \in Workers, NEW type \in Types, NEW j \in Jobs,
                    NEW now \in Nows, ClaimJob(w, type, j, now)
             PROVE  IInv'
  BY DEF ClaimStep
<1>1. /\ w \in Registered
      /\ jobs[j].status = "pending"
      /\ Update(j, Claimed(jobs[j], w, now))
      /\ UNCHANGED <<leases, clock, cleaner>>
  BY DEF ClaimJob, Claimable
<1>2. RowInv(jobs[j]) /\ now \in Time
  BY NowsAreTimes DEF IInv
<1>3. RowInv(Claimed(jobs[j], w, now)) /\ Claimed(jobs[j], w, now).worker = w
  BY <1>1, <1>2, ClaimedRow
<1> QED
  BY <1>1, <1>3, RowWritten

\* Heartbeats, finishes and releases, on what _hold returns.
LEMMA HolderStepHolds == IInv /\ HolderStep => IInv'
<1> SUFFICES ASSUME IInv, NEW j \in Jobs, NEW w \in Workers,
                    NEW token \in DOMAIN jobs[j].attempts,
                    NEW now \in HolderNows(j, token),
                    \/ HeartbeatJob(j, w, token, now)
                    \/ FinishSuccess(j, w, token, now)
                    \/ FinishFailure(j, w, token, now)
                    \/ ReleaseJob(j, w, token, now)
             PROVE  IInv'
  BY DEF HolderStep
<1> DEFINE held == Hold(jobs[j], w, token, now)
<1>1. RowInv(jobs[j]) /\ now \in Time /\ token \in Nat
  <2>1. now \in Nows
    BY DEF HolderNows
  <2> QED
    BY <2>1, NowsAreTimes DEF IInv, RowInv, Job
<1>2. /\ \/ CanHold(jobs[j], w, token, now)
         \/ CanReclaim(jobs[j], w, token, now, Registered)
      /\ UNCHANGED <<leases, clock, cleaner>>
  BY DEF HeartbeatJob, FinishSuccess, FinishFailure, ReleaseJob, HoldOrReclaim
<1>3. /\ RowInv(held)
      /\ held.token # NULL
      /\ held.worker = w
      /\ jobs[j].worker = w \/ w \in Registered
  BY <1>1, <1>2, HeldRow
<1>4. w \in Registered
  BY <1>3, NullAssumption DEF IInv, OwnersKnown
<1> HIDE DEF held
<1>5. CASE HeartbeatJob(j, w, token, now)
  <2>1. Update(j, Beaten(held, now))
    BY <1>5 DEF HeartbeatJob, held
  <2>2. RowInv(Beaten(held, now)) /\ Beaten(held, now).worker = w
    BY <1>1, <1>3, BeatenRow
  <2> QED
    BY <1>2, <1>4, <2>1, <2>2, RowWritten
<1>6. CASE FinishSuccess(j, w, token, now)
  <2>1. Update(j, Succeeded(held, now))
    BY <1>6 DEF FinishSuccess, held
  <2>2. Unowned(Succeeded(held, now))
    BY <1>1, <1>3, SucceededRow
  <2> QED
    BY <1>2, <2>1, <2>2, RowWritten DEF Unowned
<1>7. CASE FinishFailure(j, w, token, now)
  <2>1. Update(j, Failed(held, now))
    BY <1>7 DEF FinishFailure, held
  <2>2. Unowned(Failed(held, now))
    BY <1>1, <1>3, ReportedFailureRow
  <2> QED
    BY <1>2, <2>1, <2>2, RowWritten DEF Unowned
<1>8. CASE ReleaseJob(j, w, token, now)
  <2>1. Update(j, Released(held, now))
    BY <1>8 DEF ReleaseJob, held
  <2>2. Unowned(Released(held, now))
    BY <1>1, <1>3, ReleasedRow
  <2> QED
    BY <1>2, <2>1, <2>2, RowWritten DEF Unowned
<1> QED
  BY <1>5, <1>6, <1>7, <1>8

\* What providers and operators do.
LEMMA OperatorStepHolds == IInv /\ OperatorStep => IInv'
<1> SUFFICES ASSUME IInv, OperatorStep
             PROVE  IInv'
  OBVIOUS
<1>1. PICK j \in Jobs, now \in Nows :
        \/ \E type \in Types, priority \in Priorities, maxRun \in MaxRuns,
              maxAttempt \in MaxAttempts, methods \in MethodCounts :
                CreateJob(j, type, priority, maxAttempt, maxRun, methods, now)
        \/ CancelJob(j, now)
        \/ RetryJob(j, now)
        \/ \E options \in Replays : ReplayJob(j, options, now)
        \/ \E priority \in Priorities : SetPriority(j, priority)
        \/ DeleteJob(j)
  BY DEF OperatorStep
<1>2. RowInv(jobs[j]) /\ now \in Time
  BY NowsAreTimes DEF IInv
<1>3. ASSUME NEW type \in Types, NEW priority \in Priorities,
             NEW maxRun \in MaxRuns, NEW maxAttempt \in MaxAttempts,
             NEW methods \in MethodCounts,
             CreateJob(j, type, priority, maxAttempt, maxRun, methods, now)
      PROVE  IInv'
  <2> DEFINE row == NewJob(type, priority, maxAttempt, maxRun, methods, now)
  <2>1. /\ priority \in Int /\ maxAttempt \in Nat /\ maxRun \in Nat
        /\ methods \in Nat
    BY StoreAssumption
  <2>2. Unowned(row)
    BY <1>2, <2>1, NewRow
  <2>3. Update(j, row) /\ UNCHANGED <<leases, clock, cleaner>>
    BY <1>3 DEF CreateJob
  <2> HIDE DEF row
  <2> QED
    BY <2>2, <2>3, RowWritten DEF Unowned
<1>4. CASE CancelJob(j, now)
  <2>1. Update(j, Cancelled(jobs[j], now)) /\ UNCHANGED <<leases, clock, cleaner>>
    BY <1>4 DEF CancelJob
  <2>2. Unowned(Cancelled(jobs[j], now))
    BY <1>2, CancelledRow
  <2> QED
    BY <2>1, <2>2, RowWritten DEF Unowned
<1>5. CASE RetryJob(j, now)
  <2>1. /\ jobs[j].status # "running"
        /\ Update(j, Retried(jobs[j], now))
        /\ UNCHANGED <<leases, clock, cleaner>>
    BY <1>5 DEF RetryJob
  <2>2. Unowned(Retried(jobs[j], now))
    BY <1>2, <2>1, RetriedRow
  <2> QED
    BY <2>1, <2>2, RowWritten DEF Unowned
<1>6. ASSUME NEW options \in Replays, ReplayJob(j, options, now)
      PROVE  IInv'
  <2>1. /\ jobs[j].status # "running"
        /\ Update(j, Replayed(jobs[j], options, now))
        /\ UNCHANGED <<leases, clock, cleaner>>
    BY <1>6 DEF ReplayJob
  <2>2. options \in ReplayOptions
    BY StoreAssumption
  <2>3. Unowned(Replayed(jobs[j], options, now))
    BY <1>2, <2>1, <2>2, ReplayedRow
  <2> QED
    BY <2>1, <2>3, RowWritten DEF Unowned
<1>7. ASSUME NEW priority \in Priorities, SetPriority(j, priority)
      PROVE  IInv'
  <2> DEFINE row == [jobs[j] EXCEPT !.priority = priority]
  <2>1. Update(j, row) /\ UNCHANGED <<leases, clock, cleaner>>
    BY <1>7 DEF SetPriority
  <2>2. priority \in Int
    BY StoreAssumption
  <2>3. RowInv(row)
    BY <1>2, <2>2, PrioritisedRow
  <2>4. row.worker = jobs[j].worker
    BY <1>2 DEF RowInv, Job
  <2> HIDE DEF row
  <2>5. row.worker \in {NULL} \cup Registered
    BY <2>4 DEF IInv, OwnersKnown
  <2> QED
    BY <2>1, <2>3, <2>5, RowWritten
<1>8. CASE DeleteJob(j)
  <2>1. Update(j, Absent("deleted")) /\ UNCHANGED <<leases, clock, cleaner>>
    BY <1>8 DEF DeleteJob
  <2>2. Unowned(Absent("deleted"))
    BY AbsentRow, StoreAssumption
  <2> QED
    BY <2>1, <2>2, RowWritten DEF Unowned
<1> QED
  BY <1>1, <1>3, <1>4, <1>5, <1>6, <1>7, <1>8

\* A transaction of the cleaner, which writes many rows at once.
LEMMA RowsWritten ==
    ASSUME IInv, NEW cleaner2 \in Time \cup {NULL}, cleaner' = cleaner2,
           UNCHANGED <<leases, clock>>,
           jobs' = [j \in Jobs |-> jobs'[j]],
           \A j \in Jobs : /\ RowInv(jobs'[j])
                           /\ jobs'[j].worker \in {NULL, jobs[j].worker}
    PROVE  IInv'
<1>1. jobs' \in [Jobs -> Job]
  BY DEF RowInv
<1>2. TypeOK'
  BY <1>1 DEF IInv, TypeOK
<1>3. Registered' = Registered
  BY DEF Registered
<1>4. OwnersKnown'
  BY <1>3 DEF IInv, OwnersKnown
<1> QED
  BY <1>2, <1>4 DEF IInv

\* The cleaner revokes and purges.
LEMMA CleanerStepHolds == IInv /\ CleanerStep => IInv'
<1> SUFFICES ASSUME IInv, CleanerStep
             PROVE  IInv'
  OBVIOUS
<1>1. ASSUME NEW now \in Nows, CleanupExpire(now)
      PROVE  IInv'
  <2> DEFINE next(j) == ExpireIfDue(jobs[j], now)
  <2>1. now \in Time
    BY NowsAreTimes DEF IInv
  <2>2. \A j \in Jobs : /\ RowInv(next(j))
                        /\ next(j).worker \in {NULL, jobs[j].worker}
    BY <2>1, ExpiredRow DEF IInv
  <2>3. /\ jobs' = [j \in Jobs |-> next(j)]
        /\ cleaner' = now
        /\ UNCHANGED <<leases, clock>>
    BY <1>1 DEF CleanupExpire
  <2> HIDE DEF next
  <2>4. /\ jobs' = [j \in Jobs |-> jobs'[j]]
        /\ \A j \in Jobs : jobs'[j] = next(j)
    BY <2>3
  <2> QED
    BY <2>1, <2>2, <2>3, <2>4, RowsWritten
<1>2. CASE CleanupPurge
  <2> DEFINE next(j) == IF Purgeable(jobs[j], cleaner)
                        THEN Absent("deleted") ELSE jobs[j]
  <2>1. Unowned(Absent("deleted"))
    BY AbsentRow, StoreAssumption
  <2>2. \A j \in Jobs : /\ RowInv(next(j))
                        /\ next(j).worker \in {NULL, jobs[j].worker}
    BY <2>1 DEF IInv, Unowned
  <2>3. /\ jobs' = [j \in Jobs |-> next(j)]
        /\ cleaner' = NULL
        /\ UNCHANGED <<leases, clock>>
    BY <1>2 DEF CleanupPurge
  <2> HIDE DEF next
  <2>4. /\ jobs' = [j \in Jobs |-> jobs'[j]]
        /\ \A j \in Jobs : jobs'[j] = next(j)
    BY <2>3
  <2> QED
    BY <2>2, <2>3, <2>4, RowsWritten
<1>3. CASE CleanupFails
  <2>1. UNCHANGED <<jobs, leases, clock>> /\ cleaner' = NULL
    BY <1>3 DEF CleanupFails
  <2>2. TypeOK' /\ Registered' = Registered
    BY <2>1 DEF IInv, TypeOK, Registered
  <2> QED
    BY <2>1, <2>2, JobsUntouched
<1> QED
  BY <1>1, <1>2, <1>3 DEF CleanerStep

-----------------------------------------------------------------------------

\* Every step keeps the invariant.
LEMMA NextHolds == IInv /\ [Next]_vars => IInv'
<1> SUFFICES ASSUME IInv, [Next]_vars
             PROVE  IInv'
  OBVIOUS
<1>1. CASE WorkerStep
  BY <1>1, WorkerStepHolds
<1>2. CASE JobStep
  BY <1>2, ClaimStepHolds, HolderStepHolds, OperatorStepHolds DEF JobStep
<1>3. CASE CleanerStep
  BY <1>3, CleanerStepHolds
<1>4. CASE Tick
  <2>1. /\ UNCHANGED <<jobs, leases, cleaner>>
        /\ clock' = clock + 1
    BY <1>4 DEF Tick
  <2>2. TypeOK' /\ Registered' = Registered
    BY <2>1 DEF IInv, TypeOK, Registered, Time
  <2> QED
    BY <2>1, <2>2, JobsUntouched
<1>5. CASE UNCHANGED vars
  <2>1. UNCHANGED <<jobs, leases, clock, cleaner>>
    BY <1>5 DEF vars
  <2>2. TypeOK' /\ Registered' = Registered
    BY <2>1 DEF IInv, TypeOK, Registered
  <2> QED
    BY <2>1, <2>2, JobsUntouched
<1> QED
  BY <1>1, <1>2, <1>3, <1>4, <1>5 DEF Next

\* The inductive invariant holds of every reachable state.
THEOREM StoreInvariant == Spec => []IInv
  BY InitHolds, NextHolds, PTL DEF Spec

\* Every column of every row always has a value of its type.
THEOREM TypesHold == Spec => []TypeOK
<1>1. IInv => TypeOK
  BY DEF IInv
<1> QED
  BY <1>1, StoreInvariant, PTL

\* No operation ever asks SQLite for a row that the CHECKs of the table `jobs`
\* or the foreign key of jobs.worker_id refuse.
THEOREM SchemaAlwaysHolds == Spec => []SchemaHolds
<1>1. IInv => SchemaHolds
  BY DEF IInv, SchemaHolds, RowInv, OwnersKnown
<1> QED
  BY <1>1, StoreInvariant, PTL

\* A job has an open attempt exactly while it runs, and it is the one its
\* lease was issued for.
THEOREM OneOpenAttemptAlways == Spec => []OneOpenAttempt
<1>1. IInv => OneOpenAttempt
  BY DEF IInv, OneOpenAttempt, RowInv
<1> QED
  BY <1>1, StoreInvariant, PTL

=============================================================================
