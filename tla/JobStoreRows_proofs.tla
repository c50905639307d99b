------------------------ MODULE JobStoreRows_proofs ------------------------
(***************************************************************************)
(* What the rows of JobStore keep besides being well formed: deadlines,    *)
(* the attempt budget, the report, the log and a kept success.  Every step *)
(* of the store is one operation of JobRow on each row it writes; each     *)
(* operation keeps each of these, whatever the clock readings are.         *)
(***************************************************************************)
EXTENDS JobStore_proofs, FiniteSetTheorems

-----------------------------------------------------------------------------
(* The invariant. *)

\* An attempt ended within its time, unless it ended because that was over.
EndedInTime(attempt, maxRun) ==
    LET deadline == attempt.started + maxRun
    IN  /\ attempt.outcome \in {"succeeded", "failed", "released",
                                "lease_expired"} =>
              attempt.ended \in attempt.started..(deadline - 1)
        /\ attempt.outcome = "deadline_exceeded" => attempt.ended >= deadline

\* The column deadline_at is that of the newest attempt, which started no
\* earlier than the requeue the budget is counted from: a reclaim relies on
\* both.
DeadlineOfNewest(job) ==
    job.deadline # NULL =>
        /\ Newest(job) > 0
        /\ job.deadline = job.attempts[Newest(job)].started + job.maxRun
        /\ job.requeued # NULL =>
              job.attempts[Newest(job)].started >= job.requeued

\* What the times of a row have to do with each other.
Timely(job) ==
    /\ \A k \in DOMAIN job.attempts : EndedInTime(job.attempts[k], job.maxRun)
    /\ DeadlineOfNewest(job)
    /\ job.token # NULL =>
          job.until \in job.attempts[Newest(job)].started..job.deadline
    /\ job.requeued # NULL /\ job.status = "pending" =>
          job.available >= job.requeued

\* A job that failed without a requeue used no more attempts than it had: the
\* reclaim of its last one gives that back.
BudgetKept(job) ==
    /\ WithinBudget(job)
    /\ job.requeued = NULL /\ job.status = "failed" =>
          UsedAttempts(job) <= job.maxAttempt

\* An id that was never inserted has no attempts.
NewIsEmpty(job) == job.status = "none" => job.attempts = << >>

\* The last run of a replay that keeps its old success did not expire, or the
\* job would be that success: there is no reclaim to lose it by.
KeptIsNotLost(job) ==
    /\ KeepsOldSuccess(job)
    /\ job.status \in {"pending", "failed"}
    /\ job.deadline # NULL
    => job.attempts[Newest(job)].outcome # "lease_expired"

RowKept(job) ==
    /\ Timely(job)
    /\ BudgetKept(job)
    /\ ReportMatchesStatus(job)
    /\ NewIsEmpty(job)
    /\ KeptIsNotLost(job)

RowsKept == \A j \in Jobs : RowKept(jobs[j])

-----------------------------------------------------------------------------
(* Counting attempts. *)

\* The attempts that count.
Spent(job) ==
    {k \in DOMAIN job.attempts :
        /\ job.attempts[k].outcome \notin {NULL, "released"}
        /\ job.requeued = NULL \/ job.attempts[k].started >= job.requeued}

\* There are finitely many of them.
LEMMA SpentIsFinite ==
    ASSUME NEW job \in Job
    PROVE  /\ IsFiniteSet(Spent(job))
           /\ UsedAttempts(job) = Cardinality(Spent(job))
           /\ UsedAttempts(job) \in Nat
<1>1. Len(job.attempts) \in Nat /\ Spent(job) \subseteq 1..Len(job.attempts)
  BY DEF Spent, Job
<1>2. IsFiniteSet(1..Len(job.attempts))
  BY <1>1, FS_Interval
<1>3. IsFiniteSet(Spent(job))
  BY <1>1, <1>2, FS_Subset
<1>4. UsedAttempts(job) = Cardinality(Spent(job))
  BY DEF UsedAttempts, Spent
<1> QED
  BY <1>3, <1>4, FS_CardinalityType

-----------------------------------------------------------------------------
(* What the parts of JobRow leave alone. *)

\* The columns that no end of a run changes.
SameFrame(a, b) ==
    /\ a.maxAttempt = b.maxAttempt
    /\ a.maxRun = b.maxRun
    /\ a.methods = b.methods
    /\ a.deadline = b.deadline
    /\ a.requeued = b.requeued
    /\ a.replay = b.replay

\* The outcome of the job.
SameOutcome(a, b) ==
    /\ a.result = b.result
    /\ a.finished = b.finished
    /\ a.report = b.report

\* EndAttempt writes the newest attempt and nothing else.
LEMMA EndedFields ==
    ASSUME NEW job, RowInv(job), job.token # NULL, NEW outcome \in Outcomes,
           NEW now \in Time
    PROVE  LET e == EndAttempt(job, outcome, now)
               n == Newest(job)
           IN  /\ e \in Job
               /\ SameFrame(e, job) /\ SameOutcome(e, job)
               /\ n > 0 /\ n \in DOMAIN job.attempts /\ job.attempts[n] \in Attempt
               /\ Newest(e) = n
               /\ DOMAIN e.attempts = DOMAIN job.attempts
               /\ \A k \in DOMAIN job.attempts :
                     e.attempts[k] = IF k = n
                                     THEN Closed(job.attempts[n], outcome, now)
                                     ELSE job.attempts[k]
<1> DEFINE n == Newest(job)
           a == Closed(job.attempts[n], outcome, now)
           e == EndAttempt(job, outcome, now)
<1>1. /\ job \in Job
      /\ n \in DOMAIN job.attempts
      /\ n > 0
      /\ job.attempts[n] \in Attempt
  BY DEF RowInv, LogMatchesLease, Job, Newest
<1>2. a \in Attempt
  BY <1>1, AttemptClosed
<1>3. e = WithNewest(job, a)
  BY DEF EndAttempt
<1> HIDE DEF a
<1>4. SameFrame(e, job) /\ SameOutcome(e, job)
  BY <1>1, <1>3 DEF WithNewest, Job, SameFrame, SameOutcome
<1> HIDE DEF e
<1>5. /\ e \in Job
      /\ Newest(e) = n
      /\ DOMAIN e.attempts = DOMAIN job.attempts
      /\ \A k \in DOMAIN job.attempts :
            e.attempts[k] = IF k = n THEN a ELSE job.attempts[k]
  BY <1>1, <1>2, <1>3, NewestReplaced
<1> QED
  BY <1>1, <1>4, <1>5 DEF e, a

\* Taking the lease away.
LEMMA UnleasedFields ==
    ASSUME NEW job \in Job
    PROVE  LET m == Unleased(job)
           IN  /\ m \in Job
               /\ m.token = NULL
               /\ m.attempts = job.attempts
               /\ SameFrame(m, job) /\ SameOutcome(m, job)
  BY DEF Unleased, Job, SameFrame, SameOutcome

\* Starting a report writes the report alone.
LEMMA StartedFields ==
    ASSUME NEW job \in Job, NEW now \in Time
    PROVE  LET m == StartReport(job, now)
           IN  /\ m.token = job.token /\ m.status = job.status
               /\ m.attempts = job.attempts
               /\ SameFrame(m, job)
               /\ m.result = job.result /\ m.finished = job.finished
               /\ m.report.status = IF job.methods = 0 THEN job.report.status
                                                       ELSE "pending"
<1> DEFINE report == [NoReport EXCEPT !.status = "pending", !.nextAt = now]
<1>1. report.status = "pending"
  BY DEF NoReport
<1> HIDE DEF report
<1>2. StartReport(job, now) = IF job.methods = 0 THEN job
                              ELSE [job EXCEPT !.report = report]
  BY DEF StartReport, report
<1> QED
  BY <1>1, <1>2 DEF Job, SameFrame

\* A replay that ends back at its old success.
LEMMA RestoredFields ==
    ASSUME NEW job \in Job
    PROVE  LET m == RestoreSuccess(job)
           IN  /\ m.token = NULL /\ m.status = "success"
               /\ m.attempts = job.attempts
               /\ SameFrame(m, job) /\ SameOutcome(m, job)
<1> DEFINE idle == Unleased(job)
           start == IF Wins(job) = {} THEN idle.started
                    ELSE job.attempts[LastWin(job)].started
<1>1. /\ idle \in Job /\ idle.token = NULL /\ idle.attempts = job.attempts
      /\ SameFrame(idle, job) /\ SameOutcome(idle, job)
  BY UnleasedFields
<1>2. RestoreSuccess(job) = [idle EXCEPT !.status = "success", !.error = NULL,
                                         !.started = start]
  BY DEF RestoreSuccess
<1> HIDE DEF start, idle
<1> QED
  BY <1>1, <1>2 DEF Job, SameFrame, SameOutcome

\* A job that failed is a job.
LEMMA FailedIsAJob ==
    ASSUME NEW job \in Job, NEW error \in JobErrors, NEW now \in Time
    PROVE  [job EXCEPT !.status = "failed", !.error = error, !.result = NULL,
                       !.finished = now] \in Job
  BY DEF Job, Statuses

\* The three ends of _retry_or_fail.
LEMMA RetryOrFailFields ==
    ASSUME NEW job \in Job, NEW error \in JobErrors, NEW now \in Time
    PROVE  LET m == RetryOrFail(job, error, now)
               reports == /\ job.replay = NULL \/ job.replay.reportFailed
                          /\ job.methods # 0
           IN  /\ m.token = NULL
               /\ m.attempts = job.attempts
               /\ SameFrame(m, job)
               /\ \/ KeepsOldSuccess(job) /\ m.status = "success"
                     /\ SameOutcome(m, job)
                  \/ ~KeepsOldSuccess(job) /\ m.status = "failed"
                     /\ m.finished = now
                     /\ m.report.status = IF reports THEN "pending"
                                                     ELSE job.report.status
                  \/ ~KeepsOldSuccess(job) /\ m.status = "pending"
                     /\ job.replay = NULL /\ UsedAttempts(job) < job.maxAttempt
                     /\ SameOutcome(m, job)
                     /\ m.available \in Time /\ m.available >= now
<1> DEFINE m == RetryOrFail(job, error, now)
           idle == Unleased(job)
<1>1. /\ idle \in Job /\ idle.token = NULL /\ idle.attempts = job.attempts
      /\ SameFrame(idle, job) /\ SameOutcome(idle, job)
  BY UnleasedFields
<1>2. CASE KeepsOldSuccess(job)
  BY <1>2, RestoredFields DEF RetryOrFail
<1>3. CASE ~KeepsOldSuccess(job) /\ OutOfAttempts(job)
  <2> DEFINE ended == [idle EXCEPT !.status = "failed", !.error = error,
                                   !.result = NULL, !.finished = now]
             reports == job.replay = NULL \/ job.replay.reportFailed
  <2>1. m = IF reports THEN StartReport(ended, now) ELSE ended
    BY <1>3 DEF RetryOrFail, Fail
  <2> HIDE DEF idle
  <2>2. /\ ended.token = NULL /\ ended.status = "failed"
        /\ ended.finished = now
        /\ ended.attempts = job.attempts /\ ended.report = job.report
        /\ SameFrame(ended, job)
    BY <1>1 DEF Job, SameFrame, SameOutcome
  <2>3. ended \in Job
    BY <1>1, FailedIsAJob
  <2> HIDE DEF ended, reports
  <2> QED
    BY <1>3, <2>1, <2>2, <2>3, StartedFields DEF SameFrame, reports
<1>4. CASE ~KeepsOldSuccess(job) /\ ~OutOfAttempts(job)
  <2> DEFINE next == now + RetryBackoff(UsedAttempts(job))
  <2>1. m = [idle EXCEPT !.status = "pending", !.error = error,
                         !.available = next]
    BY <1>4 DEF RetryOrFail, Requeue
  <2>2. next \in Time /\ next >= now
    <3>1. RetryBackoff(UsedAttempts(job)) \in 0..BackoffCapMs
      BY BackoffIsADelay, SettingsAssumption DEF RetryBackoff
    <3> QED
      BY <3>1, SettingsAssumption DEF Time
  <2>3. job.replay = NULL /\ UsedAttempts(job) < job.maxAttempt
    BY <1>4, SpentIsFinite DEF OutOfAttempts, Job
  <2> HIDE DEF next, idle
  <2>4. /\ m.token = NULL /\ m.status = "pending" /\ m.available = next
        /\ m.attempts = job.attempts
        /\ SameFrame(m, job) /\ SameOutcome(m, job)
    BY <1>1, <2>1 DEF Job, SameFrame, SameOutcome
  <2> QED
    BY <1>4, <2>2, <2>3, <2>4
<1> QED
  BY <1>2, <1>3, <1>4

-----------------------------------------------------------------------------
(* A run ends. *)

\* The same log and the same requeue count the same.
LEMMA SameSpent ==
    ASSUME NEW a, NEW b, a.attempts = b.attempts, a.requeued = b.requeued
    PROVE  UsedAttempts(a) = UsedAttempts(b)
  BY DEF UsedAttempts

\* The run that ends is the only one that can count anew; a release does not.
LEMMA EndedSpent ==
    ASSUME NEW job, RowInv(job), job.token # NULL, NEW outcome \in Outcomes,
           NEW now \in Time
    PROVE  LET e == EndAttempt(job, outcome, now)
           IN  /\ UsedAttempts(e) <= UsedAttempts(job) + 1
               /\ outcome = "released" => UsedAttempts(e) = UsedAttempts(job)
<1> DEFINE e == EndAttempt(job, outcome, now)
           n == Newest(job)
           a == Closed(job.attempts[n], outcome, now)
<1>1. /\ e \in Job /\ job \in Job
      /\ e.requeued = job.requeued
      /\ n \in DOMAIN job.attempts /\ job.attempts[n] \in Attempt
      /\ DOMAIN e.attempts = DOMAIN job.attempts
      /\ \A k \in DOMAIN job.attempts :
            e.attempts[k] = IF k = n THEN a ELSE job.attempts[k]
  BY EndedFields DEF SameFrame, RowInv
<1>2. a.outcome = outcome
  BY <1>1, AttemptClosed
<1>3. job.attempts[n].outcome = NULL
  BY <1>1 DEF RowInv, RowChecks, LeaseChecks, LogMatchesLease
<1> HIDE DEF e, a, n
<1>4. /\ Spent(e) \subseteq Spent(job) \cup {n}
      /\ outcome = "released" => Spent(e) = Spent(job)
  BY <1>1, <1>2, <1>3, NullIsNoString DEF Spent
<1>5. /\ IsFiniteSet(Spent(job)) /\ Cardinality(Spent(job)) = UsedAttempts(job)
      /\ Cardinality(Spent(e)) = UsedAttempts(e)
      /\ UsedAttempts(job) \in Nat /\ UsedAttempts(e) \in Nat
  BY <1>1, SpentIsFinite
<1>6. /\ IsFiniteSet(Spent(job) \cup {n})
      /\ Cardinality(Spent(job) \cup {n}) \in
           {UsedAttempts(job), UsedAttempts(job) + 1}
  BY <1>5, FS_AddElement
<1>7. Cardinality(Spent(e)) <= Cardinality(Spent(job) \cup {n})
  BY <1>4, <1>6, FS_Subset
<1> QED
  BY <1>4, <1>5, <1>6, <1>7 DEF e

\* A run that ends at a clock reading its outcome allows leaves a timely log.
LEMMA EndedTimely ==
    ASSUME NEW job, RowInv(job), Timely(job), job.token # NULL,
           NEW outcome \in Outcomes, NEW now \in Time,
           outcome # "cancelled" => now >= job.attempts[Newest(job)].started,
           outcome = "deadline_exceeded" => now >= job.deadline,
           outcome \notin {"deadline_exceeded", "cancelled"} => now < job.deadline
    PROVE  LET e == EndAttempt(job, outcome, now)
           IN  /\ \A k \in DOMAIN e.attempts : EndedInTime(e.attempts[k], e.maxRun)
               /\ DeadlineOfNewest(e)
               /\ outcome # "cancelled" /\ e.requeued # NULL => now >= e.requeued
<1> DEFINE e == EndAttempt(job, outcome, now)
           n == Newest(job)
           a == Closed(job.attempts[n], outcome, now)
<1>1. /\ e \in Job /\ job \in Job
      /\ e.requeued = job.requeued /\ e.maxRun = job.maxRun
      /\ e.deadline = job.deadline
      /\ n > 0 /\ n \in DOMAIN job.attempts /\ job.attempts[n] \in Attempt
      /\ Newest(e) = n
      /\ DOMAIN e.attempts = DOMAIN job.attempts
      /\ \A k \in DOMAIN job.attempts :
            e.attempts[k] = IF k = n THEN a ELSE job.attempts[k]
  BY EndedFields DEF SameFrame, RowInv
<1>2. a.outcome = outcome /\ a.started = job.attempts[n].started /\ a.ended = now
  BY <1>1, AttemptClosed
<1>3. job.deadline # NULL
  BY DEF RowInv, RowChecks, LeaseChecks
<1>4. /\ job.deadline = job.attempts[n].started + job.maxRun
      /\ job.requeued # NULL => job.attempts[n].started >= job.requeued
  BY <1>3 DEF Timely, DeadlineOfNewest
<1>5. job.attempts[n].started \in Nat /\ job.maxRun \in Nat /\ now \in Nat
  BY <1>1 DEF Attempt, Job, Time
<1> HIDE DEF e, a, n
<1>6. EndedInTime(a, job.maxRun)
  BY <1>2, <1>4, <1>5 DEF EndedInTime, n
<1>7. \A k \in DOMAIN e.attempts : EndedInTime(e.attempts[k], e.maxRun)
  BY <1>1, <1>6 DEF Timely
<1>8. DeadlineOfNewest(e)
  BY <1>1, <1>2, <1>4 DEF DeadlineOfNewest
<1>9. outcome # "cancelled" /\ e.requeued # NULL => now >= e.requeued
  <2>1. job.requeued # NULL => job.requeued \in Nat
    BY <1>1 DEF Job, Time
  <2> QED
    BY <1>1, <1>4, <1>5, <2>1 DEF n
<1> QED
  BY <1>7, <1>8, <1>9 DEF e

\* A row with such a log and no lease is timely.
LEMMA SettledTimely ==
    ASSUME NEW e, \A k \in DOMAIN e.attempts : EndedInTime(e.attempts[k], e.maxRun),
           DeadlineOfNewest(e),
           NEW m, m.attempts = e.attempts, SameFrame(m, e), m.token = NULL,
           m.status = "pending" /\ e.requeued # NULL => m.available >= e.requeued
    PROVE  Timely(m)
<1>1. DeadlineOfNewest(m)
  BY DEF DeadlineOfNewest, SameFrame, Newest
<1> QED
  BY <1>1 DEF Timely, SameFrame

\* The report of a job that runs is the one its replay keeps, if any.
LEMMA RunningReport ==
    ASSUME NEW job, ReportMatchesStatus(job), job.status \in {"pending", "running"}
    PROVE  /\ ~ReportBusy(job)
           /\ KeepsOldSuccess(job) \/ job.report.status = NULL
  BY DEF ReportMatchesStatus

\* A run that does not succeed, whatever ended it: the job is queued, failed
\* or its old success again.
LEMMA FallenKept ==
    ASSUME NEW job, RowInv(job), RowKept(job), job.token # NULL,
           NEW outcome \in Outcomes \cap JobErrors, NEW now \in Time,
           now >= job.attempts[Newest(job)].started,
           outcome = "deadline_exceeded" <=> now >= job.deadline
    PROVE  RowKept(RetryOrFail(EndAttempt(job, outcome, now), outcome, now))
<1> DEFINE e == EndAttempt(job, outcome, now)
           m == RetryOrFail(e, outcome, now)
<1>1. /\ e \in Job /\ job \in Job
      /\ SameFrame(e, job) /\ SameOutcome(e, job)
  BY EndedFields DEF RowInv
<1>2. job.status = "running" /\ job.deadline \in Nat /\ now \in Nat
  BY DEF RowInv, RowChecks, LeaseChecks, Job, Time
<1>3. /\ \A k \in DOMAIN e.attempts : EndedInTime(e.attempts[k], e.maxRun)
      /\ DeadlineOfNewest(e)
      /\ e.requeued # NULL => now >= e.requeued
  BY <1>2, EndedTimely DEF RowKept, JobErrors
<1>4. KeepsOldSuccess(e) <=> KeepsOldSuccess(job)
  BY <1>1 DEF SameFrame, KeepsOldSuccess
<1>5. ~ReportBusy(job) /\ (KeepsOldSuccess(job) \/ job.report.status = NULL)
  BY <1>2, RunningReport DEF RowKept
<1>6. job.requeued = NULL => UsedAttempts(e) <= UsedAttempts(job) + 1
  BY EndedSpent
<1> HIDE DEF e
<1> DEFINE reports == /\ e.replay = NULL \/ e.replay.reportFailed
                      /\ e.methods # 0
<1>7. /\ m.token = NULL
      /\ m.attempts = e.attempts
      /\ SameFrame(m, e)
      /\ \/ KeepsOldSuccess(e) /\ m.status = "success"
            /\ SameOutcome(m, e)
         \/ ~KeepsOldSuccess(e) /\ m.status = "failed"
            /\ m.report.status = IF reports THEN "pending" ELSE e.report.status
         \/ ~KeepsOldSuccess(e) /\ m.status = "pending"
            /\ UsedAttempts(e) < e.maxAttempt
            /\ SameOutcome(m, e)
            /\ m.available \in Time /\ m.available >= now
  BY <1>1, RetryOrFailFields
<1> HIDE DEF m
<1>8. Timely(m)
  <2>1. m.status = "pending" /\ e.requeued # NULL => m.available >= e.requeued
    <3>1. e.requeued # NULL => e.requeued \in Nat
      BY <1>1 DEF Job, Time
    <3> QED
      BY <1>2, <1>3, <1>7, <3>1 DEF Time
  <2> QED
    BY <1>3, <1>7, <2>1, SettledTimely
<1>9. BudgetKept(m)
  <2>1. UsedAttempts(m) = UsedAttempts(e)
    BY <1>7, SameSpent DEF SameFrame
  <2>2. m.maxAttempt = job.maxAttempt /\ m.requeued = job.requeued
    BY <1>1, <1>7 DEF SameFrame
  <2>3. job.requeued = NULL => UsedAttempts(job) < job.maxAttempt
    BY <1>2 DEF RowKept, BudgetKept, WithinBudget
  <2>4. UsedAttempts(e) \in Nat /\ UsedAttempts(job) \in Nat /\ job.maxAttempt \in Nat
    BY <1>1, SpentIsFinite DEF Job
  <2> QED
    BY <1>1, <1>6, <1>7, <2>1, <2>2, <2>3, <2>4
       DEF BudgetKept, WithinBudget, SameFrame
<1>10. ReportMatchesStatus(m)
  <2>1. KeepsOldSuccess(m) <=> KeepsOldSuccess(job)
    BY <1>1, <1>7 DEF SameFrame, KeepsOldSuccess
  <2>2. m.methods = job.methods /\ m.replay = job.replay /\ job.methods \in Nat
    BY <1>1, <1>7 DEF SameFrame, Job
  <2>3. e.report = job.report /\ e.methods = job.methods /\ e.replay = job.replay
    BY <1>1 DEF SameFrame, SameOutcome
  <2>4. CASE m.status = "success"
    <3>1. m.report = job.report /\ job.replay # NULL
      BY <1>4, <1>7, <2>3, <2>4 DEF SameOutcome, KeepsOldSuccess
    <3> QED
      BY <2>2, <2>4, <3>1 DEF ReportMatchesStatus
  <2>5. CASE m.status = "pending"
    <3>1. m.report = job.report /\ job.report.status = NULL
      BY <1>4, <1>5, <1>7, <2>3, <2>5 DEF SameOutcome
    <3> QED
      BY <2>5, <3>1, NullIsNoString
         DEF ReportMatchesStatus, ReportBusy, ReportStatuses
  <2>6. CASE m.status = "failed"
    <3>1. /\ job.report.status = NULL
          /\ m.report.status = IF reports THEN "pending" ELSE NULL
      BY <1>4, <1>5, <1>7, <2>3, <2>6
    <3>2. m.replay = NULL /\ m.methods > 0 => reports
      BY <2>2, <2>3
    <3>3. NULL # "pending"
      BY NullIsNoString DEF ReportStatuses
    <3> HIDE DEF reports
    <3> QED
      BY <2>6, <3>1, <3>2, <3>3 DEF ReportMatchesStatus
  <2> QED
    BY <1>7, <2>4, <2>5, <2>6
<1>11. NewIsEmpty(m) /\ KeptIsNotLost(m)
  <2>1. KeepsOldSuccess(m) <=> KeepsOldSuccess(e)
    BY <1>7 DEF SameFrame, KeepsOldSuccess
  <2> QED
    BY <1>7, <2>1 DEF NewIsEmpty, KeptIsNotLost
<1> QED
  BY <1>8, <1>9, <1>10, <1>11 DEF RowKept, m, e

-----------------------------------------------------------------------------
(* The log from one row to the next. *)

\* No attempt is added; one changes only if it is the newest and open or
\* expired, and keeps its worker and its start.
LogKept(old, new) ==
    /\ DOMAIN new.attempts = DOMAIN old.attempts
    /\ Newest(new) = Newest(old)
    /\ \A k \in DOMAIN old.attempts :
          /\ new.attempts[k].started = old.attempts[k].started
          /\ new.attempts[k].worker = old.attempts[k].worker
          /\ \/ new.attempts[k] = old.attempts[k]
             \/ /\ k = Newest(old)
                /\ old.attempts[k].outcome \in {NULL, "lease_expired"}

\* The log stays when no attempt is written.
LEMMA SameLog ==
    ASSUME NEW old, NEW new, new.attempts = old.attempts
    PROVE  LogKept(old, new)
  BY DEF LogKept, Newest

\* Two operations of one transaction keep the log as one does.
LEMMA LogKeptTwice ==
    ASSUME NEW a, NEW b, NEW c, LogKept(a, b), LogKept(b, c)
    PROVE  LogKept(a, c)
  BY DEF LogKept

\* Ending a run writes the newest attempt, which was open.
LEMMA EndedLog ==
    ASSUME NEW job, RowInv(job), job.token # NULL, NEW outcome \in Outcomes,
           NEW now \in Time
    PROVE  LogKept(job, EndAttempt(job, outcome, now))
<1> DEFINE e == EndAttempt(job, outcome, now)
           n == Newest(job)
           a == Closed(job.attempts[n], outcome, now)
<1>1. /\ n \in DOMAIN job.attempts /\ job.attempts[n] \in Attempt
      /\ Newest(e) = n
      /\ DOMAIN e.attempts = DOMAIN job.attempts
      /\ \A k \in DOMAIN job.attempts :
            e.attempts[k] = IF k = n THEN a ELSE job.attempts[k]
  BY EndedFields
<1>2. a.started = job.attempts[n].started /\ a.worker = job.attempts[n].worker
  BY <1>1, AttemptClosed
<1>3. job.attempts[n].outcome = NULL
  BY <1>1 DEF RowInv, RowChecks, LeaseChecks, LogMatchesLease
<1> HIDE DEF e, a, n
<1> QED
  BY <1>1, <1>2, <1>3 DEF LogKept, e, n

\* A replay that keeps its old success still has it.
KeepsIt(old, new) ==
    KeepsOldSuccess(old) /\ old.status \in {"pending", "running"} =>
        /\ new.status \in {"pending", "running", "success"}
        /\ new.result = old.result
        /\ new.finished = old.finished

\* What a run that does not succeed leaves to see.
LEMMA FallenOutcome ==
    ASSUME NEW job, RowInv(job), job.token # NULL,
           NEW outcome \in Outcomes \cap JobErrors, NEW now \in Time
    PROVE  LET m == RetryOrFail(EndAttempt(job, outcome, now), outcome, now)
           IN  /\ m.token = NULL
               /\ KeepsOldSuccess(job) => m.status = "success"
               /\ KeepsIt(job, m)
               /\ LogKept(job, m)
<1> DEFINE e == EndAttempt(job, outcome, now)
           m == RetryOrFail(e, outcome, now)
<1>1. e \in Job /\ SameFrame(e, job) /\ SameOutcome(e, job)
  BY EndedFields
<1>2. LogKept(job, e)
  BY EndedLog
<1>3. KeepsOldSuccess(e) <=> KeepsOldSuccess(job)
  BY <1>1 DEF SameFrame, KeepsOldSuccess
<1> HIDE DEF e
<1>4. /\ m.token = NULL
      /\ m.attempts = e.attempts
      /\ KeepsOldSuccess(e) => m.status = "success" /\ SameOutcome(m, e)
  BY <1>1, RetryOrFailFields
<1> HIDE DEF m
<1>5. LogKept(job, m)
  BY <1>2, <1>4, SameLog, LogKeptTwice
<1> QED
  BY <1>1, <1>3, <1>4, <1>5 DEF KeepsIt, SameOutcome, m, e

-----------------------------------------------------------------------------
(* Leases. *)

\* A leased job runs between the start and the deadline of its newest attempt.
LEMMA LeasedTimes ==
    ASSUME NEW job, RowInv(job), Timely(job), job.token # NULL
    PROVE  LET n == Newest(job)
           IN  /\ job.status = "running"
               /\ n \in DOMAIN job.attempts
               /\ job.attempts[n] \in Attempt
               /\ {job.attempts[n].started, job.until, job.deadline} \subseteq Nat
               /\ job.attempts[n].started <= job.until
               /\ job.until <= job.deadline
<1>1. /\ job \in Job /\ job.status = "running" /\ job.until # NULL
      /\ job.deadline # NULL /\ Newest(job) \in DOMAIN job.attempts
  BY DEF RowInv, RowChecks, LeaseChecks, LogMatchesLease
<1>2. /\ job.until \in Nat /\ job.deadline \in Nat
      /\ job.attempts[Newest(job)] \in Attempt
  BY <1>1 DEF Job, Time
<1> QED
  BY <1>1, <1>2 DEF Timely, Attempt, Time

\* _expire_if_due leaves the row as it is, or without a lease.
LEMMA ExpiredKept ==
    ASSUME NEW job, RowInv(job), RowKept(job), NEW now \in Time
    PROVE  LET m == ExpireIfDue(job, now)
           IN  /\ RowKept(m) /\ KeepsIt(job, m) /\ LogKept(job, m)
               /\ \/ m = job /\ ~PastDeadline(job, now)
                  \/ /\ m.token = NULL
                     /\ KeepsOldSuccess(job) => m.status = "success"
<1>1. ASSUME NEW outcome \in Outcomes \cap JobErrors, job.token # NULL,
             now >= job.until,
             outcome = "deadline_exceeded" <=> now >= job.deadline
      PROVE  LET m == Revoke(job, outcome, now)
             IN  /\ RowKept(m) /\ KeepsIt(job, m) /\ LogKept(job, m)
                 /\ m.token = NULL
                 /\ KeepsOldSuccess(job) => m.status = "success"
  <2>1. now >= job.attempts[Newest(job)].started
    BY <1>1, LeasedTimes DEF RowKept, Time
  <2> QED
    BY <1>1, <2>1, FallenKept, FallenOutcome DEF Revoke
<1>2. CASE PastDeadline(job, now)
  <2>1. /\ job.token # NULL /\ now >= job.deadline
        /\ ~LeaseExpired(job, now)
        /\ "deadline_exceeded" \in Outcomes \cap JobErrors
    BY <1>2 DEF PastDeadline, LeaseExpired, Outcomes, JobErrors
  <2>2. now >= job.until
    BY <2>1, LeasedTimes DEF RowKept, Time
  <2>3. ExpireIfDue(job, now) = Revoke(job, "deadline_exceeded", now)
    BY <1>2, <2>1 DEF ExpireIfDue
  <2> QED
    BY <1>1, <2>1, <2>2, <2>3
<1>3. CASE LeaseExpired(job, now)
  <2>1. /\ job.token # NULL /\ now >= job.until
        /\ ~PastDeadline(job, now)
        /\ "lease_expired" \in Outcomes \cap JobErrors
    BY <1>3 DEF LeaseExpired, Outcomes, JobErrors
  <2>2. ~(now >= job.deadline)
    BY <2>1 DEF PastDeadline
  <2>3. ExpireIfDue(job, now) = Revoke(job, "lease_expired", now)
    BY <1>3, <2>1 DEF ExpireIfDue
  <2> QED
    BY <1>1, <2>1, <2>2, <2>3
<1>4. CASE ~PastDeadline(job, now) /\ ~LeaseExpired(job, now)
  <2>1. ExpireIfDue(job, now) = job
    BY <1>4 DEF ExpireIfDue
  <2>2. KeepsIt(job, job)
    BY DEF KeepsIt
  <2> QED
    BY <1>4, <2>1, <2>2, SameLog
<1> QED
  BY <1>2, <1>3, <1>4

\* What a reclaim leaves.
LEMMA ReclaimedFields ==
    ASSUME NEW job, RowInv(job), NEW w \in Workers, NEW token, NEW now \in Time,
           NEW registered, Reclaimable(job, w, token, now, registered)
    PROVE  LET m == Reclaim(job, w, token, now)
               n == Newest(job)
           IN  /\ n \in DOMAIN job.attempts /\ job.attempts[n] \in Attempt
               /\ job.attempts[n].outcome = "lease_expired"
               /\ job.deadline \in Nat /\ now < job.deadline
               /\ m.status = "running" /\ m.token = token /\ token = n
               /\ m.until = Min2(now + JobLeaseMs, job.deadline)
               /\ m.report.status = NULL
               /\ SameFrame(m, job)
               /\ Newest(m) = n
               /\ DOMAIN m.attempts = DOMAIN job.attempts
               /\ \A k \in DOMAIN job.attempts :
                     m.attempts[k] = IF k = n
                                     THEN Closed(job.attempts[n], NULL, NULL)
                                     ELSE job.attempts[k]
<1> DEFINE report == [job.report EXCEPT !.status = NULL, !.nextAt = NULL]
           until == Min2(now + JobLeaseMs, job.deadline)
           lease == [job EXCEPT !.status = "running", !.worker = w,
                                !.token = token, !.until = until,
                                !.error = NULL, !.finished = NULL,
                                !.report = report]
           n == Newest(job)
           open == Closed(job.attempts[n], NULL, NULL)
           row == Reclaim(job, w, token, now)
<1>1. /\ job \in Job
      /\ job.deadline \in Nat /\ now < job.deadline
      /\ token = n
      /\ n \in DOMAIN job.attempts
      /\ token \in Nat
      /\ n > 0
      /\ job.attempts[n] \in Attempt
      /\ job.attempts[n].outcome = "lease_expired"
  BY DEF Reclaimable, RowInv, Job, Newest, Time
<1>2. open \in Attempt
  BY <1>1, AttemptClosed
<1>3. report \in Report /\ report.status = NULL
  BY <1>1 DEF Job, Report
<1>4. until \in Time
  BY <1>1, SettingsAssumption DEF Min2, Time
<1>5. row = WithNewest(lease, open)
  BY DEF Reclaim
<1> HIDE DEF report, until, open, n
<1>6. lease \in Job
  <2>1. job \in Job
    BY <1>1
  <2>2. token \in Nat
    BY <1>1
  <2>3. report \in Report
    BY <1>3
  <2> QED
    BY <1>4, <2>1, <2>2, <2>3 DEF Job, Statuses
<1>7. /\ lease.status = "running" /\ lease.token = token
      /\ lease.until = until /\ lease.report = report
      /\ SameFrame(lease, job)
      /\ lease.attempts = job.attempts
  BY <1>1 DEF Job, SameFrame
<1> HIDE DEF lease
<1>8. Newest(lease) = n /\ Newest(lease) > 0
  BY <1>1, <1>7 DEF Newest, n
<1>9. /\ DOMAIN row.attempts = DOMAIN job.attempts
      /\ Newest(row) = n
      /\ \A k \in DOMAIN job.attempts :
            row.attempts[k] = IF k = n THEN open ELSE job.attempts[k]
  BY <1>2, <1>5, <1>6, <1>7, <1>8, NewestReplaced
<1>10. /\ row.status = "running" /\ row.token = token
       /\ row.until = until /\ row.report = report
       /\ SameFrame(row, job)
  BY <1>5, <1>6, <1>7 DEF WithNewest, Job, SameFrame
<1> QED
  BY <1>1, <1>3, <1>9, <1>10 DEF row, until, open, n

\* A reclaim takes back what the expiry counted.
LEMMA ReclaimedSpent ==
    ASSUME NEW job, RowInv(job), RowKept(job), NEW w \in Workers, NEW token,
           NEW now \in Time, NEW registered,
           Reclaimable(job, w, token, now, registered)
    PROVE  UsedAttempts(Reclaim(job, w, token, now)) = UsedAttempts(job) - 1
<1> DEFINE m == Reclaim(job, w, token, now)
           n == Newest(job)
           open == Closed(job.attempts[n], NULL, NULL)
<1>1. /\ n \in DOMAIN job.attempts /\ job.attempts[n] \in Attempt
      /\ job.attempts[n].outcome = "lease_expired"
      /\ SameFrame(m, job)
      /\ DOMAIN m.attempts = DOMAIN job.attempts
      /\ \A k \in DOMAIN job.attempts :
            m.attempts[k] = IF k = n THEN open ELSE job.attempts[k]
  BY ReclaimedFields
<1>2. open.outcome = NULL
  <2> HIDE DEF n
  <2> QED
    BY <1>1 DEF Closed, Attempt
<1>3. job \in Job /\ m \in Job
  BY ReclaimedRow DEF RowInv
<1>4. job.requeued = NULL \/ job.attempts[n].started >= job.requeued
  BY DEF Reclaimable, RowKept, Timely, DeadlineOfNewest
<1> HIDE DEF m, n, open
<1>5. Spent(m) = Spent(job) \ {n} /\ n \in Spent(job)
  BY <1>1, <1>2, <1>4, NullIsNoString DEF Spent, Outcomes, SameFrame
<1>6. /\ IsFiniteSet(Spent(job)) /\ Cardinality(Spent(job)) = UsedAttempts(job)
      /\ Cardinality(Spent(m)) = UsedAttempts(m)
  BY <1>3, SpentIsFinite
<1> QED
  BY <1>5, <1>6, FS_RemoveElement DEF m

\* It leaves what a row keeps.
LEMMA ReclaimedKept ==
    ASSUME NEW job, RowInv(job), RowKept(job), NEW w \in Workers, NEW token,
           NEW now \in Time, NEW registered,
           Reclaimable(job, w, token, now, registered),
           now >= job.attempts[Newest(job)].started
    PROVE  /\ RowKept(Reclaim(job, w, token, now))
           /\ LogKept(job, Reclaim(job, w, token, now))
<1> DEFINE m == Reclaim(job, w, token, now)
           n == Newest(job)
           open == Closed(job.attempts[n], NULL, NULL)
<1>1. /\ n \in DOMAIN job.attempts /\ job.attempts[n] \in Attempt
      /\ job.attempts[n].outcome = "lease_expired"
      /\ job.deadline \in Nat /\ now < job.deadline
      /\ m.status = "running" /\ m.token = token /\ token = n
      /\ m.until = Min2(now + JobLeaseMs, job.deadline)
      /\ m.report.status = NULL
      /\ SameFrame(m, job)
      /\ Newest(m) = n
      /\ DOMAIN m.attempts = DOMAIN job.attempts
      /\ \A k \in DOMAIN job.attempts :
            m.attempts[k] = IF k = n THEN open ELSE job.attempts[k]
  BY ReclaimedFields
<1>2. /\ open.outcome = NULL /\ open.started = job.attempts[n].started
      /\ open.worker = job.attempts[n].worker
  <2>1. job.attempts[n] \in Attempt
    BY <1>1
  <2> HIDE DEF n
  <2> QED
    BY <2>1 DEF Closed, Attempt
<1>3. /\ job \in Job /\ m \in Job
      /\ job.status \in {"pending", "failed"}
      /\ now \in Nat /\ job.attempts[n].started \in Nat
      /\ now >= job.attempts[n].started
      /\ job.deadline # NULL
  BY <1>1, ReclaimedRow, NullAssumption
     DEF RowInv, Reclaimable, Time, Attempt
<1> HIDE DEF m, n, open
<1>4. Timely(m)
  <2>1. EndedInTime(open, job.maxRun)
    BY <1>2, NullIsNoString DEF EndedInTime, Outcomes
  <2>2. \A k \in DOMAIN m.attempts : EndedInTime(m.attempts[k], m.maxRun)
    BY <1>1, <2>1 DEF RowKept, Timely, SameFrame
  <2>3. DeadlineOfNewest(m)
    BY <1>1, <1>2, <1>3 DEF RowKept, Timely, DeadlineOfNewest, SameFrame, n
  <2>4. m.until \in m.attempts[Newest(m)].started..m.deadline
    <3>1. job.attempts[n].started <= job.deadline
      BY <1>1, <1>3
    <3>2. Min2(now + JobLeaseMs, job.deadline)
             \in job.attempts[n].started..job.deadline
      BY <1>1, <1>3, <3>1, SettingsAssumption DEF Min2
    <3> QED
      BY <1>1, <1>2, <3>2 DEF SameFrame
  <2> QED
    BY <1>1, <2>2, <2>3, <2>4 DEF Timely
<1>5. BudgetKept(m)
  <2> SUFFICES ASSUME m.requeued = NULL
               PROVE  UsedAttempts(m) < m.maxAttempt
    BY <1>1 DEF BudgetKept, WithinBudget
  <2>1. job.requeued = NULL /\ m.maxAttempt = job.maxAttempt
    BY <1>1 DEF SameFrame
  <2>2. UsedAttempts(m) = UsedAttempts(job) - 1
    BY ReclaimedSpent DEF m
  <2>3. UsedAttempts(job) \in Nat
    BY <1>3, SpentIsFinite
  <2>4. UsedAttempts(job) <= job.maxAttempt /\ job.maxAttempt \in Nat
    BY <1>3, <2>1, <2>3 DEF RowKept, BudgetKept, WithinBudget, Job
  <2> QED
    BY <2>1, <2>2, <2>3, <2>4
<1>6. ReportMatchesStatus(m)
  BY <1>1, NullIsNoString DEF ReportMatchesStatus, ReportBusy, ReportStatuses
<1>7. NewIsEmpty(m) /\ KeptIsNotLost(m)
  BY <1>1 DEF NewIsEmpty, KeptIsNotLost
<1>8. LogKept(job, m)
  BY <1>1, <1>2 DEF LogKept, n
<1> QED
  BY <1>4, <1>5, <1>6, <1>7, <1>8 DEF RowKept, m

\* What _hold returns: the caller's run, before its deadline.  A replay that
\* keeps its old success is never reclaimed.
LEMMA HeldKept ==
    ASSUME NEW job, RowInv(job), RowKept(job), NEW w \in Workers,
           NEW token \in DOMAIN job.attempts, NEW now \in Time,
           now >= job.attempts[token].started, NEW registered,
           \/ CanHold(job, w, token, now)
           \/ CanReclaim(job, w, token, now, registered)
    PROVE  LET h == Hold(job, w, token, now)
           IN  /\ RowInv(h) /\ RowKept(h) /\ LogKept(job, h)
               /\ h.token # NULL
               /\ now < h.deadline
               /\ now >= h.attempts[Newest(h)].started
               /\ KeepsOldSuccess(job) => h = job
<1> DEFINE current == ExpireIfDue(job, now)
           h == Hold(job, w, token, now)
<1>1. /\ RowKept(current) /\ LogKept(job, current)
      /\ \/ current = job /\ ~PastDeadline(job, now)
         \/ /\ current.token = NULL
            /\ KeepsOldSuccess(job) => current.status = "success"
  BY ExpiredKept
<1>2. RowInv(current)
  BY ExpiredRow
<1>3. token \in Nat /\ token # NULL
  BY NullAssumption DEF RowInv, Job
<1>4. RowInv(h) /\ h.token # NULL
  BY <1>3, HeldRow
<1>5. current.attempts[token].started = job.attempts[token].started
  BY <1>1 DEF LogKept
<1>6. CASE Holds(current, w, token)
  <2>1. h = current /\ current.token = token /\ current = job
    BY <1>1, <1>3, <1>6 DEF Hold, Holds
  <2>2. token = Newest(job)
    BY <1>3, <2>1 DEF RowInv, LogMatchesLease
  <2>3. now < job.deadline
    BY <1>1, <1>3, <2>1, LeasedTimes DEF PastDeadline, RowKept, Time
  <2> QED
    BY <1>1, <1>4, <2>1, <2>2, <2>3
<1>7. CASE ~Holds(current, w, token)
  <2>1. Reclaimable(current, w, token, now, registered)
    BY <1>7 DEF CanHold, CanReclaim
  <2>2. h = Reclaim(current, w, token, now)
    BY <1>7 DEF Hold
  <2>3. token = Newest(current)
    BY <2>1 DEF Reclaimable
  <2> HIDE DEF current, h
  <2>4. now >= current.attempts[Newest(current)].started
    BY <1>5, <2>3
  <2>5. RowKept(h) /\ LogKept(current, h)
    BY <1>1, <1>2, <2>1, <2>2, <2>4, ReclaimedKept
  <2>6. LogKept(job, h)
    BY <1>1, <2>5, LogKeptTwice
  <2>7. now < h.deadline
    BY <1>2, <2>1, <2>2, ReclaimedFields DEF SameFrame
  <2>8. /\ Newest(h) = Newest(current)
        /\ h.attempts[token].started = job.attempts[token].started
    BY <2>5, <2>6 DEF LogKept
  <2>9. ~KeepsOldSuccess(job)
    <3>1. /\ current.status \in {"pending", "failed"} /\ current.deadline # NULL
          /\ current.attempts[Newest(current)].outcome = "lease_expired"
      BY <2>1, <2>3 DEF Reclaimable
    <3>2. ~KeepsOldSuccess(current)
      BY <1>1, <3>1 DEF RowKept, KeptIsNotLost
    <3> QED
      BY <1>1, <3>1, <3>2
  <2> QED
    BY <1>4, <2>3, <2>5, <2>6, <2>7, <2>8, <2>9 DEF h
<1> QED
  BY <1>6, <1>7

-----------------------------------------------------------------------------
(* What each operation does to the row _hold returned. *)

\* A row from one transaction to the next.
Follows(old, new) == RowKept(new) /\ LogStep(old, new) /\ KeepsIt(old, new)

\* A log that is kept so is the history that HistoryStable asks for.
LEMMA KeptLogIsAStep ==
    ASSUME NEW old, NEW new, LogKept(old, new)
    PROVE  LogStep(old, new)
  BY DEF LogKept, LogStep

\* A heartbeat renews the lease, to the deadline at the latest.
LEMMA BeatenFollows ==
    ASSUME NEW job, RowInv(job), RowKept(job), job.token # NULL,
           NEW now \in Time, now < job.deadline,
           now >= job.attempts[Newest(job)].started
    PROVE  /\ RowKept(Beaten(job, now))
           /\ LogKept(job, Beaten(job, now))
           /\ KeepsIt(job, Beaten(job, now))
<1> DEFINE until == Min2(now + JobLeaseMs, job.deadline)
           n == Newest(job)
           m == Beaten(job, now)
<1>1. job \in Job
  BY DEF RowInv
<1>2. /\ m.until = until
      /\ m.status = job.status /\ m.token = job.token
      /\ m.available = job.available
      /\ m.attempts = job.attempts
      /\ SameFrame(m, job) /\ SameOutcome(m, job)
  BY <1>1 DEF Beaten, Job, SameFrame, SameOutcome
<1>3. /\ job.status = "running" /\ n \in DOMAIN job.attempts
      /\ job.attempts[n].started \in Nat /\ job.deadline \in Nat
      /\ now \in Nat
  BY LeasedTimes DEF RowKept, Time
<1>4. until \in job.attempts[n].started..job.deadline
  BY <1>3, SettingsAssumption DEF Min2
<1> HIDE DEF until, m
<1>5. Newest(m) = n
  BY <1>2 DEF Newest, n
<1> HIDE DEF n
<1>6. Timely(m)
  BY <1>2, <1>3, <1>4, <1>5
     DEF RowKept, Timely, DeadlineOfNewest, SameFrame, n
<1>7. UsedAttempts(m) = UsedAttempts(job)
  BY <1>2, SameSpent DEF SameFrame
<1>8. BudgetKept(m)
  BY <1>2, <1>7 DEF RowKept, BudgetKept, WithinBudget, SameFrame
<1>9. ReportMatchesStatus(m)
  BY <1>2 DEF RowKept, ReportMatchesStatus, ReportBusy, KeepsOldSuccess,
              SameFrame, SameOutcome
<1>10. NewIsEmpty(m) /\ KeptIsNotLost(m)
  BY <1>2, <1>3 DEF NewIsEmpty, KeptIsNotLost
<1>11. LogKept(job, m) /\ KeepsIt(job, m)
  BY <1>2, <1>3, SameLog DEF KeepsIt, SameOutcome
<1> QED
  BY <1>6, <1>8, <1>9, <1>10, <1>11 DEF RowKept, m

\* A job that succeeded is a job.
LEMMA WonIsAJob ==
    ASSUME NEW job \in Job, NEW run \in Nat, NEW now \in Time
    PROVE  [job EXCEPT !.status = "success", !.result = run, !.error = NULL,
                       !.finished = now] \in Job
  BY DEF Job, Statuses

\* The row of a success: the new one or, after a replay that keeps it, the
\* old one.
LEMMA SucceededFields ==
    ASSUME NEW job, RowInv(job), job.token # NULL, NEW now \in Time
    PROVE  LET e == EndAttempt(job, "succeeded", now)
               m == Succeeded(job, now)
               reports == /\ job.replay = NULL \/ job.replay.reportSuccess
                          /\ job.methods # 0
           IN  /\ m.token = NULL
               /\ m.status = "success"
               /\ m.attempts = e.attempts
               /\ SameFrame(m, job)
               /\ KeepsOldSuccess(job) => SameOutcome(m, job)
               /\ ~KeepsOldSuccess(job) =>
                     /\ m.finished = now
                     /\ m.report.status = IF reports THEN "pending"
                                                     ELSE job.report.status
<1> DEFINE e == EndAttempt(job, "succeeded", now)
           m == Succeeded(job, now)
           idle == Unleased(e)
           ended == [idle EXCEPT !.status = "success", !.result = Newest(job),
                                 !.error = NULL, !.finished = now]
           reports == job.replay = NULL \/ job.replay.reportSuccess
<1>1. /\ e \in Job
      /\ SameFrame(e, job) /\ SameOutcome(e, job)
      /\ Newest(job) \in Nat
  BY EndedFields DEF Outcomes, RowInv, Job, Newest
<1>2. m = CASE KeepsOldSuccess(job)             -> RestoreSuccess(e)
            [] ~KeepsOldSuccess(job) /\ reports -> StartReport(ended, now)
            [] OTHER                            -> ended
  BY DEF Succeeded
<1> HIDE DEF e
<1>3. /\ idle \in Job /\ idle.token = NULL
      /\ idle.attempts = e.attempts
      /\ SameFrame(idle, e) /\ SameOutcome(idle, e)
  BY <1>1, UnleasedFields
<1> HIDE DEF idle, m
<1>4. CASE KeepsOldSuccess(job)
  <2>1. m = RestoreSuccess(e)
    BY <1>2, <1>4
  <2> QED
    BY <1>1, <1>4, <2>1, RestoredFields DEF SameFrame, SameOutcome, m, e
<1>5. CASE ~KeepsOldSuccess(job)
  <2>1. m = IF reports THEN StartReport(ended, now) ELSE ended
    BY <1>2, <1>5
  <2>2. /\ ended.token = NULL /\ ended.status = "success"
        /\ ended.finished = now
        /\ ended.attempts = idle.attempts /\ ended.report = idle.report
        /\ SameFrame(ended, idle)
    BY <1>3 DEF Job, SameFrame
  <2>3. ended \in Job
    BY <1>1, <1>3, WonIsAJob
  <2> HIDE DEF ended, reports
  <2>4. /\ m.token = NULL /\ m.status = "success"
        /\ m.finished = now
        /\ m.attempts = ended.attempts
        /\ SameFrame(m, ended)
        /\ m.report.status = IF reports /\ ended.methods # 0 THEN "pending"
                             ELSE ended.report.status
    BY <2>1, <2>2, <2>3, StartedFields DEF SameFrame
  <2> QED
    BY <1>1, <1>3, <1>5, <2>2, <2>4
       DEF SameFrame, SameOutcome, reports, m, e
<1> QED
  BY <1>4, <1>5

\* A success comes within the deadline and starts the report it owes.
LEMMA SucceededFollows ==
    ASSUME NEW job, RowInv(job), RowKept(job), job.token # NULL,
           NEW now \in Time, now < job.deadline,
           now >= job.attempts[Newest(job)].started
    PROVE  /\ RowKept(Succeeded(job, now))
           /\ LogKept(job, Succeeded(job, now))
           /\ KeepsIt(job, Succeeded(job, now))
<1> DEFINE e == EndAttempt(job, "succeeded", now)
           m == Succeeded(job, now)
           reports == /\ job.replay = NULL \/ job.replay.reportSuccess
                      /\ job.methods # 0
<1>1. /\ m.token = NULL
      /\ m.status = "success"
      /\ m.attempts = e.attempts
      /\ SameFrame(m, job)
      /\ KeepsOldSuccess(job) => SameOutcome(m, job)
      /\ ~KeepsOldSuccess(job) =>
            m.report.status = IF reports THEN "pending" ELSE job.report.status
  BY SucceededFields
<1>2. "succeeded" \in Outcomes
  BY DEF Outcomes
<1>3. /\ \A k \in DOMAIN e.attempts : EndedInTime(e.attempts[k], e.maxRun)
      /\ DeadlineOfNewest(e)
      /\ SameFrame(e, job)
      /\ LogKept(job, e)
  BY <1>2, EndedTimely, EndedFields, EndedLog DEF RowKept
<1> HIDE DEF e, m
<1>4. Timely(m)
  <2>1. SameFrame(m, e)
    BY <1>1, <1>3 DEF SameFrame
  <2> QED
    BY <1>1, <1>3, <2>1, SettledTimely
<1>5. BudgetKept(m) /\ NewIsEmpty(m) /\ KeptIsNotLost(m)
  BY <1>1 DEF BudgetKept, WithinBudget, NewIsEmpty, KeptIsNotLost
<1>6. ReportMatchesStatus(m)
  <2> SUFFICES ASSUME m.replay = NULL, m.methods > 0
               PROVE  m.report.status # NULL
    BY <1>1 DEF ReportMatchesStatus
  <2>1. /\ ~KeepsOldSuccess(job)
        /\ job.replay = NULL /\ job.methods # 0
    BY <1>1 DEF SameFrame, KeepsOldSuccess
  <2>2. m.report.status = "pending"
    BY <1>1, <2>1
  <2> QED
    BY <2>2, NullIsNoString DEF ReportStatuses
<1>7. LogKept(job, m)
  BY <1>1, <1>3, SameLog, LogKeptTwice
<1>8. KeepsIt(job, m)
  BY <1>1 DEF KeepsIt, SameOutcome
<1> QED
  BY <1>4, <1>5, <1>6, <1>7, <1>8 DEF RowKept, m

\* A worker's own failure comes within the deadline as well.
LEMMA ReportedFailureFollows ==
    ASSUME NEW job, RowInv(job), RowKept(job), job.token # NULL,
           NEW now \in Time, now < job.deadline,
           now >= job.attempts[Newest(job)].started
    PROVE  /\ RowKept(Failed(job, now))
           /\ LogKept(job, Failed(job, now))
           /\ KeepsIt(job, Failed(job, now))
<1>1. "failed" \in Outcomes \cap JobErrors
  BY DEF Outcomes, JobErrors
<1>2. job.deadline \in Nat /\ now \in Nat
  BY LeasedTimes DEF RowKept, Time
<1>3. ~(now >= job.deadline)
  BY <1>2
<1> QED
  BY <1>1, <1>3, FallenKept, FallenOutcome DEF Failed

\* A release gives the attempt back.
LEMMA ReleasedFollows ==
    ASSUME NEW job, RowInv(job), RowKept(job), job.token # NULL,
           NEW now \in Time, now < job.deadline,
           now >= job.attempts[Newest(job)].started
    PROVE  /\ RowKept(Released(job, now))
           /\ LogKept(job, Released(job, now))
           /\ KeepsIt(job, Released(job, now))
<1> DEFINE e == EndAttempt(job, "released", now)
           idle == Unleased(e)
           n == Newest(job)
           m == Released(job, now)
<1>1. "released" \in Outcomes /\ job.status = "running"
  BY LeasedTimes DEF Outcomes, RowKept
<1>2. /\ e \in Job /\ SameFrame(e, job) /\ SameOutcome(e, job)
      /\ Newest(e) = n
      /\ LogKept(job, e)
  BY <1>1, EndedFields, EndedLog
<1>3. e.attempts[n].outcome = "released"
  BY <1>1, EndedFields, AttemptClosed
<1>4. /\ \A k \in DOMAIN e.attempts : EndedInTime(e.attempts[k], e.maxRun)
      /\ DeadlineOfNewest(e)
      /\ e.requeued # NULL => now >= e.requeued
  BY <1>1, EndedTimely DEF RowKept
<1>5. job.requeued = NULL => UsedAttempts(e) = UsedAttempts(job)
  BY <1>1, EndedSpent
<1>6. ~ReportBusy(job) /\ (KeepsOldSuccess(job) \/ job.report.status = NULL)
  BY <1>1, RunningReport DEF RowKept
<1>7. m = [idle EXCEPT !.status = "pending", !.available = now]
  BY DEF Released
<1> HIDE DEF e, m
<1>8. /\ idle \in Job /\ idle.token = NULL
      /\ idle.attempts = e.attempts
      /\ SameFrame(idle, e) /\ SameOutcome(idle, e)
  BY <1>2, UnleasedFields
<1> HIDE DEF idle
<1>9. /\ m.token = NULL /\ m.status = "pending" /\ m.available = now
      /\ m.attempts = idle.attempts
      /\ SameFrame(m, idle) /\ SameOutcome(m, idle)
  BY <1>7, <1>8 DEF Job, SameFrame, SameOutcome
<1>10. /\ m.attempts = e.attempts
       /\ SameFrame(m, e) /\ SameFrame(m, job) /\ SameOutcome(m, job)
  BY <1>2, <1>8, <1>9 DEF SameFrame, SameOutcome
<1>11. Timely(m)
  BY <1>4, <1>9, <1>10, SettledTimely
<1>12. BudgetKept(m)
  <2>1. UsedAttempts(m) = UsedAttempts(e)
    BY <1>10, SameSpent DEF SameFrame
  <2> QED
    BY <1>1, <1>5, <1>9, <1>10, <2>1
       DEF RowKept, BudgetKept, WithinBudget, SameFrame
<1>13. ReportMatchesStatus(m)
  BY <1>6, <1>9, <1>10
     DEF ReportMatchesStatus, ReportBusy, KeepsOldSuccess, SameFrame, SameOutcome
<1>14. NewIsEmpty(m) /\ KeptIsNotLost(m)
  <2>1. Newest(m) = n
    BY <1>2, <1>10 DEF Newest
  <2> HIDE DEF n
  <2> QED
    BY <1>3, <1>9, <1>10, <2>1 DEF NewIsEmpty, KeptIsNotLost
<1>15. LogKept(job, m)
  BY <1>2, <1>10, SameLog, LogKeptTwice
<1>16. KeepsIt(job, m)
  BY <1>9, <1>10 DEF KeepsIt, SameOutcome
<1> QED
  BY <1>11, <1>12, <1>13, <1>14, <1>15, <1>16 DEF RowKept, m

-----------------------------------------------------------------------------
(* What operators and claims do to a row. *)

\* A row that nobody writes.
LEMMA SameFollows ==
    ASSUME NEW job, RowKept(job)
    PROVE  Follows(job, job)
  BY DEF Follows, LogStep, KeepsIt

\* A cancel ends the run, if there is one, at any reading of the clock.
LEMMA CancelledFollows ==
    ASSUME NEW job, RowInv(job), RowKept(job),
           job.status \in {"pending", "running"}, NEW now \in Time
    PROVE  Follows(job, Cancelled(job, now))
<1> DEFINE closed == IF job.token = NULL THEN job
                     ELSE EndAttempt(job, "cancelled", now)
           idle == Unleased(closed)
           m == Cancelled(job, now)
<1>1. "cancelled" \in Outcomes
  BY DEF Outcomes
<1>2. /\ closed \in Job /\ SameFrame(closed, job) /\ SameOutcome(closed, job)
      /\ LogKept(job, closed)
      /\ \A k \in DOMAIN closed.attempts :
            EndedInTime(closed.attempts[k], closed.maxRun)
      /\ DeadlineOfNewest(closed)
  <2>1. CASE job.token = NULL
    <3>1. closed = job
      BY <2>1
    <3> QED
      BY <3>1, SameLog DEF RowInv, RowKept, Timely, SameFrame, SameOutcome
  <2>2. CASE job.token # NULL
    <3>1. closed = EndAttempt(job, "cancelled", now)
      BY <2>2
    <3> QED
      BY <1>1, <2>2, <3>1, EndedFields, EndedLog, EndedTimely DEF RowKept
  <2> QED
    BY <2>1, <2>2
<1>3. ~ReportBusy(job) /\ (KeepsOldSuccess(job) \/ job.report.status = NULL)
  BY RunningReport DEF RowKept
<1>4. m = IF KeepsOldSuccess(job) THEN RestoreSuccess(closed)
          ELSE [idle EXCEPT !.status = "cancelled", !.result = NULL,
                            !.finished = now]
  BY DEF Cancelled
<1> HIDE DEF closed, m
<1>5. /\ idle \in Job /\ idle.token = NULL
      /\ idle.attempts = closed.attempts
      /\ SameFrame(idle, closed) /\ SameOutcome(idle, closed)
  BY <1>2, UnleasedFields
<1> HIDE DEF idle
<1>6. /\ m.token = NULL
      /\ m.attempts = closed.attempts
      /\ SameFrame(m, closed)
      /\ m.report = closed.report
      /\ \/ KeepsOldSuccess(job) /\ m.status = "success" /\ SameOutcome(m, closed)
         \/ ~KeepsOldSuccess(job) /\ m.status = "cancelled"
  <2>1. CASE KeepsOldSuccess(job)
    <3>1. m = RestoreSuccess(closed)
      BY <1>4, <2>1
    <3> QED
      BY <1>2, <2>1, <3>1, RestoredFields DEF SameOutcome
  <2>2. CASE ~KeepsOldSuccess(job)
    <3>1. m = [idle EXCEPT !.status = "cancelled", !.result = NULL,
                           !.finished = now]
      BY <1>4, <2>2
    <3>2. /\ m.token = NULL /\ m.status = "cancelled"
          /\ m.attempts = idle.attempts /\ m.report = idle.report
          /\ SameFrame(m, idle)
      BY <1>5, <3>1 DEF Job, SameFrame
    <3> QED
      BY <1>5, <2>2, <3>2 DEF SameFrame, SameOutcome
  <2> QED
    BY <2>1, <2>2
<1>7. Timely(m)
  BY <1>2, <1>6, SettledTimely
<1>8. BudgetKept(m) /\ NewIsEmpty(m) /\ KeptIsNotLost(m)
  BY <1>6 DEF BudgetKept, WithinBudget, NewIsEmpty, KeptIsNotLost
<1>9. ReportMatchesStatus(m)
  <2>1. m.report = job.report /\ m.replay = job.replay
    BY <1>2, <1>6 DEF SameFrame, SameOutcome
  <2> QED
    BY <1>3, <1>6, <2>1, NullIsNoString
       DEF ReportMatchesStatus, ReportBusy, KeepsOldSuccess, ReportStatuses
<1>10. LogStep(job, m)
  BY <1>2, <1>6, SameLog, LogKeptTwice, KeptLogIsAStep
<1>11. KeepsIt(job, m)
  BY <1>2, <1>6 DEF KeepsIt, SameOutcome
<1> QED
  BY <1>7, <1>8, <1>9, <1>10, <1>11 DEF Follows, RowKept, m

\* A retry counts from now on and owes no report.
LEMMA RetriedFollows ==
    ASSUME NEW job, RowInv(job), RowKept(job),
           job.status \in {"failed", "cancelled"}, NEW now \in Time
    PROVE  Follows(job, Retried(job, now))
<1> DEFINE m == Retried(job, now)
<1>1. job \in Job /\ job.token = NULL
  BY IdleRow DEF RowInv
<1>2. now # NULL /\ now \in Nat
  BY NullAssumption DEF Time
<1>3. /\ m.status = "pending" /\ m.token = NULL
      /\ m.available = now /\ m.requeued = now
      /\ m.deadline = NULL /\ m.replay = NULL
      /\ m.report = NoReport
      /\ m.maxRun = job.maxRun
      /\ m.attempts = job.attempts
  BY <1>1 DEF Retried, Job
<1> HIDE DEF m
<1>4. Timely(m)
  BY <1>2, <1>3 DEF RowKept, Timely, DeadlineOfNewest
<1>5. BudgetKept(m) /\ NewIsEmpty(m) /\ KeptIsNotLost(m)
  BY <1>2, <1>3 DEF BudgetKept, WithinBudget, NewIsEmpty, KeptIsNotLost
<1>6. ReportMatchesStatus(m)
  BY <1>3, NoReportIsAReport, NullIsNoString
     DEF ReportMatchesStatus, ReportBusy, ReportStatuses
<1>7. LogStep(job, m) /\ KeepsIt(job, m)
  BY <1>3, SameLog, KeptLogIsAStep DEF KeepsIt
<1> QED
  BY <1>4, <1>5, <1>6, <1>7 DEF Follows, RowKept, m

\* So does a replay, but for the report of a success that it keeps.
LEMMA ReplayedFollows ==
    ASSUME NEW job, RowInv(job), RowKept(job), job.status = "success",
           ~ReportBusy(job), NEW options \in ReplayOptions, NEW now \in Time
    PROVE  Follows(job, Replayed(job, options, now))
<1> DEFINE m == Replayed(job, options, now)
<1>1. job \in Job /\ job.token = NULL
  BY IdleRow DEF RowInv
<1>2. now # NULL /\ now \in Nat /\ options # NULL
  BY NullAssumption DEF Time
<1>3. /\ m.status = "pending" /\ m.token = NULL
      /\ m.available = now /\ m.requeued = now
      /\ m.deadline = NULL /\ m.replay = options
      /\ m.maxRun = job.maxRun
      /\ m.attempts = job.attempts
  BY <1>1 DEF Replayed, Job
<1>4. m.report = IF options.overwrite THEN NoReport ELSE job.report
  BY <1>1 DEF Replayed, Job
<1> HIDE DEF m
<1>5. Timely(m)
  BY <1>2, <1>3 DEF RowKept, Timely, DeadlineOfNewest
<1>6. BudgetKept(m) /\ NewIsEmpty(m) /\ KeptIsNotLost(m)
  BY <1>2, <1>3 DEF BudgetKept, WithinBudget, NewIsEmpty, KeptIsNotLost
<1>7. ReportMatchesStatus(m)
  <2>1. CASE options.overwrite
    BY <1>3, <1>4, <2>1, NoReportIsAReport, NullIsNoString
       DEF ReportMatchesStatus, ReportBusy, ReportStatuses
  <2>2. CASE ~options.overwrite
    <3>1. KeepsOldSuccess(m) /\ m.report = job.report
      BY <1>2, <1>3, <1>4, <2>2 DEF KeepsOldSuccess
    <3> QED
      BY <1>3, <3>1 DEF ReportMatchesStatus, ReportBusy
  <2> QED
    BY <2>1, <2>2
<1>8. LogStep(job, m) /\ KeepsIt(job, m)
  BY <1>3, SameLog, KeptLogIsAStep DEF KeepsIt
<1> QED
  BY <1>5, <1>6, <1>7, <1>8 DEF Follows, RowKept, m

\* A new priority changes nothing else.
LEMMA PrioritisedFollows ==
    ASSUME NEW job, RowInv(job), RowKept(job), NEW priority \in Int
    PROVE  Follows(job, [job EXCEPT !.priority = priority])
<1> DEFINE m == [job EXCEPT !.priority = priority]
<1>1. job \in Job
  BY DEF RowInv
<1>2. /\ m.status = job.status /\ m.token = job.token
      /\ m.until = job.until /\ m.available = job.available
      /\ m.attempts = job.attempts
      /\ SameFrame(m, job) /\ SameOutcome(m, job)
  BY <1>1 DEF Job, SameFrame, SameOutcome
<1> HIDE DEF m
<1>3. Newest(m) = Newest(job) /\ UsedAttempts(m) = UsedAttempts(job)
  BY <1>2, SameSpent DEF Newest, SameFrame
<1>4. Timely(m)
  BY <1>2, <1>3 DEF RowKept, Timely, DeadlineOfNewest, SameFrame
<1>5. BudgetKept(m) /\ NewIsEmpty(m) /\ KeptIsNotLost(m)
  BY <1>2, <1>3 DEF RowKept, BudgetKept, WithinBudget, NewIsEmpty,
                    KeptIsNotLost, KeepsOldSuccess, SameFrame
<1>6. ReportMatchesStatus(m)
  BY <1>2 DEF RowKept, ReportMatchesStatus, ReportBusy, KeepsOldSuccess,
              SameFrame, SameOutcome
<1>7. LogStep(job, m) /\ KeepsIt(job, m)
  BY <1>2, SameLog, KeptLogIsAStep DEF KeepsIt, SameOutcome
<1> QED
  BY <1>4, <1>5, <1>6, <1>7 DEF Follows, RowKept, m

\* A row without attempts: a new job, or none.
LEMMA EmptyKept ==
    ASSUME NEW job \in Job, job.attempts = << >>, job.token = NULL,
           job.deadline = NULL, job.requeued = NULL, job.maxAttempt > 0,
           job.report = NoReport, job.status \in {"none", "pending", "deleted"}
    PROVE  RowKept(job)
<1>1. Timely(job)
  BY DEF Timely, DeadlineOfNewest
<1>2. UsedAttempts(job) = 0
  <2>1. Spent(job) = {}
    BY DEF Spent
  <2> QED
    BY <2>1, SpentIsFinite, FS_EmptySet
<1>3. BudgetKept(job)
  BY <1>2 DEF BudgetKept, WithinBudget
<1>4. ReportMatchesStatus(job)
  BY NoReportIsAReport, NullIsNoString
     DEF ReportMatchesStatus, ReportBusy, ReportStatuses
<1>5. NewIsEmpty(job) /\ KeptIsNotLost(job)
  BY DEF NewIsEmpty, KeptIsNotLost
<1> QED
  BY <1>1, <1>3, <1>4, <1>5 DEF RowKept

\* The row create_job inserts.
LEMMA NewKept ==
    ASSUME NEW type \in Types, NEW priority \in Int,
           NEW maxAttempt \in Nat \ {0}, NEW maxRun \in Nat,
           NEW methods \in Nat, NEW now \in Time
    PROVE  RowKept(NewJob(type, priority, maxAttempt, maxRun, methods, now))
<1> DEFINE m == NewJob(type, priority, maxAttempt, maxRun, methods, now)
<1>1. m \in Job
  BY NewRow DEF Unowned, RowInv
<1>2. /\ m.attempts = << >> /\ m.token = NULL /\ m.deadline = NULL
      /\ m.requeued = NULL /\ m.maxAttempt > 0 /\ m.report = NoReport
      /\ m.status = "pending"
  BY DEF NewJob
<1> HIDE DEF m
<1>3. RowKept(m)
  BY <1>1, <1>2, EmptyKept
<1> QED
  BY <1>3 DEF m

\* An id that is not in the table.
LEMMA AbsentKept ==
    ASSUME NEW status \in {"none", "deleted"}
    PROVE  RowKept(Absent(status))
<1> DEFINE m == Absent(status)
           type == CHOOSE t \in Types : TRUE
           new == NewJob(type, 0, 1, 1, 0, 0)
<1>1. m \in Job
  BY AbsentRow, StoreAssumption DEF Unowned, RowInv
<1>2. m = [new EXCEPT !.status = status]
  BY DEF Absent
<1> HIDE DEF type
<1>3. /\ m.attempts = << >> /\ m.token = NULL /\ m.deadline = NULL
      /\ m.requeued = NULL /\ m.maxAttempt > 0 /\ m.report = NoReport
      /\ m.status = status
  BY <1>2 DEF NewJob
<1> HIDE DEF m
<1>4. RowKept(m)
  BY <1>1, <1>3, EmptyKept
<1> QED
  BY <1>4 DEF m

\* A job that is deleted or purged is over.
LEMMA DeletedFollows ==
    ASSUME NEW job, IsTerminal(job)
    PROVE  Follows(job, Absent("deleted"))
<1>1. Absent("deleted").status = "deleted"
  BY DEF Absent, NewJob
<1> QED
  BY <1>1, AbsentKept DEF Follows, LogStep, KeepsIt, IsTerminal, TerminalStatuses

\* The attempt that a claim adds counts when it ends.
LEMMA ClaimedSpent ==
    ASSUME NEW job \in Job, NEW w, NEW now
    PROVE  UsedAttempts(Claimed(job, w, now)) = UsedAttempts(job)
<1> DEFINE attempt == [worker |-> w, outcome |-> NULL, started |-> now,
                       ended |-> NULL, replay |-> job.replay # NULL]
           log == Append(job.attempts, attempt)
           n == Newest(job)
           m == Claimed(job, w, now)
<1>1. job.attempts \in Seq(Attempt) /\ n \in Nat /\ DOMAIN job.attempts = 1..n
  BY DEF Job, Newest
<1>2. /\ DOMAIN log = 1..(n + 1) /\ log[n + 1] = attempt
      /\ \A k \in 1..n : log[k] = job.attempts[k]
  BY <1>1 DEF Newest
<1>3. attempt.outcome = NULL
  OBVIOUS
<1>4. m.attempts = log /\ m.requeued = job.requeued
  BY <1>1 DEF Claimed, Job
<1>5. \A k : k \in 1..(n + 1) <=> k \in 1..n \/ k = n + 1
  BY <1>1
<1>6. n + 1 \notin 1..n
  BY <1>1
<1> HIDE DEF m, log, attempt, n
<1>7. Spent(m) = Spent(job)
  BY <1>1, <1>2, <1>3, <1>4, <1>5, <1>6 DEF Spent
<1> QED
  BY <1>7 DEF Spent, UsedAttempts, m

\* A claim waits for available_at, so the attempt it adds starts no earlier
\* than the requeue.
LEMMA ClaimedFollows ==
    ASSUME NEW job, RowInv(job), RowKept(job), job.status = "pending",
           NEW w \in Workers, NEW now \in Time, job.available <= now
    PROVE  Follows(job, Claimed(job, w, now))
<1> DEFINE n == Newest(job)
           deadline == now + job.maxRun
           until == Min2(now + JobLeaseMs, deadline)
           attempt == [worker |-> w, outcome |-> NULL, started |-> now,
                       ended |-> NULL, replay |-> job.replay # NULL]
           log == Append(job.attempts, attempt)
           m == Claimed(job, w, now)
<1>1. /\ job \in Job /\ n \in Nat /\ now \in Nat /\ job.maxRun \in Nat
      /\ job.attempts \in Seq(Attempt) /\ n = Len(job.attempts)
      /\ DOMAIN job.attempts = 1..n
      /\ job.requeued # NULL => job.requeued \in Nat
      /\ job.available \in Nat
  BY DEF RowInv, Job, Newest, Time
<1>2. attempt.outcome = NULL /\ attempt.started = now
  OBVIOUS
<1>3. until \in now..deadline
  BY <1>1, SettingsAssumption DEF Min2
<1>4. /\ Len(log) = n + 1
      /\ DOMAIN log = 1..(n + 1)
      /\ log[n + 1] = attempt
      /\ \A k \in 1..n : log[k] = job.attempts[k]
  BY <1>1
<1>5. m = [job EXCEPT !.status = "running", !.worker = w, !.token = n + 1,
                      !.deadline = deadline, !.until = until, !.started = now,
                      !.attempts = log]
  BY <1>1 DEF Claimed, attempt, Job
<1> HIDE DEF deadline, until, log, attempt
<1>6. /\ m.status = "running" /\ m.token = n + 1
      /\ m.deadline = deadline /\ m.until = until
      /\ m.maxRun = job.maxRun /\ m.maxAttempt = job.maxAttempt
      /\ m.requeued = job.requeued /\ m.replay = job.replay
      /\ m.methods = job.methods
      /\ m.attempts = log
      /\ SameOutcome(m, job)
  BY <1>1, <1>5 DEF Job, SameOutcome
<1>7. m \in Job /\ Newest(m) = n + 1
  BY <1>4, <1>6, ClaimedRow DEF RowInv, Newest
<1> HIDE DEF m
<1>8. Timely(m)
  <2>1. EndedInTime(attempt, job.maxRun)
    BY <1>2, NullIsNoString DEF EndedInTime, Outcomes
  <2>2. \A k \in DOMAIN m.attempts : EndedInTime(m.attempts[k], m.maxRun)
    <3>1. \A k \in 1..n : EndedInTime(job.attempts[k], job.maxRun)
      BY <1>1 DEF RowKept, Timely
    <3>2. \A k \in 1..(n + 1) : k \in 1..n \/ k = n + 1
      BY <1>1
    <3> QED
      BY <1>4, <1>6, <2>1, <3>1, <3>2
  <2>3. job.requeued # NULL => now >= job.requeued
    <3>1. job.requeued # NULL => job.available >= job.requeued
      BY DEF RowKept, Timely
    <3> QED
      BY <1>1, <3>1
  <2>4. m.attempts[Newest(m)].started = now /\ Newest(m) > 0
    BY <1>1, <1>2, <1>4, <1>6, <1>7
  <2>5. DeadlineOfNewest(m)
    BY <1>6, <2>3, <2>4 DEF DeadlineOfNewest, deadline
  <2> QED
    BY <1>3, <1>6, <2>2, <2>4, <2>5 DEF Timely
<1>9. BudgetKept(m)
  <2>1. UsedAttempts(m) = UsedAttempts(job)
    BY <1>1, ClaimedSpent DEF m
  <2> QED
    BY <1>6, <2>1 DEF RowKept, BudgetKept, WithinBudget
<1>10. ReportMatchesStatus(m)
  <2>1. ~ReportBusy(job) /\ (KeepsOldSuccess(job) \/ job.report.status = NULL)
    BY RunningReport DEF RowKept
  <2> QED
    BY <1>6, <2>1
       DEF ReportMatchesStatus, ReportBusy, KeepsOldSuccess, SameOutcome
<1>11. NewIsEmpty(m) /\ KeptIsNotLost(m)
  BY <1>6 DEF NewIsEmpty, KeptIsNotLost
<1>12. LogStep(job, m) /\ KeepsIt(job, m)
  <2>1. \A k \in DOMAIN job.attempts :
           k \in DOMAIN m.attempts /\ m.attempts[k] = job.attempts[k]
    BY <1>1, <1>4, <1>6
  <2> QED
    BY <1>6, <2>1 DEF LogStep, KeepsIt, SameOutcome
<1> QED
  BY <1>8, <1>9, <1>10, <1>11, <1>12 DEF Follows, RowKept, m

-----------------------------------------------------------------------------
(* The table. *)

\* One row is written, the others stay.
LEMMA OneFollows ==
    ASSUME IInv, RowsKept, NEW j \in Jobs, NEW row, Follows(jobs[j], row),
           Update(j, row)
    PROVE  \A k \in Jobs : Follows(jobs[k], jobs'[k])
<1>1. jobs \in [Jobs -> Job] /\ jobs' = [jobs EXCEPT ![j] = row]
  BY DEF IInv, TypeOK, Update
<1>2. \A k \in Jobs : jobs'[k] = IF k = j THEN row ELSE jobs[k]
  BY <1>1
<1>3. \A k \in Jobs : Follows(jobs[k], jobs[k])
  BY SameFollows DEF RowsKept
<1> QED
  BY <1>2, <1>3

\* No row is written.
LEMMA NoneFollows ==
    ASSUME RowsKept, UNCHANGED jobs
    PROVE  \A k \in Jobs : Follows(jobs[k], jobs'[k])
  BY SameFollows DEF RowsKept

\* What the worker of an attempt asks comes after its claim.
LEMMA HolderFollows ==
    ASSUME IInv, RowsKept, HolderStep
    PROVE  \A k \in Jobs : Follows(jobs[k], jobs'[k])
<1> DEFINE Asks(j, w, token, now) == \/ HeartbeatJob(j, w, token, now)
                                     \/ FinishSuccess(j, w, token, now)
                                     \/ FinishFailure(j, w, token, now)
                                     \/ ReleaseJob(j, w, token, now)
<1>1. PICK j \in Jobs, w \in Workers :
        \E token \in DOMAIN jobs[j].attempts :
            \E now \in HolderNows(j, token) : Asks(j, w, token, now)
  BY DEF HolderStep
<1>2. PICK token \in DOMAIN jobs[j].attempts :
        \E now \in HolderNows(j, token) : Asks(j, w, token, now)
  BY <1>1
<1>3. PICK now \in HolderNows(j, token) : Asks(j, w, token, now)
  BY <1>2
<1> DEFINE job == jobs[j]
           h == Hold(job, w, token, now)
<1>4. /\ RowInv(job) /\ RowKept(job)
      /\ now \in Time
      /\ now >= job.attempts[token].started
  <2>1. now \in Nows /\ job.attempts[token].started <= now
    BY DEF HolderNows
  <2>2. now \in Time
    BY <2>1, NowsAreTimes DEF IInv
  <2>3. RowInv(job) /\ RowKept(job)
    BY DEF IInv, RowsKept
  <2>4. job.attempts[token] \in Attempt
    BY <2>3 DEF RowInv, Job
  <2>5. job.attempts[token].started \in Nat
    BY <2>4 DEF Attempt, Time
  <2> QED
    BY <2>1, <2>2, <2>3, <2>5 DEF Time
<1>5. \/ CanHold(job, w, token, now)
      \/ CanReclaim(job, w, token, now, Registered)
  BY <1>3 DEF HeartbeatJob, FinishSuccess, FinishFailure, ReleaseJob, HoldOrReclaim
<1>6. /\ RowInv(h) /\ RowKept(h) /\ LogKept(job, h)
      /\ h.token # NULL
      /\ now < h.deadline
      /\ now >= h.attempts[Newest(h)].started
      /\ KeepsOldSuccess(job) => h = job
  BY <1>4, <1>5, HeldKept
<1>7. PICK row \in {Beaten(h, now), Succeeded(h, now), Failed(h, now),
                    Released(h, now)} : Update(j, row)
  BY <1>3 DEF HeartbeatJob, FinishSuccess, FinishFailure, ReleaseJob
<1> HIDE DEF job, h
<1>8. RowKept(row) /\ LogKept(h, row) /\ KeepsIt(h, row)
  BY <1>4, <1>6, <1>7, BeatenFollows, SucceededFollows, ReportedFailureFollows,
     ReleasedFollows
<1>9. LogStep(job, row)
  BY <1>6, <1>8, LogKeptTwice, KeptLogIsAStep
<1>10. KeepsIt(job, row)
  BY <1>6, <1>8 DEF KeepsIt
<1>11. Follows(job, row)
  BY <1>8, <1>9, <1>10 DEF Follows
<1> QED
  BY <1>7, <1>11, OneFollows DEF job

\* A claim takes a pending job that is available.
LEMMA ClaimFollows ==
    ASSUME IInv, RowsKept, ClaimStep
    PROVE  \A k \in Jobs : Follows(jobs[k], jobs'[k])
<1>1. PICK w \in Workers, type \in Types, j \in Jobs, now \in Nows :
        ClaimJob(w, type, j, now)
  BY DEF ClaimStep
<1>2. /\ jobs[j].status = "pending" /\ jobs[j].available <= now
      /\ Update(j, Claimed(jobs[j], w, now))
  BY <1>1 DEF ClaimJob, Claimable
<1>3. RowInv(jobs[j]) /\ RowKept(jobs[j]) /\ now \in Time
  BY NowsAreTimes DEF IInv, RowsKept
<1>4. Follows(jobs[j], Claimed(jobs[j], w, now))
  BY <1>2, <1>3, ClaimedFollows
<1> QED
  BY <1>2, <1>4, OneFollows

\* What providers and operators do.
LEMMA OperatorFollows ==
    ASSUME IInv, RowsKept, OperatorStep
    PROVE  \A k \in Jobs : Follows(jobs[k], jobs'[k])
<1>1. PICK j \in Jobs, now \in Nows :
        \/ \E type \in Types, priority \in Priorities, maxRun \in MaxRuns,
              maxAttempt \in MaxAttempts, methods \in MethodCounts :
                CreateJob(j, type, priority, maxAttempt, maxRun, methods, now)
        \/ CancelJob(j, now)
        \/ RetryJob(j, now)
        \/ \E options \in Replays : ReplayJob(j, options, now)
        \/ \E priority \in Priorities : SetPriority(j, priority)
        \/ DeleteJob(j)
  BY DEF OperatorStep
<1>2. RowInv(jobs[j]) /\ RowKept(jobs[j]) /\ now \in Time
  BY NowsAreTimes DEF IInv, RowsKept
<1>3. ASSUME NEW type \in Types, NEW priority \in Priorities,
             NEW maxRun \in MaxRuns, NEW maxAttempt \in MaxAttempts,
             NEW methods \in MethodCounts,
             CreateJob(j, type, priority, maxAttempt, maxRun, methods, now)
      PROVE  \E row : Follows(jobs[j], row) /\ Update(j, row)
  <2> DEFINE row == NewJob(type, priority, maxAttempt, maxRun, methods, now)
  <2>1. jobs[j].status = "none" /\ Update(j, row)
    BY <1>3 DEF CreateJob
  <2>2. /\ priority \in Int /\ maxAttempt \in Nat \ {0} /\ maxRun \in Nat
        /\ methods \in Nat
    BY StoreAssumption
  <2>3. RowKept(row)
    BY <1>2, <2>2, NewKept
  <2> HIDE DEF row
  <2>4. jobs[j].attempts = << >>
    BY <1>2, <2>1 DEF RowKept, NewIsEmpty
  <2>5. LogStep(jobs[j], row) /\ KeepsIt(jobs[j], row)
    BY <2>1, <2>4 DEF LogStep, KeepsIt
  <2> QED
    BY <2>1, <2>3, <2>5 DEF Follows
<1>4. CASE CancelJob(j, now)
  BY <1>2, <1>4, CancelledFollows, OneFollows DEF CancelJob
<1>5. CASE RetryJob(j, now)
  BY <1>2, <1>5, RetriedFollows, OneFollows DEF RetryJob
<1>6. ASSUME NEW options \in Replays, ReplayJob(j, options, now)
      PROVE  \E row : Follows(jobs[j], row) /\ Update(j, row)
  <2>1. options \in ReplayOptions
    BY StoreAssumption
  <2> QED
    BY <1>2, <1>6, <2>1, ReplayedFollows DEF ReplayJob
<1>7. ASSUME NEW priority \in Priorities, SetPriority(j, priority)
      PROVE  \E row : Follows(jobs[j], row) /\ Update(j, row)
  <2>1. priority \in Int
    BY StoreAssumption
  <2> QED
    BY <1>2, <1>7, <2>1, PrioritisedFollows DEF SetPriority
<1>8. CASE DeleteJob(j)
  <2>1. IsTerminal(jobs[j]) /\ Update(j, Absent("deleted"))
    BY <1>8 DEF DeleteJob
  <2>2. Follows(jobs[j], Absent("deleted"))
    BY <2>1, DeletedFollows
  <2> QED
    BY <2>1, <2>2, OneFollows
<1> QED
  BY <1>1, <1>3, <1>4, <1>5, <1>6, <1>7, <1>8, OneFollows

\* What the cleaner does, to any number of rows at once.
LEMMA CleanerFollows ==
    ASSUME IInv, RowsKept, CleanerStep
    PROVE  \A k \in Jobs : Follows(jobs[k], jobs'[k])
<1>1. ASSUME NEW now \in Nows, CleanupExpire(now)
      PROVE  \A k \in Jobs : Follows(jobs[k], jobs'[k])
  <2>1. now \in Time /\ \A k \in Jobs : RowInv(jobs[k]) /\ RowKept(jobs[k])
    BY NowsAreTimes DEF IInv, RowsKept
  <2>2. \A k \in Jobs : Follows(jobs[k], ExpireIfDue(jobs[k], now))
    BY <2>1, ExpiredKept, KeptLogIsAStep DEF Follows
  <2>3. \A k \in Jobs : jobs'[k] = ExpireIfDue(jobs[k], now)
    BY <1>1 DEF CleanupExpire
  <2> QED
    BY <2>2, <2>3
<1>2. CASE CleanupPurge
  <2>1. \A k \in Jobs : jobs'[k] = IF Purgeable(jobs[k], cleaner)
                                    THEN Absent("deleted") ELSE jobs[k]
    BY <1>2 DEF CleanupPurge
  <2>2. \A k \in Jobs : Purgeable(jobs[k], cleaner) =>
                            Follows(jobs[k], Absent("deleted"))
    BY DeletedFollows DEF Purgeable
  <2>3. \A k \in Jobs : Follows(jobs[k], jobs[k])
    BY SameFollows DEF RowsKept
  <2> QED
    BY <2>1, <2>2, <2>3
<1>3. CASE CleanupFails
  BY <1>3, NoneFollows DEF CleanupFails
<1> QED
  BY <1>1, <1>2, <1>3 DEF CleanerStep

\* Every step, on every row.
LEMMA RowsFollow == IInv /\ RowsKept /\ [Next]_vars =>
                        \A k \in Jobs : Follows(jobs[k], jobs'[k])
<1> SUFFICES ASSUME IInv, RowsKept, [Next]_vars
             PROVE  \A k \in Jobs : Follows(jobs[k], jobs'[k])
  OBVIOUS
<1>1. CASE WorkerStep \/ Tick \/ UNCHANGED vars
  <2>1. UNCHANGED jobs
    BY <1>1 DEF WorkerStep, RegisterWorker, HeartbeatWorker, DeleteWorker, Tick, vars
  <2> QED
    BY <2>1, NoneFollows
<1>2. CASE JobStep
  BY <1>2, ClaimFollows, HolderFollows, OperatorFollows DEF JobStep
<1>3. CASE CleanerStep
  BY <1>3, CleanerFollows
<1> QED
  BY <1>1, <1>2, <1>3 DEF Next

-----------------------------------------------------------------------------

\* The empty table keeps it all.
LEMMA RowsKeptAtFirst == Init => RowsKept
<1>1. RowKept(Absent("none"))
  BY AbsentKept
<1> QED
  BY <1>1 DEF Init, RowsKept

\* In every reachable state every row is well formed and keeps its deadline,
\* its budget, its report and its success: the invariant that the theorems
\* below rest on (be/store.py, every operation).
THEOREM RowsAlwaysKept == Spec => [](IInv /\ RowsKept)
<1>1. Init => IInv /\ RowsKept
  BY InitHolds, RowsKeptAtFirst
<1>2. IInv /\ RowsKept /\ [Next]_vars => (IInv /\ RowsKept)'
  BY NextHolds, RowsFollow DEF Follows, RowsKept
<1> QED
  BY <1>1, <1>2, PTL DEF Spec

\* However often a lease is renewed, expires and is reclaimed, no run goes past
\* the deadline of its claim, and no end that its worker reports is accepted at
\* or after it (_reclaim_lease, heartbeat_job, finish_job).
THEOREM DeadlineAlwaysRespected == Spec => []DeadlineRespected
<1>1. ASSUME NEW job, RowInv(job), RowKept(job)
      PROVE  RunsWithinDeadline(job)
  <2>1. job.token # NULL =>
           /\ job.deadline = job.attempts[Newest(job)].started + job.maxRun
           /\ job.until <= job.deadline
    <3> SUFFICES ASSUME job.token # NULL
                 PROVE  /\ job.deadline = job.attempts[Newest(job)].started
                                             + job.maxRun
                        /\ job.until <= job.deadline
      OBVIOUS
    <3>1. job.deadline # NULL
      BY <1>1 DEF RowInv, RowChecks, LeaseChecks
    <3> QED
      BY <1>1, <3>1, LeasedTimes DEF RowKept, Timely, DeadlineOfNewest
  <2> QED
    BY <1>1, <2>1 DEF RunsWithinDeadline, RowKept, Timely, EndedInTime
<1>2. IInv /\ RowsKept => DeadlineRespected
  BY <1>1 DEF IInv, RowsKept, DeadlineRespected
<1> QED
  BY <1>2, RowsAlwaysKept, PTL

\* A job that no operator requeued never starts a run when its attempts are
\* used up, whatever expires, is released or reclaimed in between
\* (_retry_or_fail, _reclaim_lease).
THEOREM BudgetAlwaysKept == Spec => []AttemptBudget
<1>1. IInv /\ RowsKept => AttemptBudget
  BY DEF RowsKept, RowKept, BudgetKept, AttemptBudget
<1> QED
  BY <1>1, RowsAlwaysKept, PTL

\* The run that a retry or a replay leads to starts no earlier than the requeue,
\* so it is counted and the exponent of the backoff is never negative
\* (claim_job waits for available_at, _retry_or_fail counts from requeued_at).
THEOREM BudgetAlwaysCountsNewest == Spec => []BudgetCountsNewest
<1>1. ASSUME NEW job, RowInv(job), RowKept(job)
      PROVE  StartsAfterRequeue(job)
  <2>1. job.status = "running" => job.deadline # NULL
    BY <1>1 DEF RowInv, RowChecks, LeaseChecks
  <2> QED
    BY <1>1, <2>1 DEF RowKept, Timely, DeadlineOfNewest, StartsAfterRequeue
<1>2. IInv /\ RowsKept => BudgetCountsNewest
  BY <1>1 DEF IInv, RowsKept, BudgetCountsNewest
<1> QED
  BY <1>2, RowsAlwaysKept, PTL

\* A report is owed only for an outcome that stands: neither a retry, a replay,
\* a reclaim nor a cancel leaves one behind (_start_report, _reclaim_lease,
\* retry_job, replay_job).
THEOREM ReportAlwaysForOutcome == Spec => []ReportOnlyForOutcome
<1>1. IInv /\ RowsKept => ReportOnlyForOutcome
  BY DEF RowsKept, RowKept, ReportOnlyForOutcome
<1> QED
  BY <1>1, RowsAlwaysKept, PTL

\* The attempt log is history: only the newest attempt of a job ever changes,
\* and once it ended only by the reclaim of the lease it lost (_reclaim_lease).
THEOREM HistoryAlwaysStable == Spec => HistoryStable
<1>1. IInv /\ RowsKept /\ [Next]_vars =>
         [\A j \in Jobs : LogStep(jobs[j], jobs[j]')]_vars
  BY RowsFollow DEF Follows
<1> QED
  BY <1>1, RowsAlwaysKept, PTL DEF Spec, HistoryStable

\* A replay without overwrite never loses the success it started from, however
\* and whenever its run ends (_restore_success).
THEOREM ReplayAlwaysKeepsSuccess == Spec => ReplayKeepsSuccess
<1> DEFINE Kept == \A j \in Jobs :
              jobs[j].status \in {"pending", "running"} /\ KeepsOldSuccess(jobs[j])
              => /\ jobs[j]'.status \in {"pending", "running", "success"}
                 /\ jobs[j]'.result = jobs[j].result
                 /\ jobs[j]'.finished = jobs[j].finished
<1>1. IInv /\ RowsKept /\ [Next]_vars => [Kept]_vars
  BY RowsFollow DEF Follows, KeepsIt
<1> HIDE DEF Kept
<1>2. Spec => [][Kept]_vars
  BY <1>1, RowsAlwaysKept, PTL DEF Spec
<1> QED
  BY <1>2 DEF Kept, ReplayKeepsSuccess

-----------------------------------------------------------------------------
(* What one transaction writes of a row that stays. *)

\* A finished job, or one that ends back at the success it had: finished_at is
\* the time of the outcome it has, or keeps.
Settled(job) == IsTerminal(job) \/ KeepsOldSuccess(job)

\* finished_at is that of an outcome decided now, or of the one there was.
FinishedBy(old, new, now) ==
    Settled(new) => \/ new.finished = now
                    \/ /\ new.finished = old.finished
                       /\ \/ IsTerminal(old) /\ new.attempts = old.attempts
                          \/ KeepsOldSuccess(old)

\* No attempt changes but the newest, if its claim has a deadline: it ends now,
\* with an outcome, or is opened again.
LogBy(old, new, now) ==
    \A k \in DOMAIN old.attempts :
        /\ k \in DOMAIN new.attempts
        /\ new.attempts[k].replay = old.attempts[k].replay
        /\ \/ new.attempts[k] = old.attempts[k]
           \/ /\ k = Newest(old) /\ old.deadline # NULL
              /\ \/ new.attempts[k].ended = now /\ new.attempts[k].outcome # NULL
                 \/ new.attempts[k].ended = NULL /\ new.attempts[k].outcome = NULL

\* A deadline is that of the newest attempt, and an attempt that is added is
\* open and of the replay there is.
RunBy(old, new) ==
    /\ new.deadline # NULL =>
          \/ /\ new.deadline = old.deadline /\ new.replay = old.replay
             /\ Newest(new) = Newest(old)
          \/ Newest(new) \in DOMAIN new.attempts \ DOMAIN old.attempts
    /\ \A k \in DOMAIN new.attempts \ DOMAIN old.attempts :
          /\ new.attempts[k].ended = NULL /\ new.attempts[k].outcome = NULL
          /\ new.attempts[k].replay = (new.replay # NULL)

Writes(old, new, now) ==
    /\ new.maxRun = old.maxRun
    /\ new.replay \in {old.replay, NULL} \cup Replays
    /\ FinishedBy(old, new, now)
    /\ LogBy(old, new, now)
    /\ RunBy(old, new)

\* How a run can end that its worker reported no end of.
Losses == {"lease_expired", "deadline_exceeded", "cancelled"}

\* No attempt ends but by a loss.
EndsByLoss(old, new) ==
    \A k \in DOMAIN old.attempts :
        new.attempts[k].outcome \in {old.attempts[k].outcome, NULL} \cup Losses

\* Closing or opening an attempt leaves alone whether it is a replay's.
LEMMA ClosedIsSameReplay ==
    ASSUME NEW a \in Attempt, NEW outcome, NEW ended
    PROVE  /\ Closed(a, outcome, ended).replay = a.replay
           /\ Closed(a, outcome, ended).ended = ended
           /\ Closed(a, outcome, ended).outcome = outcome
  BY DEF Closed, Attempt

\* A row that keeps its log, its frame and its finished_at.
LEMMA SameWrites ==
    ASSUME NEW old, NEW new, NEW now, SameFrame(new, old),
           new.attempts = old.attempts, new.finished = old.finished,
           IsTerminal(new) => IsTerminal(old)
    PROVE  Writes(old, new, now) /\ EndsByLoss(old, new)
<1>1. FinishedBy(old, new, now)
  BY DEF FinishedBy, Settled, KeepsOldSuccess, SameFrame
<1>2. RunBy(old, new)
  BY DEF RunBy, SameFrame, Newest
<1> QED
  BY <1>1, <1>2 DEF Writes, LogBy, EndsByLoss, SameFrame

\* Two operations of one transaction write as one does.
LEMMA WritesTwice ==
    ASSUME NEW a, NEW b, NEW c, NEW now, Writes(a, b, now), Writes(b, c, now),
           SameFrame(b, a), Newest(b) = Newest(a),
           DOMAIN b.attempts = DOMAIN a.attempts
    PROVE  Writes(a, c, now)
<1>1. KeepsOldSuccess(b) <=> KeepsOldSuccess(a)
  BY DEF SameFrame, KeepsOldSuccess
<1>2. b.deadline = a.deadline /\ b.replay = a.replay
  BY DEF SameFrame
<1>3. FinishedBy(a, c, now)
  BY <1>1 DEF Writes, FinishedBy, Settled
<1>4. LogBy(a, c, now)
  BY <1>2 DEF Writes, LogBy
<1>5. RunBy(a, c)
  BY <1>2 DEF Writes, RunBy
<1> QED
  BY <1>2, <1>3, <1>4, <1>5 DEF Writes

\* The end of a run, whatever else it decides.
LEMMA EndWrites ==
    ASSUME NEW job, RowInv(job), job.token # NULL, NEW outcome \in Outcomes,
           NEW now \in Time, NEW m,
           m.attempts = EndAttempt(job, outcome, now).attempts,
           SameFrame(m, job),
           Settled(m) => \/ m.finished = now
                         \/ KeepsOldSuccess(job) /\ m.finished = job.finished
    PROVE  /\ Writes(job, m, now)
           /\ DOMAIN m.attempts = DOMAIN job.attempts
           /\ \A k \in DOMAIN job.attempts :
                 m.attempts[k].outcome \in {job.attempts[k].outcome, outcome}
<1> DEFINE n == Newest(job)
           a == Closed(job.attempts[n], outcome, now)
<1>1. /\ n \in DOMAIN job.attempts /\ job.attempts[n] \in Attempt
      /\ Newest(m) = n
      /\ DOMAIN m.attempts = DOMAIN job.attempts
      /\ \A k \in DOMAIN job.attempts :
            m.attempts[k] = IF k = n THEN a ELSE job.attempts[k]
  BY EndedFields DEF Newest
<1>2. a.replay = job.attempts[n].replay /\ a.ended = now /\ a.outcome = outcome
  BY <1>1, ClosedIsSameReplay
<1>3. job.deadline # NULL
  BY DEF RowInv, RowChecks, LeaseChecks
<1> HIDE DEF a, n
<1>4. LogBy(job, m, now)
  BY <1>1, <1>2, <1>3, NullIsNoString DEF LogBy, n
<1>5. FinishedBy(job, m, now)
  BY DEF FinishedBy
<1>6. m.maxRun = job.maxRun /\ m.replay = job.replay
  BY DEF SameFrame
<1>7. \A k \in DOMAIN job.attempts :
         m.attempts[k].outcome \in {job.attempts[k].outcome, outcome}
  BY <1>1, <1>2
<1>8. RunBy(job, m)
  BY <1>1 DEF RunBy, SameFrame, n
<1> QED
  BY <1>1, <1>4, <1>5, <1>6, <1>7, <1>8 DEF Writes

\* A run that does not succeed.
LEMMA FallenWrites ==
    ASSUME NEW job, RowInv(job), job.token # NULL,
           NEW outcome \in Outcomes \cap JobErrors, NEW now \in Time
    PROVE  LET m == RetryOrFail(EndAttempt(job, outcome, now), outcome, now)
           IN  /\ Writes(job, m, now)
               /\ SameFrame(m, job) /\ Newest(m) = Newest(job)
               /\ DOMAIN m.attempts = DOMAIN job.attempts
               /\ outcome \in Losses => EndsByLoss(job, m)
<1> DEFINE e == EndAttempt(job, outcome, now)
           m == RetryOrFail(e, outcome, now)
<1>1. /\ e \in Job /\ SameFrame(e, job) /\ SameOutcome(e, job)
      /\ Newest(e) = Newest(job)
  BY EndedFields
<1>2. KeepsOldSuccess(e) <=> KeepsOldSuccess(job)
  BY <1>1 DEF SameFrame, KeepsOldSuccess
<1> HIDE DEF e
<1>3. /\ m.attempts = e.attempts
      /\ SameFrame(m, e)
      /\ \/ KeepsOldSuccess(e) /\ m.finished = e.finished
         \/ ~KeepsOldSuccess(e) /\ m.status = "failed" /\ m.finished = now
         \/ ~KeepsOldSuccess(e) /\ m.status = "pending"
  BY <1>1, RetryOrFailFields DEF SameOutcome
<1> HIDE DEF m
<1>4. SameFrame(m, job) /\ e.finished = job.finished
  BY <1>1, <1>3 DEF SameFrame, SameOutcome
<1>5. Newest(m) = Newest(job)
  BY <1>1, <1>3 DEF Newest
<1>6. Settled(m) => \/ m.finished = now
                    \/ KeepsOldSuccess(job) /\ m.finished = job.finished
  <2>1. KeepsOldSuccess(m) <=> KeepsOldSuccess(job)
    BY <1>4 DEF SameFrame, KeepsOldSuccess
  <2> QED
    BY <1>2, <1>3, <1>4, <2>1 DEF Settled, IsTerminal, TerminalStatuses
<1>7. /\ Writes(job, m, now)
      /\ DOMAIN m.attempts = DOMAIN job.attempts
      /\ \A k \in DOMAIN job.attempts :
            m.attempts[k].outcome \in {job.attempts[k].outcome, outcome}
  BY <1>3, <1>4, <1>6, EndWrites DEF e
<1> QED
  BY <1>4, <1>5, <1>7 DEF EndsByLoss, m, e

\* _expire_if_due: nothing, or the end of the run by a loss.
LEMMA ExpiredWrites ==
    ASSUME NEW job, RowInv(job), NEW now \in Time
    PROVE  LET m == ExpireIfDue(job, now)
           IN  /\ Writes(job, m, now)
               /\ SameFrame(m, job) /\ Newest(m) = Newest(job)
               /\ DOMAIN m.attempts = DOMAIN job.attempts
               /\ EndsByLoss(job, m)
<1>1. /\ "lease_expired" \in Outcomes \cap JobErrors \cap Losses
      /\ "deadline_exceeded" \in Outcomes \cap JobErrors \cap Losses
  BY DEF Outcomes, JobErrors, Losses
<1>2. CASE PastDeadline(job, now)
  <2>1. job.token # NULL /\ ~LeaseExpired(job, now)
    BY <1>2 DEF PastDeadline, LeaseExpired
  <2>2. ExpireIfDue(job, now) = Revoke(job, "deadline_exceeded", now)
    BY <1>2, <2>1 DEF ExpireIfDue
  <2> QED
    BY <1>1, <2>1, <2>2, FallenWrites DEF Revoke
<1>3. CASE LeaseExpired(job, now)
  <2>1. job.token # NULL /\ ~PastDeadline(job, now)
    BY <1>3 DEF LeaseExpired
  <2>2. ExpireIfDue(job, now) = Revoke(job, "lease_expired", now)
    BY <1>3, <2>1 DEF ExpireIfDue
  <2> QED
    BY <1>1, <2>1, <2>2, FallenWrites DEF Revoke
<1>4. CASE ~PastDeadline(job, now) /\ ~LeaseExpired(job, now)
  <2>1. ExpireIfDue(job, now) = job
    BY <1>4 DEF ExpireIfDue
  <2> QED
    BY <2>1, SameWrites DEF SameFrame
<1> QED
  BY <1>2, <1>3, <1>4

\* A reclaim opens the attempt again.
LEMMA ReclaimedWrites ==
    ASSUME NEW job, RowInv(job), NEW w \in Workers, NEW token, NEW now \in Time,
           NEW registered, Reclaimable(job, w, token, now, registered),
           ~KeepsOldSuccess(job)
    PROVE  LET m == Reclaim(job, w, token, now)
           IN  /\ Writes(job, m, now)
               /\ SameFrame(m, job) /\ Newest(m) = Newest(job)
               /\ EndsByLoss(job, m)
<1> DEFINE m == Reclaim(job, w, token, now)
           n == Newest(job)
           a == Closed(job.attempts[n], NULL, NULL)
<1>1. /\ n \in DOMAIN job.attempts /\ job.attempts[n] \in Attempt
      /\ m.status = "running"
      /\ SameFrame(m, job) /\ Newest(m) = n
      /\ DOMAIN m.attempts = DOMAIN job.attempts
      /\ \A k \in DOMAIN job.attempts :
            m.attempts[k] = IF k = n THEN a ELSE job.attempts[k]
  BY ReclaimedFields
<1>2. a.replay = job.attempts[n].replay /\ a.ended = NULL /\ a.outcome = NULL
  BY <1>1, ClosedIsSameReplay
<1>3. job.deadline # NULL
  BY DEF Reclaimable
<1> HIDE DEF m, a, n
<1>4. LogBy(job, m, now)
  BY <1>1, <1>2, <1>3 DEF LogBy, n
<1>5. ~Settled(m) /\ RunBy(job, m)
  BY <1>1 DEF Settled, IsTerminal, TerminalStatuses, KeepsOldSuccess, SameFrame,
              RunBy, n
<1>6. EndsByLoss(job, m)
  BY <1>1, <1>2 DEF EndsByLoss
<1> QED
  BY <1>1, <1>4, <1>5, <1>6 DEF Writes, FinishedBy, SameFrame, m, n

\* The worker that _hold accepts is the one of the newest attempt.
LEMMA HolderIsNewest ==
    ASSUME NEW job, RowInv(job), RowKept(job), NEW w \in Workers,
           NEW token \in Nat, NEW now \in Time, NEW registered,
           \/ CanHold(job, w, token, now)
           \/ CanReclaim(job, w, token, now, registered)
    PROVE  /\ token = Newest(job)
           /\ token \in DOMAIN job.attempts
           /\ job.attempts[token].worker = w
<1> DEFINE current == ExpireIfDue(job, now)
<1>1. RowInv(current) /\ LogKept(job, current)
  BY ExpiredRow, ExpiredKept
<1>2. token # NULL
  BY NullAssumption
<1> HIDE DEF current
<1>3. /\ token = Newest(current) /\ token \in DOMAIN current.attempts
      /\ current.attempts[token].worker = w
  <2>1. CASE Holds(current, w, token)
    BY <1>1, <1>2, <2>1 DEF Holds, RowInv, LogMatchesLease
  <2>2. CASE Reclaimable(current, w, token, now, registered)
    BY <2>2 DEF Reclaimable
  <2> QED
    BY <2>1, <2>2 DEF CanHold, CanReclaim, current
<1> QED
  BY <1>1, <1>3 DEF LogKept

\* What _hold writes: an expiry, a reclaim, both or nothing.
LEMMA HeldWrites ==
    ASSUME NEW job, RowInv(job), RowKept(job), NEW w \in Workers,
           NEW token, NEW now \in Time, NEW registered,
           \/ CanHold(job, w, token, now)
           \/ CanReclaim(job, w, token, now, registered)
    PROVE  LET h == Hold(job, w, token, now)
           IN  /\ Writes(job, h, now)
               /\ SameFrame(h, job) /\ Newest(h) = Newest(job)
               /\ EndsByLoss(job, h)
<1> DEFINE current == ExpireIfDue(job, now)
           h == Hold(job, w, token, now)
<1>1. /\ RowInv(current) /\ RowKept(current)
      /\ DOMAIN current.attempts = DOMAIN job.attempts
      /\ \/ current = job
         \/ KeepsOldSuccess(job) => current.status = "success"
  BY ExpiredRow, ExpiredKept DEF LogKept
<1>2. /\ Writes(job, current, now)
      /\ SameFrame(current, job) /\ Newest(current) = Newest(job)
      /\ EndsByLoss(job, current)
  BY ExpiredWrites
<1>3. CASE Holds(current, w, token)
  BY <1>2, <1>3 DEF Hold
<1>4. CASE ~Holds(current, w, token)
  <2>1. Reclaimable(current, w, token, now, registered)
    BY <1>4 DEF CanHold, CanReclaim
  <2>2. h = Reclaim(current, w, token, now)
    BY <1>4 DEF Hold
  <2> HIDE DEF current, h
  <2>3. ~KeepsOldSuccess(current)
    <3>1. /\ current.status \in {"pending", "failed"} /\ current.deadline # NULL
          /\ current.attempts[Newest(current)].outcome = "lease_expired"
      BY <2>1 DEF Reclaimable
    <3>2. KeepsOldSuccess(current) <=> KeepsOldSuccess(job)
      BY <1>2 DEF SameFrame, KeepsOldSuccess
    <3> QED
      BY <1>1, <3>1, <3>2 DEF RowKept, KeptIsNotLost
  <2>4. /\ Writes(current, h, now)
        /\ SameFrame(h, current) /\ Newest(h) = Newest(current)
        /\ EndsByLoss(current, h)
    BY <1>1, <2>1, <2>2, <2>3, ReclaimedWrites
  <2>5. Writes(job, h, now)
    BY <1>1, <1>2, <2>4, WritesTwice
  <2>6. SameFrame(h, job)
    BY <1>2, <2>4 DEF SameFrame
  <2>7. EndsByLoss(job, h)
    BY <1>1, <1>2, <2>4 DEF EndsByLoss
  <2> QED
    BY <1>2, <2>4, <2>5, <2>6, <2>7 DEF h
<1> QED
  BY <1>3, <1>4

\* A heartbeat ends nothing.
LEMMA BeatenWrites ==
    ASSUME NEW job \in Job, NEW now
    PROVE  Writes(job, Beaten(job, now), now) /\ EndsByLoss(job, Beaten(job, now))
<1> DEFINE m == Beaten(job, now)
<1>1. /\ SameFrame(m, job) /\ m.attempts = job.attempts
      /\ m.finished = job.finished /\ m.status = job.status
  BY DEF Beaten, Job, SameFrame
<1> HIDE DEF m
<1> QED
  BY <1>1, SameWrites DEF IsTerminal, m

\* What finish_job and release_job write.
LEMMA ReportedWrites ==
    ASSUME NEW job, RowInv(job), job.token # NULL, NEW now \in Time,
           NEW row \in {Succeeded(job, now), Failed(job, now), Released(job, now)}
    PROVE  Writes(job, row, now)
<1>1. Writes(job, Succeeded(job, now), now)
  <2> DEFINE m == Succeeded(job, now)
  <2>1. /\ m.attempts = EndAttempt(job, "succeeded", now).attempts
        /\ SameFrame(m, job)
        /\ KeepsOldSuccess(job) => m.finished = job.finished
        /\ ~KeepsOldSuccess(job) => m.finished = now
    BY SucceededFields DEF SameOutcome
  <2>2. "succeeded" \in Outcomes
    BY DEF Outcomes
  <2> HIDE DEF m
  <2>3. Writes(job, m, now)
    BY <2>1, <2>2, EndWrites
  <2> QED
    BY <2>3 DEF m
<1>2. Writes(job, Failed(job, now), now)
  <2>1. "failed" \in Outcomes \cap JobErrors
    BY DEF Outcomes, JobErrors
  <2> QED
    BY <2>1, FallenWrites DEF Failed
<1>3. Writes(job, Released(job, now), now)
  <2> DEFINE e == EndAttempt(job, "released", now)
             idle == Unleased(e)
             m == Released(job, now)
  <2>1. "released" \in Outcomes
    BY DEF Outcomes
  <2>2. e \in Job /\ SameFrame(e, job) /\ SameOutcome(e, job)
    BY <2>1, EndedFields
  <2>3. m = [idle EXCEPT !.status = "pending", !.available = now]
    BY DEF Released
  <2> HIDE DEF e, m
  <2>4. /\ idle \in Job /\ idle.attempts = e.attempts
        /\ SameFrame(idle, e) /\ SameOutcome(idle, e)
    BY <2>2, UnleasedFields
  <2> HIDE DEF idle
  <2>5. /\ m.status = "pending" /\ m.attempts = idle.attempts
        /\ m.finished = idle.finished /\ SameFrame(m, idle)
    BY <2>3, <2>4 DEF Job, SameFrame
  <2>6. /\ SameFrame(m, job) /\ m.attempts = e.attempts
        /\ m.finished = job.finished
    BY <2>2, <2>4, <2>5 DEF SameFrame, SameOutcome
  <2>7. Settled(m) => KeepsOldSuccess(job)
    BY <2>5, <2>6 DEF Settled, IsTerminal, TerminalStatuses, KeepsOldSuccess,
                      SameFrame
  <2>8. Writes(job, m, now)
    BY <2>1, <2>6, <2>7, EndWrites DEF e
  <2> QED
    BY <2>8 DEF m
<1> QED
  BY <1>1, <1>2, <1>3

\* A cancel ends the run, if there is one, and nothing else.
LEMMA CancelledWrites ==
    ASSUME NEW job, RowInv(job), NEW now \in Time
    PROVE  /\ Writes(job, Cancelled(job, now), now)
           /\ EndsByLoss(job, Cancelled(job, now))
<1> DEFINE closed == IF job.token = NULL THEN job
                     ELSE EndAttempt(job, "cancelled", now)
           idle == Unleased(closed)
           m == Cancelled(job, now)
<1>1. "cancelled" \in Outcomes \cap Losses
  BY DEF Outcomes, Losses
<1>2. /\ closed \in Job /\ SameFrame(closed, job)
      /\ closed.finished = job.finished
  <2>1. CASE job.token = NULL
    BY <2>1 DEF RowInv, SameFrame
  <2>2. CASE job.token # NULL
    BY <1>1, <2>2, EndedFields DEF SameOutcome
  <2> QED
    BY <2>1, <2>2
<1>3. m = IF KeepsOldSuccess(job) THEN RestoreSuccess(closed)
          ELSE [idle EXCEPT !.status = "cancelled", !.result = NULL,
                            !.finished = now]
  BY DEF Cancelled
<1>4. /\ job.token = NULL => closed = job
      /\ job.token # NULL => closed = EndAttempt(job, "cancelled", now)
  OBVIOUS
<1> HIDE DEF closed, m
<1>5. /\ idle \in Job /\ idle.attempts = closed.attempts
      /\ SameFrame(idle, closed) /\ SameOutcome(idle, closed)
  BY <1>2, UnleasedFields
<1> HIDE DEF idle
<1>6. /\ m.attempts = closed.attempts /\ SameFrame(m, job)
      /\ \/ KeepsOldSuccess(job) /\ m.finished = job.finished
         \/ ~KeepsOldSuccess(job) /\ m.finished = now
  <2>1. CASE KeepsOldSuccess(job)
    <3>1. m = RestoreSuccess(closed)
      BY <1>3, <2>1
    <3> QED
      BY <1>2, <2>1, <3>1, RestoredFields DEF SameOutcome, SameFrame
  <2>2. CASE ~KeepsOldSuccess(job)
    <3>1. m = [idle EXCEPT !.status = "cancelled", !.result = NULL,
                           !.finished = now]
      BY <1>3, <2>2
    <3>2. /\ m.attempts = idle.attempts /\ m.finished = now
          /\ SameFrame(m, idle)
      BY <1>5, <3>1 DEF Job, SameFrame
    <3> QED
      BY <1>2, <1>5, <2>2, <3>2 DEF SameFrame
  <2> QED
    BY <2>1, <2>2
<1>7. CASE job.token = NULL
  <2>1. m.attempts = job.attempts
    BY <1>4, <1>6, <1>7
  <2>2. FinishedBy(job, m, now) /\ RunBy(job, m)
    BY <1>6, <2>1 DEF FinishedBy, RunBy, SameFrame, Newest
  <2> QED
    BY <1>6, <2>1, <2>2 DEF Writes, LogBy, EndsByLoss, SameFrame, m
<1>8. CASE job.token # NULL
  <2>1. /\ Writes(job, m, now)
        /\ \A k \in DOMAIN job.attempts :
              m.attempts[k].outcome \in {job.attempts[k].outcome, "cancelled"}
    BY <1>1, <1>4, <1>6, <1>8, EndWrites
  <2> QED
    BY <1>1, <2>1 DEF EndsByLoss, m
<1> QED
  BY <1>7, <1>8

\* A retry or a replay changes no attempt.
LEMMA RequeuedWrites ==
    ASSUME NEW job \in Job, NEW now \in Time
    PROVE  /\ Writes(job, Retried(job, now), now)
           /\ EndsByLoss(job, Retried(job, now))
           /\ \A options \in Replays : job.status = "success" =>
                 /\ Writes(job, Replayed(job, options, now), now)
                 /\ EndsByLoss(job, Replayed(job, options, now))
<1>1. Writes(job, Retried(job, now), now) /\ EndsByLoss(job, Retried(job, now))
  <2> DEFINE m == Retried(job, now)
  <2>1. /\ m.status = "pending" /\ m.replay = NULL /\ m.deadline = NULL
        /\ m.maxRun = job.maxRun /\ m.attempts = job.attempts
    BY DEF Retried, Job
  <2> HIDE DEF m
  <2>2. ~Settled(m)
    BY <2>1 DEF Settled, IsTerminal, TerminalStatuses, KeepsOldSuccess
  <2> QED
    BY <2>1, <2>2 DEF Writes, FinishedBy, LogBy, RunBy, EndsByLoss, m
<1>2. ASSUME NEW options \in Replays, job.status = "success"
      PROVE  /\ Writes(job, Replayed(job, options, now), now)
             /\ EndsByLoss(job, Replayed(job, options, now))
  <2> DEFINE m == Replayed(job, options, now)
  <2>1. /\ m.replay = options /\ m.finished = job.finished
        /\ m.deadline = NULL /\ m.maxRun = job.maxRun /\ m.attempts = job.attempts
    BY DEF Replayed, Job
  <2>2. IsTerminal(job)
    BY <1>2 DEF IsTerminal, TerminalStatuses
  <2> HIDE DEF m
  <2> QED
    BY <2>1, <2>2 DEF Writes, FinishedBy, LogBy, RunBy, EndsByLoss, m
<1> QED
  BY <1>1, <1>2

\* Nor does a new priority.
LEMMA PrioritisedWrites ==
    ASSUME NEW job \in Job, NEW priority, NEW now
    PROVE  LET m == [job EXCEPT !.priority = priority]
           IN  Writes(job, m, now) /\ EndsByLoss(job, m)
<1> DEFINE m == [job EXCEPT !.priority = priority]
<1>1. /\ SameFrame(m, job) /\ m.attempts = job.attempts
      /\ m.finished = job.finished /\ m.status = job.status
  BY DEF Job, SameFrame
<1> HIDE DEF m
<1> QED
  BY <1>1, SameWrites DEF IsTerminal, m

\* A claim adds an attempt.
LEMMA ClaimedWrites ==
    ASSUME NEW job \in Job, NEW w, NEW now
    PROVE  Writes(job, Claimed(job, w, now), now)
           /\ EndsByLoss(job, Claimed(job, w, now))
<1> DEFINE n == Newest(job)
           attempt == [worker |-> w, outcome |-> NULL, started |-> now,
                       ended |-> NULL, replay |-> job.replay # NULL]
           log == Append(job.attempts, attempt)
           m == Claimed(job, w, now)
<1>1. job.attempts \in Seq(Attempt) /\ n \in Nat
  BY DEF Job, Newest
<1>2. /\ DOMAIN job.attempts = 1..n
      /\ DOMAIN log = 1..(n + 1) /\ Len(log) = n + 1
      /\ \A k \in DOMAIN job.attempts : log[k] = job.attempts[k]
      /\ log[n + 1] = attempt
  BY <1>1 DEF Newest
<1>3. /\ attempt.replay = (job.replay # NULL)
      /\ attempt.ended = NULL /\ attempt.outcome = NULL
  OBVIOUS
<1>4. m.attempts = log
  BY <1>1 DEF Claimed, Job
<1>5. /\ m.status = "running" /\ m.maxRun = job.maxRun
      /\ m.replay = job.replay /\ m.finished = job.finished
  BY DEF Claimed, Job
<1> HIDE DEF m, log, attempt
<1>6. Newest(m) = n + 1
  BY <1>2, <1>4 DEF Newest
<1> HIDE DEF n
<1>7. FinishedBy(job, m, now)
  BY <1>5 DEF FinishedBy, Settled, IsTerminal, TerminalStatuses, KeepsOldSuccess
<1>8. LogBy(job, m, now)
  BY <1>1, <1>2, <1>4 DEF LogBy
<1>9. EndsByLoss(job, m)
  BY <1>2, <1>4 DEF EndsByLoss
<1>10. RunBy(job, m)
  <2>1. DOMAIN m.attempts \ DOMAIN job.attempts = {n + 1}
    BY <1>1, <1>2, <1>4
  <2> QED
    BY <1>2, <1>3, <1>4, <1>5, <1>6, <2>1 DEF RunBy
<1> QED
  BY <1>5, <1>7, <1>8, <1>9, <1>10 DEF Writes, m

\* A row without a past: a new job, or none.
Blank(job) ==
    /\ job.attempts = << >> /\ job.replay = NULL /\ job.deadline = NULL
    /\ ~IsTerminal(job)

LEMMA AbsentIsBlank ==
    ASSUME NEW status, status \notin TerminalStatuses
    PROVE  Blank(Absent(status))
  BY DEF Blank, Absent, NewJob, IsTerminal

LEMMA NewIsBlank ==
    ASSUME NEW type, NEW priority, NEW maxAttempt, NEW maxRun, NEW methods,
           NEW now
    PROVE  Blank(NewJob(type, priority, maxAttempt, maxRun, methods, now))
  BY DEF Blank, NewJob, IsTerminal, TerminalStatuses

-----------------------------------------------------------------------------
(* What one step writes of the table. *)

\* A row is written by one operation, or it is a new one, or gone.
Moved(old, new) ==
    \/ Blank(new) /\ (old.status = "none" \/ new.status = "deleted")
    \/ \E now \in Nows : Writes(old, new, now)

\* The same, and no attempt of it ends but by a loss.
QuietlyMoved(old, new) ==
    Moved(old, new) /\ (new.status = "deleted" \/ EndsByLoss(old, new))

\* A row that nobody writes.
LEMMA SameMoved ==
    ASSUME TypeOK, NEW row
    PROVE  QuietlyMoved(row, row)
<1>1. clock \in Nows
  BY StoreAssumption DEF TypeOK, Time, Nows
<1>2. Writes(row, row, clock) /\ EndsByLoss(row, row)
  BY SameWrites DEF SameFrame
<1> QED
  BY <1>1, <1>2 DEF QuietlyMoved, Moved

\* One row is written, the others stay.
LEMMA OneMoved ==
    ASSUME IInv, NEW j \in Jobs, NEW row, Update(j, row)
    PROVE  /\ Moved(jobs[j], row) => \A k \in Jobs : Moved(jobs[k], jobs'[k])
           /\ QuietlyMoved(jobs[j], row) =>
                 \A k \in Jobs : QuietlyMoved(jobs[k], jobs'[k])
<1>1. jobs \in [Jobs -> Job] /\ jobs' = [jobs EXCEPT ![j] = row]
  BY DEF IInv, TypeOK, Update
<1>2. \A k \in Jobs : jobs'[k] = IF k = j THEN row ELSE jobs[k]
  BY <1>1
<1>3. \A k \in Jobs : QuietlyMoved(jobs[k], jobs[k])
  BY SameMoved DEF IInv
<1>4. \A k \in Jobs : Moved(jobs[k], jobs[k])
  BY <1>3 DEF QuietlyMoved
<1> QED
  BY <1>2, <1>3, <1>4

\* What a worker sends about a run that it holds or lost.
Reports(j, w, token, now) ==
    \/ FinishSuccess(j, w, token, now)
    \/ FinishFailure(j, w, token, now)
    \/ ReleaseJob(j, w, token, now)

\* A call with the token of a run is of the worker of the newest one, and only
\* a heartbeat ends none.
LEMMA HolderMoves ==
    ASSUME IInv, RowsKept, NEW j \in Jobs, NEW w \in Workers,
           NEW token \in DOMAIN jobs[j].attempts, NEW now \in HolderNows(j, token),
           HeartbeatJob(j, w, token, now) \/ Reports(j, w, token, now)
    PROVE  /\ token = Newest(jobs[j]) /\ jobs[j].attempts[token].worker = w
           /\ \A k \in Jobs : Moved(jobs[k], jobs'[k])
           /\ HeartbeatJob(j, w, token, now) =>
                 \A k \in Jobs : QuietlyMoved(jobs[k], jobs'[k])
<1> DEFINE job == jobs[j]
           h == Hold(job, w, token, now)
<1>1. /\ RowInv(job) /\ RowKept(job)
      /\ now \in Nows /\ now \in Time
      /\ job.attempts[token].started <= now
  BY NowsAreTimes DEF HolderNows, IInv, RowsKept
<1>2. /\ token \in Nat
      /\ now >= job.attempts[token].started
  <2>1. job.attempts \in Seq(Attempt)
    BY <1>1 DEF RowInv, Job
  <2>2. token \in Nat /\ job.attempts[token] \in Attempt
    BY <2>1
  <2>3. job.attempts[token].started \in Nat
    BY <2>2 DEF Attempt, Time
  <2> QED
    BY <1>1, <2>2, <2>3 DEF Time
<1>3. \/ CanHold(job, w, token, now)
      \/ CanReclaim(job, w, token, now, Registered)
  BY DEF HeartbeatJob, Reports, FinishSuccess, FinishFailure, ReleaseJob,
         HoldOrReclaim
<1>4. token = Newest(job) /\ job.attempts[token].worker = w
  BY <1>1, <1>2, <1>3, HolderIsNewest
<1>5. /\ RowInv(h) /\ h.token # NULL /\ h \in Job /\ LogKept(job, h)
  BY <1>1, <1>2, <1>3, HeldKept DEF RowInv
<1>6. /\ Writes(job, h, now)
      /\ SameFrame(h, job) /\ Newest(h) = Newest(job)
      /\ EndsByLoss(job, h)
  BY <1>1, <1>3, HeldWrites
<1>7. CASE HeartbeatJob(j, w, token, now)
  <2>1. Update(j, Beaten(h, now))
    BY <1>7 DEF HeartbeatJob
  <2> DEFINE row == Beaten(h, now)
  <2> HIDE DEF h, job
  <2>2. Writes(h, row, now) /\ EndsByLoss(h, row)
    BY <1>5, BeatenWrites
  <2> HIDE DEF row
  <2>3. Writes(job, row, now)
    BY <1>5, <1>6, <2>2, WritesTwice DEF LogKept
  <2>4. EndsByLoss(job, row)
    BY <1>5, <1>6, <2>2 DEF EndsByLoss, LogKept
  <2>5. QuietlyMoved(jobs[j], row)
    BY <1>1, <2>3, <2>4 DEF QuietlyMoved, Moved, job
  <2>6. \A k \in Jobs : QuietlyMoved(jobs[k], jobs'[k])
    BY <2>1, <2>5, OneMoved DEF row, job
  <2> QED
    BY <1>4, <2>6 DEF QuietlyMoved, job
<1>8. CASE ~HeartbeatJob(j, w, token, now)
  <2>1. PICK row \in {Succeeded(h, now), Failed(h, now), Released(h, now)} :
            Update(j, row)
    BY <1>8 DEF Reports, FinishSuccess, FinishFailure, ReleaseJob
  <2> HIDE DEF h, job
  <2>2. Writes(h, row, now)
    BY <1>1, <1>5, <2>1, ReportedWrites
  <2>3. Writes(job, row, now)
    BY <1>5, <1>6, <2>2, WritesTwice DEF LogKept
  <2>4. Moved(jobs[j], row)
    BY <1>1, <2>3 DEF Moved, job
  <2> QED
    BY <1>4, <1>8, <2>1, <2>4, OneMoved DEF job
<1> QED
  BY <1>7, <1>8

\* A claim.
LEMMA ClaimMoves ==
    ASSUME IInv, NEW w, NEW type, NEW j \in Jobs, NEW now \in Nows,
           ClaimJob(w, type, j, now)
    PROVE  \A k \in Jobs : QuietlyMoved(jobs[k], jobs'[k])
<1>1. Update(j, Claimed(jobs[j], w, now)) /\ jobs[j] \in Job
  BY DEF ClaimJob, IInv, TypeOK
<1>2. QuietlyMoved(jobs[j], Claimed(jobs[j], w, now))
  BY <1>1, ClaimedWrites DEF QuietlyMoved, Moved
<1> QED
  BY <1>1, <1>2, OneMoved

\* What providers and operators do ends a run by a cancel at most.
LEMMA OperatorMoves ==
    ASSUME IInv, RowsKept, OperatorStep
    PROVE  \A k \in Jobs : QuietlyMoved(jobs[k], jobs'[k])
<1>1. PICK j \in Jobs, now \in Nows :
        \/ \E type \in Types, priority \in Priorities, maxRun \in MaxRuns,
              maxAttempt \in MaxAttempts, methods \in MethodCounts :
                CreateJob(j, type, priority, maxAttempt, maxRun, methods, now)
        \/ CancelJob(j, now)
        \/ RetryJob(j, now)
        \/ \E options \in Replays : ReplayJob(j, options, now)
        \/ \E priority \in Priorities : SetPriority(j, priority)
        \/ DeleteJob(j)
  BY DEF OperatorStep
<1>2. RowInv(jobs[j]) /\ RowKept(jobs[j]) /\ jobs[j] \in Job /\ now \in Time
  BY NowsAreTimes DEF IInv, RowsKept, RowInv
<1>3. ASSUME NEW row, Writes(jobs[j], row, now), EndsByLoss(jobs[j], row)
      PROVE  QuietlyMoved(jobs[j], row)
  BY <1>3 DEF QuietlyMoved, Moved
<1>4. ASSUME NEW type \in Types, NEW priority \in Priorities,
             NEW maxRun \in MaxRuns, NEW maxAttempt \in MaxAttempts,
             NEW methods \in MethodCounts,
             CreateJob(j, type, priority, maxAttempt, maxRun, methods, now)
      PROVE  \E row : QuietlyMoved(jobs[j], row) /\ Update(j, row)
  <2> DEFINE row == NewJob(type, priority, maxAttempt, maxRun, methods, now)
  <2>1. jobs[j].status = "none" /\ Update(j, row)
    BY <1>4 DEF CreateJob
  <2>2. Blank(row)
    BY NewIsBlank
  <2>3. jobs[j].attempts = << >>
    BY <1>2, <2>1 DEF RowKept, NewIsEmpty
  <2> HIDE DEF row
  <2>4. QuietlyMoved(jobs[j], row)
    BY <2>1, <2>2, <2>3 DEF QuietlyMoved, Moved, EndsByLoss
  <2> QED
    BY <2>1, <2>4
<1>5. CASE CancelJob(j, now)
  <2>1. Update(j, Cancelled(jobs[j], now))
    BY <1>5 DEF CancelJob
  <2>2. QuietlyMoved(jobs[j], Cancelled(jobs[j], now))
    BY <1>2, <1>3, CancelledWrites
  <2> QED
    BY <2>1, <2>2, OneMoved
<1>6. CASE RetryJob(j, now)
  <2>1. Update(j, Retried(jobs[j], now))
    BY <1>6 DEF RetryJob
  <2>2. QuietlyMoved(jobs[j], Retried(jobs[j], now))
    BY <1>2, <1>3, RequeuedWrites
  <2> QED
    BY <2>1, <2>2, OneMoved
<1>7. ASSUME NEW options \in Replays, ReplayJob(j, options, now)
      PROVE  \E row : QuietlyMoved(jobs[j], row) /\ Update(j, row)
  <2>1. jobs[j].status = "success" /\ Update(j, Replayed(jobs[j], options, now))
    BY <1>7 DEF ReplayJob
  <2>2. QuietlyMoved(jobs[j], Replayed(jobs[j], options, now))
    BY <1>2, <1>3, <2>1, RequeuedWrites
  <2> QED
    BY <2>1, <2>2
<1>8. ASSUME NEW priority \in Priorities, SetPriority(j, priority)
      PROVE  \E row : QuietlyMoved(jobs[j], row) /\ Update(j, row)
  <2> DEFINE row == [jobs[j] EXCEPT !.priority = priority]
  <2>1. Update(j, row)
    BY <1>8 DEF SetPriority
  <2>2. Writes(jobs[j], row, now) /\ EndsByLoss(jobs[j], row)
    BY <1>2, PrioritisedWrites
  <2> HIDE DEF row
  <2>3. QuietlyMoved(jobs[j], row)
    BY <1>3, <2>2
  <2> QED
    BY <2>1, <2>3
<1>9. CASE DeleteJob(j)
  <2>1. Update(j, Absent("deleted"))
    BY <1>9 DEF DeleteJob
  <2>2. Absent("deleted").status = "deleted"
    BY DEF Absent, NewJob
  <2>3. QuietlyMoved(jobs[j], Absent("deleted"))
    BY <2>2, AbsentIsBlank DEF QuietlyMoved, Moved, TerminalStatuses
  <2> QED
    BY <2>1, <2>3, OneMoved
<1> QED
  BY <1>1, <1>4, <1>5, <1>6, <1>7, <1>8, <1>9, OneMoved

\* What the cleaner does.
LEMMA CleanerMoves ==
    ASSUME IInv, RowsKept, CleanerStep
    PROVE  \A k \in Jobs : QuietlyMoved(jobs[k], jobs'[k])
<1>1. ASSUME NEW now \in Nows, CleanupExpire(now)
      PROVE  \A k \in Jobs : QuietlyMoved(jobs[k], jobs'[k])
  <2>1. now \in Time /\ \A k \in Jobs : RowInv(jobs[k])
    BY NowsAreTimes DEF IInv
  <2>2. \A k \in Jobs : /\ Writes(jobs[k], ExpireIfDue(jobs[k], now), now)
                        /\ EndsByLoss(jobs[k], ExpireIfDue(jobs[k], now))
    BY <2>1, ExpiredWrites
  <2>3. \A k \in Jobs : jobs'[k] = ExpireIfDue(jobs[k], now)
    BY <1>1 DEF CleanupExpire
  <2>4. \A k \in Jobs : /\ Writes(jobs[k], jobs'[k], now)
                        /\ EndsByLoss(jobs[k], jobs'[k])
    BY <2>2, <2>3
  <2> QED
    BY <2>4 DEF QuietlyMoved, Moved
<1>2. CASE CleanupPurge
  <2>1. \A k \in Jobs : jobs'[k] \in {Absent("deleted"), jobs[k]}
    BY <1>2 DEF CleanupPurge
  <2>2. Absent("deleted").status = "deleted"
    BY DEF Absent, NewJob
  <2>3. \A k \in Jobs : QuietlyMoved(jobs[k], Absent("deleted"))
    BY <2>2, AbsentIsBlank DEF QuietlyMoved, Moved, TerminalStatuses
  <2>4. \A k \in Jobs : QuietlyMoved(jobs[k], jobs[k])
    BY SameMoved DEF IInv
  <2> QED
    BY <2>1, <2>3, <2>4
<1>3. CASE CleanupFails
  BY <1>3, SameMoved DEF CleanupFails, IInv
<1> QED
  BY <1>1, <1>2, <1>3 DEF CleanerStep

\* A worker tells of a run that it lives.
BeatStep ==
    \E j \in Jobs, w \in Workers :
        \E token \in DOMAIN jobs[j].attempts :
            \E now \in HolderNows(j, token) : HeartbeatJob(j, w, token, now)

\* What ends no run but by a loss.
QuietStep ==
    \/ WorkerStep \/ ClaimStep \/ BeatStep \/ OperatorStep \/ CleanerStep \/ Tick

LEMMA QuietStepMoves ==
    ASSUME IInv, RowsKept, QuietStep \/ UNCHANGED vars
    PROVE  \A k \in Jobs : QuietlyMoved(jobs[k], jobs'[k])
<1>1. CASE WorkerStep \/ Tick \/ UNCHANGED vars
  <2>1. UNCHANGED jobs
    BY <1>1 DEF WorkerStep, RegisterWorker, HeartbeatWorker, DeleteWorker, Tick, vars
  <2> QED
    BY <2>1, SameMoved DEF IInv
<1>2. CASE ClaimStep
  BY <1>2, ClaimMoves DEF ClaimStep
<1>3. CASE BeatStep
  BY <1>3, HolderMoves DEF BeatStep
<1>4. CASE OperatorStep \/ CleanerStep
  BY <1>4, OperatorMoves, CleanerMoves
<1> QED
  BY <1>1, <1>2, <1>3, <1>4 DEF QuietStep

\* Every step, on every row.
LEMMA RowsMove == IInv /\ RowsKept /\ [Next]_vars =>
                      \A k \in Jobs : Moved(jobs[k], jobs'[k])
<1> SUFFICES ASSUME IInv, RowsKept, [Next]_vars
             PROVE  \A k \in Jobs : Moved(jobs[k], jobs'[k])
  OBVIOUS
<1>1. CASE HolderStep
  BY <1>1, HolderMoves DEF HolderStep, Reports
<1>2. CASE QuietStep \/ UNCHANGED vars
  BY <1>2, QuietStepMoves DEF QuietlyMoved
<1> QED
  BY <1>1, <1>2 DEF Next, JobStep, QuietStep

-----------------------------------------------------------------------------
(* What the purge takes. *)

\* What has an outcome has an end and nothing else has, no attempt ended and no job
\* finished in the future, the newest attempt is a replay's exactly if the job is
\* one, and finished_at is not before the end of any run but a replay's, up to the
\* age of a request.
Dated(job) ==
    /\ \A k \in DOMAIN job.attempts :
          /\ job.attempts[k].outcome # NULL <=> job.attempts[k].ended # NULL
          /\ job.attempts[k].ended # NULL => job.attempts[k].ended <= clock
    /\ job.deadline # NULL =>
          job.attempts[Newest(job)].replay = (job.replay # NULL)
    /\ Settled(job) =>
          /\ job.finished # NULL /\ job.finished <= clock
          /\ \A k \in DOMAIN job.attempts :
                job.attempts[k].ended # NULL /\ ~job.attempts[k].replay =>
                    job.attempts[k].ended <= job.finished + RequestLag

RowsDated == \A j \in Jobs : Dated(jobs[j])

\* One transaction keeps it.
LEMMA WritesKeepDates ==
    ASSUME TypeOK, NEW old \in Job, RowKept(old), NEW new \in Job, Dated(old),
           NEW now \in Nows, Writes(old, new, now)
    PROVE  Dated(new)
<1>1. /\ now \in Nat /\ now # NULL /\ clock \in Nat /\ RequestLag \in Nat
      /\ now <= clock /\ clock <= now + RequestLag
  BY NullAssumption, StoreAssumption DEF Nows, TypeOK, Time
<1>2. ASSUME NEW k \in DOMAIN new.attempts, new.attempts[k].ended # NULL
      PROVE  /\ new.attempts[k].ended \in Nat
             /\ new.attempts[k].ended <= clock
             /\ k \in DOMAIN old.attempts
             /\ new.attempts[k].replay = old.attempts[k].replay
             /\ \/ new.attempts[k] = old.attempts[k]
                \/ k = Newest(old) /\ old.deadline # NULL
  <2>1. new.attempts[k] \in Attempt
    BY <1>2 DEF Job
  <2>2. k \in DOMAIN old.attempts
    BY <1>2 DEF Writes, RunBy
  <2>3. /\ new.attempts[k].replay = old.attempts[k].replay
        /\ \/ new.attempts[k] = old.attempts[k]
           \/ /\ k = Newest(old) /\ old.deadline # NULL
              /\ new.attempts[k].ended = now
    BY <1>2, <2>2 DEF Writes, LogBy
  <2>4. new.attempts[k].ended \in Nat
    BY <1>2, <2>1 DEF Attempt, Time
  <2> QED
    BY <1>1, <1>2, <2>2, <2>3, <2>4 DEF Dated
<1>3. new.deadline # NULL =>
         new.attempts[Newest(new)].replay = (new.replay # NULL)
  <2> SUFFICES ASSUME new.deadline # NULL
               PROVE  new.attempts[Newest(new)].replay = (new.replay # NULL)
    OBVIOUS
  <2>1. CASE /\ new.deadline = old.deadline /\ new.replay = old.replay
             /\ Newest(new) = Newest(old)
    <3>1. old.attempts[Newest(old)].replay = (old.replay # NULL)
      BY <2>1 DEF Dated
    <3>2. Newest(old) \in DOMAIN old.attempts
      <4>1. Newest(old) > 0
        BY <2>1 DEF RowKept, Timely, DeadlineOfNewest
      <4>2. old.attempts \in Seq(Attempt)
        BY DEF Job
      <4> QED
        BY <4>1, <4>2 DEF Newest
    <3> QED
      BY <2>1, <3>1, <3>2 DEF Writes, LogBy
  <2>2. CASE Newest(new) \in DOMAIN new.attempts \ DOMAIN old.attempts
    BY <2>2 DEF Writes, RunBy
  <2> QED
    BY <2>1, <2>2 DEF Writes, RunBy
<1>4. ASSUME Settled(new)
      PROVE  /\ new.finished # NULL /\ new.finished <= clock
             /\ \A k \in DOMAIN new.attempts :
                   new.attempts[k].ended # NULL /\ ~new.attempts[k].replay =>
                       new.attempts[k].ended <= new.finished + RequestLag
  <2>1. CASE new.finished = now
    <3>1. ASSUME NEW k \in DOMAIN new.attempts, new.attempts[k].ended # NULL
          PROVE  new.attempts[k].ended <= new.finished + RequestLag
      <4>1. new.attempts[k].ended \in Nat /\ new.attempts[k].ended <= clock
        BY <1>2, <3>1
      <4> QED
        BY <1>1, <2>1, <4>1
    <3> QED
      BY <1>1, <2>1, <3>1
  <2>2. CASE /\ new.finished = old.finished
             /\ IsTerminal(old) /\ new.attempts = old.attempts
    BY <2>2 DEF Dated, Settled
  <2>3. CASE new.finished = old.finished /\ KeepsOldSuccess(old)
    <3>1. Settled(old) /\ old.replay # NULL
      BY <2>3 DEF Settled, KeepsOldSuccess
    <3>2. ASSUME NEW k \in DOMAIN new.attempts, new.attempts[k].ended # NULL,
                 ~new.attempts[k].replay
          PROVE  new.attempts[k].ended <= new.finished + RequestLag
      <4>1. /\ k \in DOMAIN old.attempts
            /\ ~old.attempts[k].replay
            /\ \/ new.attempts[k] = old.attempts[k]
               \/ k = Newest(old) /\ old.deadline # NULL
        BY <1>2, <3>2
      <4>2. new.attempts[k] = old.attempts[k]
        BY <3>1, <4>1 DEF Dated
      <4> QED
        BY <2>3, <3>1, <3>2, <4>1, <4>2 DEF Dated
    <3> QED
      BY <2>3, <3>1, <3>2 DEF Dated
  <2> QED
    BY <1>4, <2>1, <2>2, <2>3 DEF Writes, FinishedBy
<1>5. ASSUME NEW k \in DOMAIN new.attempts
      PROVE  new.attempts[k].outcome # NULL <=> new.attempts[k].ended # NULL
  <2>1. CASE k \notin DOMAIN old.attempts
    BY <2>1 DEF Writes, RunBy
  <2>2. ASSUME k \in DOMAIN old.attempts
        PROVE  \/ new.attempts[k] = old.attempts[k]
               \/ new.attempts[k].ended = now /\ new.attempts[k].outcome # NULL
               \/ new.attempts[k].ended = NULL /\ new.attempts[k].outcome = NULL
    BY <2>2 DEF Writes, LogBy
  <2> QED
    BY <1>1, <1>5, <2>1, <2>2 DEF Dated
<1> QED
  BY <1>2, <1>3, <1>4, <1>5 DEF Dated

\* Time passes on its own, and only the cleaner has a `now` of its own.
LEMMA ClocksApart ==
    /\ WorkerStep \/ JobStep \/ UNCHANGED vars => UNCHANGED <<clock, cleaner>>
    /\ CleanerStep => UNCHANGED clock
    /\ Tick => UNCHANGED cleaner
<1>1. WorkerStep => UNCHANGED <<clock, cleaner>>
  BY DEF WorkerStep, RegisterWorker, HeartbeatWorker, DeleteWorker
<1>2. ClaimStep => UNCHANGED <<clock, cleaner>>
  BY DEF ClaimStep, ClaimJob
<1>3. HolderStep => UNCHANGED <<clock, cleaner>>
  BY DEF HolderStep, HeartbeatJob, FinishSuccess, FinishFailure, ReleaseJob
<1>4. OperatorStep => UNCHANGED <<clock, cleaner>>
  BY DEF OperatorStep, CreateJob, CancelJob, RetryJob, ReplayJob, SetPriority,
         DeleteJob
<1>5. CleanerStep => UNCHANGED clock
  BY DEF CleanerStep, CleanupExpire, CleanupPurge, CleanupFails
<1>6. Tick => UNCHANGED cleaner
  BY DEF Tick
<1>7. UNCHANGED vars => UNCHANGED <<clock, cleaner>>
  BY DEF vars
<1> QED
  BY <1>1, <1>2, <1>3, <1>4, <1>5, <1>6, <1>7 DEF JobStep

\* So does every step, and time itself.
LEMMA DatesKept ==
    IInv /\ IInv' /\ RowsKept /\ RowsDated /\ [Next]_vars => RowsDated'
<1> SUFFICES ASSUME IInv, IInv', RowsKept, RowsDated, [Next]_vars,
                    NEW j \in Jobs
             PROVE  Dated(jobs[j])'
  BY DEF RowsDated
<1>1. /\ jobs[j] \in Job /\ jobs'[j] \in Job /\ TypeOK
      /\ RowKept(jobs[j]) /\ Dated(jobs[j])
      /\ clock \in Nat
  BY DEF IInv, TypeOK, RowsKept, RowsDated, Time
<1>2. Dated(jobs'[j])
  <2>1. CASE Blank(jobs'[j])
    <3>1. ~Settled(jobs'[j]) /\ jobs'[j].deadline = NULL
      BY <2>1 DEF Blank, Settled, KeepsOldSuccess
    <3>2. DOMAIN jobs'[j].attempts = {}
      BY <2>1 DEF Blank
    <3> QED
      BY <3>1, <3>2 DEF Dated
  <2>2. CASE \E now \in Nows : Writes(jobs[j], jobs'[j], now)
    BY <1>1, <2>2, WritesKeepDates
  <2> QED
    BY <2>1, <2>2, RowsMove DEF Moved
<1>3. clock' \in Nat /\ clock <= clock'
  <2>1. CASE Tick
    BY <1>1, <2>1 DEF Tick
  <2>2. CASE ~Tick
    <3>1. UNCHANGED clock
      BY <2>2, ClocksApart DEF Next
    <3> QED
      BY <1>1, <3>1
  <2> QED
    BY <2>1, <2>2
<1>4. \A k \in DOMAIN jobs'[j].attempts :
         jobs'[j].attempts[k].ended # NULL =>
             jobs'[j].attempts[k].ended <= clock'
  <2> SUFFICES ASSUME NEW k \in DOMAIN jobs'[j].attempts,
                      jobs'[j].attempts[k].ended # NULL
               PROVE  jobs'[j].attempts[k].ended <= clock'
    OBVIOUS
  <2>1. jobs'[j].attempts[k] \in Attempt
    BY <1>1 DEF Job
  <2>2. jobs'[j].attempts[k].ended \in Nat
    BY <2>1 DEF Attempt, Time
  <2>3. jobs'[j].attempts[k].ended <= clock
    BY <1>2 DEF Dated
  <2> QED
    BY <1>1, <1>3, <2>2, <2>3
<1>5. Settled(jobs'[j]) => jobs'[j].finished <= clock'
  <2> SUFFICES ASSUME Settled(jobs'[j])
               PROVE  jobs'[j].finished <= clock'
    OBVIOUS
  <2>1. jobs'[j].finished \in Nat /\ jobs'[j].finished <= clock
    BY <1>1, <1>2 DEF Dated, Job, Time
  <2> QED
    BY <1>1, <1>3, <2>1
<1> QED
  BY <1>2, <1>4, <1>5 DEF Dated

\* The empty table keeps it all.
LEMMA RowsDatedAtFirst == Init => RowsDated
<1> SUFFICES ASSUME Init PROVE RowsDated
  OBVIOUS
<1>1. Blank(Absent("none"))
  BY AbsentIsBlank DEF TerminalStatuses
<1>2. ~Settled(Absent("none")) /\ DOMAIN Absent("none").attempts = {}
      /\ Absent("none").deadline = NULL
  BY <1>1 DEF Blank, Settled, KeepsOldSuccess
<1>3. Dated(Absent("none"))
  BY <1>2 DEF Dated
<1> QED
  BY <1>3 DEF RowsDated, Init

\* In every reachable state the times of the log and of the outcome fit.
THEOREM RowsAlwaysDated == Spec => [](IInv /\ RowsKept /\ RowsDated)
<1>1. Init => IInv /\ RowsKept /\ RowsDated
  BY InitHolds, RowsKeptAtFirst, RowsDatedAtFirst
<1>2. IInv /\ RowsKept /\ RowsDated /\ [Next]_vars =>
         (IInv /\ RowsKept /\ RowsDated)'
  <2>1. IInv /\ RowsKept /\ [Next]_vars => IInv' /\ RowsKept'
    BY NextHolds, RowsFollow DEF Follows, RowsKept
  <2> QED
    BY <2>1, DatesKept
<1> QED
  BY <1>1, <1>2, PTL DEF Spec

\* The purge takes only old history: no run of a purged job ended within the
\* retention time, but for a replay that was undone (cleanup, _restore_success).
THEOREM PurgeAlwaysTakesOldRuns == Spec => PurgeTakesOldRuns
<1> DEFINE P(j) ==
      /\ cleaner # NULL /\ cleaner' = NULL
      /\ Exists(j) /\ jobs[j]'.status = "deleted"
      => \A k \in DOMAIN jobs[j].attempts :
            jobs[j].attempts[k].ended >= cleaner - RetentionMs + RequestLag =>
                /\ jobs[j].attempts[k].replay
                /\ jobs[j].attempts[k].ended # jobs[j].finished
<1>1. IInv /\ RowsKept /\ RowsDated /\ [Next]_vars => [\A j \in Jobs : P(j)]_vars
  <2> SUFFICES ASSUME IInv, RowsDated, Next, NEW j \in Jobs,
                      cleaner # NULL, cleaner' = NULL,
                      Exists(j), jobs'[j].status = "deleted",
                      NEW k \in DOMAIN jobs[j].attempts,
                      jobs[j].attempts[k].ended
                          >= cleaner - RetentionMs + RequestLag
               PROVE  /\ jobs[j].attempts[k].replay
                      /\ jobs[j].attempts[k].ended # jobs[j].finished
    OBVIOUS
  <2>1. CleanupPurge
    <3>1. CleanupPurge \/ CleanupFails
      <4>1. CASE WorkerStep \/ JobStep \/ Tick
        <5>1. UNCHANGED cleaner
          BY <4>1, ClocksApart
        <5> QED
          BY <5>1
      <4>2. CASE CleanerStep
        BY <4>2 DEF CleanerStep, CleanupExpire
      <4> QED
        BY <4>1, <4>2 DEF Next
    <3>2. ~CleanupFails
      BY DEF CleanupFails, Exists
    <3> QED
      BY <3>1, <3>2
  <2>2. Purgeable(jobs[j], cleaner)
    BY <2>1 DEF CleanupPurge, Exists
  <2>3. /\ Settled(jobs[j]) /\ jobs[j].finished < cleaner - RetentionMs
        /\ jobs[j].token = NULL
    BY <2>2 DEF Purgeable, Settled, IInv, RowInv, RowChecks, LeaseChecks,
                IsTerminal, TerminalStatuses
  <2>4. Dated(jobs[j]) /\ RowInv(jobs[j]) /\ jobs[j] \in Job
        /\ cleaner \in Nat /\ RequestLag \in Nat /\ RetentionMs \in Nat
    BY StoreAssumption DEF RowsDated, IInv, TypeOK, Time
  <2>5. jobs[j].finished \in Nat
    BY <2>3, <2>4 DEF Dated, Job, Time
  <2>6. jobs[j].attempts[k].ended # NULL
    <3>1. jobs[j].attempts[k].outcome # NULL
      BY <2>2, <2>4 DEF Purgeable, IsTerminal, TerminalStatuses, RowInv,
                        LogMatchesLease
    <3> QED
      BY <2>4, <3>1 DEF Dated
  <2>7. jobs[j].attempts[k].ended \in Nat /\ jobs[j].attempts[k].replay \in BOOLEAN
    <3>1. jobs[j].attempts[k] \in Attempt
      BY <2>4 DEF Job
    <3> QED
      BY <2>6, <3>1 DEF Attempt, Time
  <2>8. ~(jobs[j].attempts[k].ended <= jobs[j].finished + RequestLag)
    BY <2>3, <2>4, <2>5, <2>7
  <2> QED
    BY <2>3, <2>4, <2>5, <2>6, <2>7, <2>8 DEF Dated
<1> QED
  BY <1>1, RowsAlwaysDated, PTL DEF Spec, PurgeTakesOldRuns

=============================================================================
