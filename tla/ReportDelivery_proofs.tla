----------------------- MODULE ReportDelivery_proofs -----------------------
(***************************************************************************)
(* What a report says is what the provider was told, for any number of     *)
(* jobs, methods, rounds and sends under way.  First, what each operation  *)
(* of the store does to the report of a row: it goes on with it, or ends   *)
(* it together with the outcome it was about.  Then the steps of the       *)
(* delivery, which change nothing but reports.                             *)
(***************************************************************************)
EXTENDS ReportView, JobStoreRows_proofs, JobStoreLife_proofs

-----------------------------------------------------------------------------
(* What an operation of the store does to a report. *)

\* What the report of a job is about: its outcome, or the success that a job
\* that runs again keeps.
Told(job) ==
    IF job.status \in {"pending", "running"}
    THEN [status |-> "success", finished |-> job.finished, error |-> NULL,
          attempt |-> job.result]
    ELSE Outcome(job)

\* The error of a failed job is how its newest run ended.  A reclaim that ends
\* in another failure is seen by that alone to be another outcome.
ErrorOfNewest(job) ==
    /\ job.status = "success" => job.error = NULL
    /\ job.status = "failed" =>
          /\ Newest(job) > 0
          /\ job.error = job.attempts[Newest(job)].outcome

\* A report that has just started.
Fresh(job) ==
    /\ job.methods > 0
    /\ job.report.status = "pending"
    /\ job.report.cursor = 0 /\ job.report.round = 0
    /\ job.report.sends = {}

GoesOn(old, new) ==
    /\ new.report = old.report
    /\ new.methods = old.methods
    /\ old.report.status # NULL => Told(new) = Told(old)

Restarts(old, new) ==
    /\ new.report.status = NULL \/ Fresh(new)
    /\ old.report.status = NULL \/ Outcome(new) # Outcome(old)

\* A row from one transaction of the store to the next.
Tells(old, new) ==
    /\ ErrorOfNewest(new)
    /\ GoesOn(old, new) \/ Restarts(old, new)

\* Another status or another error is another outcome.
LEMMA OtherOutcome ==
    ASSUME NEW a, NEW b, Outcome(a) = Outcome(b)
    PROVE  a.status = b.status /\ a.error = b.error
<1>1. Outcome(a).status = Outcome(b).status /\ Outcome(a).error = Outcome(b).error
  OBVIOUS
<1> QED
  BY <1>1 DEF Outcome

\* A row that nobody writes.
LEMMA SameTells ==
    ASSUME NEW job, ErrorOfNewest(job)
    PROVE  Tells(job, job)
  BY DEF Tells, GoesOn

\* Starting a report starts it from the first method.
LEMMA StartedIsFresh ==
    ASSUME NEW job \in Job, NEW now \in Time
    PROVE  LET m == StartReport(job, now)
           IN  /\ m.error = job.error
               /\ m.report = job.report \/ Fresh(m)
<1> DEFINE report == [NoReport EXCEPT !.status = "pending", !.nextAt = now]
           m == StartReport(job, now)
<1>1. CASE job.methods = 0
  <2>1. m = job
    BY <1>1 DEF StartReport
  <2> QED
    BY <2>1
<1>2. CASE job.methods # 0
  <2>1. /\ report.status = "pending" /\ report.cursor = 0
        /\ report.round = 0 /\ report.sends = {}
    BY DEF NoReport
  <2> HIDE DEF report
  <2>2. m = [job EXCEPT !.report = report]
    BY <1>2 DEF StartReport, report
  <2>3. m.report = report /\ m.methods > 0 /\ m.error = job.error
    BY <1>2, <2>2 DEF Job
  <2> HIDE DEF m
  <2> QED
    BY <2>1, <2>3 DEF Fresh, m
<1> QED
  BY <1>1, <1>2

\* What is restored is what was told.
LEMMA RestoredTells ==
    ASSUME NEW job \in Job, NEW e \in Job, SameFrame(e, job), SameOutcome(e, job),
           job.status \in {"pending", "running"}
    PROVE  Tells(job, RestoreSuccess(e)) /\ RestoreSuccess(e).status = "success"
<1> DEFINE m == RestoreSuccess(e)
           idle == Unleased(e)
           start == IF Wins(e) = {} THEN idle.started
                    ELSE e.attempts[LastWin(e)].started
<1>1. m.status = "success" /\ SameFrame(m, e) /\ SameOutcome(m, e)
  BY RestoredFields
<1>2. m.error = NULL
  <2>1. idle \in Job
    BY UnleasedFields
  <2>2. m = [idle EXCEPT !.status = "success", !.error = NULL, !.started = start]
    BY DEF RestoreSuccess
  <2> HIDE DEF idle, start
  <2> QED
    BY <2>1, <2>2 DEF Job
<1> HIDE DEF m
<1>3. Told(m) = Told(job)
  BY <1>1, <1>2 DEF Told, Outcome, SameOutcome
<1>4. GoesOn(job, m)
  BY <1>1, <1>3 DEF GoesOn, SameFrame, SameOutcome
<1>5. ErrorOfNewest(m)
  BY <1>1, <1>2 DEF ErrorOfNewest
<1> QED
  BY <1>1, <1>4, <1>5 DEF Tells, m

\* The error that a run fails with is the one the job fails with.
LEMMA FailureHasError ==
    ASSUME NEW job \in Job, NEW error \in JobErrors, NEW now \in Time,
           RetryOrFail(job, error, now).status = "failed"
    PROVE  LET m == RetryOrFail(job, error, now)
           IN  m.error = error /\ (m.report = job.report \/ Fresh(m))
<1> DEFINE m == RetryOrFail(job, error, now)
           idle == Unleased(job)
           ended == [idle EXCEPT !.status = "failed", !.error = error,
                                 !.result = NULL, !.finished = now]
           reports == job.replay = NULL \/ job.replay.reportFailed
<1>1. ~KeepsOldSuccess(job)
  BY RestoredFields DEF RetryOrFail
<1>2. idle \in Job /\ idle.report = job.report
  BY UnleasedFields DEF SameOutcome
<1>3. OutOfAttempts(job)
  <2> SUFFICES ASSUME ~OutOfAttempts(job) PROVE FALSE
    OBVIOUS
  <2> DEFINE next == now + RetryBackoff(UsedAttempts(job))
  <2>1. m = [idle EXCEPT !.status = "pending", !.error = error, !.available = next]
    BY <1>1 DEF RetryOrFail, Requeue
  <2> HIDE DEF idle, next
  <2>2. m.status = "pending"
    BY <1>2, <2>1 DEF Job
  <2> QED
    BY <2>2
<1>4. m = IF reports THEN StartReport(ended, now) ELSE ended
  BY <1>1, <1>3 DEF RetryOrFail, Fail
<1> HIDE DEF idle
<1>5. ended.error = error /\ ended.report = job.report
  BY <1>2 DEF Job
<1>6. ended \in Job
  BY <1>2, FailedIsAJob
<1> HIDE DEF ended, reports, m
<1> QED
  BY <1>4, <1>5, <1>6, StartedIsFresh DEF m

\* A run that does not succeed, whatever ended it.
LEMMA FallenTells ==
    ASSUME NEW job, RowInv(job), RowKept(job), job.token # NULL,
           NEW outcome \in Outcomes \cap JobErrors, NEW now \in Time
    PROVE  LET m == RetryOrFail(EndAttempt(job, outcome, now), outcome, now)
           IN  /\ Tells(job, m)
               /\ m.status = "failed" => m.error = outcome
<1> DEFINE e == EndAttempt(job, outcome, now)
           n == Newest(job)
           m == RetryOrFail(e, outcome, now)
<1>1. /\ e \in Job /\ job \in Job
      /\ SameFrame(e, job) /\ SameOutcome(e, job)
      /\ n > 0 /\ n \in DOMAIN e.attempts /\ Newest(e) = n
      /\ job.attempts[n] \in Attempt
      /\ e.attempts[n] = Closed(job.attempts[n], outcome, now)
  BY EndedFields DEF RowInv
<1>2. e.attempts[n].outcome = outcome
  BY <1>1, AttemptClosed
<1>3. job.status = "running"
  BY DEF RowInv, RowChecks, LeaseChecks
<1>4. KeepsOldSuccess(job) \/ job.report.status = NULL
  BY <1>3, RunningReport DEF RowKept
<1>5. KeepsOldSuccess(e) <=> KeepsOldSuccess(job)
  BY <1>1 DEF KeepsOldSuccess, SameFrame
<1> HIDE DEF e, n
<1>6. /\ m.attempts = e.attempts
      /\ \/ KeepsOldSuccess(e) /\ m.status = "success"
         \/ ~KeepsOldSuccess(e) /\ m.status = "failed"
         \/ ~KeepsOldSuccess(e) /\ m.status = "pending" /\ SameOutcome(m, e)
  BY <1>1, RetryOrFailFields
<1>7. CASE KeepsOldSuccess(e)
  <2>1. m = RestoreSuccess(e)
    BY <1>7 DEF RetryOrFail
  <2> QED
    BY <1>1, <1>3, <2>1, RestoredTells DEF e
<1>8. CASE ~KeepsOldSuccess(e) /\ m.status = "failed"
  <2>1. m.error = outcome /\ (m.report = e.report \/ Fresh(m))
    BY <1>1, <1>8, FailureHasError
  <2>2. ErrorOfNewest(m)
    BY <1>1, <1>2, <1>6, <1>8, <2>1 DEF ErrorOfNewest, Newest
  <2>3. Restarts(job, m)
    BY <1>1, <1>4, <1>5, <1>8, <2>1 DEF Restarts, SameOutcome
  <2> QED
    BY <2>1, <2>2, <2>3 DEF Tells, e
<1>9. CASE ~KeepsOldSuccess(e) /\ m.status = "pending" /\ SameOutcome(m, e)
  <2>1. Restarts(job, m)
    BY <1>1, <1>4, <1>5, <1>9 DEF Restarts, SameOutcome
  <2> QED
    BY <1>9, <2>1 DEF Tells, ErrorOfNewest, e
<1> QED
  BY <1>6, <1>7, <1>8, <1>9

-----------------------------------------------------------------------------
(* What _hold and the calls of a worker do to it. *)

\* An expiry ends a run; there was no report, or a kept one.
LEMMA ExpiredTells ==
    ASSUME NEW job, RowInv(job), RowKept(job), ErrorOfNewest(job), NEW now \in Time
    PROVE  Tells(job, ExpireIfDue(job, now))
<1>1. CASE PastDeadline(job, now)
  <2>1. /\ job.token # NULL
        /\ "deadline_exceeded" \in Outcomes \cap JobErrors
        /\ ~LeaseExpired(job, now)
    BY <1>1 DEF PastDeadline, LeaseExpired, Outcomes, JobErrors
  <2>2. ExpireIfDue(job, now) = Revoke(job, "deadline_exceeded", now)
    BY <1>1, <2>1 DEF ExpireIfDue
  <2> QED
    BY <2>1, <2>2, FallenTells DEF Revoke
<1>2. CASE LeaseExpired(job, now)
  <2>1. /\ job.token # NULL
        /\ "lease_expired" \in Outcomes \cap JobErrors
        /\ ~PastDeadline(job, now)
    BY <1>2 DEF LeaseExpired, Outcomes, JobErrors
  <2>2. ExpireIfDue(job, now) = Revoke(job, "lease_expired", now)
    BY <1>2, <2>1 DEF ExpireIfDue
  <2> QED
    BY <2>1, <2>2, FallenTells DEF Revoke
<1>3. CASE ~PastDeadline(job, now) /\ ~LeaseExpired(job, now)
  <2>1. ExpireIfDue(job, now) = job
    BY <1>3 DEF ExpireIfDue
  <2> QED
    BY <2>1, SameTells
<1> QED
  BY <1>1, <1>2, <1>3

\* A run taken back has no report, and if there was one it told of the expiry.
Withdrawn(job, h) ==
    /\ h.report.status = NULL
    /\ \/ job.report.status = NULL
       \/ job.status = "failed" /\ job.error = "lease_expired"

\* What _hold returns is the row itself, or one whose report was withdrawn.
LEMMA HeldTells ==
    ASSUME NEW job, RowInv(job), RowKept(job), ErrorOfNewest(job),
           NEW w \in Workers, NEW token \in DOMAIN job.attempts, NEW now \in Time,
           NEW registered,
           \/ CanHold(job, w, token, now)
           \/ CanReclaim(job, w, token, now, registered)
    PROVE  LET h == Hold(job, w, token, now)
           IN  h = job \/ Withdrawn(job, h)
<1> DEFINE current == ExpireIfDue(job, now)
           h == Hold(job, w, token, now)
<1>1. /\ RowKept(current)
      /\ \/ current = job
         \/ /\ current.token = NULL
            /\ KeepsOldSuccess(job) => current.status = "success"
  BY ExpiredKept
<1>2. RowInv(current)
  BY ExpiredRow
<1>3. token # NULL
  BY NullAssumption DEF RowInv, Job
<1>4. CASE Holds(current, w, token)
  BY <1>1, <1>3, <1>4 DEF Hold, Holds
<1>5. CASE ~Holds(current, w, token)
  <2>1. Reclaimable(current, w, token, now, registered)
    BY <1>5 DEF CanHold, CanReclaim
  <2>2. h = Reclaim(current, w, token, now)
    BY <1>5 DEF Hold
  <2>3. /\ current.status \in {"pending", "failed"} /\ current.deadline # NULL
        /\ current.attempts[Newest(current)].outcome = "lease_expired"
    BY <2>1 DEF Reclaimable
  <2>4. current # job => job.token # NULL
    BY DEF ExpireIfDue, PastDeadline, LeaseExpired
  <2> HIDE DEF current, h
  <2>5. h.report.status = NULL
    BY <1>2, <2>1, <2>2, ReclaimedFields
  <2>6. CASE current = job
    <3>1. CASE job.status = "failed"
      BY <2>3, <2>5, <2>6, <3>1 DEF ErrorOfNewest, Withdrawn, h
    <3>2. CASE job.status = "pending"
      <4>1. ~KeepsOldSuccess(job)
        BY <2>3, <2>6, <3>2 DEF RowKept, KeptIsNotLost
      <4> QED
        BY <2>5, <3>2, <4>1, RunningReport DEF RowKept, Withdrawn, h
    <3> QED
      BY <2>3, <2>6, <3>1, <3>2 DEF h
  <2>7. CASE current # job
    <3>1. job.status = "running"
      BY <2>4, <2>7 DEF RowInv, RowChecks, LeaseChecks
    <3>2. ~KeepsOldSuccess(job)
      BY <1>1, <2>3, <2>7
    <3> QED
      BY <2>5, <3>1, <3>2, RunningReport DEF RowKept, Withdrawn, h
  <2> QED
    BY <2>6, <2>7
<1> QED
  BY <1>4, <1>5

\* A heartbeat leaves the report alone.
LEMMA BeatenTells ==
    ASSUME NEW job, RowInv(job), job.token # NULL, NEW now \in Time
    PROVE  Tells(job, Beaten(job, now)) /\ Beaten(job, now).status = "running"
<1> DEFINE until == Min2(now + JobLeaseMs, job.deadline)
           m == Beaten(job, now)
<1>1. job \in Job /\ job.status = "running"
  BY DEF RowInv, RowChecks, LeaseChecks
<1> HIDE DEF until
<1>2. m = [job EXCEPT !.until = until]
  BY DEF Beaten, until
<1>3. /\ m.status = job.status /\ m.report = job.report /\ m.methods = job.methods
      /\ m.finished = job.finished /\ m.result = job.result
  BY <1>1, <1>2 DEF Job
<1> HIDE DEF m
<1>4. Told(m) = Told(job)
  BY <1>1, <1>3 DEF Told
<1> QED
  BY <1>1, <1>3, <1>4 DEF Tells, GoesOn, ErrorOfNewest, m

\* A success starts its report, owes none, or is the one that was told.
LEMMA SucceededTells ==
    ASSUME NEW job, RowInv(job), RowKept(job), job.token # NULL, NEW now \in Time
    PROVE  Tells(job, Succeeded(job, now)) /\ Succeeded(job, now).status = "success"
<1> DEFINE e == EndAttempt(job, "succeeded", now)
           m == Succeeded(job, now)
           idle == Unleased(e)
           ended == [idle EXCEPT !.status = "success", !.result = Newest(job),
                                 !.error = NULL, !.finished = now]
           reports == job.replay = NULL \/ job.replay.reportSuccess
<1>1. /\ e \in Job /\ job \in Job
      /\ SameFrame(e, job) /\ SameOutcome(e, job)
      /\ Newest(job) \in Nat
  BY EndedFields DEF Outcomes, RowInv, Job, Newest
<1>2. job.status = "running"
  BY DEF RowInv, RowChecks, LeaseChecks
<1>3. CASE KeepsOldSuccess(job)
  <2>1. m = RestoreSuccess(e)
    BY <1>3 DEF Succeeded
  <2> HIDE DEF m, e
  <2> QED
    BY <1>1, <1>2, <2>1, RestoredTells DEF m
<1>4. CASE ~KeepsOldSuccess(job)
  <2>1. m = IF reports THEN StartReport(ended, now) ELSE ended
    BY <1>4 DEF Succeeded
  <2>2. job.report.status = NULL
    BY <1>2, <1>4, RunningReport DEF RowKept
  <2> HIDE DEF e
  <2>3. idle \in Job /\ idle.report = job.report
    BY <1>1, UnleasedFields DEF SameOutcome
  <2> HIDE DEF idle
  <2>4. /\ ended.report = job.report
        /\ ended.status = "success" /\ ended.error = NULL
    BY <2>3 DEF Job
  <2>5. ended \in Job
    BY <1>1, <2>3, WonIsAJob
  <2> HIDE DEF ended, reports, m
  <2>6. /\ m.status = "success" /\ m.error = NULL
        /\ m.report = job.report \/ Fresh(m)
    BY <2>1, <2>4, <2>5, StartedFields, StartedIsFresh
  <2> QED
    BY <2>2, <2>6 DEF Tells, Restarts, ErrorOfNewest, m
<1> QED
  BY <1>3, <1>4

\* A release leaves the report alone.
LEMMA ReleasedTells ==
    ASSUME NEW job, RowInv(job), job.token # NULL, NEW now \in Time
    PROVE  Tells(job, Released(job, now)) /\ Released(job, now).status = "pending"
<1> DEFINE e == EndAttempt(job, "released", now)
           idle == Unleased(e)
           m == Released(job, now)
<1>1. /\ e \in Job /\ SameFrame(e, job) /\ SameOutcome(e, job)
  BY EndedFields DEF Outcomes
<1>2. job.status = "running"
  BY DEF RowInv, RowChecks, LeaseChecks
<1>3. m = [idle EXCEPT !.status = "pending", !.available = now]
  BY DEF Released
<1> HIDE DEF e
<1>4. idle \in Job /\ SameFrame(idle, e) /\ SameOutcome(idle, e)
  BY <1>1, UnleasedFields
<1> HIDE DEF idle
<1>5. /\ m.status = "pending" /\ m.report = idle.report
      /\ m.methods = idle.methods
      /\ m.finished = idle.finished /\ m.result = idle.result
  BY <1>3, <1>4 DEF Job
<1> HIDE DEF m
<1>6. /\ m.report = job.report /\ m.methods = job.methods
      /\ Told(m) = Told(job)
  BY <1>1, <1>2, <1>4, <1>5 DEF SameFrame, SameOutcome, Told
<1> QED
  BY <1>5, <1>6 DEF Tells, GoesOn, ErrorOfNewest, m

\* A call that takes a run back and then ends it, or goes on with it.
LEMMA CallTells ==
    ASSUME NEW job, NEW h, NEW m, h = job \/ Withdrawn(job, h), Tells(h, m),
           m.status = "failed" => m.error # "lease_expired"
    PROVE  Tells(job, m)
<1>1. CASE h = job
  BY <1>1
<1>2. CASE Withdrawn(job, h)
  <2>1. h.report.status = NULL /\ (m.report.status = NULL \/ Fresh(m))
    BY <1>2 DEF Withdrawn, Tells, GoesOn, Restarts
  <2>2. job.report.status = NULL \/ Outcome(m) # Outcome(job)
    BY <1>2, OtherOutcome DEF Withdrawn
  <2> QED
    BY <2>1, <2>2 DEF Tells, Restarts
<1> QED
  BY <1>1, <1>2

-----------------------------------------------------------------------------
(* What providers, operators and a claim do to it. *)

\* A cancel restores what was told, or there was nothing to tell.
LEMMA CancelledTells ==
    ASSUME NEW job, RowInv(job), RowKept(job),
           job.status \in {"pending", "running"}, NEW now \in Time
    PROVE  Tells(job, Cancelled(job, now))
<1> DEFINE closed == IF job.token = NULL THEN job
                     ELSE EndAttempt(job, "cancelled", now)
           idle == Unleased(closed)
           m == Cancelled(job, now)
<1>1. /\ job \in Job
      /\ closed \in Job /\ SameFrame(closed, job) /\ SameOutcome(closed, job)
  <2>1. CASE job.token = NULL
    BY <2>1 DEF RowInv, SameFrame, SameOutcome
  <2>2. CASE job.token # NULL
    <3>1. "cancelled" \in Outcomes
      BY DEF Outcomes
    <3> QED
      BY <2>2, <3>1, EndedFields DEF RowInv
  <2> QED
    BY <2>1, <2>2
<1>2. CASE KeepsOldSuccess(job)
  <2>1. m = RestoreSuccess(closed)
    BY <1>2 DEF Cancelled
  <2> HIDE DEF closed, m
  <2> QED
    BY <1>1, <2>1, RestoredTells DEF m
<1>3. CASE ~KeepsOldSuccess(job)
  <2>1. job.report.status = NULL
    BY <1>3, RunningReport DEF RowKept
  <2>2. m = [idle EXCEPT !.status = "cancelled", !.result = NULL, !.finished = now]
    BY <1>3 DEF Cancelled
  <2> HIDE DEF closed
  <2>3. idle \in Job /\ idle.report = job.report
    BY <1>1, UnleasedFields DEF SameOutcome
  <2> HIDE DEF idle
  <2>4. m.status = "cancelled" /\ m.report = job.report
    BY <2>2, <2>3 DEF Job
  <2> HIDE DEF m
  <2> QED
    BY <2>1, <2>4 DEF Tells, Restarts, ErrorOfNewest, m
<1> QED
  BY <1>2, <1>3

\* A job that is queued again without a report has another status.
LEMMA ForgottenTells ==
    ASSUME NEW job, NEW m, m.status # job.status, m.report.status = NULL,
           m.status \notin {"success", "failed"}
    PROVE  Tells(job, m)
  BY OtherOutcome DEF Tells, Restarts, ErrorOfNewest

LEMMA RetriedTells ==
    ASSUME NEW job \in Job, job.status \in {"failed", "cancelled"},
           NEW now \in Time
    PROVE  Tells(job, Retried(job, now))
<1> DEFINE m == Retried(job, now)
<1>1. m.status = "pending" /\ m.report = NoReport
  BY DEF Retried, Job
<1> HIDE DEF m
<1> QED
  BY <1>1, NoReportIsAReport, ForgottenTells DEF m

\* A replay that overwrites forgets the report; another one keeps the report
\* with the success it is about.
LEMMA ReplayedTells ==
    ASSUME NEW job \in Job, ErrorOfNewest(job), job.status = "success",
           NEW options \in ReplayOptions, NEW now \in Time
    PROVE  Tells(job, Replayed(job, options, now))
<1> DEFINE m == Replayed(job, options, now)
<1>1. /\ m.status = "pending" /\ m.methods = job.methods
      /\ m.finished = job.finished /\ m.result = job.result
      /\ m.report = IF options.overwrite THEN NoReport ELSE job.report
  BY DEF Replayed, Job
<1> HIDE DEF m
<1>2. CASE options.overwrite
  BY <1>1, <1>2, NoReportIsAReport, ForgottenTells DEF m
<1>3. CASE ~options.overwrite
  <2>1. job.error = NULL
    BY DEF ErrorOfNewest
  <2>2. Told(m) = Told(job)
    BY <1>1, <2>1 DEF Told, Outcome
  <2> QED
    BY <1>1, <1>3, <2>2 DEF Tells, GoesOn, ErrorOfNewest, m
<1> QED
  BY <1>2, <1>3

\* Columns that the outcome is not made of.
LEMMA UntoldTells ==
    ASSUME NEW job, ErrorOfNewest(job), NEW m,
           m.status = job.status, m.report = job.report,
           m.methods = job.methods, m.finished = job.finished,
           m.error = job.error, m.result = job.result,
           m.attempts = job.attempts
    PROVE  Tells(job, m)
  BY DEF Tells, GoesOn, Told, Outcome, ErrorOfNewest, Newest

LEMMA PrioritisedTells ==
    ASSUME NEW job \in Job, ErrorOfNewest(job), NEW priority \in Int
    PROVE  Tells(job, [job EXCEPT !.priority = priority])
<1> DEFINE m == [job EXCEPT !.priority = priority]
<1>1. /\ m.status = job.status /\ m.report = job.report
      /\ m.methods = job.methods /\ m.finished = job.finished
      /\ m.error = job.error /\ m.result = job.result
      /\ m.attempts = job.attempts
  BY DEF Job
<1> HIDE DEF m
<1> QED
  BY <1>1, UntoldTells DEF m

LEMMA ClaimedTells ==
    ASSUME NEW job, RowInv(job), job.status = "pending", NEW w \in Workers,
           NEW now \in Time
    PROVE  Tells(job, Claimed(job, w, now))
<1> DEFINE m == Claimed(job, w, now)
<1>1. job \in Job
  BY DEF RowInv
<1>2. /\ m.status = "running" /\ m.report = job.report
      /\ m.methods = job.methods /\ m.finished = job.finished
      /\ m.result = job.result
  BY <1>1 DEF Claimed, Job
<1> HIDE DEF m
<1>3. Told(m) = Told(job)
  BY <1>2 DEF Told
<1> QED
  BY <1>2, <1>3 DEF Tells, GoesOn, ErrorOfNewest, m

LEMMA NewTells ==
    ASSUME NEW job, job.status = "none", NEW type, NEW priority,
           NEW maxAttempt, NEW maxRun, NEW methods, NEW now
    PROVE  Tells(job, NewJob(type, priority, maxAttempt, maxRun, methods, now))
<1> DEFINE m == NewJob(type, priority, maxAttempt, maxRun, methods, now)
<1>1. m.status = "pending" /\ m.report = NoReport
  BY DEF NewJob
<1> HIDE DEF m
<1> QED
  BY <1>1, NoReportIsAReport, ForgottenTells DEF m

\* A job that is deleted or purged.
LEMMA DeletedTells ==
    ASSUME NEW job, IsTerminal(job)
    PROVE  Tells(job, Absent("deleted"))
<1>1. Absent("deleted").status = "deleted" /\ Absent("deleted").report = NoReport
  BY DEF Absent, NewJob
<1>2. job.status # "deleted"
  BY DEF IsTerminal, TerminalStatuses
<1> QED
  BY <1>1, <1>2, NoReportIsAReport, ForgottenTells

-----------------------------------------------------------------------------
(* The table. *)

ErrorsKept == \A j \in Jobs : ErrorOfNewest(jobs[j])

LEMMA OneTells ==
    ASSUME IInv, ErrorsKept, NEW j \in Jobs, NEW row, Tells(jobs[j], row),
           Update(j, row)
    PROVE  \A k \in Jobs : Tells(jobs[k], jobs'[k])
<1>1. jobs \in [Jobs -> Job] /\ jobs' = [jobs EXCEPT ![j] = row]
  BY DEF IInv, TypeOK, Update
<1>2. \A k \in Jobs : jobs'[k] = IF k = j THEN row ELSE jobs[k]
  BY <1>1
<1>3. \A k \in Jobs : Tells(jobs[k], jobs[k])
  BY SameTells DEF ErrorsKept
<1> QED
  BY <1>2, <1>3

LEMMA NoneTells ==
    ASSUME ErrorsKept, UNCHANGED jobs
    PROVE  \A k \in Jobs : Tells(jobs[k], jobs'[k])
  BY SameTells DEF ErrorsKept

\* What the worker of an attempt asks.
LEMMA HolderTells ==
    ASSUME IInv, RowsKept, ErrorsKept, HolderStep
    PROVE  \A k \in Jobs : Tells(jobs[k], jobs'[k])
<1> DEFINE Asks(j, w, token, now) == \/ HeartbeatJob(j, w, token, now)
                                     \/ FinishSuccess(j, w, token, now)
                                     \/ FinishFailure(j, w, token, now)
                                     \/ ReleaseJob(j, w, token, now)
<1>1. PICK j \in Jobs, w \in Workers :
        \E token \in DOMAIN jobs[j].attempts :
            \E now \in HolderNows(j, token) : Asks(j, w, token, now)
  BY DEF HolderStep
<1>2. PICK token \in DOMAIN jobs[j].attempts :
        \E now \in HolderNows(j, token) : Asks(j, w, token, now)
  BY <1>1
<1>3. PICK now \in HolderNows(j, token) : Asks(j, w, token, now)
  BY <1>2
<1> DEFINE job == jobs[j]
           h == Hold(job, w, token, now)
<1>4. /\ RowInv(job) /\ RowKept(job) /\ ErrorOfNewest(job)
      /\ now \in Time
      /\ now >= job.attempts[token].started
  <2>1. now \in Nows /\ job.attempts[token].started <= now
    BY DEF HolderNows
  <2>2. now \in Time
    BY <2>1, NowsAreTimes DEF IInv
  <2>3. RowInv(job) /\ RowKept(job) /\ ErrorOfNewest(job)
    BY DEF IInv, RowsKept, ErrorsKept
  <2>4. job.attempts[token] \in Attempt
    BY <2>3 DEF RowInv, Job
  <2>5. job.attempts[token].started \in Nat
    BY <2>4 DEF Attempt, Time
  <2> QED
    BY <2>1, <2>2, <2>3, <2>5 DEF Time
<1>5. \/ CanHold(job, w, token, now)
      \/ CanReclaim(job, w, token, now, Registered)
  BY <1>3 DEF HeartbeatJob, FinishSuccess, FinishFailure, ReleaseJob, HoldOrReclaim
<1>6. /\ RowInv(h) /\ RowKept(h) /\ h.token # NULL
      /\ h = job \/ Withdrawn(job, h)
  BY <1>4, <1>5, HeldKept, HeldTells
<1>7. PICK row \in {Beaten(h, now), Succeeded(h, now), Failed(h, now),
                    Released(h, now)} : Update(j, row)
  BY <1>3 DEF HeartbeatJob, FinishSuccess, FinishFailure, ReleaseJob
<1> HIDE DEF job, h
<1>8. /\ Tells(h, Beaten(h, now)) /\ Beaten(h, now).status = "running"
      /\ Tells(h, Succeeded(h, now)) /\ Succeeded(h, now).status = "success"
      /\ Tells(h, Released(h, now)) /\ Released(h, now).status = "pending"
  BY <1>4, <1>6, BeatenTells, SucceededTells, ReleasedTells
<1>9. /\ Tells(h, Failed(h, now))
      /\ Failed(h, now).status = "failed" => Failed(h, now).error = "failed"
  <2>1. "failed" \in Outcomes \cap JobErrors
    BY DEF Outcomes, JobErrors
  <2> QED
    BY <1>4, <1>6, <2>1, FallenTells DEF Failed
<1>10. Tells(h, row) /\ (row.status = "failed" => row.error # "lease_expired")
  BY <1>7, <1>8, <1>9
<1>11. Tells(job, row)
  BY <1>6, <1>10, CallTells
<1> QED
  BY <1>7, <1>11, OneTells DEF job

\* What providers and operators do.
LEMMA OperatorTells ==
    ASSUME IInv, RowsKept, ErrorsKept, OperatorStep
    PROVE  \A k \in Jobs : Tells(jobs[k], jobs'[k])
<1>1. PICK j \in Jobs, now \in Nows :
        \/ \E type \in Types, priority \in Priorities, maxRun \in MaxRuns,
              maxAttempt \in MaxAttempts, methods \in MethodCounts :
                CreateJob(j, type, priority, maxAttempt, maxRun, methods, now)
        \/ CancelJob(j, now)
        \/ RetryJob(j, now)
        \/ \E options \in Replays : ReplayJob(j, options, now)
        \/ \E priority \in Priorities : SetPriority(j, priority)
        \/ DeleteJob(j)
  BY DEF OperatorStep
<1>2. /\ RowInv(jobs[j]) /\ jobs[j] \in Job /\ RowKept(jobs[j])
      /\ ErrorOfNewest(jobs[j]) /\ now \in Time
  BY NowsAreTimes DEF IInv, RowsKept, ErrorsKept, RowInv
<1>3. ASSUME NEW type \in Types, NEW priority \in Priorities,
             NEW maxRun \in MaxRuns, NEW maxAttempt \in MaxAttempts,
             NEW methods \in MethodCounts,
             CreateJob(j, type, priority, maxAttempt, maxRun, methods, now)
      PROVE  \E row : Tells(jobs[j], row) /\ Update(j, row)
  BY <1>3, NewTells DEF CreateJob
<1>4. CASE CancelJob(j, now)
  BY <1>2, <1>4, CancelledTells, OneTells DEF CancelJob
<1>5. CASE RetryJob(j, now)
  BY <1>2, <1>5, RetriedTells, OneTells DEF RetryJob
<1>6. ASSUME NEW options \in Replays, ReplayJob(j, options, now)
      PROVE  \E row : Tells(jobs[j], row) /\ Update(j, row)
  <2>1. options \in ReplayOptions
    BY StoreAssumption
  <2> QED
    BY <1>2, <1>6, <2>1, ReplayedTells DEF ReplayJob
<1>7. ASSUME NEW priority \in Priorities, SetPriority(j, priority)
      PROVE  \E row : Tells(jobs[j], row) /\ Update(j, row)
  <2>1. priority \in Int
    BY StoreAssumption
  <2> QED
    BY <1>2, <1>7, <2>1, PrioritisedTells DEF SetPriority
<1>8. CASE DeleteJob(j)
  BY <1>8, DeletedTells, OneTells DEF DeleteJob
<1> QED
  BY <1>1, <1>3, <1>4, <1>5, <1>6, <1>7, <1>8, OneTells

\* A claim.
LEMMA ClaimTells ==
    ASSUME IInv, ErrorsKept, ClaimStep
    PROVE  \A k \in Jobs : Tells(jobs[k], jobs'[k])
<1>1. PICK w \in Workers, type \in Types, j \in Jobs, now \in Nows :
        ClaimJob(w, type, j, now)
  BY DEF ClaimStep
<1>2. jobs[j].status = "pending" /\ Update(j, Claimed(jobs[j], w, now))
  BY <1>1 DEF ClaimJob, Claimable
<1>3. RowInv(jobs[j]) /\ now \in Time
  BY NowsAreTimes DEF IInv
<1>4. Tells(jobs[j], Claimed(jobs[j], w, now))
  BY <1>2, <1>3, ClaimedTells
<1> QED
  BY <1>2, <1>4, OneTells

\* What the cleaner does.
LEMMA CleanerTells ==
    ASSUME IInv, RowsKept, ErrorsKept, CleanerStep
    PROVE  \A k \in Jobs : Tells(jobs[k], jobs'[k])
<1>1. ASSUME NEW now \in Nows, CleanupExpire(now)
      PROVE  \A k \in Jobs : Tells(jobs[k], jobs'[k])
  <2>1. now \in Time
    BY NowsAreTimes DEF IInv
  <2>2. \A k \in Jobs : Tells(jobs[k], ExpireIfDue(jobs[k], now))
    BY <2>1, ExpiredTells DEF IInv, RowsKept, ErrorsKept
  <2>3. \A k \in Jobs : jobs'[k] = ExpireIfDue(jobs[k], now)
    BY <1>1 DEF CleanupExpire
  <2> QED
    BY <2>2, <2>3
<1>2. CASE CleanupPurge
  <2>1. \A k \in Jobs : jobs'[k] = IF Purgeable(jobs[k], cleaner)
                                    THEN Absent("deleted") ELSE jobs[k]
    BY <1>2 DEF CleanupPurge
  <2>2. \A k \in Jobs : Purgeable(jobs[k], cleaner) =>
                            Tells(jobs[k], Absent("deleted"))
    BY DeletedTells DEF Purgeable
  <2>3. \A k \in Jobs : Tells(jobs[k], jobs[k])
    BY SameTells DEF ErrorsKept
  <2> QED
    BY <2>1, <2>2, <2>3
<1>3. CASE CleanupFails
  BY <1>3, NoneTells DEF CleanupFails
<1> QED
  BY <1>1, <1>2, <1>3 DEF CleanerStep

\* Every step of the store, on every row.
LEMMA RowsTell == IInv /\ RowsKept /\ ErrorsKept /\ [Next]_vars =>
                      \A k \in Jobs : Tells(jobs[k], jobs'[k])
<1> SUFFICES ASSUME IInv, RowsKept, ErrorsKept, [Next]_vars
             PROVE  \A k \in Jobs : Tells(jobs[k], jobs'[k])
  OBVIOUS
<1>1. CASE WorkerStep \/ Tick \/ UNCHANGED vars
  <2>1. UNCHANGED jobs
    BY <1>1 DEF WorkerStep, RegisterWorker, HeartbeatWorker, DeleteWorker, Tick, vars
  <2> QED
    BY <2>1, NoneTells
<1>2. CASE JobStep
  BY <1>2, ClaimTells, HolderTells, OperatorTells DEF JobStep
<1>3. CASE CleanerStep
  BY <1>3, CleanerTells
<1> QED
  BY <1>1, <1>2, <1>3 DEF Next

-----------------------------------------------------------------------------
(* What the delivery does to a row: it writes its report and nothing else. *)

\* The columns of a report fit the methods and the rounds of its job.
InRange(job) ==
    /\ ReportBusy(job) => /\ job.report.cursor < job.methods
                          /\ job.report.round < ReportMaxRounds
                          /\ job.report.sends = {}
    /\ job.report.status = "failed" => /\ job.report.cursor = 0
                                       /\ job.report.round = ReportMaxRounds
                                       /\ job.report.error # NULL

\* A row that every transaction can count on.
Sound(job) == RowInv(job) /\ RowKept(job) /\ ErrorOfNewest(job) /\ InRange(job)

\* The cursor stays, or one try of the method at the cursor is over.
Tries(old, new) ==
    LET last == old.report.cursor + 1 = old.methods
    IN  /\ new.methods = old.methods
        /\ \/ /\ new.report.cursor = old.report.cursor
              /\ new.report.round = old.report.round
              /\ \/ new.report.status = old.report.status
                 \/ old.report.status = "pending" /\ new.report.status = "reporting"
                 \/ old.report.status = "reporting" /\ new.report.status = "success"
           \/ /\ old.report.status = "reporting"
              /\ new.report.status \in {"pending", "reporting", "failed"}
              /\ new.report.cursor = IF last THEN 0 ELSE old.report.cursor + 1
              /\ new.report.round = IF last THEN old.report.round + 1
                                    ELSE old.report.round

\* A row from one transaction of the delivery to the next.
Moves(old, new) ==
    /\ Sound(new)
    /\ new.worker = old.worker
    /\ SameLife(new, old)
    /\ Outcome(new) = Outcome(old) /\ Told(new) = Told(old)
    /\ old.report.status # NULL => Scheduled(old, new) /\ Tries(old, new)

\* What the store does keeps a report in range.
LEMMA ToldInRange ==
    ASSUME NEW old, NEW new, InRange(old), Tells(old, new)
    PROVE  InRange(new)
<1>1. CASE GoesOn(old, new)
  BY <1>1 DEF GoesOn, InRange, ReportBusy
<1>2. CASE new.report.status = NULL
  BY <1>2, NullIsNoString DEF InRange, ReportBusy, ReportStatuses
<1>3. CASE Fresh(new)
  BY <1>3, SettingsAssumption DEF InRange, ReportBusy, Fresh
<1> QED
  BY <1>1, <1>2, <1>3 DEF Tells, Restarts

\* A row that the delivery does not write.
LEMMA SameMoves ==
    ASSUME NEW job, Sound(job)
    PROVE  Moves(job, job)
  BY DEF Moves, SameLife, Scheduled, Tries

\* A report that is written over another one.
LEMMA WrittenMoves ==
    ASSUME NEW job, Sound(job), NEW report \in Report,
           job.report.status # NULL, report.status # NULL,
           report.status \in {"pending", "reporting"} <=> report.nextAt # NULL,
           report.status \in {"pending", "reporting"} => ReportBusy(job),
           InRange(WithReport(job, report)),
           Scheduled(job, WithReport(job, report)),
           Tries(job, WithReport(job, report))
    PROVE  Moves(job, WithReport(job, report))
<1> DEFINE m == WithReport(job, report)
<1>1. job \in Job
  BY DEF Sound, RowInv
<1>2. m \in Job
  BY <1>1 DEF WithReport, Job
<1>3. /\ m.report = report
      /\ m.status = job.status /\ m.worker = job.worker /\ m.token = job.token
      /\ m.until = job.until /\ m.available = job.available
      /\ m.error = job.error /\ m.attempts = job.attempts
      /\ m.result = job.result /\ m.finished = job.finished
      /\ SameFrame(m, job)
  BY <1>1 DEF WithReport, Job, SameFrame
<1> HIDE DEF m
<1>4. Newest(m) = Newest(job) /\ UsedAttempts(m) = UsedAttempts(job)
  BY <1>3, SameSpent DEF Newest, SameFrame
<1>5. RowInv(m)
  <2>1. LeaseChecks(m)
    BY <1>3 DEF Sound, RowInv, RowChecks, LeaseChecks, SameFrame
  <2>2. ReportChecks(m)
    BY <1>3 DEF Sound, RowInv, RowChecks, ReportChecks, ReportBusy, SameFrame
  <2>3. LogMatchesLease(m)
    BY <1>3, <1>4 DEF Sound, RowInv, LogMatchesLease
  <2> QED
    BY <1>2, <2>1, <2>2, <2>3 DEF RowInv, RowChecks
<1>6. RowKept(m)
  <2>1. Timely(m)
    BY <1>3, <1>4 DEF Sound, RowKept, Timely, DeadlineOfNewest, SameFrame
  <2>2. BudgetKept(m) /\ NewIsEmpty(m) /\ KeptIsNotLost(m)
    BY <1>3, <1>4 DEF Sound, RowKept, BudgetKept, WithinBudget, NewIsEmpty,
                      KeptIsNotLost, KeepsOldSuccess, SameFrame
  <2>3. ReportMatchesStatus(m)
    BY <1>3 DEF Sound, RowKept, ReportMatchesStatus, ReportBusy,
                KeepsOldSuccess, SameFrame
  <2> QED
    BY <2>1, <2>2, <2>3 DEF RowKept
<1>7. ErrorOfNewest(m)
  BY <1>3, <1>4 DEF Sound, ErrorOfNewest
<1>8. Outcome(m) = Outcome(job) /\ Told(m) = Told(job)
  BY <1>3, <1>4 DEF Outcome, Told
<1>9. SameLife(m, job)
  BY <1>3 DEF SameLife, SameFrame
<1> QED
  BY <1>3, <1>5, <1>6, <1>7, <1>8, <1>9 DEF Moves, Sound, m

\* The method after the one at the cursor is one send further.
LEMMA NextIsOneFurther ==
    ASSUME NEW report \in Report, NEW methods \in Nat, report.cursor < methods,
           report.round < ReportMaxRounds, NEW error \in SendErrors
    PROVE  LET next == NextMethod(report, methods, error)
               last == report.cursor + 1 = methods
           IN  /\ next \in Report
               /\ next.cursor = IF last THEN 0 ELSE report.cursor + 1
               /\ next.round = IF last THEN report.round + 1 ELSE report.round
               /\ next.cursor < methods
               /\ next.round <= ReportMaxRounds
               /\ next.round # report.round => next.cursor = 0
               /\ next.error = error /\ next.sends = report.sends
               /\ Position(next, methods) = Position(report, methods) + 1
<1> DEFINE next == NextMethod(report, methods, error)
<1>1. report.cursor \in Nat /\ report.round \in Nat /\ ReportMaxRounds \in Nat
  BY SettingsAssumption DEF Report
<1>2. CASE report.cursor + 1 = methods
  <2> DEFINE round == report.round + 1
  <2>1. round \in Nat
    BY <1>1
  <2>2. (report.round + 1) * methods = report.round * methods + methods
    BY <1>1
  <2>3. next = [report EXCEPT !.cursor = 0, !.round = round, !.error = error]
    BY <1>2 DEF NextMethod, Report
  <2> HIDE DEF round, next
  <2>4. /\ next \in Report
        /\ next.cursor = 0 /\ next.round = round
        /\ next.error = error /\ next.sends = report.sends
    BY <2>1, <2>3 DEF Report
  <2>5. Position(next, methods) = round * methods
    <3>1. round * methods \in Nat
      BY <2>1
    <3> QED
      BY <2>4, <3>1 DEF Position
  <2>6. Position(report, methods) + 1 = report.round * methods + methods
    <3>1. report.round * methods \in Nat
      BY <1>1
    <3> HIDE DEF next
    <3> QED
      BY <1>1, <1>2, <3>1 DEF Position
  <2> QED
    BY <1>1, <1>2, <2>2, <2>4, <2>5, <2>6 DEF round, next
<1>3. CASE report.cursor + 1 # methods
  <2> DEFINE cursor == report.cursor + 1
  <2>1. cursor \in Nat /\ cursor < methods
    BY <1>1, <1>3
  <2>2. next = [report EXCEPT !.cursor = cursor, !.error = error]
    BY <1>3 DEF NextMethod, Report
  <2> HIDE DEF cursor
  <2>3. /\ next \in Report
        /\ next.cursor = cursor /\ next.round = report.round
        /\ next.error = error /\ next.sends = report.sends
    BY <2>1, <2>2 DEF Report
  <2> HIDE DEF next
  <2>4. Position(next, methods) = Position(report, methods) + 1
    <3>1. report.round * methods \in Nat
      BY <1>1
    <3> QED
      BY <1>1, <2>3, <3>1 DEF Position, cursor
  <2> QED
    BY <1>1, <1>3, <2>1, <2>3, <2>4 DEF cursor, next
<1> QED
  BY <1>2, <1>3

\* A send that failed, or was interrupted, goes to the next method or ends
\* the report.
LEMMA AdvancedMoves ==
    ASSUME NEW job, Sound(job), job.report.status = "reporting",
           NEW error \in SendErrors, NEW now \in Time
    PROVE  LET m == AdvanceReport(job, error, now)
           IN  /\ Moves(job, m) /\ Tries(job, m)
               /\ m.report.status \in {"pending", "failed"}
               /\ Position(m.report, m.methods) =
                     Position(job.report, job.methods) + 1
<1> DEFINE methods == job.methods
           next == NextMethod(job.report, methods, error)
           at == now + ReportBackoff(Position(next, methods))
           report == Advanced(job.report, methods, error, now)
           m == AdvanceReport(job, error, now)
<1>1. /\ job \in Job /\ job.report \in Report /\ methods \in Nat
      /\ ReportBusy(job)
      /\ job.report.cursor < methods /\ job.report.round < ReportMaxRounds
      /\ job.report.sends = {}
  BY DEF Sound, RowInv, Job, InRange, ReportBusy
<1>2. m = WithReport(job, report)
  BY DEF AdvanceReport
<1>3. at \in Time /\ at # NULL
  <2>1. ReportBackoff(Position(next, methods)) \in 0..ReportCapMs
    BY BackoffIsADelay, SettingsAssumption DEF ReportBackoff
  <2>2. at \in Nat
    BY <2>1, SettingsAssumption DEF Time
  <2> QED
    BY <2>2, NullAssumption DEF Time
<1>4. report = IF next.round >= ReportMaxRounds
               THEN [next EXCEPT !.status = "failed", !.nextAt = NULL]
               ELSE [next EXCEPT !.status = "pending", !.nextAt = at]
  BY DEF Advanced
<1>5. /\ next \in Report
      /\ next.cursor = IF job.report.cursor + 1 = methods THEN 0
                       ELSE job.report.cursor + 1
      /\ next.round = IF job.report.cursor + 1 = methods THEN job.report.round + 1
                      ELSE job.report.round
      /\ next.cursor < methods
      /\ next.round <= ReportMaxRounds
      /\ next.round # job.report.round => next.cursor = 0
      /\ next.error = error /\ next.sends = {}
      /\ Position(next, methods) = Position(job.report, methods) + 1
  BY <1>1, NextIsOneFurther
<1> HIDE DEF next, at, report
<1>6. /\ report \in Report
      /\ report.cursor = next.cursor /\ report.round = next.round
      /\ report.error = error /\ report.sends = {}
      /\ report.status \in {"pending", "failed"}
      /\ report.status = "pending" <=> report.nextAt # NULL
      /\ report.status = "failed" <=> report.round >= ReportMaxRounds
  BY <1>3, <1>4, <1>5 DEF Report, ReportStatuses
<1>7. next.round \in Nat /\ ReportMaxRounds \in Nat /\ job.report.round \in Nat
  BY <1>1, <1>5, SettingsAssumption DEF Report
<1>8. m.report = report /\ m.methods = methods
  BY <1>1, <1>2, <1>6 DEF WithReport, Job
<1>9. Position(report, methods) = Position(job.report, methods) + 1
  BY <1>5, <1>6 DEF Position
<1>10. report.status # NULL /\ error # NULL
  BY <1>6, NullIsNoString, NullAssumption DEF ReportStatuses
<1> HIDE DEF m, methods
<1>11. InRange(m)
  <2>1. CASE report.status = "pending"
    BY <1>5, <1>6, <1>7, <1>8, <2>1 DEF InRange, ReportBusy
  <2>2. CASE report.status = "failed"
    <3>1. report.round = ReportMaxRounds
      BY <1>5, <1>6, <1>7, <2>2
    <3>2. report.cursor = 0
      BY <1>1, <1>5, <1>6, <1>7, <3>1
    <3> QED
      BY <1>6, <1>8, <1>10, <2>2, <3>1, <3>2 DEF InRange, ReportBusy
  <2> QED
    BY <1>6, <2>1, <2>2
<1>12. Scheduled(job, m)
  BY <1>8, <1>9 DEF Scheduled, methods
<1>13. Tries(job, m)
  BY <1>5, <1>6, <1>8 DEF Tries, methods
<1>14. Moves(job, m)
  <2>1. job.report.status # NULL
    BY NullIsNoString DEF ReportStatuses
  <2> QED
    BY <1>1, <1>2, <1>6, <1>10, <1>11, <1>12, <1>13, <2>1, WrittenMoves
<1> QED
  BY <1>6, <1>8, <1>9, <1>13, <1>14 DEF m, methods

\* An interrupted send is counted when the next one is looked for.
LEMMA CountedMoves ==
    ASSUME NEW job, Sound(job), NEW now \in Time
    PROVE  LET c == Counted(job, now)
           IN  /\ Moves(job, c)
               /\ \/ c = job
                  \/ /\ c.report.status \in {"pending", "failed"}
                     /\ job.report.status = "reporting" /\ Tries(job, c)
                     /\ Position(c.report, c.methods) =
                           Position(job.report, job.methods) + 1
<1>1. CASE Overdue(job, now)
  <2>1. job.report.status = "reporting" /\ "interrupted" \in SendErrors
    BY <1>1 DEF Overdue, SendErrors
  <2>2. Counted(job, now) = AdvanceReport(job, "interrupted", now)
    BY <1>1 DEF Counted
  <2> QED
    BY <2>1, <2>2, AdvancedMoves
<1>2. CASE ~Overdue(job, now)
  <2>1. Counted(job, now) = job
    BY <1>2 DEF Counted
  <2> QED
    BY <2>1, SameMoves
<1> QED
  BY <1>1, <1>2

\* The report that is sent next.
LEMMA TakenMoves ==
    ASSUME NEW job, Sound(job), NEW now \in Time, NEW token \in Time,
           Due(Counted(job, now), now)
    PROVE  LET m == Taken(Counted(job, now), token)
           IN  Moves(job, m) /\ m.report.status = "reporting"
<1> DEFINE c == Counted(job, now)
           report == [c.report EXCEPT !.status = "reporting", !.nextAt = token]
           m == Taken(c, token)
<1>1. /\ Moves(job, c)
      /\ \/ c = job
         \/ /\ job.report.status = "reporting" /\ Tries(job, c)
            /\ Position(c.report, c.methods) =
                  Position(job.report, job.methods) + 1
  BY CountedMoves
<1>2. c.report.status = "pending"
  BY DEF Due
<1>3. Sound(c) /\ c \in Job /\ c.report \in Report /\ ReportBusy(c)
  BY <1>1, <1>2 DEF Moves, Sound, RowInv, Job, ReportBusy
<1> HIDE DEF c
<1>4. /\ report \in Report /\ report.status = "reporting"
      /\ report.nextAt = token /\ token # NULL
      /\ report.cursor = c.report.cursor /\ report.round = c.report.round
      /\ report.error = c.report.error /\ report.sends = c.report.sends
  <2>1. token # NULL
    BY NullAssumption DEF Time
  <2>2. report \in Report
    BY <1>3 DEF Report, ReportStatuses
  <2> QED
    BY <1>3, <2>1, <2>2 DEF Report
<1>5. m = WithReport(c, report)
  BY DEF Taken
<1> HIDE DEF report
<1>6. m.report = report /\ m.methods = c.methods
  BY <1>3, <1>5 DEF WithReport, Job
<1>7. Position(report, c.methods) = Position(c.report, c.methods)
  BY <1>4 DEF Position
<1> HIDE DEF m
<1>8. InRange(m)
  BY <1>3, <1>4, <1>6 DEF Sound, InRange, ReportBusy
<1>9. Scheduled(c, m)
  BY <1>2, <1>4, <1>6, <1>7 DEF Scheduled
<1>10. Tries(c, m)
  BY <1>2, <1>4, <1>6 DEF Tries
<1>11. Moves(c, m)
  BY <1>2, <1>3, <1>4, <1>5, <1>8, <1>9, <1>10, WrittenMoves, NullIsNoString
     DEF ReportStatuses
<1>12. job.report.status # NULL => Scheduled(job, m) /\ Tries(job, m)
  <2>1. CASE c = job
    BY <1>9, <1>10, <2>1
  <2>2. CASE /\ job.report.status = "reporting" /\ Tries(job, c)
             /\ Position(c.report, c.methods) =
                   Position(job.report, job.methods) + 1
    <3>1. Scheduled(job, m)
      BY <1>6, <1>7, <2>2 DEF Scheduled
    <3>2. Tries(job, m)
      <4>1. c.report.cursor = (IF job.report.cursor + 1 = job.methods THEN 0
                               ELSE job.report.cursor + 1)
            /\ c.report.round = (IF job.report.cursor + 1 = job.methods
                                 THEN job.report.round + 1 ELSE job.report.round)
        BY <1>2, <2>2 DEF Tries
      <4>2. m.methods = job.methods
        BY <1>6, <2>2 DEF Tries
      <4> QED
        BY <1>4, <1>6, <2>2, <4>1, <4>2 DEF Tries
    <3> QED
      BY <3>1, <3>2
  <2> QED
    BY <1>1, <2>1, <2>2
<1> QED
  BY <1>1, <1>4, <1>6, <1>11, <1>12 DEF Moves, SameLife, m, c

\* The provider's 2xx.
LEMMA DeliveredMoves ==
    ASSUME NEW job, Sound(job), job.report.status = "reporting"
    PROVE  Moves(job, Delivered(job)) /\ Delivered(job).report.status = "success"
<1> DEFINE report == [job.report EXCEPT !.status = "success", !.nextAt = NULL,
                                        !.error = NULL]
           m == Delivered(job)
<1>1. job \in Job /\ job.report \in Report
  BY DEF Sound, RowInv, Job
<1>2. /\ report \in Report /\ report.status = "success"
      /\ report.nextAt = NULL
      /\ report.cursor = job.report.cursor /\ report.round = job.report.round
  BY <1>1 DEF Report, ReportStatuses
<1>3. m = WithReport(job, report)
  BY DEF Delivered
<1> HIDE DEF report
<1>4. m.report = report /\ m.methods = job.methods
  BY <1>1, <1>3 DEF WithReport, Job
<1> HIDE DEF m
<1>5. InRange(m)
  BY <1>2, <1>4 DEF InRange, ReportBusy
<1>6. Scheduled(job, m)
  BY <1>2, <1>4 DEF Scheduled, Position
<1>7. job.report.status # NULL /\ report.status # NULL
  BY <1>2, NullIsNoString DEF ReportStatuses
<1>8. Tries(job, m)
  BY <1>2, <1>4 DEF Tries
<1> QED
  BY <1>2, <1>3, <1>4, <1>5, <1>6, <1>7, <1>8, WrittenMoves DEF m

\* An operator's send of a settled report.
LEMMA ResentMoves ==
    ASSUME NEW job, Sound(job), Resendable(job), NEW index \in Nat
    PROVE  LET report == [job.report EXCEPT !.sends = @ \cup {index}]
               m == WithReport(job, report)
           IN  Moves(job, m) /\ m.report.status = job.report.status
<1> DEFINE report == [job.report EXCEPT !.sends = @ \cup {index}]
           m == WithReport(job, report)
<1>1. job \in Job /\ job.report \in Report
  BY DEF Sound, RowInv, Job
<1>2. /\ report \in Report /\ report.status = job.report.status
      /\ report.nextAt = job.report.nextAt /\ report.error = job.report.error
      /\ report.cursor = job.report.cursor /\ report.round = job.report.round
  BY <1>1 DEF Report
<1>3. ~ReportBusy(job) /\ job.report.status # NULL
  BY NullIsNoString DEF Resendable, ReportBusy, ReportStatuses
<1>4. job.report.nextAt = NULL
  BY <1>3 DEF Sound, RowInv, RowChecks, ReportChecks
<1> HIDE DEF report
<1>5. m.report = report /\ m.methods = job.methods
  BY <1>1 DEF WithReport, Job
<1>6. InRange(m)
  BY <1>2, <1>3, <1>5 DEF Sound, InRange, ReportBusy
<1>7. Scheduled(job, m)
  BY <1>2, <1>3, <1>5 DEF Scheduled, Position, ReportBusy
<1>8. Tries(job, m)
  BY <1>2, <1>5 DEF Tries
<1>9. Moves(job, m)
  BY <1>2, <1>3, <1>4, <1>6, <1>7, <1>8, WrittenMoves DEF ReportBusy
<1> QED
  BY <1>2, <1>5, <1>9 DEF report

-----------------------------------------------------------------------------
(* The whole backend. *)

\* A send under way whose report still waits is of the outcome the job has.
SendingTells ==
    LET job == jobs[sending.job]
    IN  sending # NULL /\ job.report.status = "reporting"
        => sending.outcome = Outcome(job)

\* What a delivered report says was acknowledged.
AckedTells ==
    \A j \in Jobs : jobs[j].report.status = "success" => Told(jobs[j]) \in acked[j]

\* OutcomeAcknowledged alone is not inductive: that an answer is of the outcome
\* its report is about needs SendingTells, that a reclaim and another failure
\* are another outcome needs ErrorOfNewest, and that a replay restores what was
\* acknowledged needs Told.
DInv ==
    /\ IInv
    /\ \A j \in Jobs : Sound(jobs[j])
    /\ sending \in Send \cup {NULL}
    /\ manual \in [ManualRequests -> ManualSend \cup {NULL}]
    /\ acked \in [Jobs -> SUBSET OutcomeType]
    /\ SendingTells
    /\ AckedTells

LEMMA RowsSound == DInv => RowsKept /\ ErrorsKept
  BY DEF DInv, Sound, RowsKept, ErrorsKept

LEMMA OutcomeTyped ==
    ASSUME NEW job \in Job
    PROVE  Outcome(job) \in OutcomeType
<1> DEFINE attempt == IF job.status = "success" THEN job.result ELSE Newest(job)
<1>1. attempt \in Nat \cup {NULL}
  BY DEF Job, Newest
<1>2. /\ job.status \in Statuses /\ job.finished \in Time \cup {NULL}
      /\ job.error \in JobErrors \cup {NULL}
  BY DEF Job
<1> QED
  BY <1>1, <1>2 DEF Outcome, OutcomeType

\* A report that waits is about the outcome of its job.
LEMMA BusyTellsOutcome ==
    ASSUME NEW job, Sound(job), ReportBusy(job)
    PROVE  Told(job) = Outcome(job)
<1>1. job.status \in {"success", "failed"}
  BY DEF Sound, RowKept, ReportMatchesStatus
<1> QED
  BY <1>1 DEF Told

\* A transaction of the delivery keeps the invariant, and no life moves.
LEMMA DeliveryKeeps ==
    ASSUME DInv, UNCHANGED <<leases, clock>>, cleaner' \in {NULL, cleaner},
           jobs' = [j \in Jobs |-> jobs'[j]],
           \A j \in Jobs : Moves(jobs[j], jobs'[j]),
           sending' \in Send \cup {NULL},
           manual' \in [ManualRequests -> ManualSend \cup {NULL}],
           acked' \in [Jobs -> SUBSET OutcomeType],
           \A j \in Jobs : acked[j] \subseteq acked'[j],
           \A j \in Jobs : jobs'[j].report.status = "success" =>
              jobs[j].report.status = "success" \/ Told(jobs[j]) \in acked'[j],
           sending' # NULL /\ jobs'[sending'.job].report.status = "reporting" =>
              sending'.outcome = Outcome(jobs[sending'.job])
    PROVE  DInv' /\ UNCHANGED lives
<1>1. \A j \in Jobs : /\ Sound(jobs'[j])
                      /\ jobs'[j].worker = jobs[j].worker
                      /\ Outcome(jobs'[j]) = Outcome(jobs[j])
                      /\ Told(jobs'[j]) = Told(jobs[j])
                      /\ LifeOf(jobs'[j]) = LifeOf(jobs[j])
  BY SameLifeIsOne DEF Moves
<1>2. IInv'
  <2>1. cleaner' \in Time \cup {NULL}
    BY DEF DInv, IInv, TypeOK
  <2>2. \A j \in Jobs : RowInv(jobs'[j])
    BY <1>1 DEF Sound
  <2>3. IInv
    BY DEF DInv
  <2> QED
    BY <1>1, <2>1, <2>2, <2>3, RowsWritten
<1>3. SendingTells'
  <2> SUFFICES ASSUME sending' # NULL, jobs'[sending'.job].report.status = "reporting"
               PROVE  sending'.outcome = Outcome(jobs'[sending'.job])
    BY DEF SendingTells
  <2>1. sending'.job \in Jobs
    BY DEF Send
  <2> QED
    BY <1>1, <2>1
<1>4. AckedTells'
  BY <1>1 DEF DInv, AckedTells
<1>5. UNCHANGED lives
  BY <1>1 DEF lives
<1> QED
  BY <1>1, <1>2, <1>3, <1>4, <1>5 DEF DInv

\* Nothing is written.
LEMMA NoneMoves ==
    ASSUME DInv, UNCHANGED jobs
    PROVE  /\ jobs' = [j \in Jobs |-> jobs'[j]]
           /\ \A j \in Jobs : Moves(jobs[j], jobs'[j])
<1>1. jobs = [j \in Jobs |-> jobs[j]]
  BY DEF DInv, IInv, TypeOK
<1> QED
  BY <1>1, SameMoves DEF DInv

\* One row is written.
LEMMA OneMoves ==
    ASSUME DInv, NEW j \in Jobs, NEW row, Moves(jobs[j], row), Update(j, row)
    PROVE  /\ jobs' = [k \in Jobs |-> jobs'[k]]
           /\ \A k \in Jobs : jobs'[k] = IF k = j THEN row ELSE jobs[k]
           /\ \A k \in Jobs : Moves(jobs[k], jobs'[k])
<1>1. jobs \in [Jobs -> Job] /\ jobs' = [jobs EXCEPT ![j] = row]
  BY DEF DInv, IInv, TypeOK, Update
<1>2. \A k \in Jobs : jobs'[k] = IF k = j THEN row ELSE jobs[k]
  BY <1>1
<1>3. jobs' = [k \in Jobs |-> jobs'[k]]
  BY <1>1
<1>4. \A k \in Jobs : Moves(jobs[k], jobs[k])
  BY SameMoves DEF DInv
<1> QED
  BY <1>2, <1>3, <1>4

-----------------------------------------------------------------------------
(* The steps of the delivery. *)

\* A step of the delivery for each row.
Delivers ==
    /\ DInv' /\ UNCHANGED lives
    /\ \A j \in Jobs : Moves(jobs[j], jobs'[j])

LEMMA NothingDueDelivers ==
    ASSUME DInv, NEW now \in Nows, NothingDue(now)
    PROVE  Delivers
<1>1. /\ sending = NULL
      /\ jobs' = [j \in Jobs |-> Counted(jobs[j], now)]
      /\ UNCHANGED <<leases, clock, cleaner, sending, manual, acked>>
  BY DEF NothingDue
<1>2. now \in Time /\ \A j \in Jobs : Sound(jobs[j])
  BY NowsAreTimes DEF DInv, IInv
<1>3. \A j \in Jobs : jobs'[j] = Counted(jobs[j], now)
  BY <1>1
<1>4. jobs' = [j \in Jobs |-> jobs'[j]]
  BY <1>1
<1>5. \A j \in Jobs : /\ Moves(jobs[j], jobs'[j])
                      /\ jobs'[j].report.status = "success" =>
                            jobs[j].report.status = "success"
  BY <1>2, <1>3, CountedMoves
<1>6. DInv' /\ UNCHANGED lives
  BY <1>1, <1>4, <1>5, DeliveryKeeps DEF DInv
<1> QED
  BY <1>5, <1>6 DEF Delivers

LEMMA TakeDueDelivers ==
    ASSUME DInv, NEW now \in Nows, NEW j \in Jobs, TakeDueReport(j, now)
    PROVE  Delivers
<1> DEFINE counted == [k \in Jobs |-> Counted(jobs[k], now)]
           token == now + ReportTimeoutMs
           row == Taken(Counted(jobs[j], now), token)
<1>1. /\ sending = NULL
      /\ Due(counted[j], now)
      /\ jobs' = [counted EXCEPT ![j] = Taken(@, token)]
      /\ sending' = [job |-> j, token |-> token, outcome |-> Outcome(jobs[j])]
      /\ UNCHANGED <<leases, clock, cleaner, manual, acked>>
  BY DEF TakeDueReport
<1>2. /\ now \in Time /\ token \in Time
      /\ \A k \in Jobs : Sound(jobs[k])
  <2>1. now \in Time
    BY NowsAreTimes DEF DInv, IInv
  <2> QED
    BY <2>1, DeliveryAssumption DEF DInv, Time
<1>3. Due(Counted(jobs[j], now), now)
  BY <1>1
<1>4. /\ jobs' = [k \in Jobs |-> jobs'[k]]
      /\ \A k \in Jobs : jobs'[k] = IF k = j THEN row
                                             ELSE Counted(jobs[k], now)
  BY <1>1
<1> HIDE DEF token
<1>5. Moves(jobs[j], row) /\ row.report.status = "reporting"
  BY <1>2, <1>3, TakenMoves
<1>6. \A k \in Jobs : /\ Moves(jobs[k], Counted(jobs[k], now))
                      /\ Counted(jobs[k], now).report.status = "success" =>
                            jobs[k].report.status = "success"
  BY <1>2, CountedMoves
<1> HIDE DEF row, counted
<1>7. \A k \in Jobs : /\ Moves(jobs[k], jobs'[k])
                      /\ jobs'[k].report.status = "success" =>
                            jobs[k].report.status = "success"
  BY <1>4, <1>5, <1>6
<1>8. sending' \in Send /\ sending'.job = j /\ sending'.outcome = Outcome(jobs[j])
  <2>1. Outcome(jobs[j]) \in OutcomeType
    BY <1>2, OutcomeTyped DEF Sound, RowInv
  <2> QED
    BY <1>1, <1>2, <2>1 DEF Send
<1>9. DInv' /\ UNCHANGED lives
  BY <1>1, <1>4, <1>7, <1>8, DeliveryKeeps DEF DInv
<1> QED
  BY <1>7, <1>9 DEF Delivers

LEMMA SendDeliveredDelivers == ASSUME DInv, SendDelivered PROVE Delivers
<1> DEFINE j == sending.job
           row == IF IsThatSend(jobs[j], sending.token) THEN Delivered(jobs[j])
                  ELSE jobs[j]
<1>1. /\ sending # NULL /\ Update(j, row)
      /\ acked' = [acked EXCEPT ![j] = @ \cup {sending.outcome}]
      /\ sending' = NULL
      /\ UNCHANGED <<leases, clock, cleaner, manual>>
  BY DEF SendDelivered, Acknowledge
<1>2. j \in Jobs /\ sending.outcome \in OutcomeType
  BY <1>1 DEF DInv, Send
<1>3. \A k \in Jobs : Sound(jobs[k])
  BY DEF DInv
<1>4. /\ Moves(jobs[j], row)
      /\ row.report.status = "success" =>
            jobs[j].report.status = "success" \/ Told(jobs[j]) = sending.outcome
  <2>1. CASE IsThatSend(jobs[j], sending.token)
    <3>1. jobs[j].report.status = "reporting" /\ row = Delivered(jobs[j])
      BY <2>1 DEF IsThatSend
    <3>2. Told(jobs[j]) = Outcome(jobs[j])
      BY <1>2, <1>3, <3>1, BusyTellsOutcome DEF ReportBusy
    <3>3. sending.outcome = Outcome(jobs[j])
      BY <1>1, <3>1 DEF DInv, SendingTells
    <3> QED
      BY <1>2, <1>3, <3>1, <3>2, <3>3, DeliveredMoves
  <2>2. CASE ~IsThatSend(jobs[j], sending.token)
    BY <1>2, <1>3, <2>2, SameMoves
  <2> QED
    BY <2>1, <2>2
<1> HIDE DEF row
<1>5. /\ jobs' = [k \in Jobs |-> jobs'[k]]
      /\ \A k \in Jobs : jobs'[k] = IF k = j THEN row ELSE jobs[k]
      /\ \A k \in Jobs : Moves(jobs[k], jobs'[k])
  BY <1>1, <1>2, <1>4, OneMoves
<1> HIDE DEF j
<1>6. /\ acked' \in [Jobs -> SUBSET OutcomeType]
      /\ \A k \in Jobs : acked[k] \subseteq acked'[k]
      /\ sending.outcome \in acked'[j]
  BY <1>1, <1>2 DEF DInv
<1>7. DInv' /\ UNCHANGED lives
  BY <1>1, <1>4, <1>5, <1>6, DeliveryKeeps DEF DInv
<1> QED
  BY <1>5, <1>7 DEF Delivers

LEMMA SendFailedDelivers ==
    ASSUME DInv, NEW now \in Nows, SendFailed(now)
    PROVE  Delivers
<1> DEFINE j == sending.job
           row == IF IsThatSend(jobs[j], sending.token)
                  THEN AdvanceReport(jobs[j], "send_failed", now) ELSE jobs[j]
<1>1. /\ sending # NULL /\ Update(j, row) /\ sending' = NULL
      /\ UNCHANGED <<leases, clock, cleaner, manual, acked>>
  BY DEF SendFailed
<1>2. j \in Jobs /\ now \in Time
  BY <1>1, NowsAreTimes DEF DInv, IInv, Send
<1>3. \A k \in Jobs : Sound(jobs[k])
  BY DEF DInv
<1>4. /\ Moves(jobs[j], row)
      /\ row.report.status = "success" => jobs[j].report.status = "success"
  <2>1. CASE IsThatSend(jobs[j], sending.token)
    <3>1. /\ jobs[j].report.status = "reporting"
          /\ row = AdvanceReport(jobs[j], "send_failed", now)
          /\ "send_failed" \in SendErrors
      BY <2>1 DEF IsThatSend, SendErrors
    <3> QED
      BY <1>2, <1>3, <3>1, AdvancedMoves
  <2>2. CASE ~IsThatSend(jobs[j], sending.token)
    BY <1>2, <1>3, <2>2, SameMoves
  <2> QED
    BY <2>1, <2>2
<1> HIDE DEF row
<1>5. /\ jobs' = [k \in Jobs |-> jobs'[k]]
      /\ \A k \in Jobs : jobs'[k] = IF k = j THEN row ELSE jobs[k]
      /\ \A k \in Jobs : Moves(jobs[k], jobs'[k])
  BY <1>1, <1>2, <1>4, OneMoves
<1> HIDE DEF j
<1>6. DInv' /\ UNCHANGED lives
  BY <1>1, <1>4, <1>5, DeliveryKeeps DEF DInv
<1> QED
  BY <1>5, <1>6 DEF Delivers

LEMMA ReporterFailsDelivers == ASSUME DInv, ReporterFails PROVE Delivers
<1>1. /\ sending' = NULL
      /\ UNCHANGED <<jobs, leases, clock, cleaner, manual, acked>>
  BY DEF ReporterFails
<1>2. /\ jobs' = [j \in Jobs |-> jobs'[j]]
      /\ \A j \in Jobs : Moves(jobs[j], jobs'[j])
  BY <1>1, NoneMoves
<1>3. DInv' /\ UNCHANGED lives
  BY <1>1, <1>2, DeliveryKeeps DEF DInv
<1> QED
  BY <1>2, <1>3 DEF Delivers

LEMMA ResendDelivers ==
    ASSUME DInv, NEW r \in ManualRequests, NEW j \in Jobs, NEW index \in Nat,
           ResendReport(r, j, index)
    PROVE  Delivers
<1> DEFINE send == [job |-> j, index |-> index, outcome |-> Outcome(jobs[j])]
<1>1. /\ manual' = [manual EXCEPT ![r] = send]
      /\ UNCHANGED <<jobs, leases, clock, cleaner, sending, acked>>
  BY DEF ResendReport
<1>2. send \in ManualSend
  <2>1. Outcome(jobs[j]) \in OutcomeType
    BY OutcomeTyped DEF DInv, Sound, RowInv
  <2> QED
    BY <2>1 DEF ManualSend
<1> HIDE DEF send
<1>3. manual' \in [ManualRequests -> ManualSend \cup {NULL}]
  BY <1>1, <1>2 DEF DInv
<1>4. /\ jobs' = [k \in Jobs |-> jobs'[k]]
      /\ \A k \in Jobs : Moves(jobs[k], jobs'[k])
  BY <1>1, NoneMoves
<1>5. sending' # NULL /\ jobs'[sending'.job].report.status = "reporting" =>
         sending'.outcome = Outcome(jobs[sending'.job])
  BY <1>1 DEF DInv, SendingTells
<1>6. DInv' /\ UNCHANGED lives
  BY <1>1, <1>3, <1>4, <1>5, DeliveryKeeps DEF DInv
<1> QED
  BY <1>4, <1>6 DEF Delivers

LEMMA RecordDelivers ==
    ASSUME DInv, NEW r \in ManualRequests, NEW delivered \in BOOLEAN,
           RecordManualSend(r, delivered)
    PROVE  Delivers
<1> DEFINE send == manual[r]
           j == send.job
           sent == [jobs[j].report EXCEPT !.sends = @ \cup {send.index}]
           row == IF Resendable(jobs[j]) THEN WithReport(jobs[j], sent)
                  ELSE jobs[j]
<1>1. /\ send # NULL /\ Update(j, row)
      /\ acked' = [acked EXCEPT ![j] = @ \cup {send.outcome}] \/ acked' = acked
      /\ manual' = [manual EXCEPT ![r] = NULL]
      /\ UNCHANGED <<leases, clock, cleaner, sending>>
  BY DEF RecordManualSend, Acknowledge
<1>2. j \in Jobs /\ send.index \in Nat /\ send.outcome \in OutcomeType
  <2>1. send \in ManualSend
    BY <1>1 DEF DInv
  <2> QED
    BY <2>1 DEF ManualSend
<1>3. \A k \in Jobs : Sound(jobs[k])
  BY DEF DInv
<1>4. Moves(jobs[j], row) /\ row.report.status = jobs[j].report.status
  <2>1. CASE Resendable(jobs[j])
    BY <1>2, <1>3, <2>1, ResentMoves
  <2>2. CASE ~Resendable(jobs[j])
    BY <1>2, <1>3, <2>2, SameMoves
  <2> QED
    BY <2>1, <2>2
<1> HIDE DEF row
<1>5. /\ jobs' = [k \in Jobs |-> jobs'[k]]
      /\ \A k \in Jobs : jobs'[k] = IF k = j THEN row ELSE jobs[k]
      /\ \A k \in Jobs : Moves(jobs[k], jobs'[k])
  BY <1>1, <1>2, <1>4, OneMoves
<1> HIDE DEF j, send
<1>6. /\ acked' \in [Jobs -> SUBSET OutcomeType]
      /\ \A k \in Jobs : acked[k] \subseteq acked'[k]
  BY <1>1, <1>2 DEF DInv
<1>7. manual' \in [ManualRequests -> ManualSend \cup {NULL}]
  BY <1>1 DEF DInv
<1>8. \A k \in Jobs : jobs'[k].report.status = jobs[k].report.status
  BY <1>4, <1>5
<1>9. sending' # NULL /\ jobs'[sending'.job].report.status = "reporting" =>
         sending'.outcome = Outcome(jobs[sending'.job])
  <2>1. sending # NULL => sending.job \in Jobs
    BY DEF DInv, Send
  <2> QED
    BY <1>1, <1>8, <2>1 DEF DInv, SendingTells
<1>10. DInv' /\ UNCHANGED lives
  BY <1>1, <1>5, <1>6, <1>7, <1>8, <1>9, DeliveryKeeps DEF DInv
<1> QED
  BY <1>5, <1>10 DEF Delivers

LEMMA CrashDelivers == ASSUME DInv, Crash PROVE Delivers
<1>1. /\ sending' = NULL /\ manual' = [r \in ManualRequests |-> NULL]
      /\ cleaner' = NULL
      /\ UNCHANGED <<jobs, leases, clock, acked>>
  BY DEF Crash
<1>2. manual' \in [ManualRequests -> ManualSend \cup {NULL}]
  BY <1>1
<1>3. /\ jobs' = [j \in Jobs |-> jobs'[j]]
      /\ \A j \in Jobs : Moves(jobs[j], jobs'[j])
  BY <1>1, NoneMoves
<1>4. DInv' /\ UNCHANGED lives
  BY <1>1, <1>2, <1>3, DeliveryKeeps DEF DInv
<1> QED
  BY <1>3, <1>4 DEF Delivers

LEMMA DeliveryStepDelivers == ASSUME DInv, DeliveryStep PROVE Delivers
<1>1. CASE TakeStep
  BY <1>1, NothingDueDelivers, TakeDueDelivers DEF TakeStep
<1>2. CASE SendEnds
  BY <1>2, SendDeliveredDelivers, SendFailedDelivers, ReporterFailsDelivers
     DEF SendEnds
<1>3. CASE ManualStep
  <2>1. \A index \in 0..(MaxMethods - 1) : index \in Nat
    OBVIOUS
  <2> QED
    BY <1>3, <2>1, ResendDelivers, RecordDelivers DEF ManualStep
<1>4. CASE Crash
  BY <1>4, CrashDelivers
<1> QED
  BY <1>1, <1>2, <1>3, <1>4 DEF DeliveryStep

-----------------------------------------------------------------------------
(* The steps of the store, beside a delivery. *)

\* For one outcome, a report moves on only by its sends.
Counts(old, new) ==
    old.report.status # NULL /\ Outcome(new) = Outcome(old)
    => Scheduled(old, new) /\ Tries(old, new)

LEMMA ToldCounts ==
    ASSUME NEW old, NEW new, Tells(old, new)
    PROVE  Counts(old, new)
<1>1. CASE GoesOn(old, new)
  BY <1>1 DEF GoesOn, Counts, Scheduled, Tries
<1>2. CASE Restarts(old, new)
  BY <1>2 DEF Restarts, Counts
<1> QED
  BY <1>1, <1>2 DEF Tells

LEMMA StoreStepKeeps ==
    ASSUME DInv, [Next]_vars, UNCHANGED deliveryVars
    PROVE  DInv' /\ \A j \in Jobs : Counts(jobs[j], jobs'[j])
<1>1. IInv /\ RowsKept /\ ErrorsKept
  BY RowsSound DEF DInv
<1>2. \A j \in Jobs : Tells(jobs[j], jobs'[j]) /\ RowKept(jobs'[j])
  BY <1>1, RowsTell, RowsFollow DEF Follows
<1>3. IInv'
  BY <1>1, NextHolds
<1>4. \A j \in Jobs : Sound(jobs'[j])
  BY <1>2, <1>3, ToldInRange DEF DInv, IInv, Sound, Tells
<1>5. UNCHANGED <<sending, manual, acked>>
  BY DEF deliveryVars
<1>6. SendingTells'
  <2> SUFFICES ASSUME sending # NULL, jobs'[sending.job].report.status = "reporting"
               PROVE  sending.outcome = Outcome(jobs'[sending.job])
    BY <1>5 DEF SendingTells
  <2> DEFINE old == jobs[sending.job]
             new == jobs'[sending.job]
  <2>1. sending.job \in Jobs
    BY DEF DInv, Send
  <2>2. /\ Tells(old, new) /\ Sound(old) /\ Sound(new)
        /\ new.report.status = "reporting"
        /\ old.report.status = "reporting" => sending.outcome = Outcome(old)
    BY <1>2, <1>4, <2>1 DEF DInv, SendingTells
  <2> HIDE DEF old, new
  <2>3. GoesOn(old, new)
    BY <2>2, NullIsNoString DEF Tells, Restarts, Fresh, ReportStatuses
  <2>4. old.report.status = "reporting" /\ Told(new) = Told(old)
    BY <2>2, <2>3, NullIsNoString DEF GoesOn, ReportStatuses
  <2>5. Told(new) = Outcome(new) /\ Told(old) = Outcome(old)
    BY <2>2, <2>4, BusyTellsOutcome DEF ReportBusy
  <2> QED
    BY <2>2, <2>4, <2>5 DEF old, new
<1>7. AckedTells'
  <2> SUFFICES ASSUME NEW j \in Jobs, jobs'[j].report.status = "success"
               PROVE  Told(jobs'[j]) \in acked[j]
    BY <1>5 DEF AckedTells
  <2>1. GoesOn(jobs[j], jobs'[j])
    BY <1>2, NullIsNoString DEF Tells, Restarts, Fresh, ReportStatuses
  <2>2. jobs[j].report.status = "success" /\ Told(jobs'[j]) = Told(jobs[j])
    BY <2>1, NullIsNoString DEF GoesOn, ReportStatuses
  <2> QED
    BY <2>2 DEF DInv, AckedTells
<1> QED
  BY <1>2, <1>3, <1>4, <1>5, <1>6, <1>7, ToldCounts DEF DInv

-----------------------------------------------------------------------------

LEMMA DeliveryInitOK == DeliveryInit => DInv
<1> SUFFICES ASSUME DeliveryInit
             PROVE  DInv
  OBVIOUS
<1>1. IInv /\ RowsKept /\ \A j \in Jobs : jobs[j] = Absent("none")
  BY InitHolds, RowsKeptAtFirst DEF DeliveryInit, Init
<1>2. Absent("none").status = "none" /\ Absent("none").report = NoReport
  BY DEF Absent, NewJob
<1>3. \A j \in Jobs : Sound(jobs[j])
  BY <1>1, <1>2, NoReportIsAReport, NullIsNoString
     DEF IInv, RowsKept, Sound, ErrorOfNewest, InRange, ReportBusy, ReportStatuses
<1>4. SendingTells /\ AckedTells
  BY <1>1, <1>2, NoReportIsAReport, NullIsNoString
     DEF DeliveryInit, SendingTells, AckedTells, ReportStatuses
<1> QED
  BY <1>1, <1>3, <1>4 DEF DInv, DeliveryInit

\* Every step, of the store or of the delivery.
LEMMA DeliveryNextOK ==
    DInv /\ [DeliveryNext]_allVars =>
        /\ DInv'
        /\ \A j \in Jobs : Counts(jobs[j], jobs'[j])
        /\ [Life!LifeNext]_lives
<1> SUFFICES ASSUME DInv, [DeliveryNext]_allVars
             PROVE  /\ DInv'
                    /\ \A j \in Jobs : Counts(jobs[j], jobs'[j])
                    /\ [Life!LifeNext]_lives
  OBVIOUS
<1>1. CASE [Next]_vars /\ UNCHANGED deliveryVars
  BY <1>1, StoreStepKeeps, NextLife DEF DInv
<1>2. CASE DeliveryStep
  BY <1>2, DeliveryStepDelivers DEF Delivers, Moves, Counts
<1>3. CASE UNCHANGED allVars
  <2>1. UNCHANGED vars /\ UNCHANGED deliveryVars
    BY <1>3 DEF allVars, vars, deliveryVars
  <2> QED
    BY <1>1, <2>1
<1> QED
  BY <1>1, <1>2, <1>3 DEF DeliveryNext

\* In every reachable state of the backend every row is well formed, its report
\* is in range, and what was sent and acknowledged agrees with it.
THEOREM DeliveryInvariant == DeliverySpec => []DInv
  BY DeliveryInitOK, DeliveryNextOK, PTL DEF DeliverySpec

\* No send, no answer and no crash makes a write that SQLite refuses, opens an
\* attempt beside the lease's or leaves a report for an outcome that is gone
\* (take_due_report, record_report, record_manual_send).
THEOREM TablesKeptByDelivery ==
    DeliverySpec => [](SchemaHolds /\ OneOpenAttempt /\ ReportOnlyForOutcome)
<1>1. DInv => SchemaHolds /\ OneOpenAttempt /\ ReportOnlyForOutcome
  BY RowsSound DEF DInv, IInv, SchemaHolds, OneOpenAttempt, ReportOnlyForOutcome,
                   RowInv, OwnersKnown, RowsKept, RowKept
<1> QED
  BY <1>1, DeliveryInvariant, PTL

\* With the delivery and the operators' sends beside it, crashes included, the
\* columns of every report fit the methods and rounds of its job, and one that
\* waits shows no send of an earlier outcome (_advance_report, _start_report,
\* record_manual_send).
THEOREM DeliveryAlwaysInRange == DeliverySpec => []DeliveryInv
<1>1. DInv => DeliveryInv
  BY DEF DInv, IInv, DeliveryInv, DeliveryTypeOK, ScheduleInRange,
         BusyReportHasNoManualSend, Sound, InRange
<1> QED
  BY <1>1, DeliveryInvariant, PTL

\* A report that says `success` was answered 2xx by the provider for the very
\* outcome the job has, whatever happened to the job while a send was under way
\* and however many sends were lost (record_report, _hold, replay_job).
THEOREM OutcomeAlwaysAcknowledged == DeliverySpec => []OutcomeAcknowledged
<1>1. DInv => OutcomeAcknowledged
  <2> SUFFICES ASSUME DInv, NEW j \in Jobs, Resendable(jobs[j]),
                      jobs[j].report.status = "success"
               PROVE  Outcome(jobs[j]) \in acked[j]
    BY DEF OutcomeAcknowledged
  <2>1. Told(jobs[j]) = Outcome(jobs[j])
    BY DEF Told, Resendable
  <2> QED
    BY <2>1 DEF DInv, AckedTells
<1> QED
  BY <1>1, DeliveryInvariant, PTL

\* One outcome is sent at most methods * rounds times in vain: each send that
\* is not delivered moves its report on, one that a crash interrupted too, and
\* a settled report is not sent again (take_due_report, _advance_report).
THEOREM SendsAlwaysCounted == DeliverySpec => SendsAreCounted
<1> DEFINE Counted2 == \A j \in Jobs :
              LET old == jobs[j]
                  new == jobs[j]'
              IN  old.report.status # NULL /\ Outcome(new) = Outcome(old)
                  => Scheduled(old, new)
<1>1. DInv /\ [DeliveryNext]_allVars => [Counted2]_allVars
  BY DeliveryNextOK DEF Counts
<1> HIDE DEF Counted2
<1>2. DeliverySpec => [][Counted2]_allVars
  BY <1>1, DeliveryInvariant, PTL DEF DeliverySpec
<1> QED
  BY <1>2 DEF Counted2, SendsAreCounted

\* What the lines of two reports of one outcome say.
LEMMA LinesOfATry ==
    ASSUME NEW old, NEW new, Sound(old), Sound(new), Tries(old, new),
           old.report.status # NULL
    PROVE  BooksAreKept(old, new)
<1> DEFINE added(i) == LineOf(new, i).tries - LineOf(old, i).tries
           failed == {i \in Methods(old) : added(i) # 0}
           a == old.report
           b == new.report
<1>1. /\ a \in Report /\ b \in Report
      /\ old.methods \in Nat /\ new.methods = old.methods
      /\ ReportMaxRounds \in Nat
  BY SettingsAssumption DEF Sound, RowInv, Job, Tries
<1>2. \A job, i : job.methods \in Nat /\ i \in Methods(job) =>
          /\ LineOf(job, i).says = Line(job.report, i, clock)
          /\ LineOf(job, i).tries = FailedTries(job.report, i)
  <2> TAKE job, i
  <2> HAVE job.methods \in Nat /\ i \in Methods(job)
  <2>1. job.methods # 0
    BY DEF Methods
  <2>2. ReportCard(job, clock).lines = Lines(job, clock)
    BY <2>1 DEF ReportCard
  <2> QED
    BY <2>2 DEF LineOf, Lines
<1>3. Methods(new) = Methods(old) /\ Methods(old) \subseteq Nat
  BY <1>1 DEF Methods
<1>4. \A i \in Methods(old) :
          /\ LineOf(old, i).says = Line(a, i, clock)
          /\ LineOf(new, i).says = Line(b, i, clock)
          /\ LineOf(old, i).tries = FailedTries(a, i)
          /\ LineOf(new, i).tries = FailedTries(b, i)
  BY <1>1, <1>2, <1>3
<1>5. /\ a.cursor \in Nat /\ a.round \in Nat /\ b.cursor \in Nat /\ b.round \in Nat
      /\ a.status \in ReportStatuses /\ b.status \in ReportStatuses \cup {NULL}
  BY <1>1 DEF Report
<1>6. a.status = "reporting" => a.cursor < old.methods
  BY DEF Sound, InRange, ReportBusy
<1>7. \A i \in Methods(old) :
          /\ Line(a, i, clock) = "sending" <=> a.status = "reporting" /\ i = a.cursor
          /\ Line(a, i, clock) = "delivered" <=> a.status = "success" /\ i = a.cursor
          /\ Line(b, i, clock) = "delivered" <=> b.status = "success" /\ i = b.cursor
          /\ Line(b, i, clock) = "gave up" <=> b.status = "failed"
  BY <1>5, NullIsNoString DEF Line, ReportStatuses
<1>8. \A i \in Methods(old) :
          added(i) = (b.round + (IF i < b.cursor THEN 1 ELSE 0))
                        - (a.round + (IF i < a.cursor THEN 1 ELSE 0))
  BY <1>4 DEF FailedTries
<1>9. /\ \/ a.cursor < old.methods /\ a.status = "reporting"
         \/ b.cursor = a.cursor /\ b.round = a.round
      /\ \/ b.cursor = a.cursor /\ b.round = a.round
         \/ /\ a.cursor + 1 = old.methods
            /\ b.cursor = 0 /\ b.round = a.round + 1
         \/ b.cursor = a.cursor + 1 /\ b.round = a.round
  BY <1>6 DEF Tries
<1> HIDE DEF added, a, b
<1>10. \A i \in Methods(old) : i \in Nat /\ i < old.methods
  BY <1>1 DEF Methods
<1>11. \/ \A i \in Methods(old) : added(i) = 0
       \/ /\ a.status = "reporting"
          /\ \A i \in Methods(old) : added(i) = IF i = a.cursor THEN 1 ELSE 0
  <2>1. CASE b.cursor = a.cursor /\ b.round = a.round
    BY <1>5, <1>8, <1>10, <2>1
  <2>2. CASE ~(b.cursor = a.cursor /\ b.round = a.round)
    <3>1. a.cursor < old.methods /\ a.status = "reporting"
      BY <1>9, <2>2
    <3>2. ASSUME NEW i \in Methods(old)
          PROVE  added(i) = IF i = a.cursor THEN 1 ELSE 0
      BY <1>1, <1>5, <1>8, <1>9, <1>10, <2>2, <3>1
    <3> QED
      BY <3>1, <3>2
  <2> QED
    BY <2>1, <2>2
<1>12. Says(old, "sending") = {i \in Methods(old) : a.status = "reporting" /\ i = a.cursor}
  BY <1>4, <1>7 DEF Says
<1>13. Says(old, "delivered") = {i \in Methods(old) : a.status = "success" /\ i = a.cursor}
  BY <1>4, <1>7 DEF Says
<1>14. Says(new, "delivered") = {i \in Methods(old) : b.status = "success" /\ i = b.cursor}
  BY <1>3, <1>4, <1>7 DEF Says
<1>15. Says(new, "gave up") = {i \in Methods(old) : b.status = "failed"}
  <2>1. \A i \in Methods(old) : LineOf(new, i).says = "gave up" <=> b.status = "failed"
    BY <1>4, <1>7
  <2> QED
    BY <1>3, <2>1 DEF Says
<1>16. \A i \in Says(new, "gave up") : LineOf(new, i).tries = ReportMaxRounds
  <2> SUFFICES ASSUME NEW i \in Methods(old), b.status = "failed"
               PROVE  LineOf(new, i).tries = ReportMaxRounds
    BY <1>15
  <2>1. b.cursor = 0 /\ b.round = ReportMaxRounds
    BY DEF Sound, InRange, b
  <2> QED
    BY <1>1, <1>4, <1>10, <2>1 DEF FailedTries
<1>17. \A i \in failed : added(i) = 1
  BY <1>11
<1>18. failed = {} \/ failed = Says(old, "sending")
  BY <1>11, <1>12
<1>19. Says(new, "delivered") # {} =>
          Says(new, "delivered") \in {Says(old, "sending"), Says(old, "delivered")}
  <2>1. b.status = "success" =>
            a.cursor = b.cursor /\ a.status \in {"success", "reporting"}
    BY DEF Tries, a, b
  <2> QED
    BY <1>12, <1>13, <1>14, <2>1
<1> QED
  BY <1>16, <1>17, <1>18, <1>19 DEF added, BooksAreKept

\* The card that shows a report keeps the books of its sends, for any number of
\* methods and rounds: a failed or interrupted send adds a try to the line that
\* said it was being sent, a delivery settles that line, and all are given up
\* at once after as many tries each (wording.ts reportLines, _advance_report).
THEOREM LinesAlwaysFollowTheSends == DeliverySpec => LinesFollowTheSends
<1> DEFINE Follow == \A j \in Jobs :
              LET old == jobs[j]
                  new == jobs[j]'
              IN  old.report.status # NULL /\ Outcome(new) = Outcome(old)
                  => BooksAreKept(old, new)
<1>1. DInv /\ [DeliveryNext]_allVars => [Follow]_allVars
  <2> SUFFICES ASSUME DInv, [DeliveryNext]_allVars
               PROVE  Follow
    OBVIOUS
  <2>1. DInv' /\ \A j \in Jobs : Counts(jobs[j], jobs'[j])
    BY DeliveryNextOK
  <2>2. \A j \in Jobs : Sound(jobs[j]) /\ Sound(jobs'[j])
    BY <2>1 DEF DInv
  <2> QED
    BY <2>1, <2>2, LinesOfATry DEF Counts
<1> HIDE DEF Follow
<1>2. DeliverySpec => [][Follow]_allVars
  BY <1>1, DeliveryInvariant, PTL DEF DeliverySpec
<1> QED
  BY <1>2 DEF Follow, LinesFollowTheSends

\* The store keeps its promise with the delivery beside it: no send, no answer
\* and no crash is a step in the life of a job.
THEOREM DeliveryKeepsPromise == DeliverySpec => KeepsPromise
<1>1. DeliveryInit => Life!LifeInit
  BY InitLife DEF DeliveryInit
<1>2. DInv /\ [DeliveryNext]_allVars => [Life!LifeNext]_lives
  BY DeliveryNextOK
<1> QED
  BY <1>1, <1>2, DeliveryInvariant, PTL
     DEF DeliverySpec, KeepsPromise, Life!LifeSpec, lives

=============================================================================
