------------------------ MODULE JobStoreLife_proofs ------------------------
(***************************************************************************)
(* JobStore implements JobLife: every step of the store is, for each job,  *)
(* a step of its life or none.  First the life of the row that each        *)
(* operation of JobRow leaves, then the table.  At the end, that claims    *)
(* take fresh jobs first: only a claim adds a run to a life.               *)
(***************************************************************************)
EXTENDS JobStore_proofs

\* The columns that the life of a job is made of.
SameLife(a, b) ==
    /\ a.status = b.status
    /\ a.attempts = b.attempts
    /\ a.deadline = b.deadline
    /\ a.result = b.result
    /\ a.replay = b.replay

\* Rows that agree on these columns have the same life.
LEMMA SameLifeIsOne ==
    ASSUME NEW a, NEW b, SameLife(a, b)
    PROVE  LifeOf(a) = LifeOf(b)
  BY DEF SameLife, LifeOf, ClaimOf, Newest, KeepsOldSuccess

\* The life of a row is a life.
LEMMA LifeIsALife ==
    ASSUME NEW job \in Job
    PROVE  LifeOf(job) \in Life!Lives
<1>1. job.status \in Life!JobStates
  BY DEF Job, Statuses, Life!JobStates
<1>2. Newest(job) \in Nat
  BY DEF Job, Newest
<1>3. ClaimOf(job) \in {"held", "lost", "over"}
  BY DEF ClaimOf
<1>4. (IF job.result = NULL THEN 0 ELSE job.result) \in Nat
  BY DEF Job
<1>5. KeepsOldSuccess(job) \in BOOLEAN
  BY DEF KeepsOldSuccess
<1> QED
  BY <1>1, <1>2, <1>3, <1>4, <1>5 DEF LifeOf, Life!Lives

\* A replay decides alone what its job keeps.
LEMMA ReplayDecidesKeeps ==
    ASSUME NEW a, NEW b, a.replay = b.replay
    PROVE  LifeOf(a).keeps = LifeOf(b).keeps
  BY DEF LifeOf, KeepsOldSuccess

\* Lives are compared field by field.
LEMMA LivesAgree ==
    ASSUME NEW a \in Life!Lives, NEW b \in Life!Lives,
           a.status = b.status, a.run = b.run, a.claim = b.claim,
           a.result = b.result, a.keeps = b.keeps
    PROVE  a = b
  BY DEF Life!Lives

\* The result of a row as JobLife numbers it.
ResultOf(job) == IF job.result = NULL THEN 0 ELSE job.result

\* The life of a row with the replay and the runs of another.
LEMMA LifeFrom ==
    ASSUME NEW job \in Job, NEW m \in Job, m.replay = job.replay,
           Newest(m) = Newest(job)
    PROVE  LifeOf(m) = [LifeOf(job) EXCEPT !.status = m.status,
                                           !.claim = ClaimOf(m),
                                           !.result = ResultOf(m)]
<1> DEFINE l == LifeOf(job)
           k == LifeOf(m)
           t == [l EXCEPT !.status = m.status, !.claim = ClaimOf(m),
                          !.result = ResultOf(m)]
<1>1. l \in Life!Lives /\ k \in Life!Lives
  BY LifeIsALife
<1>2. /\ k.status = m.status /\ k.run = l.run /\ k.claim = ClaimOf(m)
      /\ k.result = ResultOf(m)
  BY DEF LifeOf, ResultOf
<1>3. k.keeps = l.keeps
  BY ReplayDecidesKeeps
<1> HIDE DEF l, k
<1>4. /\ t \in Life!Lives
      /\ t.status = m.status /\ t.run = l.run /\ t.claim = ClaimOf(m)
      /\ t.result = ResultOf(m) /\ t.keeps = l.keeps
  BY <1>1, <1>2 DEF Life!Lives
<1> HIDE DEF t
<1>5. k = t
  BY <1>1, <1>2, <1>3, <1>4, LivesAgree
<1> QED
  BY <1>5 DEF k, t, l

\* A report does not touch the life of its job.
LEMMA ReportKeepsLife ==
    ASSUME NEW job \in Job, NEW now
    PROVE  SameLife(StartReport(job, now), job)
  BY DEF SameLife, StartReport, Job

\* EndAttempt changes the newest attempt alone.
LEMMA EndedLife ==
    ASSUME NEW job, RowInv(job), job.token # NULL, NEW outcome \in Outcomes,
           NEW now \in Time
    PROVE  LET e == EndAttempt(job, outcome, now)
           IN  /\ e \in Job
               /\ Newest(e) = Newest(job)
               /\ Newest(job) > 0
               /\ e.attempts[Newest(job)].outcome = outcome
               /\ e.status = job.status
               /\ e.deadline = job.deadline
               /\ e.result = job.result
               /\ e.replay = job.replay
<1> DEFINE n == Newest(job)
           a == Closed(job.attempts[n], outcome, now)
           e == EndAttempt(job, outcome, now)
<1>1. /\ job \in Job
      /\ n \in DOMAIN job.attempts
      /\ n > 0
      /\ job.attempts[n] \in Attempt
  BY DEF RowInv, LogMatchesLease, Job, Newest
<1>2. a \in Attempt /\ a.outcome = outcome
  BY <1>1, AttemptClosed
<1>3. e = WithNewest(job, a)
  BY DEF EndAttempt
<1> HIDE DEF a
<1>4. /\ e.status = job.status /\ e.deadline = job.deadline
      /\ e.result = job.result /\ e.replay = job.replay
  BY <1>1, <1>3 DEF WithNewest, Job
<1> HIDE DEF e
<1>5. /\ e \in Job
      /\ Newest(e) = n
      /\ e.attempts[n] = a
  BY <1>1, <1>2, <1>3, NewestReplaced
<1> QED
  BY <1>1, <1>2, <1>4, <1>5 DEF e

\* A replay that keeps its success ends there with the result it had.
LEMMA RestoredLife ==
    ASSUME NEW job \in Job
    PROVE  LET m == RestoreSuccess(job)
           IN  /\ m.status = "success"
               /\ m.attempts = job.attempts
               /\ m.deadline = job.deadline
               /\ m.replay = job.replay
               /\ m.result = job.result
<1> DEFINE idle == Unleased(job)
           start == IF Wins(job) = {} THEN idle.started
                    ELSE job.attempts[LastWin(job)].started
<1>1. /\ idle.attempts = job.attempts /\ idle.deadline = job.deadline
      /\ idle.replay = job.replay /\ idle.result = job.result
      /\ idle \in Job
  BY DEF Unleased, Job
<1>2. RestoreSuccess(job) = [idle EXCEPT !.status = "success", !.error = NULL,
                                         !.started = start]
  BY DEF RestoreSuccess
<1> HIDE DEF start, idle
<1> QED
  BY <1>1, <1>2 DEF Job

\* Where _retry_or_fail takes a job; the log, the deadline and the replay stay.
LEMMA RetryOrFailLife ==
    ASSUME NEW job \in Job, NEW error, NEW now
    PROVE  LET m == RetryOrFail(job, error, now)
           IN  /\ m.attempts = job.attempts
               /\ m.deadline = job.deadline
               /\ m.replay = job.replay
               /\ IF KeepsOldSuccess(job)
                  THEN m.status = "success" /\ m.result = job.result
                  ELSE \/ m.status = "pending" /\ m.result = job.result
                       \/ m.status = "failed" /\ m.result = NULL
<1> DEFINE m == RetryOrFail(job, error, now)
           idle == Unleased(job)
<1>1. /\ idle.attempts = job.attempts /\ idle.deadline = job.deadline
      /\ idle.replay = job.replay /\ idle.result = job.result
      /\ idle \in Job
  BY DEF Unleased, Job
<1>2. CASE KeepsOldSuccess(job)
  BY <1>2, RestoredLife DEF RetryOrFail
<1>3. CASE ~KeepsOldSuccess(job) /\ OutOfAttempts(job)
  <2> DEFINE failed == [idle EXCEPT !.status = "failed", !.error = error,
                                    !.result = NULL, !.finished = now]
  <2>1. m = failed \/ m = StartReport(failed, now)
    BY <1>3 DEF RetryOrFail, Fail
  <2> HIDE DEF idle
  <2>2. /\ failed.attempts = job.attempts /\ failed.deadline = job.deadline
        /\ failed.replay = job.replay /\ failed.status = "failed"
        /\ failed.result = NULL
    BY <1>1 DEF Job
  <2>3. SameLife(StartReport(failed, now), failed)
    BY <1>1 DEF SameLife, StartReport, Job
  <2> HIDE DEF failed
  <2> QED
    BY <1>3, <2>1, <2>2, <2>3 DEF SameLife
<1>4. CASE ~KeepsOldSuccess(job) /\ ~OutOfAttempts(job)
  <2> DEFINE next == now + RetryBackoff(UsedAttempts(job))
  <2>1. m = [idle EXCEPT !.status = "pending", !.error = error,
                         !.available = next]
    BY <1>4 DEF RetryOrFail, Requeue
  <2> HIDE DEF next, idle
  <2> QED
    BY <1>1, <1>4, <2>1 DEF Job
<1> QED
  BY <1>2, <1>3, <1>4

\* A leased job is held, and by its newest run.
LEMMA LeasedIsHeld ==
    ASSUME NEW job, RowInv(job), job.token # NULL
    PROVE  /\ job.status = "running"
           /\ ClaimOf(job) = "held"
           /\ job.deadline # NULL
  BY DEF RowInv, RowChecks, LeaseChecks, ClaimOf

\* A run that ends without success, for whatever reason.
LEMMA RevokedLife ==
    ASSUME NEW job, RowInv(job), job.token # NULL,
           NEW outcome \in Outcomes \cap JobErrors, NEW now \in Time
    PROVE  LifeOf(Revoke(job, outcome, now)) \in
              Life!Unsuccessful(LifeOf(job), IF outcome = "lease_expired"
                                             THEN "lost" ELSE "over")
<1> DEFINE e == EndAttempt(job, outcome, now)
           m == Revoke(job, outcome, now)
           n == Newest(job)
           claim == IF outcome = "lease_expired" THEN "lost" ELSE "over"
           l == LifeOf(job)
<1>1. /\ e \in Job /\ Newest(e) = n /\ n > 0
      /\ e.attempts[n].outcome = outcome
      /\ e.deadline = job.deadline /\ e.result = job.result
      /\ e.replay = job.replay
  BY EndedLife
<1>2. job.deadline # NULL /\ job \in Job
  BY LeasedIsHeld DEF RowInv
<1>3. KeepsOldSuccess(e) <=> KeepsOldSuccess(job)
  BY <1>1 DEF KeepsOldSuccess
<1>4. m = RetryOrFail(e, outcome, now)
  BY DEF Revoke
<1> HIDE DEF e, m
<1>5. /\ m.attempts = e.attempts /\ m.deadline = job.deadline
      /\ m.replay = job.replay
      /\ IF KeepsOldSuccess(job)
         THEN m.status = "success" /\ m.result = job.result
         ELSE \/ m.status = "pending" /\ m.result = job.result
              \/ m.status = "failed" /\ m.result = NULL
  BY <1>1, <1>3, <1>4, RetryOrFailLife
<1>6. Newest(m) = n /\ KeepsOldSuccess(m) = KeepsOldSuccess(job)
  BY <1>1, <1>5 DEF Newest, KeepsOldSuccess
<1>7. m.status \in {"pending", "failed"} => ClaimOf(m) = claim
  <2>1. m.attempts # << >> /\ m.attempts[Newest(m)].outcome = outcome
    BY <1>1, <1>5, <1>6 DEF Newest
  <2> QED
    BY <1>2, <1>5, <2>1 DEF ClaimOf
<1>8. m.status = "success" => ClaimOf(m) = "over"
  BY DEF ClaimOf
<1>9. m \in Job
  BY <1>4, EndedAttempt, RetriedOrFailedRow DEF e, Unowned, RowInv
<1>10. LifeOf(m) = [l EXCEPT !.status = m.status, !.claim = ClaimOf(m),
                             !.result = ResultOf(m)]
  BY <1>2, <1>5, <1>6, <1>9, LifeFrom
<1>11. l \in Life!Lives /\ l.result = ResultOf(job)
       /\ (l.keeps <=> KeepsOldSuccess(job))
  BY <1>2, LifeIsALife DEF LifeOf, ResultOf
<1> HIDE DEF l
<1>12. CASE KeepsOldSuccess(job)
  <2>1. LifeOf(m) = [l EXCEPT !.status = "success", !.claim = "over"]
    BY <1>5, <1>8, <1>10, <1>11, <1>12 DEF ResultOf, Life!Lives
  <2> QED
    BY <1>11, <1>12, <2>1 DEF Life!Unsuccessful, m, l
<1>13. CASE ~KeepsOldSuccess(job)
  <2>1. CASE m.status = "pending" /\ m.result = job.result
    <3>1. LifeOf(m) = [l EXCEPT !.status = "pending", !.claim = claim,
                                !.result = l.result]
      BY <1>7, <1>10, <1>11, <2>1 DEF ResultOf
    <3>2. l.result \in Life!Kept(l)
      BY DEF Life!Kept
    <3> QED
      BY <1>11, <1>13, <3>1, <3>2 DEF Life!Unsuccessful, m, l
  <2>2. CASE m.status = "failed" /\ m.result = NULL
    <3>1. LifeOf(m) = [l EXCEPT !.status = "failed", !.claim = claim,
                                !.result = 0]
      BY <1>7, <1>10, <2>2 DEF ResultOf
    <3> QED
      BY <1>11, <1>13, <3>1 DEF Life!Unsuccessful, m, l
  <2> QED
    BY <1>5, <1>13, <2>1, <2>2
<1> QED
  BY <1>12, <1>13

-----------------------------------------------------------------------------
(* Steps of a life that are one step when they are taken at once. *)

LEMMA LapseThenContinue ==
    ASSUME NEW l \in Life!Lives, NEW c, NEW m,
           Life!Lapse(l, c), Life!Continue(c, m)
    PROVE  Life!Continue(l, m)
<1>1. l.claim = "held" /\ c \in Life!Unsuccessful(l, "lost") /\ c.claim # "over"
  BY DEF Life!Lapse, Life!Continue
<1>2. ~l.keeps
  BY <1>1 DEF Life!Unsuccessful, Life!Lives
<1>3. PICK status \in {"pending", "failed"}, r \in {l.result, 0} :
         c = [l EXCEPT !.status = status, !.claim = "lost", !.result = r]
  BY <1>1, <1>2 DEF Life!Unsuccessful, Life!Kept
<1>4. c.result = r /\ ~c.keeps
  BY <1>2, <1>3 DEF Life!Lives
<1>5. PICK q \in {r, 0} :
         m = [c EXCEPT !.status = "running", !.claim = "held", !.result = q]
  BY <1>4 DEF Life!Continue, Life!Kept
<1>6. m = [l EXCEPT !.status = "running", !.claim = "held", !.result = q]
  BY <1>3, <1>5 DEF Life!Lives
<1>7. q \in Life!Kept(l)
  BY <1>2, <1>3, <1>5 DEF Life!Kept
<1> QED
  BY <1>1, <1>6, <1>7 DEF Life!Continue

LEMMA ContinueThenFall ==
    ASSUME NEW l \in Life!Lives, NEW c, NEW m,
           Life!Continue(l, c), Life!Fall(c, m)
    PROVE  Life!Fall(l, m)
<1>1. PICK r \in Life!Kept(l) :
         c = [l EXCEPT !.status = "running", !.claim = "held", !.result = r]
  BY DEF Life!Continue
<1>2. /\ c.result = r /\ c.keeps = l.keeps
      /\ l.claim # "over" /\ m \in Life!Unsuccessful(c, "over")
  BY <1>1 DEF Life!Lives, Life!Continue, Life!Fall
<1>3. CASE l.keeps
  <2>1. r = l.result /\ m = [c EXCEPT !.status = "success", !.claim = "over"]
    BY <1>2, <1>3 DEF Life!Kept, Life!Unsuccessful
  <2>2. m = [l EXCEPT !.status = "success", !.claim = "over"]
    BY <1>1, <2>1 DEF Life!Lives
  <2> QED
    BY <1>2, <1>3, <2>2 DEF Life!Fall, Life!Unsuccessful
<1>4. CASE ~l.keeps
  <2>1. \/ \E q \in {r, 0} : m = [c EXCEPT !.status = "pending",
                                           !.claim = "over", !.result = q]
        \/ m = [c EXCEPT !.status = "failed", !.claim = "over", !.result = 0]
    BY <1>2, <1>4 DEF Life!Kept, Life!Unsuccessful
  <2>2. \/ \E q \in {r, 0} : m = [l EXCEPT !.status = "pending",
                                           !.claim = "over", !.result = q]
        \/ m = [l EXCEPT !.status = "failed", !.claim = "over", !.result = 0]
    BY <1>1, <2>1 DEF Life!Lives
  <2>3. {r, 0} \subseteq Life!Kept(l)
    BY <1>4 DEF Life!Kept
  <2> QED
    BY <1>2, <1>4, <2>2, <2>3 DEF Life!Fall, Life!Unsuccessful
<1> QED
  BY <1>3, <1>4

LEMMA ContinueThenSucceed ==
    ASSUME NEW l \in Life!Lives, NEW c, NEW m,
           Life!Continue(l, c), Life!Succeed(c, m)
    PROVE  Life!Succeed(l, m)
<1>1. PICK r \in Life!Kept(l) :
         c = [l EXCEPT !.status = "running", !.claim = "held", !.result = r]
  BY DEF Life!Continue
<1>2. /\ c.result = r /\ c.keeps = l.keeps /\ c.run = l.run
      /\ l.claim # "over"
      /\ m = [c EXCEPT !.status = "success", !.claim = "over",
                       !.result = IF c.keeps THEN c.result ELSE c.run]
  BY <1>1 DEF Life!Lives, Life!Continue, Life!Succeed
<1>3. l.keeps => r = l.result
  BY DEF Life!Kept
<1>4. m = [l EXCEPT !.status = "success", !.claim = "over",
                    !.result = IF l.keeps THEN l.result ELSE l.run]
  BY <1>1, <1>2, <1>3 DEF Life!Lives
<1> QED
  BY <1>2, <1>4 DEF Life!Succeed

-----------------------------------------------------------------------------
(* Leases. *)

\* What _expire_if_due does to a job.
LEMMA ExpiredLife ==
    ASSUME NEW job, RowInv(job), NEW now \in Time
    PROVE  LET m == ExpireIfDue(job, now)
           IN  \/ m = job
               \/ /\ m.token = NULL
                  /\ \/ Life!Lapse(LifeOf(job), LifeOf(m))
                     \/ Life!Fall(LifeOf(job), LifeOf(m))
<1> DEFINE m == ExpireIfDue(job, now)
<1>1. CASE PastDeadline(job, now)
  <2>1. /\ job.token # NULL /\ ~LeaseExpired(job, now)
        /\ "deadline_exceeded" \in Outcomes \cap JobErrors
    BY <1>1 DEF PastDeadline, LeaseExpired, Outcomes, JobErrors
  <2>2. m = Revoke(job, "deadline_exceeded", now)
    BY <1>1, <2>1 DEF ExpireIfDue
  <2>3. Unowned(m)
    BY <2>1, <2>2, EndedAttempt, RetriedOrFailedRow DEF Revoke
  <2>4. LifeOf(m) \in Life!Unsuccessful(LifeOf(job), "over")
    BY <2>1, <2>2, RevokedLife
  <2>5. LifeOf(job).claim = "held"
    BY <2>1, LeasedIsHeld DEF LifeOf
  <2> QED
    BY <2>3, <2>4, <2>5
       DEF Life!Fall, Unowned, RowInv, RowChecks, LeaseChecks
<1>2. CASE LeaseExpired(job, now)
  <2>1. /\ job.token # NULL /\ ~PastDeadline(job, now)
        /\ "lease_expired" \in Outcomes \cap JobErrors
    BY <1>2 DEF LeaseExpired, Outcomes, JobErrors
  <2>2. m = Revoke(job, "lease_expired", now)
    BY <1>2, <2>1 DEF ExpireIfDue
  <2>3. Unowned(m)
    BY <2>1, <2>2, EndedAttempt, RetriedOrFailedRow DEF Revoke
  <2>4. LifeOf(m) \in Life!Unsuccessful(LifeOf(job), "lost")
    BY <2>1, <2>2, RevokedLife
  <2>5. LifeOf(job).claim = "held"
    BY <2>1, LeasedIsHeld DEF LifeOf
  <2> QED
    BY <2>3, <2>4, <2>5
       DEF Life!Lapse, Unowned, RowInv, RowChecks, LeaseChecks
<1>3. CASE ~PastDeadline(job, now) /\ ~LeaseExpired(job, now)
  BY <1>3 DEF ExpireIfDue
<1> QED
  BY <1>1, <1>2, <1>3

\* A reclaim is of a job that its newest run lost, and that run goes on.
LEMMA ReclaimedLife ==
    ASSUME NEW job, RowInv(job), NEW w \in Workers, NEW token, NEW now \in Time,
           NEW registered, Reclaimable(job, w, token, now, registered)
    PROVE  /\ LifeOf(job).claim = "lost"
           /\ Life!Continue(LifeOf(job), LifeOf(Reclaim(job, w, token, now)))
<1> DEFINE h == Reclaim(job, w, token, now)
           l == LifeOf(job)
<1>1. RowInv(h)
  BY ReclaimedRow
<1>2. /\ job \in Job /\ h \in Job
      /\ job.attempts \in Seq(Attempt) /\ job.attempts # << >>
  BY <1>1 DEF RowInv, Job, Reclaimable
<1>3. ClaimOf(job) = "lost"
  BY <1>2 DEF ClaimOf, Reclaimable, Newest
<1>4. /\ h.status = "running" /\ h.result = job.result
      /\ h.replay = job.replay
  BY <1>2 DEF Reclaim, WithNewest, Job
<1>5. Newest(h) = Newest(job)
  <2> DEFINE lease == [job EXCEPT
                   !.status = "running", !.worker = w, !.token = token,
                   !.until = Min2(now + JobLeaseMs, job.deadline),
                   !.error = NULL, !.finished = NULL,
                   !.report = [@ EXCEPT !.status = NULL, !.nextAt = NULL]]
             a == Closed(job.attempts[Newest(job)], NULL, NULL)
  <2>1. h = WithNewest(lease, a)
    BY DEF Reclaim
  <2>2. lease.attempts = job.attempts /\ Newest(lease) = Newest(job)
    BY <1>2 DEF Job, Newest
  <2> HIDE DEF lease, a
  <2>3. h.attempts = [lease.attempts EXCEPT ![Newest(lease)] = a]
    <3>1. "attempts" \in DOMAIN lease
      BY <1>2 DEF lease, Job
    <3> QED
      BY <2>1, <3>1 DEF WithNewest
  <2> QED
    BY <1>2, <2>2, <2>3 DEF Newest
<1>6. ClaimOf(h) = "held"
  BY <1>4 DEF ClaimOf
<1>7. LifeOf(h) = [l EXCEPT !.status = "running", !.claim = "held",
                            !.result = ResultOf(job)]
  <2>1. LifeOf(h) = [l EXCEPT !.status = h.status, !.claim = ClaimOf(h),
                              !.result = ResultOf(h)]
    BY <1>2, <1>4, <1>5, LifeFrom
  <2>2. ResultOf(h) = ResultOf(job)
    BY <1>4 DEF ResultOf
  <2> HIDE DEF h, l
  <2> QED
    BY <1>4, <1>6, <2>1, <2>2
<1>8. ResultOf(job) \in Life!Kept(l) /\ l.claim = "lost"
  BY <1>3 DEF LifeOf, ResultOf, Life!Kept
<1> QED
  BY <1>7, <1>8 DEF Life!Continue

\* Whoever may hold a job is the worker of its newest run, and it goes on.
LEMMA HeldLife ==
    ASSUME NEW job, RowInv(job), NEW w \in Workers, NEW token \in Nat,
           NEW now \in Time, NEW registered,
           \/ CanHold(job, w, token, now)
           \/ CanReclaim(job, w, token, now, registered)
    PROVE  Life!Continue(LifeOf(job), LifeOf(Hold(job, w, token, now)))
<1> DEFINE c == ExpireIfDue(job, now)
           h == Hold(job, w, token, now)
           l == LifeOf(job)
<1>1. l \in Life!Lives
  BY LifeIsALife DEF RowInv
<1>2. RowInv(c)
  BY ExpiredRow
<1>3. \/ c = job
      \/ c.token = NULL /\ (Life!Lapse(l, LifeOf(c)) \/ Life!Fall(l, LifeOf(c)))
  BY ExpiredLife
<1>4. CASE Holds(c, w, token)
  <2>1. c.token # NULL /\ h = c
    BY <1>4, NullAssumption DEF Holds, Hold
  <2>2. h = job /\ job.token # NULL
    BY <1>3, <2>1
  <2>3. l.status = "running" /\ l.claim = "held"
    BY <2>2, LeasedIsHeld DEF LifeOf
  <2> HIDE DEF h, l
  <2>4. LifeOf(h) = [l EXCEPT !.status = "running", !.claim = "held",
                              !.result = l.result]
    BY <1>1, <2>2, <2>3 DEF l, Life!Lives
  <2>5. l.result \in Life!Kept(l)
    BY DEF Life!Kept
  <2> QED
    BY <2>3, <2>4, <2>5 DEF Life!Continue, h, l
<1>5. CASE ~Holds(c, w, token)
  <2>1. Reclaimable(c, w, token, now, registered)
    BY <1>5 DEF CanHold, CanReclaim
  <2>2. h = Reclaim(c, w, token, now)
    BY <1>5 DEF Hold
  <2>3. LifeOf(c).claim = "lost" /\ Life!Continue(LifeOf(c), LifeOf(h))
    BY <1>2, <2>1, <2>2, ReclaimedLife
  <2>4. CASE c = job
    BY <2>3, <2>4
  <2>5. CASE Life!Lapse(l, LifeOf(c))
    BY <1>1, <2>3, <2>5, LapseThenContinue
  <2>6. CASE Life!Fall(l, LifeOf(c))
    <3>1. LifeOf(c).claim = "over"
      BY <1>1, <2>6 DEF Life!Fall, Life!Unsuccessful, Life!Lives
    <3> QED
      BY <2>3, <3>1
  <2> QED
    BY <1>3, <2>4, <2>5, <2>6
<1> QED
  BY <1>4, <1>5

\* A heartbeat changes no life.
LEMMA BeatenLife ==
    ASSUME NEW job \in Job, NEW now
    PROVE  LifeOf(Beaten(job, now)) = LifeOf(job)
<1>1. SameLife(Beaten(job, now), job)
  BY DEF SameLife, Beaten, Job
<1> QED
  BY <1>1, SameLifeIsOne

\* A success is a success of the run, or the one that a replay keeps.
LEMMA SucceededLife ==
    ASSUME NEW job, RowInv(job), job.token # NULL, NEW now \in Time
    PROVE  Life!Succeed(LifeOf(job), LifeOf(Succeeded(job, now)))
<1> DEFINE e == EndAttempt(job, "succeeded", now)
           idle == Unleased(e)
           row == [idle EXCEPT !.status = "success", !.result = Newest(job),
                               !.error = NULL, !.finished = now]
           m == Succeeded(job, now)
           l == LifeOf(job)
<1>1. /\ e \in Job /\ Newest(e) = Newest(job) /\ e.result = job.result
      /\ e.replay = job.replay
  BY EndedLife DEF Outcomes
<1>2. m \in Job /\ job \in Job
  BY SucceededRow DEF Unowned, RowInv
<1>3. l.claim = "held"
  BY LeasedIsHeld DEF LifeOf
<1>4. \/ KeepsOldSuccess(job) /\ m = RestoreSuccess(e)
      \/ ~KeepsOldSuccess(job) /\ (m = row \/ m = StartReport(row, now))
  BY DEF Succeeded
<1>5. (l.keeps <=> KeepsOldSuccess(job)) /\ l.result = ResultOf(job)
      /\ l.run = Newest(job) /\ l \in Life!Lives
  BY <1>2, LifeIsALife DEF LifeOf, ResultOf
<1>6. /\ m.status = "success"
      /\ m.replay = job.replay
      /\ Newest(m) = Newest(job)
      /\ ResultOf(m) = IF l.keeps THEN l.result ELSE l.run
  <2>1. CASE KeepsOldSuccess(job)
    BY <1>1, <1>4, <1>5, <2>1, RestoredLife DEF Newest, ResultOf
  <2>2. CASE ~KeepsOldSuccess(job)
    <3>1. /\ idle \in Job /\ idle.attempts = e.attempts
          /\ idle.replay = e.replay
      BY <1>1 DEF Unleased, Job
    <3> HIDE DEF e, idle
    <3>2. /\ row.status = "success" /\ row.attempts = e.attempts
          /\ row.replay = e.replay /\ row.result = Newest(job)
      BY <3>1 DEF Job
    <3>3. SameLife(StartReport(row, now), row)
      BY <3>1 DEF SameLife, StartReport, Job
    <3> HIDE DEF row
    <3>4. /\ m.status = "success" /\ m.attempts = e.attempts
          /\ m.replay = e.replay /\ m.result = Newest(job)
      BY <1>4, <2>2, <3>2, <3>3 DEF SameLife
    <3>5. Newest(job) # NULL
      BY <1>2, NullAssumption DEF Newest, Job
    <3> QED
      BY <1>1, <1>5, <2>2, <3>4, <3>5 DEF Newest, ResultOf
  <2> QED
    BY <2>1, <2>2
<1>7. ClaimOf(m) = "over"
  BY <1>6 DEF ClaimOf
<1>8. LifeOf(m) = [l EXCEPT !.status = m.status, !.claim = ClaimOf(m),
                            !.result = ResultOf(m)]
  BY <1>2, <1>6, LifeFrom
<1> HIDE DEF m, l
<1>9. LifeOf(m) = [l EXCEPT !.status = "success", !.claim = "over",
                            !.result = IF l.keeps THEN l.result ELSE l.run]
  BY <1>6, <1>7, <1>8
<1> QED
  BY <1>3, <1>9 DEF Life!Succeed, m, l

\* A reported failure ends the run.
LEMMA FailedLife ==
    ASSUME NEW job, RowInv(job), job.token # NULL, NEW now \in Time
    PROVE  Life!Fall(LifeOf(job), LifeOf(Failed(job, now)))
<1>1. "failed" \in Outcomes \cap JobErrors
  BY DEF Outcomes, JobErrors
<1>2. Failed(job, now) = Revoke(job, "failed", now)
  BY DEF Failed, Revoke
<1>3. LifeOf(Failed(job, now)) \in Life!Unsuccessful(LifeOf(job), "over")
  BY <1>1, <1>2, RevokedLife
<1>4. LifeOf(job).claim = "held"
  BY LeasedIsHeld DEF LifeOf
<1> QED
  BY <1>3, <1>4 DEF Life!Fall

\* A release ends the run and queues the job, with what it keeps.
LEMMA ReleasedLife ==
    ASSUME NEW job, RowInv(job), job.token # NULL, NEW now \in Time
    PROVE  Life!Release(LifeOf(job), LifeOf(Released(job, now)))
<1> DEFINE e == EndAttempt(job, "released", now)
           idle == Unleased(e)
           m == Released(job, now)
           l == LifeOf(job)
<1>1. /\ e \in Job /\ Newest(e) = Newest(job) /\ e.result = job.result
      /\ e.replay = job.replay /\ Newest(job) > 0
      /\ e.attempts[Newest(job)].outcome = "released"
  BY EndedLife DEF Outcomes
<1>2. m \in Job /\ job \in Job
  BY ReleasedRow DEF Unowned, RowInv
<1>3. /\ idle \in Job /\ idle.attempts = e.attempts
      /\ idle.replay = e.replay /\ idle.result = e.result
  BY <1>1 DEF Unleased, Job
<1>4. m = [idle EXCEPT !.status = "pending", !.available = now]
  BY DEF Released
<1> HIDE DEF e, idle, m
<1>5. /\ m.status = "pending" /\ m.attempts = e.attempts
      /\ m.replay = job.replay /\ m.result = job.result
  BY <1>1, <1>3, <1>4 DEF Job
<1>6. Newest(m) = Newest(job) /\ m.attempts[Newest(m)].outcome = "released"
  BY <1>1, <1>5 DEF Newest
<1>7. ClaimOf(m) = "over"
  BY <1>5, <1>6 DEF ClaimOf
<1>8. LifeOf(m) = [l EXCEPT !.status = m.status, !.claim = ClaimOf(m),
                            !.result = ResultOf(m)]
  BY <1>2, <1>5, <1>6, LifeFrom
<1>9. l \in Life!Lives /\ l.claim = "held" /\ l.result = ResultOf(m)
  BY <1>2, <1>5, LifeIsALife, LeasedIsHeld DEF LifeOf, ResultOf
<1> HIDE DEF l
<1>10. LifeOf(m) = [l EXCEPT !.status = "pending", !.claim = "over"]
  BY <1>5, <1>7, <1>8, <1>9 DEF Life!Lives
<1> QED
  BY <1>9, <1>10 DEF Life!Release, m, l

-----------------------------------------------------------------------------
(* Operators, claims and purges. *)

LEMMA CancelledLife ==
    ASSUME NEW job, RowInv(job), job.status \in {"pending", "running"},
           NEW now \in Time
    PROVE  Life!Cancel(LifeOf(job), LifeOf(Cancelled(job, now)))
<1> DEFINE e == IF job.token = NULL THEN job
                ELSE EndAttempt(job, "cancelled", now)
           idle == Unleased(e)
           row == [idle EXCEPT !.status = "cancelled", !.result = NULL,
                               !.finished = now]
           m == Cancelled(job, now)
           l == LifeOf(job)
<1>1. /\ e \in Job /\ Newest(e) = Newest(job) /\ e.result = job.result
      /\ e.replay = job.replay
  <2>1. CASE job.token = NULL
    BY <2>1 DEF RowInv
  <2>2. CASE job.token # NULL
    BY <2>2, EndedLife DEF Outcomes
  <2> QED
    BY <2>1, <2>2
<1>2. m \in Job /\ job \in Job
  BY CancelledRow DEF Unowned, RowInv
<1> HIDE DEF e
<1>3. /\ idle \in Job /\ idle.attempts = e.attempts
      /\ idle.replay = e.replay
  BY <1>1 DEF Unleased, Job
<1>4. m = IF KeepsOldSuccess(job) THEN RestoreSuccess(e) ELSE row
  BY DEF Cancelled, e
<1>5. /\ (l.keeps <=> KeepsOldSuccess(job)) /\ l.result = ResultOf(job)
      /\ l.status \in {"pending", "running"} /\ l \in Life!Lives
  BY <1>2, LifeIsALife DEF LifeOf, ResultOf
<1> HIDE DEF idle, m
<1>6. /\ m.replay = job.replay /\ Newest(m) = Newest(job)
      /\ IF l.keeps THEN m.status = "success" /\ ResultOf(m) = l.result
                    ELSE m.status = "cancelled" /\ ResultOf(m) = 0
  <2>1. CASE KeepsOldSuccess(job)
    BY <1>1, <1>4, <1>5, <2>1, RestoredLife DEF Newest, ResultOf
  <2>2. CASE ~KeepsOldSuccess(job)
    <3>1. /\ m.replay = job.replay /\ m.attempts = e.attempts
          /\ m.status = "cancelled" /\ m.result = NULL
      BY <1>1, <1>3, <1>4, <2>2 DEF Job
    <3> QED
      BY <1>1, <1>5, <2>2, <3>1 DEF Newest, ResultOf
  <2> QED
    BY <2>1, <2>2
<1>7. ClaimOf(m) = "over"
  BY <1>6 DEF ClaimOf
<1>8. LifeOf(m) = [l EXCEPT !.status = m.status, !.claim = ClaimOf(m),
                            !.result = ResultOf(m)]
  BY <1>2, <1>6, LifeFrom
<1> HIDE DEF l
<1>9. CASE l.keeps
  BY <1>5, <1>6, <1>7, <1>8, <1>9 DEF Life!Cancel, Life!Lives, m, l
<1>10. CASE ~l.keeps
  BY <1>5, <1>6, <1>7, <1>8, <1>10 DEF Life!Cancel, Life!Lives, m, l
<1> QED
  BY <1>9, <1>10

LEMMA RetriedLife ==
    ASSUME NEW job, RowInv(job), job.status \in {"failed", "cancelled"},
           NEW now \in Time
    PROVE  Life!Retry(LifeOf(job), LifeOf(Retried(job, now)))
<1> DEFINE m == Retried(job, now)
           l == LifeOf(job)
           t == [l EXCEPT !.status = "pending", !.claim = "over",
                          !.result = 0, !.keeps = FALSE]
<1>1. job \in Job /\ m \in Job
  BY RetriedRow DEF RowInv, Unowned
<1>2. /\ m.status = "pending" /\ m.attempts = job.attempts
      /\ m.deadline = NULL /\ m.result = NULL /\ m.replay = NULL
  BY <1>1 DEF Retried, Job
<1>3. LifeOf(m).keeps = FALSE
  BY <1>2 DEF LifeOf, KeepsOldSuccess
<1>4. /\ LifeOf(m).status = "pending" /\ LifeOf(m).claim = "over"
      /\ LifeOf(m).run = l.run /\ LifeOf(m).result = 0
  BY <1>2 DEF LifeOf, ClaimOf, Newest
<1>5. /\ l \in Life!Lives /\ LifeOf(m) \in Life!Lives
      /\ l.status \in {"failed", "cancelled"}
  BY <1>1, LifeIsALife DEF LifeOf
<1> HIDE DEF m, l
<1>6. /\ t \in Life!Lives /\ t.status = "pending" /\ t.claim = "over"
      /\ t.result = 0 /\ t.keeps = FALSE /\ t.run = l.run
  BY <1>5 DEF Life!Lives, Life!JobStates
<1> HIDE DEF t
<1>7. LifeOf(m) = t
  BY <1>3, <1>4, <1>5, <1>6, LivesAgree
<1> QED
  BY <1>5, <1>7 DEF Life!Retry, m, l, t

LEMMA ReplayedLife ==
    ASSUME NEW job, RowInv(job), job.status = "success",
           NEW options \in ReplayOptions, NEW now \in Time
    PROVE  Life!Replay(LifeOf(job), LifeOf(Replayed(job, options, now)))
<1> DEFINE m == Replayed(job, options, now)
           l == LifeOf(job)
           k == LifeOf(m).keeps
           t == [l EXCEPT !.status = "pending", !.claim = "over", !.keeps = k]
<1>1. job \in Job /\ m \in Job
  BY ReplayedRow DEF RowInv, Unowned
<1>2. /\ m.status = "pending" /\ m.attempts = job.attempts
      /\ m.deadline = NULL /\ m.result = job.result
  BY <1>1 DEF Replayed, Job
<1>3. /\ LifeOf(m).status = "pending" /\ LifeOf(m).claim = "over"
      /\ LifeOf(m).run = l.run /\ LifeOf(m).result = l.result
  BY <1>2 DEF LifeOf, ClaimOf, Newest
<1>4. /\ l \in Life!Lives /\ LifeOf(m) \in Life!Lives /\ l.status = "success"
  BY <1>1, LifeIsALife DEF LifeOf
<1>5. k \in BOOLEAN
  BY <1>4 DEF Life!Lives
<1> HIDE DEF m, l
<1>6. /\ t \in Life!Lives /\ t.status = "pending" /\ t.claim = "over"
      /\ t.result = l.result /\ t.keeps = k /\ t.run = l.run
  BY <1>4, <1>5 DEF Life!Lives, Life!JobStates
<1> HIDE DEF t
<1>7. LifeOf(m) = t
  BY <1>3, <1>4, <1>6, LivesAgree
<1> QED
  BY <1>4, <1>5, <1>7 DEF Life!Replay, m, l, t

LEMMA ClaimedLife ==
    ASSUME NEW job, RowInv(job), job.status = "pending", NEW w \in Workers,
           NEW now \in Time
    PROVE  Life!Begin(LifeOf(job), LifeOf(Claimed(job, w, now)))
<1> DEFINE m == Claimed(job, w, now)
           l == LifeOf(job)
           t == [l EXCEPT !.status = "running", !.run = l.run + 1,
                          !.claim = "held"]
<1>1. job \in Job /\ m \in Job
  BY ClaimedRow DEF RowInv
<1>2. /\ m.status = "running" /\ m.result = job.result
      /\ m.replay = job.replay
  BY <1>1 DEF Claimed, Job
<1>3. Newest(m) = Newest(job) + 1
  <2> DEFINE a == [worker |-> w, outcome |-> NULL, started |-> now,
                   ended |-> NULL, replay |-> job.replay # NULL]
  <2>1. m.attempts = Append(job.attempts, a)
    BY <1>1 DEF Claimed, Job
  <2> HIDE DEF a
  <2>2. job.attempts \in Seq(Attempt)
    BY <1>1 DEF Job
  <2> QED
    BY <2>1, <2>2 DEF Newest
<1>4. LifeOf(m).keeps = l.keeps
  BY <1>2, ReplayDecidesKeeps
<1>5. /\ LifeOf(m).status = "running" /\ LifeOf(m).claim = "held"
      /\ LifeOf(m).run = l.run + 1 /\ LifeOf(m).result = l.result
  BY <1>2, <1>3 DEF LifeOf, ClaimOf
<1>6. /\ l \in Life!Lives /\ LifeOf(m) \in Life!Lives /\ l.status = "pending"
  BY <1>1, LifeIsALife DEF LifeOf
<1> HIDE DEF m, l
<1> DEFINE run == l.run + 1
<1>7. run \in Nat
  BY <1>6 DEF Life!Lives
<1> HIDE DEF run
<1>8. t = [l EXCEPT !.status = "running", !.run = run, !.claim = "held"]
  BY DEF run
<1> HIDE DEF t
<1>9. /\ t \in Life!Lives /\ t.status = "running" /\ t.claim = "held"
      /\ t.result = l.result /\ t.keeps = l.keeps /\ t.run = run
  BY <1>6, <1>7, <1>8 DEF Life!Lives, Life!JobStates
<1>10. LifeOf(m) = t
  BY <1>4, <1>5, <1>6, <1>9, LivesAgree DEF run
<1> QED
  BY <1>6, <1>10 DEF Life!Begin, m, l, t

\* A row before its first claim, and one that is not in the table.
LEMMA NewLife ==
    ASSUME NEW job \in Job, job.attempts = << >>, job.result = NULL,
           job.replay = NULL, job.status # "running"
    PROVE  LifeOf(job) = [Life!Unborn EXCEPT !.status = job.status]
<1> DEFINE t == [Life!Unborn EXCEPT !.status = job.status]
<1>1. LifeOf(job).keeps = FALSE
  BY DEF LifeOf, KeepsOldSuccess
<1>2. /\ LifeOf(job).status = job.status /\ LifeOf(job).claim = "over"
      /\ LifeOf(job).run = 0 /\ LifeOf(job).result = 0
  BY DEF LifeOf, ClaimOf, Newest
<1>3. LifeOf(job) \in Life!Lives
  BY LifeIsALife
<1>4. /\ t \in Life!Lives /\ t.status = job.status /\ t.claim = "over"
      /\ t.run = 0 /\ t.result = 0 /\ t.keeps = FALSE
  BY <1>2, <1>3 DEF Life!Unborn, Life!Lives
<1> HIDE DEF t
<1> QED
  BY <1>1, <1>2, <1>3, <1>4, LivesAgree DEF t

LEMMA AbsentLife ==
    ASSUME NEW status \in {"none", "deleted"}
    PROVE  LifeOf(Absent(status)) = [Life!Unborn EXCEPT !.status = status]
<1>1. Absent(status) \in Job
  BY AbsentRow, StoreAssumption DEF Unowned, RowInv
<1>2. /\ Absent(status).attempts = << >> /\ Absent(status).result = NULL
      /\ Absent(status).replay = NULL /\ Absent(status).status = status
  BY DEF Absent, NewJob
<1> QED
  BY <1>1, <1>2, NewLife


\* Deleting or purging a finished job.
LEMMA VanishedLife ==
    ASSUME NEW job, IsTerminal(job)
    PROVE  Life!Vanish(LifeOf(job), LifeOf(Absent("deleted")))
<1>1. LifeOf(job).status \in {"success", "failed", "cancelled"}
  BY DEF IsTerminal, TerminalStatuses, LifeOf
<1>2. LifeOf(Absent("deleted")) = [Life!Unborn EXCEPT !.status = "deleted"]
  BY AbsentLife
<1> QED
  BY <1>1, <1>2 DEF Life!Vanish

-----------------------------------------------------------------------------
(* The table. *)

\* What the store says of the lives of its jobs.
lives == [j \in Jobs |-> LifeOf(jobs[j])]

\* Only a claim begins a run; whatever else happens to a job goes on with the
\* runs it has.
Onward(l, m) ==
    \/ l = m
    \/ Life!Create(l, m)  \/ Life!Continue(l, m) \/ Life!Lapse(l, m)
    \/ Life!Fall(l, m)    \/ Life!Release(l, m)  \/ Life!Succeed(l, m)
    \/ Life!Cancel(l, m)  \/ Life!Retry(l, m)    \/ Life!Replay(l, m)
    \/ Life!Vanish(l, m)

JobsOnward == \A j \in Jobs : Onward(LifeOf(jobs[j]), LifeOf(jobs'[j]))

\* A transaction is a step of the lives when it is one for each job.
LEMMA EachJobSteps ==
    ASSUME IInv', \A j \in Jobs : \/ Onward(LifeOf(jobs[j]), LifeOf(jobs'[j]))
                                 \/ Life!Begin(LifeOf(jobs[j]), LifeOf(jobs'[j]))
    PROVE  Life!LifeNext
<1>1. \A j \in Jobs : LifeOf(jobs'[j]) \in Life!Lives
  BY LifeIsALife DEF IInv, RowInv
<1> QED
  BY <1>1 DEF Life!LifeNext, Life!LifeStep, Onward

\* A transaction that writes one row.
LEMMA OneJobOnward ==
    ASSUME IInv, NEW j \in Jobs, NEW row, Update(j, row),
           Onward(LifeOf(jobs[j]), LifeOf(row))
    PROVE  JobsOnward
<1>1. \A k \in Jobs : jobs'[k] = IF k = j THEN row ELSE jobs[k]
  BY DEF Update, IInv, TypeOK
<1>2. ASSUME NEW k \in Jobs
      PROVE  Onward(LifeOf(jobs[k]), LifeOf(jobs'[k]))
  <2>1. CASE k = j
    BY <1>1, <2>1
  <2>2. CASE k # j
    BY <1>1, <2>2 DEF Onward
  <2> QED
    BY <2>1, <2>2
<1> QED
  BY <1>2 DEF JobsOnward

\* What a claim writes.
LEMMA ClaimBegins ==
    ASSUME IInv, NEW w \in Workers, NEW type, NEW j \in Jobs, NEW now \in Nows,
           ClaimJob(w, type, j, now)
    PROVE  /\ \A k \in Jobs \ {j} : jobs'[k] = jobs[k]
           /\ jobs'[j] = Claimed(jobs[j], w, now)
           /\ Life!Begin(LifeOf(jobs[j]), LifeOf(jobs'[j]))
<1>1. jobs[j].status = "pending" /\ Update(j, Claimed(jobs[j], w, now))
  BY DEF ClaimJob, Claimable
<1>2. /\ \A k \in Jobs \ {j} : jobs'[k] = jobs[k]
      /\ jobs'[j] = Claimed(jobs[j], w, now)
  BY <1>1 DEF Update, IInv, TypeOK
<1>3. RowInv(jobs[j]) /\ now \in Time
  BY NowsAreTimes DEF IInv
<1> QED
  BY <1>1, <1>2, <1>3, ClaimedLife

LEMMA ClaimStepLife == IInv /\ IInv' /\ ClaimStep => Life!LifeNext
<1> SUFFICES ASSUME IInv, IInv', NEW w \in Workers, NEW type \in Types,
                    NEW j \in Jobs, NEW now \in Nows, ClaimJob(w, type, j, now)
             PROVE  Life!LifeNext
  BY DEF ClaimStep
<1>1. \A k \in Jobs : \/ Onward(LifeOf(jobs[k]), LifeOf(jobs'[k]))
                      \/ Life!Begin(LifeOf(jobs[k]), LifeOf(jobs'[k]))
  BY ClaimBegins DEF Onward
<1> QED
  BY <1>1, EachJobSteps

\* A call of a worker is Continue, and then the end of the run if it is one.
LEMMA HolderStepLife == IInv /\ HolderStep => JobsOnward
<1> SUFFICES ASSUME IInv, NEW j \in Jobs, NEW w \in Workers,
                    NEW token \in DOMAIN jobs[j].attempts,
                    NEW now \in HolderNows(j, token),
                    \/ HeartbeatJob(j, w, token, now)
                    \/ FinishSuccess(j, w, token, now)
                    \/ FinishFailure(j, w, token, now)
                    \/ ReleaseJob(j, w, token, now)
             PROVE  JobsOnward
  BY DEF HolderStep
<1> DEFINE held == Hold(jobs[j], w, token, now)
           l == LifeOf(jobs[j])
<1>1. RowInv(jobs[j]) /\ now \in Time /\ token \in Nat
  <2>1. now \in Nows
    BY DEF HolderNows
  <2> QED
    BY <2>1, NowsAreTimes DEF IInv, RowInv, Job
<1>2. \/ CanHold(jobs[j], w, token, now)
      \/ CanReclaim(jobs[j], w, token, now, Registered)
  BY DEF HeartbeatJob, FinishSuccess, FinishFailure, ReleaseJob, HoldOrReclaim
<1>3. /\ RowInv(held)
      /\ held.token # NULL
  BY <1>1, <1>2, HeldRow
<1>4. l \in Life!Lives /\ held \in Job
  BY <1>1, <1>3, LifeIsALife DEF RowInv
<1>5. Life!Continue(l, LifeOf(held))
  BY <1>1, <1>2, HeldLife
<1>6. CASE HeartbeatJob(j, w, token, now)
  <2>1. Update(j, Beaten(held, now))
    BY <1>6 DEF HeartbeatJob
  <2>2. LifeOf(Beaten(held, now)) = LifeOf(held)
    BY <1>4, BeatenLife
  <2> QED
    BY <1>5, <2>1, <2>2, OneJobOnward DEF Onward
<1>7. CASE FinishSuccess(j, w, token, now)
  <2>1. Update(j, Succeeded(held, now))
    BY <1>7 DEF FinishSuccess
  <2>2. Life!Succeed(LifeOf(held), LifeOf(Succeeded(held, now)))
    BY <1>1, <1>3, SucceededLife
  <2>3. Life!Succeed(l, LifeOf(Succeeded(held, now)))
    BY <1>4, <1>5, <2>2, ContinueThenSucceed
  <2> QED
    BY <2>1, <2>3, OneJobOnward DEF Onward
<1>8. CASE FinishFailure(j, w, token, now)
  <2>1. Update(j, Failed(held, now))
    BY <1>8 DEF FinishFailure
  <2>2. Life!Fall(LifeOf(held), LifeOf(Failed(held, now)))
    BY <1>1, <1>3, FailedLife
  <2>3. Life!Fall(l, LifeOf(Failed(held, now)))
    BY <1>4, <1>5, <2>2, ContinueThenFall
  <2> QED
    BY <2>1, <2>3, OneJobOnward DEF Onward
<1>9. CASE ReleaseJob(j, w, token, now)
  <2> DEFINE current == ExpireIfDue(jobs[j], now)
  <2>1. Update(j, Released(held, now)) /\ Holds(current, w, token)
    BY <1>9 DEF ReleaseJob, CanHold
  <2>2. held = current /\ current.token # NULL
    BY <1>1, <2>1, NullAssumption DEF Hold, Holds
  <2>3. held = jobs[j]
    BY <1>1, <2>2, ExpiredLife
  <2>4. Life!Release(l, LifeOf(Released(held, now)))
    BY <1>1, <1>3, <2>3, ReleasedLife
  <2> QED
    BY <2>1, <2>4, OneJobOnward DEF Onward
<1> QED
  BY <1>6, <1>7, <1>8, <1>9

LEMMA OperatorStepLife == IInv /\ OperatorStep => JobsOnward
<1> SUFFICES ASSUME IInv, OperatorStep
             PROVE  JobsOnward
  OBVIOUS
<1>1. PICK j \in Jobs, now \in Nows :
        \/ \E type \in Types, priority \in Priorities, maxRun \in MaxRuns,
              maxAttempt \in MaxAttempts, methods \in MethodCounts :
                CreateJob(j, type, priority, maxAttempt, maxRun, methods, now)
        \/ CancelJob(j, now)
        \/ RetryJob(j, now)
        \/ \E options \in Replays : ReplayJob(j, options, now)
        \/ \E priority \in Priorities : SetPriority(j, priority)
        \/ DeleteJob(j)
  BY DEF OperatorStep
<1> DEFINE l == LifeOf(jobs[j])
<1>2. RowInv(jobs[j]) /\ jobs[j] \in Job /\ now \in Time
  BY NowsAreTimes DEF IInv, RowInv
<1>3. ASSUME NEW type \in Types, NEW priority \in Priorities,
             NEW maxRun \in MaxRuns, NEW maxAttempt \in MaxAttempts,
             NEW methods \in MethodCounts,
             CreateJob(j, type, priority, maxAttempt, maxRun, methods, now)
      PROVE  JobsOnward
  <2> DEFINE row == NewJob(type, priority, maxAttempt, maxRun, methods, now)
  <2>1. /\ priority \in Int /\ maxAttempt \in Nat /\ maxRun \in Nat
        /\ methods \in Nat
    BY StoreAssumption
  <2>2. row \in Job
    BY <1>2, <2>1, NewRow DEF Unowned, RowInv
  <2>3. /\ row.attempts = << >> /\ row.result = NULL /\ row.replay = NULL
        /\ row.status = "pending"
    BY DEF NewJob
  <2>4. jobs[j].status = "none" /\ Update(j, row)
    BY <1>3 DEF CreateJob
  <2> HIDE DEF row
  <2>5. LifeOf(row) = [Life!Unborn EXCEPT !.status = "pending"]
    BY <2>2, <2>3, NewLife
  <2>6. l.status = "none"
    BY <2>4 DEF LifeOf
  <2>7. Life!Create(l, LifeOf(row))
    BY <2>5, <2>6 DEF Life!Create
  <2> QED
    BY <2>4, <2>7, OneJobOnward DEF Onward
<1>4. CASE CancelJob(j, now)
  <2>1. /\ jobs[j].status \in {"pending", "running"}
        /\ Update(j, Cancelled(jobs[j], now))
    BY <1>4 DEF CancelJob
  <2>2. Life!Cancel(l, LifeOf(Cancelled(jobs[j], now)))
    BY <1>2, <2>1, CancelledLife
  <2> QED
    BY <2>1, <2>2, OneJobOnward DEF Onward
<1>5. CASE RetryJob(j, now)
  <2>1. /\ jobs[j].status \in {"failed", "cancelled"}
        /\ Update(j, Retried(jobs[j], now))
    BY <1>5 DEF RetryJob
  <2>2. Life!Retry(l, LifeOf(Retried(jobs[j], now)))
    BY <1>2, <2>1, RetriedLife
  <2> QED
    BY <2>1, <2>2, OneJobOnward DEF Onward
<1>6. ASSUME NEW options \in Replays, ReplayJob(j, options, now)
      PROVE  JobsOnward
  <2>1. /\ jobs[j].status = "success"
        /\ Update(j, Replayed(jobs[j], options, now))
    BY <1>6 DEF ReplayJob
  <2>2. options \in ReplayOptions
    BY StoreAssumption
  <2>3. Life!Replay(l, LifeOf(Replayed(jobs[j], options, now)))
    BY <1>2, <2>1, <2>2, ReplayedLife
  <2> QED
    BY <2>1, <2>3, OneJobOnward DEF Onward
<1>7. ASSUME NEW priority \in Priorities, SetPriority(j, priority)
      PROVE  JobsOnward
  <2> DEFINE row == [jobs[j] EXCEPT !.priority = priority]
  <2>1. Update(j, row)
    BY <1>7 DEF SetPriority
  <2>2. SameLife(jobs[j], row)
    BY <1>2 DEF SameLife, Job
  <2> HIDE DEF row
  <2>3. l = LifeOf(row)
    BY <2>2, SameLifeIsOne
  <2> QED
    BY <2>1, <2>3, OneJobOnward DEF Onward
<1>8. CASE DeleteJob(j)
  <2>1. IsTerminal(jobs[j]) /\ Update(j, Absent("deleted"))
    BY <1>8 DEF DeleteJob
  <2>2. Life!Vanish(l, LifeOf(Absent("deleted")))
    BY <2>1, VanishedLife
  <2> QED
    BY <2>1, <2>2, OneJobOnward DEF Onward
<1> QED
  BY <1>1, <1>3, <1>4, <1>5, <1>6, <1>7, <1>8

LEMMA CleanerStepLife == IInv /\ CleanerStep => JobsOnward
<1> SUFFICES ASSUME IInv, CleanerStep
             PROVE  JobsOnward
  OBVIOUS
<1>1. ASSUME NEW now \in Nows, CleanupExpire(now)
      PROVE  JobsOnward
  <2>1. now \in Time /\ \A j \in Jobs : RowInv(jobs[j])
    BY NowsAreTimes DEF IInv
  <2>2. \A j \in Jobs : jobs'[j] = ExpireIfDue(jobs[j], now)
    BY <1>1 DEF CleanupExpire
  <2>3. ASSUME NEW j \in Jobs
        PROVE  Onward(LifeOf(jobs[j]), LifeOf(jobs'[j]))
    BY <2>1, <2>2, ExpiredLife DEF Onward
  <2> QED
    BY <2>3 DEF JobsOnward
<1>2. CASE CleanupPurge
  <2>1. \A j \in Jobs : jobs'[j] = IF Purgeable(jobs[j], cleaner)
                                   THEN Absent("deleted") ELSE jobs[j]
    BY <1>2 DEF CleanupPurge
  <2>2. ASSUME NEW j \in Jobs
        PROVE  Onward(LifeOf(jobs[j]), LifeOf(jobs'[j]))
    <3>1. CASE Purgeable(jobs[j], cleaner)
      BY <2>1, <3>1, VanishedLife DEF Purgeable, Onward
    <3>2. CASE ~Purgeable(jobs[j], cleaner)
      BY <2>1, <3>2 DEF Onward
    <3> QED
      BY <3>1, <3>2
  <2> QED
    BY <2>2 DEF JobsOnward
<1>3. CASE CleanupFails
  BY <1>3 DEF CleanupFails, JobsOnward, Onward
<1> QED
  BY <1>1, <1>2, <1>3 DEF CleanerStep

-----------------------------------------------------------------------------

LEMMA InitLife == Init => Life!LifeInit
<1> SUFFICES ASSUME Init
             PROVE  Life!LifeInit
  OBVIOUS
<1>1. \A j \in Jobs : jobs[j] = Absent("none")
  BY DEF Init
<1>2. LifeOf(Absent("none")) = Life!Unborn
  BY AbsentLife DEF Life!Unborn
<1> QED
  BY <1>1, <1>2 DEF Life!LifeInit

\* Whatever is not a claim.
LEMMA OthersOnward ==
    ASSUME IInv, [Next]_vars, ~ClaimStep
    PROVE  JobsOnward
<1>1. CASE WorkerStep \/ Tick \/ UNCHANGED vars
  <2>1. UNCHANGED jobs
    BY <1>1 DEF WorkerStep, RegisterWorker, HeartbeatWorker, DeleteWorker, Tick, vars
  <2> QED
    BY <2>1 DEF JobsOnward, Onward
<1>2. CASE JobStep
  BY <1>2, HolderStepLife, OperatorStepLife DEF JobStep
<1>3. CASE CleanerStep
  BY <1>3, CleanerStepLife
<1> QED
  BY <1>1, <1>2, <1>3 DEF Next

LEMMA NextLife == IInv /\ [Next]_vars => [Life!LifeNext]_lives
<1> SUFFICES ASSUME IInv, [Next]_vars
             PROVE  Life!LifeNext
  OBVIOUS
<1>1. IInv'
  BY NextHolds
<1>2. CASE ClaimStep
  BY <1>1, <1>2, ClaimStepLife
<1>3. CASE ~ClaimStep
  BY <1>1, <1>3, OthersOnward, EachJobSteps DEF JobsOnward
<1> QED
  BY <1>2, <1>3

\* The store implements JobLife: whatever the workers, the operators and the
\* cleaner do, in whatever order, a job takes only the steps of its life.
THEOREM StoreKeepsPromise == Spec => KeepsPromise
<1>1. Init => Life!LifeInit
  BY InitLife
<1>2. IInv /\ [Next]_vars => [Life!LifeNext]_lives
  BY NextLife
<1> QED
  BY <1>1, <1>2, StoreInvariant, PTL DEF Spec, KeepsPromise, Life!LifeSpec, lives

-----------------------------------------------------------------------------
(* What follows from the promise alone then holds of the store.  The two    *)
(* instances of JobLife are one, definition by definition.                  *)

LP == INSTANCE JobLife_proofs WITH life <- [j \in Jobs |-> LifeOf(jobs[j])]

LEMMA SameLifeStep ==
    ASSUME NEW l, NEW m, Life!LifeStep(l, m)
    PROVE  LP!LifeStep(l, m)
  BY DEF Life!LifeStep, Life!Create, Life!Begin, Life!Continue, Life!Lapse,
         Life!Fall, Life!Release, Life!Succeed, Life!Cancel, Life!Retry,
         Life!Replay, Life!Vanish, Life!Unsuccessful, Life!Kept, Life!Unborn,
         LP!LifeStep, LP!Create, LP!Begin, LP!Continue, LP!Lapse, LP!Fall,
         LP!Release, LP!Succeed, LP!Cancel, LP!Retry, LP!Replay, LP!Vanish,
         LP!Unsuccessful, LP!Kept, LP!Unborn

LEMMA SamePromise == KeepsPromise => LP!LifeSpec
<1>1. Life!LifeInit => LP!LifeInit
  BY DEF Life!LifeInit, LP!LifeInit, Life!Unborn, LP!Unborn
<1>2. Life!Lives = LP!Lives
  BY DEF Life!Lives, LP!Lives, Life!JobStates, LP!JobStates
<1>3. [Life!LifeNext]_lives => [LP!LifeNext]_lives
  BY <1>2, SameLifeStep DEF Life!LifeNext, LP!LifeNext
<1> QED
  BY <1>1, <1>3, PTL DEF KeepsPromise, Life!LifeSpec, LP!LifeSpec, lives

\* A success, and a replay that keeps one, has the result of a run of its job,
\* and a job runs exactly while a worker holds it.
THEOREM LifeAlwaysHolds == Spec => []LifeHolds
<1>1. LP!LifeInv => LifeHolds
  BY DEF LP!LifeInv, LifeHolds, Life!LifeInv
<1> QED
  BY <1>1, StoreKeepsPromise, SamePromise, LP!LifeInvariant, PTL

\* A run that is over stays over, whatever its worker still sends: only a new
\* claim gives the job to a worker again.
THEOREM OldRunsNeverReturn == Spec => OldRunsAreOver
<1>1. LP!OverIsOver => OldRunsAreOver
  BY PTL DEF LP!OverIsOver, OldRunsAreOver, Life!OverIsOver
<1> QED
  BY <1>1, StoreKeepsPromise, SamePromise, LP!OldRunsStayOver, PTL

-----------------------------------------------------------------------------
(* The order of claims. *)

\* Going on with the runs there are adds none to a job that waits.
LEMMA NoNewRun ==
    ASSUME NEW l \in Life!Lives, l.status = "pending", NEW m, Onward(l, m)
    PROVE  m.run = l.run
<1>1. CASE l = m
  BY <1>1
<1>2. CASE Life!Create(l, m) \/ Life!Retry(l, m) \/ Life!Replay(l, m)
           \/ Life!Vanish(l, m)
  BY <1>2 DEF Life!Create, Life!Retry, Life!Replay, Life!Vanish
<1>3. CASE Life!Continue(l, m) \/ Life!Release(l, m) \/ Life!Succeed(l, m)
  BY <1>3 DEF Life!Continue, Life!Release, Life!Succeed, Life!Lives
<1>4. CASE Life!Lapse(l, m) \/ Life!Fall(l, m)
  BY <1>4 DEF Life!Lapse, Life!Fall, Life!Unsuccessful, Life!Lives
<1>5. CASE Life!Cancel(l, m)
  BY <1>5 DEF Life!Cancel, Life!Lives
<1> QED
  BY <1>1, <1>2, <1>3, <1>4, <1>5 DEF Onward

\* The first column of the order decides.
LEMMA SentBackIsLast ==
    ASSUME NEW w, NEW j, NEW k, Before(ClaimRank(w, j), ClaimRank(w, k)),
           SentBack(w, j)
    PROVE  SentBack(w, k)
<1> SUFFICES ASSUME ~SentBack(w, k)
             PROVE  FALSE
  OBVIOUS
<1> DEFINE r == ClaimRank(w, j)
           s == ClaimRank(w, k)
<1>1. r[1] = 1 /\ s[1] = 0 /\ DOMAIN r = 1..4
  BY DEF ClaimRank
<1> HIDE DEF r, s
<1>2. PICK i \in 1..4 : r[i] < s[i] /\ \A h \in 1..(i - 1) : r[h] = s[h]
  BY <1>1 DEF Before, r, s
<1>3. CASE i = 1
  BY <1>1, <1>2, <1>3
<1>4. CASE i # 1
  <2>1. 1 \in 1..(i - 1)
    BY <1>4
  <2> QED
    BY <1>1, <1>2, <2>1
<1> QED
  BY <1>3, <1>4

\* A worker takes a job it already failed, lost or released only when no job it
\* has not touched is waiting, whatever the priorities are (claim_job).
THEOREM FreshAlwaysFirst == Spec => FreshJobsFirst
<1> DEFINE Fair(j) ==
              jobs[j].status = "pending" /\ Newest(jobs[j]') > Newest(jobs[j])
              => LET w == jobs[j]'.worker
                     waiting == Claimable(jobs[j].type, jobs[j]'.started)
                 IN  SentBack(w, j) => \A k \in waiting : SentBack(w, k)
           FirstFresh == \A j \in Jobs : Fair(j)
<1>1. ASSUME IInv, [Next]_vars
      PROVE  FirstFresh
  <2> SUFFICES ASSUME NEW j \in Jobs, jobs[j].status = "pending",
                      Newest(jobs'[j]) > Newest(jobs[j])
               PROVE  Fair(j)
    OBVIOUS
  <2>1. jobs[j] \in Job /\ Newest(jobs[j]) \in Nat
    BY <1>1 DEF IInv, TypeOK, Job, Newest
  <2>2. CASE ~ClaimStep
    <3>1. LifeOf(jobs'[j]).run = LifeOf(jobs[j]).run
      <4>1. LifeOf(jobs[j]) \in Life!Lives /\ LifeOf(jobs[j]).status = "pending"
        BY <2>1, LifeIsALife DEF LifeOf
      <4> QED
        BY <1>1, <2>2, <4>1, OthersOnward, NoNewRun DEF JobsOnward
    <3>2. Newest(jobs'[j]) = Newest(jobs[j])
      BY <3>1 DEF LifeOf
    <3> QED
      BY <2>1, <3>2
  <2>3. CASE ClaimStep
    <3>1. PICK w \in Workers, type \in Types, i \in Jobs, now \in Nows :
             ClaimJob(w, type, i, now)
      BY <2>3 DEF ClaimStep
    <3>2. /\ \A k \in Jobs \ {i} : jobs'[k] = jobs[k]
          /\ jobs'[i] = Claimed(jobs[i], w, now)
      BY <1>1, <3>1, ClaimBegins
    <3>3. j = i
      BY <2>1, <3>2
    <3>4. jobs'[j].worker = w /\ jobs'[j].started = now
      BY <2>1, <3>2, <3>3 DEF Claimed, Job
    <3>5. /\ jobs[j].type = type
          /\ \A k \in Claimable(type, now) \ {j} :
                Before(ClaimRank(w, j), ClaimRank(w, k))
      BY <3>1, <3>3 DEF ClaimJob, Claimable
    <3> QED
      BY <3>4, <3>5, SentBackIsLast
  <2> QED
    BY <2>2, <2>3
<1>2. IInv /\ [Next]_vars => [FirstFresh]_vars
  BY <1>1
<1> HIDE DEF FirstFresh
<1>3. Spec => [][FirstFresh]_vars
  BY <1>2, StoreInvariant, PTL DEF Spec
<1> QED
  BY <1>3 DEF FirstFresh, FreshJobsFirst

=============================================================================
