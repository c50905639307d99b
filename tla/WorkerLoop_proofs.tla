------------------------- MODULE WorkerLoop_proofs -------------------------
(***************************************************************************)
(* The example worker keeps its promises towards the store and the store   *)
(* its own with such workers, for any number of processes, jobs and claims *)
(* and any requests that are late or lost: two processes run one job only  *)
(* after a loss, and a job a process let go of does not come back to it.   *)
(***************************************************************************)
EXTENDS WorkerLoop, JobStoreRows_proofs, JobStoreLife_proofs

-----------------------------------------------------------------------------
(* The invariant. *)

\* A process that has a job in hand, whatever it knows of it.
Working(w) == main[w] \in {"handle", "release"} \cup Outcome

\* A claim that was answered is a run of its worker in the log of its job, as
\* long as the job is there.
RunsKnown ==
    \A c \in told :
        /\ jobs[c.job].status # "none"
        /\ Exists(c.job) =>
              /\ c.token \in DOMAIN jobs[c.job].attempts
              /\ jobs[c.job].attempts[c.token].worker = c.worker

\* A process works on a claim of its own that was answered.
OwnClaims ==
    \A w \in Workers : Working(w) => claim[w] \in told /\ claim[w].worker = w

\* A request that nobody waits for is of such a claim, and only a heartbeat is
\* not the last its process sent.
LateKnown ==
    \A request \in late :
        /\ request.claim \in told
        /\ request.call # "heartbeat" => ~Running(request.claim.worker)

\* A run that is being handled is open, unless its worker lost it: nobody has
\* reported an end of it.
HandledOpen ==
    \A w \in Workers :
        main[w] = "handle" /\ Exists(claim[w].job) =>
            jobs[claim[w].job].attempts[claim[w].token].outcome
                \in {NULL} \cup Losses

\* What the type invariant rests on: a request is of a known claim.
LoopTypeInv == LoopTypeOK /\ RunsKnown /\ OwnClaims /\ LateKnown

StoreInv == IInv /\ RowsKept

LoopIInv == StoreInv /\ LoopTypeInv /\ HandledOpen

-----------------------------------------------------------------------------
(* What a step asks of the store. *)

\* A request with the claim of a run is a step of the store's holders.
LEMMA AcceptedIsHolders ==
    ASSUME NEW call, NEW c \in Claim, NEW now, Accepted(call, c, now)
    PROVE  HolderStep
BY DEF Accepted, HolderStep, Claim

\* A refused one leaves the store alone.
LEMMA RejectedIsNothing ==
    ASSUME NEW call, NEW c, NEW now, Rejected(call, c, now)
    PROVE  UNCHANGED vars
BY DEF Rejected

\* The processes ask the store for nothing but what its clients may.
LEMMA LoopNextIsNext ==
    ASSUME LoopTypeInv, [LoopNext]_allVars
    PROVE  [Next]_vars
<1> USE DEF Next, JobStep
<1>1. \A w \in Workers : Working(w) => claim[w] \in Claim
  BY DEF LoopTypeInv, OwnClaims, LoopTypeOK
<1>2. ASSUME NEW w \in Workers, ProcessStep(w)
      PROVE  [Next]_vars
  <2>1. CASE Registers(w)
    BY <2>1 DEF Registers, WorkerStep
  <2>2. CASE Claims(w)
    BY <2>2 DEF Claims, ClaimStep
  <2>3. CASE ClaimRefused(w)
    BY <2>3 DEF ClaimRefused
  <2>4. CASE Handled(w)
    BY <2>4 DEF Handled
  <2>5. CASE Drops(w)
    BY <2>5 DEF Drops
  <2>6. CASE Finishes(w)
    <3>1. claim[w] \in Claim
      BY <1>1, <2>6 DEF Finishes, Working
    <3> QED  BY <3>1, <2>6, AcceptedIsHolders, RejectedIsNothing DEF Finishes
  <2>7. CASE RegisterFails(w)
    BY <2>7 DEF RegisterFails, UnansweredFor
  <2>8. CASE ClaimsUnseen(w)
    BY <2>8 DEF ClaimsUnseen, UnansweredFor
  <2>9. CASE Interrupted(w)
    BY <2>9 DEF Interrupted
  <2>10. CASE FinishFails(w)
    BY <2>10 DEF FinishFails, Unanswered
  <2>11. CASE Releases(w)
    <3>1. claim[w] \in Claim
      BY <1>1, <2>11 DEF Releases, Working
    <3> QED  BY <3>1, <2>11, AcceptedIsHolders, RejectedIsNothing
             DEF Releases, Unanswered
  <2>12. CASE Killed(w)
    BY <2>12 DEF Killed
  <2>13. CASE RenewsWorker(w)
    BY <2>13 DEF RenewsWorker, UnansweredFor, WorkerStep
  <2>14. CASE WorkerUnknown(w)
    BY <2>14 DEF WorkerUnknown
  <2>15. CASE Reregisters(w)
    BY <2>15 DEF Reregisters, UnansweredFor, WorkerStep
  <2>16. CASE RenewsJob(w)
    <3>1. claim[w] \in Claim
      BY <1>1, <2>16 DEF RenewsJob, BeatsJob, Working
    <3> QED  BY <3>1, <2>16, AcceptedIsHolders DEF RenewsJob, Unanswered
  <2>17. CASE LosesJob(w)
    BY <2>17, RejectedIsNothing DEF LosesJob
  <2> QED  BY <1>2, <2>1, <2>2, <2>3, <2>4, <2>5, <2>6, <2>7, <2>8, <2>9, <2>10,
              <2>11, <2>12, <2>13, <2>14, <2>15, <2>16, <2>17
           DEF ProcessStep, MainStep
<1>3. ASSUME NEW request \in late, Arrives(request)
      PROVE  [Next]_vars
  <2>1. request.claim \in Claim
    BY DEF LoopTypeInv, LoopTypeOK, Request
  <2> QED  BY <2>1, <1>3, AcceptedIsHolders, RejectedIsNothing DEF Arrives
<1>4. ASSUME NEW request \in adrift, Drifts(request)
      PROVE  [Next]_vars
  <2>1. request.worker \in Workers
    BY DEF LoopTypeInv, LoopTypeOK, WorkerRequest
  <2> QED  BY <2>1, <1>4 DEF Drifts, WorkerStep, ClaimStep
<1>5. CASE Forget \/ StoreStep
  BY <1>5 DEF StoreStep, Forget, WorkerStep
<1>6. ASSUME UNCHANGED allVars
      PROVE  [Next]_vars
  BY <1>6 DEF allVars
<1> QED  BY <1>2, <1>3, <1>4, <1>5, <1>6 DEF LoopNext, NetStep

-----------------------------------------------------------------------------
(* What a step makes of the processes. *)

\* A process that stopped stays so, and one that has a job in hand had it
\* already, or has just claimed it.
Places ==
    /\ told \subseteq told'
    /\ \A w \in Workers :
          /\ ~Running(w) => ~Running(w)'
          /\ Working(w)' =>
                \/ /\ Working(w)
                   /\ claim'[w] = claim[w]
                   /\ main'[w] = "handle" => main[w] = "handle"
                \/ Claims(w)

\* The main thread of one process moves alone.
LEMMA OneProcessMoves ==
    ASSUME LoopTypeOK, NEW w \in Workers, NEW place, Go(w, place)
    PROVE  /\ main'[w] = place
           /\ \A v \in Workers \ {w} : main'[v] = main[v]
BY DEF LoopTypeOK, Go

\* A process that only rests or stops after a step has no job in hand.
LEMMA RestsOrStops ==
    ASSUME LoopTypeOK, NEW w \in Workers, Running(w),
           NEW place \in {"register", "claim", "stopped"}, Go(w, place),
           UNCHANGED <<claim, told>>
    PROVE  Places
<1>1. /\ main'[w] = place
      /\ \A v \in Workers \ {w} : main'[v] = main[v]
  BY OneProcessMoves
<1> QED  BY <1>1 DEF Places, Running, Working, Outcome

\* Nobody moves.
LEMMA AllStay ==
    ASSUME UNCHANGED <<main, claim, told>>
    PROVE  Places
BY DEF Places, Running, Working

LEMMA StepPlaces ==
    ASSUME LoopTypeOK, [LoopNext]_allVars
    PROVE  Places
<1> USE DEF Running, Stops
<1>1. ASSUME NEW w \in Workers, ProcessStep(w)
      PROVE  Places
  <2>1. CASE Registers(w)
    BY <2>1, RestsOrStops DEF Registers
  <2>2. CASE Claims(w)
    <3>1. /\ main[w] = "claim" /\ main'[w] = "handle"
          /\ \A v \in Workers \ {w} : main'[v] = main[v]
      BY <2>2, OneProcessMoves DEF Claims
    <3>2. told \subseteq told' /\ \A v \in Workers \ {w} : claim'[v] = claim[v]
      BY <2>2 DEF Claims, LoopTypeOK
    <3> QED  BY <2>2, <3>1, <3>2 DEF Places, Working
  <2>3. CASE ClaimRefused(w)
    BY <2>3, RestsOrStops DEF ClaimRefused
  <2>4. CASE Handled(w)
    <3>1. PICK place \in Outcome : Go(w, place)
      BY <2>4 DEF Handled
    <3>2. /\ main[w] = "handle" /\ main'[w] = place
          /\ \A v \in Workers \ {w} : main'[v] = main[v]
      BY <2>4, <3>1, OneProcessMoves DEF Handled
    <3> QED  BY <2>4, <3>2 DEF Handled, Places, Working, Outcome
  <2>5. CASE Drops(w)
    BY <2>5, RestsOrStops DEF Drops, Outcome
  <2>6. CASE Finishes(w)
    BY <2>6, RestsOrStops DEF Finishes, Outcome
  <2>7. CASE RegisterFails(w)
    BY <2>7, RestsOrStops DEF RegisterFails
  <2>8. CASE ClaimsUnseen(w)
    BY <2>8, AllStay DEF ClaimsUnseen, processVars
  <2>9. CASE Interrupted(w)
    <3>1. /\ main[w] = "handle" /\ main'[w] = "release"
          /\ \A v \in Workers \ {w} : main'[v] = main[v]
      BY <2>9, OneProcessMoves DEF Interrupted
    <3> QED  BY <2>9, <3>1 DEF Interrupted, Places, Working
  <2>10. CASE FinishFails(w)
    BY <2>10, RestsOrStops DEF FinishFails, Outcome
  <2>11. CASE Releases(w)
    BY <2>11, RestsOrStops DEF Releases
  <2>12. CASE Killed(w)
    BY <2>12, RestsOrStops DEF Killed
  <2>13. CASE RenewsWorker(w)
    BY <2>13, AllStay DEF RenewsWorker, processVars
  <2>14. CASE WorkerUnknown(w)
    BY <2>14, AllStay DEF WorkerUnknown
  <2>15. CASE Reregisters(w)
    BY <2>15, AllStay DEF Reregisters
  <2>16. CASE RenewsJob(w)
    BY <2>16, AllStay DEF RenewsJob, processVars
  <2>17. CASE LosesJob(w)
    BY <2>17, AllStay DEF LosesJob
  <2> QED  BY <1>1, <2>1, <2>2, <2>3, <2>4, <2>5, <2>6, <2>7, <2>8, <2>9, <2>10,
              <2>11, <2>12, <2>13, <2>14, <2>15, <2>16, <2>17
           DEF ProcessStep, MainStep
<1>2. ASSUME NEW request \in late, Arrives(request)
      PROVE  Places
  BY <1>2, AllStay DEF Arrives, processVars
<1>3. ASSUME NEW request \in adrift, Drifts(request)
      PROVE  Places
  BY <1>3, AllStay DEF Drifts, processVars
<1>4. CASE Forget \/ StoreStep
  BY <1>4, AllStay DEF Forget, StoreStep, loopVars
<1>5. ASSUME UNCHANGED allVars
      PROVE  Places
  BY <1>5, AllStay DEF allVars, loopVars
<1> QED  BY <1>1, <1>2, <1>3, <1>4, <1>5 DEF LoopNext, NetStep

\* Only a claim tells a worker of a run, and only a request that goes
\* unanswered is late.
LEMMA OnlyClaimsTell ==
    ASSUME [LoopNext]_allVars
    PROVE  told' = told \/ \E w \in Workers : Claims(w)
BY DEF LoopNext, ProcessStep, MainStep, Registers, ClaimRefused, Handled, Drops,
       Finishes, RegisterFails, ClaimsUnseen, Interrupted, FinishFails, Releases,
       Killed, RenewsWorker, WorkerUnknown, Reregisters, RenewsJob, LosesJob,
       NetStep, Arrives, Drifts, Forget, StoreStep, Stops, allVars, loopVars,
       processVars

LEMMA OnlyUnansweredIsLate ==
    ASSUME [LoopNext]_allVars
    PROVE  \/ late' \subseteq late
           \/ \E w \in Workers : FinishFails(w) \/ Releases(w) \/ RenewsJob(w)
BY DEF LoopNext, ProcessStep, MainStep, Registers, Claims, ClaimRefused, Handled,
       Drops, Finishes, RegisterFails, ClaimsUnseen, UnansweredFor, Interrupted,
       Killed, RenewsWorker, WorkerUnknown, Reregisters, LosesJob, NetStep,
       Arrives, Drifts, Forget, StoreStep, netVars, allVars, loopVars

-----------------------------------------------------------------------------
(* Types, and what a process knows of its claims. *)

LEMMA TypesKept ==
    ASSUME LoopTypeInv, [LoopNext]_allVars, TypeOK
    PROVE  LoopTypeOK'
<1> USE DEF LoopTypeOK, Go, netVars
<1>1. \A w \in Workers : Working(w) => claim[w] \in Claim
  BY DEF LoopTypeInv, OwnClaims
<1>2. LoopTypeOK
  BY DEF LoopTypeInv
<1>3. ASSUME NEW w \in Workers, ProcessStep(w)
      PROVE  LoopTypeOK'
  <2> USE DEF Stops
  <2>1. CASE Registers(w)
    BY <2>1, <1>2 DEF Registers
  <2>2. CASE Claims(w)
    <3>1. PICK type \in Types, j \in Jobs, now \in Nows :
             LET c == [worker |-> w, job |-> j, token |-> Newest(jobs[j]) + 1]
             IN  claim' = [claim EXCEPT ![w] = c] /\ told' = told \cup {c}
      BY <2>2 DEF Claims
    <3>2. Newest(jobs[j]) \in Nat
      BY DEF TypeOK, Job, Newest
    <3>3. [worker |-> w, job |-> j, token |-> Newest(jobs[j]) + 1] \in Claim
      BY <3>2 DEF Claim
    <3> QED  BY <2>2, <1>2, <3>1, <3>3 DEF Claims
  <2>3. CASE ClaimRefused(w)
    BY <2>3, <1>2 DEF ClaimRefused
  <2>4. CASE Handled(w)
    BY <2>4, <1>2 DEF Handled
  <2>5. CASE Drops(w)
    BY <2>5, <1>2 DEF Drops
  <2>6. CASE Finishes(w)
    BY <2>6, <1>2 DEF Finishes
  <2>7. CASE RegisterFails(w)
    BY <2>7, <1>2 DEF RegisterFails, UnansweredFor, WorkerRequest
  <2>8. CASE ClaimsUnseen(w)
    BY <2>8, <1>2 DEF ClaimsUnseen, UnansweredFor, WorkerRequest, processVars
  <2>9. CASE Interrupted(w)
    BY <2>9, <1>2 DEF Interrupted
  <2>10. CASE FinishFails(w)
    <3>1. [call |-> main[w], claim |-> claim[w]] \in Request
      BY <2>10, <1>1 DEF FinishFails, Working, Request
    <3> QED  BY <2>10, <1>2, <3>1 DEF FinishFails, Unanswered
  <2>11. CASE Releases(w)
    <3>1. [call |-> "release", claim |-> claim[w]] \in Request
      BY <2>11, <1>1 DEF Releases, Working, Request
    <3> QED  BY <2>11, <1>2, <3>1 DEF Releases, Unanswered
  <2>12. CASE Killed(w)
    BY <2>12, <1>2 DEF Killed
  <2>13. CASE RenewsWorker(w)
    BY <2>13, <1>2 DEF RenewsWorker, UnansweredFor, WorkerRequest, processVars
  <2>14. CASE WorkerUnknown(w)
    BY <2>14, <1>2 DEF WorkerUnknown
  <2>15. CASE Reregisters(w)
    BY <2>15, <1>2 DEF Reregisters, UnansweredFor, WorkerRequest
  <2>16. CASE RenewsJob(w)
    <3>1. [call |-> "heartbeat", claim |-> claim[w]] \in Request
      BY <2>16, <1>1 DEF RenewsJob, BeatsJob, Working, Request
    <3> QED  BY <2>16, <1>2, <3>1 DEF RenewsJob, Unanswered, processVars
  <2>17. CASE LosesJob(w)
    BY <2>17, <1>2 DEF LosesJob
  <2> QED  BY <1>3, <2>1, <2>2, <2>3, <2>4, <2>5, <2>6, <2>7, <2>8, <2>9, <2>10,
              <2>11, <2>12, <2>13, <2>14, <2>15, <2>16, <2>17
           DEF ProcessStep, MainStep
<1>4. ASSUME NEW request \in late, Arrives(request)
      PROVE  LoopTypeOK'
  BY <1>4, <1>2 DEF Arrives, processVars
<1>5. ASSUME NEW request \in adrift, Drifts(request)
      PROVE  LoopTypeOK'
  BY <1>5, <1>2 DEF Drifts, processVars
<1>6. CASE Forget
  BY <1>6, <1>2 DEF Forget
<1>7. CASE StoreStep
  BY <1>7, <1>2 DEF StoreStep, loopVars
<1>8. ASSUME UNCHANGED allVars
      PROVE  LoopTypeOK'
  BY <1>8, <1>2 DEF allVars, loopVars
<1> QED  BY <1>3, <1>4, <1>5, <1>6, <1>7, <1>8 DEF LoopNext, NetStep

\* What a claim tells its worker: a new run, its own and open.
LEMMA ClaimTells ==
    ASSUME IInv, LoopTypeOK, NEW w \in Workers, Claims(w)
    PROVE  \E c \in Claim :
              /\ c.worker = w /\ claim'[w] = c /\ told' = told \cup {c}
              /\ w \in Registered
              /\ Exists(c.job)'
              /\ c.token = Newest(jobs'[c.job])
              /\ c.token \in DOMAIN jobs'[c.job].attempts
              /\ jobs'[c.job].attempts[c.token].worker = w
              /\ jobs'[c.job].attempts[c.token].outcome = NULL
<1>1. PICK type \in Types, j \in Jobs, now \in Nows :
         LET c == [worker |-> w, job |-> j, token |-> Newest(jobs[j]) + 1]
         IN  /\ ClaimJob(w, type, j, now)
             /\ claim' = [claim EXCEPT ![w] = c]
             /\ told' = told \cup {c}
  BY DEF Claims
<1> DEFINE n == Newest(jobs[j]) + 1
           c == [worker |-> w, job |-> j, token |-> n]
<1>2. jobs[j] \in Job /\ Newest(jobs[j]) \in Nat
  BY DEF IInv, TypeOK, Job, Newest
<1>3. c \in Claim /\ c.worker = w /\ c.job = j /\ c.token = n
  BY <1>2 DEF Claim
<1>4. claim'[w] = c /\ told' = told \cup {c}
  BY <1>1 DEF LoopTypeOK
<1>5. jobs'[j] = Claimed(jobs[j], w, now)
  BY <1>1, ClaimBegins
<1>6. jobs'[j].status = "running"
      /\ jobs'[j].attempts = Append(jobs[j].attempts,
            [worker |-> w, outcome |-> NULL, started |-> now, ended |-> NULL,
             replay |-> jobs[j].replay # NULL])
  BY <1>2, <1>5 DEF Claimed, Job
<1>7. jobs[j].attempts \in Seq(Attempt)
  BY <1>2 DEF Job
<1>8. /\ Len(jobs'[j].attempts) = n
      /\ n \in DOMAIN jobs'[j].attempts
      /\ jobs'[j].attempts[n].worker = w
      /\ jobs'[j].attempts[n].outcome = NULL
  BY <1>6, <1>7, <1>2 DEF Newest
<1>9. w \in Registered
  BY <1>1 DEF ClaimJob
<1> QED  BY <1>3, <1>4, <1>6, <1>8, <1>9 DEF Exists, Newest

\* A job that was created stays or is deleted for good, and its runs stay
\* those of their workers.
LEMMA RowsStay ==
    ASSUME StoreInv, [Next]_vars, NEW j \in Jobs, jobs[j].status # "none"
    PROVE  /\ jobs'[j].status # "none"
           /\ Exists(j)' => Exists(j)
           /\ Exists(j)' => \A k \in DOMAIN jobs[j].attempts :
                 /\ k \in DOMAIN jobs'[j].attempts
                 /\ jobs'[j].attempts[k].worker = jobs[j].attempts[k].worker
<1>1. [Life!LifeNext]_lives
  BY NextLife DEF StoreInv
<1>2. LifeOf(jobs'[j]) = LifeOf(jobs[j])
      \/ Life!LifeStep(LifeOf(jobs[j]), LifeOf(jobs'[j]))
  BY <1>1 DEF lives, Life!LifeNext
<1>3. /\ LifeOf(jobs[j]).status = jobs[j].status
      /\ LifeOf(jobs'[j]).status = jobs'[j].status
  BY DEF LifeOf
<1>4. jobs'[j].status # "none"
      /\ (jobs[j].status = "deleted" => jobs'[j].status = "deleted")
  <2>1. CASE LifeOf(jobs'[j]) = LifeOf(jobs[j])
    BY <2>1, <1>3
  <2>2. ASSUME Life!LifeStep(LifeOf(jobs[j]), LifeOf(jobs'[j]))
        PROVE  /\ LifeOf(jobs[j]).status # "deleted"
               /\ LifeOf(jobs'[j]).status # "none"
    <3>1. LifeOf(jobs[j]) \in Life!Lives
      BY LifeIsALife DEF StoreInv, IInv, TypeOK
    <3>2. jobs[j].status = "deleted" => LifeOf(jobs[j]).claim = "over"
      BY DEF LifeOf, ClaimOf
    <3> QED  BY <2>2, <3>1, <3>2, <1>3
             DEF Life!LifeStep, Life!Create, Life!Begin, Life!Continue,
                 Life!Lapse, Life!Fall, Life!Release, Life!Succeed, Life!Cancel,
                 Life!Retry, Life!Replay, Life!Vanish, Life!Unsuccessful,
                 Life!Kept, Life!Lives, Life!JobStates, Life!Unborn
  <2> QED  BY <1>2, <1>3, <2>1, <2>2
<1>5. LogStep(jobs[j], jobs'[j])
  BY RowsFollow DEF StoreInv, Follows
<1>6. jobs'[j].status # "deleted" => \A k \in DOMAIN jobs[j].attempts :
         /\ k \in DOMAIN jobs'[j].attempts
         /\ jobs'[j].attempts[k].worker = jobs[j].attempts[k].worker
  BY <1>5 DEF LogStep
<1> QED  BY <1>4, <1>6 DEF Exists

LEMMA RunsStayKnown ==
    ASSUME StoreInv, LoopTypeInv, [LoopNext]_allVars
    PROVE  RunsKnown'
<1> SUFFICES ASSUME NEW c \in told'
             PROVE  /\ jobs'[c.job].status # "none"
                    /\ Exists(c.job)' =>
                          /\ c.token \in DOMAIN jobs'[c.job].attempts
                          /\ jobs'[c.job].attempts[c.token].worker = c.worker
  BY DEF RunsKnown, Exists
<1>1. CASE c \in told
  <2>1. c.job \in Jobs
    BY <1>1 DEF LoopTypeInv, LoopTypeOK, Claim
  <2>2. jobs[c.job].status # "none"
        /\ (Exists(c.job) => /\ c.token \in DOMAIN jobs[c.job].attempts
                             /\ jobs[c.job].attempts[c.token].worker = c.worker)
    BY <1>1 DEF LoopTypeInv, RunsKnown
  <2> QED  BY <2>1, <2>2, RowsStay, LoopNextIsNext
<1>2. CASE c \notin told
  <2>1. PICK w \in Workers : Claims(w)
    BY <1>2, OnlyClaimsTell
  <2>2. /\ c.worker = w /\ Exists(c.job)'
        /\ c.token \in DOMAIN jobs'[c.job].attempts
        /\ jobs'[c.job].attempts[c.token].worker = w
    BY <1>2, <2>1, ClaimTells DEF StoreInv, LoopTypeInv
  <2> QED  BY <2>2 DEF Exists
<1> QED  BY <1>1, <1>2

LEMMA ClaimsStayOwn ==
    ASSUME IInv, LoopTypeInv, [LoopNext]_allVars
    PROVE  OwnClaims'
<1>1. Places
  BY StepPlaces DEF LoopTypeInv
<1> SUFFICES ASSUME NEW w \in Workers, Working(w)'
             PROVE  claim'[w] \in told' /\ claim'[w].worker = w
  BY DEF OwnClaims
<1>2. CASE Working(w) /\ claim'[w] = claim[w]
  BY <1>1, <1>2 DEF Places, LoopTypeInv, OwnClaims
<1>3. CASE Claims(w)
  BY <1>3, ClaimTells DEF LoopTypeInv
<1> QED  BY <1>1, <1>2, <1>3 DEF Places

LEMMA LateStaysKnown ==
    ASSUME LoopTypeInv, [LoopNext]_allVars
    PROVE  LateKnown'
<1>1. Places
  BY StepPlaces DEF LoopTypeInv
<1> SUFFICES ASSUME NEW r \in late'
             PROVE  /\ r.claim \in told'
                    /\ r.call # "heartbeat" => ~Running(r.claim.worker)'
  BY DEF LateKnown
<1>2. CASE r \in late
  <2>1. r.claim \in told /\ (r.call # "heartbeat" => ~Running(r.claim.worker))
    BY <1>2 DEF LoopTypeInv, LateKnown
  <2>2. r.claim.worker \in Workers
    BY <1>2 DEF LoopTypeInv, LoopTypeOK, Request, Claim
  <2> QED  BY <1>1, <2>1, <2>2 DEF Places
<1>3. CASE r \notin late
  <2>1. PICK w \in Workers : FinishFails(w) \/ Releases(w) \/ RenewsJob(w)
    BY <1>3, OnlyUnansweredIsLate
  <2>2. Working(w) /\ told' = told
    BY <2>1 DEF Working, FinishFails, Releases, RenewsJob, BeatsJob, Stops,
                processVars
  <2>3. claim[w] \in told /\ claim[w].worker = w
    BY <2>2 DEF LoopTypeInv, OwnClaims
  <2>4. CASE RenewsJob(w)
    <3>1. r = [call |-> "heartbeat", claim |-> claim[w]]
      BY <1>3, <2>4 DEF RenewsJob, Unanswered, netVars
    <3> QED  BY <3>1, <2>2, <2>3
  <2>5. CASE FinishFails(w) \/ Releases(w)
    <3>1. r.claim = claim[w]
      BY <1>3, <2>5 DEF FinishFails, Releases, Unanswered, netVars
    <3>2. main'[w] = "stopped"
      BY <2>5, OneProcessMoves DEF LoopTypeInv, FinishFails, Releases, Stops
    <3> QED  BY <3>1, <3>2, <2>2, <2>3 DEF Running
  <2> QED  BY <2>1, <2>4, <2>5
<1> QED  BY <1>2, <1>3

\* Every step keeps the type invariant and what it rests on.
LEMMA LoopTypesKept ==
    ASSUME StoreInv, LoopTypeInv, [LoopNext]_allVars
    PROVE  LoopTypeInv'
BY TypesKept, RunsStayKnown, ClaimsStayOwn, LateStaysKnown
   DEF LoopTypeInv, StoreInv, IInv

-----------------------------------------------------------------------------
(* A run ends under its worker only by a loss. *)

\* A process that is past handling its job, or its late request, reports the
\* end of a run.
ReportedBy(c) ==
    /\ main[c.worker] # "handle"
    /\ c.token \in DOMAIN jobs[c.job].attempts
    /\ \E now \in HolderNows(c.job, c.token) :
          Reports(c.job, c.worker, c.token, now)

LEMMA AcceptedBeatsOrReports ==
    ASSUME NEW call, NEW c \in Claim, NEW now, Accepted(call, c, now)
    PROVE  \/ BeatStep
           \/ /\ call # "heartbeat"
              /\ c.token \in DOMAIN jobs[c.job].attempts
              /\ now \in HolderNows(c.job, c.token)
              /\ Reports(c.job, c.worker, c.token, now)
BY DEF Accepted, BeatStep, Reports, Claim

\* Whatever else the processes do ends no run but by a loss.
LEMMA QuietOrReported ==
    ASSUME LoopTypeInv, [LoopNext]_allVars
    PROVE  QuietStep \/ UNCHANGED vars \/ \E c \in told : ReportedBy(c)
<1> USE DEF QuietStep
<1>1. \A w \in Workers :
         Working(w) => claim[w] \in Claim /\ claim[w] \in told
                       /\ claim[w].worker = w
  BY DEF LoopTypeInv, OwnClaims, LoopTypeOK
<1>2. ASSUME NEW c \in told, c \in Claim, NEW call, NEW now,
             Accepted(call, c, now), call # "heartbeat" => main[c.worker] # "handle"
      PROVE  BeatStep \/ ReportedBy(c)
  BY <1>2, AcceptedBeatsOrReports DEF ReportedBy
<1>3. ASSUME NEW w \in Workers, ProcessStep(w)
      PROVE  QuietStep \/ UNCHANGED vars \/ \E c \in told : ReportedBy(c)
  <2>1. CASE Finishes(w)
    <3>1. Working(w) /\ main[w] # "handle"
      BY <2>1 DEF Finishes, Working, Outcome
    <3> QED  BY <1>1, <1>2, <3>1, <2>1, RejectedIsNothing DEF Finishes
  <2>2. CASE Releases(w)
    <3>1. Working(w) /\ main[w] # "handle"
      BY <2>2 DEF Releases, Working
    <3> QED  BY <1>1, <1>2, <3>1, <2>2, RejectedIsNothing
             DEF Releases, Unanswered
  <2>3. CASE RenewsJob(w)
    <3>1. Working(w)
      BY <2>3 DEF RenewsJob, BeatsJob, Working
    <3> QED  BY <1>1, <1>2, <3>1, <2>3 DEF RenewsJob, Unanswered
  <2>4. CASE Registers(w) \/ RegisterFails(w) \/ RenewsWorker(w) \/ Reregisters(w)
    BY <2>4 DEF Registers, RegisterFails, UnansweredFor, RenewsWorker,
                Reregisters, WorkerStep
  <2>5. CASE Claims(w) \/ ClaimsUnseen(w)
    BY <2>5 DEF Claims, ClaimsUnseen, UnansweredFor, ClaimStep
  <2>6. CASE LosesJob(w)
    BY <2>6, RejectedIsNothing DEF LosesJob
  <2>7. CASE ClaimRefused(w) \/ Handled(w) \/ Drops(w) \/ Interrupted(w)
             \/ FinishFails(w) \/ Killed(w) \/ WorkerUnknown(w)
    BY <2>7 DEF ClaimRefused, Handled, Drops, Interrupted, FinishFails, Killed,
                WorkerUnknown, Unanswered
  <2> QED  BY <1>3, <2>1, <2>2, <2>3, <2>4, <2>5, <2>6, <2>7
           DEF ProcessStep, MainStep
<1>4. ASSUME NEW r \in late, Arrives(r)
      PROVE  QuietStep \/ UNCHANGED vars \/ \E c \in told : ReportedBy(c)
  <2>1. r.claim \in told /\ r.claim \in Claim
        /\ (r.call # "heartbeat" => main[r.claim.worker] # "handle")
    BY DEF LoopTypeInv, LateKnown, LoopTypeOK, Request, Running
  <2> QED  BY <1>2, <1>4, <2>1, RejectedIsNothing DEF Arrives
<1>5. ASSUME NEW r \in adrift, Drifts(r)
      PROVE  QuietStep \/ UNCHANGED vars
  <2>1. r.worker \in Workers
    BY DEF LoopTypeInv, LoopTypeOK, WorkerRequest
  <2> QED  BY <2>1, <1>5 DEF Drifts, WorkerStep, ClaimStep
<1>6. CASE Forget \/ StoreStep
  BY <1>6 DEF StoreStep, Forget, WorkerStep
<1>7. ASSUME UNCHANGED allVars
      PROVE  UNCHANGED vars
  BY <1>7 DEF allVars
<1> QED  BY <1>3, <1>4, <1>5, <1>6, <1>7 DEF LoopNext, NetStep

\* The end that a worker reports is of the newest run, which is its own: the
\* runs of the others stay.
LEMMA ReportsEndOwnRun ==
    ASSUME StoreInv, LoopTypeInv, [Next]_vars, NEW c \in told, ReportedBy(c),
           NEW j \in Jobs, Exists(j), Exists(j)',
           NEW k \in DOMAIN jobs[j].attempts,
           jobs[j].attempts[k].worker # c.worker
    PROVE  jobs'[j].attempts[k] = jobs[j].attempts[k]
<1>1. c \in Claim
  BY DEF LoopTypeInv, LoopTypeOK
<1>2. PICK now \in HolderNows(c.job, c.token) :
         Reports(c.job, c.worker, c.token, now)
  BY DEF ReportedBy
<1>3. /\ c.token = Newest(jobs[c.job])
      /\ jobs[c.job].attempts[c.token].worker = c.worker
  BY <1>1, <1>2, HolderMoves DEF ReportedBy, StoreInv, Claim
<1>4. CASE j = c.job
  <2>1. k # Newest(jobs[j])
    BY <1>3, <1>4
  <2>2. LogStep(jobs[j], jobs'[j])
    BY RowsFollow DEF StoreInv, Follows
  <2> QED  BY <2>1, <2>2 DEF LogStep, Exists
<1>5. CASE j # c.job
  <2>1. \E row : Update(c.job, row)
    BY <1>2 DEF Reports, FinishSuccess, FinishFailure, ReleaseJob
  <2> QED  BY <1>5, <2>1 DEF Update, StoreInv, IInv, TypeOK
<1> QED  BY <1>4, <1>5

LEMMA HandledStaysOpen ==
    ASSUME LoopIInv, [LoopNext]_allVars
    PROVE  HandledOpen'
<1> USE DEF LoopIInv
<1>1. Places /\ [Next]_vars
  BY StepPlaces, LoopNextIsNext DEF LoopTypeInv
<1> SUFFICES ASSUME NEW w \in Workers, main'[w] = "handle",
                    NEW c, claim'[w] = c, Exists(c.job)'
             PROVE  jobs'[c.job].attempts[c.token].outcome \in {NULL} \cup Losses
  BY DEF HandledOpen, Exists
<1>2. CASE Claims(w)
  BY <1>2, ClaimTells DEF StoreInv, LoopTypeInv
<1>3. CASE main[w] = "handle" /\ claim'[w] = claim[w]
  <2>1. c = claim[w] /\ c \in told /\ c.worker = w
    BY <1>3 DEF LoopTypeInv, OwnClaims, Working
  <2>2. c.job \in Jobs
    BY <2>1 DEF LoopTypeInv, LoopTypeOK, Claim
  <2>3. jobs[c.job].status # "none"
    BY <2>1 DEF LoopTypeInv, RunsKnown
  <2>4. Exists(c.job)
    BY <1>1, <2>2, <2>3, RowsStay
  <2>5. /\ c.token \in DOMAIN jobs[c.job].attempts
        /\ jobs[c.job].attempts[c.token].worker = w
    BY <2>1, <2>4 DEF LoopTypeInv, RunsKnown
  <2>6. jobs[c.job].attempts[c.token].outcome \in {NULL} \cup Losses
    BY <1>3, <2>1, <2>4 DEF HandledOpen
  <2>7. CASE QuietStep \/ UNCHANGED vars
    <3>1. QuietlyMoved(jobs[c.job], jobs'[c.job])
      BY <2>2, <2>7, QuietStepMoves DEF StoreInv
    <3>2. jobs'[c.job].attempts[c.token].outcome
             \in {jobs[c.job].attempts[c.token].outcome, NULL} \cup Losses
      BY <2>5, <3>1 DEF QuietlyMoved, EndsByLoss, Exists
    <3> QED  BY <2>6, <3>2
  <2>8. ASSUME NEW d \in told, ReportedBy(d)
        PROVE  jobs'[c.job].attempts[c.token].outcome \in {NULL} \cup Losses
    <3>1. d.worker # w
      BY <1>3, <2>8 DEF ReportedBy
    <3>2. jobs'[c.job].attempts[c.token] = jobs[c.job].attempts[c.token]
      BY <1>1, <2>2, <2>4, <2>5, <2>8, <3>1, ReportsEndOwnRun
    <3> QED  BY <2>6, <3>2
  <2> QED  BY <2>7, <2>8, QuietOrReported
<1> QED  BY <1>1, <1>2, <1>3 DEF Places, Working

-----------------------------------------------------------------------------

LEMMA LoopStartsRight == LoopInit => LoopIInv
<1> SUFFICES ASSUME LoopInit
             PROVE  LoopIInv
  OBVIOUS
<1>1. StoreInv
  BY InitHolds, RowsKeptAtFirst DEF LoopInit, StoreInv
<1>2. LoopTypeOK
  BY DEF LoopInit, LoopTypeOK
<1>3. RunsKnown /\ OwnClaims /\ LateKnown /\ HandledOpen
  BY DEF LoopInit, RunsKnown, OwnClaims, LateKnown, HandledOpen, Working, Outcome
<1> QED  BY <1>1, <1>2, <1>3 DEF LoopIInv, LoopTypeInv

\* The store's own invariants hold with these workers as with any.
LEMMA StoreStaysRight == StoreInv /\ [Next]_vars => StoreInv'
<1> SUFFICES ASSUME StoreInv, [Next]_vars
             PROVE  StoreInv'
  OBVIOUS
<1>1. IInv'
  BY NextHolds DEF StoreInv
<1>2. RowsKept'
  BY RowsFollow DEF StoreInv, RowsKept, Follows
<1> QED  BY <1>1, <1>2 DEF StoreInv

LEMMA LoopNextHolds == LoopIInv /\ [LoopNext]_allVars => LoopIInv'
<1> SUFFICES ASSUME LoopIInv, [LoopNext]_allVars
             PROVE  LoopIInv'
  OBVIOUS
<1>1. StoreInv'
  BY LoopNextIsNext, StoreStaysRight DEF LoopIInv
<1>2. LoopTypeInv' /\ HandledOpen'
  BY LoopTypesKept, HandledStaysOpen DEF LoopIInv
<1> QED  BY <1>1, <1>2 DEF LoopIInv

LEMMA LoopIInvariant == LoopSpec => []LoopIInv
BY LoopStartsRight, LoopNextHolds, PTL DEF LoopSpec

\* The threads, the claims and the requests of every process always have values
\* of their types.
THEOREM LoopTypesHold == LoopSpec => []LoopTypeOK
<1>1. LoopIInv => LoopTypeOK
  BY DEF LoopIInv, LoopTypeInv
<1> QED  BY <1>1, LoopIInvariant, PTL

\* The processes and their late requests are clients the store is made for:
\* whatever holds of JobStore holds of it with them (worker.py, run).
THEOREM LoopKeepsStore == LoopSpec => Spec
<1>1. LoopInit => Init
  BY DEF LoopInit
<1>2. LoopIInv /\ [LoopNext]_allVars => [Next]_vars
  BY LoopNextIsNext DEF LoopIInv
<1> QED  BY <1>1, <1>2, LoopIInvariant, PTL DEF LoopSpec, Spec

\* A second process is given a job that another still handles only after that
\* one lost it, by its lease, its deadline or a cancel: what a worker reports
\* of a run, however late, ends no run but its own (claim_job, _hold).
THEOREM OverlapAlwaysAfterLoss == LoopSpec => []OverlapOnlyAfterLoss
<1>1. LoopIInv => OverlapOnlyAfterLoss
  <2> SUFFICES ASSUME LoopIInv, NEW v \in Workers, NEW w \in Workers,
                      main[v] = "handle", main[w] = "handle",
                      claim[v].job = claim[w].job,
                      claim[v].token < claim[w].token,
                      Exists(claim[v].job)
               PROVE  jobs[claim[v].job].attempts[claim[v].token].outcome \in Losses
    BY DEF OverlapOnlyAfterLoss, Losses
  <2> DEFINE job == jobs[claim[v].job]
  <2>1. claim[v] \in told /\ claim[w] \in told
    BY DEF LoopIInv, LoopTypeInv, OwnClaims, Working
  <2>2. claim[v] \in Claim
    BY <2>1 DEF LoopIInv, LoopTypeInv, LoopTypeOK
  <2>3. claim[v].token \in DOMAIN job.attempts
        /\ claim[w].token \in DOMAIN job.attempts
    BY <2>1 DEF LoopIInv, LoopTypeInv, RunsKnown
  <2>4. job \in Job /\ LogMatchesLease(job)
    BY <2>2 DEF LoopIInv, StoreInv, IInv, RowInv, TypeOK, Claim
  <2>5. claim[v].token # Newest(job)
    BY <2>3, <2>4 DEF Job, Newest
  <2>6. job.attempts[claim[v].token].outcome # NULL
    BY <2>3, <2>4, <2>5 DEF LogMatchesLease
  <2>7. job.attempts[claim[v].token].outcome \in {NULL} \cup Losses
    BY DEF LoopIInv, HandledOpen
  <2> QED  BY <2>6, <2>7
<1> QED  BY <1>1, LoopIInvariant, PTL

-----------------------------------------------------------------------------
(* Claims that are over for their workers. *)

\* Nothing the worker of this claim sends makes the job its own again: the job
\* is gone or has a newer run, the run is over, or its time is; or it is a replay
\* that keeps its old success, and its lease ran out or may seem to have.
Gone(c) ==
    \/ ~Exists(c.job)
    \/ Newest(jobs[c.job]) > c.token
    \/ ClaimOf(jobs[c.job]) = "over"
    \/ jobs[c.job].deadline # NULL /\ clock >= jobs[c.job].deadline
    \/ /\ KeepsOldSuccess(jobs[c.job])
       /\ RequestLag # 0 \/ LeaseExpired(jobs[c.job], clock)

\* A claim is over, or its worker is at it, has stopped, or was forgotten since.
Behind ==
    \A c \in told :
        Gone(c) \/ WorksOn(c) \/ ~Running(c.worker) \/ c \in forgotten

\* A process that has a job in hand is in the table `workers`, unless it was
\* forgotten since it got it.
AtWorkKnown ==
    \A w \in Workers : Working(w) => w \in Registered \/ claim[w] \in forgotten

FirmInv == LoopIInv /\ AtWorkKnown /\ Behind

\* A claim that a worker knows is of a row with its run.
LEMMA ToldIsARun ==
    ASSUME StoreInv, LoopTypeInv, NEW c \in told
    PROVE  /\ c.job \in Jobs /\ c.worker \in Workers /\ c.token \in Nat
           /\ jobs[c.job].status # "none"
           /\ RowInv(jobs[c.job]) /\ RowKept(jobs[c.job])
           /\ Newest(jobs[c.job]) \in Nat
           /\ Exists(c.job) =>
                 /\ c.token \in DOMAIN jobs[c.job].attempts
                 /\ jobs[c.job].attempts[c.token].worker = c.worker
                 /\ c.token <= Newest(jobs[c.job])
<1>1. c.job \in Jobs /\ c.worker \in Workers /\ c.token \in Nat
  BY DEF LoopTypeInv, LoopTypeOK, Claim
<1>2. RowInv(jobs[c.job]) /\ RowKept(jobs[c.job])
  BY <1>1 DEF StoreInv, IInv, RowsKept
<1>3. jobs[c.job].attempts \in Seq(Attempt)
  BY <1>2 DEF RowInv, Job
<1>4. jobs[c.job].status # "none"
      /\ (Exists(c.job) => /\ c.token \in DOMAIN jobs[c.job].attempts
                           /\ jobs[c.job].attempts[c.token].worker = c.worker)
  BY DEF LoopTypeInv, RunsKnown
<1> QED  BY <1>1, <1>2, <1>3, <1>4 DEF Newest

\* Whose claim is over does not hold the job.
LEMMA GoneIsNotHeld ==
    ASSUME StoreInv, LoopTypeInv, NEW c \in told, Gone(c),
           KeepsOldSuccess(jobs[c.job]) => RequestLag = 0
    PROVE  ~HeldBy(c)
<1> SUFFICES ASSUME HeldBy(c)
             PROVE  FALSE
  OBVIOUS
<1> DEFINE job == jobs[c.job]
<1>1. RowInv(job) /\ c.token \in Nat
  BY ToldIsARun
<1>2. job.token = c.token /\ job.token # NULL
  BY <1>1, NullAssumption DEF HeldBy
<1>3. job.status = "running" /\ ClaimOf(job) = "held" /\ job.deadline # NULL
  BY <1>1, <1>2, LeasedIsHeld
<1>4. job.token = Newest(job)
  BY <1>1, <1>2 DEF RowInv, LogMatchesLease
<1>5. ~(clock >= job.deadline)
  BY <1>2 DEF HeldBy, PastDeadline
<1>6. ~(KeepsOldSuccess(job) /\ LeaseExpired(job, clock))
  BY DEF HeldBy
<1> QED  BY <1>1, <1>2, <1>3, <1>4, <1>5, <1>6 DEF Gone, Exists

-----------------------------------------------------------------------------
(* What is over stays over. *)

LEMMA OverStaysOver ==
    ASSUME NEW l \in Life!Lives, NEW m, Life!LifeStep(l, m), l.claim = "over",
           m.run = l.run
    PROVE  m.claim = "over"
<1> USE DEF Life!Lives, Life!Unborn
<1>1. CASE Life!Begin(l, m)
  BY <1>1 DEF Life!Begin
<1>2. CASE Life!Create(l, m) \/ Life!Cancel(l, m) \/ Life!Vanish(l, m)
  BY <1>2 DEF Life!Create, Life!Cancel, Life!Vanish
<1>3. CASE Life!Retry(l, m) \/ Life!Replay(l, m)
  BY <1>3 DEF Life!Retry, Life!Replay
<1>4. ~(\/ Life!Continue(l, m) \/ Life!Lapse(l, m) \/ Life!Fall(l, m)
        \/ Life!Release(l, m)  \/ Life!Succeed(l, m))
  BY DEF Life!Continue, Life!Lapse, Life!Fall, Life!Release, Life!Succeed
<1> QED  BY <1>1, <1>2, <1>3, <1>4 DEF Life!LifeStep

\* A finished job is over for its worker unless it failed.
LEMMA SuccessIsOver ==
    ASSUME NEW job, job.status = "success"
    PROVE  ClaimOf(job) = "over"
BY DEF ClaimOf

\* The lease of a replay that keeps its old success, once expired, revives
\* only for a request that is older than the expiry.
LEMMA KeptExpiredStays ==
    ASSUME StoreInv, RequestLag = 0, [Next]_vars, NEW j \in Jobs,
           KeepsOldSuccess(jobs[j]), LeaseExpired(jobs[j], clock)
    PROVE  jobs'[j] = jobs[j] \/ ClaimOf(jobs'[j]) = "over"
<1> DEFINE job == jobs[j]
           m == ExpireIfDue(job, clock)
<1>1. RowInv(job) /\ job.token # NULL /\ clock \in Time /\ TypeOK
  BY DEF StoreInv, IInv, TypeOK, LeaseExpired
<1>2. job.status = "running"
  BY <1>1, LeasedIsHeld
<1>3. m.token = NULL /\ m.status = "success"
  <2>1. m = RetryOrFail(EndAttempt(job, "lease_expired", clock),
                        "lease_expired", clock)
    BY DEF ExpireIfDue, Revoke, LeaseExpired
  <2> QED  BY <1>1, <2>1, FallenOutcome DEF Outcomes, JobErrors
<1>4. \A now \in Nows : now = clock
  BY <1>1 DEF Nows, Time, StoreAssumption
<1>5. \A k \in Jobs : \A row : Update(k, row) =>
         jobs'[j] = IF j = k THEN row ELSE jobs[j]
  BY <1>1 DEF Update, TypeOK
<1>6. CASE WorkerStep \/ Tick \/ UNCHANGED vars
  BY <1>6 DEF WorkerStep, RegisterWorker, HeartbeatWorker, DeleteWorker, Tick,
              vars
<1>7. CASE ClaimStep
  BY <1>7, <1>5, <1>2 DEF ClaimStep, ClaimJob, Claimable
<1>8. CASE HolderStep
  <2>1. PICK k \in Jobs, w \in Workers : \E token \in DOMAIN jobs[k].attempts :
           \E now \in HolderNows(k, token) :
              \/ HeartbeatJob(k, w, token, now)
              \/ FinishSuccess(k, w, token, now)
              \/ FinishFailure(k, w, token, now)
              \/ ReleaseJob(k, w, token, now)
    BY <1>8 DEF HolderStep
  <2>2. PICK token \in DOMAIN jobs[k].attempts : \E now \in HolderNows(k, token) :
           HoldOrReclaim(k, w, token, now) /\ \E row : Update(k, row)
    BY <2>1 DEF HeartbeatJob, FinishSuccess, FinishFailure, ReleaseJob,
                HoldOrReclaim
  <2>3. PICK now \in HolderNows(k, token) :
           HoldOrReclaim(k, w, token, now) /\ \E row : Update(k, row)
    BY <2>2
  <2>4. now = clock
    BY <1>4 DEF HolderNows
  <2>5. k # j
    <3> SUFFICES ASSUME k = j
                 PROVE  FALSE
      OBVIOUS
    <3>1. token # NULL
      <4>1. job.attempts \in Seq(Attempt)
        BY <1>1 DEF RowInv, Job
      <4> QED  BY <4>1, NullAssumption
    <3>2. ~CanHold(job, w, token, clock)
      BY <1>3, <3>1 DEF CanHold, Holds
    <3>3. ~CanReclaim(job, w, token, clock, Registered)
      BY <1>3 DEF CanReclaim, Reclaimable
    <3> QED  BY <2>3, <2>4, <3>2, <3>3 DEF HoldOrReclaim
  <2> QED  BY <1>5, <2>3, <2>5
<1>9. CASE OperatorStep
  <2>1. PICK k \in Jobs, now \in Nows :
        \/ \E type \in Types, priority \in Priorities, maxRun \in MaxRuns,
              maxAttempt \in MaxAttempts, methods \in MethodCounts :
                CreateJob(k, type, priority, maxAttempt, maxRun, methods, now)
        \/ CancelJob(k, now)
        \/ RetryJob(k, now)
        \/ \E options \in Replays : ReplayJob(k, options, now)
        \/ \E priority \in Priorities : SetPriority(k, priority)
        \/ DeleteJob(k)
    BY <1>9 DEF OperatorStep
  <2>2. CASE CancelJob(k, now)
    <3>1. Life!Cancel(LifeOf(job), LifeOf(Cancelled(job, now)))
      BY <1>1, <1>2, <1>4, CancelledLife
    <3>2. LifeOf(job) \in Life!Lives
      BY <1>1, LifeIsALife DEF RowInv
    <3>3. LifeOf(Cancelled(job, now)).claim = "over"
      BY <3>1, <3>2 DEF Life!Cancel, Life!Lives
    <3>4. ClaimOf(Cancelled(job, now)) = "over"
      BY <3>3 DEF LifeOf
    <3> QED  BY <1>5, <2>2, <3>4 DEF CancelJob
  <2> QED  BY <1>2, <1>5, <2>1, <2>2
           DEF CreateJob, RetryJob, ReplayJob, SetPriority, DeleteJob,
               IsTerminal, TerminalStatuses
<1>10. CASE CleanerStep
  <2>1. CASE \E now \in Nows : CleanupExpire(now)
    BY <1>3, <1>4, <2>1, SuccessIsOver DEF CleanupExpire
  <2>2. CASE CleanupPurge
    BY <1>2, <2>2 DEF CleanupPurge, Purgeable, IsTerminal, TerminalStatuses
  <2>3. CASE CleanupFails
    BY <2>3 DEF CleanupFails
  <2> QED  BY <1>10, <2>1, <2>2, <2>3 DEF CleanerStep
<1> QED  BY <1>6, <1>7, <1>8, <1>9, <1>10 DEF Next, JobStep

\* A claim that is over stays over, whatever happens.
LEMMA GoneStaysGone ==
    ASSUME StoreInv, LoopTypeInv, [Next]_vars, NEW c \in told, Gone(c)
    PROVE  Gone(c)'
<1> DEFINE j == c.job
           old == jobs[j]
           new == jobs'[j]
<1>1. /\ j \in Jobs /\ c.token \in Nat /\ RowInv(old) /\ RowKept(old)
      /\ old.status # "none"
      /\ Exists(j) => c.token <= Newest(old)
  BY ToldIsARun
<1>2. StoreInv'
  BY StoreStaysRight
<1>3. RowInv(new) /\ clock' \in Nat
  BY <1>1, <1>2 DEF StoreInv, IInv, TypeOK, Time
<1>4. SUFFICES ASSUME Exists(j)'
               PROVE  Gone(c)'
  BY DEF Gone
<1>5. Exists(j)
  BY <1>1, <1>4, RowsStay
<1>6. /\ old.attempts \in Seq(Attempt) /\ new.attempts \in Seq(Attempt)
      /\ Newest(old) \in Nat /\ Newest(new) \in Nat
      /\ DOMAIN old.attempts = 1..Newest(old)
      /\ DOMAIN new.attempts = 1..Newest(new)
  <2>1. ASSUME NEW row, RowInv(row)
        PROVE  /\ row.attempts \in Seq(Attempt)
               /\ Newest(row) \in Nat
               /\ DOMAIN row.attempts = 1..Newest(row)
    BY <2>1 DEF RowInv, Job, Newest
  <2> QED  BY <1>1, <1>3, <2>1
<1>7. Newest(old) <= Newest(new)
  <2>1. DOMAIN old.attempts \subseteq DOMAIN new.attempts
    BY <1>1, <1>4, RowsStay
  <2>2. \A n, m \in Nat : 1..n \subseteq 1..m => n <= m
    OBVIOUS
  <2> QED  BY <1>6, <2>1, <2>2
<1>8. SUFFICES ASSUME Newest(new) = c.token
               PROVE  Gone(c)'
  BY <1>1, <1>5, <1>6, <1>7 DEF Gone
<1>9. Newest(old) = c.token
  BY <1>1, <1>5, <1>6, <1>7, <1>8
<1>10. SUFFICES ASSUME ClaimOf(new) # "over"
                PROVE  Gone(c)'
  BY DEF Gone
<1>11. new.deadline # NULL
  BY <1>3, <1>10 DEF ClaimOf, RowInv, RowChecks, LeaseChecks
<1>12. clock \in Nat /\ clock <= clock'
  <2>1. clock \in Nat
    BY DEF StoreInv, IInv, TypeOK, Time
  <2>2. clock' = clock \/ Tick
    BY ClocksApart DEF Next
  <2> QED  BY <2>1, <2>2 DEF Tick
<1>13. CASE ClaimOf(old) = "over"
  <2>1. LifeOf(new) = LifeOf(old) \/ Life!LifeStep(LifeOf(old), LifeOf(new))
    BY <1>1, NextLife DEF StoreInv, lives, Life!LifeNext
  <2>2. LifeOf(old) \in Life!Lives
    BY <1>1, LifeIsALife DEF RowInv
  <2>3. /\ LifeOf(old).claim = ClaimOf(old) /\ LifeOf(new).claim = ClaimOf(new)
        /\ LifeOf(old).run = Newest(old) /\ LifeOf(new).run = Newest(new)
    BY DEF LifeOf
  <2> QED  BY <1>8, <1>9, <1>10, <1>13, <2>1, <2>2, <2>3, OverStaysOver
<1>14. new.deadline = old.deadline /\ new.replay = old.replay
  <2>1. Moved(old, new)
    BY <1>1, RowsMove DEF StoreInv
  <2>2. PICK now \in Nows : Writes(old, new, now)
    BY <1>1, <1>4, <1>11, <2>1 DEF Moved, Blank, Exists
  <2>3. Newest(new) \notin DOMAIN new.attempts \ DOMAIN old.attempts
    BY <1>6, <1>8, <1>9
  <2> QED  BY <1>11, <2>2, <2>3 DEF Writes, RunBy
<1>15. CASE old.deadline # NULL /\ clock >= old.deadline
  <2>1. old.deadline \in Nat
    BY <1>1, <1>15 DEF RowInv, Job, Time
  <2>2. clock' >= new.deadline
    BY <1>3, <1>12, <1>14, <1>15, <2>1
  <2> QED  BY <1>11, <2>2 DEF Gone
<1>16. CASE KeepsOldSuccess(old) /\ RequestLag = 0 /\ LeaseExpired(old, clock)
  <2>2. new = old
    BY <1>1, <1>10, <1>16, KeptExpiredStays
  <2>3. LeaseExpired(new, clock') \/ clock' >= new.deadline
    <3>1. old.until \in Nat
      BY <1>1, <1>16 DEF RowInv, RowChecks, LeaseChecks, Job, Time, LeaseExpired
    <3> QED  BY <1>3, <1>12, <1>16, <2>2, <3>1 DEF LeaseExpired, PastDeadline
  <2> QED  BY <1>11, <1>16, <2>2, <2>3 DEF Gone
<1>17. CASE KeepsOldSuccess(old) /\ RequestLag # 0
  BY <1>14, <1>17 DEF Gone, KeepsOldSuccess
<1> QED  BY <1>1, <1>5, <1>6, <1>9, <1>13, <1>15, <1>16, <1>17 DEF Gone

-----------------------------------------------------------------------------
(* What the answers tell a worker. *)

\* A worker that is told that its lease is not its own any more, and is in the
\* table, was told the truth.
LEMMA RefusedIsGone ==
    ASSUME StoreInv, LoopTypeInv, NEW c \in told, c.worker \in Registered,
           NEW now \in Nows, ~HoldOrReclaim(c.job, c.worker, c.token, now)
    PROVE  Gone(c)
<1> SUFFICES ASSUME ~Gone(c)
             PROVE  FALSE
  OBVIOUS
<1> DEFINE job == jobs[c.job]
           m == ExpireIfDue(job, now)
<1>1. /\ RowInv(job) /\ job \in Job /\ c.token \in Nat /\ Newest(job) \in Nat
      /\ Exists(c.job) =>
            /\ c.token \in DOMAIN job.attempts
            /\ job.attempts[c.token].worker = c.worker
            /\ c.token <= Newest(job)
  BY ToldIsARun DEF RowInv
<1>2. Exists(c.job) /\ Newest(job) = c.token
  BY <1>1 DEF Gone
<1>3. ~CanHold(job, c.worker, c.token, now)
      /\ ~CanReclaim(job, c.worker, c.token, now, Registered)
  BY <1>2 DEF HoldOrReclaim
<1>4. ClaimOf(job) # "over"
  BY DEF Gone
<1>5. job.deadline # NULL
  BY <1>1, <1>4 DEF ClaimOf, RowInv, RowChecks, LeaseChecks
<1>6. now \in Nat /\ clock \in Nat /\ job.deadline \in Nat /\ now <= clock
  <2>1. clock \in Nat
    BY DEF StoreInv, IInv, TypeOK, Time
  <2>2. now \in 0..clock
    BY DEF Nows
  <2> QED  BY <1>1, <1>5, <2>1, <2>2 DEF Job, Time
<1>7. clock < job.deadline /\ now < job.deadline
  BY <1>5, <1>6 DEF Gone
<1>8. CASE job.token = NULL
  <2>1. m = job
    BY <1>8 DEF ExpireIfDue, PastDeadline, LeaseExpired
  <2>2. job.status # "running"
    BY <1>1, <1>8 DEF RowInv, RowChecks, LeaseChecks
  <2>3. /\ job.status \in {"pending", "failed"}
        /\ job.attempts[Newest(job)].outcome = "lease_expired"
    BY <1>4, <2>2 DEF ClaimOf
  <2>4. Reclaimable(job, c.worker, c.token, now, Registered)
    BY <1>1, <1>2, <1>5, <1>7, <2>3 DEF Reclaimable
  <2> QED  BY <1>3, <2>1, <2>4 DEF CanReclaim
<1>9. CASE job.token # NULL
  <2>1. Holds(job, c.worker, c.token)
    BY <1>1, <1>2, <1>9 DEF RowInv, LogMatchesLease, Holds
  <2>2. ~PastDeadline(job, now) /\ ~PastDeadline(job, clock)
    BY <1>6, <1>7 DEF PastDeadline
  <2>3. LeaseExpired(job, now)
    <3>1. m # job
      BY <1>3, <2>1 DEF CanHold
    <3> QED  BY <2>2, <3>1 DEF ExpireIfDue
  <2>4. ~KeepsOldSuccess(job)
    <3>1. job.until \in Nat
      BY <1>1, <1>9 DEF RowInv, RowChecks, LeaseChecks, Job, Time
    <3>2. LeaseExpired(job, clock)
      BY <1>6, <2>2, <2>3, <3>1 DEF LeaseExpired
    <3> QED  BY <3>2 DEF Gone
  <2> DEFINE e == EndAttempt(job, "lease_expired", now)
             n == Newest(job)
  <2>5. "lease_expired" \in Outcomes /\ "lease_expired" \in JobErrors
        /\ now \in Time
    BY <1>6 DEF Outcomes, JobErrors, Time
  <2>6. m = RetryOrFail(e, "lease_expired", now)
    BY <2>2, <2>3 DEF ExpireIfDue, Revoke
  <2>7. /\ e \in Job /\ SameFrame(e, job)
        /\ n \in DOMAIN job.attempts /\ job.attempts[n] \in Attempt
        /\ Newest(e) = n /\ DOMAIN e.attempts = DOMAIN job.attempts
        /\ e.attempts[n] = Closed(job.attempts[n], "lease_expired", now)
    BY <1>1, <1>9, <2>5, EndedFields
  <2>8. e.attempts[n].outcome = "lease_expired"
        /\ e.attempts[n].worker = job.attempts[n].worker
    BY <2>5, <2>7, AttemptClosed
  <2>9. ~KeepsOldSuccess(e)
    BY <2>4, <2>7 DEF SameFrame, KeepsOldSuccess
  <2>10. /\ m.attempts = e.attempts /\ SameFrame(m, e)
         /\ m.status \in {"pending", "failed"}
    BY <2>5, <2>6, <2>7, <2>9, RetryOrFailFields
  <2>11. m.deadline = job.deadline /\ Newest(m) = n
    BY <2>7, <2>10 DEF SameFrame, Newest
  <2>12. Reclaimable(m, c.worker, c.token, now, Registered)
    BY <1>1, <1>2, <1>5, <1>7, <2>7, <2>8, <2>10, <2>11 DEF Reclaimable
  <2> QED  BY <1>3, <2>12 DEF CanReclaim
<1> QED  BY <1>8, <1>9

\* A report that is accepted is the end of the run.
LEMMA ReportEndsRun ==
    ASSUME StoreInv, NEW j \in Jobs, NEW w \in Workers,
           NEW token \in DOMAIN jobs[j].attempts,
           NEW now \in HolderNows(j, token), Reports(j, w, token, now)
    PROVE  ClaimOf(jobs'[j]) = "over"
<1> DEFINE h == Hold(jobs[j], w, token, now)
<1>1. /\ RowInv(jobs[j]) /\ jobs[j].attempts \in Seq(Attempt) /\ TypeOK
  BY DEF StoreInv, IInv, RowInv, Job
<1>2. token \in Nat /\ now \in Time
  BY <1>1, NowsAreTimes DEF HolderNows
<1>3. CanHold(jobs[j], w, token, now)
      \/ CanReclaim(jobs[j], w, token, now, Registered)
  BY DEF Reports, FinishSuccess, FinishFailure, ReleaseJob, HoldOrReclaim
<1>4. RowInv(h) /\ h.token # NULL
  BY <1>1, <1>2, <1>3, HeldRow
<1>5. LifeOf(h) \in Life!Lives
  BY <1>4, LifeIsALife DEF RowInv
<1>6. ASSUME NEW m, Life!Succeed(LifeOf(h), m) \/ Life!Fall(LifeOf(h), m)
                    \/ Life!Release(LifeOf(h), m)
      PROVE  m.claim = "over"
  <2> DEFINE l == LifeOf(h)
  <2> USE DEF Life!Lives
  <2>1. l \in Life!Lives
    BY <1>5
  <2> HIDE DEF l
  <2>2. Life!Succeed(l, m) \/ Life!Fall(l, m) \/ Life!Release(l, m)
    BY <1>6 DEF l
  <2>3. CASE Life!Succeed(l, m) \/ Life!Release(l, m)
    BY <2>1, <2>3 DEF Life!Succeed, Life!Release
  <2>4. CASE Life!Fall(l, m)
    BY <2>1, <2>4 DEF Life!Fall, Life!Unsuccessful, Life!Kept
  <2> QED  BY <2>2, <2>3, <2>4
<1>7. \A row \in {Succeeded(h, now), Failed(h, now), Released(h, now)} :
         LifeOf(row).claim = "over"
  BY <1>2, <1>4, <1>6, SucceededLife, FailedLife, ReleasedLife
<1>8. \A row : LifeOf(row).claim = ClaimOf(row)
  BY DEF LifeOf
<1>9. jobs'[j] \in {Succeeded(h, now), Failed(h, now), Released(h, now)}
  BY <1>1 DEF Reports, FinishSuccess, FinishFailure, ReleaseJob, Update, TypeOK
<1> QED  BY <1>7, <1>8, <1>9

-----------------------------------------------------------------------------
(* Nothing is left behind. *)

\* A process stays at its claim until it reports the end, is told that it lost
\* the job, or stops.
LEMMA WorkEnds ==
    ASSUME LoopTypeInv, [LoopNext]_allVars, NEW c \in told, WorksOn(c)
    PROVE  \/ WorksOn(c)'
           \/ ~Running(c.worker)'
           \/ Finishes(c.worker)
           \/ LosesJob(c.worker)
<1> DEFINE v == c.worker
<1>1. v \in Workers /\ LoopTypeOK
  BY DEF LoopTypeInv, LoopTypeOK, Claim
<1>2. claim[v] = c /\ main[v] \in {"handle", "release"} \cup Outcome /\ ~lost[v]
  BY DEF WorksOn
<1>3. ASSUME main'[v] \in {"handle", "release"} \cup Outcome,
             claim'[v] = claim[v], lost'[v] = lost[v]
      PROVE  WorksOn(c)'
  BY <1>2, <1>3 DEF WorksOn
<1>4. ASSUME NEW w \in Workers, ProcessStep(w), w # v
      PROVE  WorksOn(c)'
  <2>1. main'[v] = main[v] /\ claim'[v] = claim[v] /\ lost'[v] = lost[v]
    BY <1>1, <1>4
       DEF ProcessStep, MainStep, Registers, Claims, ClaimRefused, Handled,
           Drops, Finishes, RegisterFails, ClaimsUnseen, Interrupted,
           FinishFails, Releases, Killed, RenewsWorker, WorkerUnknown,
           Reregisters, RenewsJob, LosesJob, Stops, Go, LoopTypeOK, processVars
  <2> QED  BY <1>2, <1>3, <2>1
<1>5. ASSUME ProcessStep(v)
      PROVE  WorksOn(c)' \/ ~Running(v)' \/ Finishes(v) \/ LosesJob(v)
  <2>1. ~(\/ Registers(v) \/ Claims(v) \/ ClaimRefused(v) \/ RegisterFails(v)
          \/ ClaimsUnseen(v) \/ Drops(v))
    BY <1>2 DEF Registers, Claims, ClaimRefused, RegisterFails, ClaimsUnseen,
                Drops, Outcome
  <2>2. CASE Handled(v) \/ Interrupted(v)
    <3>1. main'[v] \in Outcome \cup {"release"}
      BY <1>1, <2>2, OneProcessMoves DEF Handled, Interrupted
    <3> QED  BY <1>3, <2>2, <3>1 DEF Handled, Interrupted
  <2>3. CASE FinishFails(v) \/ Releases(v) \/ Killed(v)
    BY <1>1, <2>3, OneProcessMoves
       DEF FinishFails, Releases, Killed, Stops, Running
  <2>4. CASE RenewsWorker(v) \/ WorkerUnknown(v) \/ Reregisters(v) \/ RenewsJob(v)
    BY <1>2, <1>3, <2>4 DEF RenewsWorker, WorkerUnknown, Reregisters, RenewsJob,
                            processVars
  <2> QED  BY <1>5, <2>1, <2>2, <2>3, <2>4 DEF ProcessStep, MainStep
<1>6. CASE NetStep \/ Forget \/ StoreStep \/ UNCHANGED allVars
  BY <1>2, <1>3, <1>6 DEF NetStep, Arrives, Drifts, Forget, StoreStep, allVars,
                          loopVars, processVars
<1> QED  BY <1>4, <1>5, <1>6 DEF LoopNext

\* Nobody but an operator takes a worker off the table.
LEMMA OnlyOperatorsForget ==
    ASSUME LoopTypeInv, TypeOK, [LoopNext]_allVars, NEW w \in Workers,
           w \in Registered, w \notin Registered'
    PROVE  Forget
<1>1. leases'[w] = NULL /\ leases[w] # NULL
  BY DEF Registered
<1>2. \A v \in Workers, now \in Nows :
         ~RegisterWorker(v, now) /\ ~HeartbeatWorker(v, now)
  <2>1. \A now \in Nows : now + WorkerLeaseMs # NULL
    BY NowsAreTimes, NullAssumption, StoreAssumption DEF Time
  <2> QED  BY <1>1, <2>1 DEF RegisterWorker, HeartbeatWorker, TypeOK
<1>3. leases' # leases
  BY <1>1
<1>4. \A call : \A c \in told : \A now :
         ~Accepted(call, c, now) /\ ~Rejected(call, c, now)
  BY <1>3 DEF Accepted, Rejected, HeartbeatJob, FinishSuccess, FinishFailure,
              ReleaseJob, vars
<1>5. \A v \in Workers : Working(v) => claim[v] \in told
  BY DEF LoopTypeInv, OwnClaims
<1>6. ASSUME NEW v \in Workers, ProcessStep(v)
      PROVE  FALSE
  <2>1. ~(Finishes(v) \/ Releases(v) \/ RenewsJob(v) \/ LosesJob(v))
    BY <1>3, <1>4, <1>5 DEF Finishes, Releases, RenewsJob, LosesJob, BeatsJob,
                            Working, Unanswered, vars
  <2> QED  BY <1>2, <1>3, <1>6, <2>1
           DEF ProcessStep, MainStep, Registers, Claims, ClaimRefused, Handled,
               Drops, RegisterFails, UnansweredFor, ClaimsUnseen, ClaimJob,
               Interrupted, FinishFails, Unanswered, Killed, RenewsWorker,
               WorkerUnknown, Reregisters, vars
<1>7. \A r \in late : ~Arrives(r)
  BY <1>3, <1>4 DEF Arrives, LoopTypeInv, LateKnown, vars
<1>8. ASSUME NEW r \in adrift, Drifts(r)
      PROVE  FALSE
  <2>1. r.worker \in Workers
    BY DEF LoopTypeInv, LoopTypeOK, WorkerRequest
  <2> QED  BY <1>2, <1>3, <1>8, <2>1 DEF Drifts, ClaimJob, vars
<1>9. ~(OperatorStep \/ CleanerStep \/ Tick \/ UNCHANGED allVars)
  BY <1>3 DEF OperatorStep, CreateJob, CancelJob, RetryJob, ReplayJob,
              SetPriority, DeleteJob, CleanerStep, CleanupExpire, CleanupPurge,
              CleanupFails, Tick, allVars, vars
<1> QED  BY <1>6, <1>7, <1>8, <1>9 DEF LoopNext, NetStep, StoreStep

\* What was forgotten once stays so.
LEMMA ForgottenStay ==
    ASSUME [LoopNext]_allVars
    PROVE  forgotten \subseteq forgotten'
BY DEF LoopNext, ProcessStep, MainStep, Registers, Claims, ClaimRefused, Handled,
       Drops, Finishes, RegisterFails, ClaimsUnseen, Interrupted, FinishFails,
       Releases, Killed, RenewsWorker, WorkerUnknown, Reregisters, RenewsJob,
       LosesJob, NetStep, Arrives, Drifts, Forget, StoreStep, Stops, allVars,
       loopVars, processVars

LEMMA AtWorkStaysKnown ==
    ASSUME LoopIInv, AtWorkKnown, [LoopNext]_allVars
    PROVE  AtWorkKnown'
<1> SUFFICES ASSUME NEW w \in Workers, Working(w)', w \notin Registered'
             PROVE  claim'[w] \in forgotten'
  BY DEF AtWorkKnown
<1>1. LoopTypeInv /\ LoopTypeOK /\ TypeOK /\ IInv /\ OwnClaims
  BY DEF LoopIInv, LoopTypeInv, StoreInv, IInv
<1>2. CASE Claims(w)
  <2>1. UNCHANGED leases
    BY <1>2 DEF Claims, ClaimJob
  <2> QED  BY <1>1, <1>2, <2>1, ClaimTells DEF Registered
<1>3. CASE Working(w) /\ claim'[w] = claim[w] /\ w \in Registered
  <2>1. Forget
    BY <1>1, <1>3, OnlyOperatorsForget
  <2>2. PICK v \in Workers, now \in Nows :
           /\ DeleteWorker(v, now)
           /\ forgotten' = forgotten \cup {c \in told : c.worker = v}
    BY <2>1 DEF Forget
  <2>3. v = w
    BY <1>1, <1>3, <2>2 DEF DeleteWorker, Registered, TypeOK
  <2>4. claim[w] \in told /\ claim[w].worker = w
    BY <1>1, <1>3 DEF OwnClaims
  <2> QED  BY <1>3, <2>2, <2>3, <2>4
<1>4. CASE Working(w) /\ claim'[w] = claim[w] /\ w \notin Registered
  <2>1. claim[w] \in forgotten
    BY <1>4 DEF AtWorkKnown
  <2> QED  BY <1>4, <2>1, ForgottenStay
<1> QED  BY <1>1, <1>2, <1>3, <1>4, StepPlaces DEF Places

\* Reporting an end, or being told that the job is lost, ends the claim.
LEMMA FinishEndsClaim ==
    ASSUME FirmInv, [LoopNext]_allVars, NEW c \in told, WorksOn(c),
           Finishes(c.worker) \/ LosesJob(c.worker)
    PROVE  Gone(c)' \/ c \in forgotten
<1> DEFINE w == c.worker
<1>1. LoopIInv /\ LoopTypeInv /\ StoreInv
  BY DEF FirmInv, LoopIInv
<1>2. /\ c.job \in Jobs /\ w \in Workers /\ claim[w] = c
      /\ w \in Registered \/ c \in forgotten
  BY <1>1, ToldIsARun DEF WorksOn, FirmInv, AtWorkKnown, Working
<1>3. [Next]_vars
  BY <1>1, LoopNextIsNext
<1>4. PICK call \in Outcome \cup {"heartbeat"}, now \in Nows :
         \/ call # "heartbeat" /\ Accepted(call, c, now)
         \/ Rejected(call, c, now)
  BY <1>2 DEF Finishes, LosesJob, Outcome
<1>5. CASE Rejected(call, c, now)
  <2>1. ~HoldOrReclaim(c.job, w, c.token, now)
    BY <1>4, <1>5 DEF Rejected, Outcome
  <2> QED  BY <1>1, <1>2, <1>3, <2>1, RefusedIsGone, GoneStaysGone
<1>6. CASE call # "heartbeat" /\ Accepted(call, c, now)
  <2>1. ClaimOf(jobs'[c.job]) = "over"
    BY <1>1, <1>2, <1>6, ReportEndsRun DEF Accepted, Reports
  <2> QED  BY <2>1 DEF Gone
<1> QED  BY <1>4, <1>5, <1>6

LEMMA BehindStays ==
    ASSUME FirmInv, [LoopNext]_allVars
    PROVE  Behind'
<1>1. LoopTypeInv /\ LoopTypeOK /\ StoreInv /\ Behind
  BY DEF FirmInv, LoopIInv, LoopTypeInv
<1>2. [Next]_vars /\ Places /\ forgotten \subseteq forgotten'
  BY <1>1, LoopNextIsNext, StepPlaces, ForgottenStay
<1> SUFFICES ASSUME NEW c \in told'
             PROVE  \/ Gone(c)' \/ WorksOn(c)' \/ ~Running(c.worker)'
                    \/ c \in forgotten'
  BY DEF Behind
<1>3. CASE c \notin told
  <2>1. PICK w \in Workers : Claims(w)
    BY <1>3, OnlyClaimsTell
  <2>2. c.worker = w /\ claim'[w] = c
    BY <1>1, <1>3, <2>1, ClaimTells DEF StoreInv
  <2>3. main'[w] = "handle" /\ ~lost'[w]
    BY <1>1, <2>1, OneProcessMoves DEF Claims, LoopTypeOK
  <2> QED  BY <2>2, <2>3 DEF WorksOn
<1>4. CASE c \in told
  <2>1. CASE Gone(c)
    BY <1>1, <1>2, <1>4, <2>1, GoneStaysGone
  <2>2. CASE ~Running(c.worker)
    BY <1>1, <1>2, <1>4, <2>2, ToldIsARun DEF Places
  <2>3. CASE WorksOn(c)
    BY <1>1, <1>2, <1>4, <2>3, WorkEnds, FinishEndsClaim
  <2>4. CASE c \in forgotten
    BY <1>2, <2>4
  <2> QED  BY <1>1, <1>4, <2>1, <2>2, <2>3, <2>4 DEF Behind
<1> QED  BY <1>3, <1>4

-----------------------------------------------------------------------------
(* Runs that their workers do not know of. *)

\* A row that has a lease has the one it had, or that of a new claim, or the
\* one that a known claim was granted.
LeaseFrom(old, new, j) ==
    new.token # NULL =>
        \/ new = old
        \/ new.until = Min2(new.attempts[new.token].started + JobLeaseMs, new.deadline)
        \/ \E c \in told : c.job = j /\ c.token = new.token /\ c.worker = new.worker

\* Only the row of the call is written.
LEMMA OneRowLeased ==
    ASSUME TypeOK, NEW k \in Jobs, NEW row, Update(k, row), LeaseFrom(jobs[k], row, k)
    PROVE  \A j \in Jobs : LeaseFrom(jobs[j], jobs'[j], j)
<1>1. \A j \in Jobs : jobs'[j] = IF j = k THEN row ELSE jobs[j]
  BY DEF Update, TypeOK
<1> QED  BY <1>1 DEF LeaseFrom

\* A row that does not run has no lease.
LEMMA IdleIsLeased ==
    ASSUME NEW old, NEW new, NEW j, RowInv(new), new.status # "running"
    PROVE  LeaseFrom(old, new, j)
BY DEF LeaseFrom, RowInv, RowChecks, LeaseChecks

\* A lease that is held or taken back has the token it was asked with.
LEMMA HeldToken ==
    ASSUME NEW job, RowInv(job), NEW w \in Workers, NEW token \in Nat,
           NEW now \in Time
    PROVE  Hold(job, w, token, now).token = token
<1> DEFINE current == ExpireIfDue(job, now)
<1>1. current \in Job
  BY ExpiredRow DEF RowInv
<1>2. Reclaim(current, w, token, now).token = token
  BY <1>1 DEF Reclaim, WithNewest, Job
<1> QED  BY <1>2 DEF Hold, Holds

\* What a holder is granted is for the claim it names.
LEMMA AcceptedLeased ==
    ASSUME StoreInv, LoopTypeInv, NEW call, NEW c \in told, NEW now,
           Accepted(call, c, now), IInv'
    PROVE  \A j \in Jobs : LeaseFrom(jobs[j], jobs'[j], j)
<1> DEFINE h == Hold(jobs[c.job], c.worker, c.token, now)
<1>1. /\ c.job \in Jobs /\ c.worker \in Workers /\ c.token \in Nat
      /\ RowInv(jobs[c.job]) /\ TypeOK
  BY ToldIsARun DEF StoreInv, IInv
<1>2. c.token \in DOMAIN jobs[c.job].attempts
      /\ now \in HolderNows(c.job, c.token) /\ now \in Time
  BY <1>1, NowsAreTimes DEF Accepted, HolderNows
<1>3. CASE HeartbeatJob(c.job, c.worker, c.token, now)
  <2>1. CanHold(jobs[c.job], c.worker, c.token, now)
        \/ CanReclaim(jobs[c.job], c.worker, c.token, now, Registered)
    BY <1>3 DEF HeartbeatJob, HoldOrReclaim
  <2>2. h \in Job /\ h.worker = c.worker
    BY <1>1, <1>2, <2>1, HeldRow DEF RowInv
  <2>3. h.token = c.token
    BY <1>1, <1>2, <2>1, HeldToken
  <2>4. Beaten(h, now).token = c.token /\ Beaten(h, now).worker = c.worker
    BY <2>2, <2>3 DEF Beaten, Job
  <2>5. LeaseFrom(jobs[c.job], Beaten(h, now), c.job)
    BY <2>4 DEF LeaseFrom
  <2> QED  BY <1>1, <1>3, <2>5, OneRowLeased DEF HeartbeatJob
<1>4. CASE Reports(c.job, c.worker, c.token, now)
  <2>1. ClaimOf(jobs'[c.job]) = "over"
    BY <1>1, <1>2, <1>4, ReportEndsRun
  <2>2. PICK row : Update(c.job, row)
    BY <1>4 DEF Reports, FinishSuccess, FinishFailure, ReleaseJob
  <2>3. row = jobs'[c.job]
    BY <1>1, <2>2 DEF Update, TypeOK
  <2>4. row.status # "running"
    BY <2>1, <2>3 DEF ClaimOf
  <2>5. RowInv(row)
    BY <1>1, <2>3 DEF IInv
  <2> QED  BY <1>1, <2>2, <2>4, <2>5, IdleIsLeased, OneRowLeased
<1> QED  BY <1>3, <1>4 DEF Accepted, Reports

\* A claim starts a lease.
LEMMA ClaimLeased ==
    ASSUME IInv, NEW w \in Workers, NEW type, NEW k \in Jobs, NEW now \in Nows,
           ClaimJob(w, type, k, now), NEW j \in Jobs
    PROVE  LeaseFrom(jobs[j], jobs'[j], j)
<1>1. jobs'[k] = Claimed(jobs[k], w, now)
      /\ \A i \in Jobs \ {k} : jobs'[i] = jobs[i]
  BY ClaimBegins
<1>2. jobs[k] \in Job /\ jobs[k].attempts \in Seq(Attempt)
  BY DEF IInv, TypeOK, Job
<1> DEFINE new == Claimed(jobs[k], w, now)
           a == [worker |-> w, outcome |-> NULL, started |-> now,
                 ended |-> NULL, replay |-> jobs[k].replay # NULL]
<1>3. /\ new.token = Len(jobs[k].attempts) + 1
      /\ new.attempts = Append(jobs[k].attempts, a)
      /\ new.deadline = now + jobs[k].maxRun
      /\ new.until = Min2(now + JobLeaseMs, now + jobs[k].maxRun)
  BY <1>2 DEF Claimed, Job, Newest
<1>4. Append(jobs[k].attempts, a)[Len(jobs[k].attempts) + 1] = a
  BY <1>2
<1>5. new.until = Min2(new.attempts[new.token].started + JobLeaseMs, new.deadline)
  BY <1>3, <1>4
<1> QED  BY <1>1, <1>5 DEF LeaseFrom

\* Operators and the cleaner start no lease.
LEMMA OthersLease ==
    ASSUME IInv, IInv', OperatorStep \/ CleanerStep, NEW j \in Jobs
    PROVE  LeaseFrom(jobs[j], jobs'[j], j)
<1>1. RowInv(jobs[j]) /\ RowInv(jobs'[j]) /\ TypeOK
  BY DEF IInv
<1>2. SUFFICES ASSUME jobs'[j] # jobs[j], jobs'[j].status = "running"
               PROVE  FALSE
  <2>1. PICK old, new : old = jobs[j] /\ new = jobs'[j]
    OBVIOUS
  <2>2. RowInv(new) /\ (new = old => LeaseFrom(old, new, j))
    BY <1>1, <2>1 DEF LeaseFrom
  <2> QED  BY <2>1, <2>2, IdleIsLeased
<1>3. CASE OperatorStep
  <2>1. PICK k \in Jobs, now \in Nows :
        \/ \E type \in Types, priority \in Priorities, maxRun \in MaxRuns,
              maxAttempt \in MaxAttempts, methods \in MethodCounts :
                CreateJob(k, type, priority, maxAttempt, maxRun, methods, now)
        \/ CancelJob(k, now)
        \/ RetryJob(k, now)
        \/ \E options \in Replays : ReplayJob(k, options, now)
        \/ \E priority \in Priorities : SetPriority(k, priority)
        \/ DeleteJob(k)
    BY <1>3 DEF OperatorStep
  <2>2. PICK row : Update(k, row)
    BY <2>1 DEF CreateJob, CancelJob, RetryJob, ReplayJob, SetPriority, DeleteJob
  <2>3. j = k /\ jobs'[k] = row
    BY <1>1, <1>2, <2>2 DEF Update, TypeOK
  <2>4. jobs[k] \in Job /\ jobs'[k].status = "running"
    BY <1>1, <1>2, <2>3 DEF RowInv
  <2>5. \A x : Update(k, x) => x = row
    BY <1>1, <2>2, <2>3 DEF Update, TypeOK
  <2>6. \A type, priority, maxRun, maxAttempt, methods :
           ~CreateJob(k, type, priority, maxAttempt, maxRun, methods, now)
    BY <2>3, <2>4, <2>5 DEF CreateJob, NewJob
  <2>7. ~CancelJob(k, now)
    <3> SUFFICES ASSUME CancelJob(k, now)
                 PROVE  FALSE
      OBVIOUS
    <3>1. row = Cancelled(jobs[k], now) /\ jobs[k].status \in {"pending", "running"}
      BY <2>5 DEF CancelJob
    <3>2. Life!Cancel(LifeOf(jobs[k]), LifeOf(row)) /\ LifeOf(jobs[k]) \in Life!Lives
      BY <1>1, <2>3, <3>1, NowsAreTimes, CancelledLife, LifeIsALife DEF RowInv
    <3>3. LifeOf(row).claim = "over"
      BY <3>2 DEF Life!Cancel, Life!Lives
    <3> QED  BY <2>3, <2>4, <3>3 DEF LifeOf, ClaimOf
  <2>8. ~RetryJob(k, now) /\ ~DeleteJob(k)
    BY <2>3, <2>4, <2>5 DEF RetryJob, Retried, DeleteJob, Absent, NewJob, Job
  <2>9. \A options : ~ReplayJob(k, options, now)
    BY <2>3, <2>4, <2>5 DEF ReplayJob, Replayed, Job
  <2>10. \A priority : ~SetPriority(k, priority)
    BY <2>3, <2>4, <2>5 DEF SetPriority, Job
  <2> QED  BY <2>1, <2>6, <2>7, <2>8, <2>9, <2>10
<1>4. CASE CleanerStep
  <2>1. \/ \E now \in Nows : jobs'[j] = ExpireIfDue(jobs[j], now)
        \/ jobs'[j] = Absent("deleted")
        \/ jobs'[j] = jobs[j]
    BY <1>4 DEF CleanerStep, CleanupExpire, CleanupPurge, CleanupFails
  <2>2. ASSUME NEW now \in Nows, jobs'[j] = ExpireIfDue(jobs[j], now)
        PROVE  FALSE
    <3>1. now \in Time
      BY <1>1, NowsAreTimes
    <3>2. jobs'[j].token = NULL
      BY <1>1, <1>2, <2>2, <3>1, ExpiredLife
    <3> QED  BY <1>1, <1>2, <3>2 DEF RowInv, RowChecks, LeaseChecks
  <2> QED  BY <1>2, <2>1, <2>2 DEF Absent, NewJob
<1> QED  BY <1>3, <1>4

\* Each step of the processes, the network and the others, as to leases.
LEMMA StepsLease ==
    ASSUME StoreInv, LoopTypeInv, [LoopNext]_allVars, NEW j \in Jobs
    PROVE  LeaseFrom(jobs[j], jobs'[j], j)
<1>1. IInv /\ IInv' /\ TypeOK
  BY LoopNextIsNext, StoreStaysRight DEF StoreInv, IInv
<1>2. CASE UNCHANGED jobs
  BY <1>2 DEF LeaseFrom
<1>3. \A w \in Workers : Working(w) => claim[w] \in told
  BY DEF LoopTypeInv, OwnClaims
<1>4. ASSUME NEW call, NEW c \in told, NEW now, Accepted(call, c, now)
      PROVE  LeaseFrom(jobs[j], jobs'[j], j)
  BY <1>1, <1>4, AcceptedLeased
<1>5. ASSUME NEW w \in Workers, NEW type, NEW k \in Jobs, NEW now \in Nows,
             ClaimJob(w, type, k, now)
      PROVE  LeaseFrom(jobs[j], jobs'[j], j)
  BY <1>1, <1>5, ClaimLeased
<1>6. ASSUME NEW w \in Workers, ProcessStep(w)
      PROVE  LeaseFrom(jobs[j], jobs'[j], j)
  <2>1. CASE Finishes(w) \/ Releases(w) \/ RenewsJob(w)
    <3>1. claim[w] \in told
      BY <1>3, <2>1 DEF Finishes, Releases, RenewsJob, BeatsJob, Working
    <3>2. \/ \E call, now : Accepted(call, claim[w], now)
          \/ UNCHANGED jobs
      BY <2>1, RejectedIsNothing DEF Finishes, Releases, RenewsJob, Unanswered, vars
    <3> QED  BY <1>2, <1>4, <3>1, <3>2
  <2>2. CASE Claims(w)
    BY <1>5, <2>2 DEF Claims
  <2>3. CASE Registers(w) \/ RegisterFails(w) \/ RenewsWorker(w) \/ Reregisters(w)
             \/ ClaimsUnseen(w)
    BY <1>2, <2>3 DEF Registers, RegisterFails, UnansweredFor, RenewsWorker,
                      Reregisters, ClaimsUnseen, RegisterWorker,
                      HeartbeatWorker, vars
  <2>4. CASE LosesJob(w)
    BY <1>2, <2>4, RejectedIsNothing DEF LosesJob, vars
  <2>5. CASE ClaimRefused(w) \/ Handled(w) \/ Drops(w) \/ Interrupted(w)
             \/ FinishFails(w) \/ Killed(w) \/ WorkerUnknown(w)
    BY <1>2, <2>5 DEF ClaimRefused, Handled, Drops, Interrupted, FinishFails,
                      Killed, WorkerUnknown, Unanswered, vars
  <2> QED  BY <1>6, <2>1, <2>2, <2>3, <2>4, <2>5 DEF ProcessStep, MainStep
<1>7. ASSUME NEW r \in late, Arrives(r)
      PROVE  LeaseFrom(jobs[j], jobs'[j], j)
  <2>1. r.claim \in told
    BY DEF LoopTypeInv, LateKnown
  <2>2. (\E call, now : Accepted(call, r.claim, now)) \/ UNCHANGED jobs
    BY <1>7, RejectedIsNothing DEF Arrives, vars
  <2> QED  BY <1>2, <1>4, <2>1, <2>2
<1>8. ASSUME NEW r \in adrift, Drifts(r)
      PROVE  LeaseFrom(jobs[j], jobs'[j], j)
  <2>1. r.worker \in Workers
    BY DEF LoopTypeInv, LoopTypeOK, WorkerRequest
  <2>2. \/ \E type \in Types, k \in Jobs, now \in Nows : ClaimJob(r.worker, type, k, now)
        \/ UNCHANGED jobs
    BY <1>8 DEF Drifts, RegisterWorker, HeartbeatWorker, vars
  <2> QED  BY <1>2, <1>5, <2>1, <2>2
<1>9. CASE Forget \/ StoreStep \/ UNCHANGED allVars
  BY <1>1, <1>2, <1>9, OthersLease
     DEF Forget, DeleteWorker, StoreStep, Tick, allVars, vars
<1> QED  BY <1>6, <1>7, <1>8, <1>9 DEF LoopNext, NetStep

LEMMA UnseenStays ==
    ASSUME StoreInv, LoopTypeInv, UnseenRunsOut, [LoopNext]_allVars
    PROVE  UnseenRunsOut'
<1>1. told \subseteq told'
  BY StepPlaces DEF LoopTypeInv, Places
<1> SUFFICES ASSUME NEW j \in Jobs, jobs'[j].token # NULL,
                    [worker |-> jobs'[j].worker, job |-> j,
                     token |-> jobs'[j].token] \notin told'
             PROVE  jobs'[j].until = Min2(jobs'[j].attempts[jobs'[j].token].started
                                             + JobLeaseMs, jobs'[j].deadline)
  BY DEF UnseenRunsOut
<1>2. LeaseFrom(jobs[j], jobs'[j], j)
  BY StepsLease
<1>3. \A c \in told : c = [worker |-> c.worker, job |-> c.job, token |-> c.token]
  BY DEF LoopTypeInv, LoopTypeOK, Claim
<1>4. CASE jobs'[j] = jobs[j]
  BY <1>1, <1>4 DEF UnseenRunsOut
<1> QED  BY <1>1, <1>2, <1>3, <1>4 DEF LeaseFrom

-----------------------------------------------------------------------------
\* A job that a process was given and lets go of, by a report or because it was
\* told that it lost it, does not come back to it, however late the requests on
\* its way arrive, and one it was given without learning of it is free after a
\* lease: no job waits for a worker that is not at it (worker.py, run and main).
THEOREM NothingIsLeftBehind == LoopSpec => []LoopInv
<1>1. LoopInit => FirmInv /\ UnseenRunsOut
  <2> SUFFICES ASSUME LoopInit
               PROVE  FirmInv /\ UnseenRunsOut
    OBVIOUS
  <2>1. AtWorkKnown /\ Behind
    BY DEF LoopInit, AtWorkKnown, Working, Outcome, Behind
  <2>2. UnseenRunsOut
    BY DEF LoopInit, Init, UnseenRunsOut, Absent, NewJob
  <2> QED  BY <2>1, <2>2, LoopStartsRight DEF FirmInv
<1>2. FirmInv /\ UnseenRunsOut /\ [LoopNext]_allVars => FirmInv' /\ UnseenRunsOut'
  <2> SUFFICES ASSUME FirmInv, UnseenRunsOut, [LoopNext]_allVars
               PROVE  FirmInv' /\ UnseenRunsOut'
    OBVIOUS
  <2>1. LoopIInv /\ AtWorkKnown /\ LoopTypeInv /\ StoreInv
    BY DEF FirmInv, LoopIInv
  <2>2. LoopIInv'
    BY <2>1, LoopNextHolds
  <2>3. AtWorkKnown'
    BY <2>1, AtWorkStaysKnown
  <2>4. Behind'
    BY BehindStays
  <2>5. UnseenRunsOut'
    BY <2>1, UnseenStays
  <2> QED  BY <2>2, <2>3, <2>4, <2>5 DEF FirmInv
<1>3. FirmInv => LoopTypeOK /\ NothingLeftBehind
  <2> SUFFICES ASSUME FirmInv, NEW c \in told, HeldBy(c), c \notin forgotten,
                      KeepsOldSuccess(jobs[c.job]) => RequestLag = 0
               PROVE  WorksOn(c) \/ ~Running(c.worker)
    BY DEF NothingLeftBehind, FirmInv, LoopIInv, LoopTypeInv
  <2> QED  BY GoneIsNotHeld DEF FirmInv, LoopIInv, Behind
<1> QED  BY <1>1, <1>2, <1>3, PTL DEF LoopSpec, LoopInv

=============================================================================
