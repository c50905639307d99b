------------------------------ MODULE WorkerLoop ------------------------------
(***************************************************************************)
(* Processes of the example worker (worker-example/worker.py) against the  *)
(* store: the main loop, the thread that renews the worker lease, the      *)
(* thread that renews the lease of the job at hand, and the network        *)
(* between them.                                                           *)
(*                                                                         *)
(* A call is answered, or the process gives up waiting and sees an         *)
(* OSError.  A request nobody waits for may still reach the store, at any  *)
(* later time, and it may get lost.  One that a loop sends again and again *)
(* stands for all of its kind that are on the way.                         *)
(*                                                                         *)
(* A process that stops never comes back: its id is made from its pid.     *)
(***************************************************************************)
EXTENDS JobStore

VARIABLES
    main,              \* where the main thread of each process is
    keepalive,         \* where its thread for the worker lease is
    claim,             \* the claim it works on, else NULL
    lost,              \* whether its event `lost` is set
    told,              \* the claims whose answers arrived
    late,              \* requests with a claim that nobody waits for
    adrift,            \* other requests on the way that nobody waits for
    forgotten          \* the claims since which an operator deleted the worker

netVars == <<late, adrift>>

processVars == <<main, keepalive, claim, lost, told, forgotten>>

loopVars == <<main, keepalive, claim, lost, told, late, adrift, forgotten>>

allVars == <<vars, loopVars>>

\* A worker's part of what claim_job returned.
Claim == [worker : Workers, job : Jobs, token : Nat]

Outcome == {"success", "failed"}

Request == [call : Outcome \cup {"heartbeat", "release"}, claim : Claim]

WorkerRequest == [call : {"register", "renew", "claim"}, worker : Workers]

LoopTypeOK ==
    /\ main \in [Workers -> {"register", "claim", "handle", "release", "stopped"}
                            \cup Outcome]
    /\ keepalive \in [Workers -> {"unstarted", "beat", "register", "ended"}]
    /\ claim \in [Workers -> Claim \cup {NULL}]
    /\ lost \in [Workers -> BOOLEAN]
    /\ told \subseteq Claim
    /\ late \subseteq Request
    /\ adrift \subseteq WorkerRequest
    /\ forgotten \subseteq told

Running(w) == main[w] # "stopped"

\* Whether the thread keep_job_alive of this process still loops.
BeatsJob(w) == main[w] \in {"handle", "release"} /\ ~lost[w]

-----------------------------------------------------------------------------
(* Calls on the store. *)

\* The call is accepted, and the store does what it asks for.
Accepted(call, c, now) ==
    /\ c.token \in DOMAIN jobs[c.job].attempts
    /\ now \in HolderNows(c.job, c.token)
    /\ \/ call = "heartbeat" /\ HeartbeatJob(c.job, c.worker, c.token, now)
       \/ call = "success" /\ FinishSuccess(c.job, c.worker, c.token, now)
       \/ call = "failed" /\ FinishFailure(c.job, c.worker, c.token, now)
       \/ call = "release" /\ ReleaseJob(c.job, c.worker, c.token, now)

\* LEASE_REJECTED or JOB_NOT_FOUND.
Rejected(call, c, now) ==
    /\ now \in Nows
    /\ IF call = "release"
       THEN ~(Exists(c.job) /\ CanHold(jobs[c.job], c.worker, c.token, now))
       ELSE ~HoldOrReclaim(c.job, c.worker, c.token, now)
    /\ UNCHANGED vars

\* The process stops waiting; the request is still on its way.
Unanswered(call, c) ==
    /\ late' = late \cup {[call |-> call, claim |-> c]}
    /\ UNCHANGED <<adrift, vars>>

UnansweredFor(call, w) ==
    /\ adrift' = adrift \cup {[call |-> call, worker |-> w]}
    /\ UNCHANGED <<late, vars>>

\* A late request reaches the store, or gets lost.
Arrives(request) ==
    /\ \/ \E now \in Nows : \/ Accepted(request.call, request.claim, now)
                            \/ Rejected(request.call, request.claim, now)
       \/ UNCHANGED vars
    /\ \/ late' = late \ {request}
       \/ request.call = "heartbeat" /\ UNCHANGED late
    /\ UNCHANGED <<adrift, processVars>>

\* The same of a request that no claim goes with.  The store may give a job to
\* a worker that does not learn of it.
Drifts(request) ==
    /\ \/ \E now \in Nows :
             \/ request.call = "register" /\ RegisterWorker(request.worker, now)
             \/ request.call = "renew" /\ HeartbeatWorker(request.worker, now)
             \/ /\ request.call = "claim"
                /\ \E type \in Types, j \in Jobs :
                      ClaimJob(request.worker, type, j, now)
       \/ UNCHANGED vars
    /\ \/ adrift' = adrift \ {request}
       \/ request.call # "register" /\ UNCHANGED adrift
    /\ UNCHANGED <<late, processVars>>

-----------------------------------------------------------------------------
(* The main thread. *)

Go(w, place) == main' = [main EXCEPT ![w] = place]

\* The threads of a process end with it: they are daemons.
Stops(w) ==
    /\ Go(w, "stopped")
    /\ keepalive' = [keepalive EXCEPT ![w] = "ended"]
    /\ UNCHANGED <<claim, lost, told, forgotten>>

Registers(w) ==
    /\ main[w] = "register"
    /\ \E now \in Nows : RegisterWorker(w, now)
    /\ Go(w, "claim")
    /\ keepalive' = [keepalive EXCEPT ![w] = IF @ = "unstarted" THEN "beat"
                                             ELSE @]
    /\ UNCHANGED <<claim, lost, told, forgotten, netVars>>

\* An OSError out of register() ends main().
RegisterFails(w) ==
    /\ main[w] = "register"
    /\ UnansweredFor("register", w)
    /\ Stops(w)

Claims(w) ==
    /\ main[w] = "claim"
    /\ \E type \in Types, j \in Jobs, now \in Nows :
          LET c == [worker |-> w, job |-> j, token |-> Newest(jobs[j]) + 1]
          IN  /\ ClaimJob(w, type, j, now)
              /\ claim' = [claim EXCEPT ![w] = c]
              /\ told' = told \cup {c}
    /\ lost' = [lost EXCEPT ![w] = FALSE]
    /\ Go(w, "handle")
    /\ UNCHANGED <<keepalive, forgotten, netVars>>

\* The answer to a claim does not arrive: the loop sleeps and claims again.
ClaimsUnseen(w) ==
    /\ main[w] = "claim"
    /\ UnansweredFor("claim", w)
    /\ UNCHANGED processVars

\* Mutant: sleeps and claims again, as for an OSError.
ClaimRefusedSleeps(w) ==
    /\ main[w] = "claim"
    /\ \E now \in Nows : w \in Registered => now >= leases[w]
    /\ UNCHANGED allVars

\* WORKER_NOT_FOUND or WORKER_LEASE_EXPIRED.
ClaimRefused(w) ==
    /\ main[w] = "claim"
    /\ \E now \in Nows : w \in Registered => now >= leases[w]
    /\ Go(w, "register")
    /\ UNCHANGED <<keepalive, claim, lost, told, forgotten, netVars, vars>>

\* handle() returns or raises; Ctrl+C interrupts it.
Handled(w) ==
    /\ main[w] = "handle"
    /\ \E place \in Outcome : Go(w, place)
    /\ UNCHANGED <<keepalive, claim, lost, told, forgotten, netVars, vars>>

Interrupted(w) ==
    /\ main[w] = "handle"
    /\ Go(w, "release")
    /\ UNCHANGED <<keepalive, claim, lost, told, forgotten, netVars, vars>>

\* What is not this process's job any more is not reported.
Drops(w) ==
    /\ main[w] \in Outcome
    /\ lost[w]
    /\ Go(w, "claim")
    /\ UNCHANGED <<keepalive, claim, lost, told, forgotten, netVars, vars>>

\* A rejected finish is ignored.
Finishes(w) ==
    /\ main[w] \in Outcome
    /\ ~lost[w]
    /\ \E now \in Nows : \/ Accepted(main[w], claim[w], now)
                         \/ Rejected(main[w], claim[w], now)
    /\ Go(w, "claim")
    /\ UNCHANGED <<keepalive, claim, lost, told, forgotten, netVars>>

\* An OSError out of finish ends main().
FinishFails(w) ==
    /\ main[w] \in Outcome
    /\ ~lost[w]
    /\ Unanswered(main[w], claim[w])
    /\ Stops(w)

\* The process ends after its release, whatever becomes of that.
Releases(w) ==
    /\ main[w] = "release"
    /\ \/ /\ \E now \in Nows : \/ Accepted("release", claim[w], now)
                               \/ Rejected("release", claim[w], now)
          /\ UNCHANGED netVars
       \/ Unanswered("release", claim[w])
    /\ Stops(w)

\* Killed, or Ctrl+C outside handle().
Killed(w) ==
    /\ Running(w)
    /\ Stops(w)
    /\ UNCHANGED <<netVars, vars>>

-----------------------------------------------------------------------------
(* The two heartbeat threads. *)

RenewsWorker(w) ==
    /\ keepalive[w] = "beat"
    /\ \/ (\E now \in Nows : HeartbeatWorker(w, now)) /\ UNCHANGED netVars
       \/ UnansweredFor("renew", w)
    /\ UNCHANGED processVars

\* WORKER_NOT_FOUND.
WorkerUnknown(w) ==
    /\ keepalive[w] = "beat"
    /\ w \notin Registered
    /\ keepalive' = [keepalive EXCEPT ![w] = "register"]
    /\ UNCHANGED <<main, claim, lost, told, forgotten, netVars, vars>>

\* register() is called in the handler of the ApiError, so an OSError out of it
\* ends the thread.
Reregisters(w) ==
    /\ keepalive[w] = "register"
    /\ \/ /\ \E now \in Nows : RegisterWorker(w, now)
          /\ keepalive' = [keepalive EXCEPT ![w] = "beat"]
          /\ UNCHANGED netVars
       \/ /\ UnansweredFor("register", w)
          /\ keepalive' = [keepalive EXCEPT ![w] = "ended"]
    /\ UNCHANGED <<main, claim, lost, told, forgotten>>

RenewsJob(w) ==
    /\ BeatsJob(w)
    /\ \/ /\ \E now \in Nows : Accepted("heartbeat", claim[w], now)
          /\ UNCHANGED netVars
       \/ Unanswered("heartbeat", claim[w])
    /\ UNCHANGED processVars

\* LEASE_REJECTED or JOB_NOT_FOUND: the thread sets `lost` and ends.
LosesJob(w) ==
    /\ BeatsJob(w)
    /\ \E now \in Nows : Rejected("heartbeat", claim[w], now)
    /\ lost' = [lost EXCEPT ![w] = TRUE]
    /\ UNCHANGED <<main, keepalive, claim, told, forgotten, netVars>>

-----------------------------------------------------------------------------

LoopInit ==
    /\ Init
    /\ main = [w \in Workers |-> "register"]
    /\ keepalive = [w \in Workers |-> "unstarted"]
    /\ claim = [w \in Workers |-> NULL]
    /\ lost = [w \in Workers |-> FALSE]
    /\ told = {}
    /\ late = {}
    /\ adrift = {}
    /\ forgotten = {}

\* What the main thread does when it is neither stopped nor left unanswered.
MainStep(w) ==
    \/ Registers(w) \/ Claims(w)  \/ ClaimRefused(w)
    \/ Handled(w)   \/ Drops(w)   \/ Finishes(w)

ProcessStep(w) ==
    \/ MainStep(w)
    \/ RegisterFails(w) \/ ClaimsUnseen(w) \/ Interrupted(w)
    \/ FinishFails(w)   \/ Releases(w)     \/ Killed(w)
    \/ RenewsWorker(w)  \/ WorkerUnknown(w) \/ Reregisters(w)
    \/ RenewsJob(w)     \/ LosesJob(w)

\* An operator forgets a worker whose lease ran out, whether it lives or not.
Forget ==
    /\ \E w \in Workers, now \in Nows :
          /\ DeleteWorker(w, now)
          /\ forgotten' = forgotten \cup {c \in told : c.worker = w}
    /\ UNCHANGED <<main, keepalive, claim, lost, told, netVars>>

StoreStep == (OperatorStep \/ CleanerStep \/ Tick) /\ UNCHANGED loopVars

NetStep ==
    \/ \E request \in late : Arrives(request)
    \/ \E request \in adrift : Drifts(request)

LoopNext == (\E w \in Workers : ProcessStep(w)) \/ NetStep \/ Forget \/ StoreStep

LoopSpec == LoopInit /\ [][LoopNext]_allVars

\* Threads run, handle() ends, and the network answers now and then: a call
\* that went unanswered is made again by the loop, or ends the process.
LoopFairness ==
    \A w \in Workers : WF_allVars(MainStep(w)) /\ WF_allVars(Releases(w))

FairLoopSpec == LoopSpec /\ LoopFairness

-----------------------------------------------------------------------------

\* The lease of the job is the one of this claim and could still be renewed: it
\* is not past its deadline, nor has it run out in a replay that keeps its old
\* success, which nobody may take up again.
HeldBy(c) ==
    /\ jobs[c.job].token = c.token
    /\ jobs[c.job].worker = c.worker
    /\ ~PastDeadline(jobs[c.job], clock)
    /\ ~(KeepsOldSuccess(jobs[c.job]) /\ LeaseExpired(jobs[c.job], clock))

WorksOn(c) ==
    /\ claim[c.worker] = c
    /\ main[c.worker] \in {"handle", "release"} \cup Outcome
    /\ ~lost[c.worker]

\* No job waits for a worker that is not at it: a process that finished a job,
\* or was told that it lost one, does not hold it, and no request of its own
\* that was delayed on the way takes it back (run, _reclaim_lease).  Exempt are
\* claims whose worker was forgotten since, for which it may have been refused
\* what a late request is then granted; and, where a request may be older than
\* its transaction, replays that keep their old success: a late one revives the
\* lease for which a newer one was refused.
NothingLeftBehind ==
    \A c \in told :
        /\ HeldBy(c)
        /\ c \notin forgotten
        /\ KeepsOldSuccess(jobs[c.job]) => RequestLag = 0
        => WorksOn(c) \/ ~Running(c.worker)

\* A job that a worker was given without learning of it, however late its claim
\* arrived, is free again one lease later: nobody renews the lease (main).
UnseenRunsOut ==
    \A j \in Jobs :
        LET job == jobs[j]
            c == [worker |-> job.worker, job |-> j, token |-> job.token]
        IN  job.token # NULL /\ c \notin told =>
               job.until = Min2(job.attempts[job.token].started + JobLeaseMs,
                                job.deadline)

\* The place a process is at, its threads and its claim fit together, and a job
\* is held only by a process that works on it, or until a lease that nobody
\* knows of runs out.
LoopInv == LoopTypeOK /\ NothingLeftBehind /\ UnseenRunsOut

\* Two processes run one job at once only if the first has lost it, by its
\* lease, its deadline or a cancel (WORKER.md:33, claim_job).
OverlapOnlyAfterLoss ==
    \A v, w \in Workers :
        /\ main[v] = "handle" /\ main[w] = "handle"
        /\ claim[v].job = claim[w].job
        /\ claim[v].token < claim[w].token
        /\ Exists(claim[v].job)
        => jobs[claim[v].job].attempts[claim[v].token].outcome \in
              {"lease_expired", "deadline_exceeded", "cancelled"}

\* A job that is due is run as long as a process lives, even one whose thread
\* for the worker lease has died: a refused claim registers it again (main).
DueJobsRun ==
    \A j \in Jobs :
        /\ jobs[j].status = "pending"
        /\ jobs[j].available <= clock
        /\ Newest(jobs[j]) < MaxClaims
        ~> \/ jobs[j].status # "pending"
           \/ jobs[j].available > clock
           \/ \A w \in Workers : ~Running(w)

=============================================================================
