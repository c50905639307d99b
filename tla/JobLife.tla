------------------------------ MODULE JobLife ------------------------------
(***************************************************************************)
(* What the backend promises about the life of a job, without clocks,      *)
(* leases, attempts and backoff: who may decide it, and what may follow    *)
(* what.  JobStore.tla implements it.                                      *)
(*                                                                         *)
(* A claim starts a run.  `claim` says what the worker of the newest run   *)
(* may still do: it holds the job; or it fell silent and lost it, but may  *)
(* take it up again; or the run is over and nothing that worker sends      *)
(* changes the job any more.                                               *)
(***************************************************************************)
EXTENDS Integers

CONSTANT Jobs          \* job ids

VARIABLE life          \* the life of each job

JobStates == {"none", "pending", "running", "success", "failed", "cancelled",
              "deleted"}

\* `run` numbers the runs from 1; `result` is the run whose result the job has,
\* 0 if it has none; `keeps` says that a replay ends back at that result.
Lives == [status : JobStates, run : Nat, claim : {"held", "lost", "over"},
          result : Nat, keeps : BOOLEAN]

Unborn == [status |-> "none", run |-> 0, claim |-> "over", result |-> 0,
           keeps |-> FALSE]

LifeTypeOK == life \in [Jobs -> Lives]

-----------------------------------------------------------------------------
(* Each step of one job, from the life l to the life m. *)

Create(l, m) ==
    /\ l.status = "none"
    /\ m = [Unborn EXCEPT !.status = "pending"]

Begin(l, m) ==
    /\ l.status = "pending"
    /\ m = [l EXCEPT !.status = "running", !.run = @ + 1, !.claim = "held"]

\* Only a replay without overwrite keeps its result for certain.
Kept(l) == IF l.keeps THEN {l.result} ELSE {l.result, 0}

\* The worker of the newest run goes on with it.
Continue(l, m) ==
    /\ l.claim # "over"
    /\ m \in {[l EXCEPT !.status = "running", !.claim = "held",
                        !.result = r] : r \in Kept(l)}

\* Where a job may go when a run ends without success.
Unsuccessful(l, claim) ==
    IF l.keeps THEN {[l EXCEPT !.status = "success", !.claim = "over"]}
    ELSE {[l EXCEPT !.status = "pending", !.claim = claim,
                    !.result = r] : r \in Kept(l)}
         \cup {[l EXCEPT !.status = "failed", !.claim = claim,
                         !.result = 0]}

\* The lease runs out; its worker may come back.
Lapse(l, m) == l.claim = "held" /\ m \in Unsuccessful(l, "lost")

\* The worker reports a failure, or the deadline passes.
Fall(l, m) == l.claim # "over" /\ m \in Unsuccessful(l, "over")

\* The worker gives the job back.
Release(l, m) ==
    /\ l.claim = "held"
    /\ m = [l EXCEPT !.status = "pending", !.claim = "over"]

\* The worker reports success.
Succeed(l, m) ==
    /\ l.claim # "over"
    /\ m = [l EXCEPT !.status = "success", !.claim = "over",
                     !.result = IF l.keeps THEN @ ELSE l.run]

Cancel(l, m) ==
    /\ l.status \in {"pending", "running"}
    /\ m = IF l.keeps THEN [l EXCEPT !.status = "success", !.claim = "over"]
           ELSE [l EXCEPT !.status = "cancelled", !.claim = "over",
                          !.result = 0]

Retry(l, m) ==
    /\ l.status \in {"failed", "cancelled"}
    /\ m = [l EXCEPT !.status = "pending", !.claim = "over", !.result = 0,
                     !.keeps = FALSE]

Replay(l, m) ==
    /\ l.status = "success"
    /\ m \in {[l EXCEPT !.status = "pending", !.claim = "over",
                        !.keeps = k] : k \in BOOLEAN}

Vanish(l, m) ==
    /\ l.status \in {"success", "failed", "cancelled"}
    /\ m = [Unborn EXCEPT !.status = "deleted"]

LifeStep(l, m) ==
    \/ Create(l, m)  \/ Begin(l, m)   \/ Continue(l, m) \/ Lapse(l, m)
    \/ Fall(l, m)    \/ Release(l, m) \/ Succeed(l, m)  \/ Cancel(l, m)
    \/ Retry(l, m)   \/ Replay(l, m)  \/ Vanish(l, m)

-----------------------------------------------------------------------------

LifeInit == life = [j \in Jobs |-> Unborn]

\* One cleanup may take several jobs from their workers.
LifeNext ==
    /\ life' \in [Jobs -> Lives]
    /\ \A j \in Jobs : life'[j] = life[j] \/ LifeStep(life[j], life'[j])

LifeSpec == LifeInit /\ [][LifeNext]_life

-----------------------------------------------------------------------------

\* A job runs exactly while a worker holds it; a worker that lost its job can
\* come back only while the job waits or has failed; a job that succeeded, or
\* that keeps an old success, has a result, and the result is that of a run.
LifeInv ==
    \A j \in Jobs :
        LET l == life[j]
        IN  /\ l.status = "running" <=> l.claim = "held"
            /\ l.claim = "lost" => l.status \in {"pending", "failed"}
            /\ l.status = "success" => l.result > 0
            /\ l.keeps => l.status \in {"pending", "running", "success"}
                          /\ l.result > 0
            /\ l.result <= l.run
            /\ l.claim # "over" => l.run > 0

\* A run that is over stays over: whatever its worker still sends, only a new
\* claim gives the job to a worker again (_hold, _reclaim_lease).
OverIsOver ==
    [][\A j \in Jobs :
          life[j].claim = "over" /\ life'[j].run = life[j].run
          => life'[j].claim = "over"]_life

=============================================================================
