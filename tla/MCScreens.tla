------------------------------ MODULE MCScreens ------------------------------
(***************************************************************************)
(* An instance of Overview and MachinesView for TLC, the screens that are  *)
(* drawn from answers read apart: one of the two is read while the store   *)
(* goes on.                                                                *)
(***************************************************************************)
EXTENDS Overview, MachinesView, TLC

\* Interchangeable workers: sound, no liveness is checked.
Symmetry == Permutations(Workers)

OneSlot == [w \in Workers |-> 1]
OneMachine == [w \in Workers |-> "10.0.0.1"]

\* Job 1 has failed on a worker and was retried; job 2, of lower priority, runs
\* or is still new a moment later.
QueueInit ==
    /\ \E w \in Workers :
          LET new(priority) == NewJob("t1", priority, 1, 2, 0, 2)
              failed == Retried(Failed(Claimed(new(1), w, 2), 2), 2)
          IN  \/ clock = 3 /\ \E v \in Workers : jobs = <<failed, Claimed(new(0), v, 2)>>
              \/ clock = 4 /\ jobs = <<failed, new(0)>>
    /\ leases = [w \in Workers |-> 2 + WorkerLeaseMs]

\* Job 1 has failed on a worker and runs on it again; job 2 runs on it too, or
\* was cancelled by a request that read the clock before it was claimed.
FleetInit ==
    /\ clock = 3
    /\ \E w \in Workers :
          LET new == NewJob("t1", 0, 1, 2, 0, 1)
              failed == Failed(Claimed(new, w, 1), 2)
              running == Claimed(new, w, 2)
          IN  \E second \in {running, Cancelled(running, 1)} :
                  jobs = <<Claimed(failed, w, 2), second>>
    /\ leases = [w \in Workers |-> 1 + WorkerLeaseMs]

ScreensInit ==
    /\ QueueInit \/ FleetInit
    /\ cleaner = NULL
    /\ answer = NULL /\ touched = {} /\ beaten = {}
    /\ ScreenInit

MaxAttemptsInAll == 2
MaxMeanwhile == 1

\* The store runs on, but little of it changes while one answer is read, and
\* no cleanup is between its two transactions.
QueueNext ==
    /\ Newest(jobs[1]) + Newest(jobs[2]) <= MaxAttemptsInAll /\ ~SomethingRead
    /\ OverviewNext
    /\ answer' # NULL => cleaner' = NULL
    /\ Newest(jobs'[1]) + Newest(jobs'[2]) <= MaxAttemptsInAll
    /\ Cardinality(touched') + Cardinality(beaten') <= MaxMeanwhile
    /\ UNCHANGED screenVars

\* The same of the answers of the Machines screen.  A window is that of the
\* moment of its answer.
FleetNext ==
    /\ Newest(jobs[1]) + Newest(jobs[2]) > MaxAttemptsInAll \/ SomethingRead
    /\ MachinesNext
    /\ lanesRead' # lanesRead => lanesRead'.asked = clock
    /\ drawerRead' # drawerRead => drawerRead'.asked = clock
    /\ cleaner' = NULL
    /\ \A j \in Jobs : jobs'[j] # jobs[j] => SomethingRead /\ j \notin moved
    /\ \A w \in Workers : leases'[w] # leases[w] => SomethingRead /\ w \notin heard
    /\ Cardinality(moved') + Cardinality(heard') <= MaxMeanwhile
    /\ UNCHANGED readVars

\* Nothing is left to read.
AllRead ==
    /\ \A offline \in BOOLEAN : workersRead[offline] # NULL
    /\ overviewRead # NULL /\ lanesRead # NULL /\ drawerRead # NULL
    /\ overviewRead.loads # NULL
    /\ UNCHANGED <<vars, readVars, screenVars>>

ScreensNext == QueueNext \/ FleetNext \/ AllRead

ScreensSpec == ScreensInit /\ [][ScreensNext]_<<vars, readVars, screenVars>>
=============================================================================
