---------------------------- MODULE MCWorkerLoop ----------------------------
(***************************************************************************)
(* Instances of WorkerLoop for TLC.                                        *)
(***************************************************************************)
EXTENDS WorkerLoop, TLC

\* Interchangeable processes: sound, no liveness is checked.
Symmetry == Permutations(Workers)

\* A replay that keeps its old success.
KeepReplay == {[overwrite |-> FALSE, reportSuccess |-> FALSE, reportFailed |-> FALSE]}

\* Processes past their start.  Their own leases outlast the clock, and their
\* threads for it rest: the run spends its states on the jobs.
CrewInit ==
    /\ jobs = [j \in Jobs |-> Absent("none")]
    /\ leases = [w \in Workers |-> MaxClock + 1]
    /\ clock = 0
    /\ cleaner = NULL
    /\ main = [w \in Workers |-> "claim"]
    /\ keepalive = [w \in Workers |-> "beat"]
    /\ claim = [w \in Workers |-> NULL]
    /\ lost = [w \in Workers |-> FALSE]
    /\ told = {}
    /\ late = {}
    /\ adrift = {}
    /\ forgotten = {}

\* Bound: calls that are under way unanswered at once.
MaxLate == 1

\* A process runs jobs and may end by Ctrl+C or a report without an answer; its
\* claims are answered.
CrewStep(w) ==
    \/ MainStep(w)    \/ RenewsJob(w)   \/ LosesJob(w)
    \/ Interrupted(w) \/ FinishFails(w) \/ Releases(w)

CrewNext ==
    /\ (\E w \in Workers : CrewStep(w)) \/ NetStep \/ StoreStep
    /\ Cardinality(late') <= MaxLate

CrewSpec == CrewInit /\ [][CrewNext]_allVars
=============================================================================
