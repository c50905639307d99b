----------------------------- MODULE MCJobStore -----------------------------
(***************************************************************************)
(* Instances of JobStore and JobView for TLC.                              *)
(***************************************************************************)
EXTENDS JobView, TLC

\* Interchangeable workers: sound for the runs that check no liveness.
Symmetry == Permutations(Workers)

\* One replay that keeps the old success and one that overwrites it.
BothReplays == {[overwrite |-> b, reportSuccess |-> FALSE,
                 reportFailed |-> FALSE] : b \in BOOLEAN}

\* A crew that stays: every worker is registered with a lease that outlasts
\* the clock, so the run spends its states on the jobs.
CrewInit ==
    /\ jobs = [j \in Jobs |-> Absent("none")]
    /\ leases = [w \in Workers |-> MaxClock + 1]
    /\ clock = 0
    /\ cleaner = NULL

\* Bound: claims of a job without reports, the only one that may be replayed
\* here, where nobody delivers reports.
MaxReplayClaims == 2

LeasesNext ==
    /\ JobStep \/ CleanerStep \/ Tick
    /\ \A j \in Jobs : jobs'[j].methods = 0 => Newest(jobs'[j]) <= MaxReplayClaims

LeasesSpec == CrewInit /\ [][LeasesNext]_vars

CrewSpec == CrewInit /\ [][JobStep \/ CleanerStep \/ Tick]_vars
=============================================================================
