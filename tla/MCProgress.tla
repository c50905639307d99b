------------------------------ MODULE MCProgress ------------------------------
(***************************************************************************)
(* An instance of Progress for TLC.                                        *)
(***************************************************************************)
EXTENDS Progress, TLC

\* A replay that may be undone.
KeepReplay == {[overwrite |-> FALSE, reportSuccess |-> FALSE, reportFailed |-> FALSE]}

\* Interchangeable workers and steps.
Symmetry == Permutations(Workers) \cup Permutations(StepIds)

\* A crew that stays, as in MCJobStore.
CrewProgressSpec ==
    /\ jobs = [j \in Jobs |-> Absent("none")]
    /\ leases = [w \in Workers |-> MaxClock + 1]
    /\ clock = 0
    /\ cleaner = NULL
    /\ progress = [j \in Jobs |-> NULL]
    /\ [][ProgressNext /\ UNCHANGED leases]_progressVars
=============================================================================
