------------------------------- MODULE MCStats -------------------------------
(***************************************************************************)
(* An instance of JobStore for TLC, with what its screens say: JobView and *)
(* Stats.                                                                  *)
(***************************************************************************)
EXTENDS MCJobStore, Stats

\* A replay that keeps the old success.
KeepReplay == {r \in BothReplays : ~r.overwrite}

\* Bound: only jobs of one attempt are replayed.
ReplayedAttempts == 1

LateNext ==
    /\ JobStep \/ CleanerStep \/ Tick
    /\ \A j \in Jobs : jobs'[j].replay # NULL => jobs'[j].maxAttempt <= ReplayedAttempts

LateSpec == CrewInit /\ [][LateNext]_vars

TwoSlots == [w \in Workers |-> 2]
=============================================================================
