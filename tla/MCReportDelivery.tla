-------------------------- MODULE MCReportDelivery --------------------------
(***************************************************************************)
(* Instances of ReportDelivery and ReportView for TLC.                     *)
(***************************************************************************)
EXTENDS ReportView

\* A replay that keeps the old success, one that overwrites it, and one that
\* reports its outcome.
ThreeReplays ==
    {[overwrite |-> r.overwrite, reportSuccess |-> r.reports,
      reportFailed |-> r.reports] :
        r \in [overwrite : BOOLEAN, reports : BOOLEAN] \ {[overwrite |-> FALSE, reports |-> TRUE]}}

\* Every worker is registered with a lease that outlasts the clock.
CrewInit ==
    /\ jobs = [j \in Jobs |-> Absent("none")]
    /\ leases = [w \in Workers |-> MaxClock + 1]
    /\ clock = 0
    /\ cleaner = NULL
    /\ sending = NULL
    /\ manual = [r \in ManualRequests |-> NULL]
    /\ acked = [j \in Jobs |-> {}]

CrewNext ==
    \/ (JobStep \/ CleanerStep \/ Tick) /\ UNCHANGED deliveryVars
    \/ DeliveryStep

CrewSpec == CrewInit /\ [][CrewNext]_allVars
=============================================================================
