--------------------------- MODULE ReportDelivery ---------------------------
(***************************************************************************)
(* The whole backend: the store of JobStore.tla, the background reporter   *)
(* that tells providers how their jobs finished (be/api/app.py             *)
(* _report_once, be/store.py take_due_report and record_report) and the    *)
(* sends an operator asks for (be/api/jobs.py send_report).                *)
(*                                                                         *)
(* A send is two transactions with an HTTP request between them, and       *)
(* anything may happen to the job meanwhile.  The reporter makes one send  *)
(* at a time; operators' requests run beside it.  A send ends with the     *)
(* provider's 2xx or with an error; after an error the provider may still  *)
(* have received it.                                                       *)
(***************************************************************************)
EXTENDS JobStore

CONSTANTS
    ReportTimeoutMs,   \* Settings.report_timeout_ms
    ManualRequests     \* operators' sends that can be under way at once

\* The longest report list create_job takes.
MaxMethods == 10

ASSUME DeliveryAssumption == ReportTimeoutMs \in Nat \ {0}

VARIABLES
    sending,           \* the reporter's send under way, else NULL
    manual,            \* the operators' sends under way, each else NULL
    acked              \* the outcomes of each job that its provider answered 2xx

deliveryVars == <<sending, manual, acked>>
allVars == <<jobs, leases, clock, cleaner, sending, manual, acked>>

\* What one finish of a job told; the provider's body is made of it.
Outcome(job) ==
    [status |-> job.status, finished |-> job.finished, error |-> job.error,
     attempt |-> IF job.status = "success" THEN job.result ELSE Newest(job)]

OutcomeType == [status : Statuses, finished : Time \cup {NULL},
                error : JobErrors \cup {NULL}, attempt : Nat \cup {NULL}]

Send == [job : Jobs, token : Time, outcome : OutcomeType]

ManualSend == [job : Jobs, index : Nat, outcome : OutcomeType]

DeliveryTypeOK ==
    /\ TypeOK
    /\ sending \in Send \cup {NULL}
    /\ manual \in [ManualRequests -> ManualSend \cup {NULL}]
    /\ acked \in [Jobs -> SUBSET OutcomeType]

-----------------------------------------------------------------------------
(* The report columns of a row. *)

WithReport(job, report) == [job EXCEPT !.report = report]

\* Sends that failed so far.
Position(report, methods) == report.round * methods + report.cursor

ReportBackoff(failedSends) ==
    Capped(ReportBaseMs * 2^(failedSends - 1), ReportCapMs)

\* The method after the one at the cursor; after the last, the first again in
\* the next round.
NextMethod(report, methods, error) ==
    LET last == report.cursor + 1 = methods
    IN  [report EXCEPT !.cursor = IF last THEN 0 ELSE @ + 1,
                       !.round = IF last THEN @ + 1 ELSE @,
                       !.error = error]

\* Mutant: one round too many.
AdvancedLate(report, methods, error, now) ==
    LET next == NextMethod(report, methods, error)
    IN  IF next.round > ReportMaxRounds
        THEN [next EXCEPT !.status = "failed", !.nextAt = NULL]
        ELSE [next EXCEPT !.status = "pending",
                          !.nextAt = now + ReportBackoff(Position(next, methods))]

Advanced(report, methods, error, now) ==
    LET next == NextMethod(report, methods, error)
    IN  IF next.round >= ReportMaxRounds
        THEN [next EXCEPT !.status = "failed", !.nextAt = NULL]
        ELSE [next EXCEPT !.status = "pending",
                          !.nextAt = now + ReportBackoff(Position(next, methods))]

AdvanceReport(job, error, now) ==
    WithReport(job, Advanced(job.report, job.methods, error, now))

Delivered(job) ==
    WithReport(job, [job.report EXCEPT !.status = "success", !.nextAt = NULL,
                                       !.error = NULL])

\* Mutant: waits for the answer of a reporter that died.
OverdueNever(job, now) == FALSE

\* Still being sent after its deadline: whoever sent it died.
Overdue(job, now) == job.report.status = "reporting" /\ job.report.nextAt <= now

Due(job, now) == job.report.status = "pending" /\ job.report.nextAt <= now

\* Mutant: an interrupted send is repeated as if it had never been made.
CountedAgain(job, now) ==
    IF Overdue(job, now)
    THEN WithReport(job, [job.report EXCEPT !.status = "pending", !.nextAt = now])
    ELSE job

\* Every interrupted send counts as a failed one.
Counted(job, now) ==
    IF Overdue(job, now) THEN AdvanceReport(job, "interrupted", now) ELSE job

Taken(job, token) ==
    WithReport(job, [job.report EXCEPT !.status = "reporting", !.nextAt = token])

-----------------------------------------------------------------------------
(* The reporter. *)

\* take_due_report finds nothing to send.
NothingDue(now) ==
    /\ sending = NULL
    /\ \A j \in Jobs : ~Due(Counted(jobs[j], now), now)
    /\ jobs' = [j \in Jobs |-> Counted(jobs[j], now)]
    /\ UNCHANGED <<leases, clock, cleaner, sending, manual, acked>>

\* take_due_report takes the report that is due for longest.
TakeDueReport(j, now) ==
    LET counted == [k \in Jobs |-> Counted(jobs[k], now)]
        due == {k \in Jobs : Due(counted[k], now)}
        token == now + ReportTimeoutMs
    IN  /\ sending = NULL
        /\ j \in due
        /\ \A k \in due \ {j} : Before(<<counted[j].report.nextAt, j>>,
                                       <<counted[k].report.nextAt, k>>)
        /\ jobs' = [counted EXCEPT ![j] = Taken(@, token)]
        /\ sending' = [job |-> j, token |-> token, outcome |-> Outcome(jobs[j])]
        /\ UNCHANGED <<leases, clock, cleaner, manual, acked>>

\* Mutant: records whatever has become of the report.
IsThatSendAlways(job, token) == TRUE

\* Whether the row still waits for the answer to this send.
IsThatSend(job, token) ==
    job.report.status = "reporting" /\ job.report.nextAt = token

Acknowledge(j, outcome) == acked' = [acked EXCEPT ![j] = @ \cup {outcome}]

\* The provider answered 2xx.
SendDelivered ==
    /\ sending # NULL
    /\ LET job == jobs[sending.job]
       IN  Update(sending.job,
                  IF IsThatSend(job, sending.token) THEN Delivered(job) ELSE job)
    /\ Acknowledge(sending.job, sending.outcome)
    /\ sending' = NULL
    /\ UNCHANGED <<leases, clock, cleaner, manual>>

\* No connection, no answer in time, or any other answer.
SendFailed(now) ==
    /\ sending # NULL
    /\ LET job == jobs[sending.job]
       IN  Update(sending.job,
                  IF IsThatSend(job, sending.token)
                  THEN AdvanceReport(job, "send_failed", now) ELSE job)
    /\ sending' = NULL
    /\ UNCHANGED <<leases, clock, cleaner, manual, acked>>

\* An exception that _run_reporter logs: nothing is recorded.
ReporterFails ==
    /\ sending # NULL
    /\ sending' = NULL
    /\ UNCHANGED <<jobs, leases, clock, cleaner, manual, acked>>

-----------------------------------------------------------------------------
(* Operators' sends: checked, sent and recorded in three steps, beside the *)
(* automatic delivery.                                                     *)

Resendable(job) ==
    /\ job.status \in {"success", "failed"}
    /\ job.report.status \in {"success", "failed"}

ResendReport(r, j, index) ==
    /\ manual[r] = NULL
    /\ Resendable(jobs[j])
    /\ index \in 0..(jobs[j].methods - 1)
    /\ manual' = [manual EXCEPT ![r] = [job |-> j, index |-> index,
                                        outcome |-> Outcome(jobs[j])]]
    /\ UNCHANGED <<jobs, leases, clock, cleaner, sending, acked>>

\* record_manual_send stores the outcome of the send, delivered or not.
RecordManualSend(r, delivered) ==
    /\ manual[r] # NULL
    /\ LET job == jobs[manual[r].job]
           sent == [job.report EXCEPT !.sends = @ \cup {manual[r].index}]
       IN  Update(manual[r].job,
                  IF Resendable(job) THEN WithReport(job, sent) ELSE job)
    /\ IF delivered THEN Acknowledge(manual[r].job, manual[r].outcome)
                    ELSE UNCHANGED acked
    /\ manual' = [manual EXCEPT ![r] = NULL]
    /\ UNCHANGED <<leases, clock, cleaner, sending>>

\* The process dies; only the database is left.
Crash ==
    /\ sending' = NULL
    /\ manual' = [r \in ManualRequests |-> NULL]
    /\ cleaner' = NULL
    /\ UNCHANGED <<jobs, leases, clock, acked>>

-----------------------------------------------------------------------------

DeliveryInit ==
    /\ Init
    /\ sending = NULL
    /\ manual = [r \in ManualRequests |-> NULL]
    /\ acked = [j \in Jobs |-> {}]

TakeStep ==
    \E now \in Nows : NothingDue(now) \/ \E j \in Jobs : TakeDueReport(j, now)

SendEnds == SendDelivered \/ (\E now \in Nows : SendFailed(now)) \/ ReporterFails

ManualStep ==
    \E r \in ManualRequests :
        \/ \E j \in Jobs, index \in 0..(MaxMethods - 1) : ResendReport(r, j, index)
        \/ \E delivered \in BOOLEAN : RecordManualSend(r, delivered)

DeliveryStep == TakeStep \/ SendEnds \/ ManualStep \/ Crash

DeliveryNext == (Next /\ UNCHANGED deliveryVars) \/ DeliveryStep

DeliverySpec == DeliveryInit /\ [][DeliveryNext]_allVars

\* The reporter's loop looks for a report again and again, and a send ends, by
\* its timeout at the latest.  Nothing makes it succeed.
DeliveryFairness ==
    /\ Fairness
    /\ WF_allVars(TakeStep)
    /\ WF_allVars(SendEnds)

FairDeliverySpec == DeliverySpec /\ DeliveryFairness

-----------------------------------------------------------------------------
(* Properties. *)

\* A report that says `success` was answered 2xx by the provider for the very
\* outcome the job has now, whatever was reclaimed, retried or replayed while
\* a send was under way (record_report, _start_report, replay_job).
OutcomeAcknowledged ==
    \A j \in Jobs :
        Resendable(jobs[j]) /\ jobs[j].report.status = "success"
        => Outcome(jobs[j]) \in acked[j]

\* A busy report has a method to go to and rounds left; a failed one has been
\* to every method report_max_rounds times (_advance_report).
ScheduleInRange ==
    \A j \in Jobs :
        LET report == jobs[j].report
        IN  /\ ReportBusy(jobs[j]) => /\ report.cursor < jobs[j].methods
                                      /\ report.round < ReportMaxRounds
            /\ report.status = "failed" => /\ report.cursor = 0
                                           /\ report.round = ReportMaxRounds
                                           /\ report.error # NULL

\* A report that starts shows no operator's send of an earlier outcome until it
\* has been delivered or given up (_start_report, record_manual_send).
BusyReportHasNoManualSend ==
    \A j \in Jobs : ReportBusy(jobs[j]) => jobs[j].report.sends = {}

\* What the columns of a report, its request under way and its manual sends
\* say together, after every handler of the delivery.
DeliveryInv ==
    /\ DeliveryTypeOK
    /\ ScheduleInRange
    /\ BusyReportHasNoManualSend

\* For one outcome of a job each send that is not delivered moves on to the
\* next method, crashes included, so there are at most methods * rounds of
\* them; a report that was delivered or given up is not sent again.
Scheduled(old, new) ==
    LET before == Position(old.report, old.methods)
        after == Position(new.report, new.methods)
    IN  /\ old.report.status = "pending" =>
              after = before /\ new.report.status \in {"pending", "reporting"}
        /\ old.report.status = "reporting" =>
              \/ new.report.status = "success" /\ after = before
              \/ after = before + 1
              \/ new.report = old.report
        /\ old.report.status \in {"success", "failed"} =>
              new.report.status = old.report.status /\ after = before

SendsAreCounted ==
    [][\A j \in Jobs :
          LET old == jobs[j]
              new == jobs[j]'
          IN  old.report.status # NULL /\ Outcome(new) = Outcome(old)
              => Scheduled(old, new)]_allVars

\* "Ignored when the report restarted or is being delivered again since
\* `resend_report`" (be/store.py:1103): a manual send is stored only in the
\* report of the outcome it sent.
ManualSendOfThisReport ==
    [][\A r \in ManualRequests :
          manual[r] # NULL
          => LET j == manual[r].job
             IN  jobs'[j].report.sends # jobs[j].report.sends /\ manual'[r] = NULL
                 => Outcome(jobs[j]) = manual[r].outcome]_allVars

\* Under DeliveryFairness: no report waits or is being sent for ever; one whose
\* reporter died is taken up again once its send has timed out.
ReportMoves ==
    \A j \in Jobs, t \in 0..MaxClock :
        LET waits == ReportBusy(jobs[j]) /\ jobs[j].report.nextAt = t
        IN  waits ~> ~waits

=============================================================================
