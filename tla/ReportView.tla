----------------------------- MODULE ReportView -----------------------------
(***************************************************************************)
(* What the control room says of a report (fe/src/features/job-detail):    *)
(* one line for each method, made of the single position the store keeps   *)
(* for the whole list.                                                     *)
(***************************************************************************)
EXTENDS ReportDelivery

\* Mutant: the tries of the full rounds are forgotten until it gives up.
FailedTriesThisRound(report, i) ==
    IF report.status = "failed" THEN report.round
    ELSE IF i < report.cursor THEN 1 ELSE 0

\* Sends to method i that failed: one in each full round, and one in this round
\* if the cursor is past it.
FailedTries(report, i) == report.round + (IF i < report.cursor THEN 1 ELSE 0)

\* What the line of method i says at `now`.
Line(report, i, now) ==
    CASE report.status = NULL -> "sent when the job finishes"
      [] report.status = "failed" -> "gave up"
      [] report.status \notin {NULL, "failed"} /\ i # report.cursor ->
             IF FailedTries(report, i) > 0 THEN "failed"
             ELSE IF report.status = "success" THEN "not needed" ELSE "not tried"
      [] report.status = "success"   /\ i = report.cursor -> "delivered"
      [] report.status = "reporting" /\ i = report.cursor -> "sending"
      [] report.status = "pending"   /\ i = report.cursor ->
             IF report.nextAt = NULL \/ report.nextAt <= now THEN "soon" ELSE "at"

Methods(job) == 0..(job.methods - 1)

Lines(job, now) ==
    [i \in Methods(job) |-> [says |-> Line(job.report, i, now),
                             tries |-> FailedTries(job.report, i),
                             sent |-> i \in job.report.sends]]

\* No card for a job without methods; a button on each line once the job and
\* its report are settled, one request at a time.
ReportCard(job, now) ==
    IF job.methods = 0 THEN NULL
    ELSE [lines |-> Lines(job, now),
          canSend |-> /\ job.status \in {"success", "failed"}
                      /\ job.report.status \in {"success", "failed"},
          lastError |-> job.report.error]

-----------------------------------------------------------------------------

LineOf(job, i) == ReportCard(job, clock).lines[i]

Says(job, what) == {i \in Methods(job) : LineOf(job, i).says = what}

\* The tries that the lines show, from one transaction to the next.
BooksAreKept(old, new) ==
    LET added(i) == LineOf(new, i).tries - LineOf(old, i).tries
        failed == {i \in Methods(old) : added(i) # 0}
    IN  /\ \A i \in failed : added(i) = 1
        /\ failed = {} \/ failed = Says(old, "sending")
        /\ Says(new, "delivered") # {} =>
              Says(new, "delivered") \in {Says(old, "sending"), Says(old, "delivered")}
        /\ \A i \in Says(new, "gave up") : LineOf(new, i).tries = ReportMaxRounds

\* The card of one outcome keeps the books of its sends, although the store has
\* one cursor for all of them: a send that fails, or is interrupted by a crash,
\* adds a try to the line that said "Sending now" and to no other, what is
\* delivered is what was being sent, and "Gave up" comes on all lines at once
\* after report_max_rounds tries of each (reportLines in wording.ts).
LinesFollowTheSends ==
    [][\A j \in Jobs :
          LET old == jobs[j]
              new == jobs[j]'
          IN  old.report.status # NULL /\ Outcome(new) = Outcome(old)
              => BooksAreKept(old, new)]_allVars

=============================================================================
