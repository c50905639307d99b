-------------------------------- MODULE Stats --------------------------------
(***************************************************************************)
(* GET /stats (be/stats.py) and the Stats screen (fe/src/features/stats),  *)
(* as functions of the store at one moment and of the `now` of the answer. *)
(* A rate is a fraction, a record [num, den].  The percentiles are reduced *)
(* to the samples they are taken from; waiting times and styling are left  *)
(* out.  Overview.tla has what may happen between the SELECTs of an        *)
(* answer.                                                                 *)
(***************************************************************************)
EXTENDS JobStore, Collections

LOCAL Fns == INSTANCE Functions

CONSTANTS
    WindowMs,          \* length of the range, _RANGE_MS
    BucketMs,          \* length of a bucket of the chart, _RANGE_MS
    PriorKnown,        \* not for "7d", which retention reaches no further back
    TopErrorsMax,      \* TOP_ERRORS: 10
    LargeSample,       \* 1000, from which a rate has a decimal
    Nudge,             \* 10^9: formatRate adds 1/Nudge before it rounds down
    Slots              \* concurrent_limit of each worker

ASSUME StatsAssumption ==
    /\ {WindowMs, BucketMs} \subseteq Nat \ {0}
    /\ WindowMs % BucketMs = 0
    /\ PriorKnown \in BOOLEAN
    /\ {TopErrorsMax, LargeSample} \subseteq Nat
    /\ Nudge \in Nat \ {0}
    /\ Slots \in [Workers -> Nat \ {0}]
    /\ NULL \notin [num : Int, den : Int]
                    \cup [series : SUBSET TerminalStatuses,
                          bars : Seq([counts : [TerminalStatuses -> Nat],
                                      pale : BOOLEAN])]

-----------------------------------------------------------------------------
(* The answer. *)

FinishedIn(status, start, end) ==
    {j \in Jobs : /\ jobs[j].status = status
                  /\ jobs[j].finished >= start
                  /\ jobs[j].finished < end}

FinishedOf(start, end) ==
    [s \in TerminalStatuses |-> Cardinality(FinishedIn(s, start, end))]

FinishedByType(start, end) ==
    [t \in Types |-> [s \in TerminalStatuses |->
        Cardinality({j \in FinishedIn(s, start, end) : jobs[j].type = t})]]

\* Of the finished jobs that were not cancelled, NULL if there are none.
SuccessRate(counts) ==
    LET decided == counts["success"] + counts["failed"]
    IN  IF decided = 0 THEN NULL ELSE [num |-> counts["success"], den |-> decided]

\* <<job, number>> of every attempt, and the attempt.
Log == UNION {{j} \X DOMAIN jobs[j].attempts : j \in Jobs}
At(x) == jobs[x[1]].attempts[x[2]]

\* Those that overlap the window.
AttemptsBetween(start, end) ==
    {x \in Log : /\ At(x).started < end
                 /\ At(x).ended = NULL \/ At(x).ended > start}

Later(a, b) == IF a >= b THEN a ELSE b

\* Time spent running jobs, as a share of the slots that are there now.
Utilisation(now, start, end, capacity) ==
    LET to == Min2(end, now)
        busy(x) == Min2(IF At(x).ended = NULL THEN now ELSE At(x).ended, to)
                       - Later(At(x).started, start)
        total == Fns!SumFunction([x \in AttemptsBetween(start, to) |-> busy(x)])
        room == capacity * (to - start)
    IN  IF capacity = 0 THEN NULL ELSE [num |-> Min2(total, room), den |-> room]

Kpis(now, start, end, capacity) ==
    [finished |-> SumOf(FinishedOf(start, end)),
     rate |-> SuccessRate(FinishedOf(start, end)),
     utilisation |-> Utilisation(now, start, end, capacity)]

\* Mutant: a job that finished between two buckets is in both.
StatsBucketsTwice(now) ==
    LET count == WindowMs \div BucketMs
        first == (now \div BucketMs) * BucketMs - (count - 1) * BucketMs
    IN  [i \in 1..count |->
            LET start == first + (i - 1) * BucketMs
            IN  [start |-> start, counts |-> FinishedOf(start, start + BucketMs + 1)]]

\* The last bucket is the one under way.
StatsBuckets(now) ==
    LET count == WindowMs \div BucketMs
        first == (now \div BucketMs) * BucketMs - (count - 1) * BucketMs
    IN  [i \in 1..count |->
            LET start == first + (i - 1) * BucketMs
            IN  [start |-> start, counts |-> FinishedOf(start, start + BucketMs)]]

\* Mutant: the runs that started in the window.
RunsStarted(t, start, end) ==
    {x \in Log : /\ jobs[x[1]].type = t
                 /\ At(x).outcome = "succeeded"
                 /\ At(x).started \in start..(end - 1)}

\* The runs the percentiles of a type are taken from.
Runs(t, start, end) ==
    {x \in Log : /\ jobs[x[1]].type = t
                 /\ At(x).outcome = "succeeded"
                 /\ At(x).ended \in start..(end - 1)}

\* The jobs the waiting times of a type are taken from.
Waits(t, start, end) ==
    {j \in Jobs : /\ jobs[j].type = t /\ jobs[j].attempts # << >>
                  /\ jobs[j].attempts[1].started \in start..(end - 1)}

Pending(t) == Cardinality({j \in Jobs : jobs[j].status = "pending" /\ jobs[j].type = t})

\* A row for every type with a figure, the type that finished most first.
ByType(start, end) ==
    LET counts == FinishedByType(start, end)
        row(t) == [type |-> t, finished |-> SumOf(counts[t]),
                   rate |-> SuccessRate(counts[t]), runs |-> Runs(t, start, end),
                   waits |-> Waits(t, start, end), pending |-> Pending(t)]
        empty(r) == r.finished + r.pending = 0 /\ r.runs = {} /\ r.waits = {}
    IN  Sorted({r \in {row(t) : t \in Types} : ~empty(r)},
               LAMBDA r, q : r.finished > q.finished)

\* How often attempts of a type ended with an error, the most frequent first.
TopErrors(start, end) ==
    LET ended == {x \in Log : /\ At(x).outcome \in JobErrors
                              /\ At(x).ended \in start..(end - 1)}
        group(x) == [error |-> At(x).outcome, type |-> jobs[x[1]].type]
        rows == {[of |-> g, count |-> Cardinality({x \in ended : group(x) = g})] :
                    g \in {group(x) : x \in ended}}
        sorted == Sorted(rows, LAMBDA r, q : r.count > q.count)
    IN  SubSeq(sorted, 1, Min2(Len(sorted), TopErrorsMax))

\* Of the workers that answer, whether they run something or not.
Capacity(now) ==
    LET W == {w \in Registered : leases[w] > now}
    IN  SumOf([w \in W |-> Slots[w]])

StatsForRange(now) ==
    LET start == now - WindowMs
        end == now + 1
        capacity == Capacity(now)
    IN  [kpis |-> Kpis(now, start, end, capacity),
         previous |-> IF PriorKnown THEN Kpis(now, start - WindowMs, start, capacity)
                      ELSE NULL,
         buckets |-> StatsBuckets(now), byType |-> ByType(start, end),
         topErrors |-> TopErrors(start, end)]

-----------------------------------------------------------------------------
(* The screen. *)

\* The share in units of 1/scale percent, raised by 1/Nudge against the error of
\* the floats and rounded down, but not to nothing.
FormatRate(rate, sample) ==
    IF rate = NULL THEN NULL
    ELSE LET scale == IF sample >= LargeSample THEN 10 ELSE 1
             pct == (100 * scale * rate.num * Nudge + rate.den) \div (rate.den * Nudge)
         IN  [pct |-> IF rate.num > 0 THEN Later(pct, 1) ELSE pct, scale |-> scale]

\* Math.round of num/den.
Rounded(num, den) == (2 * num + den) \div (2 * den)

\* In points: the difference of two rates.
DeltaOfRates(current, previous) ==
    IF current = NULL \/ previous = NULL THEN NULL
    ELSE Rounded(100 * (current.num * previous.den - previous.num * current.den),
                 current.den * previous.den)

\* In percent of the earlier figure.
FormatDelta(current, previous) ==
    IF current = NULL \/ previous \in {NULL, 0} THEN NULL
    ELSE Rounded(100 * (current - previous), previous)

KpiRow(a) ==
    LET prior == IF a.previous = NULL
                 THEN [finished |-> NULL, rate |-> NULL, utilisation |-> NULL]
                 ELSE a.previous
    IN  [finished |-> [value |-> a.kpis.finished,
                       delta |-> FormatDelta(a.kpis.finished, prior.finished)],
         rate |-> [value |-> FormatRate(a.kpis.rate, a.kpis.finished),
                   delta |-> DeltaOfRates(a.kpis.rate, prior.rate)],
         busy |-> [value |-> FormatRate(a.kpis.utilisation, 0),
                   delta |-> DeltaOfRates(a.kpis.utilisation, prior.utilisation)]]

\* A stack of the outcomes that occur; the last bar is pale, for it still grows.
FinishedChart(a) ==
    [series |-> {s \in TerminalStatuses :
                    \E i \in DOMAIN a.buckets : a.buckets[i].counts[s] > 0},
     bars |-> [i \in DOMAIN a.buckets |->
                  [counts |-> a.buckets[i].counts, pale |-> i = Len(a.buckets)]]]

TypeTable(a) ==
    [i \in DOMAIN a.byType |->
        [type |-> a.byType[i].type, finished |-> a.byType[i].finished,
         success |-> FormatRate(a.byType[i].rate, a.byType[i].finished),
         run |-> a.byType[i].runs, wait |-> a.byType[i].waits,
         pending |-> a.byType[i].pending]]

\* Without a finished job the screen has only its figures.
StatsScreen(a) ==
    IF a.kpis.finished = 0 THEN [kpis |-> KpiRow(a), chart |-> NULL]
    ELSE [kpis |-> KpiRow(a), chart |-> FinishedChart(a),
          errors |-> a.topErrors, types |-> TypeTable(a)]

-----------------------------------------------------------------------------
(* Invariants. *)

\* The chart misses no job that finished in the last buckets' time, shows none
\* twice and none that the figure above it leaves out: its bars together are
\* every job that finished in the window but in its oldest part, shorter than
\* one bucket (stats.py _stats_buckets).  A job may have finished after `now`.
BucketsCoverTheWindow ==
    \A now \in Nows :
        LET a == StatsForRange(now)
            screen == StatsScreen(a)
            total(s) == SumOf([i \in DOMAIN a.buckets |-> a.buckets[i].counts[s]])
            in(s, from, to) == Cardinality(FinishedIn(s, from, to))
        IN  /\ screen.chart # NULL =>
                   \A s \in TerminalStatuses :
                       /\ total(s) >= in(s, now - WindowMs + BucketMs, now + 1)
                       /\ total(s) <= in(s, now - WindowMs, clock + 1)
                       /\ total(s) > 0 <=> s \in screen.chart.series
            /\ screen.chart = NULL =>
                   \A s \in TerminalStatuses : in(s, now - WindowMs, now + 1) = 0
            /\ a.buckets[Len(a.buckets)].start \in (now - BucketMs + 1)..now

\* The figures are taken from two tables and still tell one story: each success
\* in the window has a run in the sample of its type, each failure an error in
\* the list of attempt errors, also when the job was reclaimed, replayed or
\* restored in between (stats.py _by_type, _top_errors).
RatesHaveTheirRuns ==
    \A now \in Nows, t \in Types :
        LET start == now - WindowMs
            types == ByType(start, now + 1)
            errors == TopErrors(start, now + 1)
            finished(s) == {j \in FinishedIn(s, start, now + 1) : jobs[j].type = t}
            ofType == {i \in DOMAIN errors : errors[i].of.type = t}
        IN  /\ \A j \in finished("success") :
                   \E i \in DOMAIN types : \E x \in types[i].runs : x[1] = j
            /\ Len(errors) < TopErrorsMax =>
                   SumOf([i \in ofType |-> errors[i].count])
                       >= Cardinality(finished("failed"))

=============================================================================
