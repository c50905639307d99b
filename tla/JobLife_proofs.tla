--------------------------- MODULE JobLife_proofs ---------------------------
(***************************************************************************)
(* What follows from the promise of JobLife alone, for every set of jobs   *)
(* and any number of runs.  JobStoreLife_proofs carries it over to the     *)
(* store.                                                                  *)
(***************************************************************************)
EXTENDS JobLife, TLAPS

\* LifeInv of one job.
LifeOK(l) ==
    /\ l.status = "running" <=> l.claim = "held"
    /\ l.claim = "lost" => l.status \in {"pending", "failed"}
    /\ l.status = "success" => l.result > 0
    /\ l.keeps => l.status \in {"pending", "running", "success"}
                  /\ l.result > 0
    /\ l.result <= l.run
    /\ l.claim # "over" => l.run > 0

\* A job not created yet, or purged, has no run and no result.
LEMMA UnbornOK ==
    /\ Unborn \in Lives
    /\ LifeOK(Unborn)
    /\ LifeOK([Unborn EXCEPT !.status = "pending"])
    /\ LifeOK([Unborn EXCEPT !.status = "deleted"])
  BY DEF Unborn, Lives, JobStates, LifeOK

\* A run that ends without success leaves the job waiting, failed or with the
\* success that it keeps.
LEMMA UnsuccessfulOK ==
    ASSUME NEW l \in Lives, LifeOK(l), l.claim # "over",
           NEW claim \in {"lost", "over"}, NEW m \in Unsuccessful(l, claim)
    PROVE  LifeOK(m)
<1>1. /\ l.run \in Nat /\ l.run > 0 /\ l.result \in Nat /\ l.result <= l.run
      /\ l.keeps => l.result > 0
  BY DEF Lives, LifeOK
<1>2. CASE l.keeps
  <2>1. m = [l EXCEPT !.status = "success", !.claim = "over"]
    BY <1>2 DEF Unsuccessful
  <2>2. /\ m.status = "success" /\ m.claim = "over" /\ m.run = l.run
        /\ m.result = l.result
    BY <2>1 DEF Lives
  <2> QED
    BY <1>1, <1>2, <2>2 DEF LifeOK
<1>3. CASE ~l.keeps
  <2>1. PICK r \in Kept(l), status \in {"pending", "failed"} :
           m = [l EXCEPT !.status = status, !.claim = claim, !.result = r]
    BY <1>3 DEF Unsuccessful, Kept
  <2>2. /\ m.status = status /\ m.claim = claim /\ m.result = r
        /\ m.run = l.run /\ ~m.keeps
    BY <1>3, <2>1 DEF Lives
  <2>3. r \in Nat /\ r <= l.run
    BY <1>1, <2>1 DEF Kept
  <2> QED
    BY <1>1, <2>2, <2>3 DEF LifeOK
<1> QED
  BY <1>2, <1>3

\* Every step of a job keeps LifeOK.
LEMMA LifeStepOK ==
    ASSUME NEW l \in Lives, NEW m \in Lives, LifeOK(l), LifeStep(l, m)
    PROVE  LifeOK(m)
<1>1. CASE Create(l, m)
  BY <1>1, UnbornOK DEF Create
<1>2. CASE Begin(l, m)
  BY <1>2 DEF Begin, Lives, LifeOK
<1>3. CASE Continue(l, m)
  <2>1. PICK r \in Kept(l) : m = [l EXCEPT !.status = "running",
                                           !.claim = "held", !.result = r]
    BY <1>3 DEF Continue
  <2>2. /\ l.run \in Nat /\ l.run > 0 /\ l.result \in Nat /\ l.result <= l.run
        /\ l.keeps => l.result > 0
    BY <1>3 DEF Continue, Lives, LifeOK
  <2>3. r \in Nat /\ r <= l.run /\ (l.keeps => r = l.result)
    BY <2>2 DEF Kept
  <2>4. /\ m.status = "running" /\ m.claim = "held" /\ m.result = r
        /\ m.run = l.run /\ (m.keeps <=> l.keeps)
    BY <2>1 DEF Lives
  <2> QED
    BY <2>2, <2>3, <2>4 DEF LifeOK
<1>4. CASE Lapse(l, m)
  BY <1>4, UnsuccessfulOK DEF Lapse
<1>5. CASE Fall(l, m)
  BY <1>5, UnsuccessfulOK DEF Fall
<1>6. CASE Release(l, m)
  BY <1>6 DEF Release, Lives, LifeOK
<1>7. CASE Succeed(l, m)
  BY <1>7 DEF Succeed, Lives, LifeOK
<1>8. CASE Cancel(l, m)
  BY <1>8 DEF Cancel, Lives, LifeOK
<1>9. CASE Retry(l, m)
  BY <1>9 DEF Retry, Lives, LifeOK
<1>10. CASE Replay(l, m)
  BY <1>10 DEF Replay, Lives, LifeOK
<1>11. CASE Vanish(l, m)
  BY <1>11, UnbornOK DEF Vanish
<1> QED
  BY <1>1, <1>2, <1>3, <1>4, <1>5, <1>6, <1>7, <1>8, <1>9, <1>10, <1>11
     DEF LifeStep

\* No job has a life but those of its type, and each is in order.
LifeIInv == LifeTypeOK /\ LifeInv

LEMMA LifeNextOK == LifeIInv /\ [LifeNext]_life => LifeIInv'
<1> SUFFICES ASSUME LifeIInv, [LifeNext]_life
             PROVE  LifeIInv'
  OBVIOUS
<1>1. \A j \in Jobs : life[j] \in Lives /\ LifeOK(life[j])
  BY DEF LifeIInv, LifeTypeOK, LifeInv, LifeOK
<1>2. CASE LifeNext
  <2>1. \A j \in Jobs : life'[j] \in Lives /\ LifeOK(life'[j])
    BY <1>1, <1>2, LifeStepOK DEF LifeNext
  <2> QED
    BY <1>2, <2>1 DEF LifeNext, LifeIInv, LifeTypeOK, LifeInv, LifeOK
<1>3. CASE UNCHANGED life
  BY <1>3 DEF LifeIInv, LifeTypeOK, LifeInv
<1> QED
  BY <1>2, <1>3

\* A job runs exactly while a worker holds it, and a success, or a replay that
\* keeps one, has the result of one of its runs.
THEOREM LifeInvariant == LifeSpec => []LifeInv
<1>1. LifeInit => LifeIInv
  BY UnbornOK DEF LifeInit, LifeIInv, LifeTypeOK, LifeInv, LifeOK
<1>2. LifeIInv => LifeInv
  BY DEF LifeIInv
<1> QED
  BY <1>1, <1>2, LifeNextOK, PTL DEF LifeSpec

\* Only a new claim gives a worker a job whose last run is over.
LEMMA OverStaysOver ==
    ASSUME NEW l \in Lives, NEW m, LifeStep(l, m), l.claim = "over",
           m.run = l.run
    PROVE  m.claim = "over"
<1>1. CASE Begin(l, m)
  BY <1>1 DEF Begin, Lives
<1>2. CASE Create(l, m) \/ Vanish(l, m)
  BY <1>2 DEF Create, Vanish, Unborn
<1>3. CASE Cancel(l, m) \/ Retry(l, m) \/ Replay(l, m)
  BY <1>3 DEF Cancel, Retry, Replay, Lives
<1> QED
  BY <1>1, <1>2, <1>3
     DEF LifeStep, Continue, Lapse, Fall, Release, Succeed

\* A run that is over stays over.
THEOREM OldRunsStayOver == LifeSpec => OverIsOver
<1>1. LifeIInv /\ [LifeNext]_life =>
         [\A j \in Jobs :
             life[j].claim = "over" /\ life'[j].run = life[j].run
             => life'[j].claim = "over"]_life
  <2> SUFFICES ASSUME LifeIInv, LifeNext, NEW j \in Jobs,
                      life[j].claim = "over", life'[j].run = life[j].run
               PROVE  life'[j].claim = "over"
    OBVIOUS
  <2> QED
    BY OverStaysOver DEF LifeIInv, LifeTypeOK, LifeNext
<1>2. LifeInit => LifeIInv
  BY UnbornOK DEF LifeInit, LifeIInv, LifeTypeOK, LifeInv, LifeOK
<1> QED
  BY <1>1, <1>2, LifeNextOK, PTL DEF LifeSpec, OverIsOver

=============================================================================
