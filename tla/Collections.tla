----------------------------- MODULE Collections -----------------------------
(***************************************************************************)
(* The sorted lists and the sums of the screens.  Neither is recursive, so *)
(* that proofs can use them: TLC!SortSeq wants elements of which none are  *)
(* equal in the order, and a fold is a recursive function.                 *)
(***************************************************************************)
EXTENDS Integers, FiniteSets

\* A list of the elements of S in which no element stands after one that it
\* comes before.  Elements of which neither comes before the other may stand
\* either way, as rows do that ORDER BY does not tell apart.
Sorted(S, Before(_, _)) ==
    CHOOSE s \in [1..Cardinality(S) -> S] :
        \A i, j \in 1..Cardinality(S) :
            i < j => s[i] # s[j] /\ ~Before(s[j], s[i])

\* The sum of a function to Nat: a pair for each unit.
SumOf(f) == Cardinality(UNION {{x} \X (1..f[x]) : x \in DOMAIN f})

=============================================================================
