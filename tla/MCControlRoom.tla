-------------------------- MODULE MCControlRoom --------------------------
(* A small Jobs screen over jobs in every stage. *)
EXTENDS ControlRoom, TLC

\* Nothing depends on which slot a request is in.
SlotSymmetry == Permutations(Slots)

=============================================================================
