----------------------------- MODULE CoreLoop_MC -----------------------------
(* An instance of CoreLoop for TLC. *)
EXTENDS CoreLoop, TLC

CONSTANTS p1, p2

Symmetry == Permutations(Runners)

CaseRule == {[terms |-> {"tool"}, action |-> "case"]}
=============================================================================
