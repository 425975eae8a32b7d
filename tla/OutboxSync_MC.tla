---------------------------- MODULE OutboxSync_MC ----------------------------
(* Instances of OutboxSync for TLC. *)
EXTENDS OutboxSync, TLC

CONSTANTS s1, s2, f1, f2

Symmetry == Permutations(Flushers) \cup Permutations(Owners)
=============================================================================
