-------------------------- MODULE TranscriptScan_MC --------------------------
(* Instances of TranscriptScan for TLC. *)
EXTENDS TranscriptScan, TLC

CONSTANTS s1, s2, p1, p2

Symmetry == Permutations(Sessions) \cup Permutations(Scanners)
=============================================================================
