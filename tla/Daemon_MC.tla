------------------------------ MODULE Daemon_MC ------------------------------
(* Instances of Daemon for TLC. *)
EXTENDS Daemon, TLC

CONSTANTS c1, c2, c3, w1, w2
=============================================================================
