-------------------------- MODULE MCDaemonStartup ---------------------------
(* Small instances of DaemonStartup for TLC.                               *)
EXTENDS DaemonStartup, TLC

Symmetry == Permutations(Clients) \cup Permutations(Daemons)
=============================================================================
