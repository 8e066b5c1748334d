--------------------------- MODULE MCLiveScheduler ---------------------------
(* Model-checking instance of LiveScheduler: one folder, a few events of   *)
(* the developer, any timing of timers, processes and the daemon.          *)
EXTENDS LiveScheduler
==============================================================================
