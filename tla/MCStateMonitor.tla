---------------------------- MODULE MCStateMonitor ----------------------------
(* One monitored site and the notice board, so that a snapshot can be torn. *)
EXTENDS StateMonitor

MCAllStatuses == {"ok", "error", "timeout"}
MCUpDown == {"ok", "error"}
=============================================================================
