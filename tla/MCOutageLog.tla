------------------------------ MODULE MCOutageLog ------------------------------
(* Time in units of 10 s, one service that is up or down.                      *)
EXTENDS OutageLog

MCUpDown == {"ok", "error"}
=============================================================================
