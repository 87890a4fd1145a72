---------------------------- MODULE MCStatusStream ----------------------------
(* The properties tell results apart by cycle only, so one status will do.   *)
EXTENDS StatusStream

MCOneStatus == {"ok"}
=============================================================================
