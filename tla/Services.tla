------------------------------- MODULE Services -------------------------------
(* The services (internal/services) and the statuses a check reports.        *)

CONSTANTS
    Keys,       \* keys the status cache checks (URLByKey)
    Monitored,  \* keys of services.Monitored: the notice board is not one
    Statuses,   \* raw statuses: "ok", "error", "timeout"
    None        \* no status known

ASSUME ServicesAssumption ==
    /\ Monitored \subseteq Keys
    /\ "ok" \in Statuses
    /\ None \notin Statuses

\* healthy collapses the raw status into up or down.
Healthy(s) == s = "ok"

=============================================================================
