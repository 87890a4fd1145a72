------------------------------- MODULE Baseline -------------------------------
(***************************************************************************)
(* The monitor's baseline (internal/statemonitor with internal/            *)
(* servicestate): the confirmed status of each service in memory, its copy *)
(* in Postgres, and the three things the confirmation of a change does in  *)
(* this order: set the memory, save the row, dispatch the alert.           *)
(* When a change is confirmed is left to the module that uses this one.    *)
(***************************************************************************)
EXTENDS Naturals, Services

CONSTANT BaselineFaults  \* which calls of servicestate may fail

ASSUME BaselineFaultsAssumption == BaselineFaults \subseteq {"load", "save"}

VARIABLES
    confirmed,  \* Monitor.confirmed; None is known = false
    saved,      \* service_status; None is no row
    stage,      \* where the confirmation in hand is
    change,     \* the change in hand: [key, prev, cur]
    alerts      \* history: how many alerts of each service, and the last one

baseVars == <<confirmed, saved, stage, change, alerts>>

NoChange == [key |-> None, prev |-> None, cur |-> None]
Health(s) == IF Healthy(s) THEN "up" ELSE "down"
Known(s) == s # None

BaseTypeOK ==
    /\ confirmed \in [Monitored -> Statuses \union {None}]
    /\ saved \in [Monitored -> Statuses \union {None}]
    /\ stage \in {"idle", "saving", "dispatching"}
    /\ stage # "idle" =>
         change \in [key : Monitored, prev : Statuses \union {None}, cur : Statuses]
    /\ alerts \in [Monitored -> [sent : Nat, last : {"none", "up", "down"}]]

\* The process may find any row an earlier one has left.
BaseInit ==
    /\ confirmed = [k \in Monitored |-> None]
    /\ saved \in [Monitored -> Statuses \union {None}]
    /\ stage = "idle"
    /\ change = NoChange
    /\ alerts = [k \in Monitored |-> [sent |-> 0, last |-> "none"]]

\* Start seeds the baseline from Load; when Load fails it starts empty.
LoadBaseline ==
    /\ \/ confirmed' = saved
       \/ "load" \in BaselineFaults /\ confirmed' = [k \in Monitored |-> None]
    /\ UNCHANGED <<saved, stage, change, alerts>>

\* evaluate: a change of k to s is confirmed.
Confirm(k, s) ==
    /\ stage = "idle"
    /\ confirmed' = [confirmed EXCEPT ![k] = s]
    /\ change' = [key |-> k, prev |-> confirmed[k], cur |-> s]
    /\ stage' = "saving"
    /\ UNCHANGED <<saved, alerts>>

\* Mutant: the row keeps the status before the change.
SaveState_Previous ==
    /\ stage = "saving"
    /\ saved' = [saved EXCEPT ![change.key] = change.prev]
    /\ stage' = "dispatching"
    /\ UNCHANGED <<confirmed, change, alerts>>

\* saveState: the upsert.
SaveState ==
    /\ stage = "saving"
    /\ saved' = [saved EXCEPT ![change.key] = change.cur]
    /\ stage' = "dispatching"
    /\ UNCHANGED <<confirmed, change, alerts>>

\* Its error (no database, 10 s over) is only logged.
SaveFails ==
    /\ "save" \in BaselineFaults
    /\ stage = "saving"
    /\ stage' = "dispatching"
    /\ UNCHANGED <<confirmed, saved, change, alerts>>

\* Mutant: every confirmed change alerts, error to timeout too.
Alerting_Any == Known(change.prev)

\* Mutant: only an outage is alerted about.
Alerting_DownOnly == Known(change.prev) /\ ~Healthy(change.cur)

\* Only a known service whose health flips is alerted about.
Alerting == Known(change.prev) /\ Healthy(change.prev) # Healthy(change.cur)

\* The end of the confirmation: dispatch, if the change is one to alert about.
Dispatch ==
    /\ stage = "dispatching"
    /\ alerts' =
         IF Alerting
         THEN [alerts EXCEPT ![change.key] =
                 [sent |-> @.sent + 1, last |-> Health(change.cur)]]
         ELSE alerts
    /\ stage' = "idle"
    /\ change' = NoChange
    /\ UNCHANGED <<confirmed, saved>>

-----------------------------------------------------------------------------
\* The last alert of a service tells the health its baseline has, except
\* between the confirmation of a change and its dispatch.
AlertTellsBaseline ==
    \A k \in Monitored :
        alerts[k].last # "none" /\ (stage = "idle" \/ change.key # k) =>
            Known(confirmed[k]) /\ alerts[k].last = Health(confirmed[k])

\* Down and recovery alternate: no two alerts in a row of one service tell the
\* same health (an outage that goes from error to timeout is alerted once).
AlertsAlternate ==
    [][\A k \in Monitored :
         alerts'[k].sent # alerts[k].sent => alerts'[k].last # alerts[k].last]_baseVars

=============================================================================
