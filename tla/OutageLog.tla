------------------------------- MODULE OutageLog -------------------------------
(***************************************************************************)
(* From a confirmed change to the incidents table: the goroutine that      *)
(* statemonitor.dispatch starts (handleTransition: mail, Discord, then     *)
(* OnTransition, which main sends to incidents.OnDown or OnRecovered), the *)
(* rows they write through incidentstore, the timer OnDown sets for the    *)
(* analysis, and a crash of the process with its restart.                  *)
(*                                                                         *)
(* Time is discrete, one unit for TimeUnit = 10 s of the code's constants; *)
(* a tick waits for what the code bounds by a context.                     *)
(***************************************************************************)
EXTENDS Baseline, Sequences

CONSTANTS
    BlipThreshold,  \* BlipThresholdSeconds
    AnalysisDelay,  \* analysisDelay
    HandlerLimit,   \* the context of handleTransition
    SaveLimit,      \* the context of saveState
    MinGap,         \* least time between two confirmed changes of a service
    HandlersFail,   \* the store call of a handler may fail
    MaxClock,       \* bound: time
    MaxCrashes      \* bound: crashes

ASSUME OutageLogAssumption ==
    /\ {BlipThreshold, AnalysisDelay, HandlerLimit, SaveLimit, MinGap, MaxClock,
        MaxCrashes} \subseteq Nat
    /\ HandlersFail \in BOOLEAN

VARIABLES
    clock,
    running,     \* the process is up and Start has loaded the baseline
    changedAt,   \* Transition.At of the last confirmed change of a service
    handlers,    \* running handleTransition goroutines
    incidents,   \* the table, by id
    timers,      \* pending time.AfterFunc timers: [id, due]
    analysing,   \* incidents enrich is at work on
    crashes,     \* crashes so far
    reversed,    \* history: services confirmed the other way since their last alert, or
                 \* anew after a Save that failed
    unsaved,     \* history: services whose last Save failed
    disturbed    \* history: services whose changes a fault lost or two handlers raced for

logVars == <<clock, running, changedAt, handlers, incidents, timers, analysing,
             crashes, reversed, unsaved, disturbed>>
vars == <<baseVars, logVars>>

Times == 0 .. MaxClock
Open == MaxClock + 1      \* resolved_at IS NULL
Never == MaxClock + 1     \* no change confirmed by this process yet
Ids == DOMAIN incidents
Handler == [key : Monitored, cur : Statuses, at : Times, born : Times]
Incident == [key : Monitored, started : Times, resolved : Times \union {Open},
             blip : BOOLEAN, verdict : BOOLEAN]

LogTypeOK ==
    /\ BaseTypeOK
    /\ clock \in Times
    /\ running \in BOOLEAN
    /\ changedAt \in [Monitored -> Times \union {Never}]
    /\ handlers \in SUBSET Handler
    /\ incidents \in Seq(Incident)
    /\ timers \in SUBSET [id : Ids, due : Nat]
    /\ analysing \in SUBSET Ids
    /\ crashes \in 0 .. MaxCrashes
    /\ reversed \in SUBSET Monitored
    /\ unsaved \in SUBSET Monitored
    /\ disturbed \in SUBSET Monitored

LogInit ==
    /\ BaseInit
    /\ clock = 0
    /\ running = FALSE
    /\ changedAt = [k \in Monitored |-> Never]
    /\ handlers = {}
    /\ incidents = <<>>
    /\ timers = {}
    /\ analysing = {}
    /\ crashes = 0
    /\ reversed = {}
    /\ unsaved = {}
    /\ disturbed = {}

-----------------------------------------------------------------------------
(* The process.                                                            *)

Boot ==
    /\ ~running
    /\ LoadBaseline
    /\ running' = TRUE
    /\ disturbed' = disturbed \union {k \in Monitored : confirmed'[k] # saved[k]}
    /\ UNCHANGED <<clock, changedAt, handlers, incidents, timers, analysing, crashes, reversed,
                   unsaved>>

\* The process dies at any point; Postgres keeps its rows, all else is lost.
Crash ==
    /\ running
    /\ crashes < MaxCrashes
    /\ crashes' = crashes + 1
    /\ running' = FALSE
    /\ confirmed' = [k \in Monitored |-> None]
    /\ stage' = "idle"
    /\ change' = NoChange
    /\ changedAt' = [k \in Monitored |-> Never]
    /\ handlers' = {}
    /\ timers' = {}
    /\ analysing' = {}
    /\ disturbed' = disturbed \union {h.key : h \in handlers}
                              \union (IF stage = "idle" THEN {} ELSE {change.key})
    /\ UNCHANGED <<saved, alerts, clock, incidents, reversed, unsaved>>

\* The evaluate loop confirms a change of k; At is the time of this step.
ConfirmChange(k, s) ==
    /\ running
    /\ confirmed[k] # s
    /\ changedAt[k] = Never \/ clock >= changedAt[k] + MinGap
    /\ Confirm(k, s)
    /\ changedAt' = [changedAt EXCEPT ![k] = clock]
    /\ reversed' = IF alerts[k].last # Health(s) \/ k \in unsaved
                   THEN reversed \union {k} ELSE reversed
    /\ unsaved' = unsaved \ {k}
    /\ UNCHANGED <<clock, running, handlers, incidents, timers, analysing, crashes, disturbed>>

SaveChange ==
    \/ SaveState /\ UNCHANGED logVars
    \/ /\ SaveFails
       /\ unsaved' = unsaved \union {change.key}
       /\ disturbed' = disturbed \union {change.key}
       /\ UNCHANGED <<clock, running, changedAt, handlers, incidents, timers, analysing,
                      crashes, reversed>>

\* dispatch starts the goroutine of an alerted change.
DispatchChange ==
    /\ Dispatch
    /\ handlers' =
         IF Alerting
         THEN handlers \union {[key |-> change.key, cur |-> change.cur,
                                at |-> changedAt[change.key], born |-> clock]}
         ELSE handlers
    /\ reversed' = IF Alerting THEN reversed \ {change.key} ELSE reversed
    /\ disturbed' =
         IF Alerting /\ \E h \in handlers : h.key = change.key
         THEN disturbed \union {change.key}
         ELSE disturbed
    /\ UNCHANGED <<clock, running, changedAt, incidents, timers, analysing, crashes, unsaved>>

-----------------------------------------------------------------------------
(* The store call at the end of handleTransition, at any time within its   *)
(* context: the mail and the Discord message come first and take what they *)
(* take, 10 s each at most.                                                *)

Ends(h) ==
    /\ h \in handlers
    /\ handlers' = handlers \ {h}
    /\ UNCHANGED <<baseVars, clock, running, changedAt, crashes, reversed, unsaved>>

\* Open inserts the row.
Opens(h) ==
    incidents' = Append(incidents,
        [key |-> h.key, started |-> h.at, resolved |-> Open,
         blip |-> FALSE, verdict |-> FALSE])

\* OnDown, with the analysis that is scheduled.
OnDown(h) ==
    /\ ~Healthy(h.cur)
    /\ Ends(h)
    /\ Opens(h)
    /\ timers' = timers \union {[id |-> Len(incidents) + 1, due |-> clock + AnalysisDelay]}
    /\ UNCHANGED <<analysing, disturbed>>

OpenRows(k) == {i \in Ids : incidents[i].key = k /\ incidents[i].resolved = Open}

\* ORDER BY started_at DESC LIMIT 1: of rows with one start, the statement may
\* take any.
Latest(rows) == {i \in rows : \A j \in rows : incidents[j].started <= incidents[i].started}

\* OnRecovered: Resolve closes the latest open row of the service, if any.  A
\* recovery that lies before the row's start counts as a blip too.
OnRecovered(h) ==
    /\ Healthy(h.cur)
    /\ Ends(h)
    /\ \/ OpenRows(h.key) = {} /\ UNCHANGED incidents
       \/ \E i \in Latest(OpenRows(h.key)) :
            incidents' = [incidents EXCEPT
                ![i].resolved = h.at,
                ![i].blip = h.at < incidents[i].started + BlipThreshold]
    /\ UNCHANGED <<timers, analysing, disturbed>>

\* The store call fails, for an error of the database or because the notifications
\* used the whole context up, and the error is logged: the row is not written, or
\* only its id does not come back and nothing is scheduled for it.
StoreCallFails(h) ==
    /\ HandlersFail
    /\ Ends(h)
    /\ \/ UNCHANGED incidents
       \/ ~Healthy(h.cur) /\ Opens(h)
    /\ disturbed' = disturbed \union {h.key}
    /\ UNCHANGED <<timers, analysing>>

-----------------------------------------------------------------------------
(* The analysis, AnalysisDelay after the row was opened.                   *)

\* Mutant: the timer does not look whether the outage is over.
TimerFires_NoCheck(t) ==
    /\ t \in timers
    /\ clock >= t.due
    /\ timers' = timers \ {t}
    /\ analysing' = analysing \union {t.id}
    /\ UNCHANGED <<baseVars, clock, running, changedAt, handlers, incidents, crashes, reversed,
                   unsaved, disturbed>>

\* Get, and the check whether the outage is over; nothing follows when it is, or
\* when Get fails.
TimerFires(t) ==
    /\ t \in timers
    /\ clock >= t.due
    /\ timers' = timers \ {t}
    /\ \/ incidents[t.id].resolved = Open /\ analysing' = analysing \union {t.id}
       \/ UNCHANGED analysing
    /\ UNCHANGED <<baseVars, clock, running, changedAt, handlers, incidents, crashes, reversed,
                   unsaved, disturbed>>

\* enrich ends, with a verdict or without.
AnalysisEnds(i) ==
    /\ i \in analysing
    /\ analysing' = analysing \ {i}
    /\ \/ incidents' = [incidents EXCEPT ![i].verdict = TRUE]
       \/ UNCHANGED incidents
    /\ UNCHANGED <<baseVars, clock, running, changedAt, handlers, timers, crashes, reversed,
                   unsaved, disturbed>>

-----------------------------------------------------------------------------
\* No context has run out: neither saveState's nor a handler's.
InTime ==
    /\ stage # "dispatching"
    /\ stage = "saving" => clock < changedAt[change.key] + SaveLimit
    /\ \A h \in handlers : clock < h.born + HandlerLimit

Tick ==
    /\ clock < MaxClock
    /\ InTime
    /\ clock' = clock + 1
    /\ UNCHANGED <<baseVars, running, changedAt, handlers, incidents, timers, analysing,
                   crashes, reversed, unsaved, disturbed>>

\* The bound on time is reached and nothing is under way.
TimeIsUp ==
    /\ clock = MaxClock
    /\ running
    /\ stage = "idle"
    /\ handlers = {}
    /\ analysing = {}
    /\ UNCHANGED vars

LogNext ==
    \/ Boot
    \/ Crash
    \/ \E k \in Monitored, s \in Statuses : ConfirmChange(k, s)
    \/ SaveChange
    \/ DispatchChange
    \/ \E h \in handlers : OnDown(h) \/ OnRecovered(h) \/ StoreCallFails(h)
    \/ \E t \in timers : TimerFires(t)
    \/ \E i \in analysing : AnalysisEnds(i)
    \/ Tick
    \/ TimeIsUp

LogSpec == LogInit /\ [][LogNext]_vars

-----------------------------------------------------------------------------
(* Properties.                                                             *)

\* An outage filed as a blip never carries a verdict of the scheduled analysis:
\* a recovery within BlipThreshold has reached the table, through saveState and
\* the notifications, before the timer of the same row looks at it.  Four
\* constants in three packages have to agree for this.
NoVerdictOnBlip == \A i \in Ids : incidents[i].blip => ~incidents[i].verdict

\* What servicestate is for: a restart, wherever it hits, does not fire an alert
\* again.  Two alerts in a row of one service tell the same health only if the
\* other one was confirmed in between (and its alert died with the process), or if
\* the Save of the change before failed.
NoRefire ==
    [][\A k \in Monitored :
         alerts'[k].sent # alerts[k].sent /\ alerts'[k].last = alerts[k].last
             => k \in reversed]_vars

Settled == running /\ stage = "idle" /\ handlers = {}

\* Once the handlers are through, the table tells what the alerts have told: a
\* service whose last alert is "down" has exactly one open row, any other none.
\* Excused are the services one of whose changes was lost (with the process, with a
\* baseline that could not be saved or loaded, with a store call that failed) or had
\* its handler raced by the next one's: crashes that hit nothing under way, and
\* everything else, leave the table in step.
LogSettles ==
    Settled => \A k \in Monitored \ disturbed :
        /\ OpenRows(k) # {} <=> alerts[k].last = "down"
        /\ \A i, j \in OpenRows(k) : i = j

\* The comment on Incident: the Resolved fields are zero while the outage is
\* ongoing, that is, while the change that opened it is the last one confirmed.
OngoingIsUnresolved ==
    \A i \in Ids :
        LET k == incidents[i].key IN
        running /\ incidents[i].started = changedAt[k] /\ ~Healthy(confirmed[k])
            => incidents[i].resolved = Open

=============================================================================
