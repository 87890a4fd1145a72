---------------------------- MODULE OutageLogProofs ----------------------------
(* The log of outages, for any services, limits and bounds; and, at the end,  *)
(* what the dialog over the log tells of a check, for any site, and what the  *)
(* scorecard makes of the history, for any.                                   *)
EXTENDS OutageLog, Scorecard, Induction, SequenceTheorems

\* How far behind the clock a change may be until its handler starts, and the
\* handler until it ends.
LateInv ==
    /\ stage # "idle" =>
         /\ changedAt[change.key] \in Times
         /\ changedAt[change.key] <= clock
         /\ clock <= changedAt[change.key] + SaveLimit
    /\ \A h \in handlers :
         /\ h.at <= h.born /\ h.born <= clock
         /\ h.born <= h.at + SaveLimit
         /\ clock <= h.born + HandlerLimit

\* No timer is early, so a row under analysis, or with a verdict, is old.
OldInv ==
    /\ \A t \in timers : t.due >= incidents[t.id].started + AnalysisDelay
    /\ \A i \in Ids :
         i \in analysing \/ incidents[i].verdict =>
             clock >= incidents[i].started + AnalysisDelay

LogInv == LogTypeOK /\ LateInv /\ OldInv

LEMMA Bounds ==
  /\ BlipThreshold \in Nat /\ AnalysisDelay \in Nat /\ HandlerLimit \in Nat
  /\ SaveLimit \in Nat /\ MinGap \in Nat /\ MaxClock \in Nat /\ MaxCrashes \in Nat
  /\ Times \subseteq Nat /\ Open \notin Times
  BY OutageLogAssumption DEF Times, Open

\* Writing to one row leaves the table a table, with the same ids.
LEMMA RowWritten ==
  ASSUME NEW table \in Seq(Incident), NEW i, NEW row,
         i \in DOMAIN table => row \in Incident
  PROVE  /\ [table EXCEPT ![i] = row] \in Seq(Incident)
         /\ DOMAIN [table EXCEPT ![i] = row] = DOMAIN table
         /\ \A j \in DOMAIN table :
              [table EXCEPT ![i] = row][j] = IF j = i THEN row ELSE table[j]
<1>1. CASE i \in DOMAIN table
  BY <1>1, ExceptSeq
<1>2. CASE i \notin DOMAIN table
  <2>1. [table EXCEPT ![i] = row] = table
    BY <1>2
  <2> QED
    BY <1>2, <2>1
<1> QED
  BY <1>1, <1>2

\* A new row comes after the others and leaves them as they are.
LEMMA RowAppended ==
  ASSUME NEW table \in Seq(Incident), NEW row \in Incident
  PROVE  /\ Append(table, row) \in Seq(Incident)
         /\ Len(table) \in Nat
         /\ DOMAIN Append(table, row) = DOMAIN table \union {Len(table) + 1}
         /\ Len(table) + 1 \notin DOMAIN table
         /\ \A j \in DOMAIN table : Append(table, row)[j] = table[j]
         /\ Append(table, row)[Len(table) + 1] = row
  BY AppendProperties, LenProperties

\* What the types say of the numbers in a row and in a handler.
LEMMA RowNumbers ==
  ASSUME LogTypeOK, NEW i \in Ids
  PROVE  incidents[i] \in Incident /\ incidents[i].started \in Nat
<1>1. incidents[i] \in Incident
  BY ElementOfSeq, LenProperties DEF LogTypeOK, Ids
<1>2. incidents[i].started \in Times
  BY <1>1 DEF Incident
<1> QED
  BY <1>1, <1>2, Bounds

LEMMA HandlerNumbers ==
  ASSUME LogTypeOK, NEW h \in handlers
  PROVE  h.at \in Nat /\ h.born \in Nat /\ clock \in Nat
<1>1. h.at \in Times /\ h.born \in Times /\ clock \in Times
  BY DEF LogTypeOK, Handler
<1> QED
  BY <1>1, Bounds

LEMMA LogInitInv == LogInit => LogInv
<1> SUFFICES ASSUME LogInit PROVE LogInv
  OBVIOUS
<1>1. BaseTypeOK
  BY DEF LogInit, BaseInit, BaseTypeOK
<1>2. LogTypeOK
  <2>1. incidents \in Seq(Incident)
    BY EmptySeq DEF LogInit
  <2>2. clock \in Times /\ crashes \in 0 .. MaxCrashes
    BY Bounds DEF LogInit, Times
  <2> QED
    BY <1>1, <2>1, <2>2 DEF LogInit, LogTypeOK
<1>3. LateInv /\ OldInv
  BY DEF LogInit, BaseInit, LateInv, OldInv, Ids
<1> QED
  BY <1>2, <1>3 DEF LogInv

LEMMA LogStutterInv == LogInv /\ UNCHANGED vars => LogInv'
  BY DEF LogInv, vars, baseVars, logVars, LogTypeOK, BaseTypeOK, LateInv, OldInv, Ids

-----------------------------------------------------------------------------
(* The process and its loop.                                                  *)

LEMMA BootInv == LogInv /\ Boot => LogInv'
<1> SUFFICES ASSUME LogInv, Boot PROVE LogInv'
  OBVIOUS
<1>1. LogTypeOK'
  BY DEF LogInv, LogTypeOK, BaseTypeOK, Boot, LoadBaseline, Ids
<1>2. LateInv' /\ OldInv'
  BY DEF LogInv, LateInv, OldInv, Boot, LoadBaseline, Ids
<1> QED
  BY <1>1, <1>2 DEF LogInv

LEMMA CrashInv == LogInv /\ Crash => LogInv'
<1> SUFFICES ASSUME LogInv, Crash PROVE LogInv'
  OBVIOUS
<1>1. BaseTypeOK'
  BY DEF LogInv, LogTypeOK, BaseTypeOK, Crash
<1>2. disturbed' \in SUBSET Monitored
  BY DEF LogInv, LogTypeOK, BaseTypeOK, Handler, Crash
<1>3. crashes' \in 0 .. MaxCrashes
  BY Bounds DEF LogInv, LogTypeOK, Crash
<1>4. LogTypeOK'
  BY <1>1, <1>2, <1>3 DEF LogInv, LogTypeOK, Crash, Ids
<1>5. LateInv' /\ OldInv'
  BY DEF LogInv, LateInv, OldInv, Crash, Ids
<1> QED
  BY <1>4, <1>5 DEF LogInv

LEMMA ConfirmInv ==
  ASSUME LogInv, NEW k \in Monitored, NEW s \in Statuses, ConfirmChange(k, s)
  PROVE  LogInv'
<1>1. BaseTypeOK'
  BY DEF LogInv, LogTypeOK, BaseTypeOK, ConfirmChange, Confirm
<1>2. LogTypeOK'
  BY <1>1 DEF LogInv, LogTypeOK, ConfirmChange, Ids
<1>3. change'.key = k /\ changedAt'[k] = clock /\ clock \in Times
  BY DEF LogInv, LogTypeOK, ConfirmChange, Confirm
<1>4. LateInv'
  BY <1>3, Bounds DEF LogInv, LateInv, ConfirmChange
<1>5. OldInv'
  BY DEF LogInv, OldInv, ConfirmChange, Ids
<1> QED
  BY <1>2, <1>4, <1>5 DEF LogInv

LEMMA SaveInv == LogInv /\ SaveChange => LogInv'
<1> SUFFICES ASSUME LogInv, SaveChange PROVE LogInv'
  OBVIOUS
<1>1. BaseTypeOK'
  BY DEF LogInv, LogTypeOK, BaseTypeOK, SaveChange, SaveState, SaveFails
<1>2. LogTypeOK'
  <2>1. unsaved' \in SUBSET Monitored /\ disturbed' \in SUBSET Monitored
    BY DEF LogInv, LogTypeOK, BaseTypeOK, SaveChange, SaveFails, logVars
  <2> QED
    BY <1>1, <2>1 DEF LogInv, LogTypeOK, SaveChange, logVars, Ids
<1>3. LateInv' /\ OldInv'
  BY DEF LogInv, LateInv, OldInv, SaveChange, SaveState, SaveFails, logVars, Ids
<1> QED
  BY <1>2, <1>3 DEF LogInv

\* The handler that dispatch starts is as late as its change.
LEMMA DispatchInv == LogInv /\ DispatchChange => LogInv'
<1> SUFFICES ASSUME LogInv, DispatchChange PROVE LogInv'
  OBVIOUS
<1> DEFINE new == [key |-> change.key, cur |-> change.cur, at |-> changedAt[change.key],
                   born |-> clock]
<1>1. /\ stage = "dispatching" /\ clock \in Times
      /\ change \in [key : Monitored, prev : Statuses \union {None}, cur : Statuses]
  BY DEF LogInv, LogTypeOK, BaseTypeOK, DispatchChange, Dispatch
<1>2. /\ new \in Handler
      /\ new.at <= new.born /\ new.born = clock /\ new.born <= new.at + SaveLimit
  BY <1>1 DEF LogInv, LateInv, Handler
<1>3. handlers' \subseteq handlers \union {new} /\ stage' = "idle" /\ clock' = clock
  BY DEF DispatchChange, Dispatch
<1>4. BaseTypeOK'
  <2>1. alerts' \in [Monitored -> [sent : Nat, last : {"none", "up", "down"}]]
    BY <1>1 DEF LogInv, LogTypeOK, BaseTypeOK, DispatchChange, Dispatch, Health
  <2> QED
    BY <2>1 DEF LogInv, LogTypeOK, BaseTypeOK, DispatchChange, Dispatch
<1>5. reversed' \in SUBSET Monitored /\ disturbed' \in SUBSET Monitored
  BY <1>1 DEF LogInv, LogTypeOK, DispatchChange
<1>6. LogTypeOK'
  BY <1>2, <1>3, <1>4, <1>5 DEF LogInv, LogTypeOK, DispatchChange, Ids
<1>7. LateInv'
  BY <1>1, <1>2, <1>3, Bounds DEF LogInv, LateInv
<1>8. OldInv'
  BY DEF LogInv, OldInv, DispatchChange, Ids
<1> QED
  BY <1>6, <1>7, <1>8 DEF LogInv

-----------------------------------------------------------------------------
(* What the handlers and the analysis write to the table.                     *)

LEMMA OpensRows ==
  ASSUME LogTypeOK, NEW h \in handlers, Opens(h)
  PROVE  /\ incidents' \in Seq(Incident)
         /\ Len(incidents) \in Nat
         /\ Ids' = Ids \union {Len(incidents) + 1}
         /\ Len(incidents) + 1 \notin Ids
         /\ \A j \in Ids : incidents'[j] = incidents[j]
         /\ incidents'[Len(incidents) + 1].key = h.key
         /\ incidents'[Len(incidents) + 1].started = h.at
         /\ incidents'[Len(incidents) + 1].resolved = Open
         /\ incidents'[Len(incidents) + 1].blip = FALSE
         /\ incidents'[Len(incidents) + 1].verdict = FALSE
<1> DEFINE row == [key |-> h.key, started |-> h.at, resolved |-> Open,
                   blip |-> FALSE, verdict |-> FALSE]
<1>1. h \in Handler /\ row \in Incident /\ incidents \in Seq(Incident)
  BY Bounds DEF LogTypeOK, Handler, Incident
<1>2. incidents' = Append(incidents, row)
  BY DEF Opens
<1> HIDE DEF row
<1>3. /\ incidents' \in Seq(Incident)
      /\ Len(incidents) \in Nat
      /\ Ids' = Ids \union {Len(incidents) + 1}
      /\ Len(incidents) + 1 \notin Ids
      /\ \A j \in Ids : incidents'[j] = incidents[j]
      /\ incidents'[Len(incidents) + 1] = row
  BY <1>1, <1>2, RowAppended DEF Ids
<1> QED
  BY <1>3 DEF row

\* Row i is the one the recovery h closes.
Closes(h, i) ==
    /\ i \in OpenRows(h.key)
    /\ incidents' \in Seq(Incident)
    /\ Ids' = Ids
    /\ \A j \in Ids \ {i} : incidents'[j] = incidents[j]
    /\ incidents'[i] = [incidents[i] EXCEPT !.resolved = h.at,
                                           !.blip = h.at < incidents[i].started + BlipThreshold]
    /\ incidents'[i].key = incidents[i].key
    /\ incidents'[i].started = incidents[i].started
    /\ incidents'[i].verdict = incidents[i].verdict
    /\ incidents'[i].resolved = h.at
    /\ h.at # Open
    /\ incidents'[i].blip => h.at < incidents[i].started + BlipThreshold

LEMMA OnRecoveredRows ==
  ASSUME LogTypeOK, NEW h \in handlers, OnRecovered(h)
  PROVE  \/ OpenRows(h.key) = {} /\ incidents' = incidents
         \/ \E i \in Ids : Closes(h, i)
<1>1. CASE OpenRows(h.key) = {} /\ UNCHANGED incidents
  BY <1>1
<1>2. ASSUME NEW i \in Latest(OpenRows(h.key)),
             incidents' = [incidents EXCEPT
                 ![i].resolved = h.at,
                 ![i].blip = h.at < incidents[i].started + BlipThreshold]
      PROVE  \E j \in Ids : Closes(h, j)
  <2> DEFINE row == [incidents[i] EXCEPT !.resolved = h.at,
                                         !.blip = h.at < incidents[i].started + BlipThreshold]
  <2>1. i \in OpenRows(h.key) /\ i \in Ids
    BY DEF Latest, OpenRows
  <2>2. incidents \in Seq(Incident) /\ incidents[i] \in Incident
    BY <2>1, RowNumbers DEF LogTypeOK
  <2>3. h.at \in Times /\ (h.at < incidents[i].started + BlipThreshold) \in BOOLEAN
    BY DEF LogTypeOK, Handler
  <2>4. /\ row \in Incident
        /\ row.key = incidents[i].key
        /\ row.started = incidents[i].started /\ row.verdict = incidents[i].verdict
        /\ row.resolved = h.at
        /\ row.blip = (h.at < incidents[i].started + BlipThreshold)
    BY <2>2, <2>3 DEF Incident
  <2>5. incidents' = [incidents EXCEPT ![i] = row]
    BY <1>2
  <2>6. row = [incidents[i] EXCEPT !.resolved = h.at,
                                   !.blip = h.at < incidents[i].started + BlipThreshold]
    OBVIOUS
  <2> HIDE DEF row
  <2>7. /\ incidents' \in Seq(Incident)
        /\ Ids' = Ids
        /\ \A j \in Ids : incidents'[j] = IF j = i THEN row ELSE incidents[j]
    BY <2>2, <2>4, <2>5, RowWritten DEF Ids
  <2>8. incidents'[i] = row
    BY <2>1, <2>7
  <2>9. h.at # Open
    BY <2>3, Bounds
  <2> QED
    BY <2>1, <2>4, <2>6, <2>7, <2>8, <2>9 DEF Closes
<1> QED
  BY <1>1, <1>2 DEF OnRecovered

LEMMA AnalysisEndsRows ==
  ASSUME LogTypeOK, NEW i \in analysing, AnalysisEnds(i)
  PROVE  /\ i \in Ids
         /\ incidents' \in Seq(Incident)
         /\ Ids' = Ids
         /\ \A j \in Ids : /\ incidents'[j].key = incidents[j].key
                           /\ incidents'[j].started = incidents[j].started
                           /\ incidents'[j].resolved = incidents[j].resolved
                           /\ incidents'[j].blip = incidents[j].blip
                           /\ j # i => incidents'[j] = incidents[j]
<1> DEFINE row == [incidents[i] EXCEPT !.verdict = TRUE]
<1>1. i \in Ids /\ (incidents' = incidents \/ incidents' = [incidents EXCEPT ![i] = row])
  BY DEF LogTypeOK, AnalysisEnds
<1>2. CASE incidents' = incidents
  BY <1>1, <1>2 DEF LogTypeOK, Ids
<1>3. CASE incidents' = [incidents EXCEPT ![i] = row]
  <2>1. incidents \in Seq(Incident) /\ incidents[i] \in Incident
    BY <1>1, RowNumbers DEF LogTypeOK
  <2>2. /\ row \in Incident
        /\ row.started = incidents[i].started /\ row.blip = incidents[i].blip
        /\ row.key = incidents[i].key /\ row.resolved = incidents[i].resolved
    BY <2>1 DEF Incident
  <2> HIDE DEF row
  <2>3. /\ incidents' \in Seq(Incident)
        /\ Ids' = Ids
        /\ \A j \in Ids : incidents'[j] = IF j = i THEN row ELSE incidents[j]
    BY <1>3, <2>1, <2>2, RowWritten DEF Ids
  <2> QED
    BY <1>1, <2>2, <2>3
<1> QED
  BY <1>1, <1>2, <1>3

-----------------------------------------------------------------------------
(* The store calls of the handlers.                                           *)

LEMMA OnDownInv == ASSUME LogInv, NEW h \in handlers, OnDown(h) PROVE LogInv'
<1> DEFINE new == Len(incidents) + 1
           timer == [id |-> new, due |-> clock + AnalysisDelay]
<1>1. /\ timers' = timers \union {timer}
      /\ handlers' \subseteq handlers
      /\ UNCHANGED <<baseVars, clock, running, changedAt, crashes, reversed, unsaved,
                     analysing, disturbed>>
  BY DEF OnDown, Ends
<1>2. /\ incidents' \in Seq(Incident)
      /\ Ids' = Ids \union {new}
      /\ new \notin Ids
      /\ \A j \in Ids : incidents'[j] = incidents[j]
      /\ incidents'[new].started = h.at /\ ~incidents'[new].verdict
  BY OpensRows DEF OnDown, LogInv
<1>3. clock \in Nat /\ h.at \in Nat /\ h.at <= clock /\ AnalysisDelay \in Nat
  BY HandlerNumbers, Bounds DEF LogInv, LateInv
<1> HIDE DEF new
<1>4. timers' \in SUBSET [id : Ids', due : Nat]
  BY <1>1, <1>2, <1>3 DEF LogInv, LogTypeOK
<1>5. LogTypeOK'
  BY <1>1, <1>2, <1>4 DEF LogInv, LogTypeOK, BaseTypeOK, baseVars
<1>6. LateInv'
  BY <1>1 DEF LogInv, LateInv, baseVars
<1>7. new \notin analysing
  BY <1>2 DEF LogInv, LogTypeOK
<1>8. OldInv'
  <2>1. ASSUME NEW t \in timers' PROVE t.due >= incidents'[t.id].started + AnalysisDelay
    <3>1. CASE t \in timers
      BY <1>2, <3>1 DEF LogInv, LogTypeOK, OldInv
    <3>2. CASE t = timer
      BY <1>2, <1>3, <3>2
    <3> QED
      BY <1>1, <3>1, <3>2
  <2>2. ASSUME NEW i \in Ids', i \in analysing' \/ incidents'[i].verdict
        PROVE  clock' >= incidents'[i].started + AnalysisDelay
    <3>1. i \in Ids
      BY <1>1, <1>2, <1>7, <2>2
    <3> QED
      BY <1>1, <1>2, <2>2, <3>1 DEF LogInv, OldInv
  <2> QED
    BY <2>1, <2>2 DEF OldInv
<1> QED
  BY <1>5, <1>6, <1>8 DEF LogInv

LEMMA OnRecoveredInv == ASSUME LogInv, NEW h \in handlers, OnRecovered(h) PROVE LogInv'
<1>1. /\ handlers' \subseteq handlers
      /\ UNCHANGED <<baseVars, clock, running, changedAt, crashes, reversed, unsaved, timers,
                     analysing, disturbed>>
  BY DEF OnRecovered, Ends
<1>2. LateInv'
  BY <1>1 DEF LogInv, LateInv, baseVars
<1>3. CASE incidents' = incidents
  BY <1>1, <1>2, <1>3 DEF LogInv, LogTypeOK, BaseTypeOK, baseVars, OldInv, Ids
<1>4. ASSUME NEW i \in Ids, Closes(h, i) PROVE LogInv'
  <2>1. /\ incidents' \in Seq(Incident) /\ Ids' = Ids
        /\ \A j \in Ids : /\ incidents'[j].started = incidents[j].started
                          /\ incidents'[j].verdict = incidents[j].verdict
    BY <1>4 DEF Closes
  <2>2. LogTypeOK'
    BY <1>1, <2>1 DEF LogInv, LogTypeOK, BaseTypeOK, baseVars
  <2>3. OldInv'
    BY <1>1, <2>1 DEF LogInv, LogTypeOK, OldInv
  <2> QED
    BY <1>2, <2>2, <2>3 DEF LogInv
<1> QED
  BY <1>3, <1>4, OnRecoveredRows DEF LogInv

LEMMA StoreFailsInv == ASSUME LogInv, NEW h \in handlers, StoreCallFails(h) PROVE LogInv'
<1>1. /\ handlers' \subseteq handlers /\ disturbed' \in SUBSET Monitored
      /\ UNCHANGED <<baseVars, clock, running, changedAt, crashes, reversed, unsaved, timers,
                     analysing>>
  BY DEF LogInv, LogTypeOK, Handler, StoreCallFails, Ends
<1>2. LateInv'
  BY <1>1 DEF LogInv, LateInv, baseVars
<1>3. CASE incidents' = incidents
  BY <1>1, <1>2, <1>3 DEF LogInv, LogTypeOK, BaseTypeOK, baseVars, OldInv, Ids
<1>4. CASE Opens(h)
  <2>1. /\ incidents' \in Seq(Incident)
        /\ Ids \subseteq Ids'
        /\ \A j \in Ids : incidents'[j] = incidents[j]
        /\ \A j \in Ids' \ Ids : ~incidents'[j].verdict
    BY <1>4, OpensRows DEF LogInv
  <2>2. timers' \in SUBSET [id : Ids', due : Nat] /\ analysing' \in SUBSET Ids'
    BY <1>1, <2>1 DEF LogInv, LogTypeOK
  <2>3. LogTypeOK'
    BY <1>1, <2>1, <2>2 DEF LogInv, LogTypeOK, BaseTypeOK, baseVars
  <2>4. \A t \in timers : t.id \in Ids
    BY DEF LogInv, LogTypeOK
  <2>5. analysing \subseteq Ids
    BY DEF LogInv, LogTypeOK
  <2>6. OldInv'
    BY <1>1, <2>1, <2>4, <2>5 DEF LogInv, OldInv
  <2> QED
    BY <1>2, <2>3, <2>6 DEF LogInv
<1> QED
  BY <1>3, <1>4 DEF StoreCallFails

-----------------------------------------------------------------------------
(* The analysis, and time.                                                    *)

LEMMA TimerInv == ASSUME LogInv, NEW t \in timers, TimerFires(t) PROVE LogInv'
<1>1. /\ clock >= t.due /\ t.id \in Ids /\ t.due \in Nat /\ clock \in Nat
      /\ timers' \subseteq timers
      /\ UNCHANGED <<baseVars, clock, running, changedAt, handlers, incidents, crashes, reversed,
                     unsaved, disturbed>>
      /\ analysing' = analysing \/ (/\ incidents[t.id].resolved = Open
                                    /\ analysing' = analysing \union {t.id})
  BY Bounds DEF LogInv, LogTypeOK, TimerFires
<1>2. LogTypeOK'
  BY <1>1 DEF LogInv, LogTypeOK, BaseTypeOK, baseVars, Ids
<1>3. LateInv'
  BY <1>1 DEF LogInv, LateInv, baseVars
<1>4. incidents[t.id].started \in Nat
  BY <1>1, RowNumbers DEF LogInv
<1>5. clock >= incidents[t.id].started + AnalysisDelay
  BY <1>1, <1>4, Bounds DEF LogInv, OldInv
<1>6. OldInv'
  BY <1>1, <1>5 DEF LogInv, OldInv, Ids
<1> QED
  BY <1>2, <1>3, <1>6 DEF LogInv

LEMMA AnalysisEndsInv == ASSUME LogInv, NEW i \in analysing, AnalysisEnds(i) PROVE LogInv'
<1>1. /\ analysing' = analysing \ {i}
      /\ UNCHANGED <<baseVars, clock, running, changedAt, handlers, timers, crashes, reversed,
                     unsaved, disturbed>>
  BY DEF AnalysisEnds
<1>2. /\ i \in Ids /\ incidents' \in Seq(Incident) /\ Ids' = Ids
      /\ \A j \in Ids : /\ incidents'[j].started = incidents[j].started
                        /\ j # i => incidents'[j] = incidents[j]
  BY AnalysisEndsRows DEF LogInv
<1>3. LogTypeOK'
  BY <1>1, <1>2 DEF LogInv, LogTypeOK, BaseTypeOK, baseVars
<1>4. LateInv'
  BY <1>1 DEF LogInv, LateInv, baseVars
<1>5. OldInv'
  BY <1>1, <1>2 DEF LogInv, LogTypeOK, OldInv
<1> QED
  BY <1>3, <1>4, <1>5 DEF LogInv

\* Time waits for the contexts.
LEMMA TickInv == LogInv /\ Tick => LogInv'
<1> SUFFICES ASSUME LogInv, Tick PROVE LogInv'
  OBVIOUS
<1>1. /\ clock \in Nat /\ clock' = clock + 1 /\ clock' \in Times
      /\ InTime
      /\ UNCHANGED <<baseVars, running, changedAt, handlers, incidents, timers, analysing,
                     crashes, reversed, unsaved, disturbed>>
  BY Bounds DEF LogInv, LogTypeOK, Tick, Times
<1>2. LogTypeOK'
  BY <1>1 DEF LogInv, LogTypeOK, BaseTypeOK, baseVars, Ids
<1>3. LateInv'
  <2>1. stage # "idle" => /\ stage = "saving"
                         /\ changedAt[change.key] \in Nat
                         /\ clock < changedAt[change.key] + SaveLimit
    BY <1>1, Bounds DEF LogInv, LogTypeOK, BaseTypeOK, LateInv, InTime
  <2>2. \A h \in handlers : /\ h.at \in Nat /\ h.born \in Nat
                            /\ clock < h.born + HandlerLimit
    BY <1>1, Bounds DEF LogInv, LogTypeOK, Handler, InTime
  <2> QED
    BY <1>1, <2>1, <2>2, Bounds DEF LogInv, LateInv, baseVars
<1>4. \A i \in Ids : incidents[i].started \in Nat
  BY RowNumbers DEF LogInv
<1>5. OldInv'
  BY <1>1, <1>4, Bounds DEF LogInv, OldInv, Ids
<1> QED
  BY <1>2, <1>3, <1>5 DEF LogInv

-----------------------------------------------------------------------------
LEMMA LogInductive == LogInv /\ [LogNext]_vars => LogInv'
<1> SUFFICES ASSUME LogInv, [LogNext]_vars PROVE LogInv'
  OBVIOUS
<1>1. CASE Boot \/ Crash \/ SaveChange \/ DispatchChange \/ Tick
  BY <1>1, BootInv, CrashInv, SaveInv, DispatchInv, TickInv
<1>2. ASSUME NEW k \in Monitored, NEW s \in Statuses, ConfirmChange(k, s) PROVE LogInv'
  BY <1>2, ConfirmInv
<1>3. ASSUME NEW h \in handlers, OnDown(h) \/ OnRecovered(h) \/ StoreCallFails(h) PROVE LogInv'
  BY <1>3, OnDownInv, OnRecoveredInv, StoreFailsInv
<1>4. ASSUME NEW t \in timers, TimerFires(t) PROVE LogInv'
  BY <1>4, TimerInv
<1>5. ASSUME NEW i \in analysing, AnalysisEnds(i) PROVE LogInv'
  BY <1>5, AnalysisEndsInv
<1>6. CASE UNCHANGED vars
  BY <1>6, LogStutterInv
<1> QED
  BY <1>1, <1>2, <1>3, <1>4, <1>5, <1>6 DEF LogNext, TimeIsUp

LEMMA LogAlways == LogSpec => []LogInv
  BY LogInitInv, LogInductive, PTL DEF LogSpec

-----------------------------------------------------------------------------
(* No verdict on a blip.                                                      *)

\* What four constants in three packages have to agree on.
LimitsAgree == BlipThreshold + SaveLimit + HandlerLimit <= AnalysisDelay

\* A blip is closed, and not under analysis.
BlipInv ==
    \A i \in Ids :
        incidents[i].blip =>
            incidents[i].resolved # Open /\ ~incidents[i].verdict /\ i \notin analysing

\* The row a recovery closes is too young for an analysis if it is a blip.
LEMMA OnRecoveredBlip ==
  ASSUME LimitsAgree, LogInv, BlipInv, NEW h \in handlers, OnRecovered(h)
  PROVE  BlipInv'
<1>1. analysing' = analysing
  BY DEF OnRecovered
<1>2. CASE incidents' = incidents
  BY <1>1, <1>2 DEF BlipInv, Ids
<1>3. ASSUME NEW i \in Ids, Closes(h, i) PROVE BlipInv'
  <2>1. ASSUME incidents'[i].blip PROVE ~incidents[i].verdict /\ i \notin analysing
    <3>1. h.at < incidents[i].started + BlipThreshold
      BY <1>3, <2>1 DEF Closes
    <3>2. incidents[i].started \in Nat /\ h.at \in Nat /\ h.born \in Nat /\ clock \in Nat
      BY RowNumbers, HandlerNumbers DEF LogInv
    <3>3. clock <= h.at + SaveLimit + HandlerLimit
      BY <3>2, Bounds DEF LogInv, LateInv
    <3>4. clock < incidents[i].started + AnalysisDelay
      BY <3>1, <3>2, <3>3, Bounds DEF LimitsAgree
    <3> QED
      BY <3>2, <3>4, Bounds DEF LogInv, OldInv
  <2> QED
    BY <1>1, <1>3, <2>1 DEF Closes, BlipInv, Open
<1> QED
  BY <1>2, <1>3, OnRecoveredRows DEF LogInv

LEMMA BlipInductive == ASSUME LimitsAgree PROVE LogInv /\ BlipInv /\ [LogNext]_vars => BlipInv'
<1> SUFFICES ASSUME LogInv, BlipInv, [LogNext]_vars PROVE BlipInv'
  OBVIOUS
<1>1. ASSUME incidents' = incidents, analysing' \subseteq analysing PROVE BlipInv'
  BY <1>1 DEF BlipInv, Ids, Open
<1>2. CASE Boot \/ Crash \/ SaveChange \/ DispatchChange \/ Tick \/ UNCHANGED vars
  BY <1>1, <1>2 DEF Boot, Crash, SaveChange, DispatchChange, Tick, logVars, vars
<1>3. ASSUME NEW k \in Monitored, NEW s \in Statuses, ConfirmChange(k, s) PROVE BlipInv'
  BY <1>1, <1>3 DEF ConfirmChange
<1>4. ASSUME NEW h \in handlers, OnDown(h) PROVE BlipInv'
  <2>1. analysing' = analysing
    BY <1>4 DEF OnDown
  <2> QED
    BY <1>4, <2>1, OpensRows DEF OnDown, LogInv, BlipInv, Open
<1>5. ASSUME NEW h \in handlers, OnRecovered(h) PROVE BlipInv'
  BY <1>5, OnRecoveredBlip
<1>6. ASSUME NEW h \in handlers, StoreCallFails(h) PROVE BlipInv'
  <2>1. analysing' = analysing
    BY <1>6 DEF StoreCallFails
  <2>2. CASE Opens(h)
    BY <2>1, <2>2, OpensRows DEF LogInv, BlipInv, Open
  <2> QED
    BY <1>1, <1>6, <2>1, <2>2 DEF StoreCallFails
<1>7. ASSUME NEW t \in timers, TimerFires(t) PROVE BlipInv'
  BY <1>7 DEF TimerFires, BlipInv, Ids, Open
<1>8. ASSUME NEW i \in analysing, AnalysisEnds(i) PROVE BlipInv'
  <2>1. analysing' = analysing \ {i} /\ i \in Ids /\ ~incidents[i].blip
    BY <1>8 DEF LogInv, LogTypeOK, AnalysisEnds, BlipInv
  <2> QED
    BY <1>8, <2>1, AnalysisEndsRows DEF LogInv, BlipInv, Open
<1> QED
  BY <1>2, <1>3, <1>4, <1>5, <1>6, <1>7, <1>8 DEF LogNext, TimeIsUp

\* The types of the log, and no verdict on a blip, for any number of services,
\* crashes and overlapping handlers, wherever the limits agree: saving and
\* handling a change that came within BlipThreshold of the outage take less time
\* than the analysis waits.
THEOREM BlipsKeepNoVerdict == ASSUME LimitsAgree PROVE LogSpec => [](LogTypeOK /\ NoVerdictOnBlip)
<1>1. LogInit => BlipInv
  BY DEF LogInit, BlipInv, Ids
<1>2. LogInv /\ BlipInv /\ [LogNext]_vars => BlipInv'
  BY BlipInductive
<1>3. LogInv /\ BlipInv => LogTypeOK /\ NoVerdictOnBlip
  BY DEF LogInv, BlipInv, NoVerdictOnBlip
<1> QED
  BY <1>1, <1>2, <1>3, LogAlways, PTL DEF LogSpec

-----------------------------------------------------------------------------
(* No alert is fired again.                                                   *)

\* The last alert of k, if there was one, tells the health of s.
Told(k, s) == alerts[k].last # "none" => Known(s) /\ alerts[k].last = Health(s)

InHand(k) == stage # "idle" /\ change.key = k

\* The memory, then the row, tell the change in hand; only a running process has
\* one, or handlers.
HandInv ==
    /\ ~running => stage = "idle" /\ handlers = {}
    /\ stage # "idle" => confirmed[change.key] = change.cur
    /\ stage = "dispatching" => \/ saved[change.key] = change.cur
                                \/ change.key \in unsaved /\ change.key \in disturbed

\* Unless the other health was confirmed since, or a Save failed, memory and row know
\* no other health than that of the last alert.
ReversedInv ==
    \A k \in Monitored \ reversed :
        /\ k \notin unsaved => /\ Known(saved[k]) => Told(k, saved[k])
                               /\ Known(confirmed[k]) => Told(k, confirmed[k])
        /\ InHand(k) /\ Known(change.prev) => Told(k, change.prev)

LEMMA HandInductive == LogInv /\ HandInv /\ [LogNext]_vars => HandInv'
<1> SUFFICES ASSUME LogInv, HandInv, [LogNext]_vars PROVE HandInv'
  OBVIOUS
<1> USE DEF HandInv
<1>1. CASE Boot \/ Crash \/ UNCHANGED vars
  BY <1>1 DEF Boot, Crash, LoadBaseline, vars, baseVars, logVars
<1>2. ASSUME NEW k \in Monitored, NEW s \in Statuses, ConfirmChange(k, s) PROVE HandInv'
  BY <1>2 DEF ConfirmChange, Confirm, LogInv, LogTypeOK, BaseTypeOK
<1>3. CASE SaveChange
  BY <1>3 DEF SaveChange, SaveState, SaveFails, logVars, LogInv, LogTypeOK, BaseTypeOK
<1>4. CASE DispatchChange
  BY <1>4 DEF DispatchChange, Dispatch
<1>5. ASSUME UNCHANGED <<baseVars, running, unsaved>>, handlers' \subseteq handlers,
             disturbed \subseteq disturbed'
      PROVE  HandInv'
  BY <1>5 DEF baseVars
<1>6. ASSUME NEW h \in handlers, OnDown(h) \/ OnRecovered(h) \/ StoreCallFails(h) PROVE HandInv'
  BY <1>5, <1>6 DEF OnDown, OnRecovered, StoreCallFails, Ends
<1>7. CASE Tick \/ (\E t \in timers : TimerFires(t)) \/ (\E i \in analysing : AnalysisEnds(i))
  BY <1>5, <1>7 DEF Tick, TimerFires, AnalysisEnds
<1> QED
  BY <1>1, <1>2, <1>3, <1>4, <1>6, <1>7 DEF LogNext, TimeIsUp

\* An alert that tells what the last one told follows a confirmed reversal.
LEMMA DispatchTellsAnew ==
  ASSUME LogInv, HandInv, ReversedInv, DispatchChange, NEW k \in Monitored,
         alerts'[k].sent # alerts[k].sent, alerts'[k].last = alerts[k].last
  PROVE  k \in reversed
<1>1. change.key = k /\ Alerting /\ InHand(k)
  BY DEF DispatchChange, Dispatch, LogInv, LogTypeOK, BaseTypeOK, InHand
<1>2. alerts'[k].last = Health(change.cur)
  BY <1>1 DEF DispatchChange, Dispatch, LogInv, LogTypeOK, BaseTypeOK
<1>3. alerts[k].last # "none" /\ Known(change.prev) /\ alerts[k].last # Health(change.prev)
  BY <1>1, <1>2 DEF Alerting, Health, Healthy
<1> QED
  BY <1>1, <1>3 DEF ReversedInv, Told

LEMMA ReversedInductive ==
  LogInv /\ HandInv /\ ReversedInv /\ [LogNext]_vars => ReversedInv'
<1> SUFFICES ASSUME LogInv, HandInv, ReversedInv, [LogNext]_vars PROVE ReversedInv'
  OBVIOUS
<1> USE DEF ReversedInv, Told, InHand
<1>1. CASE Boot
  BY <1>1 DEF Boot, LoadBaseline, HandInv, Known, LogInv, LogTypeOK, BaseTypeOK
<1>2. CASE Crash
  BY <1>2 DEF Crash, Known
<1>3. ASSUME NEW k \in Monitored, NEW s \in Statuses, ConfirmChange(k, s) PROVE ReversedInv'
  BY <1>3 DEF ConfirmChange, Confirm, LogInv, LogTypeOK, BaseTypeOK
<1>4. CASE SaveChange
  <2>1. change.key \in Monitored /\ confirmed[change.key] = change.cur
    BY <1>4 DEF SaveChange, SaveState, SaveFails, HandInv, LogInv, LogTypeOK, BaseTypeOK
  <2>2. CASE SaveState /\ UNCHANGED logVars
    BY <2>1, <2>2 DEF SaveState, logVars, LogInv, LogTypeOK, BaseTypeOK
  <2>3. CASE ~(SaveState /\ UNCHANGED logVars)
    BY <1>4, <2>1, <2>3 DEF SaveChange, SaveFails
  <2> QED
    BY <2>2, <2>3
<1>5. CASE DispatchChange
  <2>1. /\ change.key \in Monitored /\ stage' = "idle" /\ UNCHANGED <<confirmed, saved, unsaved>>
        /\ confirmed[change.key] = change.cur
        /\ change.key \notin unsaved => saved[change.key] = change.cur
        /\ Known(change.cur)
    BY <1>5, ServicesAssumption
    DEF DispatchChange, Dispatch, HandInv, LogInv, LogTypeOK, BaseTypeOK, Known
  <2>2. /\ \A k \in Monitored \ {change.key} : alerts'[k] = alerts[k]
        /\ reversed \ {change.key} \subseteq reversed'
        /\ \/ alerts'[change.key].last = Health(change.cur)
           \/ alerts' = alerts /\ reversed' = reversed
    BY <1>5, <2>1 DEF DispatchChange, Dispatch, LogInv, LogTypeOK, BaseTypeOK
  <2> QED
    BY <2>1, <2>2
<1>6. ASSUME UNCHANGED <<baseVars, reversed, unsaved>> PROVE ReversedInv'
  BY <1>6 DEF baseVars
<1>7. ASSUME NEW h \in handlers, OnDown(h) \/ OnRecovered(h) \/ StoreCallFails(h)
      PROVE  ReversedInv'
  BY <1>6, <1>7 DEF OnDown, OnRecovered, StoreCallFails, Ends
<1>8. CASE \/ Tick \/ UNCHANGED vars
          \/ (\E t \in timers : TimerFires(t)) \/ (\E i \in analysing : AnalysisEnds(i))
  BY <1>6, <1>8 DEF Tick, TimerFires, AnalysisEnds, vars, logVars
<1> QED
  BY <1>1, <1>2, <1>3, <1>4, <1>5, <1>7, <1>8 DEF LogNext, TimeIsUp

LEMMA HandAlways == LogSpec => []HandInv
<1>1. LogInit => HandInv
  BY DEF LogInit, BaseInit, HandInv
<1>2. LogInv /\ HandInv /\ [LogNext]_vars => HandInv'
  BY HandInductive
<1> QED
  BY <1>1, <1>2, LogAlways, PTL DEF LogSpec

\* Wherever a crash hits, and whether or not Load and the saves succeed: no alert is
\* fired again unless the other health was confirmed in between, or the Save of the
\* service's change before failed.
THEOREM RestartsDoNotRefire == LogSpec => NoRefire
<1>1. LogInit => ReversedInv
  BY DEF LogInit, BaseInit, ReversedInv, Told, InHand
<1>2. LogInv /\ HandInv /\ ReversedInv /\ [LogNext]_vars => ReversedInv'
  BY ReversedInductive
<1>3. ASSUME LogInv, HandInv, ReversedInv, LogNext, NEW k \in Monitored,
             alerts'[k].sent # alerts[k].sent, alerts'[k].last = alerts[k].last
      PROVE  k \in reversed
  <2>1. CASE DispatchChange
    BY <1>3, <2>1, DispatchTellsAnew
  <2>2. CASE ~DispatchChange
    <3>1. alerts' = alerts
      BY <1>3, <2>2
      DEF LogNext, Boot, Crash, ConfirmChange, SaveChange, OnDown, OnRecovered, StoreCallFails,
          Ends, TimerFires, AnalysisEnds, Tick, TimeIsUp, LoadBaseline, Confirm, SaveState, SaveFails,
          vars, baseVars
    <3> QED
      BY <1>3, <3>1
  <2> QED
    BY <2>1, <2>2
<1>4. LogInv /\ HandInv /\ ReversedInv /\ [LogNext]_vars
        => [\A k \in Monitored :
             alerts'[k].sent # alerts[k].sent /\ alerts'[k].last = alerts[k].last
                 => k \in reversed]_vars
  BY <1>3
<1> QED
  BY <1>1, <1>2, <1>4, LogAlways, HandAlways, PTL DEF LogSpec, NoRefire

-----------------------------------------------------------------------------
(* The table settles on what the alerts have told.                            *)

Of(k) == {h \in handlers : h.key = k}

\* Memory and row of a service no fault has touched go along with its last alert,
\* each until the change in hand has reached it.
BaselineInStep(k) ==
    /\ running /\ ~(stage = "saving" /\ change.key = k) => confirmed[k] = saved[k]
    /\ ~(stage = "dispatching" /\ change.key = k) => Told(k, saved[k])
    /\ InHand(k) => Told(k, change.prev)

\* So does the table, until the one handler of the last alert has run.
RowsInStep(k) ==
    /\ \A g, h \in Of(k) : g = h
    /\ Of(k) = {} => (OpenRows(k) # {} <=> alerts[k].last = "down")
    /\ \A h \in Of(k) : /\ Health(h.cur) = alerts[k].last
                        /\ ~Healthy(h.cur) => OpenRows(k) = {}
    /\ \A i, j \in OpenRows(k) : i = j

SettleInv == \A k \in Monitored \ disturbed : BaselineInStep(k) /\ RowsInStep(k)

\* The baseline of k is in step as long as nothing it is made of changes, the rows
\* likewise.
LEMMA BaselineKept ==
  ASSUME NEW k, BaselineInStep(k), UNCHANGED baseVars, running' => running
  PROVE  BaselineInStep(k)'
  BY DEF BaselineInStep, Told, InHand, baseVars

LEMMA RowsKept ==
  ASSUME NEW k, RowsInStep(k), Of(k)' = Of(k), OpenRows(k)' = OpenRows(k),
         alerts'[k].last = alerts[k].last
  PROVE  RowsInStep(k)'
  BY DEF RowsInStep

LEMMA SettleDispatch ==
  ASSUME LogInv, HandInv, SettleInv, DispatchChange, NEW k \in Monitored \ disturbed'
  PROVE  BaselineInStep(k)' /\ RowsInStep(k)'
<1> DEFINE new == [key |-> change.key, cur |-> change.cur, at |-> changedAt[change.key],
                   born |-> clock]
<1>1. /\ stage = "dispatching" /\ stage' = "idle"
      /\ UNCHANGED <<confirmed, saved, running, incidents>>
      /\ k \in Monitored \ disturbed
      /\ change.key \in Monitored
      /\ confirmed[change.key] = change.cur
      /\ change.key \notin disturbed => saved[change.key] = change.cur
      /\ Known(change.cur)
  BY ServicesAssumption
  DEF DispatchChange, Dispatch, HandInv, LogInv, LogTypeOK, BaseTypeOK, Known
<1>2. BaselineInStep(k) /\ RowsInStep(k)
  BY <1>1 DEF SettleInv
<1>3. OpenRows(k)' = OpenRows(k)
  BY <1>1 DEF OpenRows, Ids, Open
<1>4. CASE k # change.key
  <2>1. alerts'[k] = alerts[k]
    BY <1>1, <1>4 DEF DispatchChange, Dispatch, LogInv, LogTypeOK, BaseTypeOK
  <2>2. Of(k)' = Of(k)
    BY <1>4 DEF DispatchChange, Of
  <2>3. BaselineInStep(k)'
    BY <1>1, <1>2, <1>4, <2>1 DEF BaselineInStep, Told, InHand
  <2> QED
    BY <1>2, <1>3, <2>1, <2>2, <2>3, RowsKept
<1>5. CASE k = change.key /\ Alerting
  <2>1. alerts'[k].last = Health(change.cur)
    BY <1>1, <1>5 DEF DispatchChange, Dispatch, LogInv, LogTypeOK, BaseTypeOK
  <2>2. Of(k) = {} /\ Of(k)' = {new}
    BY <1>1, <1>5 DEF DispatchChange, Of
  <2>3. new.cur = change.cur
    OBVIOUS
  <2> HIDE DEF new
  <2>4. ~Healthy(change.cur) => OpenRows(k) = {}
    <3> SUFFICES ASSUME ~Healthy(change.cur) PROVE alerts[k].last # "down"
      BY <1>2, <2>2 DEF RowsInStep
    <3>1. Health(change.prev) = "up"
      BY <1>5 DEF Alerting, Health, Healthy
    <3> QED
      BY <1>1, <1>2, <1>5, <3>1 DEF BaselineInStep, InHand, Told
  <2>5. BaselineInStep(k)'
    BY <1>1, <1>5, <2>1 DEF BaselineInStep, Told, InHand
  <2>6. RowsInStep(k)'
    BY <1>2, <1>3, <2>1, <2>2, <2>3, <2>4 DEF RowsInStep
  <2> QED
    BY <2>5, <2>6
<1>6. CASE k = change.key /\ ~Alerting
  <2>1. alerts' = alerts /\ Of(k)' = Of(k)
    BY <1>6 DEF DispatchChange, Dispatch, Of
  <2>2. Told(k, change.cur)
    BY <1>1, <1>2, <1>6 DEF BaselineInStep, InHand, Told, Alerting, Health, Healthy
  <2>3. BaselineInStep(k)'
    BY <1>1, <1>6, <2>1, <2>2 DEF BaselineInStep, Told, InHand
  <2> QED
    BY <1>2, <1>3, <2>1, <2>3, RowsKept
<1> QED
  BY <1>4, <1>5, <1>6

LEMMA SettleOnDown ==
  ASSUME LogInv, SettleInv, NEW h \in handlers, OnDown(h), NEW k \in Monitored \ disturbed
  PROVE  RowsInStep(k)'
<1> DEFINE new == Len(incidents) + 1
<1>1. handlers' = handlers \ {h} /\ alerts' = alerts /\ ~Healthy(h.cur)
  BY DEF OnDown, Ends, baseVars
<1>2. /\ Ids' = Ids \union {new} /\ new \notin Ids
      /\ \A j \in Ids : incidents'[j] = incidents[j]
      /\ incidents'[new].key = h.key /\ incidents'[new].resolved = Open
  BY OpensRows DEF OnDown, LogInv
<1> HIDE DEF new
<1>3. RowsInStep(k)
  BY DEF SettleInv
<1>4. CASE k # h.key
  <2>1. Of(k)' = Of(k) /\ OpenRows(k)' = OpenRows(k)
    BY <1>1, <1>2, <1>4 DEF Of, OpenRows, Open
  <2> QED
    BY <1>1, <1>3, <2>1, RowsKept
<1>5. CASE k = h.key
  <2>1. h \in Of(k) /\ OpenRows(k) = {} /\ alerts[k].last = "down"
    BY <1>1, <1>3, <1>5 DEF RowsInStep, Of, Health
  <2>2. Of(k)' = {}
    BY <1>1, <1>3, <2>1 DEF RowsInStep, Of
  <2>3. OpenRows(k)' = {new}
    BY <1>2, <1>5, <2>1 DEF OpenRows, Open
  <2> QED
    BY <1>1, <2>1, <2>2, <2>3 DEF RowsInStep
<1> QED
  BY <1>4, <1>5

LEMMA SettleOnRecovered ==
  ASSUME LogInv, SettleInv, NEW h \in handlers, OnRecovered(h), NEW k \in Monitored \ disturbed
  PROVE  RowsInStep(k)'
<1>1. handlers' = handlers \ {h} /\ alerts' = alerts /\ Healthy(h.cur)
  BY DEF OnRecovered, Ends, baseVars
<1>2. RowsInStep(k)
  BY DEF SettleInv
<1>3. \/ OpenRows(h.key) = {} /\ incidents' = incidents
      \/ \E i \in OpenRows(h.key) :
           /\ Ids' = Ids
           /\ \A j \in Ids \ {i} : incidents'[j] = incidents[j]
           /\ incidents'[i].key = incidents[i].key /\ incidents'[i].resolved # Open
  BY OnRecoveredRows DEF LogInv, Closes
<1>4. CASE k # h.key
  <2>1. Of(k)' = Of(k) /\ OpenRows(k)' = OpenRows(k)
    BY <1>1, <1>3, <1>4 DEF Of, OpenRows, Ids, Open
  <2> QED
    BY <1>1, <1>2, <2>1, RowsKept
<1>5. CASE k = h.key
  <2>1. h \in Of(k) /\ alerts[k].last = "up"
    BY <1>1, <1>2, <1>5 DEF RowsInStep, Of, Health
  <2>2. Of(k)' = {}
    BY <1>1, <1>2, <2>1 DEF RowsInStep, Of
  <2>3. OpenRows(k)' = {}
    <3>1. CASE OpenRows(k) = {} /\ incidents' = incidents
      BY <3>1 DEF OpenRows, Ids, Open
    <3>2. ASSUME NEW i \in OpenRows(k), Ids' = Ids,
                 \A j \in Ids \ {i} : incidents'[j] = incidents[j],
                 incidents'[i].resolved # Open
          PROVE  OpenRows(k)' = {}
      BY <1>2, <3>2 DEF RowsInStep, OpenRows, Open
    <3> QED
      BY <1>3, <1>5, <3>1, <3>2
  <2> QED
    BY <1>1, <2>1, <2>2, <2>3 DEF RowsInStep
<1> QED
  BY <1>4, <1>5

LEMMA SettleInductive ==
  LogInv /\ HandInv /\ SettleInv /\ [LogNext]_vars => SettleInv'
<1> SUFFICES ASSUME LogInv, HandInv, SettleInv, [LogNext]_vars PROVE SettleInv'
  OBVIOUS
<1>1. ASSUME NEW k, incidents' = incidents, handlers' = handlers, alerts' = alerts, RowsInStep(k)
      PROVE  RowsInStep(k)'
  BY <1>1, RowsKept DEF Of, OpenRows, Ids, Open
<1>2. CASE Boot
  <2>1. ASSUME NEW k \in Monitored \ disturbed' PROVE BaselineInStep(k)'
    BY <1>2, <2>1 DEF Boot, LoadBaseline, HandInv, SettleInv, BaselineInStep, Told, InHand
  <2> QED
    BY <1>1, <1>2, <2>1 DEF Boot, LoadBaseline, SettleInv
<1>3. CASE Crash
  <2> SUFFICES ASSUME NEW k \in Monitored \ disturbed'
               PROVE  BaselineInStep(k)' /\ RowsInStep(k)'
    BY DEF SettleInv
  <2>1. BaselineInStep(k) /\ RowsInStep(k) /\ Of(k) = {} /\ ~InHand(k)
    BY <1>3 DEF Crash, SettleInv, Of, InHand
  <2>2. Of(k)' = Of(k) /\ OpenRows(k)' = OpenRows(k) /\ alerts' = alerts
    BY <1>3, <2>1 DEF Crash, Of, OpenRows, Ids, Open
  <2>3. BaselineInStep(k)'
    BY <1>3, <2>1 DEF Crash, BaselineInStep, Told, InHand
  <2> QED
    BY <2>1, <2>2, <2>3, RowsKept
<1>4. ASSUME NEW k \in Monitored, NEW s \in Statuses, ConfirmChange(k, s) PROVE SettleInv'
  <2>1. /\ stage = "idle" /\ stage' = "saving" /\ change' = [key |-> k, prev |-> confirmed[k], cur |-> s]
        /\ running /\ UNCHANGED <<saved, alerts, running, disturbed, handlers, incidents>>
        /\ \A j \in Monitored \ {k} : confirmed'[j] = confirmed[j]
    BY <1>4 DEF ConfirmChange, Confirm, LogInv, LogTypeOK, BaseTypeOK
  <2>2. ASSUME NEW j \in Monitored \ disturbed PROVE BaselineInStep(j)'
    BY <2>1, <2>2 DEF SettleInv, BaselineInStep, Told, InHand
  <2> QED
    BY <1>1, <2>1, <2>2 DEF SettleInv
<1>5. CASE SaveChange
  <2>1. /\ stage = "saving" /\ stage' = "dispatching" /\ change.key \in Monitored
        /\ \/ saved' = [saved EXCEPT ![change.key] = change.cur]
           \/ saved' = saved /\ change.key \in disturbed'
        /\ confirmed[change.key] = change.cur /\ disturbed \subseteq disturbed'
        /\ UNCHANGED <<confirmed, change, alerts, running, handlers, incidents>>
    BY <1>5
    DEF SaveChange, SaveState, SaveFails, HandInv, LogInv, LogTypeOK, BaseTypeOK, logVars
  <2>2. ASSUME NEW j \in Monitored \ disturbed' PROVE BaselineInStep(j)'
    BY <2>1, <2>2 DEF SettleInv, BaselineInStep, Told, InHand, LogInv, LogTypeOK, BaseTypeOK
  <2> QED
    BY <1>1, <2>1, <2>2 DEF SettleInv
<1>6. CASE DispatchChange
  BY <1>6, SettleDispatch DEF SettleInv
<1>7. ASSUME NEW h \in handlers, OnDown(h) \/ OnRecovered(h) PROVE SettleInv'
  <2>1. UNCHANGED <<baseVars, running, disturbed>>
    BY <1>7 DEF OnDown, OnRecovered, Ends
  <2> QED
    BY <1>7, <2>1, SettleOnDown, SettleOnRecovered, BaselineKept DEF SettleInv
<1>8. ASSUME NEW h \in handlers, StoreCallFails(h) PROVE SettleInv'
  <2> SUFFICES ASSUME NEW k \in Monitored \ disturbed'
               PROVE  BaselineInStep(k)' /\ RowsInStep(k)'
    BY DEF SettleInv
  <2>1. k \in Monitored \ disturbed /\ k # h.key
    BY <1>8 DEF StoreCallFails
  <2>2. Of(k)' = Of(k) /\ UNCHANGED <<baseVars, running>>
    BY <1>8, <2>1 DEF StoreCallFails, Ends, Of
  <2>3. OpenRows(k)' = OpenRows(k)
    <3>1. CASE incidents' = incidents
      BY <3>1 DEF OpenRows, Ids, Open
    <3>2. CASE Opens(h)
      BY <2>1, <3>2, OpensRows DEF LogInv, OpenRows, Open
    <3> QED
      BY <1>8, <3>1, <3>2 DEF StoreCallFails
  <2> QED
    BY <2>1, <2>2, <2>3, BaselineKept, RowsKept DEF SettleInv, baseVars
<1>9. ASSUME NEW i \in analysing, AnalysisEnds(i) PROVE SettleInv'
  <2>1. UNCHANGED <<baseVars, running, disturbed, handlers>>
    BY <1>9 DEF AnalysisEnds
  <2>2. ASSUME NEW k PROVE Of(k)' = Of(k) /\ OpenRows(k)' = OpenRows(k)
    BY <1>9, <2>1, AnalysisEndsRows DEF LogInv, Of, OpenRows, Open
  <2> QED
    BY <2>1, <2>2, BaselineKept, RowsKept DEF SettleInv, baseVars
<1>10. CASE Tick \/ UNCHANGED vars \/ (\E t \in timers : TimerFires(t))
  <2>1. UNCHANGED <<baseVars, running, disturbed, handlers, incidents>>
    BY <1>10 DEF Tick, TimerFires, vars, logVars
  <2> QED
    BY <1>1, <2>1, BaselineKept DEF SettleInv, baseVars
<1> QED
  BY <1>2, <1>3, <1>4, <1>5, <1>6, <1>7, <1>8, <1>9, <1>10 DEF LogNext, TimeIsUp

\* For any number of services, crashes, faults and overlapping handlers: once the
\* handlers are through, every service none of whose changes was lost or raced for
\* has exactly one open row if its last alert is "down", and none otherwise.
THEOREM TableSettles == LogSpec => []LogSettles
<1>1. LogInit => SettleInv
  BY DEF LogInit, BaseInit, SettleInv, BaselineInStep, RowsInStep, Told, InHand, Of, OpenRows, Ids
<1>2. LogInv /\ HandInv /\ SettleInv /\ [LogNext]_vars => SettleInv'
  BY SettleInductive
<1>3. SettleInv => LogSettles
  BY DEF SettleInv, RowsInStep, LogSettles, Settled, Of
<1> QED
  BY <1>1, <1>2, <1>3, LogAlways, HandAlways, PTL DEF LogSpec

-----------------------------------------------------------------------------
(* From a check to what is shown of it.                                    *)

\* The redirects of the site are followed to their end.
Followed(s) == s.redirects < MaxRedirects

LEMMA SiteFacts ==
    ASSUME NEW s \in Site
    PROVE  /\ s.how \in {"answers", "refuses", "silent"} /\ s.code \in Nat /\ s.time \in Nat
           /\ GivesUp(s) <=> ~Followed(s)
BY SiteCheckAssumption DEF Site, GivesUp, Followed

\* What becomes of each kind of answer, in the checker and in the two readers.
LEMMA Fine ==
    ASSUME NEW s \in Site, Followed(s), s.how = "answers", s.code = 200
    PROVE  /\ BuildStatusDetail(CheckServiceStatus(s)) = Detail(TRUE, s.time > SlowResponseThresholdMs, 200, "ok", s.time)
           /\ CurrentStatus(CheckServiceStatus(s)) = IF s.time > SlowResponseThresholdMs THEN "slow" ELSE "ok"
<1> DEFINE r == CheckServiceStatus(s)
<1>1. r = Outcome("ok", s.time, Message("ok", NA))
  BY SiteFacts DEF CheckServiceStatus, AnsweredWith
<1>2. r.status = "ok" /\ r.responseTime = s.time /\ s.time # NA
  BY <1>1, SiteFacts DEF Outcome, NA
<1> HIDE DEF r
<1>3. BuildStatusDetail(r) = Detail(TRUE, s.time > SlowResponseThresholdMs, 200, "ok", s.time)
  BY <1>2 DEF BuildStatusDetail
<1>4. CurrentStatus(r) = IF s.time > SlowResponseThresholdMs THEN "slow" ELSE "ok"
  BY <1>2, SiteCheckAssumption DEF CurrentStatus, ResponseTimeMs
<1> QED
  BY <1>3, <1>4 DEF r

LEMMA OtherCode ==
    ASSUME NEW s \in Site, Followed(s), s.how = "answers", s.code # 200
    PROVE  /\ BuildStatusDetail(CheckServiceStatus(s)) = Detail(FALSE, FALSE, s.code, "httpError", s.time)
           /\ CurrentStatus(CheckServiceStatus(s)) = "down"
<1> DEFINE r == CheckServiceStatus(s)
<1>1. r = Outcome("error", s.time, Message("http", s.code))
  BY SiteFacts DEF CheckServiceStatus, AnsweredWith
<1>2. r.status = "error" /\ r.responseTime = s.time /\ r.message = Message("http", s.code)
  BY <1>1 DEF Outcome
<1>3. r.message.kind = "http" /\ r.message.code = s.code
  BY <1>2 DEF Message
<1> HIDE DEF r
<1>4. BuildStatusDetail(r) = Detail(FALSE, FALSE, s.code, "httpError", s.time)
  BY <1>2, <1>3 DEF BuildStatusDetail
<1>5. CurrentStatus(r) = "down"
  BY <1>2 DEF CurrentStatus
<1> QED
  BY <1>4, <1>5 DEF r

LEMMA Silence ==
    ASSUME NEW s \in Site, Followed(s), s.how = "silent"
    PROVE  /\ BuildStatusDetail(CheckServiceStatus(s)) = Detail(FALSE, FALSE, NA, "timeout", NA)
           /\ CurrentStatus(CheckServiceStatus(s)) = "down"
<1> DEFINE r == CheckServiceStatus(s)
<1>1. r = TimedOut
  BY SiteFacts DEF CheckServiceStatus
<1>2. r.status = "timeout"
  BY <1>1 DEF TimedOut, Outcome
<1> HIDE DEF r
<1>3. BuildStatusDetail(r) = Detail(FALSE, FALSE, NA, "timeout", NA)
  BY <1>2 DEF BuildStatusDetail
<1>4. CurrentStatus(r) = "down"
  BY <1>2 DEF CurrentStatus
<1> QED
  BY <1>3, <1>4 DEF r

LEMMA NoAnswerAtAll ==
    ASSUME NEW s \in Site, ~Followed(s) \/ s.how = "refuses"
    PROVE  /\ BuildStatusDetail(CheckServiceStatus(s)) = Detail(FALSE, FALSE, NA, "connectionFailure", NA)
           /\ CurrentStatus(CheckServiceStatus(s)) = "down"
<1> DEFINE r == CheckServiceStatus(s)
<1>1. r = Failed(s.time)
  BY SiteFacts DEF CheckServiceStatus
<1>2. r.status = "error" /\ r.message = Message("connection", NA)
  BY <1>1 DEF Failed, Outcome
<1>3. r.message.kind = "connection"
  BY <1>2 DEF Message
<1> HIDE DEF r
<1>4. BuildStatusDetail(r) = Detail(FALSE, FALSE, NA, "connectionFailure", NA)
  BY <1>2, <1>3 DEF BuildStatusDetail
<1>5. CurrentStatus(r) = "down"
  BY <1>2 DEF CurrentStatus
<1> QED
  BY <1>4, <1>5 DEF r

\* Any site that was checked, with any code, time and number of redirects, is
\* told of alike by the modal, the card and the scorecard (DialogTellsAnswer):
\* CheckServiceStatus and isTimeout, the message in apitext's words, the pattern
\* of statusDetail.js on it, and the thresholds of both sides.
THEOREM DialogTellsOneTale == ScoreSpec => []DialogTellsAnswer
<1> DEFINE SiteKnown == site \in Sites \union {NotChecked}
<1>1. ScoreInit => SiteKnown
  BY DEF ScoreInit
<1>2. SiteKnown /\ [ScoreNext]_scoreVars => SiteKnown'
  BY DEF ScoreNext, Record, scoreVars
<1>3. SiteKnown => DialogTellsAnswer
  <2> SUFFICES ASSUME SiteKnown, Checked PROVE CardTellsAnswer /\ CardAgreesWithScorecard
    BY DEF DialogTellsAnswer, CardTellsAnswer, CardAgreesWithScorecard
  <2>0. site \in Site /\ Checked
    BY ScorecardAssumption DEF Checked
  <2>1. site.how \in {"answers", "refuses", "silent"} /\ site.code \in Nat
    BY <2>0, SiteFacts
  <2> DEFINE d == Shown
  <2>2. ASSUME NEW ok \in BOOLEAN, NEW slow \in BOOLEAN, NEW code, NEW reason, NEW time,
               d = Detail(ok, slow, code, reason, time)
        PROVE  d.ok = ok /\ d.slow = slow /\ d.httpCode = code /\ d.reason = reason
    BY <2>2 DEF Detail
  <2>3. CASE Followed(site) /\ site.how = "answers" /\ site.code = 200
    <3>1. d = Detail(TRUE, site.time > SlowResponseThresholdMs, 200, "ok", site.time)
          /\ Current = IF site.time > SlowResponseThresholdMs THEN "slow" ELSE "ok"
      BY <2>0, <2>3, Fine DEF Shown, CheckResult, Current
    <3>2. d.ok = TRUE /\ d.slow = (site.time > SlowResponseThresholdMs) /\ d.httpCode = 200 /\ d.reason = "ok"
      <4> DEFINE slow == site.time > SlowResponseThresholdMs
      <4>1. slow \in BOOLEAN /\ d = Detail(TRUE, slow, 200, "ok", site.time)
        BY <3>1
      <4> HIDE DEF slow, d
      <4>2. d.ok = TRUE /\ d.slow = slow /\ d.httpCode = 200 /\ d.reason = "ok"
        BY <4>1 DEF Detail
      <4> QED
        BY <4>2 DEF slow
    <3> HIDE DEF d
    <3>3. StatusLevel(d) = IF site.time > SlowResponseThresholdMs THEN "slow" ELSE "ok"
      BY <3>2 DEF StatusLevel
    <3> QED
      BY <2>3, <3>1, <3>2, <3>3 DEF d, CardTellsAnswer, CardAgreesWithScorecard, Followed
  <2>4. ASSUME NEW code, NEW reason, NEW time, d = Detail(FALSE, FALSE, code, reason, time)
        PROVE  d.ok = FALSE /\ d.httpCode = code /\ d.reason = reason /\ StatusLevel(d) = "down"
    <3>1. d.ok = FALSE /\ d.httpCode = code /\ d.reason = reason
      BY <2>2, <2>4
    <3> HIDE DEF d
    <3> QED
      BY <3>1 DEF StatusLevel
  <2>5. CASE Followed(site) /\ site.how = "answers" /\ site.code # 200
    <3>1. d = Detail(FALSE, FALSE, site.code, "httpError", site.time) /\ Current = "down"
      BY <2>0, <2>5, OtherCode DEF Shown, CheckResult, Current
    <3>2. d.ok = FALSE /\ d.httpCode = site.code /\ d.reason = "httpError" /\ StatusLevel(d) = "down"
      BY <2>4, <3>1
    <3> HIDE DEF d
    <3> QED
      BY <2>5, <3>1, <3>2 DEF d, CardTellsAnswer, CardAgreesWithScorecard, Followed
  <2>6. CASE Followed(site) /\ site.how = "silent"
    <3>1. d = Detail(FALSE, FALSE, NA, "timeout", NA) /\ Current = "down"
      BY <2>0, <2>6, Silence DEF Shown, CheckResult, Current
    <3>2. d.ok = FALSE /\ d.httpCode = NA /\ d.reason = "timeout" /\ StatusLevel(d) = "down"
      BY <2>4, <3>1
    <3> HIDE DEF d
    <3> QED
      BY <2>6, <3>1, <3>2 DEF d, CardTellsAnswer, CardAgreesWithScorecard, Followed
  <2>7. CASE ~Followed(site) \/ site.how = "refuses"
    <3>1. d = Detail(FALSE, FALSE, NA, "connectionFailure", NA) /\ Current = "down"
      BY <2>0, <2>7, NoAnswerAtAll DEF Shown, CheckResult, Current
    <3>2. d.ok = FALSE /\ d.httpCode = NA /\ d.reason = "connectionFailure" /\ StatusLevel(d) = "down"
      BY <2>4, <3>1
    <3> HIDE DEF d
    <3> QED
      BY <2>7, <3>1, <3>2 DEF d, CardTellsAnswer, CardAgreesWithScorecard, Followed
  <2> QED
    BY <2>1, <2>3, <2>5, <2>6, <2>7
<1> QED
  BY <1>1, <1>2, <1>3, PTL DEF ScoreSpec

-----------------------------------------------------------------------------
(* The numbers of the scorecard.                                           *)

Outages == [started : Starts, lasted : Durations \union {Ongoing}]

\* What is known of the history: the outages that are over lie apart, before now.
HistoryInv ==
    /\ history \in SUBSET Outages /\ IsFiniteSet(history)
    /\ firstSeen \in FirstSeens
    /\ \A i \in history : End(i) <= Now
    /\ \A i, j \in history :
         i = j \/ Ongoing \in {i.lasted, j.lasted} \/ End(i) < j.started \/ End(j) < i.started

LEMMA OutageFacts ==
    ASSUME NEW i \in Outages
    PROVE  /\ i.started \in Nat /\ i.started < Now
           /\ i.lasted \in Nat \/ i.lasted = Ongoing
           /\ Ongoing \notin Nat /\ Now \in Nat
           /\ End(i) \in Nat /\ i.started <= End(i)
           /\ End(i) = IF i.lasted = Ongoing THEN Now ELSE i.started + i.lasted
<1>1. /\ i.started \in Starts /\ (i.lasted \in Durations \/ i.lasted = Ongoing)
      /\ Starts \subseteq 0 .. Now - 1 /\ Durations \subseteq Nat /\ Now \in Nat
  BY ScorecardAssumption DEF Outages
<1>2. i.started \in Nat /\ i.started < Now /\ Now \in Nat
  <2>1. i.started \in 0 .. Now - 1 /\ Now \in Nat
    BY <1>1
  <2> QED
    BY <2>1
<1>3. Ongoing \notin Nat
  BY DEF Ongoing
<1>4. i.lasted \in Nat \/ i.lasted = Ongoing
  BY <1>1
<1>5. End(i) = IF i.lasted = Ongoing THEN Now ELSE i.started + i.lasted
  BY DEF End
<1>6. End(i) \in Nat /\ i.started <= End(i)
  BY <1>2, <1>4, <1>5
<1> QED
  BY <1>2, <1>3, <1>4, <1>5, <1>6

LEMMA HistoryInductive == HistoryInv /\ [ScoreNext]_scoreVars => HistoryInv'
<1> SUFFICES ASSUME HistoryInv, [ScoreNext]_scoreVars PROVE HistoryInv'
  OBVIOUS
<1>1. ASSUME NEW s \in Starts, NEW m \in Durations \union {Ongoing},
             Record([started |-> s, lasted |-> m])
      PROVE  HistoryInv'
  <2> DEFINE i == [started |-> s, lasted |-> m]
  <2>1. i \in Outages
    BY DEF Outages
  <2>2. Record(i)
    BY <1>1
  <2> HIDE DEF i
  <2>3. /\ history' = history \union {i} /\ firstSeen' = firstSeen /\ End(i) <= Now
        /\ \A j \in history :
             Ongoing \in {i.lasted, j.lasted} \/ End(i) < j.started \/ End(j) < i.started
    BY <2>2 DEF Record
  <2>4. IsFiniteSet(history')
    BY <2>3, FS_AddElement DEF HistoryInv
  <2>5. \A j : End(j)' = End(j)
    BY DEF End
  <2> QED
    BY <2>1, <2>3, <2>4, <2>5 DEF HistoryInv, End
<1>2. CASE UNCHANGED scoreVars
  BY <1>2 DEF HistoryInv, scoreVars, End
<1> QED
  BY <1>1, <1>2 DEF ScoreNext

LEMMA HistoryAlways == ScoreSpec => []HistoryInv
<1>1. ScoreInit => HistoryInv
  BY FS_EmptySet DEF ScoreInit, HistoryInv
<1> QED
  BY <1>1, HistoryInductive, PTL DEF ScoreSpec

\* When the monitoring began: at what is stored, or at the oldest outage.
Began(h, stored) ==
    IF \E i \in h : i.started < stored THEN Min({i.started : i \in h}) ELSE stored

LEMMA BeganFacts ==
    ASSUME NEW h \in SUBSET Outages, NEW stored \in FirstSeens
    PROVE  /\ Began(h, stored) \in 0 .. Now /\ Began(h, stored) <= stored
           /\ \A i \in h : Began(h, stored) <= i.started
           /\ Began(h, stored) = stored \/ \E i \in h : Began(h, stored) = i.started
<1>1. stored \in 0 .. Now /\ Now \in Nat
  BY ScorecardAssumption
<1>2. \A i \in h : i.started \in Nat /\ i.started < Now
  BY OutageFacts
<1>3. CASE \E i \in h : i.started < stored
  <2> DEFINE starts == {i.started : i \in h}
  <2>1. starts \in SUBSET Nat /\ starts # {}
    BY <1>2, <1>3
  <2>2. Min(starts) \in starts /\ \A n \in starts : Min(starts) <= n
    <3> HIDE DEF starts
    <3>1. \E m \in starts : \A n \in starts : m <= n
      BY <2>1, LeastNumber
    <3>2. Min(starts) = CHOOSE m \in starts : \A n \in starts : m <= n
      BY DEF Min
    <3> QED
      BY <3>1, <3>2
  <2>3. Began(h, stored) = Min(starts)
    BY <1>3 DEF Began
  <2>4. PICK b : b = Began(h, stored)
    OBVIOUS
  <2>5. /\ b \in Nat /\ b < Now /\ (\A i \in h : b <= i.started)
        /\ \E i \in h : b = i.started
    <3>1. b \in starts /\ \A i \in h : i.started \in starts
      BY <2>2, <2>3, <2>4
    <3>2. \A i \in h : b <= i.started
      <4> HIDE DEF starts
      <4> QED
        BY <2>2, <2>3, <2>4, <3>1
    <3> QED
      BY <1>2, <3>1, <3>2
  <2>6. b < stored
    BY <1>1, <1>2, <1>3, <2>5
  <2> QED
    BY <1>1, <2>4, <2>5, <2>6
<1>4. CASE ~\E i \in h : i.started < stored
  <2>1. Began(h, stored) = stored
    BY <1>4 DEF Began
  <2> QED
    BY <1>1, <1>2, <1>4, <2>1
<1> QED
  BY <1>3, <1>4

LEMMA FirstSeenFacts ==
    ASSUME HistoryInv
    PROVE  /\ FirstSeen \in 0 .. Now /\ FirstSeen \in Nat /\ Now \in Nat
           /\ \A i \in history : FirstSeen <= i.started
<1>1. FirstSeen = Began(history, firstSeen)
  BY DEF FirstSeen, Began
<1>2. FirstSeen \in 0 .. Now /\ \A i \in history : FirstSeen <= i.started
  BY <1>1, BeganFacts DEF HistoryInv
<1> QED
  BY <1>2, ScorecardAssumption

-----------------------------------------------------------------------------
(* Minutes of downtime.                                                    *)

Half == Minute \div 2

LEMMA HalfFacts == Minute \in Nat \ {0} /\ Half \in Nat /\ Half <= Minute /\ Minute - 1 <= 2 * Half
<1>1. Minute \in Nat \ {0}
  BY ScorecardAssumption
<1> QED
  BY <1>1 DEF Half

\* A quotient, as the multiple it stands for.
LEMMA QuotientIs ==
    ASSUME NEW a \in Nat, NEW b \in Nat \ {0}
    PROVE  /\ a \div b \in Nat /\ a \div b <= a
           /\ b * (a \div b) <= a /\ a < b * (a \div b) + b
OBVIOUS

\* What is stored of an outage, and what it lasted.
Stored == [i \in Outages |-> IF i.lasted = Ongoing THEN 0 ELSE Minutes(i)]
Lasted == [i \in Outages |-> IF i.lasted = Ongoing THEN 0 ELSE i.lasted]

\* The minutes stored are off by half a minute at most.
LEMMA StoredNear ==
    ASSUME NEW i \in Outages
    PROVE  /\ Stored[i] \in Nat /\ Lasted[i] \in Nat /\ Stored[i] <= Lasted[i] + Half
           /\ Minute * Stored[i] <= Lasted[i] + Half
           /\ Lasted[i] <= Minute * Stored[i] + Half
<1>1. CASE i.lasted = Ongoing
  <2>1. Stored[i] = 0 /\ Lasted[i] = 0
    BY <1>1 DEF Stored, Lasted
  <2> QED
    BY <2>1, HalfFacts
<1>2. CASE i.lasted # Ongoing
  <2>1. i.lasted \in Nat
    BY <1>2, OutageFacts
  <2>2. PICK a, q : a = i.lasted + Half /\ q = a \div Minute
    OBVIOUS
  <2>3. a \in Nat /\ Minute \in Nat \ {0}
    BY <2>1, <2>2, HalfFacts
  <2>4. q \in Nat /\ q <= a /\ Minute * q <= a /\ a < Minute * q + Minute
    BY <2>2, <2>3, QuotientIs
  <2>5. Stored[i] = q /\ Lasted[i] = i.lasted
    BY <1>2, <2>2 DEF Stored, Lasted, Minutes, Half
  <2>6. PICK p : p = Minute * q
    OBVIOUS
  <2>7. p \in Nat /\ p <= a /\ a < p + Minute
    BY <2>3, <2>4, <2>6
  <2>8. i.lasted <= p + Half
    BY <2>1, <2>2, <2>7, HalfFacts
  <2> QED
    BY <2>1, <2>2, <2>4, <2>5, <2>6, <2>7, <2>8
<1> QED
  BY <1>1, <1>2

LEMMA ResolvedIn ==
    ASSUME NEW h \in SUBSET Outages, IsFiniteSet(h)
    PROVE  /\ Resolved(h) \in SUBSET h /\ Resolved(h) \in SUBSET Outages /\ IsFiniteSet(Resolved(h))
           /\ \A i \in Resolved(h) : Minutes(i) \in Nat /\ Stored[i] = Minutes(i)
<1>1. Resolved(h) \in SUBSET h
  BY DEF Resolved
<1>2. IsFiniteSet(Resolved(h))
  BY <1>1, FS_Subset
<1>3. \A i \in Resolved(h) : Minutes(i) \in Nat /\ Stored[i] = Minutes(i)
  <2> TAKE i \in Resolved(h)
  <2>1. i \in Outages /\ i.lasted # Ongoing
    BY <1>1 DEF Resolved
  <2>2. Stored[i] = Minutes(i)
    BY <2>1 DEF Stored
  <2> QED
    BY <2>1, <2>2, StoredNear
<1> QED
  BY <1>1, <1>2, <1>3

\* The sum of the store is the total of what is stored of the resolved outages.
LEMMA DownTotal ==
    ASSUME NEW h \in SUBSET Outages, IsFiniteSet(h)
    PROVE  /\ DownMinutes(h) = Total(Stored, Resolved(h))
           /\ DownMinutes(h) \in Nat
<1> DEFINE R == Resolved(h)
           First(s) == CHOOSE x \in s : TRUE
           Form(it) == it = [s \in SUBSET R |->
                               IF s = {} THEN 0 ELSE Minutes(First(s)) + it[s \ {First(s)}]]
           sum == CHOOSE it : Form(it)
<1>1. DownMinutes(h) = sum[R]
  BY DEF DownMinutes, MapThenSumSet, MapThenFoldSet
<1>2. IsFiniteSet(R) /\ (\A i \in R : Stored[i] \in Nat) /\ \A i \in R : Stored[i] = Minutes(i)
  BY ResolvedIn
<1> HIDE DEF R
<1>3. \A it : IsSum(it, Stored, R) <=> Form(it)
  <2> TAKE it
  <2> DEFINE Ours(s) == IF s = {} THEN 0 ELSE Minutes(First(s)) + it[s \ {First(s)}]
             Theirs(s) == IF s = {} THEN 0 ELSE Stored[Some(s)] + it[s \ {Some(s)}]
  <2>1. \A s \in SUBSET R : Ours(s) = Theirs(s)
    <3> TAKE s \in SUBSET R
    <3>1. s # {} => First(s) \in s /\ Some(s) = First(s)
      BY DEF Some
    <3> HIDE DEF First
    <3> QED
      BY <1>2, <3>1
  <2>2. [s \in SUBSET R |-> Ours(s)] = [s \in SUBSET R |-> Theirs(s)]
    <3> HIDE DEF Ours, Theirs
    <3> QED
      BY <2>1
  <2>3. Form(it) <=> it = [s \in SUBSET R |-> Ours(s)]
    OBVIOUS
  <2>4. IsSum(it, Stored, R) <=> it = [s \in SUBSET R |-> Theirs(s)]
    BY DEF IsSum
  <2> QED
    BY <2>2, <2>3, <2>4
<1>4. IsSum(sum, Stored, R)
  <2>0. PICK it : IsSum(it, Stored, R)
    BY <1>2, SumDefined
  <2>1. \E form : Form(form)
    <3>1. Form(it)
      <4> HIDE DEF Form
      <4> QED
        BY <1>3, <2>0
    <3> QED
      BY <3>1
  <2>2. Form(sum)
    <3> HIDE DEF Form
    <3> QED
      BY <2>1
  <2> HIDE DEF Form, sum
  <2> QED
    BY <1>3, <2>2
<1>5. R \in SUBSET R
  OBVIOUS
<1>6. sum[R] = Total(Stored, R)
  <2> HIDE DEF sum
  <2> QED
    BY <1>2, <1>4, <1>5, SumIsTotal
<1>7. Total(Stored, R) \in Nat
  BY <1>2, TotalOf
<1> QED
  BY <1>1, <1>6, <1>7 DEF R

\* More outages, more minutes.
LEMMA DownGrows ==
    ASSUME NEW h \in SUBSET Outages, IsFiniteSet(h), NEW g \in SUBSET h
    PROVE  DownMinutes(g) <= DownMinutes(h)
<1>1. IsFiniteSet(g) /\ g \in SUBSET Outages
  BY FS_Subset
<1>2. /\ Resolved(g) \in SUBSET Resolved(h) /\ IsFiniteSet(Resolved(h))
      /\ \A i \in Resolved(h) : Stored[i] \in Nat
  <2>1. Resolved(g) \in SUBSET Resolved(h)
    BY DEF Resolved
  <2> QED
    BY <2>1, ResolvedIn
<1>3. PICK rest : rest = Total(Stored, Resolved(h) \ Resolved(g))
  OBVIOUS
<1>4. Total(Stored, Resolved(h)) = Total(Stored, Resolved(g)) + rest /\ rest \in Nat
  BY <1>2, <1>3, TotalSplit
<1>5. DownMinutes(h) = Total(Stored, Resolved(h)) /\ DownMinutes(h) \in Nat
  BY DownTotal
<1>6. DownMinutes(g) = Total(Stored, Resolved(g)) /\ DownMinutes(g) \in Nat
  BY <1>1, DownTotal
<1> QED
  BY <1>4, <1>5, <1>6

-----------------------------------------------------------------------------
(* The level.                                                              *)

LEMMA QuotientGrows ==
    ASSUME NEW a \in Nat, NEW b \in Nat, a <= b, NEW d \in Nat \ {0}
    PROVE  a \div d <= b \div d /\ a \div d \in Nat
OBVIOUS

LEMMA ObservedFacts ==
    ASSUME NEW since \in 0 .. Now, NEW window \in Nat
    PROVE  /\ Observed(window, since) \in Nat
           /\ Observed(window, since) <= window
           /\ Observed(window, since) <= Now - since
BY ScorecardAssumption DEF Observed

\* The uptime, as the multiple it stands for.
LEMMA UptimeOf ==
    ASSUME NEW d \in Nat, NEW since \in 0 .. Now, NEW window \in Nat
    PROVE  \A D, w, u :
             D = Minute * d /\ w = Observed(window, since) /\ u = Uptime(d, since, window) =>
               /\ D \in Nat /\ w \in Nat /\ u \in Int
               /\ w < 60 * Minute => u = -1
               /\ w >= 60 * Minute /\ D >= w => u = 0
               /\ w >= 60 * Minute /\ D < w =>
                    /\ u \in Nat /\ w \in Nat \ {0}
                    /\ u = (10000 * (w - D) + w \div 2) \div w
                    /\ w * u <= 10000 * (w - D) + w \div 2
                    /\ 10000 * (w - D) <= w * u + w \div 2
<1> SUFFICES
      ASSUME NEW D, D = Minute * d, NEW w, w = Observed(window, since),
             NEW u, u = Uptime(d, since, window)
      PROVE  /\ D \in Nat /\ w \in Nat /\ u \in Int
             /\ w < 60 * Minute => u = -1
             /\ w >= 60 * Minute /\ D >= w => u = 0
             /\ w >= 60 * Minute /\ D < w =>
                  /\ u \in Nat /\ w \in Nat \ {0}
                  /\ u = (10000 * (w - D) + w \div 2) \div w
                  /\ w * u <= 10000 * (w - D) + w \div 2
                  /\ 10000 * (w - D) <= w * u + w \div 2
  OBVIOUS
<1>1. w \in Nat
  BY ObservedFacts
<1>2. D \in Nat
  BY HalfFacts
<1>3. u = IF w < 60 * Minute THEN -1
          ELSE IF D >= w THEN 0
          ELSE (10000 * (w - D) + w \div 2) \div w
  BY DEF Uptime
<1>4. ASSUME w >= 60 * Minute, D < w
      PROVE  /\ u \in Nat /\ w \in Nat \ {0}
             /\ w * u <= 10000 * (w - D) + w \div 2
             /\ 10000 * (w - D) <= w * u + w \div 2
  <2>1. w \in Nat \ {0}
    BY <1>1, <1>4, HalfFacts
  <2>2. PICK h, a : h = w \div 2 /\ a = 10000 * (w - D)
    OBVIOUS
  <2>3. h \in Nat /\ w - 1 <= 2 * h /\ 2 * h <= w /\ a \in Nat
    BY <1>1, <1>2, <1>4, <2>2
  <2>4. u = (a + h) \div w
    BY <1>1, <1>2, <1>3, <1>4, <2>2, HalfFacts
  <2>5. u \in Nat /\ w * u <= a + h /\ a + h < w * u + w
    <3>1. PICK n \in Nat : n = a + h
      BY <2>3
    <3>2. n \div w \in Nat /\ w * (n \div w) <= n /\ n < w * (n \div w) + w
      BY <2>1, QuotientIs
    <3> QED
      BY <2>4, <3>1, <3>2
  <2>6. PICK p : p = w * u
    OBVIOUS
  <2>7. p \in Nat
    BY <2>1, <2>5, <2>6
  <2>8. a <= p + h
    BY <1>1, <2>3, <2>5, <2>6, <2>7
  <2> QED
    BY <2>1, <2>2, <2>5, <2>6, <2>8
<1> QED
  BY <1>1, <1>2, <1>3, <1>4, HalfFacts

\* More minutes down, less uptime.
LEMMA UptimeFalls ==
    ASSUME NEW less \in Nat, NEW more \in Nat, less <= more, NEW since \in 0 .. Now, NEW window \in Nat
    PROVE  /\ Uptime(less, since, window) \in Int /\ Uptime(more, since, window) \in Int
           /\ \A bound \in Nat : Below(Uptime(less, since, window), bound)
                                    => Below(Uptime(more, since, window), bound)
<1>1. PICK w, D, E, u, v : /\ w = Observed(window, since) /\ D = Minute * less /\ E = Minute * more
                           /\ u = Uptime(less, since, window) /\ v = Uptime(more, since, window)
  OBVIOUS
<1>2. /\ D \in Nat /\ w \in Nat /\ u \in Int
      /\ w < 60 * Minute => u = -1
      /\ w >= 60 * Minute /\ D >= w => u = 0
      /\ w >= 60 * Minute /\ D < w => /\ u \in Nat /\ w \in Nat \ {0}
                                      /\ u = (10000 * (w - D) + w \div 2) \div w
  <2>1. D \in Nat /\ w \in Nat /\ u \in Int
    BY <1>1, UptimeOf
  <2>2. w < 60 * Minute => u = -1
    BY <1>1, UptimeOf
  <2>3. w >= 60 * Minute /\ D >= w => u = 0
    BY <1>1, UptimeOf
  <2>4. w >= 60 * Minute /\ D < w => u \in Nat
    BY <1>1, UptimeOf
  <2>5. w >= 60 * Minute /\ D < w => w \in Nat \ {0}
    BY <1>1, UptimeOf
  <2>6. w >= 60 * Minute /\ D < w => u = (10000 * (w - D) + w \div 2) \div w
    BY <1>1, UptimeOf
  <2> QED
    BY <2>1, <2>2, <2>3, <2>4, <2>5, <2>6
<1>3. /\ E \in Nat /\ v \in Int
      /\ w < 60 * Minute => v = -1
      /\ w >= 60 * Minute /\ E >= w => v = 0
      /\ w >= 60 * Minute /\ E < w => v = (10000 * (w - E) + w \div 2) \div w
  BY <1>1, UptimeOf
<1>4. D <= E
  <2>1. PICK rest : rest = more - less
    OBVIOUS
  <2>2. rest \in Nat /\ more = less + rest
    BY <2>1
  <2>3. PICK R : R = Minute * rest
    OBVIOUS
  <2>4. R \in Nat /\ E = D + R
    BY <1>1, <2>2, <2>3, HalfFacts
  <2> QED
    BY <1>2, <2>4
<1>5. CASE w < 60 * Minute
  BY <1>1, <1>2, <1>3, <1>5 DEF Below
<1>6. CASE w >= 60 * Minute /\ E >= w
  BY <1>1, <1>2, <1>3, <1>6 DEF Below
<1>7. CASE w >= 60 * Minute /\ E < w
  <2>1. D < w /\ w \in Nat \ {0}
    BY <1>2, <1>3, <1>4, <1>7
  <2>2. PICK a, b : a = 10000 * (w - E) + w \div 2 /\ b = 10000 * (w - D) + w \div 2
    OBVIOUS
  <2>3. a \in Nat /\ b \in Nat /\ a <= b
    BY <1>2, <1>3, <1>4, <1>7, <2>1, <2>2
  <2>4. v = a \div w /\ u = b \div w
    BY <1>2, <1>3, <1>7, <2>1, <2>2
  <2>5. a \div w <= b \div w /\ a \div w \in Nat
    BY <2>1, <2>3, QuotientGrows
  <2> QED
    BY <1>1, <1>2, <1>3, <2>4, <2>5 DEF Below
<1>8. Minute \in Nat
  BY HalfFacts
<1> QED
  BY <1>2, <1>3, <1>5, <1>6, <1>7, <1>8

\* What Build reads of the statistics.
LEMMA LevelOf ==
    ASSUME NEW h, NEW since, NEW cur
    PROVE  Build(h, since, cur).Level =
             LET n7 == Cardinality(Since(h, Window7d))
                 n30 == Cardinality(Since(h, Window30d))
                 up7 == Uptime(DownMinutes(Since(h, Window7d)), since, Window7d)
                 up30 == Uptime(DownMinutes(Since(h, Window30d)), since, Window30d)
             IN  IF cur = "down" THEN "down"
                 ELSE IF n7 >= 3 \/ Below(up7, 9800) \/ Below(up30, 9500) THEN "shaky"
                 ELSE IF n30 >= 1 \/ Below(up30, 9990) THEN "mostly-stable" ELSE "solid"
<1> DEFINE st == Stats(h)
<1>1. /\ st.Incidents7d = Cardinality(Since(h, Window7d))
      /\ st.Incidents30d = Cardinality(Since(h, Window30d))
      /\ st.DownMinutes7d = DownMinutes(Since(h, Window7d))
      /\ st.DownMinutes30d = DownMinutes(Since(h, Window30d))
  BY DEF Stats
<1>2. Build(h, since, cur).Level =
         Level(st, Uptime(st.DownMinutes7d, since, Window7d), Uptime(st.DownMinutes30d, since, Window30d), cur)
  BY DEF Build
<1> HIDE DEF st
<1> QED
  BY <1>1, <1>2 DEF Level

LEMMA MoreIsWorse ==
    ASSUME NEW h \in SUBSET Outages, IsFiniteSet(h), NEW g \in SUBSET h, NEW since \in 0 .. Now, NEW cur
    PROVE  Rank[Build(g, since, cur).Level] <= Rank[Build(h, since, cur).Level]
<1>1. ASSUME NEW window \in Nat
      PROVE  /\ Cardinality(Since(g, window)) \in Nat /\ Cardinality(Since(h, window)) \in Nat
             /\ Cardinality(Since(g, window)) <= Cardinality(Since(h, window))
             /\ \A bound \in Nat :
                  Below(Uptime(DownMinutes(Since(g, window)), since, window), bound)
                    => Below(Uptime(DownMinutes(Since(h, window)), since, window), bound)
  <2>1. Since(g, window) \in SUBSET Since(h, window) /\ Since(h, window) \in SUBSET h
    BY DEF Since
  <2>2. /\ IsFiniteSet(Since(h, window)) /\ IsFiniteSet(Since(g, window))
        /\ Since(h, window) \in SUBSET Outages /\ Since(g, window) \in SUBSET Outages
    BY <2>1, FS_Subset
  <2>3. /\ Cardinality(Since(g, window)) \in Nat /\ Cardinality(Since(h, window)) \in Nat
        /\ Cardinality(Since(g, window)) <= Cardinality(Since(h, window))
    BY <2>1, <2>2, FS_Subset, FS_CardinalityType
  <2>4. DownMinutes(Since(g, window)) \in Nat /\ DownMinutes(Since(h, window)) \in Nat
    BY <2>2, DownTotal
  <2>5. DownMinutes(Since(g, window)) <= DownMinutes(Since(h, window))
    BY <2>1, <2>2, DownGrows
  <2> QED
    BY <2>3, <2>4, <2>5, UptimeFalls
<1>2. Window7d \in Nat /\ Window30d \in Nat
  BY HalfFacts DEF Window7d, Window30d, Day
<1> DEFINE n7(x) == Cardinality(Since(x, Window7d))
           n30(x) == Cardinality(Since(x, Window30d))
           up7(x) == Uptime(DownMinutes(Since(x, Window7d)), since, Window7d)
           up30(x) == Uptime(DownMinutes(Since(x, Window30d)), since, Window30d)
<1>3. /\ n7(g) \in Nat /\ n7(h) \in Nat /\ n7(g) <= n7(h)
      /\ n30(g) \in Nat /\ n30(h) \in Nat /\ n30(g) <= n30(h)
      /\ \A bound \in Nat : /\ Below(up7(g), bound) => Below(up7(h), bound)
                            /\ Below(up30(g), bound) => Below(up30(h), bound)
  BY <1>1, <1>2
<1>4. \A x : Build(x, since, cur).Level =
        IF cur = "down" THEN "down"
        ELSE IF n7(x) >= 3 \/ Below(up7(x), 9800) \/ Below(up30(x), 9500) THEN "shaky"
        ELSE IF n30(x) >= 1 \/ Below(up30(x), 9990) THEN "mostly-stable" ELSE "solid"
  BY LevelOf
<1> HIDE DEF n7, n30, up7, up30
<1>5. /\ Rank["solid"] = 0 /\ Rank["mostly-stable"] = 1 /\ Rank["shaky"] = 2 /\ Rank["down"] = 3
  BY DEF Rank
<1>6. PICK lg, lh : lg = Build(g, since, cur).Level /\ lh = Build(h, since, cur).Level
  OBVIOUS
<1>7. /\ lg = IF cur = "down" THEN "down"
              ELSE IF n7(g) >= 3 \/ Below(up7(g), 9800) \/ Below(up30(g), 9500) THEN "shaky"
              ELSE IF n30(g) >= 1 \/ Below(up30(g), 9990) THEN "mostly-stable" ELSE "solid"
      /\ lh = IF cur = "down" THEN "down"
              ELSE IF n7(h) >= 3 \/ Below(up7(h), 9800) \/ Below(up30(h), 9500) THEN "shaky"
              ELSE IF n30(h) >= 1 \/ Below(up30(h), 9990) THEN "mostly-stable" ELSE "solid"
  BY <1>4, <1>6
<1>8. Rank[lg] <= Rank[lh]
  BY <1>3, <1>5, <1>7
<1> QED
  BY <1>6, <1>8

\* A window that was observed as a whole does not care when the monitoring began.
LEMMA WholeWindow ==
    ASSUME NEW since \in 0 .. Now, NEW earlier \in 0 .. Now, earlier <= since,
           Now - since >= Window30d, NEW h, NEW cur
    PROVE  Build(h, earlier, cur).Level = Build(h, since, cur).Level
<1>1. Window7d \in Nat /\ Window30d \in Nat /\ Window7d <= Window30d
  <2>1. Minute \in Nat
    BY HalfFacts
  <2> QED
    BY <2>1 DEF Window7d, Window30d, Day
<1>2. ASSUME NEW window \in {Window7d, Window30d}
      PROVE  Observed(window, earlier) = window /\ Observed(window, since) = window
  BY <1>1, ScorecardAssumption DEF Observed
<1>3. \A d : /\ Uptime(d, earlier, Window7d) = Uptime(d, since, Window7d)
             /\ Uptime(d, earlier, Window30d) = Uptime(d, since, Window30d)
  <2>1. /\ Observed(Window7d, earlier) = Observed(Window7d, since)
        /\ Observed(Window30d, earlier) = Observed(Window30d, since)
    BY <1>2
  <2> QED
    BY <2>1 DEF Uptime
<1> QED
  BY <1>3, LevelOf

\* An outage that gets its row makes the service look more stable only if it moves
\* the beginning of the monitoring back, of a service that was watched for less than
\* 30 days; otherwise never, however the windows, the age of the service and the
\* rounding of its minutes and of its uptime fall.
THEOREM HistoryOnlyHurts == ScoreSpec => MoreOutagesNoBetter
<1>1. ASSUME HistoryInv, HistoryInv', [ScoreNext]_scoreVars,
             ~(FirstSeen' < FirstSeen /\ Now - FirstSeen < Window30d)
      PROVE  Rank[Card.Level] <= Rank[Card'.Level]
  <2>1. history \in SUBSET history' /\ firstSeen' = firstSeen /\ Current' = Current
    BY <1>1 DEF ScoreNext, Record, scoreVars, Current, Checked, CheckResult
  <2>2. /\ history' \in SUBSET Outages /\ IsFiniteSet(history') /\ history \in SUBSET Outages
        /\ firstSeen \in FirstSeens
    BY <1>1 DEF HistoryInv
  <2>3. PICK old, new : old = Began(history, firstSeen) /\ new = Began(history', firstSeen)
    OBVIOUS
  <2>4. FirstSeen = old /\ FirstSeen' = new
    BY <2>1, <2>3 DEF FirstSeen, Began
  <2>5. old \in 0 .. Now /\ new \in 0 .. Now /\ new <= old
    <3>1. /\ old \in 0 .. Now /\ (old = firstSeen \/ \E i \in history : old = i.started)
      BY <2>2, <2>3, BeganFacts
    <3>2. /\ new \in 0 .. Now /\ new <= firstSeen /\ \A i \in history' : new <= i.started
      BY <2>2, <2>3, BeganFacts
    <3> QED
      BY <2>1, <3>1, <3>2
  <2>6. Rank[Build(history, old, Current).Level] <= Rank[Build(history', old, Current).Level]
    BY <2>1, <2>2, <2>5, MoreIsWorse
  <2>7. Build(history', new, Current).Level = Build(history', old, Current).Level
    <3>1. CASE new = old
      BY <3>1
    <3>2. CASE new # old
      <4>1. new < old
        BY <2>5, <3>2
      <4>2. ~(Now - old < Window30d)
        BY <1>1, <2>4, <4>1
      <4>3. Now - old >= Window30d
        <5>1. Window30d \in Nat /\ Now \in Nat
          BY HalfFacts, ScorecardAssumption DEF Window30d, Day
        <5> QED
          BY <2>5, <4>2, <5>1
      <4> QED
        BY <2>5, <4>3, WholeWindow
    <3> QED
      BY <3>1, <3>2
  <2>8. Card = Build(history, old, Current) /\ Card' = Build(history', new, Current)
    BY <2>1, <2>4 DEF Card
  <2> QED
    BY <2>6, <2>7, <2>8
<1>2. ASSUME HistoryInv, [ScoreNext]_scoreVars
      PROVE  Rank[Card.Level] \in Nat /\ Rank[Card'.Level] \in Nat
  <2>1. Rank \in [{"solid", "mostly-stable", "shaky", "down"} -> Nat]
    BY DEF Rank
  <2>2. \A h, since, cur : Build(h, since, cur).Level \in {"solid", "mostly-stable", "shaky", "down"}
    BY LevelOf
  <2>3. Card = Build(history, FirstSeen, Current) /\ Card' = Build(history', FirstSeen', Current')
    BY DEF Card
  <2> QED
    BY <2>1, <2>2, <2>3
<1>3. HistoryInv /\ HistoryInv' /\ [ScoreNext]_scoreVars
        => [history' # history /\ Rank[Card'.Level] < Rank[Card.Level]
              => FirstSeen' < FirstSeen /\ Now - FirstSeen < Window30d]_scoreVars
  <2> SUFFICES ASSUME HistoryInv, HistoryInv', [ScoreNext]_scoreVars,
                      Rank[Card'.Level] < Rank[Card.Level]
               PROVE  FirstSeen' < FirstSeen /\ Now - FirstSeen < Window30d
    OBVIOUS
  <2>1. PICK m, n : m = Rank[Card.Level] /\ n = Rank[Card'.Level]
    OBVIOUS
  <2>2. m \in Nat /\ n \in Nat /\ n < m
    BY <1>2, <2>1
  <2>3. ~(m <= n)
    BY <2>2
  <2> QED
    BY <1>1, <2>1, <2>3
<1> QED
  BY <1>3, HistoryAlways, PTL DEF ScoreSpec, MoreOutagesNoBetter

-----------------------------------------------------------------------------
(* The uptime.                                                             *)

\* Outages that lie apart after from and before to last no longer than that.
LEMMA ApartFits ==
    ASSUME NEW S \in SUBSET Outages, IsFiniteSet(S), \A i \in S : i.lasted \in Nat,
           \A i, j \in S : i = j \/ End(i) < j.started \/ End(j) < i.started,
           NEW from \in Nat, \A i \in S : from <= i.started,
           NEW to \in Nat, from <= to, \A i \in S : End(i) <= to
    PROVE  Total(Lasted, S) <= to - from
<1> DEFINE Fits(T) == \A b \in Nat : from <= b /\ (\A i \in T : End(i) <= b)
                                       => Total(Lasted, T) <= b - from
           Bad == {T \in SUBSET S : ~Fits(T)}
<1>0. ASSUME NEW i \in S
      PROVE  /\ i.started \in Nat /\ i.lasted \in Nat /\ Lasted[i] = i.lasted
             /\ End(i) = i.started + i.lasted /\ from <= i.started
  <2>1. i \in Outages /\ i.lasted \in Nat
    OBVIOUS
  <2>2. i.lasted # Ongoing /\ i.started \in Nat /\ End(i) = i.started + i.lasted
    BY <2>1, OutageFacts
  <2> QED
    BY <2>1, <2>2 DEF Lasted
<1>1. \A T \in SUBSET S : /\ Total(Lasted, T) \in Nat
                          /\ \A x \in T : Total(Lasted, T) = Lasted[x] + Total(Lasted, T \ {x})
  <2> TAKE T \in SUBSET S
  <2>1. IsFiniteSet(T) /\ \A x \in T : Lasted[x] \in Nat
    BY <1>0, FS_Subset
  <2> QED
    BY <2>1, TotalOf
<1>2. Total(Lasted, {}) = 0
  <2>1. \A x \in S : Lasted[x] \in Nat
    BY <1>0
  <2> QED
    BY <2>1, TotalOf
<1>3. Bad = {}
  <2> SUFFICES ASSUME Bad # {} PROVE FALSE
    OBVIOUS
  <2>1. PICK T \in Bad : \A U \in Bad : Cardinality(T) <= Cardinality(U)
    <3>1. \A T \in Bad : IsFiniteSet(T)
      BY FS_Subset
    <3> HIDE DEF Bad
    <3> QED
      BY <3>1, SmallestSet
  <2>2. T \in SUBSET S /\ ~Fits(T)
    OBVIOUS
  <2>3. PICK b \in Nat : /\ from <= b /\ (\A i \in T : End(i) <= b)
                         /\ ~(Total(Lasted, T) <= b - from)
    BY <2>2
  <2>4. T # {}
    BY <1>2, <2>3
  <2>5. PICK x \in T : \A i \in T : i.started <= x.started
    <3> DEFINE starts == {i.started : i \in T}
    <3>1. ASSUME NEW i \in T PROVE i.started \in 0 .. b
      <4>1. i \in S /\ End(i) <= b
        BY <2>2, <2>3
      <4> QED
        BY <1>0, <4>1
    <3>2. starts \in SUBSET (0 .. b) /\ starts # {}
      BY <2>4, <3>1
    <3>3. PICK n \in starts : \A m \in starts : m <= n
      <4> HIDE DEF starts
      <4> QED
        BY <3>2, GreatestNumber
    <3> QED
      BY <3>3
  <2>6. x \in S /\ End(x) <= b
    BY <2>2, <2>3
  <2>7. \A i \in T \ {x} : End(i) <= x.started
    <3> TAKE i \in T \ {x}
    <3>1. i \in S /\ i # x /\ i.started <= x.started /\ (End(i) < x.started \/ End(x) < i.started)
      BY <2>2, <2>5, <2>6
    <3>2. /\ i.started \in Nat /\ i.lasted \in Nat /\ End(i) = i.started + i.lasted
          /\ x.started \in Nat /\ x.lasted \in Nat /\ End(x) = x.started + x.lasted
      BY <1>0, <2>6, <3>1
    <3> QED
      BY <3>1, <3>2
  <2>8. Fits(T \ {x})
    <3>1. T \ {x} \in SUBSET S /\ ~(Cardinality(T) <= Cardinality(T \ {x}))
      BY <2>2, OneLess
    <3> HIDE DEF Fits
    <3> QED
      BY <2>1, <3>1
  <2>9. Total(Lasted, T \ {x}) <= x.started - from
    BY <1>0, <2>6, <2>7, <2>8
  <2>10. PICK rest : rest = Total(Lasted, T \ {x})
    OBVIOUS
  <2>11. rest \in Nat /\ Total(Lasted, T) = x.lasted + rest
    <3>1. T \ {x} \in SUBSET S
      BY <2>2
    <3> QED
      BY <1>0, <1>1, <2>2, <2>6, <2>10, <3>1
  <2>12. /\ x.started \in Nat /\ x.lasted \in Nat /\ End(x) = x.started + x.lasted
    BY <1>0, <2>6
  <2> QED
    BY <2>3, <2>6, <2>9, <2>10, <2>11, <2>12
<1>4. Fits(S)
  BY <1>3
<1> QED
  BY <1>4

\* What an outage takes of the time after from.
Cut(from) ==
    [i \in Outages |->
        LET a == IF i.started < from THEN from ELSE i.started
        IN  IF End(i) > a THEN End(i) - a ELSE 0]

LEMMA CutNat == ASSUME NEW from \in Nat PROVE \A i \in Outages : Cut(from)[i] \in Nat
<1> TAKE i \in Outages
<1>1. i.started \in Nat /\ End(i) \in Nat
  BY OutageFacts
<1> QED
  BY <1>1 DEF Cut

\* The part of a window the numbers speak of.
LEMMA SeenFacts ==
    ASSUME HistoryInv, NEW window \in Nat
    PROVE  /\ Seen(window) \in Nat /\ Seen(window) <= window /\ Seen(window) <= Now - FirstSeen
           /\ Now \in Nat /\ FirstSeen \in 0 .. Now
           /\ Now - Seen(window) \in Nat
           /\ Now - Seen(window) = FirstSeen \/ Now - Seen(window) = Now - window
           /\ Observed(window, FirstSeen) = Seen(window)
<1>1. FirstSeen \in 0 .. Now /\ Now \in Nat
  BY FirstSeenFacts
<1>2. Seen(window) = IF Now - FirstSeen < window THEN Now - FirstSeen ELSE window
  BY DEF Seen
<1>3. Observed(window, FirstSeen) = Seen(window)
  BY <1>2 DEF Observed
<1> HIDE DEF Seen
<1> QED
  BY <1>1, <1>2, <1>3

\* The sum of the definition is the total of what they take.
LEMMA LostTotal ==
    ASSUME HistoryInv, NEW window \in Nat
    PROVE  Lost(window) = Total(Cut(Now - Seen(window)), history)
<1> DEFINE from == Now - Seen(window)
           Taken(i) == LET a == IF i.started < from THEN from ELSE i.started
                       IN  IF End(i) > a THEN End(i) - a ELSE 0
           First(s) == CHOOSE x \in s : TRUE
           Form(it) == it = [s \in SUBSET history |->
                               IF s = {} THEN 0 ELSE Taken(First(s)) + it[s \ {First(s)}]]
           sum == CHOOSE it : Form(it)
<1>1. Lost(window) = sum[history]
  BY DEF Lost, MapThenSumSet, MapThenFoldSet
<1>2. from \in Nat
  BY SeenFacts
<1>3. \A i \in history : Cut(from)[i] = Taken(i) /\ Cut(from)[i] \in Nat
  <2>1. \A i \in history : Cut(from)[i] \in Nat
    BY <1>2, CutNat DEF HistoryInv
  <2>2. \A i \in history : Cut(from)[i] = Taken(i)
    BY DEF Cut, HistoryInv
  <2> QED
    BY <2>1, <2>2
<1> HIDE DEF from, Taken
<1> DEFINE v == Cut(from)
<1>4. IsFiniteSet(history) /\ \A i \in history : v[i] = Taken(i) /\ v[i] \in Nat
  BY <1>3 DEF HistoryInv
<1> HIDE DEF v
<1>5. \A it : IsSum(it, v, history) <=> Form(it)
  <2> TAKE it
  <2> DEFINE Ours(s) == IF s = {} THEN 0 ELSE Taken(First(s)) + it[s \ {First(s)}]
             Theirs(s) == IF s = {} THEN 0 ELSE v[Some(s)] + it[s \ {Some(s)}]
  <2>1. \A s \in SUBSET history : Ours(s) = Theirs(s)
    <3> TAKE s \in SUBSET history
    <3>1. s # {} => First(s) \in s /\ Some(s) = First(s)
      BY DEF Some
    <3> HIDE DEF First
    <3> QED
      BY <1>4, <3>1
  <2>2. [s \in SUBSET history |-> Ours(s)] = [s \in SUBSET history |-> Theirs(s)]
    <3> HIDE DEF Ours, Theirs
    <3> QED
      BY <2>1
  <2>3. Form(it) <=> it = [s \in SUBSET history |-> Ours(s)]
    OBVIOUS
  <2>4. IsSum(it, v, history) <=> it = [s \in SUBSET history |-> Theirs(s)]
    BY DEF IsSum
  <2> QED
    BY <2>2, <2>3, <2>4
<1>6. IsSum(sum, v, history)
  <2>1. PICK it : IsSum(it, v, history)
    BY <1>4, SumDefined
  <2>2. \E form : Form(form)
    <3>1. Form(it)
      <4> HIDE DEF Form
      <4> QED
        BY <1>5, <2>1
    <3> QED
      BY <3>1
  <2>3. Form(sum)
    <3> HIDE DEF Form
    <3> QED
      BY <2>2
  <2> HIDE DEF Form, sum
  <2> QED
    BY <1>5, <2>3
<1>7. history \in SUBSET history
  OBVIOUS
<1>8. sum[history] = Total(v, history)
  <2> HIDE DEF sum
  <2> QED
    BY <1>4, <1>6, <1>7, SumIsTotal
<1> QED
  BY <1>1, <1>8 DEF v, from

\* What a window has lost is what the outages counted for it lasted and what the
\* others take of it; that fits into what was observed, and is near what is summed.
LEMMA LostIsCounted ==
    ASSUME HistoryInv, NEW window \in Nat,
           NEW from, from = Now - Seen(window),
           NEW counted, counted = Resolved(Since(history, window))
    PROVE  LET D == Minute * DownMinutes(Since(history, window))
               L == Total(Lasted, counted)
               R == RoundedOff(window)
           IN  /\ DownMinutes(Since(history, window)) \in Nat
               /\ D \in Nat /\ L \in Nat /\ R \in Nat
               /\ D <= L + R /\ L <= D + R /\ L <= Seen(window)
               /\ Total(Cut(from), history \ counted) \in Nat
               /\ Lost(window) = L + Total(Cut(from), history \ counted)
<1> DEFINE w == Seen(window)
           recent == Since(history, window)
           L == Total(Lasted, counted)
<1>1. /\ w \in Nat /\ w <= window /\ w <= Now - FirstSeen
      /\ FirstSeen \in Nat /\ Now \in Nat
      /\ from \in Nat /\ (from = FirstSeen \/ from = Now - window)
  BY SeenFacts
<1>2. from = Now - w
  OBVIOUS
<1> HIDE DEF w
<1>3. from <= Now /\ Now - from = w
  BY <1>1, <1>2
<1>4. /\ history \in SUBSET Outages /\ IsFiniteSet(history)
      /\ recent \in SUBSET Outages /\ IsFiniteSet(recent)
      /\ counted \in SUBSET history /\ counted \in SUBSET Outages /\ IsFiniteSet(counted)
  BY FS_Subset DEF HistoryInv, Since, Resolved
<1>5. ASSUME NEW i \in counted
      PROVE  /\ i.started \in Nat /\ i.lasted \in Nat /\ i.lasted # Ongoing
             /\ End(i) = i.started + i.lasted
             /\ End(i) <= Now /\ from <= i.started /\ Lasted[i] = i.lasted
             /\ Cut(from)[i] = i.lasted
  <2>1. i \in history /\ i \in Outages /\ i.lasted # Ongoing /\ Now - i.started <= window
    BY <1>4 DEF Since, Resolved
  <2>2. i.started \in Nat /\ i.lasted \in Nat /\ End(i) = i.started + i.lasted
    BY <2>1, OutageFacts
  <2>3. Lasted[i] = i.lasted
    BY <2>1 DEF Lasted
  <2>4. End(i) <= Now /\ FirstSeen <= i.started
    BY <2>1, FirstSeenFacts DEF HistoryInv
  <2>5. from <= i.started
    BY <1>1, <2>1, <2>2, <2>4
  <2>6. Cut(from)[i] = LET a == IF i.started < from THEN from ELSE i.started
                       IN  IF End(i) > a THEN End(i) - a ELSE 0
    BY <2>1 DEF Cut
  <2>7. Cut(from)[i] = i.lasted
    BY <1>1, <2>2, <2>5, <2>6
  <2> QED
    BY <2>1, <2>2, <2>3, <2>4, <2>5, <2>7
<1>6. DownMinutes(recent) = Total(Stored, counted) /\ DownMinutes(recent) \in Nat
  <2> HIDE DEF recent
  <2> QED
    BY <1>4, DownTotal DEF recent
<1>7. L <= Now - from
  <2>1. /\ \A i \in counted : i.lasted \in Nat
        /\ \A i \in counted : from <= i.started
        /\ \A i \in counted : End(i) <= Now
    BY <1>5
  <2>2. \A i, j \in counted : i = j \/ End(i) < j.started \/ End(j) < i.started
    BY <1>4, <1>5 DEF HistoryInv
  <2> QED
    BY <1>1, <1>3, <1>4, <2>1, <2>2, ApartFits
<1>8. /\ L \in Nat
      /\ Minute * Total(Stored, counted) <= L + Half * Cardinality(counted)
      /\ L <= Minute * Total(Stored, counted) + Half * Cardinality(counted)
  <2>1. \A i \in counted : /\ Stored[i] \in Nat /\ Lasted[i] \in Nat
                           /\ Minute * Stored[i] <= Lasted[i] + Half
                           /\ Lasted[i] <= Minute * Stored[i] + Half
    BY <1>4, StoredNear
  <2>2. L \in Nat
    <3>1. \A i \in counted : Lasted[i] \in Nat
      BY <2>1
    <3> QED
      BY <1>4, <3>1, TotalOf
  <2>3. Minute \in Nat /\ Half \in Nat
    BY HalfFacts
  <2> HIDE DEF L
  <2>4. /\ Minute * Total(Stored, counted) <= Total(Lasted, counted) + Half * Cardinality(counted)
        /\ Total(Lasted, counted) <= Minute * Total(Stored, counted) + Half * Cardinality(counted)
    BY <1>4, <2>1, <2>3, TotalsNear
  <2> QED
    BY <2>2, <2>4 DEF L
<1>9. RoundedOff(window) = Half * Cardinality(counted) /\ RoundedOff(window) \in Nat
  <2>1. RoundedOff(window) = Half * Cardinality(counted)
    BY DEF RoundedOff, Half
  <2>2. Cardinality(counted) \in Nat
    BY <1>4, FS_CardinalityType
  <2>3. PICK n : n = Cardinality(counted)
    OBVIOUS
  <2>4. Half * n \in Nat
    BY <2>2, <2>3, HalfFacts
  <2> QED
    BY <2>1, <2>3, <2>4
<1> DEFINE v == Cut(from)
           rest == Total(v, history \ counted)
<1>10. Lost(window) = Total(v, history)
  BY LostTotal
<1>11. /\ \A i \in history : v[i] \in Nat
       /\ \A i \in counted : Lasted[i] \in Nat /\ v[i] = Lasted[i]
  <2>1. \A i \in history : v[i] \in Nat
    BY <1>1, <1>4, CutNat
  <2> QED
    BY <1>5, <2>1
<1> HIDE DEF v, recent, L
<1>12. Total(v, history) = Total(v, counted) + rest /\ rest \in Nat
  <2>1. IsFiniteSet(history) /\ counted \in SUBSET history /\ \A i \in history : v[i] \in Nat
    BY <1>4, <1>11
  <2>2. /\ Total(v, counted) \in Nat /\ Total(v, history \ counted) \in Nat
        /\ Total(v, history) = Total(v, counted) + Total(v, history \ counted)
    BY <2>1, TotalSplit
  <2> QED
    BY <2>2
<1>13. L = Total(v, counted)
  <2>1. Total(Lasted, counted) = Total(v, counted)
    BY <1>4, <1>11, TotalSame
  <2> QED
    BY <2>1 DEF L
<1> HIDE DEF rest
<1>14. Lost(window) = L + rest
  BY <1>10, <1>12, <1>13
<1>15. L <= w
  BY <1>3, <1>7
<1>16. PICK D : D = Minute * DownMinutes(recent)
  OBVIOUS
<1>17. D \in Nat
  BY <1>6, <1>16, HalfFacts
<1>18. D <= L + RoundedOff(window) /\ L <= D + RoundedOff(window)
  BY <1>6, <1>8, <1>9, <1>16
<1> QED
  BY <1>6, <1>8, <1>9, <1>12, <1>14, <1>15, <1>16, <1>17, <1>18 DEF rest, v, recent, w, L

\* The uptime shown is off by the rounding only, if what is counted is all of what was
\* lost; of the truth it is the upper end else.
LEMMA UptimeIsNear ==
    ASSUME HistoryInv, NEW window \in Nat, window >= 60 * Minute, Now - FirstSeen >= 60 * Minute,
           NEW from, from = Now - Seen(window),
           NEW counted, counted = Resolved(Since(history, window)),
           NEW rest, rest = Total(Cut(from), history \ counted)
    PROVE  /\ TrulyUp(window) <= ShownUp(window) + Slack(window)
           /\ rest = 0 => ShownUp(window) <= TrulyUp(window) + Slack(window)
<1>1. PICK w, d, D, L, R, u :
        /\ w = Seen(window) /\ d = DownMinutes(Since(history, window)) /\ D = Minute * d
        /\ L = Total(Lasted, counted) /\ R = RoundedOff(window) /\ u = Uptime(d, FirstSeen, window)
  OBVIOUS
<1>2. /\ d \in Nat /\ D \in Nat /\ L \in Nat /\ R \in Nat /\ rest \in Nat
      /\ D <= L + R /\ L <= D + R /\ L <= w /\ Lost(window) = L + rest
  BY <1>1, LostIsCounted
<1>3. /\ w \in Nat /\ w >= 60 * Minute /\ w = Observed(window, FirstSeen) /\ FirstSeen \in 0 .. Now
  <2>1. w \in Nat /\ w = Observed(window, FirstSeen) /\ FirstSeen \in 0 .. Now
    BY <1>1, SeenFacts
  <2>2. w = IF Now - FirstSeen < window THEN Now - FirstSeen ELSE window
    BY <1>1 DEF Seen
  <2> QED
    BY <2>1, <2>2
<1>4. /\ u \in Int
      /\ D >= w => u = 0
      /\ D < w => /\ u \in Nat
                  /\ w * u <= 10000 * (w - D) + w \div 2
                  /\ 10000 * (w - D) <= w * u + w \div 2
  <2>1. d \in Nat /\ FirstSeen \in 0 .. Now /\ window \in Nat /\ D = Minute * d
        /\ w = Observed(window, FirstSeen) /\ u = Uptime(d, FirstSeen, window)
    BY <1>1, <1>2, <1>3
  <2>2. u \in Int
    BY <2>1, UptimeOf
  <2>3. D >= w => u = 0
    BY <1>3, <2>1, UptimeOf
  <2>4. D < w => u \in Nat
    BY <1>3, <2>1, UptimeOf
  <2>5. D < w => w * u <= 10000 * (w - D) + w \div 2
    BY <1>3, <2>1, UptimeOf
  <2>6. D < w => 10000 * (w - D) <= w * u + w \div 2
    BY <1>3, <2>1, UptimeOf
  <2> QED
    BY <2>2, <2>3, <2>4, <2>5, <2>6
<1>5. PICK p, h : p = u * w /\ h = w \div 2
  OBVIOUS
<1>6. p = w * u /\ p \in Int /\ h \in Nat /\ (u = 0 => p = 0)
  BY <1>3, <1>4, <1>5
<1>7. /\ ShownUp(window) = p
      /\ TrulyUp(window) = 10000 * (w - (L + rest))
      /\ Slack(window) = 10000 * R + h
  BY <1>1, <1>2, <1>5 DEF ShownUp, TrulyUp, Slack
<1>8. CASE D >= w
  <2>1. p = 0
    BY <1>4, <1>6, <1>8
  <2> QED
    BY <1>2, <1>3, <1>6, <1>7, <1>8, <2>1
<1>9. CASE D < w
  <2>1. p <= 10000 * (w - D) + h /\ 10000 * (w - D) <= p + h
    BY <1>4, <1>5, <1>6, <1>9
  <2> QED
    BY <1>2, <1>3, <1>6, <1>7, <1>9, <2>1
<1> QED
  BY <1>2, <1>3, <1>8, <1>9

\* Outages that are over and do not reach into a window take nothing of it.
LEMMA NothingElseLost ==
    ASSUME HistoryInv, NEW window \in Nat,
           NEW from, from = Now - Seen(window),
           NEW counted, counted = Resolved(Since(history, window)),
           \A i \in history : i.lasted # Ongoing /\ (i.started >= Now - window \/ End(i) < Now - window)
    PROVE  Total(Cut(from), history \ counted) = 0
<1>1. from \in Nat /\ Now - window <= from /\ Now \in Nat
  <2>1. PICK w : w = Seen(window)
    OBVIOUS
  <2>2. w \in Nat /\ w <= window /\ Now \in Nat /\ Now - w \in Nat
    BY <2>1, SeenFacts
  <2> QED
    BY <2>1, <2>2
<1>2. ASSUME NEW i \in history \ counted PROVE Cut(from)[i] = 0
  <2>1. /\ i \in Outages /\ i.lasted # Ongoing
        /\ i.started >= Now - window \/ End(i) < Now - window
        /\ ~(Now - i.started <= window)
    BY DEF Since, Resolved, HistoryInv
  <2>2. i.started \in Nat /\ End(i) \in Nat
    BY <2>1, OutageFacts
  <2>3. i.started < from /\ End(i) < from
    BY <1>1, <2>1, <2>2
  <2>4. Cut(from)[i] = LET a == IF i.started < from THEN from ELSE i.started
                       IN  IF End(i) > a THEN End(i) - a ELSE 0
    BY <2>1 DEF Cut
  <2> QED
    BY <1>1, <2>2, <2>3, <2>4
<1>3. IsFiniteSet(history \ counted)
  BY FS_Subset DEF HistoryInv
<1> QED
  BY <1>2, <1>3, TotalOfZeros

-----------------------------------------------------------------------------
(* The medians.                                                            *)

\* The outages that lasted no longer than m, less, and longer.
UpTo(h, m) == {i \in h : Minutes(i) <= m}
Under(h, m) == {i \in h : Minutes(i) < m}
Over(h, m) == {i \in h : Minutes(i) > m}

LEMMA Sides ==
    ASSUME NEW h, IsFiniteSet(h), \A i \in h : Minutes(i) \in Nat, NEW m \in Nat
    PROVE  /\ IsFiniteSet(UpTo(h, m)) /\ IsFiniteSet(Under(h, m)) /\ IsFiniteSet(Over(h, m))
           /\ Cardinality(h) \in Nat /\ Cardinality(UpTo(h, m)) \in Nat
           /\ Cardinality(Under(h, m)) \in Nat /\ Cardinality(Over(h, m)) \in Nat
           /\ Cardinality(Over(h, m)) = Cardinality(h) - Cardinality(UpTo(h, m))
           /\ Under(h, m) \in SUBSET UpTo(h, m)
           /\ UpTo(h, m) \in SUBSET h /\ Cardinality(UpTo(h, m)) <= Cardinality(h)
<1>1. UpTo(h, m) \in SUBSET h /\ Under(h, m) \in SUBSET h /\ Over(h, m) \in SUBSET h
  BY DEF UpTo, Under, Over
<1>2. IsFiniteSet(UpTo(h, m)) /\ IsFiniteSet(Under(h, m)) /\ IsFiniteSet(Over(h, m))
  BY <1>1, FS_Subset
<1>3. /\ Cardinality(h) \in Nat /\ Cardinality(UpTo(h, m)) \in Nat
      /\ Cardinality(Under(h, m)) \in Nat /\ Cardinality(Over(h, m)) \in Nat
  BY <1>2, FS_CardinalityType
<1>4. Over(h, m) = h \ UpTo(h, m) /\ h \intersect UpTo(h, m) = UpTo(h, m)
  BY DEF Over, UpTo
<1>5. Cardinality(h \ UpTo(h, m)) = Cardinality(h) - Cardinality(h \intersect UpTo(h, m))
  BY FS_Difference
<1>6. Under(h, m) \in SUBSET UpTo(h, m)
  BY DEF Under, UpTo
<1>7. Cardinality(UpTo(h, m)) <= Cardinality(h)
  BY <1>1, FS_Subset
<1> QED
  BY <1>1, <1>2, <1>3, <1>4, <1>5, <1>6, <1>7

\* There is a k-th of the durations.
LEMMA SortedFacts ==
    ASSUME NEW h, IsFiniteSet(h), NEW top \in Nat,
           \A i \in h : Minutes(i) \in Nat /\ Minutes(i) <= top,
           NEW k \in Nat \ {0}, k <= Cardinality(h)
    PROVE  /\ Sorted(h, k) \in Nat
           /\ Cardinality(Under(h, Sorted(h, k))) < k
           /\ Cardinality(UpTo(h, Sorted(h, k))) >= k
<1> DEFINE enough == {m \in Nat : Cardinality(UpTo(h, m)) >= k}
           mins == {Minutes(i) : i \in h}
           IsKth(m) == Cardinality(Under(h, m)) < k /\ Cardinality(UpTo(h, m)) >= k
<1>1. top \in enough
  <2>1. UpTo(h, top) = h
    BY DEF UpTo
  <2>2. Cardinality(h) \in Nat
    BY FS_CardinalityType
  <2> QED
    BY <2>1, <2>2
<1>2. PICK m \in enough : \A l \in enough : m <= l
  <2>1. enough \in SUBSET Nat /\ enough # {}
    BY <1>1
  <2> HIDE DEF enough
  <2> QED
    BY <2>1, LeastNumber
<1>3. m \in Nat /\ Cardinality(UpTo(h, m)) >= k
  OBVIOUS
<1>4. Cardinality(Under(h, m)) < k
  <2>1. CASE m = 0
    <3>1. Under(h, m) = {}
      BY <2>1 DEF Under
    <3>2. Cardinality({}) = 0
      BY FS_EmptySet
    <3> QED
      BY <3>1, <3>2
  <2>2. CASE m # 0
    <3>1. m - 1 \in Nat /\ ~(m <= m - 1)
      BY <1>3, <2>2
    <3>2. m - 1 \notin enough
      <4> HIDE DEF enough
      <4> QED
        BY <1>2, <3>1
    <3>3. UpTo(h, m - 1) = Under(h, m)
      BY <1>3 DEF UpTo, Under
    <3>4. Cardinality(UpTo(h, m - 1)) \in Nat
      BY <3>1, Sides
    <3> QED
      BY <3>1, <3>2, <3>3, <3>4
  <2> QED
    BY <2>1, <2>2
<1>5. m \in mins
  <2>1. UpTo(h, m) # Under(h, m)
    <3>1. Cardinality(UpTo(h, m)) \in Nat /\ Cardinality(Under(h, m)) \in Nat
      BY <1>3, Sides
    <3> QED
      BY <1>3, <1>4, <3>1
  <2>2. PICK i \in h : Minutes(i) <= m /\ ~(Minutes(i) < m)
    BY <2>1 DEF UpTo, Under
  <2>3. Minutes(i) = m
    BY <1>3, <2>2
  <2> QED
    BY <2>3
<1>6. Sorted(h, k) = CHOOSE x \in mins : IsKth(x)
  BY DEF Sorted, Under, UpTo
<1>7. IsKth(m)
  BY <1>3, <1>4
<1>8. mins \in SUBSET Nat
  OBVIOUS
<1> HIDE DEF mins, IsKth
<1>9. Sorted(h, k) \in mins /\ IsKth(Sorted(h, k))
  BY <1>5, <1>6, <1>7
<1> QED
  BY <1>8, <1>9 DEF IsKth

LEMMA MedianMiddle ==
    ASSUME NEW h, IsFiniteSet(h), NEW top \in Nat,
           \A i \in h : Minutes(i) \in Nat /\ Minutes(i) <= top
    PROVE  /\ 2 * Cardinality(Over(h, Median(h))) <= Cardinality(h)
           /\ 2 * Cardinality(Under(h, Median(h))) <= Cardinality(h)
<1> DEFINE n == Cardinality(h)
           q == n \div 2
<1>0. n \in Nat /\ q \in Nat /\ (n = 2 * q \/ n = 2 * q + 1) /\ (n % 2 = 1 <=> n = 2 * q + 1)
  <2>1. n \in Nat
    BY FS_CardinalityType
  <2> HIDE DEF n
  <2> QED
    BY <2>1
<1>1. Median(h) = IF n = 0 THEN 0
                  ELSE IF n % 2 = 1 THEN Sorted(h, q + 1)
                  ELSE (Sorted(h, q) + Sorted(h, q + 1)) \div 2
  BY DEF Median
<1>2. \A k \in Nat \ {0} : k <= n =>
        /\ Sorted(h, k) \in Nat
        /\ Cardinality(Under(h, Sorted(h, k))) < k
        /\ Cardinality(UpTo(h, Sorted(h, k))) >= k
  BY SortedFacts
<1>3. \A m \in Nat : /\ Cardinality(Over(h, m)) = n - Cardinality(UpTo(h, m))
                     /\ Cardinality(UpTo(h, m)) \in Nat /\ Cardinality(Under(h, m)) \in Nat
  BY Sides
<1>4. \A l, m \in Nat : l <= m =>
        /\ Cardinality(UpTo(h, l)) <= Cardinality(UpTo(h, m))
        /\ Cardinality(Under(h, l)) <= Cardinality(Under(h, m))
        /\ l < m => Cardinality(UpTo(h, l)) <= Cardinality(Under(h, m))
  <2> TAKE l, m \in Nat
  <2> HAVE l <= m
  <2>1. UpTo(h, l) \in SUBSET UpTo(h, m) /\ Under(h, l) \in SUBSET Under(h, m)
    BY DEF UpTo, Under
  <2>2. l < m => UpTo(h, l) \in SUBSET Under(h, m)
    BY DEF UpTo, Under
  <2>3. IsFiniteSet(UpTo(h, m)) /\ IsFiniteSet(Under(h, m))
    BY Sides
  <2> QED
    BY <2>1, <2>2, <2>3, FS_Subset
<1> HIDE DEF n, q
<1> SUFFICES /\ 2 * Cardinality(Over(h, Median(h))) <= n
             /\ 2 * Cardinality(Under(h, Median(h))) <= n
  BY DEF n
<1>5. CASE n = 0
  <2>1. h = {}
    BY <1>5, FS_EmptySet DEF n
  <2>2. Over(h, Median(h)) = {} /\ Under(h, Median(h)) = {} /\ Cardinality({}) = 0
    BY <2>1, FS_EmptySet DEF Over, Under
  <2> QED
    BY <1>5, <2>2
<1>6. CASE n # 0 /\ n = 2 * q + 1
  <2>1. q + 1 \in Nat \ {0} /\ q + 1 <= n
    BY <1>0, <1>6
  <2>2. PICK m : m = Sorted(h, q + 1)
    OBVIOUS
  <2>3. /\ m \in Nat /\ Median(h) = m
        /\ Cardinality(Under(h, m)) < q + 1 /\ Cardinality(UpTo(h, m)) >= q + 1
    BY <1>0, <1>1, <1>2, <1>6, <2>1, <2>2
  <2>4. PICK o, u, t : /\ o = Cardinality(Over(h, m)) /\ u = Cardinality(Under(h, m))
                       /\ t = Cardinality(UpTo(h, m))
    OBVIOUS
  <2>5. o = n - t /\ t \in Nat /\ u \in Nat /\ u < q + 1 /\ t >= q + 1
    BY <1>3, <2>3, <2>4
  <2>6. 2 * o <= n /\ 2 * u <= n
    BY <1>0, <1>6, <2>5
  <2> QED
    BY <2>3, <2>4, <2>6
<1>7. CASE n # 0 /\ n = 2 * q
  <2>1. q \in Nat \ {0} /\ q + 1 \in Nat \ {0} /\ q <= n /\ q + 1 <= n
    BY <1>0, <1>7
  <2>2. PICK a, b : a = Sorted(h, q) /\ b = Sorted(h, q + 1)
    OBVIOUS
  <2>3. /\ a \in Nat /\ b \in Nat
        /\ Cardinality(Under(h, a)) < q /\ Cardinality(UpTo(h, a)) >= q
        /\ Cardinality(Under(h, b)) < q + 1 /\ Cardinality(UpTo(h, b)) >= q + 1
    BY <1>2, <2>1, <2>2
  <2>4. a <= b
    <3> SUFFICES ASSUME b < a PROVE FALSE
      BY <2>3
    <3>1. Cardinality(UpTo(h, b)) <= Cardinality(Under(h, a))
      BY <1>4, <2>3
    <3>2. PICK t, u : t = Cardinality(UpTo(h, b)) /\ u = Cardinality(Under(h, a))
      OBVIOUS
    <3>3. t \in Nat /\ u \in Nat /\ t <= u /\ u < q /\ t >= q + 1
      BY <1>3, <2>3, <3>1, <3>2
    <3> QED
      BY <1>0, <3>3
  <2>5. PICK m : m = (a + b) \div 2
    OBVIOUS
  <2>6. m \in Nat /\ a <= m /\ m <= b /\ Median(h) = m
    <3>1. m \in Nat /\ a <= m /\ m <= b
      BY <2>3, <2>4, <2>5
    <3>2. Median(h) = (a + b) \div 2
      BY <1>0, <1>1, <1>7, <2>2
    <3> QED
      BY <2>5, <3>1, <3>2
  <2>7. /\ Cardinality(UpTo(h, a)) <= Cardinality(UpTo(h, m))
        /\ Cardinality(Under(h, m)) <= Cardinality(Under(h, b))
    BY <1>4, <2>3, <2>6
  <2>8. PICK o, u, t, x, y : /\ o = Cardinality(Over(h, m)) /\ u = Cardinality(Under(h, m))
                             /\ t = Cardinality(UpTo(h, m))
                             /\ x = Cardinality(UpTo(h, a)) /\ y = Cardinality(Under(h, b))
    OBVIOUS
  <2>9. /\ o = n - t /\ t \in Nat /\ u \in Nat /\ x \in Nat /\ y \in Nat
        /\ x <= t /\ u <= y /\ x >= q /\ y < q + 1
    BY <1>3, <2>3, <2>6, <2>7, <2>8
  <2>10. 2 * o <= n /\ 2 * u <= n
    BY <1>0, <1>7, <2>9
  <2> QED
    BY <2>6, <2>8, <2>10
<1> QED
  BY <1>0, <1>5, <1>6, <1>7

LEMMA MediansHold == HistoryInv => MedianIsMiddle
<1> SUFFICES ASSUME HistoryInv, NEW h \in {Resolved(history), SameContext(history)}
             PROVE  /\ 2 * Cardinality({i \in h : Minutes(i) > Median(h)}) <= Cardinality(h)
                    /\ 2 * Cardinality({i \in h : Minutes(i) < Median(h)}) <= Cardinality(h)
  BY DEF MedianIsMiddle
<1>1. h \in SUBSET Resolved(history) /\ IsFiniteSet(Resolved(history))
      /\ Resolved(history) \in SUBSET history
      /\ \A i \in Resolved(history) : Minutes(i) \in Nat
  BY ResolvedIn DEF HistoryInv, SameContext
<1>2. IsFiniteSet(h)
  BY <1>1, FS_Subset
<1>3. PICK top : top = Now + Half
  OBVIOUS
<1>4. top \in Nat
  BY <1>3, HalfFacts, ScorecardAssumption
<1>5. ASSUME NEW i \in h PROVE Minutes(i) \in Nat /\ Minutes(i) <= top
  <2>1. i \in history /\ i \in Outages /\ i.lasted # Ongoing /\ End(i) <= Now
    BY <1>1 DEF HistoryInv, Resolved
  <2>2. i.lasted \in Nat /\ i.started \in Nat /\ Now \in Nat /\ End(i) = i.started + i.lasted
    BY <2>1, OutageFacts
  <2>3. Stored[i] = Minutes(i) /\ Lasted[i] = i.lasted
    BY <2>1 DEF Stored, Lasted
  <2>4. Minutes(i) \in Nat /\ Minutes(i) <= i.lasted + Half
    BY <2>1, <2>3, StoredNear
  <2> QED
    BY <1>3, <2>1, <2>2, <2>4, HalfFacts
<1> QED
  BY <1>2, <1>4, <1>5, MedianMiddle DEF Over, Under

\* Whatever outages a service has had, the medians have half of them on either
\* side; what is counted as downtime fits into the observed part of a window, but for
\* half a minute an outage; and the uptime is the share of it in which the service was
\* up, or more if an outage goes on or reaches into the window, but for the same half
\* minutes and the rounding to a ten-thousandth.
THEOREM NumbersAreHistory == ScoreSpec => []NumbersTellHistory
<1>1. \A w \in {Window7d, Window30d} : w \in Nat /\ w >= 60 * Minute
  <2>1. Minute \in Nat
    BY HalfFacts
  <2> QED
    BY <2>1 DEF Window7d, Window30d, Day
<1>2. HistoryInv => UptimeOfWhole
  <2> SUFFICES ASSUME HistoryInv, NEW w \in {Window7d, Window30d}, Now - FirstSeen >= 60 * Minute,
                      \A i \in history :
                        i.lasted # Ongoing /\ (i.started >= Now - w \/ End(i) < Now - w)
               PROVE  /\ ShownUp(w) <= TrulyUp(w) + Slack(w)
                      /\ TrulyUp(w) <= ShownUp(w) + Slack(w)
    BY DEF UptimeOfWhole
  <2>1. PICK from, counted : from = Now - Seen(w) /\ counted = Resolved(Since(history, w))
    OBVIOUS
  <2>2. Total(Cut(from), history \ counted) = 0
    BY <1>1, <2>1, NothingElseLost
  <2> QED
    BY <1>1, <2>1, <2>2, UptimeIsNear
<1>3. HistoryInv => UptimeNotTooLow
  <2> SUFFICES ASSUME HistoryInv, NEW w \in {Window7d, Window30d}
               PROVE  /\ Minute * DownMinutes(Since(history, w)) <= Seen(w) + RoundedOff(w)
                      /\ Now - FirstSeen >= 60 * Minute => TrulyUp(w) <= ShownUp(w) + Slack(w)
    BY DEF UptimeNotTooLow
  <2>1. PICK from, counted, D, L : /\ from = Now - Seen(w) /\ counted = Resolved(Since(history, w))
                                   /\ D = Minute * DownMinutes(Since(history, w))
                                   /\ L = Total(Lasted, counted)
    OBVIOUS
  <2>2. D \in Nat /\ L \in Nat /\ RoundedOff(w) \in Nat /\ D <= L + RoundedOff(w) /\ L <= Seen(w)
    BY <1>1, <2>1, LostIsCounted
  <2>3. Seen(w) \in Nat
    BY <1>1, SeenFacts
  <2>4. D <= Seen(w) + RoundedOff(w)
    BY <2>2, <2>3
  <2>5. Now - FirstSeen >= 60 * Minute => TrulyUp(w) <= ShownUp(w) + Slack(w)
    BY <1>1, <2>1, UptimeIsNear
  <2> QED
    BY <2>1, <2>4, <2>5
<1> QED
  BY <1>2, <1>3, MediansHold, HistoryAlways, PTL DEF NumbersTellHistory

=============================================================================
