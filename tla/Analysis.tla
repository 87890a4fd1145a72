------------------------------- MODULE Analysis -------------------------------
(***************************************************************************)
(* The analysis of the outages of one service (internal/incidents with     *)
(* internal/incidentstore): OnDown's timer and the admin's Reanalyze both  *)
(* run enrich, each in its own goroutine, and enrich reads and writes the  *)
(* incident rows and the AI budget one statement at a time.                *)
(*                                                                         *)
(* Outages come one after the other here (OutageLog has the reordering).   *)
(* Time is discrete, one unit for 18 s of the code's constants; a tick     *)
(* waits for what the code bounds by a context.  With Faults any statement *)
(* may fail, as it does when that context has run out.                     *)
(***************************************************************************)
EXTENDS AIBudget, Sequences, FiniteSets

CONSTANTS
    AnalysisDelay,  \* analysisDelay
    EnrichLimit,    \* the context of enrich
    GetLimit,       \* the context of the Get before it
    HandlerLimit,   \* from the confirmed change to the row
    MinGap,         \* least time between two confirmed changes
    Cooldown,       \* reanalyzeCooldown
    FlapLimit,      \* earlier incidents of a day that make a service flap
    PendingFor,     \* how long the API calls a row without verdict pending
    Enabled,        \* an API key is set
    Faults,         \* do the statements fail?
    MaxClock,       \* bound: time
    MaxIncidents,   \* bound: outages of this process
    MaxReanalyze    \* bound: requests of the admin

ASSUME AnalysisAssumption ==
    /\ {"verdict", "embed"} \subseteq Kinds
    /\ {AnalysisDelay, EnrichLimit, GetLimit, HandlerLimit, MinGap, Cooldown, FlapLimit,
        PendingFor, MaxIncidents, MaxReanalyze} \subseteq Nat
    /\ MaxClock \in Nat \ {0}
    /\ {Enabled, Faults} \subseteq BOOLEAN

VARIABLES
    clock,
    changedAt,  \* when the last change was confirmed
    rows,       \* the incidents of the service, by id
    timers,     \* OnDown's pending timers: [id, due]
    tasks,      \* running goroutines of the analysis
    requests    \* the admin's requests so far

analysisVars == <<budgetVars, clock, changedAt, rows, timers, tasks, requests>>

Times == 0 .. MaxClock
Ids == DOMAIN rows

\* by: who has written the verdict. The flapping rule writes one too.  blind is
\* history: its analysis never learnt of the verdict it had to wait for, and a
\* dropped embedding is a NULL in the place of one that was stored.
NoVerdict == [by |-> "none", at |-> 0, blind |-> FALSE]
Row == [started : Times, over : BOOLEAN, blip : BOOLEAN,
        embedding : {"none", "kept", "dropped"},
        verdict : [by : {"none", "timer", "admin", "rule", "command"}, at : Times, blind : BOOLEAN]]

\* What a task does next; "get" is the timer's look at the row.
Stages == {"get", "summary", "stats", "note", "cooldown", "embed", "attach",
           "budget", "analyze"}
Task == [id : Ids, by : {"timer", "admin"}, stage : Stages, since : Times, blind : BOOLEAN]

\* Types; and enrich never takes a counter past its limit.
AnalysisTypeOK ==
    /\ BudgetTypeOK
    /\ \A k \in Kinds : calls[month][k] <= Limit[k]
    /\ clock \in Times
    /\ changedAt \in Times
    /\ rows \in Seq(Row)
    /\ timers \in SUBSET [id : Ids, due : Nat]
    /\ tasks \in SUBSET Task
    /\ requests \in 0 .. MaxReanalyze

OldRow == [started |-> 0, over |-> TRUE, blip |-> FALSE, embedding |-> "none",
           verdict |-> NoVerdict]

\* The table is new, or has what an earlier process left in it.
AnalysisInit ==
    /\ BudgetInit
    /\ clock = 1
    /\ changedAt = 0
    /\ rows \in {<<>>, [i \in 1 .. FlapLimit |-> OldRow]}
    /\ timers = {}
    /\ tasks = {}
    /\ requests = 0

-----------------------------------------------------------------------------
(* The outages.                                                            *)

Down == rows # <<>> /\ ~rows[Len(rows)].over

\* OnDown: the row carries the time of the change, which its handler is at most
\* HandlerLimit behind.
OnDown ==
    /\ ~Down
    /\ Cardinality({i \in Ids : rows[i].started > 0}) < MaxIncidents
    /\ \E at \in Times \ {0} :
         /\ at <= clock /\ clock <= at + HandlerLimit
         /\ at >= changedAt + (IF rows = <<>> THEN 0 ELSE MinGap)
         /\ changedAt' = at
         /\ rows' = Append(rows, [started |-> at, over |-> FALSE, blip |-> FALSE,
                                  embedding |-> "none", verdict |-> NoVerdict])
    /\ timers' = timers \union {[id |-> Len(rows) + 1, due |-> clock + AnalysisDelay]}
    /\ UNCHANGED <<budgetVars, clock, tasks, requests>>

\* Resolve; which recoveries are blips is OutageLog's matter.
OnRecovered ==
    /\ Down
    /\ clock >= changedAt + MinGap
    /\ changedAt' = clock
    /\ \E b \in BOOLEAN :
         rows' = [rows EXCEPT ![Len(rows)].over = TRUE, ![Len(rows)].blip = b]
    /\ UNCHANGED <<budgetVars, clock, timers, tasks, requests>>

-----------------------------------------------------------------------------
(* The goroutines.                                                         *)

Start(id, by, stage) ==
    [id |-> id, by |-> by, stage |-> stage, since |-> clock, blind |-> FALSE]

\* Mutant: a ticker instead of a timer.
TimerFires_Again(t) ==
    /\ t \in timers
    /\ clock >= t.due
    /\ timers' = (timers \ {t}) \union {[t EXCEPT !.due = clock + AnalysisDelay]}
    /\ tasks' = tasks \union {Start(t.id, "timer", "get")}
    /\ UNCHANGED <<budgetVars, clock, changedAt, rows, requests>>

\* time.AfterFunc runs its function.
TimerFires(t) ==
    /\ t \in timers
    /\ clock >= t.due
    /\ timers' = timers \ {t}
    /\ tasks' = tasks \union {Start(t.id, "timer", "get")}
    /\ UNCHANGED <<budgetVars, clock, changedAt, rows, requests>>

\* Reanalyze: its own Get, then enrich.
Reanalyze(id) ==
    /\ requests < MaxReanalyze
    /\ requests' = requests + 1
    /\ tasks' = tasks \union {Start(id, "admin", "summary")}
    /\ UNCHANGED <<budgetVars, clock, changedAt, rows, timers>>

At(t, stage) == t \in tasks /\ t.stage = stage
Goes(t, stage) == tasks' = (tasks \ {t}) \union {[t EXCEPT !.stage = stage]}
Returns(t) == tasks' = tasks \ {t}

\* The timer's Get: enrich has a context of its own.
LookAtRow(t) ==
    /\ At(t, "get")
    /\ \/ ~rows[t.id].over /\ tasks' = (tasks \ {t}) \union {Start(t.id, "timer", "summary")}
       \/ (rows[t.id].over \/ Faults) /\ Returns(t)
    /\ UNCHANGED <<budgetVars, clock, changedAt, rows, timers, requests>>

\* The update of both columns: without an embedding to save it stores NULL.
SaveEnrichment(id, embedded) ==
    rows' = [rows EXCEPT ![id].embedding =
               IF embedded THEN "kept" ELSE IF @ = "none" THEN @ ELSE "dropped"]

SaveSummary(t) ==
    /\ At(t, "summary")
    /\ \/ SaveEnrichment(t.id, FALSE)
       \/ Faults /\ UNCHANGED rows
    /\ Goes(t, "stats")
    /\ UNCHANGED <<budgetVars, clock, changedAt, timers, requests>>

\* Mutant: the rows that came later count too.
Earlier_All(id) == {i \in Ids : ~rows[i].blip}

\* Stats, relative to the start of this outage (all of the model's time lies
\* within the 24 h of Flapping24hCount).
Earlier(id) == {i \in Ids : rows[i].started < rows[id].started /\ ~rows[i].blip}

ReadStats(t) ==
    /\ At(t, "stats")
    /\ \/ Goes(t, IF Cardinality(Earlier(t.id)) >= FlapLimit THEN "note" ELSE "cooldown")
       \/ Faults /\ Returns(t)
    /\ UNCHANGED <<budgetVars, clock, changedAt, rows, timers, requests>>

SaveVerdict(t, by) ==
    rows' = [rows EXCEPT ![t.id].verdict = [by |-> by, at |-> clock, blind |-> t.blind]]

\* The grouped note of a flapping service.
SaveNote(t) ==
    /\ At(t, "note")
    /\ \/ SaveVerdict(t, "rule")
       \/ Faults /\ UNCHANGED rows
    /\ Returns(t)
    /\ UNCHANGED <<budgetVars, clock, changedAt, timers, requests>>

\* Mutant: the row itself is looked at instead of the others.
CoolingDown_OwnRow(id) ==
    rows[id].verdict.by # "none" /\ clock < rows[id].verdict.at + Cooldown

\* LastVerdictAt: the latest verdict of another row of the service.
CoolingDown(id) ==
    \E i \in Ids \ {id} :
        rows[i].verdict.by # "none" /\ clock < rows[i].verdict.at + Cooldown

\* The error of LastVerdictAt is dropped: enrich goes on, if there is a model to
\* ask.
CheckCooldown(t) ==
    /\ At(t, "cooldown")
    /\ \/ /\ CoolingDown(t.id) \/ ~Enabled
          /\ Returns(t)
       \/ /\ Enabled
          /\ ~CoolingDown(t.id) \/ Faults
          /\ tasks' = (tasks \ {t}) \union
                        {[t EXCEPT !.stage = "embed", !.blind = CoolingDown(t.id)]}
    /\ UNCHANGED <<budgetVars, clock, changedAt, rows, timers, requests>>

\* The embedding: without budget, or when the call fails, it is left out.
Embed(t) ==
    /\ At(t, "embed")
    /\ \/ ConsumeAIBudget("embed") /\ (Goes(t, "attach") \/ Goes(t, "budget"))
       \/ (LimitReached("embed") \/ Faults) /\ Goes(t, "budget") /\ UNCHANGED budgetVars
    /\ UNCHANGED <<clock, changedAt, rows, timers, requests>>

AttachEmbedding(t) ==
    /\ At(t, "attach")
    /\ \/ SaveEnrichment(t.id, TRUE)
       \/ Faults /\ UNCHANGED rows
    /\ Goes(t, "budget")
    /\ UNCHANGED <<budgetVars, clock, changedAt, timers, requests>>

TakeBudget(t) ==
    /\ At(t, "budget")
    /\ \/ ConsumeAIBudget("verdict") /\ Goes(t, "analyze")
       \/ (LimitReached("verdict") \/ Faults) /\ Returns(t) /\ UNCHANGED budgetVars
    /\ UNCHANGED <<clock, changedAt, rows, timers, requests>>

\* The call of the model ends with an error: the unit is given back.
GiveBack(t) ==
    /\ At(t, "analyze")
    /\ \/ RefundAIBudget("verdict")
       \/ Faults /\ UNCHANGED budgetVars
    /\ Returns(t)
    /\ UNCHANGED <<clock, changedAt, rows, timers, requests>>

\* The call of the model ends with a verdict.
KeepVerdict(t) ==
    /\ At(t, "analyze")
    /\ \/ SaveVerdict(t, t.by)
       \/ Faults /\ UNCHANGED rows
    /\ Returns(t)
    /\ UNCHANGED <<budgetVars, clock, changedAt, timers, requests>>

Step(t) ==
    \/ LookAtRow(t) \/ SaveSummary(t) \/ ReadStats(t) \/ SaveNote(t) \/ CheckCooldown(t)
    \/ Embed(t) \/ AttachEmbedding(t) \/ TakeBudget(t) \/ GiveBack(t) \/ KeepVerdict(t)

-----------------------------------------------------------------------------
\* Mutant: enrich has no time limit.
InTime_NoEnrichLimit ==
    /\ \A t \in timers : clock < t.due
    /\ \A t \in tasks : t.stage = "get" => clock < t.since + GetLimit

\* No context of a goroutine has run out, and timers are on time.
InTime ==
    /\ \A t \in timers : clock < t.due
    /\ \A t \in tasks :
         clock < t.since + (IF t.stage = "get" THEN GetLimit ELSE EnrichLimit)

Tick ==
    /\ clock < MaxClock
    /\ InTime
    /\ clock' = clock + 1
    /\ UNCHANGED <<budgetVars, changedAt, rows, timers, tasks, requests>>

\* The bound on time is reached and nothing is under way.
TimeIsUp ==
    /\ clock = MaxClock
    /\ tasks = {}
    /\ UNCHANGED analysisVars

AnalysisNext ==
    \/ OnDown
    \/ OnRecovered
    \/ \E t \in timers : TimerFires(t)
    \/ \E id \in Ids : Reanalyze(id)
    \/ \E t \in tasks : Step(t)
    \/ Tick
    \/ TimeIsUp

AnalysisSpec == AnalysisInit /\ [][AnalysisNext]_analysisVars

-----------------------------------------------------------------------------
(* Properties.                                                             *)

\* reanalyzeCooldown holds between the timers' own analyses: the verdicts they
\* leave on two rows of a service are a cooldown apart, unless the query for the
\* last verdict failed.  The check and the save of one analysis are far apart,
\* but no two of them overlap: an outage that is analysed has lasted, and the
\* next one has to last as well.
TimerVerdictsApart ==
    \A i, j \in Ids :
        /\ i < j
        /\ rows[i].verdict.by = "timer"
        /\ rows[j].verdict.by = "timer"
        /\ ~rows[j].verdict.blind
        => rows[j].verdict.at >= rows[i].verdict.at + Cooldown

\* A verdict of the model is never replaced by the note of the flapping rule:
\* what counts as flapping for an outage is settled before it is analysed.
VerdictNotDowngraded ==
    [][\A i \in Ids :
         rows[i].verdict.by \in {"timer", "admin"} => rows'[i].verdict.by # "rule"]_analysisVars

Pending(id) == rows[id].verdict.by = "none" /\ clock < rows[id].started + PendingFor

\* The API calls a row pending for as long as its timer or the analysis of the
\* timer may still bring the verdict (five time limits in four packages).
PendingWhileAnalysing ==
    \A id \in Ids :
        /\ rows[id].verdict.by = "none"
        /\ \/ \E t \in timers : t.id = id
           \/ \E t \in tasks : t.id = id /\ t.by = "timer"
        => Pending(id)

\* The first statement of enrich stores NULL over the embedding.  That loses one
\* that was stored only where the admin has asked for an analysis beside that of
\* the timer, and one to each request at most: timers alone analyse a row once.
\* (The command keeps to older rows.)
EmbeddingsOutlive ==
    Cardinality({id \in Ids : rows[id].started > 0 /\ rows[id].embedding = "dropped"}) <= requests

=============================================================================
