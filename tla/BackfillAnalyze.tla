--------------------------- MODULE BackfillAnalyze ---------------------------
(***************************************************************************)
(* backfill-incidents -analyze next to the running server: the command     *)
(* goes over the rows of the git trail, which are in the table by then     *)
(* (Backfill), and has the model look at those without a verdict, while    *)
(* the server may write to any row of the service (Analysis).  The command *)
(* may die between any two statements and be run again.                    *)
(***************************************************************************)
EXTENDS Analysis

CONSTANT MaxRuns  \* bound: runs of the command

ASSUME RunsAssumption == MaxRuns \in Nat

VARIABLES
    cmd,    \* the command: the row it is at and what it does next
    runs,   \* runs begun
    asked   \* history: calls of the model by the command, by row

cmdVars == <<cmd, runs, asked>>
bothVars == <<analysisVars, cmdVars>>

\* The rows of the trail: they began before all of the server's time.
TrailRows == {i \in Ids : rows[i].started = 0}

\* History of a run: no statement or call has failed so far (clean), and the
\* rows that had a verdict when it began (had).
Command == [stage : {"idle", "needs", "embed", "stats", "analyze", "save"},
            row : 1 .. FlapLimit + 1,
            clean : BOOLEAN, had : SUBSET Nat]

CommandTypeOK ==
    /\ AnalysisTypeOK
    /\ cmd \in Command
    /\ runs \in 0 .. MaxRuns
    /\ asked \in [1 .. FlapLimit -> Nat]

BothInit ==
    /\ AnalysisInit
    /\ cmd = [stage |-> "idle", row |-> 1, clean |-> FALSE, had |-> {}]
    /\ runs = 0
    /\ asked = [i \in 1 .. FlapLimit |-> 0]

-----------------------------------------------------------------------------
(* The command.  It leaves the counters and the server's work alone.       *)

serverWork == <<budgetVars, clock, changedAt, timers, tasks, requests>>

RunCommand ==
    /\ cmd.stage = "idle"
    /\ runs < MaxRuns
    /\ runs' = runs + 1
    /\ cmd' = [stage |-> "needs", row |-> 1, clean |-> TRUE,
               had |-> {i \in TrailRows : rows[i].verdict.by # "none"}]
    /\ UNCHANGED <<serverWork, rows, asked>>

Stage(stage) == cmd.stage = stage /\ cmd.row \in TrailRows
On(stage) == cmd' = [cmd EXCEPT !.stage = stage]
NextRow(clean) ==
    cmd' = [cmd EXCEPT !.stage = "needs", !.row = @ + 1, !.clean = @ /\ clean]

\* Mutant: the verdict is not looked for.
NeedsVerdict_Always ==
    /\ Stage("needs")
    /\ On("embed")
    /\ UNCHANGED <<serverWork, rows, runs, asked>>

\* needsVerdict, of new rows and of old ones; its error counts as no.
NeedsVerdict ==
    /\ Stage("needs")
    /\ \/ IF rows[cmd.row].verdict.by = "none" THEN On("embed") ELSE NextRow(TRUE)
       \/ Faults /\ NextRow(FALSE)
    /\ UNCHANGED <<serverWork, rows, runs, asked>>

\* embed.Embed and SaveEnrichment; the errors of both are dropped.
EmbedRow ==
    /\ Stage("embed")
    /\ \/ SaveEnrichment(cmd.row, TRUE)
       \/ Faults /\ SaveEnrichment(cmd.row, FALSE)
       \/ Faults /\ UNCHANGED rows
    /\ On("stats")
    /\ UNCHANGED <<serverWork, runs, asked>>

\* Stats.
ReadRowStats ==
    /\ Stage("stats")
    /\ On("analyze") \/ (Faults /\ NextRow(FALSE))
    /\ UNCHANGED <<serverWork, rows, runs, asked>>

\* incidentai.Analyze: paid for, whatever comes back.
AskModel ==
    /\ Stage("analyze")
    /\ asked' = [asked EXCEPT ![cmd.row] = @ + 1]
    /\ On("save") \/ (Faults /\ NextRow(FALSE))
    /\ UNCHANGED <<serverWork, rows, runs>>

SaveRowVerdict ==
    /\ Stage("save")
    /\ \/ /\ rows' = [rows EXCEPT ![cmd.row].verdict =
                                    [by |-> "command", at |-> clock, blind |-> FALSE]]
          /\ NextRow(TRUE)
       \/ Faults /\ NextRow(FALSE) /\ UNCHANGED rows
    /\ UNCHANGED <<serverWork, runs, asked>>

Finish ==
    /\ cmd.stage = "needs"
    /\ cmd.row \notin TrailRows
    /\ cmd' = [cmd EXCEPT !.stage = "idle"]
    /\ UNCHANGED <<serverWork, rows, runs, asked>>

Dies ==
    /\ Faults
    /\ cmd.stage # "idle"
    /\ cmd' = [cmd EXCEPT !.stage = "idle", !.clean = FALSE]
    /\ UNCHANGED <<serverWork, rows, runs, asked>>

CommandNext ==
    \/ RunCommand \/ NeedsVerdict \/ EmbedRow \/ ReadRowStats \/ AskModel
    \/ SaveRowVerdict \/ Finish \/ Dies

BothNext ==
    \/ AnalysisNext /\ UNCHANGED cmdVars
    \/ CommandNext

BothSpec == BothInit /\ [][BothNext]_bothVars

-----------------------------------------------------------------------------
(* Properties.                                                             *)

\* After a run in which nothing failed every row of the trail has a verdict.
EveryRowAnalysed ==
    cmd.stage = "idle" /\ cmd.clean => \A i \in TrailRows : rows[i].verdict.by # "none"

\* No run pays for a row that had its verdict when it began.
PaidOnlyForMissing == \A i \in TrailRows : asked'[i] > asked[i] => i \notin cmd.had

\* "-analyze covers both new rows and existing rows without a verdict", and no other
\* ones: a run takes up the work of one that died where that had come to, whatever
\* the server has written meanwhile.
WhatIsMissing == []EveryRowAnalysed /\ [][PaidOnlyForMissing]_bothVars

=============================================================================
