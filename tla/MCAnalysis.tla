------------------------------ MODULE MCAnalysis ------------------------------
(***************************************************************************)
(* Who has the language model look at outages: the timers of the server    *)
(* and its admin, the command next to the admin, and, for the spend alone, *)
(* callers of any kind over the end of a month.  part says which of the    *)
(* three is explored; all of them count on the same counters.              *)
(***************************************************************************)
EXTENDS BackfillAnalyze, AISpend

VARIABLE part

callerVars == <<caller, billed, unearned>>
allVars == <<bothVars, callerVars, part>>

\* The monthly limits: embeddings run out first, as enrich goes on without.
MCLimit == [k \in Kinds |-> IF k = "embed" THEN 1 ELSE 2]

\* Bound: time next to the command.
MCCommandClock == 2

AllInit ==
    /\ BothInit /\ SpendInit
    /\ part \in {"server", "command", "callers"}
    /\ part = "command" => rows # <<>>
    /\ part = "callers" => rows = <<>>

\* Bounds: time begins with the first outage (for a later one the same happens
\* in less time), and after old rows there is only one.
MCRows == FlapLimit + 1
Server ==
    LET own == {i \in DOMAIN rows' : rows'[i].started > 0}
    IN  /\ AnalysisNext
        /\ Len(rows') <= MCRows
        /\ IF own = {} THEN clock' <= 1 + HandlerLimit ELSE \E i \in own : rows'[i].started = 1

\* Outages write rows of their own, which the command does not look at.
NextToCommand ==
    \/ BothNext /\ Len(rows') = Len(rows) /\ clock' <= MCCommandClock
    \/ clock = MCCommandClock /\ tasks = {} /\ UNCHANGED bothVars

AllNext ==
    /\ UNCHANGED part
    /\ \/ part = "server" /\ Server /\ UNCHANGED <<cmdVars, callerVars>>
       \/ part = "command" /\ NextToCommand /\ UNCHANGED callerVars
       \/ part = "callers" /\ SpendNext /\ UNCHANGED <<clock, changedAt, rows, timers, tasks, requests, cmdVars>>

AllSpec == AllInit /\ [][AllNext]_allVars

\* Types of all three parts; no counter passes its limit or falls below zero.
AnalysesTypeOK == CommandTypeOK /\ SpendTypeOK

=============================================================================
