------------------------------- MODULE AIBudget -------------------------------
(***************************************************************************)
(* The monthly ceilings on paid AI calls (internal/incidentstore, table    *)
(* ai_usage): one counter per month and kind of call, raised by one atomic *)
(* upsert before a call and lowered again when the caller gives the unit   *)
(* back.  A missing row counts as zero.                                    *)
(***************************************************************************)
EXTENDS Integers

CONSTANTS
    Kinds,     \* kinds of calls: "verdict", "blurb", "embed"
    Limit,     \* the monthly limit of each kind
    MaxMonth   \* bound: months

ASSUME BudgetAssumption ==
    /\ Kinds # {}
    /\ Limit \in [Kinds -> Nat \ {0}]
    /\ MaxMonth \in Nat

VARIABLES
    month,  \* the current calendar month
    calls   \* ai_usage

budgetVars == <<month, calls>>

Months == 0 .. MaxMonth

BudgetTypeOK ==
    /\ month \in Months
    /\ calls \in [Months -> [Kinds -> Nat]]

BudgetInit ==
    /\ month = 0
    /\ calls = [m \in Months |-> [k \in Kinds |-> 0]]

\* Mutant: one call too many.
ConsumeAIBudget_Late(k) ==
    /\ calls[month][k] <= Limit[k]
    /\ calls' = [calls EXCEPT ![month][k] = @ + 1]
    /\ UNCHANGED month

\* The conditional upsert, in the month of this moment.
ConsumeAIBudget(k) ==
    /\ calls[month][k] < Limit[k]
    /\ calls' = [calls EXCEPT ![month][k] = @ + 1]
    /\ UNCHANGED month

\* The upsert returns no row.
LimitReached(k) == calls[month][k] >= Limit[k]

\* Mutant: the counter may fall below zero.
RefundAIBudget_NoFloor(k) ==
    /\ calls' = [calls EXCEPT ![month][k] = @ - 1]
    /\ UNCHANGED month

\* GREATEST(0, calls - 1), again in the month of this moment.
RefundAIBudget(k) ==
    /\ calls' = [calls EXCEPT ![month][k] = IF @ = 0 THEN 0 ELSE @ - 1]
    /\ UNCHANGED month

NextMonth ==
    /\ month < MaxMonth
    /\ month' = month + 1
    /\ UNCHANGED calls

=============================================================================
