-------------------------------- MODULE AISpend --------------------------------
(***************************************************************************)
(* Who spends the budget: the goroutines that consume a unit, make the     *)
(* call, and give the unit back when the call did not land (enrich for     *)
(* "verdict", RefreshSummary for "blurb"; enrich never refunds "embed").   *)
(* What the provider bills is not in the program: a call is billed when it *)
(* is answered, and an answer the code cannot use (a time limit passed, no *)
(* choices, not the JSON asked for, an unknown verdict) is an error to it  *)
(* like a call that never arrived.                                         *)
(***************************************************************************)
EXTENDS AIBudget, FiniteSets

CONSTANTS
    Callers,        \* goroutines that make AI calls
    Refunded,       \* the kinds whose callers give a unit back
    FailuresBilled, \* an answered call may still be an error to the caller
    MaxBilled       \* bound: answered calls of a kind in a month

ASSUME SpendAssumption ==
    /\ IsFiniteSet(Callers)
    /\ Refunded \subseteq Kinds
    /\ FailuresBilled \in BOOLEAN
    /\ MaxBilled \in Nat

VARIABLES
    caller,   \* [stage, kind, month, answered]; month is that of the unit, and
              \* answered is history: the call in hand was answered
    billed,   \* history: answered calls by the month of their unit
    unearned  \* history: units given back to a month that were billed, or taken
              \* in another month

spendVars == <<budgetVars, caller, billed, unearned>>

AnyKind == CHOOSE k \in Kinds : TRUE
Idle == [stage |-> "idle", kind |-> AnyKind, month |-> 0, answered |-> FALSE]

SpendTypeOK ==
    /\ BudgetTypeOK
    /\ caller \in [Callers -> [stage : {"idle", "calling", "failed"},
                               kind : Kinds, month : Months, answered : BOOLEAN]]
    /\ billed \in [Months -> [Kinds -> Nat]]
    /\ unearned \in [Months -> [Kinds -> Nat]]

SpendInit ==
    /\ BudgetInit
    /\ caller = [c \in Callers |-> Idle]
    /\ billed = [m \in Months |-> [k \in Kinds |-> 0]]
    /\ unearned = [m \in Months |-> [k \in Kinds |-> 0]]

-----------------------------------------------------------------------------
Begin(c, k) ==
    /\ caller[c].stage = "idle"
    /\ ConsumeAIBudget(k)
    /\ caller' = [caller EXCEPT ![c] =
                    [stage |-> "calling", kind |-> k, month |-> month, answered |-> FALSE]]
    /\ UNCHANGED <<billed, unearned>>

\* After a call that is an error to the caller: it gives the unit back, where
\* callers of the kind do that, and does not know whether the call was answered.
Fails(c, answered) ==
    caller' = [caller EXCEPT ![c] =
                 IF @.kind \in Refunded
                 THEN [@ EXCEPT !.stage = "failed", !.answered = answered]
                 ELSE Idle]

\* The call is answered.
Answered(c) ==
    /\ caller[c].stage = "calling"
    /\ billed[caller[c].month][caller[c].kind] < MaxBilled
    /\ billed' = [billed EXCEPT ![caller[c].month][caller[c].kind] = @ + 1]
    /\ \/ caller' = [caller EXCEPT ![c] = Idle]
       \/ FailuresBilled /\ Fails(c, TRUE)
    /\ UNCHANGED <<budgetVars, unearned>>

\* The call never reaches the provider.
NotSent(c) ==
    /\ caller[c].stage = "calling"
    /\ Fails(c, FALSE)
    /\ UNCHANGED <<budgetVars, billed, unearned>>

Unearned(c) == caller[c].answered \/ caller[c].month # month

\* The unit is given back.
Refund(c) ==
    /\ caller[c].stage = "failed"
    /\ RefundAIBudget(caller[c].kind)
    /\ unearned' = IF Unearned(c)
                   THEN [unearned EXCEPT ![month][caller[c].kind] = @ + 1]
                   ELSE unearned
    /\ caller' = [caller EXCEPT ![c] = Idle]
    /\ UNCHANGED billed

\* The refund fails too; its error is dropped.
RefundFails(c) ==
    /\ caller[c].stage = "failed"
    /\ caller' = [caller EXCEPT ![c] = Idle]
    /\ UNCHANGED <<budgetVars, billed, unearned>>

\* The process dies: nobody gives a unit back.
Restart ==
    /\ caller' = [c \in Callers |-> Idle]
    /\ UNCHANGED <<budgetVars, billed, unearned>>

MonthEnds == NextMonth /\ UNCHANGED <<caller, billed, unearned>>

SpendNext ==
    \/ \E c \in Callers, k \in Kinds : Begin(c, k)
    \/ \E c \in Callers : Answered(c) \/ NotSent(c) \/ Refund(c) \/ RefundFails(c)
    \/ Restart
    \/ MonthEnds

SpendSpec == SpendInit /\ [][SpendNext]_spendVars

-----------------------------------------------------------------------------
(* Properties.                                                             *)

\* The ceiling on spend, as far as the code can keep it: whoever calls at the
\* same time, fails, refunds or dies, what is billed on the units of a month
\* exceeds the limit by no more than the units given back to that month without
\* cause.
SpendAccounted ==
    \A m \in Months, k \in Kinds : billed[m][k] <= Limit[k] + unearned[m][k]

\* The ceiling itself.
SpendWithinLimit == \A m \in Months, k \in Kinds : billed[m][k] <= Limit[k]

\* The part of it that needs no assumption on failures and months: a kind whose
\* callers never give a unit back.
UnrefundedWithinLimit ==
    \A m \in Months, k \in Kinds \ Refunded : billed[m][k] <= Limit[k]

=============================================================================
