---------------------------- MODULE AnalysisProofs ----------------------------
(***************************************************************************)
(* The analysis of outages, for any limits of time, numbers of outages and *)
(* requests, and any interleaving of timers, goroutines, the admin and the *)
(* command.  The inductive invariant has a part per question, each of them *)
(* relative to BaseInv: the types, the order of the outages, the counters, *)
(* and what the command knows.  Time enters by TimesInv, what the contexts *)
(* and timers bound; ApartInv says that a timer's analysis is alone, and   *)
(* FlapInv that what counts as flapping is settled before it.              *)
(*                                                                         *)
(* First the accounting of spend, for any kinds, limits, callers and       *)
(* months: every unit that is out (consumed, its call neither answered nor *)
(* given up) is still counted in ai_usage next to the billed ones, but for *)
(* the units given back without cause; and ai_usage never passes the limit.*)
(***************************************************************************)
EXTENDS MCAnalysis, FiniteSetTheorems, SequenceTheorems, TLAPS

(* The accounting of spend.                                                *)

\* The caller holds a unit whose call was not answered.
Out(c) == caller[c].stage # "idle" /\ ~caller[c].answered

\* The callers that hold a unit of month m and kind k.
Units(m, k) == {c \in Callers : Out(c) /\ caller[c].kind = k /\ caller[c].month = m}

Covered(m, k) ==
    /\ billed[m][k] + Cardinality(Units(m, k)) <= calls[m][k] + unearned[m][k]
    /\ calls[m][k] <= Limit[k]

AllCovered == \A m \in Months, k \in Kinds : Covered(m, k)

\* Only a caller that refunds is ever about to, an answer comes once, and a kind
\* nobody refunds gets nothing back.
SpendInv ==
    /\ SpendTypeOK
    /\ \A c \in Callers : caller[c].stage = "failed" => caller[c].kind \in Refunded
    /\ \A c \in Callers : caller[c].stage = "calling" => ~caller[c].answered
    /\ \A m \in Months, k \in Kinds \ Refunded : unearned[m][k] = 0

\* Where no failure is billed and no month ends, nothing is given back without
\* cause.
NothingUnearned ==
    /\ \A c \in Callers : ~caller[c].answered
    /\ \A m \in Months, k \in Kinds : unearned[m][k] = 0

CallerRecord == [stage : {"idle", "calling", "failed"}, kind : Kinds, month : Months,
                 answered : BOOLEAN]

LEMMA IdleType == Idle \in CallerRecord /\ Idle.stage = "idle" /\ ~Idle.answered
  BY BudgetAssumption DEF Idle, AnyKind, Months, CallerRecord

LEMMA SpendInitInv == SpendInit => SpendInv
  BY IdleType, BudgetAssumption
  DEF SpendInit, SpendInv, SpendTypeOK, BudgetTypeOK, BudgetInit, Months, CallerRecord

\* What a failure leaves of the caller's record.
LEMMA FailedCaller ==
  ASSUME SpendInv, NEW c \in Callers, NEW a \in BOOLEAN, Fails(c, a)
  PROVE  /\ caller' \in [Callers -> CallerRecord]
         /\ \A d \in Callers \ {c} : caller'[d] = caller[d]
         /\ caller[c].kind \in Refunded =>
               caller'[c] = [caller[c] EXCEPT !.stage = "failed", !.answered = a]
         /\ caller[c].kind \notin Refunded => caller'[c] = Idle
         /\ caller'[c].stage # "calling"
         /\ caller'[c].stage = "failed" => caller'[c].kind \in Refunded
         /\ ~a => ~caller'[c].answered
<1> DEFINE failed == [caller[c] EXCEPT !.stage = "failed", !.answered = a]
<1>0. caller \in [Callers -> CallerRecord] /\ caller[c] \in CallerRecord
  BY DEF SpendInv, SpendTypeOK, CallerRecord
<1>1. CASE caller[c].kind \in Refunded
  <2>1. /\ failed \in CallerRecord /\ failed.stage = "failed"
        /\ failed.kind = caller[c].kind /\ failed.answered = a
    BY <1>0 DEF CallerRecord
  <2>2. caller' = [caller EXCEPT ![c] = failed]
    BY <1>0, <1>1 DEF Fails
  <2> HIDE DEF failed
  <2>3. /\ caller' \in [Callers -> CallerRecord] /\ caller'[c] = failed
        /\ \A d \in Callers \ {c} : caller'[d] = caller[d]
    BY <1>0, <2>1, <2>2
  <2>4. caller'[c] = [caller[c] EXCEPT !.stage = "failed", !.answered = a]
    BY <2>3 DEF failed
  <2> QED
    BY <1>1, <2>1, <2>3, <2>4
<1>2. CASE caller[c].kind \notin Refunded
  <2>1. caller' = [caller EXCEPT ![c] = Idle]
    BY <1>0, <1>2 DEF Fails
  <2>2. /\ caller' \in [Callers -> CallerRecord] /\ caller'[c] = Idle
        /\ \A d \in Callers \ {c} : caller'[d] = caller[d]
    BY <1>0, <2>1, IdleType
  <2> QED
    BY <1>2, <2>2, IdleType
<1> QED
  BY <1>1, <1>2

LEMMA SpendStepInv == SpendInv /\ [SpendNext]_spendVars => SpendInv'
<1> SUFFICES ASSUME SpendInv, [SpendNext]_spendVars PROVE SpendInv'
  OBVIOUS
<1> USE DEF SpendInv, SpendTypeOK, BudgetTypeOK
<1>1. ASSUME NEW c \in Callers, NEW k \in Kinds, Begin(c, k) PROVE SpendInv'
  BY <1>1 DEF Begin, ConsumeAIBudget
<1>2. ASSUME NEW c \in Callers, NEW a \in BOOLEAN, Fails(c, a), UNCHANGED <<month, calls, unearned>>,
             billed' \in [Months -> [Kinds -> Nat]]
      PROVE  SpendInv'
  <2>1. caller' \in [Callers -> CallerRecord]
    BY <1>2, FailedCaller
  <2>2. ASSUME NEW d \in Callers, caller'[d].stage = "failed" PROVE caller'[d].kind \in Refunded
    BY <1>2, <2>2, FailedCaller
  <2>3. ASSUME NEW d \in Callers, caller'[d].stage = "calling" PROVE ~caller'[d].answered
    BY <1>2, <2>3, FailedCaller
  <2> QED
    BY <1>2, <2>1, <2>2, <2>3 DEF CallerRecord
<1>3. ASSUME NEW c \in Callers, Answered(c) PROVE SpendInv'
  <2>1. billed' \in [Months -> [Kinds -> Nat]] /\ UNCHANGED <<month, calls, unearned>>
    BY <1>3 DEF Answered, budgetVars
  <2>2. CASE caller' = [caller EXCEPT ![c] = Idle]
    BY <2>1, <2>2, IdleType DEF CallerRecord
  <2> QED
    BY <1>2, <1>3, <2>1, <2>2 DEF Answered
<1>4. ASSUME NEW c \in Callers, NotSent(c) PROVE SpendInv'
  BY <1>2, <1>4 DEF NotSent, budgetVars
<1>5. ASSUME NEW c \in Callers, Refund(c) PROVE SpendInv'
  <2> DEFINE j == caller[c].kind
             left == IF calls[month][j] = 0 THEN 0 ELSE calls[month][j] - 1
  <2>1. j \in Kinds /\ j \in Refunded /\ month \in Months /\ calls[month][j] \in Nat
    BY <1>5 DEF Refund
  <2>2. left \in Nat
    BY <2>1
  <2>3. calls' = [calls EXCEPT ![month] = [calls[month] EXCEPT ![j] = left]] /\ month' = month
    BY <1>5 DEF Refund, RefundAIBudget
  <2>4. /\ unearned' \in [Months -> [Kinds -> Nat]]
        /\ \A m \in Months, k \in Kinds \ Refunded : unearned'[m][k] = unearned[m][k]
    BY <1>5, <2>1 DEF Refund
  <2>5. caller' = [caller EXCEPT ![c] = Idle] /\ billed' = billed
    BY <1>5 DEF Refund
  <2> HIDE DEF left
  <2>6. calls' \in [Months -> [Kinds -> Nat]]
    BY <2>1, <2>2, <2>3
  <2> QED
    BY <2>3, <2>4, <2>5, <2>6, IdleType DEF CallerRecord
<1>6. ASSUME NEW c \in Callers, RefundFails(c) PROVE SpendInv'
  BY <1>6, IdleType DEF RefundFails, budgetVars, CallerRecord
<1>7. CASE Restart
  BY <1>7, IdleType DEF Restart, budgetVars, CallerRecord
<1>8. CASE MonthEnds
  <2>1. month' \in Months
    BY <1>8, BudgetAssumption DEF MonthEnds, NextMonth, Months
  <2> QED
    BY <1>8, <2>1 DEF MonthEnds, NextMonth
<1>9. CASE UNCHANGED spendVars
  BY <1>9 DEF spendVars, budgetVars
<1> QED
  BY <1>1, <1>3, <1>4, <1>5, <1>6, <1>7, <1>8, <1>9 DEF SpendNext

\* Units are counted by a finite set.
LEMMA UnitsFinite ==
  ASSUME NEW m, NEW k
  PROVE  IsFiniteSet(Units(m, k)) /\ Cardinality(Units(m, k)) \in Nat
  BY SpendAssumption, FS_Subset, FS_CardinalityType DEF Units

\* One if the caller's unit is out, of month m and kind k.
Mine(c, m, k) == IF Out(c) /\ caller[c].kind = k /\ caller[c].month = m THEN 1 ELSE 0

\* A caller that no longer has a unit out, and nobody else changes.
LEMMA UnitDropped ==
  ASSUME SpendInv, NEW m \in Months, NEW k \in Kinds, NEW c \in Callers,
         ~Out(c)', \A d \in Callers \ {c} : caller'[d] = caller[d]
  PROVE  /\ Cardinality(Units(m, k)') \in Nat
         /\ Cardinality(Units(m, k)') = Cardinality(Units(m, k)) - Mine(c, m, k)
<1>1. CASE Mine(c, m, k) = 1
  <2>1. c \in Units(m, k) /\ Units(m, k)' = Units(m, k) \ {c}
    BY <1>1 DEF Units, Mine, Out
  <2>2. /\ Cardinality(Units(m, k) \ {c}) = Cardinality(Units(m, k)) - 1
        /\ Cardinality(Units(m, k) \ {c}) \in Nat
    BY <2>1, UnitsFinite, FS_RemoveElement, FS_CardinalityType
  <2> QED
    BY <1>1, <2>1, <2>2
<1>2. CASE Mine(c, m, k) = 0
  <2>1. Units(m, k)' = Units(m, k)
    BY <1>2 DEF Units, Mine, Out
  <2> QED
    BY <1>2, <2>1, UnitsFinite
<1> QED
  BY <1>1, <1>2 DEF Mine

\* A failure keeps the unit out or drops it.
LEMMA UnitAfterFailure ==
  ASSUME SpendInv, NEW m \in Months, NEW k \in Kinds, NEW c \in Callers,
         caller[c].stage = "calling", NEW a \in BOOLEAN, Fails(c, a)
  PROVE  /\ Cardinality(Units(m, k)') \in Nat
         /\ Cardinality(Units(m, k)') <= Cardinality(Units(m, k))
         /\ a => Cardinality(Units(m, k)') = Cardinality(Units(m, k)) - Mine(c, m, k)
<1>1. \A d \in Callers \ {c} : caller'[d] = caller[d]
  BY FailedCaller
<1>2. CASE caller[c].kind \in Refunded /\ ~a
  <2>1. caller'[c] = [caller[c] EXCEPT !.stage = "failed", !.answered = FALSE]
    BY <1>2, FailedCaller
  <2>2. Out(c) /\ Out(c)' /\ caller'[c].kind = caller[c].kind /\ caller'[c].month = caller[c].month
    BY <2>1 DEF Out, SpendInv, SpendTypeOK
  <2>3. Units(m, k)' = Units(m, k)
    BY <1>1, <2>2 DEF Units, Out
  <2> QED
    BY <1>2, <2>3, UnitsFinite
<1>3. CASE ~(caller[c].kind \in Refunded /\ ~a)
  <2>1. ~Out(c)'
    <3>1. CASE caller[c].kind \in Refunded
      <4>1. caller'[c] = [caller[c] EXCEPT !.stage = "failed", !.answered = TRUE]
        BY <1>3, <3>1, FailedCaller
      <4> QED
        BY <4>1 DEF Out, SpendInv, SpendTypeOK
    <3>2. CASE caller[c].kind \notin Refunded
      BY <3>2, FailedCaller, IdleType DEF Out
    <3> QED
      BY <3>1, <3>2
  <2>2. /\ Cardinality(Units(m, k)') \in Nat
        /\ Cardinality(Units(m, k)') = Cardinality(Units(m, k)) - Mine(c, m, k)
    BY <1>1, <2>1, UnitDropped
  <2>3. Mine(c, m, k) \in Nat /\ Cardinality(Units(m, k)) \in Nat
    BY UnitsFinite DEF Mine
  <2> QED
    BY <2>2, <2>3
<1> QED
  BY <1>2, <1>3

\* No step of a caller, no restart and no end of a month uncovers a kind.
LEMMA CoveredStep ==
  ASSUME SpendInv, [SpendNext]_spendVars, NEW m \in Months, NEW k \in Kinds, Covered(m, k)
  PROVE  Covered(m, k)'
<1> DEFINE u == Cardinality(Units(m, k))
<1>0. /\ u \in Nat /\ billed[m][k] \in Nat /\ calls[m][k] \in Nat /\ Limit[k] \in Nat
      /\ unearned[m][k] \in Nat
      /\ month \in Months /\ calls \in [Months -> [Kinds -> Nat]]
      /\ billed \in [Months -> [Kinds -> Nat]] /\ unearned \in [Months -> [Kinds -> Nat]]
  BY UnitsFinite, BudgetAssumption DEF SpendInv, SpendTypeOK, BudgetTypeOK
<1>1. ASSUME NEW c \in Callers, NEW j \in Kinds, Begin(c, j) PROVE Covered(m, k)'
  <2>1. billed' = billed /\ unearned' = unearned
    BY <1>1 DEF Begin
  <2>2. CASE m = month /\ j = k
    <3>1. c \notin Units(m, k) /\ Units(m, k)' = Units(m, k) \union {c}
      BY <1>0, <1>1, <2>2 DEF Begin, Units, Out, SpendInv, SpendTypeOK
    <3>2. Cardinality(Units(m, k)') = u + 1
      BY <3>1, UnitsFinite, FS_AddElement
    <3>3. calls'[m][k] = calls[m][k] + 1 /\ calls[m][k] < Limit[k]
      BY <1>0, <1>1, <2>2 DEF Begin, ConsumeAIBudget
    <3> QED
      BY <1>0, <2>1, <3>2, <3>3 DEF Covered
  <2>3. CASE ~(m = month /\ j = k)
    <3>1. Units(m, k)' = Units(m, k)
      BY <1>0, <1>1, <2>3 DEF Begin, Units, Out, SpendInv, SpendTypeOK
    <3>2. calls'[m][k] = calls[m][k]
      BY <1>0, <1>1, <2>3 DEF Begin, ConsumeAIBudget
    <3> QED
      BY <2>1, <3>1, <3>2 DEF Covered
  <2> QED
    BY <2>2, <2>3
<1>2. ASSUME NEW c \in Callers, Answered(c) PROVE Covered(m, k)'
  <2>1. calls' = calls /\ unearned' = unearned /\ caller[c].stage = "calling" /\ Out(c)
    BY <1>2 DEF Answered, budgetVars, Out, SpendInv
  <2>2. billed'[m][k] = billed[m][k] + Mine(c, m, k)
    BY <1>0, <1>2, <2>1 DEF Answered, SpendInv, SpendTypeOK, Mine
  <2>3. /\ Cardinality(Units(m, k)') \in Nat
        /\ Cardinality(Units(m, k)') = u - Mine(c, m, k)
    <3>1. CASE Fails(c, TRUE)
      BY <2>1, <3>1, UnitAfterFailure
    <3>2. CASE caller' = [caller EXCEPT ![c] = Idle]
      <4>1. ~Out(c)' /\ \A d \in Callers \ {c} : caller'[d] = caller[d]
        BY <3>2, IdleType DEF Out, SpendInv, SpendTypeOK
      <4> QED
        BY <4>1, UnitDropped
    <3> QED
      BY <1>2, <3>1, <3>2 DEF Answered
  <2>4. Mine(c, m, k) \in Nat
    BY DEF Mine
  <2>5. billed'[m][k] + Cardinality(Units(m, k)') = billed[m][k] + u
    BY <1>0, <2>2, <2>3, <2>4
  <2> QED
    BY <2>1, <2>5 DEF Covered
<1>3. ASSUME NEW c \in Callers, NotSent(c) PROVE Covered(m, k)'
  <2>1. calls' = calls /\ billed' = billed /\ unearned' = unearned
    BY <1>3 DEF NotSent, budgetVars
  <2>2. Cardinality(Units(m, k)') \in Nat /\ Cardinality(Units(m, k)') <= u
    BY <1>3, UnitAfterFailure DEF NotSent
  <2>3. billed'[m][k] + Cardinality(Units(m, k)') <= calls'[m][k] + unearned'[m][k]
    BY <1>0, <2>1, <2>2 DEF Covered
  <2> QED
    BY <2>1, <2>3 DEF Covered
<1>4. ASSUME NEW c \in Callers, caller' = [caller EXCEPT ![c] = Idle]
      PROVE  /\ Cardinality(Units(m, k)') \in Nat
             /\ Cardinality(Units(m, k)') = u - Mine(c, m, k)
  <2>1. ~Out(c)' /\ \A d \in Callers \ {c} : caller'[d] = caller[d]
    BY <1>4, IdleType DEF Out, SpendInv, SpendTypeOK
  <2> QED
    BY <2>1, UnitDropped
<1>5. ASSUME NEW c \in Callers, Refund(c) PROVE Covered(m, k)'
  <2> DEFINE j == caller[c].kind
  <2>1. /\ billed' = billed
        /\ Cardinality(Units(m, k)') \in Nat
        /\ Cardinality(Units(m, k)') = u - Mine(c, m, k)
    BY <1>4, <1>5 DEF Refund
  <2>2. CASE ~(m = month /\ j = k)
    <3>1. calls'[m][k] = calls[m][k] /\ unearned'[m][k] = unearned[m][k]
      BY <1>0, <1>5, <2>2 DEF Refund, RefundAIBudget
    <3>2. Mine(c, m, k) \in Nat
      BY DEF Mine
    <3>3. billed'[m][k] + Cardinality(Units(m, k)') <= calls'[m][k] + unearned'[m][k]
      BY <1>0, <2>1, <3>1, <3>2 DEF Covered
    <3> QED
      BY <3>1, <3>3 DEF Covered
  <2>3. CASE m = month /\ j = k
    <3>1. calls'[m][k] = IF calls[m][k] = 0 THEN 0 ELSE calls[m][k] - 1
      BY <1>0, <1>5, <2>3 DEF Refund, RefundAIBudget
    <3>2. calls'[m][k] \in Nat /\ calls'[m][k] <= Limit[k] /\ calls'[m][k] >= calls[m][k] - 1
      <4>1. calls[m][k] <= Limit[k]
        BY DEF Covered
      <4>2. CASE calls[m][k] = 0
        BY <1>0, <3>1, <4>1, <4>2
      <4>3. CASE calls[m][k] # 0
        <5>1. calls'[m][k] = calls[m][k] - 1 /\ calls[m][k] >= 1
          BY <1>0, <3>1, <4>3
        <5> QED
          BY <1>0, <4>1, <5>1
      <4> QED
        BY <4>2, <4>3
    <3>3. CASE Unearned(c)
      <4>1. unearned'[m][k] = unearned[m][k] + 1
        BY <1>0, <1>5, <2>3, <3>3 DEF Refund
      <4>2. Mine(c, m, k) \in Nat
        BY DEF Mine
      <4>3. billed'[m][k] + Cardinality(Units(m, k)') <= calls'[m][k] + unearned'[m][k]
        BY <1>0, <2>1, <3>2, <4>1, <4>2 DEF Covered
      <4> QED
        BY <3>2, <4>3 DEF Covered
    <3>4. CASE ~Unearned(c)
      <4>1. unearned'[m][k] = unearned[m][k] /\ Mine(c, m, k) = 1
        BY <1>5, <2>3, <3>4 DEF Refund, Unearned, Mine, Out
      <4>2. billed'[m][k] + Cardinality(Units(m, k)') <= calls'[m][k] + unearned'[m][k]
        BY <1>0, <2>1, <3>2, <4>1 DEF Covered
      <4> QED
        BY <3>2, <4>2 DEF Covered
    <3> QED
      BY <3>3, <3>4
  <2> QED
    BY <2>2, <2>3
<1>6. ASSUME NEW c \in Callers, RefundFails(c) PROVE Covered(m, k)'
  <2>1. calls' = calls /\ billed' = billed /\ unearned' = unearned
    BY <1>6 DEF RefundFails, budgetVars
  <2>2. Mine(c, m, k) \in Nat
    BY DEF Mine
  <2>3. /\ Cardinality(Units(m, k)') \in Nat
        /\ Cardinality(Units(m, k)') = u - Mine(c, m, k)
    BY <1>4, <1>6 DEF RefundFails
  <2>4. billed'[m][k] + Cardinality(Units(m, k)') <= calls'[m][k] + unearned'[m][k]
    BY <1>0, <2>1, <2>2, <2>3 DEF Covered
  <2> QED
    BY <2>1, <2>4 DEF Covered
<1>7. CASE Restart
  <2>1. Units(m, k)' = {} /\ calls' = calls /\ billed' = billed /\ unearned' = unearned
    BY <1>7, IdleType DEF Restart, Units, Out, budgetVars
  <2>2. billed'[m][k] + Cardinality(Units(m, k)') <= calls'[m][k] + unearned'[m][k]
    BY <1>0, <2>1, FS_EmptySet DEF Covered
  <2> QED
    BY <2>1, <2>2 DEF Covered
<1>8. CASE MonthEnds \/ UNCHANGED spendVars
  <2>1. Units(m, k)' = Units(m, k) /\ calls' = calls /\ billed' = billed /\ unearned' = unearned
    BY <1>8 DEF MonthEnds, NextMonth, Units, Out, spendVars, budgetVars
  <2> QED
    BY <2>1 DEF Covered
<1> QED
  BY <1>1, <1>2, <1>3, <1>5, <1>6, <1>7, <1>8 DEF SpendNext

LEMMA CoveredInit == ASSUME SpendInit, NEW m \in Months, NEW k \in Kinds PROVE Covered(m, k)
<1>1. Units(m, k) = {} /\ calls[m][k] = 0 /\ billed[m][k] = 0 /\ unearned[m][k] = 0
  BY IdleType DEF SpendInit, BudgetInit, Units, Out
<1> QED
  BY <1>1, FS_EmptySet, BudgetAssumption DEF Covered

LEMMA CoveredInv == SpendSpec => [](SpendInv /\ AllCovered)
<1>1. SpendInit => SpendInv /\ AllCovered
  BY SpendInitInv, CoveredInit DEF AllCovered
<1>2. SpendInv /\ AllCovered /\ [SpendNext]_spendVars => (SpendInv /\ AllCovered)'
  BY SpendStepInv, CoveredStep DEF AllCovered, Months
<1> QED
  BY <1>1, <1>2, PTL DEF SpendSpec

\* Covered is what bounds the billed calls.
LEMMA CoveredBounds ==
  ASSUME SpendInv, AllCovered, NEW m \in Months, NEW k \in Kinds
  PROVE  billed[m][k] <= Limit[k] + unearned[m][k]
  BY UnitsFinite, BudgetAssumption DEF AllCovered, Covered, SpendInv, SpendTypeOK, BudgetTypeOK

\* Types, and the accounting of every kind: across months, billed failures,
\* refunds and restarts, the bill passes the limit by units given back without
\* cause and by nothing else.
THEOREM Accounting == SpendSpec => [](SpendTypeOK /\ SpendAccounted)
<1>1. SpendInv /\ AllCovered => SpendTypeOK /\ SpendAccounted
  BY CoveredBounds DEF SpendInv, SpendAccounted
<1> QED
  BY <1>1, CoveredInv, PTL

\* The ceiling itself on the kinds whose units are never given back (the
\* embeddings).
THEOREM UnrefundedCeiling == SpendSpec => []UnrefundedWithinLimit
<1>1. SpendInv /\ AllCovered => UnrefundedWithinLimit
  <2> SUFFICES ASSUME SpendInv, AllCovered, NEW m \in Months, NEW k \in Kinds \ Refunded
               PROVE  billed[m][k] <= Limit[k]
    BY DEF UnrefundedWithinLimit
  <2>1. unearned[m][k] = 0
    BY DEF SpendInv
  <2> QED
    BY <2>1, CoveredBounds, BudgetAssumption
<1> QED
  BY <1>1, CoveredInv, PTL

\* One step, where no failure is billed and no month ends.
LEMMA NothingUnearnedStep ==
  ASSUME ~FailuresBilled, MaxMonth = 0, SpendInv, NothingUnearned, [SpendNext]_spendVars
  PROVE  NothingUnearned'
<1> USE DEF NothingUnearned
<1>1. ASSUME NEW c \in Callers, NEW k \in Kinds, Begin(c, k) PROVE NothingUnearned'
  BY <1>1 DEF Begin, SpendInv, SpendTypeOK
<1>2. ASSUME NEW c \in Callers, Answered(c) PROVE NothingUnearned'
  BY <1>2, IdleType DEF Answered, SpendInv, SpendTypeOK
<1>3. ASSUME NEW c \in Callers, NotSent(c) PROVE NothingUnearned'
  <2>1. ASSUME NEW d \in Callers PROVE ~caller'[d].answered
    BY <1>3, FailedCaller DEF NotSent
  <2> QED
    BY <1>3, <2>1 DEF NotSent
<1>4. ASSUME NEW c \in Callers, Refund(c) PROVE NothingUnearned'
  <2>1. ~Unearned(c)
    BY BudgetAssumption DEF Unearned, SpendInv, SpendTypeOK, BudgetTypeOK, Months
  <2> QED
    BY <1>4, <2>1, IdleType DEF Refund, SpendInv, SpendTypeOK
<1>5. ASSUME NEW c \in Callers, RefundFails(c) PROVE NothingUnearned'
  BY <1>5, IdleType DEF RefundFails, SpendInv, SpendTypeOK
<1>6. CASE Restart
  BY <1>6, IdleType DEF Restart
<1>7. CASE MonthEnds \/ UNCHANGED spendVars
  BY <1>7 DEF MonthEnds, spendVars
<1> QED
  BY <1>1, <1>2, <1>3, <1>4, <1>5, <1>6, <1>7 DEF SpendNext

\* The ceiling itself on every kind, when a call that failed is never billed and
\* units are given back in the month they were taken in.
THEOREM Ceiling == ASSUME ~FailuresBilled, MaxMonth = 0 PROVE SpendSpec => []SpendWithinLimit
<1>1. SpendInit => NothingUnearned
  BY IdleType DEF SpendInit, NothingUnearned
<1>2. SpendInv /\ NothingUnearned /\ [SpendNext]_spendVars => NothingUnearned'
  BY NothingUnearnedStep
<1>3. SpendInv /\ AllCovered /\ NothingUnearned => SpendWithinLimit
  <2> SUFFICES ASSUME SpendInv, AllCovered, NothingUnearned, NEW m \in Months, NEW k \in Kinds
               PROVE  billed[m][k] <= Limit[k]
    BY DEF SpendWithinLimit
  <2>1. unearned[m][k] = 0
    BY DEF NothingUnearned
  <2> QED
    BY <2>1, CoveredBounds, BudgetAssumption
<1> QED
  BY <1>1, <1>2, <1>3, CoveredInv, PTL DEF SpendSpec

-----------------------------------------------------------------------------
(* The analysis of outages.                                                *)

TimerTasks == {t \in tasks : t.by = "timer"}
Enriching == {t \in TimerTasks : t.stage # "get"}

\* Outages come one after the other, all but the last are over, and the rows of
\* earlier processes come first.
RowsInv ==
    /\ \A i, j \in Ids : i < j => rows[i].started <= rows[j].started
    /\ \A i, j \in Ids : i < j => rows[i].over
    /\ \A i \in Ids : rows[i].started <= changedAt
    /\ changedAt <= clock

\* The counters, by month: no more than the limit, and nothing before its time.
CountersOK ==
    /\ BudgetTypeOK
    /\ \A k \in Kinds : calls[month][k] <= Limit[k]
    /\ \A m \in Months, k \in Kinds : m > month => calls[m][k] = 0

\* Only timers look at the row first.
GetInv == \A t \in tasks : t.stage = "get" => t.by = "timer"

TrailInv == TrailRows = {} \/ TrailRows = 1 .. FlapLimit

\* An outage of this process has one timer, which starts one task.
OnceInv ==
    /\ \A t, u \in timers : t.id = u.id => t = u
    /\ \A t \in timers, u \in TimerTasks : t.id # u.id
    /\ \A t, u \in TimerTasks : t.id = u.id => t = u

\* While a timer's enrich is under way no later outage is analysed by its timer.
Alone(t) ==
    /\ rows[t.id].over => t.since <= changedAt
    /\ \A u \in timers : u.id > t.id => u.due >= t.since + MinGap + AnalysisDelay
    /\ \A u \in TimerTasks : u.id <= t.id
    /\ \A j \in Ids : j > t.id => rows[j].verdict.by # "timer"

ApartInv == \A t \in Enriching : Alone(t)

\* It asks the model only when the cooldown of the last verdict is over.
Checked == {"embed", "attach", "budget", "analyze"}

CooledInv ==
    \A t \in TimerTasks :
        t.stage \in Checked /\ ~t.blind =>
            \A i \in Ids : i < t.id /\ rows[i].verdict.by = "timer" => clock >= rows[i].verdict.at + Cooldown

\* What counts as flapping does not change any more.
FlapInv ==
    /\ \A i \in Ids : rows[i].verdict.by \in {"timer", "admin"} => Cardinality(Earlier(i)) < FlapLimit
    /\ \A t \in tasks :
         /\ t.stage = "note" => Cardinality(Earlier(t.id)) >= FlapLimit
         /\ t.stage \in Checked \union {"cooldown"} => Cardinality(Earlier(t.id)) < FlapLimit

\* The rows an admin's request may have cost an embedding.
Waiting(id) ==
    \/ \E t \in timers : t.id = id
    \/ \E t \in TimerTasks : t.id = id /\ t.stage \in {"get", "summary"}
Touched ==
    {id \in Ids :
       /\ rows[id].started > 0
       /\ \/ rows[id].embedding = "dropped"
          \/ \E t \in tasks : t.id = id /\ t.by = "admin"
          \/ rows[id].embedding = "kept" /\ Waiting(id)}

EmbeddingInv == IsFiniteSet(Touched) /\ Cardinality(Touched) <= requests

\* The command.
HasVerdict(i) == rows[i].verdict.by # "none"
CommandInv ==
    /\ cmd.had \subseteq {i \in Ids : HasVerdict(i)}
    /\ cmd.stage \in {"embed", "stats", "analyze", "save"} => cmd.row \notin cmd.had
    /\ cmd.clean =>
         IF cmd.stage = "idle" THEN \A i \in TrailRows : HasVerdict(i)
         ELSE \A i \in TrailRows : i < cmd.row => HasVerdict(i)

BaseInv == CommandTypeOK /\ CountersOK /\ RowsInv /\ TrailInv /\ GetInv /\ CommandInv

-----------------------------------------------------------------------------
(* What the steps have in common.                                          *)

Verdict == [by : {"none", "timer", "admin", "rule", "command"}, at : Times, blind : BOOLEAN]

\* The outages stay as they are.
OutagesStay ==
    /\ rows' \in Seq(Row) /\ DOMAIN rows' = DOMAIN rows
    /\ \A i \in Ids :
         /\ rows'[i].started = rows[i].started
         /\ rows'[i].over = rows[i].over
         /\ rows'[i].blip = rows[i].blip

LEMMA RowFields ==
    ASSUME rows \in Seq(Row), NEW i \in Ids
    PROVE  /\ rows[i] \in Row
           /\ rows[i].started \in Nat /\ rows[i].started \in Times
           /\ rows[i].verdict \in Verdict /\ rows[i].verdict.at \in Nat
           /\ i \in 1 .. Len(rows) /\ i \in Nat
<1>1. i \in 1 .. Len(rows) /\ Len(rows) \in Nat
  BY LenProperties DEF Ids
<1>2. rows[i] \in Row
  BY <1>1, ElementOfSeq
<1> QED
  BY <1>1, <1>2 DEF Row, Verdict, Times

\* One row is written.
LEMMA RowWritten ==
    ASSUME rows \in Seq(Row), NEW i \in Ids, NEW row \in Row, rows' = [rows EXCEPT ![i] = row]
    PROVE  /\ rows' \in Seq(Row) /\ DOMAIN rows' = DOMAIN rows
           /\ rows'[i] = row /\ \A j \in Ids : j # i => rows'[j] = rows[j]
<1>1. i \in 1 .. Len(rows)
  BY LenProperties DEF Ids
<1> QED
  BY <1>1, ExceptSeq DEF Ids

LEMMA VerdictWritten ==
    ASSUME rows \in Seq(Row), NEW i \in Ids, NEW v \in Verdict,
           rows' = [rows EXCEPT ![i].verdict = v]
    PROVE  /\ OutagesStay
           /\ \A j \in Ids : rows'[j].embedding = rows[j].embedding
           /\ rows'[i].verdict = v /\ \A j \in Ids : j # i => rows'[j].verdict = rows[j].verdict
<1> DEFINE row == [rows[i] EXCEPT !.verdict = v]
<1>1. rows[i] \in Row
  BY RowFields
<1>2. /\ row \in Row /\ row.verdict = v /\ row.started = rows[i].started
      /\ row.over = rows[i].over /\ row.blip = rows[i].blip /\ row.embedding = rows[i].embedding
  BY <1>1 DEF Row, Verdict
<1>3. rows' = [rows EXCEPT ![i] = row]
  OBVIOUS
<1> HIDE DEF row
<1>4. /\ rows' \in Seq(Row) /\ DOMAIN rows' = DOMAIN rows
      /\ rows'[i] = row /\ \A j \in Ids : j # i => rows'[j] = rows[j]
  BY <1>2, <1>3, RowWritten
<1> QED
  BY <1>2, <1>4 DEF OutagesStay

LEMMA EmbeddingWritten ==
    ASSUME rows \in Seq(Row), NEW i \in Ids, NEW embedded \in BOOLEAN, SaveEnrichment(i, embedded)
    PROVE  /\ OutagesStay
           /\ \A j \in Ids : rows'[j].verdict = rows[j].verdict
           /\ \A j \in Ids : j # i => rows'[j].embedding = rows[j].embedding
           /\ rows'[i].embedding = IF embedded THEN "kept"
                                   ELSE IF rows[i].embedding = "none" THEN "none" ELSE "dropped"
<1> DEFINE e == IF embedded THEN "kept"
                ELSE IF rows[i].embedding = "none" THEN "none" ELSE "dropped"
           row == [rows[i] EXCEPT !.embedding = e]
<1>1. rows[i] \in Row /\ e \in {"none", "kept", "dropped"}
  BY RowFields
<1>2. rows' = [rows EXCEPT ![i].embedding = e]
  BY DEF SaveEnrichment
<1> HIDE DEF e
<1>3. /\ row \in Row /\ row.verdict = rows[i].verdict /\ row.started = rows[i].started
      /\ row.over = rows[i].over /\ row.blip = rows[i].blip /\ row.embedding = e
  BY <1>1 DEF Row
<1>4. rows' = [rows EXCEPT ![i] = row]
  BY <1>2
<1> HIDE DEF row
<1>5. /\ rows' \in Seq(Row) /\ DOMAIN rows' = DOMAIN rows
      /\ rows'[i] = row /\ \A j \in Ids : j # i => rows'[j] = rows[j]
  BY <1>3, <1>4, RowWritten
<1>6. OutagesStay /\ \A j \in Ids : rows'[j].verdict = rows[j].verdict
  BY <1>3, <1>5 DEF OutagesStay
<1> QED
  BY <1>3, <1>5, <1>6 DEF e

LEMMA SameRows ==
    ASSUME rows \in Seq(Row), rows' = rows
    PROVE  /\ OutagesStay
           /\ \A j \in Ids : rows'[j].verdict = rows[j].verdict /\ rows'[j].embedding = rows[j].embedding
BY DEF OutagesStay

LEMMA CountersKept ==
    ASSUME CountersOK, NEW k \in Kinds, ConsumeAIBudget(k) \/ RefundAIBudget(k)
    PROVE  CountersOK'
<1>1. /\ month' = month /\ month \in Months /\ calls \in [Months -> [Kinds -> Nat]]
      /\ Limit[k] \in Nat /\ \A m \in Months : m \in Nat
  BY BudgetAssumption DEF ConsumeAIBudget, RefundAIBudget, CountersOK, BudgetTypeOK, Months
<1>2. PICK n \in Nat : calls' = [calls EXCEPT ![month][k] = n] /\ n <= Limit[k]
  <2>1. CASE ConsumeAIBudget(k)
    <3>1. calls[month][k] + 1 \in Nat /\ calls[month][k] + 1 <= Limit[k]
      BY <2>1, <1>1 DEF ConsumeAIBudget
    <3> QED
      BY <2>1, <3>1 DEF ConsumeAIBudget
  <2>2. CASE RefundAIBudget(k)
    <3> DEFINE n == IF calls[month][k] = 0 THEN 0 ELSE calls[month][k] - 1
    <3>1. n \in Nat /\ n <= Limit[k]
      BY <1>1 DEF CountersOK
    <3>2. calls' = [calls EXCEPT ![month][k] = n]
      BY <2>2 DEF RefundAIBudget
    <3> HIDE DEF n
    <3> QED
      BY <3>1, <3>2
  <2> QED
    BY <2>1, <2>2
<1>3. /\ calls' \in [Months -> [Kinds -> Nat]]
      /\ \A m \in Months : m # month => calls'[m] = calls[m]
      /\ calls'[month][k] = n /\ \A j \in Kinds : j # k => calls'[month][j] = calls[month][j]
  BY <1>1, <1>2
<1> QED
  BY <1>1, <1>2, <1>3 DEF CountersOK, BudgetTypeOK

-----------------------------------------------------------------------------
(* The steps of a goroutine.                                               *)

Flapping(id) == Cardinality(Earlier(id)) >= FlapLimit

\* What enrich makes of the task t.
NextTask(t, u) ==
    /\ u \in Task /\ u.id = t.id /\ u.by = t.by
    /\ IF t.stage = "get" THEN u.stage = "summary" /\ u.since = clock /\ ~rows[t.id].over
       ELSE u.stage \notin {"get", "summary"} /\ u.since = t.since
    /\ u.stage = "note" => Flapping(t.id)
    /\ u.stage \in Checked \union {"cooldown"} =>
         t.stage \in Checked \union {"cooldown"} \/ ~Flapping(t.id)
    /\ u.stage \in Checked /\ ~u.blind => (t.stage \in Checked /\ ~t.blind) \/ ~CoolingDown(t.id)

TaskGoesOn(t) ==
    \/ tasks' = tasks \ {t}
    \/ \E u \in Task : NextTask(t, u) /\ tasks' = (tasks \ {t}) \union {u}

\* What it writes.
VerdictsKept(t) ==
    \A i \in Ids :
        \/ rows'[i].verdict = rows[i].verdict
        \/ i = t.id /\ t.stage = "note" /\ rows'[i].verdict.by = "rule"
        \/ /\ i = t.id /\ t.stage = "analyze"
           /\ rows'[i].verdict.by = t.by /\ rows'[i].verdict.at = clock /\ rows'[i].verdict.blind = t.blind

EmbeddingsKept(t) ==
    \A i \in Ids :
        \/ rows'[i].embedding = rows[i].embedding
        \/ i = t.id /\ t.stage = "summary" /\ rows[i].embedding # "none" /\ rows'[i].embedding = "dropped"
        \/ i = t.id /\ t.stage = "attach" /\ rows'[i].embedding = "kept"

StepShape(t) ==
    /\ UNCHANGED <<month, clock, changedAt, timers, requests>>
    /\ CountersOK'
    /\ OutagesStay
    /\ TaskGoesOn(t)
    /\ VerdictsKept(t)
    /\ EmbeddingsKept(t)

ServerInv == AnalysisTypeOK /\ CountersOK /\ RowsInv /\ GetInv

LEMMA NextStage ==
    ASSUME NEW t \in Task, NEW stage \in Stages, NEW u, u = [t EXCEPT !.stage = stage]
    PROVE  /\ u \in Task /\ u.id = t.id /\ u.by = t.by /\ u.stage = stage
           /\ u.since = t.since /\ u.blind = t.blind
BY DEF Task

LEMMA CountersSame ==
    ASSUME CountersOK, UNCHANGED budgetVars
    PROVE  CountersOK'
BY DEF CountersOK, BudgetTypeOK, budgetVars, Months

\* Without a write the columns are what they were.
LEMMA NothingWritten ==
    ASSUME rows \in Seq(Row), rows' = rows, NEW t
    PROVE  OutagesStay /\ VerdictsKept(t) /\ EmbeddingsKept(t)
BY SameRows DEF VerdictsKept, EmbeddingsKept

LEMMA VerdictSaved ==
    ASSUME ServerInv, NEW t \in tasks, NEW by \in {"none", "timer", "admin", "rule", "command"},
           \/ t.stage = "note" /\ by = "rule"
           \/ t.stage = "analyze" /\ by = t.by,
           SaveVerdict(t, by)
    PROVE  OutagesStay /\ VerdictsKept(t) /\ EmbeddingsKept(t)
<1> DEFINE v == [by |-> by, at |-> clock, blind |-> t.blind]
<1>1. t \in Task /\ t.id \in Ids /\ clock \in Times /\ t.blind \in BOOLEAN /\ rows \in Seq(Row)
  BY DEF ServerInv, AnalysisTypeOK, Task
<1>2. v \in Verdict /\ v.by = by /\ v.at = clock /\ v.blind = t.blind
  BY <1>1 DEF Verdict
<1>3. rows' = [rows EXCEPT ![t.id].verdict = v]
  BY DEF SaveVerdict
<1> HIDE DEF v
<1>4. /\ OutagesStay
      /\ \A j \in Ids : rows'[j].embedding = rows[j].embedding
      /\ rows'[t.id].verdict = v /\ \A j \in Ids : j # t.id => rows'[j].verdict = rows[j].verdict
  BY <1>1, <1>2, <1>3, VerdictWritten
<1> QED
  BY <1>2, <1>4 DEF VerdictsKept, EmbeddingsKept

LEMMA EmbeddingSaved ==
    ASSUME ServerInv, NEW t \in tasks, NEW embedded \in BOOLEAN,
           t.stage = (IF embedded THEN "attach" ELSE "summary"),
           SaveEnrichment(t.id, embedded)
    PROVE  OutagesStay /\ VerdictsKept(t) /\ EmbeddingsKept(t)
<1>1. t.id \in Ids /\ rows \in Seq(Row)
  BY DEF ServerInv, AnalysisTypeOK, Task
<1>2. /\ OutagesStay
      /\ \A j \in Ids : rows'[j].verdict = rows[j].verdict
      /\ \A j \in Ids : j # t.id => rows'[j].embedding = rows[j].embedding
      /\ rows'[t.id].embedding = IF embedded THEN "kept"
                                 ELSE IF rows[t.id].embedding = "none" THEN "none" ELSE "dropped"
  BY <1>1, EmbeddingWritten
<1> QED
  BY <1>1, <1>2 DEF VerdictsKept, EmbeddingsKept

LEMMA GoesOn ==
    ASSUME ServerInv, NEW t \in tasks, NEW stage \in Stages \ {"get", "summary"}, t.stage # "get",
           Goes(t, stage),
           stage = "note" => Flapping(t.id),
           stage \in Checked => t.stage \in Checked,
           stage = "cooldown" => ~Flapping(t.id)
    PROVE  TaskGoesOn(t)
<1> DEFINE u == [t EXCEPT !.stage = stage]
<1>1. t \in Task
  BY DEF ServerInv, AnalysisTypeOK
<1>2. /\ u \in Task /\ u.id = t.id /\ u.by = t.by /\ u.stage = stage
      /\ u.since = t.since /\ u.blind = t.blind
  BY <1>1, NextStage
<1>3. tasks' = (tasks \ {t}) \union {u}
  BY DEF Goes
<1> HIDE DEF u
<1>4. NextTask(t, u)
  BY <1>1, <1>2 DEF NextTask, Checked
<1> QED
  BY <1>2, <1>3, <1>4 DEF TaskGoesOn

LEMMA StepShapes ==
    ASSUME ServerInv, NEW t \in tasks, Step(t)
    PROVE  StepShape(t)
<1> USE DEF ServerInv
<1>0. /\ t \in Task /\ t.id \in Ids /\ rows \in Seq(Row) /\ CountersOK /\ clock \in Times
      /\ {"verdict", "embed"} \subseteq Kinds
  BY AnalysisAssumption DEF AnalysisTypeOK, Task
<1>1. CASE LookAtRow(t)
  <2>1. UNCHANGED <<month, clock, changedAt, timers, requests, calls, rows>>
    BY <1>1 DEF LookAtRow, budgetVars
  <2>2. CASE Returns(t)
    BY <1>0, <2>1, <2>2, NothingWritten, CountersSame DEF StepShape, TaskGoesOn, Returns, budgetVars
  <2>3. CASE ~rows[t.id].over /\ tasks' = (tasks \ {t}) \union {Start(t.id, "timer", "summary")}
    <3> DEFINE u == Start(t.id, "timer", "summary")
    <3>1. u \in Task /\ u.id = t.id /\ u.by = "timer" /\ u.stage = "summary" /\ u.since = clock
      BY <1>0 DEF Start, Task, Stages
    <3>2. t.stage = "get" /\ t.by = "timer"
      BY <1>1 DEF LookAtRow, At, GetInv
    <3>3. tasks' = (tasks \ {t}) \union {u}
      BY <2>3
    <3> HIDE DEF u
    <3>4. NextTask(t, u)
      BY <2>3, <3>1, <3>2 DEF NextTask, Checked
    <3>5. TaskGoesOn(t)
      BY <3>1, <3>3, <3>4 DEF TaskGoesOn
    <3> QED
      BY <1>0, <2>1, <3>5, NothingWritten, CountersSame DEF StepShape, budgetVars
  <2> QED
    BY <1>1, <2>2, <2>3 DEF LookAtRow
<1>2. CASE SaveSummary(t)
  <2>1. UNCHANGED <<month, clock, changedAt, timers, requests, calls>> /\ t.stage = "summary"
    BY <1>2 DEF SaveSummary, budgetVars, At
  <2>2. OutagesStay /\ VerdictsKept(t) /\ EmbeddingsKept(t)
    <3>1. CASE SaveEnrichment(t.id, FALSE)
      BY <2>1, <3>1, EmbeddingSaved
    <3>2. CASE UNCHANGED rows
      BY <1>0, <3>2, NothingWritten
    <3> QED
      BY <1>2, <3>1, <3>2 DEF SaveSummary
  <2>3. TaskGoesOn(t)
    <3>1. Goes(t, "stats") /\ "stats" \in Stages \ {"get", "summary"} /\ "stats" \notin Checked
      BY <1>2 DEF SaveSummary, Stages, Checked
    <3> QED
      BY <2>1, <3>1, GoesOn
  <2> QED
    BY <1>0, <2>1, <2>2, <2>3, CountersSame DEF StepShape, budgetVars
<1>3. CASE ReadStats(t)
  <2>1. UNCHANGED <<month, clock, changedAt, timers, requests, calls, rows>> /\ t.stage = "stats"
    BY <1>3 DEF ReadStats, budgetVars, At
  <2>2. TaskGoesOn(t)
    <3>1. CASE Returns(t)
      BY <3>1 DEF TaskGoesOn, Returns
    <3>2. CASE Goes(t, "note") /\ Flapping(t.id)
      BY <2>1, <3>2, GoesOn DEF Stages, Checked
    <3>3. CASE Goes(t, "cooldown") /\ ~Flapping(t.id)
      BY <2>1, <3>3, GoesOn DEF Stages, Checked
    <3> QED
      BY <1>3, <3>1, <3>2, <3>3 DEF ReadStats, Flapping
  <2> QED
    BY <1>0, <2>1, <2>2, NothingWritten, CountersSame DEF StepShape, budgetVars
<1>4. CASE SaveNote(t)
  <2>1. UNCHANGED <<month, clock, changedAt, timers, requests, calls>> /\ t.stage = "note"
    BY <1>4 DEF SaveNote, budgetVars, At
  <2>2. OutagesStay /\ VerdictsKept(t) /\ EmbeddingsKept(t)
    <3>1. CASE SaveVerdict(t, "rule")
      BY <2>1, <3>1, VerdictSaved
    <3>2. CASE UNCHANGED rows
      BY <1>0, <3>2, NothingWritten
    <3> QED
      BY <1>4, <3>1, <3>2 DEF SaveNote
  <2>3. TaskGoesOn(t)
    BY <1>4 DEF SaveNote, Returns, TaskGoesOn
  <2> QED
    BY <1>0, <2>1, <2>2, <2>3, CountersSame DEF StepShape, budgetVars
<1>5. CASE CheckCooldown(t)
  <2>1. UNCHANGED <<month, clock, changedAt, timers, requests, calls, rows>> /\ t.stage = "cooldown"
    BY <1>5 DEF CheckCooldown, budgetVars, At
  <2>2. TaskGoesOn(t)
    <3>1. CASE Returns(t)
      BY <3>1 DEF TaskGoesOn, Returns
    <3>2. CASE tasks' = (tasks \ {t}) \union
                          {[t EXCEPT !.stage = "embed", !.blind = CoolingDown(t.id)]}
      <4> DEFINE u == [t EXCEPT !.stage = "embed", !.blind = CoolingDown(t.id)]
      <4>1. /\ u \in Task /\ u.id = t.id /\ u.by = t.by /\ u.stage = "embed" /\ u.since = t.since
            /\ u.blind = CoolingDown(t.id)
        BY <1>0 DEF Task, Stages, CoolingDown
      <4>2. tasks' = (tasks \ {t}) \union {u}
        BY <3>2
      <4> HIDE DEF u
      <4>3. NextTask(t, u)
        BY <2>1, <4>1 DEF NextTask, Checked
      <4> QED
        BY <4>1, <4>2, <4>3 DEF TaskGoesOn
    <3> QED
      BY <1>5, <3>1, <3>2 DEF CheckCooldown
  <2> QED
    BY <1>0, <2>1, <2>2, NothingWritten, CountersSame DEF StepShape, budgetVars
<1>6. CASE Embed(t)
  <2>1. UNCHANGED <<month, clock, changedAt, timers, requests, rows>> /\ t.stage = "embed"
    BY <1>6 DEF Embed, At, ConsumeAIBudget, budgetVars
  <2>2. CountersOK'
    BY <1>0, <1>6, CountersKept, CountersSame DEF Embed
  <2>3. TaskGoesOn(t)
    <3>1. CASE Goes(t, "attach")
      BY <2>1, <3>1, GoesOn DEF Stages, Checked
    <3>2. CASE Goes(t, "budget")
      BY <2>1, <3>2, GoesOn DEF Stages, Checked
    <3> QED
      BY <1>6, <3>1, <3>2 DEF Embed
  <2> QED
    BY <1>0, <2>1, <2>2, <2>3, NothingWritten DEF StepShape
<1>7. CASE AttachEmbedding(t)
  <2>1. UNCHANGED <<month, clock, changedAt, timers, requests, calls>> /\ t.stage = "attach"
    BY <1>7 DEF AttachEmbedding, budgetVars, At
  <2>2. OutagesStay /\ VerdictsKept(t) /\ EmbeddingsKept(t)
    <3>1. CASE SaveEnrichment(t.id, TRUE)
      BY <2>1, <3>1, EmbeddingSaved
    <3>2. CASE UNCHANGED rows
      BY <1>0, <3>2, NothingWritten
    <3> QED
      BY <1>7, <3>1, <3>2 DEF AttachEmbedding
  <2>3. TaskGoesOn(t)
    BY <1>7, <2>1, GoesOn DEF AttachEmbedding, Stages, Checked
  <2> QED
    BY <1>0, <2>1, <2>2, <2>3, CountersSame DEF StepShape, budgetVars
<1>8. CASE TakeBudget(t)
  <2>1. UNCHANGED <<month, clock, changedAt, timers, requests, rows>> /\ t.stage = "budget"
    BY <1>8 DEF TakeBudget, At, ConsumeAIBudget, budgetVars
  <2>2. CountersOK'
    BY <1>0, <1>8, CountersKept, CountersSame DEF TakeBudget
  <2>3. TaskGoesOn(t)
    <3>1. CASE Goes(t, "analyze")
      BY <2>1, <3>1, GoesOn DEF Stages, Checked
    <3>2. CASE Returns(t)
      BY <3>2 DEF TaskGoesOn, Returns
    <3> QED
      BY <1>8, <3>1, <3>2 DEF TakeBudget
  <2> QED
    BY <1>0, <2>1, <2>2, <2>3, NothingWritten DEF StepShape
<1>9. CASE GiveBack(t)
  <2>1. UNCHANGED <<month, clock, changedAt, timers, requests, rows>> /\ Returns(t)
    BY <1>9 DEF GiveBack, RefundAIBudget, budgetVars
  <2>2. CountersOK'
    BY <1>0, <1>9, CountersKept, CountersSame DEF GiveBack
  <2> QED
    BY <1>0, <2>1, <2>2, NothingWritten DEF StepShape, TaskGoesOn, Returns
<1>10. CASE KeepVerdict(t)
  <2>1. UNCHANGED <<month, clock, changedAt, timers, requests, calls>> /\ t.stage = "analyze"
    BY <1>10 DEF KeepVerdict, budgetVars, At
  <2>2. OutagesStay /\ VerdictsKept(t) /\ EmbeddingsKept(t)
    <3>1. CASE SaveVerdict(t, t.by)
      <4>1. t.by \in {"none", "timer", "admin", "rule", "command"}
        BY <1>0 DEF Task
      <4> QED
        BY <2>1, <3>1, <4>1, VerdictSaved
    <3>2. CASE UNCHANGED rows
      BY <1>0, <3>2, NothingWritten
    <3> QED
      BY <1>10, <3>1, <3>2 DEF KeepVerdict
  <2>3. TaskGoesOn(t)
    BY <1>10 DEF KeepVerdict, Returns, TaskGoesOn
  <2> QED
    BY <1>0, <2>1, <2>2, <2>3, CountersSame DEF StepShape, budgetVars
<1> QED
  BY <1>1, <1>2, <1>3, <1>4, <1>5, <1>6, <1>7, <1>8, <1>9, <1>10 DEF Step

-----------------------------------------------------------------------------
(* The other steps of the server.                                          *)

\* A new outage.
DownShape(n) ==
    /\ UNCHANGED <<month, calls, clock, tasks, requests>>
    /\ n = Len(rows) + 1 /\ n \in Nat /\ n \notin Ids /\ Ids' = Ids \union {n}
    /\ rows' \in Seq(Row)
    /\ \A i \in Ids : i < n /\ rows'[i] = rows[i] /\ rows[i].over
    /\ changedAt' \in Times \ {0} /\ changedAt <= changedAt'
    /\ changedAt' <= clock /\ clock <= changedAt' + HandlerLimit
    /\ Ids # {} => changedAt' >= changedAt + MinGap
    /\ rows'[n].started = changedAt' /\ ~rows'[n].over
    /\ rows'[n].embedding = "none" /\ rows'[n].verdict.by = "none"
    /\ timers' = timers \union {[id |-> n, due |-> clock + AnalysisDelay]}

\* The end of the latest one.
RecoveredShape(n) ==
    /\ UNCHANGED <<month, calls, clock, timers, tasks, requests>>
    /\ n = Len(rows) /\ n \in Ids /\ ~rows[n].over /\ \A i \in Ids : i <= n
    /\ rows' \in Seq(Row) /\ Ids' = Ids
    /\ \A i \in Ids : i # n => rows'[i] = rows[i]
    /\ rows'[n].over /\ rows'[n].started = rows[n].started
    /\ rows'[n].verdict = rows[n].verdict /\ rows'[n].embedding = rows[n].embedding
    /\ changedAt' = clock /\ changedAt' >= changedAt + MinGap

LEMMA DownShapes ==
    ASSUME ServerInv, OnDown
    PROVE  DownShape(Len(rows) + 1)
<1> DEFINE n == Len(rows) + 1
<1>0. /\ rows \in Seq(Row) /\ Len(rows) \in Nat /\ n \in Nat /\ Ids = 1 .. Len(rows)
      /\ changedAt \in Nat /\ clock \in Nat /\ MinGap \in Nat
  BY LenProperties, AnalysisAssumption DEF ServerInv, AnalysisTypeOK, Ids, Times
<1>1. PICK at \in Times \ {0} :
         /\ at <= clock /\ clock <= at + HandlerLimit
         /\ at >= changedAt + (IF rows = <<>> THEN 0 ELSE MinGap)
         /\ changedAt' = at
         /\ rows' = Append(rows, [started |-> at, over |-> FALSE, blip |-> FALSE,
                                  embedding |-> "none", verdict |-> NoVerdict])
  BY DEF OnDown
<1> DEFINE row == [started |-> at, over |-> FALSE, blip |-> FALSE,
                   embedding |-> "none", verdict |-> NoVerdict]
<1>2. /\ row \in Row /\ row.started = at /\ ~row.over /\ row.embedding = "none"
      /\ row.verdict.by = "none"
  BY <1>1, AnalysisAssumption DEF Row, NoVerdict, Times
<1>3. rows' = Append(rows, row)
  BY <1>1
<1> HIDE DEF row
<1>4. /\ rows' \in Seq(Row) /\ Len(rows') = n /\ rows'[n] = row
      /\ \A i \in Ids : rows'[i] = rows[i]
  BY <1>0, <1>2, <1>3, AppendProperties
<1>5. Ids' = 1 .. n
  BY <1>4, LenProperties DEF Ids
<1>6. \A i \in Ids : rows[i].over
  <2>1. CASE rows = <<>>
    BY <1>0, <2>1, EmptySeq
  <2>2. CASE rows # <<>>
    <3>1. rows[Len(rows)].over
      BY <2>2 DEF OnDown, Down
    <3>2. Len(rows) \in Ids /\ \A i \in Ids : i < Len(rows) \/ i = Len(rows)
      BY <1>0, <2>2, EmptySeq
    <3> QED
      BY <3>1, <3>2 DEF ServerInv, RowsInv
  <2> QED
    BY <2>1, <2>2
<1>7. changedAt <= at /\ (Ids # {} => at >= changedAt + MinGap)
  <2>1. at \in Nat
    BY <1>1 DEF Times
  <2>2. Ids # {} => rows # <<>>
    BY <1>0, EmptySeq
  <2> QED
    BY <1>0, <1>1, <2>1, <2>2
<1>8. timers' = timers \union {[id |-> n, due |-> clock + AnalysisDelay]}
  BY DEF OnDown
<1>9. UNCHANGED <<month, calls, clock, tasks, requests>>
  BY DEF OnDown, budgetVars
<1>10. n \notin Ids /\ Ids' = Ids \union {n} /\ \A i \in Ids : i < n
  BY <1>0, <1>5
<1> QED
  BY <1>0, <1>1, <1>2, <1>4, <1>6, <1>7, <1>8, <1>9, <1>10 DEF DownShape

LEMMA RecoveredShapes ==
    ASSUME ServerInv, OnRecovered
    PROVE  RecoveredShape(Len(rows))
<1> DEFINE n == Len(rows)
<1>0. /\ rows \in Seq(Row) /\ n \in Nat /\ Ids = 1 .. n
  BY LenProperties DEF ServerInv, AnalysisTypeOK, Ids
<1>1. n \in Ids /\ ~rows[n].over /\ \A i \in Ids : i <= n
  BY <1>0, EmptySeq DEF OnRecovered, Down
<1>2. PICK b \in BOOLEAN : rows' = [rows EXCEPT ![n].over = TRUE, ![n].blip = b]
  BY DEF OnRecovered
<1> DEFINE row == [rows[n] EXCEPT !.over = TRUE, !.blip = b]
<1>3. rows[n] \in Row
  BY <1>0, <1>1, RowFields
<1>4. /\ row \in Row /\ row.over /\ row.started = rows[n].started
      /\ row.verdict = rows[n].verdict /\ row.embedding = rows[n].embedding
  BY <1>3 DEF Row
<1>5. rows' = [rows EXCEPT ![n] = row]
  BY <1>0, <1>1, <1>2
<1> HIDE DEF row
<1>6. /\ rows' \in Seq(Row) /\ DOMAIN rows' = DOMAIN rows
      /\ rows'[n] = row /\ \A j \in Ids : j # n => rows'[j] = rows[j]
  BY <1>0, <1>1, <1>4, <1>5, RowWritten
<1> HIDE DEF n
<1>7. /\ UNCHANGED <<month, calls, clock, timers, tasks, requests>>
      /\ changedAt' = clock /\ clock >= changedAt + MinGap
  BY DEF OnRecovered, budgetVars
<1> QED
  BY <1>1, <1>4, <1>6, <1>7 DEF RecoveredShape, Ids, n

\* A goroutine begins.
LEMMA Started ==
    ASSUME ServerInv, NEW id \in Ids, NEW by \in {"timer", "admin"}, NEW stage \in Stages,
           NEW u, u = Start(id, by, stage)
    PROVE  /\ u \in Task /\ u.id = id /\ u.by = by /\ u.stage = stage /\ u.since = clock
           /\ ~u.blind
BY DEF Start, Task, ServerInv, AnalysisTypeOK

-----------------------------------------------------------------------------
(* The server keeps its types.                                             *)

\* Whatever task is there after a step.
LEMMA TasksTyped ==
    ASSUME ServerInv, NEW t \in tasks, TaskGoesOn(t), OutagesStay
    PROVE  tasks' \in SUBSET Task' /\ GetInv'
<1>1. Task' = Task
  BY DEF OutagesStay, Task, Ids, Times, Stages
<1>2. tasks \in SUBSET Task
  BY DEF ServerInv, AnalysisTypeOK
<1> QED
  BY <1>1, <1>2 DEF TaskGoesOn, NextTask, ServerInv, GetInv

LEMMA MoreIds ==
    ASSUME Ids \subseteq Ids', tasks \in SUBSET Task, timers \in SUBSET [id : Ids, due : Nat]
    PROVE  tasks \in SUBSET Task' /\ timers \in SUBSET [id : Ids', due : Nat]
<1>1. Task \subseteq Task'
  BY DEF Task, Times, Stages
<1> QED
  BY <1>1

LEMMA ServerTyped ==
    ASSUME ServerInv, AnalysisNext
    PROVE  ServerInv'
<1>0. /\ rows \in Seq(Row) /\ clock \in Times /\ changedAt \in Times /\ tasks \in SUBSET Task
      /\ timers \in SUBSET [id : Ids, due : Nat] /\ requests \in 0 .. MaxReanalyze
      /\ CountersOK /\ RowsInv /\ GetInv /\ AnalysisDelay \in Nat /\ clock \in Nat /\ MaxClock \in Nat
  BY AnalysisAssumption DEF ServerInv, AnalysisTypeOK, Times
<1>1. CASE OnDown
  <2> DEFINE n == Len(rows) + 1
  <2>1. DownShape(n)
    BY <1>1, DownShapes
  <2> HIDE DEF n
  <2>2. RowsInv'
    <3>1. \A i \in Ids : rows[i].started \in Nat /\ rows[i].started <= changedAt
      BY <1>0, RowFields DEF RowsInv
    <3>2. changedAt \in Nat /\ changedAt' \in Nat
      BY <1>0, <2>1 DEF Times, DownShape
    <3>3. ASSUME NEW i \in Ids', NEW j \in Ids', i < j
          PROVE  rows'[i].started <= rows'[j].started /\ rows'[i].over
      <4>0. n \in Nat /\ \A k \in Ids : k \in Nat /\ k < n
        BY <1>0, <2>1, RowFields DEF DownShape
      <4>1. i \in Ids
        <5>1. (i \in Ids \/ i = n) /\ (j \in Ids \/ j = n)
          BY <2>1 DEF DownShape
        <5> QED
          BY <3>3, <4>0, <5>1
      <4>2. CASE j \in Ids
        BY <1>0, <2>1, <3>3, <4>1, <4>2 DEF DownShape, RowsInv
      <4>3. CASE j = n
        <5>1. rows'[j].started = changedAt' /\ changedAt <= changedAt' /\ rows'[i] = rows[i] /\ rows[i].over
          BY <2>1, <4>1, <4>3 DEF DownShape
        <5> QED
          BY <3>1, <3>2, <4>1, <5>1
      <4> QED
        BY <2>1, <4>2, <4>3 DEF DownShape
    <3>4. ASSUME NEW i \in Ids' PROVE rows'[i].started <= changedAt'
      <4>1. CASE i \in Ids
        <5>1. rows'[i] = rows[i] /\ changedAt <= changedAt'
          BY <2>1, <4>1 DEF DownShape
        <5> QED
          BY <3>1, <3>2, <4>1, <5>1
      <4>2. CASE i = n
        BY <2>1, <3>2, <4>2 DEF DownShape
      <4> QED
        BY <2>1, <4>1, <4>2 DEF DownShape
    <3>5. changedAt' <= clock'
      BY <2>1 DEF DownShape
    <3> QED
      BY <3>3, <3>4, <3>5 DEF RowsInv
  <2>3. Ids \subseteq Ids' /\ n \in Ids'
    BY <2>1 DEF DownShape
  <2>4. tasks \in SUBSET Task' /\ timers \in SUBSET [id : Ids', due : Nat]
    BY <1>0, <2>3, MoreIds
  <2>5. timers' \in SUBSET [id : Ids', due : Nat]
    <3>1. [id |-> n, due |-> clock + AnalysisDelay] \in [id : Ids', due : Nat]
      BY <1>0, <2>3
    <3> QED
      BY <2>1, <2>4, <3>1 DEF DownShape
  <2>6. CountersOK'
    BY <1>0, <2>1, CountersSame DEF DownShape, budgetVars
  <2>7. GetInv'
    BY <1>0, <2>1 DEF DownShape, GetInv
  <2>8. AnalysisTypeOK'
    BY <1>0, <2>1, <2>4, <2>5, <2>6 DEF DownShape, AnalysisTypeOK, CountersOK, Times
  <2> QED
    BY <2>2, <2>6, <2>7, <2>8 DEF ServerInv
<1>2. CASE OnRecovered
  <2> DEFINE n == Len(rows)
  <2>1. RecoveredShape(n)
    BY <1>2, RecoveredShapes
  <2> HIDE DEF n
  <2>2. RowsInv'
    <3>1. \A i \in Ids : rows'[i].started = rows[i].started
      BY <2>1 DEF RecoveredShape
    <3>2. \A i, j \in Ids : i < j => rows'[i].over
      BY <1>0, <2>1 DEF RecoveredShape, RowsInv
    <3>3. \A i \in Ids : rows[i].started <= clock /\ clock \in Nat
      <4> TAKE i \in Ids
      <4>1. rows[i].started \in Nat /\ changedAt \in Nat /\ rows[i].started <= changedAt /\ changedAt <= clock
        BY <1>0, RowFields DEF RowsInv, Times
      <4> QED
        BY <1>0, <4>1
    <3> QED
      BY <1>0, <2>1, <3>1, <3>2, <3>3 DEF RecoveredShape, RowsInv
  <2>3. CountersOK'
    BY <1>0, <2>1, CountersSame DEF RecoveredShape, budgetVars
  <2>4. Task' = Task /\ GetInv'
    BY <1>0, <2>1 DEF RecoveredShape, GetInv, Task, Times, Stages
  <2>5. AnalysisTypeOK'
    BY <1>0, <2>1, <2>3, <2>4 DEF RecoveredShape, AnalysisTypeOK, CountersOK, Times
  <2> QED
    BY <2>2, <2>3, <2>4, <2>5 DEF ServerInv
<1>3. ASSUME NEW t \in timers, TimerFires(t) PROVE ServerInv'
  <2> DEFINE u == Start(t.id, "timer", "get")
  <2>1. /\ UNCHANGED <<month, calls, clock, changedAt, rows, requests>>
        /\ timers' = timers \ {t} /\ tasks' = tasks \union {u}
    BY <1>3 DEF TimerFires, budgetVars
  <2>2. u \in Task /\ u.by = "timer"
    BY <1>0, Started DEF Stages
  <2> HIDE DEF u
  <2>3. CountersOK' /\ RowsInv'
    BY <1>0, <2>1, CountersSame DEF budgetVars, RowsInv, Ids
  <2>4. GetInv'
    BY <1>0, <2>1, <2>2 DEF GetInv
  <2>5. tasks' \in SUBSET Task' /\ timers' \in SUBSET [id : Ids', due : Nat]
    BY <1>0, <2>1, <2>2 DEF Task, Ids, Times, Stages
  <2>6. AnalysisTypeOK'
    BY <1>0, <2>1, <2>3, <2>5 DEF AnalysisTypeOK, CountersOK, Times
  <2> QED
    BY <2>3, <2>4, <2>6 DEF ServerInv
<1>4. ASSUME NEW id \in Ids, Reanalyze(id) PROVE ServerInv'
  <2> DEFINE u == Start(id, "admin", "summary")
  <2>1. /\ UNCHANGED <<month, calls, clock, changedAt, rows, timers>> /\ requests < MaxReanalyze
        /\ requests' = requests + 1 /\ tasks' = tasks \union {u}
    BY <1>4 DEF Reanalyze, budgetVars
  <2>2. u \in Task /\ u.stage = "summary"
    BY <1>0, Started DEF Stages
  <2> HIDE DEF u
  <2>3. CountersOK' /\ RowsInv'
    BY <1>0, <2>1, CountersSame DEF budgetVars, RowsInv, Ids
  <2>4. GetInv'
    BY <1>0, <2>1, <2>2 DEF GetInv
  <2>5. tasks' \in SUBSET Task' /\ timers' \in SUBSET [id : Ids', due : Nat]
    BY <1>0, <2>1, <2>2 DEF Task, Ids, Times, Stages
  <2>6. requests' \in 0 .. MaxReanalyze
    BY <1>0, <2>1, AnalysisAssumption
  <2>7. AnalysisTypeOK'
    BY <1>0, <2>1, <2>3, <2>5, <2>6 DEF AnalysisTypeOK, CountersOK, Times
  <2> QED
    BY <2>3, <2>4, <2>7 DEF ServerInv
<1>5. ASSUME NEW t \in tasks, Step(t) PROVE ServerInv'
  <2>1. StepShape(t)
    BY <1>5, StepShapes
  <2>2. tasks' \in SUBSET Task' /\ GetInv'
    BY <2>1, TasksTyped DEF StepShape
  <2>3. RowsInv'
    BY <1>0, <2>1 DEF StepShape, OutagesStay, RowsInv, Ids
  <2>4. AnalysisTypeOK'
    BY <1>0, <2>1, <2>2 DEF AnalysisTypeOK, StepShape, OutagesStay, CountersOK, Times, Ids
  <2> QED
    BY <2>1, <2>2, <2>3, <2>4 DEF ServerInv, StepShape
<1>6. CASE Tick
  <2>1. UNCHANGED <<month, calls, changedAt, rows, timers, tasks, requests>> /\ clock' = clock + 1
        /\ clock < MaxClock
    BY <1>6 DEF Tick, budgetVars
  <2>2. clock' \in Times
    BY <1>0, <2>1 DEF Times
  <2>3. changedAt <= clock /\ changedAt \in Nat
    BY <1>0 DEF RowsInv, Times
  <2>4. changedAt' <= clock'
    BY <1>0, <2>1, <2>3
  <2>5. CountersOK' /\ RowsInv'
    BY <1>0, <2>1, <2>4, CountersSame DEF budgetVars, RowsInv, Ids
  <2>6. GetInv' /\ Task' = Task /\ Ids' = Ids
    BY <1>0, <2>1 DEF GetInv, Task, Ids, Times, Stages
  <2>7. AnalysisTypeOK'
    BY <1>0, <2>1, <2>2, <2>5, <2>6 DEF AnalysisTypeOK, CountersOK, Times
  <2> QED
    BY <2>5, <2>6, <2>7 DEF ServerInv
<1>7. CASE TimeIsUp
  BY <1>7 DEF TimeIsUp, analysisVars, budgetVars, ServerInv, AnalysisTypeOK, BudgetTypeOK, CountersOK,
      RowsInv, GetInv, Task, Ids, Times, Stages, Months
<1> QED
  BY <1>1, <1>2, <1>3, <1>4, <1>5, <1>6, <1>7 DEF AnalysisNext

-----------------------------------------------------------------------------
(* The command next to it.                                                 *)

\* The rows of the trail are the old ones, for good, and no verdict is lost.
TrailStays ==
    /\ Ids \subseteq Ids'
    /\ TrailRows' = TrailRows
    /\ \A i \in Ids : HasVerdict(i) => HasVerdict(i)'

LEMMA ServerKeepsTrail ==
    ASSUME ServerInv, AnalysisNext
    PROVE  TrailStays
<1>0. rows \in Seq(Row) /\ \A t \in tasks : t.by \in {"timer", "admin"}
  BY DEF ServerInv, AnalysisTypeOK, Task
<1>1. CASE OnDown
  <2>1. DownShape(Len(rows) + 1)
    BY <1>1, DownShapes
  <2> QED
    BY <2>1 DEF DownShape, TrailStays, TrailRows, HasVerdict
<1>2. CASE OnRecovered
  <2>1. RecoveredShape(Len(rows))
    BY <1>2, RecoveredShapes
  <2>2. \A i \in Ids : rows'[i].started = rows[i].started /\ rows'[i].verdict = rows[i].verdict
    BY <2>1 DEF RecoveredShape
  <2> QED
    BY <2>1, <2>2 DEF RecoveredShape, TrailStays, TrailRows, HasVerdict
<1>3. ASSUME NEW t \in tasks, Step(t) PROVE TrailStays
  <2>1. StepShape(t)
    BY <1>3, StepShapes
  <2>2. TrailRows' = TrailRows /\ Ids' = Ids
    BY <2>1 DEF StepShape, OutagesStay, TrailRows, Ids
  <2>3. \A i \in Ids : HasVerdict(i) => HasVerdict(i)'
    BY <1>0, <2>1 DEF StepShape, VerdictsKept, HasVerdict
  <2> QED
    BY <2>2, <2>3 DEF TrailStays
<1>4. CASE UNCHANGED rows
  BY <1>4 DEF TrailStays, TrailRows, HasVerdict, Ids
<1> QED
  BY <1>1, <1>2, <1>3, <1>4
  DEF AnalysisNext, TimerFires, Reanalyze, Tick, TimeIsUp, analysisVars

CommandShape ==
    /\ UNCHANGED serverWork
    /\ OutagesStay
    /\ \A i \in Ids :
         \/ rows'[i].verdict = rows[i].verdict
         \/ i = cmd.row /\ i \in TrailRows /\ cmd.stage = "save" /\ rows'[i].verdict.by = "command"
    /\ \A i \in Ids : rows'[i].embedding = rows[i].embedding \/ i \in TrailRows

LEMMA CommandShapes ==
    ASSUME BaseInv, CommandNext
    PROVE  CommandShape
<1>0. rows \in Seq(Row) /\ clock \in Times
  BY DEF BaseInv, CommandTypeOK, AnalysisTypeOK
<1>1. CASE UNCHANGED <<serverWork, rows>>
  BY <1>0, <1>1, SameRows DEF CommandShape
<1>2. CASE EmbedRow
  <2>1. UNCHANGED serverWork /\ cmd.row \in TrailRows /\ cmd.row \in Ids
    BY <1>2 DEF EmbedRow, Stage, TrailRows
  <2>2. ASSUME NEW e \in BOOLEAN, SaveEnrichment(cmd.row, e) PROVE CommandShape
    <3>1. /\ OutagesStay
          /\ \A j \in Ids : rows'[j].verdict = rows[j].verdict
          /\ \A j \in Ids : j # cmd.row => rows'[j].embedding = rows[j].embedding
      BY <1>0, <2>1, <2>2, EmbeddingWritten
    <3> QED
      BY <2>1, <3>1 DEF CommandShape
  <2> QED
    BY <1>1, <1>2, <2>1, <2>2 DEF EmbedRow
<1>3. CASE SaveRowVerdict
  <2>1. UNCHANGED serverWork /\ cmd.row \in TrailRows /\ cmd.row \in Ids /\ cmd.stage = "save"
    BY <1>3 DEF SaveRowVerdict, Stage, TrailRows
  <2> DEFINE v == [by |-> "command", at |-> clock, blind |-> FALSE]
  <2>2. CASE rows' = [rows EXCEPT ![cmd.row].verdict = v]
    <3>1. v \in Verdict /\ v.by = "command"
      BY <1>0 DEF Verdict
    <3> HIDE DEF v
    <3>2. /\ OutagesStay
          /\ \A j \in Ids : rows'[j].embedding = rows[j].embedding
          /\ rows'[cmd.row].verdict = v
          /\ \A j \in Ids : j # cmd.row => rows'[j].verdict = rows[j].verdict
      BY <1>0, <2>1, <2>2, <3>1, VerdictWritten
    <3> QED
      BY <2>1, <3>1, <3>2 DEF CommandShape
  <2> QED
    BY <1>1, <1>3, <2>1, <2>2 DEF SaveRowVerdict
<1> QED
  BY <1>1, <1>2, <1>3
  DEF CommandNext, RunCommand, NeedsVerdict, ReadRowStats, AskModel, Finish, Dies

LEMMA CommandKeepsTrail ==
    ASSUME CommandShape
    PROVE  TrailStays
BY DEF CommandShape, OutagesStay, TrailStays, TrailRows, HasVerdict, Ids

\* The command goes on with the row it is at.
LEMMA OnShape ==
    ASSUME cmd \in Command, NEW stage \in {"idle", "needs", "embed", "stats", "analyze", "save"}, On(stage)
    PROVE  /\ cmd' \in Command /\ cmd'.stage = stage /\ cmd'.row = cmd.row
           /\ cmd'.clean = cmd.clean /\ cmd'.had = cmd.had
<1> QED
  BY DEF On, Command

LEMMA NextRowShape ==
    ASSUME cmd \in Command, cmd.row \in TrailRows, TrailInv, NEW clean \in BOOLEAN, NextRow(clean)
    PROVE  /\ cmd' \in Command /\ cmd'.stage = "needs" /\ cmd'.row = cmd.row + 1
           /\ cmd'.clean => cmd.clean /\ clean
           /\ cmd'.had = cmd.had
<1>1. cmd.row \in 1 .. FlapLimit /\ FlapLimit \in Nat
  BY AnalysisAssumption DEF TrailInv
<1>2. cmd.row + 1 \in 1 .. FlapLimit + 1
  BY <1>1
<1>3. (cmd.clean /\ clean) \in BOOLEAN
  OBVIOUS
<1> DEFINE r == cmd.row + 1
           c == cmd.clean /\ clean
<1>4. cmd' = [cmd EXCEPT !.stage = "needs", !.row = r, !.clean = c]
  BY DEF NextRow
<1>5. r \in 1 .. FlapLimit + 1 /\ c \in BOOLEAN
  BY <1>2
<1> HIDE DEF r, c
<1>6. /\ cmd' \in Command /\ cmd'.stage = "needs" /\ cmd'.row = r /\ cmd'.clean = c
      /\ cmd'.had = cmd.had
  BY <1>4, <1>5 DEF Command
<1> QED
  BY <1>6 DEF r, c

\* What the command knows stays true when the table changes under it.
LEMMA CommandUndisturbed ==
    ASSUME CommandInv, TrailStays, UNCHANGED cmd
    PROVE  CommandInv'
<1>1. \A i \in TrailRows : HasVerdict(i) => HasVerdict(i)'
  BY DEF TrailStays, TrailRows
<1> QED
  BY <1>1 DEF CommandInv, TrailStays

HasThen(i) == rows'[i].verdict.by # "none"

CommandTyped == cmd' \in Command /\ runs' \in 0 .. MaxRuns /\ asked' \in [1 .. FlapLimit -> Nat]

LEMMA CommandGoesOn ==
    ASSUME BaseInv, CommandNext
    PROVE  CommandTyped /\ CommandInv' /\ PaidOnlyForMissing
<1>0. /\ cmd \in Command /\ runs \in 0 .. MaxRuns /\ asked \in [1 .. FlapLimit -> Nat]
      /\ CommandInv /\ TrailInv /\ FlapLimit \in Nat /\ MaxRuns \in Nat /\ rows \in Seq(Row)
      /\ cmd.row \in Nat /\ cmd.row \in 1 .. FlapLimit + 1
  BY AnalysisAssumption, RunsAssumption DEF BaseInv, CommandTypeOK, AnalysisTypeOK, Command
<1>1. CommandShape /\ TrailStays
  BY CommandShapes, CommandKeepsTrail
<1>2. \A i \in TrailRows : (HasVerdict(i) => HasVerdict(i)') /\ i \in 1 .. FlapLimit /\ i \in Nat /\ i \in Ids
  BY <1>0, <1>1 DEF TrailStays, TrailRows, TrailInv
<1>3. ASSUME cmd' \in Command, UNCHANGED <<runs, asked>>, cmd'.had = cmd.had,
             cmd'.stage \in {"embed", "stats", "analyze", "save"} => cmd.row \notin cmd.had /\ cmd'.row = cmd.row,
             cmd'.clean =>
               /\ cmd'.stage # "idle"
               /\ cmd.clean /\ cmd.stage # "idle"
               /\ cmd'.row = cmd.row \/ (cmd'.row = cmd.row + 1 /\ HasThen(cmd.row))
      PROVE  CommandTyped /\ CommandInv' /\ PaidOnlyForMissing
  <2>1. CommandTyped
    BY <1>0, <1>3 DEF CommandTyped
  <2>2. PaidOnlyForMissing
    <3>1. \A i \in TrailRows : asked[i] \in Nat
      BY <1>0, <1>2
    <3> QED
      BY <1>3, <3>1 DEF PaidOnlyForMissing
  <2>3. cmd'.had \subseteq {i \in Ids' : HasVerdict(i)'}
    BY <1>0, <1>1, <1>3 DEF CommandInv, TrailStays
  <2>4. ASSUME cmd'.clean, NEW i \in TrailRows, i < cmd'.row PROVE HasVerdict(i)'
    <3>1. cmd.clean /\ cmd.stage # "idle" /\ \A j \in TrailRows : j < cmd.row => HasVerdict(j)
      BY <1>0, <1>3, <2>4 DEF CommandInv
    <3>2. i < cmd.row \/ (i = cmd.row /\ HasThen(cmd.row))
      BY <1>0, <1>2, <1>3, <2>4
    <3> QED
      BY <1>2, <3>1, <3>2 DEF HasThen, HasVerdict
  <2> QED
    BY <1>1, <1>3, <2>1, <2>2, <2>3, <2>4 DEF CommandInv, TrailStays
<1>4. CASE RunCommand
  <2> DEFINE had == {i \in TrailRows : rows[i].verdict.by # "none"}
  <2>1. /\ cmd' = [stage |-> "needs", row |-> 1, clean |-> TRUE, had |-> had]
        /\ runs < MaxRuns /\ runs' = runs + 1 /\ asked' = asked
    BY <1>4 DEF RunCommand
  <2>2. had \in SUBSET Nat /\ had \subseteq {i \in Ids : HasVerdict(i)} /\ 1 \in 1 .. FlapLimit + 1
    BY <1>0, <1>2 DEF HasVerdict
  <2> HIDE DEF had
  <2>3. /\ cmd' \in Command /\ cmd'.stage = "needs" /\ cmd'.row = 1 /\ cmd'.had = had
    BY <2>1, <2>2 DEF Command
  <2>4. CommandTyped
    BY <1>0, <2>1, <2>3 DEF CommandTyped
  <2>5. had \subseteq {i \in Ids' : HasVerdict(i)'}
    BY <1>1, <2>2 DEF TrailStays
  <2>6. \A i \in TrailRows : ~(i < 1)
    BY <1>2
  <2>7. CommandInv'
    BY <1>1, <2>3, <2>5, <2>6 DEF CommandInv, TrailStays
  <2>8. \A i \in TrailRows : asked[i] \in Nat
    BY <1>0, <1>2
  <2> QED
    BY <2>1, <2>4, <2>7, <2>8 DEF PaidOnlyForMissing
<1>5. ASSUME NEW clean \in BOOLEAN, NextRow(clean), UNCHANGED <<runs, asked>>, cmd.row \in TrailRows,
             cmd.stage # "idle", clean => HasThen(cmd.row)
      PROVE  CommandTyped /\ CommandInv' /\ PaidOnlyForMissing
  <2>1. /\ cmd' \in Command /\ cmd'.stage = "needs" /\ cmd'.row = cmd.row + 1
        /\ cmd'.clean => cmd.clean /\ clean
        /\ cmd'.had = cmd.had
    BY <1>0, <1>5, NextRowShape
  <2> QED
    BY <1>3, <1>5, <2>1
<1>6. ASSUME NEW stage \in {"embed", "stats", "analyze", "save"}, On(stage), UNCHANGED <<runs, asked>>,
             cmd.stage # "idle", cmd.row \notin cmd.had
      PROVE  CommandTyped /\ CommandInv' /\ PaidOnlyForMissing
  <2>1. /\ cmd' \in Command /\ cmd'.stage = stage /\ cmd'.row = cmd.row
        /\ cmd'.clean = cmd.clean /\ cmd'.had = cmd.had
    BY <1>0, <1>6, OnShape
  <2> QED
    BY <1>3, <1>6, <2>1
<1>7. CASE NeedsVerdict
  <2>1. cmd.stage = "needs" /\ cmd.row \in TrailRows /\ UNCHANGED <<runs, asked, rows>>
    BY <1>7 DEF NeedsVerdict, Stage
  <2>2. CASE ~HasVerdict(cmd.row) /\ On("embed")
    <3>1. cmd.row \notin cmd.had
      BY <1>0, <2>2 DEF CommandInv
    <3> QED
      BY <1>6, <2>1, <2>2, <3>1
  <2>3. CASE HasVerdict(cmd.row) /\ NextRow(TRUE)
    <3>1. HasThen(cmd.row)
      BY <2>1, <2>3 DEF HasVerdict, HasThen
    <3> QED
      BY <1>5, <2>1, <2>3, <3>1
  <2>4. CASE NextRow(FALSE)
    BY <1>5, <2>1, <2>4
  <2> QED
    BY <1>7, <2>2, <2>3, <2>4 DEF NeedsVerdict, HasVerdict
<1>8. CASE EmbedRow
  <2>1. cmd.stage = "embed" /\ On("stats") /\ UNCHANGED <<runs, asked>>
    BY <1>8 DEF EmbedRow, Stage
  <2>2. cmd.row \notin cmd.had
    BY <1>0, <2>1 DEF CommandInv
  <2> QED
    BY <1>6, <2>1, <2>2
<1>9. CASE ReadRowStats
  <2>1. cmd.stage = "stats" /\ cmd.row \in TrailRows /\ UNCHANGED <<runs, asked>>
    BY <1>9 DEF ReadRowStats, Stage
  <2>2. cmd.row \notin cmd.had
    BY <1>0, <2>1 DEF CommandInv
  <2> QED
    BY <1>5, <1>6, <1>9, <2>1, <2>2 DEF ReadRowStats
<1>10. CASE AskModel
  <2>1. /\ cmd.stage = "analyze" /\ cmd.row \in TrailRows /\ runs' = runs
        /\ asked' = [asked EXCEPT ![cmd.row] = @ + 1]
    <3>1. runs' = runs
      BY <1>10 DEF AskModel
    <3> QED
      BY <1>10, <3>1 DEF AskModel, Stage
  <2>2. cmd.row \notin cmd.had
    BY <1>0, <2>1 DEF CommandInv
  <2>3. cmd.row \in 1 .. FlapLimit /\ asked[cmd.row] \in Nat
    BY <1>0, <1>2, <2>1
  <2>4. asked' \in [1 .. FlapLimit -> Nat] /\ \A i \in TrailRows : i # cmd.row => asked'[i] = asked[i]
    BY <1>0, <1>2, <2>1, <2>3
  <2>5. PaidOnlyForMissing
    <3>1. \A i \in TrailRows : asked[i] \in Nat
      BY <1>0, <1>2
    <3> QED
      BY <2>2, <2>4, <3>1 DEF PaidOnlyForMissing
  <2>6. /\ cmd' \in Command /\ cmd'.had = cmd.had
        /\ cmd'.stage \in {"embed", "stats", "analyze", "save"} => cmd'.row = cmd.row
        /\ cmd'.clean => cmd'.stage # "idle" /\ cmd.clean /\ cmd'.row = cmd.row
    <3>1. CASE On("save")
      BY <1>0, <3>1, OnShape
    <3>2. CASE NextRow(FALSE)
      BY <1>0, <2>1, <3>2, NextRowShape
    <3> QED
      BY <1>10, <3>1, <3>2 DEF AskModel
  <2>7. CommandInv'
    <3>1. cmd'.had \subseteq {i \in Ids' : HasVerdict(i)'}
      BY <1>0, <1>1, <2>6 DEF CommandInv, TrailStays
    <3>2. cmd'.clean => \A i \in TrailRows : i < cmd'.row => HasVerdict(i)'
      BY <1>0, <1>2, <2>1, <2>6 DEF CommandInv
    <3> QED
      BY <1>1, <2>2, <2>6, <3>1, <3>2 DEF CommandInv, TrailStays
  <2> QED
    BY <1>0, <2>1, <2>4, <2>5, <2>6, <2>7 DEF CommandTyped
<1>11. CASE SaveRowVerdict
  <2>1. cmd.stage = "save" /\ cmd.row \in TrailRows /\ UNCHANGED <<runs, asked>>
    BY <1>11 DEF SaveRowVerdict, Stage
  <2>2. CASE NextRow(FALSE)
    BY <1>5, <2>1, <2>2
  <2>3. CASE /\ rows' = [rows EXCEPT ![cmd.row].verdict = [by |-> "command", at |-> clock, blind |-> FALSE]]
             /\ NextRow(TRUE)
    <3>1. rows'[cmd.row].verdict.by = "command"
      BY <1>2, <2>1, <2>3 DEF Ids
    <3>2. cmd.row \in TrailRows /\ rows'[cmd.row].verdict.by # "none"
      BY <2>1, <3>1
    <3> QED
      BY <1>5, <2>1, <2>3, <3>2 DEF HasThen
  <2> QED
    BY <1>11, <2>2, <2>3 DEF SaveRowVerdict
<1>12. CASE Finish
  <2>1. /\ cmd.stage = "needs" /\ cmd.row \notin TrailRows /\ cmd' = [cmd EXCEPT !.stage = "idle"]
        /\ UNCHANGED <<runs, asked, rows>>
    BY <1>12 DEF Finish
  <2>2. /\ cmd' \in Command /\ cmd'.stage = "idle" /\ cmd'.row = cmd.row
        /\ cmd'.clean = cmd.clean /\ cmd'.had = cmd.had
    BY <1>0, <2>1, OnShape DEF On
  <2>3. cmd.clean => \A i \in TrailRows : HasVerdict(i)
    <3>1. \A i \in TrailRows : i < cmd.row
      BY <1>0, <1>2, <2>1 DEF TrailInv
    <3> QED
      BY <1>0, <2>1, <3>1 DEF CommandInv
  <2>4. CommandInv'
    BY <1>0, <1>1, <1>2, <2>2, <2>3 DEF CommandInv, TrailStays
  <2>5. \A i \in TrailRows : asked[i] \in Nat
    BY <1>0, <1>2
  <2> QED
    BY <1>0, <2>1, <2>2, <2>4, <2>5 DEF CommandTyped, PaidOnlyForMissing
<1>13. CASE Dies
  <2>1. cmd' = [cmd EXCEPT !.stage = "idle", !.clean = FALSE] /\ UNCHANGED <<runs, asked>>
    BY <1>13 DEF Dies
  <2>2. /\ cmd' \in Command /\ cmd'.stage = "idle" /\ cmd'.row = cmd.row
        /\ ~cmd'.clean /\ cmd'.had = cmd.had
    BY <1>0, <2>1 DEF Command
  <2> QED
    BY <1>3, <2>1, <2>2
<1> QED
  BY <1>4, <1>7, <1>8, <1>9, <1>10, <1>11, <1>12, <1>13 DEF CommandNext

LEMMA BaseStep ==
    ASSUME BaseInv, [BothNext]_bothVars
    PROVE  BaseInv' /\ TrailStays /\ PaidOnlyForMissing
<1>0. ServerInv /\ CommandInv /\ TrailInv /\ rows \in Seq(Row)
  BY DEF BaseInv, ServerInv, CommandTypeOK, AnalysisTypeOK
<1>1. CASE AnalysisNext /\ UNCHANGED cmdVars
  <2>1. ServerInv' /\ TrailStays
    BY <1>0, <1>1, ServerTyped, ServerKeepsTrail
  <2>2. CommandInv'
    BY <1>0, <1>1, <2>1, CommandUndisturbed DEF cmdVars
  <2>3. TrailInv'
    BY <1>0, <2>1 DEF TrailInv, TrailStays
  <2>4. CommandTypeOK'
    BY <1>1, <2>1 DEF cmdVars, CommandTypeOK, ServerInv, BaseInv, Command
  <2>5. PaidOnlyForMissing
    <3>1. \A i \in TrailRows : asked[i] \in Nat
      BY <1>0, AnalysisAssumption DEF BaseInv, CommandTypeOK, TrailInv
    <3> QED
      BY <1>1, <3>1 DEF cmdVars, PaidOnlyForMissing
  <2> QED
    BY <2>1, <2>2, <2>3, <2>4, <2>5 DEF BaseInv, ServerInv
<1>2. CASE CommandNext
  <2>1. CommandShape /\ TrailStays /\ CommandTyped /\ CommandInv' /\ PaidOnlyForMissing
    BY <1>2, CommandShapes, CommandKeepsTrail, CommandGoesOn
  <2>2. /\ UNCHANGED <<month, calls, clock, changedAt, timers, tasks, requests>>
        /\ OutagesStay
    BY <2>1 DEF CommandShape, serverWork, budgetVars
  <2>3. TrailInv'
    BY <1>0, <2>1 DEF TrailInv, TrailStays
  <2>4. CountersOK' /\ GetInv'
    BY <1>0, <2>2, CountersSame DEF ServerInv, budgetVars, GetInv
  <2>5. RowsInv'
    BY <1>0, <2>2 DEF OutagesStay, ServerInv, RowsInv, Ids
  <2>6. AnalysisTypeOK'
    BY <1>0, <2>2, <2>4 DEF OutagesStay, ServerInv, AnalysisTypeOK, CountersOK, Task, Ids, Times, Stages
  <2>7. CommandTypeOK'
    BY <2>1, <2>6 DEF CommandTyped, CommandTypeOK, Command
  <2> QED
    BY <2>1, <2>3, <2>4, <2>5, <2>7 DEF BaseInv
<1>3. CASE UNCHANGED bothVars
  <2>1. /\ UNCHANGED <<month, calls, clock, changedAt, timers, tasks, requests, rows, cmd, runs, asked>>
    BY <1>3 DEF bothVars, analysisVars, cmdVars, budgetVars
  <2>2. TrailStays /\ CommandInv'
    BY <1>0, <2>1, CommandUndisturbed DEF TrailStays, TrailRows, HasVerdict, Ids
  <2>3. CountersOK' /\ RowsInv' /\ TrailInv' /\ GetInv'
    BY <1>0, <2>1, <2>2, CountersSame DEF TrailStays, ServerInv, RowsInv, TrailInv, GetInv, budgetVars, Ids
  <2>4. CommandTypeOK'
    BY <2>1, <2>3 DEF BaseInv, CommandTypeOK, Command, AnalysisTypeOK, CountersOK, Task, Ids, Times, Stages
  <2>5. PaidOnlyForMissing
    <3>1. \A i \in TrailRows : asked[i] \in Nat
      BY <1>0, AnalysisAssumption DEF BaseInv, CommandTypeOK, TrailInv
    <3> QED
      BY <2>1, <3>1 DEF PaidOnlyForMissing
  <2> QED
    BY <2>2, <2>3, <2>4, <2>5 DEF BaseInv
<1> QED
  BY <1>1, <1>2, <1>3 DEF BothNext

LEMMA BaseInit ==
    ASSUME BothInit
    PROVE  BaseInv
<1> USE DEF BothInit, AnalysisInit
<1>0. /\ {FlapLimit, MaxRuns, MaxReanalyze} \subseteq Nat /\ MaxClock \in Nat \ {0}
      /\ Kinds # {} /\ Limit \in [Kinds -> Nat \ {0}] /\ MaxMonth \in Nat
  BY AnalysisAssumption, RunsAssumption, BudgetAssumption
<1>1. BudgetTypeOK /\ CountersOK
  BY <1>0 DEF BudgetInit, BudgetTypeOK, CountersOK, Months
<1>2. /\ rows \in Seq(Row) /\ RowsInv /\ TrailInv
      /\ rows = <<>> \/ Ids = 1 .. FlapLimit
  <2>1. CASE rows = <<>>
    <3>1. Ids = {}
      BY <2>1, EmptySeq, LenProperties DEF Ids
    <3> QED
      BY <2>1, <3>1, EmptySeq DEF RowsInv, TrailInv, TrailRows
  <2>2. CASE rows = [i \in 1 .. FlapLimit |-> OldRow]
    <3>1. OldRow \in Row /\ OldRow.started = 0 /\ OldRow.over
      BY <1>0 DEF OldRow, Row, NoVerdict, Times
    <3>2. Ids = 1 .. FlapLimit /\ \A i \in Ids : rows[i] = OldRow
      BY <2>2 DEF Ids
    <3>3. rows \in Seq(Row)
      BY <1>0, <2>2, <3>1, IsASeq
    <3>4. TrailRows = 1 .. FlapLimit
      BY <3>1, <3>2 DEF TrailRows
    <3>5. RowsInv
      BY <3>1, <3>2 DEF RowsInv
    <3> QED
      BY <3>2, <3>3, <3>4, <3>5 DEF TrailInv
  <2> QED
    BY <2>1, <2>2
<1>3. AnalysisTypeOK /\ GetInv
  BY <1>0, <1>1, <1>2 DEF AnalysisTypeOK, CountersOK, GetInv, Times
<1>4. cmd \in Command /\ cmd.stage = "idle" /\ ~cmd.clean /\ cmd.had = {}
  BY <1>0 DEF Command
<1>5. CommandTypeOK /\ CommandInv
  BY <1>0, <1>3, <1>4 DEF CommandTypeOK, CommandInv
<1> QED
  BY <1>1, <1>2, <1>3, <1>5 DEF BaseInv

\* A run of the command in which nothing fails leaves no row of the trail without
\* a verdict, and no run pays for one that had its verdict when it began, whatever
\* the server's timers and its admin write at the same time.
THEOREM WhatIsMissingHolds == BothSpec => []CommandTypeOK /\ WhatIsMissing
<1>1. BaseInv => CommandTypeOK /\ EveryRowAnalysed
  BY DEF BaseInv, CommandInv, EveryRowAnalysed, HasVerdict
<1>2. BaseInv /\ [BothNext]_bothVars => BaseInv' /\ [PaidOnlyForMissing]_bothVars
  BY BaseStep
<1> QED
  BY <1>1, <1>2, BaseInit, PTL DEF BothSpec, WhatIsMissing

-----------------------------------------------------------------------------
(* What a step of the two is.                                              *)

FireShape(t) ==
    /\ UNCHANGED <<clock, changedAt, rows, requests>>
    /\ t \in timers /\ clock >= t.due /\ timers' = timers \ {t}
    /\ \E u \in Task :
         /\ u.id = t.id /\ u.by = "timer" /\ u.stage = "get" /\ u.since = clock
         /\ tasks' = tasks \union {u}

AskShape(id) ==
    /\ UNCHANGED <<clock, changedAt, rows, timers>>
    /\ requests' = requests + 1
    /\ \E u \in Task :
         /\ u.id = id /\ u.by = "admin" /\ u.stage = "summary" /\ u.since = clock
         /\ tasks' = tasks \union {u}

TickShape ==
    /\ UNCHANGED <<changedAt, rows, timers, tasks, requests>>
    /\ clock' = clock + 1 /\ InTime

StillShape == UNCHANGED <<clock, changedAt, rows, timers, tasks, requests>>

StepCases ==
    \/ \E n \in Nat : DownShape(n)
    \/ \E n \in Ids : RecoveredShape(n)
    \/ \E t \in timers : FireShape(t)
    \/ \E id \in Ids : AskShape(id)
    \/ \E t \in tasks : StepShape(t)
    \/ TickShape
    \/ StillShape
    \/ CommandShape

LEMMA Cases ==
    ASSUME BaseInv, [BothNext]_bothVars
    PROVE  StepCases
<1>0. ServerInv /\ timers \in SUBSET [id : Ids, due : Nat]
  BY DEF BaseInv, ServerInv, CommandTypeOK, AnalysisTypeOK
<1>1. CASE OnDown
  BY <1>0, <1>1, DownShapes DEF StepCases, DownShape
<1>2. CASE OnRecovered
  BY <1>0, <1>2, RecoveredShapes DEF StepCases, RecoveredShape
<1>3. ASSUME NEW t \in timers, TimerFires(t) PROVE StepCases
  <2> DEFINE u == Start(t.id, "timer", "get")
  <2>1. /\ UNCHANGED <<clock, changedAt, rows, requests>> /\ clock >= t.due
        /\ timers' = timers \ {t} /\ tasks' = tasks \union {u}
    BY <1>3 DEF TimerFires
  <2>2. u \in Task /\ u.id = t.id /\ u.by = "timer" /\ u.stage = "get" /\ u.since = clock
    BY <1>0, Started DEF Stages
  <2> HIDE DEF u
  <2> QED
    BY <2>1, <2>2 DEF StepCases, FireShape
<1>4. ASSUME NEW id \in Ids, Reanalyze(id) PROVE StepCases
  <2> DEFINE u == Start(id, "admin", "summary")
  <2>1. /\ UNCHANGED <<clock, changedAt, rows, timers>>
        /\ requests' = requests + 1 /\ tasks' = tasks \union {u}
    BY <1>4 DEF Reanalyze
  <2>2. u \in Task /\ u.id = id /\ u.by = "admin" /\ u.stage = "summary" /\ u.since = clock
    BY <1>0, Started DEF Stages
  <2> HIDE DEF u
  <2> QED
    BY <2>1, <2>2 DEF StepCases, AskShape
<1>5. ASSUME NEW t \in tasks, Step(t) PROVE StepCases
  BY <1>0, <1>5, StepShapes DEF StepCases
<1>6. CASE Tick
  BY <1>6 DEF StepCases, TickShape, Tick
<1>7. CASE TimeIsUp \/ UNCHANGED bothVars
  BY <1>7 DEF StepCases, StillShape, TimeIsUp, bothVars, analysisVars
<1>8. CASE CommandNext
  BY <1>8, CommandShapes DEF StepCases
<1> QED
  BY <1>1, <1>2, <1>3, <1>4, <1>5, <1>6, <1>7, <1>8 DEF BothNext, AnalysisNext

\* The values of a state.
LEMMA Values ==
    ASSUME BaseInv
    PROVE  /\ rows \in Seq(Row) /\ clock \in Nat /\ changedAt \in Nat /\ clock \in Times
           /\ \A t \in timers : t.id \in Ids /\ t.due \in Nat
           /\ \A t \in tasks : t \in Task /\ t.id \in Ids /\ t.since \in Nat
           /\ \A i \in Ids : /\ rows[i].started \in Nat /\ rows[i].verdict.at \in Nat
                             /\ rows[i].verdict \in Verdict /\ i \in Nat
           /\ requests \in Nat /\ IsFiniteSet(Ids)
<1>1. /\ rows \in Seq(Row) /\ clock \in Times /\ changedAt \in Times /\ tasks \in SUBSET Task
      /\ timers \in SUBSET [id : Ids, due : Nat] /\ requests \in 0 .. MaxReanalyze
  BY DEF BaseInv, CommandTypeOK, AnalysisTypeOK
<1>2. \A t \in Times : t \in Nat
  BY DEF Times
<1>3. \A t \in Task : t.id \in Ids /\ t.since \in Times
  BY DEF Task
<1>4. \A i \in Ids : /\ rows[i].started \in Nat /\ rows[i].verdict.at \in Nat
                     /\ rows[i].verdict \in Verdict /\ i \in Nat
  BY <1>1, RowFields
<1>5. IsFiniteSet(Ids)
  BY <1>1, LenProperties, FS_Interval DEF Ids
<1> QED
  BY <1>1, <1>2, <1>3, <1>4, <1>5

LEMMA Lengths ==
    /\ AnalysisDelay \in Nat /\ EnrichLimit \in Nat /\ GetLimit \in Nat /\ HandlerLimit \in Nat
    /\ MinGap \in Nat /\ Cooldown \in Nat /\ FlapLimit \in Nat /\ PendingFor \in Nat
BY AnalysisAssumption

-----------------------------------------------------------------------------
(* Flapping.                                                               *)

LEMMA EarlierStays ==
    ASSUME BaseInv, [BothNext]_bothVars, NEW i \in Ids
    PROVE  i \in Ids' /\ Earlier(i)' = Earlier(i) /\ Cardinality(Earlier(i)) \in Nat
<1>0. /\ rows \in Seq(Row) /\ changedAt \in Nat /\ IsFiniteSet(Ids)
      /\ \A j \in Ids : rows[j].started \in Nat /\ j \in Nat
      /\ \A j, k \in Ids : j < k => rows[j].started <= rows[k].started
      /\ \A j \in Ids : rows[j].started <= changedAt
  BY Values DEF BaseInv, RowsInv
<1>1. Cardinality(Earlier(i)) \in Nat
  <2>1. Earlier(i) \subseteq Ids
    BY DEF Earlier
  <2> QED
    BY <1>0, <2>1, FS_Subset, FS_CardinalityType
<1>2. StepCases
  BY Cases
<1>3. CASE Ids' = Ids /\ \A j \in Ids : rows'[j].started = rows[j].started /\ rows'[j].blip = rows[j].blip
  BY <1>1, <1>3 DEF Earlier
<1>4. ASSUME NEW n \in Nat, DownShape(n) PROVE i \in Ids' /\ Earlier(i)' = Earlier(i)
  <2>1. /\ Ids' = Ids \union {n} /\ \A j \in Ids : rows'[j] = rows[j]
        /\ rows'[n].started = changedAt' /\ changedAt <= changedAt' /\ changedAt' \in Nat
    BY <1>4 DEF DownShape, Times
  <2>2. ~(rows'[n].started < rows'[i].started)
    BY <1>0, <2>1
  <2> QED
    BY <2>1, <2>2 DEF Earlier
<1>5. ASSUME NEW n \in Ids, RecoveredShape(n) PROVE i \in Ids' /\ Earlier(i)' = Earlier(i)
  <2>1. /\ Ids' = Ids /\ i <= n
        /\ \A j \in Ids : rows'[j].started = rows[j].started /\ (j # n => rows'[j].blip = rows[j].blip)
    BY <1>5 DEF RecoveredShape
  <2>2. ~(rows[n].started < rows[i].started)
    BY <1>0, <2>1
  <2> QED
    BY <2>1, <2>2 DEF Earlier
<1>6. CASE OutagesStay
  BY <1>3, <1>6 DEF OutagesStay, Ids
<1>7. CASE UNCHANGED rows
  BY <1>3, <1>7 DEF Ids
<1> QED
  BY <1>1, <1>2, <1>4, <1>5, <1>6, <1>7
  DEF StepCases, FireShape, AskShape, StepShape, TickShape, StillShape, CommandShape

\* The tasks after a step: the old ones, the next stage of one, or a new one that
\* has not checked anything.
LEMMA TasksAfter ==
    ASSUME StepCases, NEW u \in tasks'
    PROVE  \/ u \in tasks
           \/ \E t \in tasks : StepShape(t) /\ NextTask(t, u)
           \/ u.stage \in {"get", "summary"} /\ u \in Task
BY DEF StepCases, DownShape, RecoveredShape, FireShape, AskShape, StepShape, TickShape, StillShape,
       CommandShape, serverWork, TaskGoesOn

\* The verdicts after it.
LEMMA VerdictsAfter ==
    ASSUME StepCases, NEW i \in Ids'
    PROVE  \/ i \in Ids /\ rows'[i].verdict = rows[i].verdict
           \/ i \notin Ids /\ rows'[i].verdict.by = "none"
           \/ \E t \in tasks :
                 /\ StepShape(t) /\ i = t.id /\ i \in Ids
                 /\ \/ t.stage = "note" /\ rows'[i].verdict.by = "rule"
                    \/ /\ t.stage = "analyze" /\ rows'[i].verdict.by = t.by
                       /\ rows'[i].verdict.at = clock /\ rows'[i].verdict.blind = t.blind
           \/ CommandShape /\ i \in Ids /\ rows[i].started = 0 /\ rows'[i].verdict.by = "command"
<1>1. CASE \E n \in Nat : DownShape(n)
  BY <1>1 DEF DownShape
<1>2. CASE \E n \in Ids : RecoveredShape(n)
  BY <1>2 DEF RecoveredShape
<1>3. ASSUME NEW t \in tasks, StepShape(t) PROVE \/ i \in Ids /\ rows'[i].verdict = rows[i].verdict
           \/ /\ i = t.id /\ i \in Ids
              /\ \/ t.stage = "note" /\ rows'[i].verdict.by = "rule"
                 \/ /\ t.stage = "analyze" /\ rows'[i].verdict.by = t.by
                    /\ rows'[i].verdict.at = clock /\ rows'[i].verdict.blind = t.blind
  BY <1>3 DEF StepShape, OutagesStay, VerdictsKept, Ids
<1>4. CASE UNCHANGED rows
  BY <1>4 DEF Ids
<1>5. CASE CommandShape
  BY <1>5 DEF CommandShape, OutagesStay, TrailRows, Ids
<1> QED
  BY <1>1, <1>2, <1>3, <1>4, <1>5 DEF StepCases, FireShape, AskShape, TickShape, StillShape

LEMMA FlapStep ==
    ASSUME BaseInv, FlapInv, [BothNext]_bothVars
    PROVE  /\ FlapInv'
           /\ \A i \in Ids : rows[i].verdict.by \in {"timer", "admin"} => rows'[i].verdict.by # "rule"
<1>0. /\ FlapLimit \in Nat /\ StepCases
      /\ \A t \in tasks : t \in Task /\ t.id \in Ids
      /\ \A i \in Ids : i \in Ids' /\ Earlier(i)' = Earlier(i) /\ Cardinality(Earlier(i)) \in Nat
  BY Lengths, Cases, Values, EarlierStays
<1>1. ASSUME NEW i \in Ids', rows'[i].verdict.by \in {"timer", "admin"}
      PROVE  Cardinality(Earlier(i)') < FlapLimit
  <2>1. i \in Ids
    BY <1>0, <1>1, VerdictsAfter
  <2>2. CASE rows'[i].verdict = rows[i].verdict
    BY <1>0, <1>1, <2>1, <2>2 DEF FlapInv
  <2>3. ASSUME NEW t \in tasks, t.id = i, t.stage = "analyze" PROVE Cardinality(Earlier(i)') < FlapLimit
    BY <1>0, <2>1, <2>3 DEF FlapInv, Checked
  <2> QED
    BY <1>0, <1>1, <2>1, <2>2, <2>3, VerdictsAfter
<1>2. ASSUME NEW u \in tasks'
      PROVE  /\ u.stage = "note" => Cardinality(Earlier(u.id)') >= FlapLimit
             /\ u.stage \in Checked \union {"cooldown"} => Cardinality(Earlier(u.id)') < FlapLimit
  <2>1. CASE u \in tasks
    BY <1>0, <2>1 DEF FlapInv
  <2>2. ASSUME NEW t \in tasks, NextTask(t, u)
        PROVE  /\ u.stage = "note" => Cardinality(Earlier(u.id)') >= FlapLimit
               /\ u.stage \in Checked \union {"cooldown"} => Cardinality(Earlier(u.id)') < FlapLimit
    <3>1. /\ u.id = t.id /\ t.id \in Ids
          /\ u.stage = "note" => Flapping(t.id)
          /\ u.stage \in Checked \union {"cooldown"} =>
                t.stage \in Checked \union {"cooldown"} \/ ~Flapping(t.id)
      BY <1>0, <2>2 DEF NextTask
    <3>2. t.stage \in Checked \union {"cooldown"} => Cardinality(Earlier(t.id)) < FlapLimit
      BY DEF FlapInv
    <3>3. Earlier(t.id)' = Earlier(u.id)' /\ Cardinality(Earlier(t.id)) \in Nat
      BY <1>0, <3>1
    <3>4. Earlier(u.id)' = Earlier(t.id)
      BY <1>0, <3>1
    <3> QED
      BY <1>0, <3>1, <3>2, <3>3, <3>4 DEF Flapping
  <2>3. CASE u.stage \in {"get", "summary"}
    BY <2>3 DEF Checked
  <2> QED
    BY <1>0, <2>1, <2>2, <2>3, TasksAfter
<1>3. ASSUME NEW i \in Ids, rows[i].verdict.by \in {"timer", "admin"} PROVE rows'[i].verdict.by # "rule"
  <2>1. Cardinality(Earlier(i)) < FlapLimit
    BY <1>3 DEF FlapInv
  <2>2. ASSUME NEW t \in tasks, t.id = i, t.stage = "note" PROVE FALSE
    BY <1>0, <2>1, <2>2 DEF FlapInv
  <2>3. \/ rows'[i].verdict = rows[i].verdict
        \/ \E t \in tasks :
              i = t.id /\ (t.stage = "note" \/ rows'[i].verdict.by = t.by)
        \/ rows'[i].verdict.by = "command"
    <3>1. i \in Ids'
      BY <1>0
    <3> QED
      BY <1>0, <3>1, VerdictsAfter
  <2>4. \A t \in tasks : t.by # "rule"
    BY <1>0 DEF Task
  <2> QED
    BY <1>3, <2>2, <2>3, <2>4
<1> QED
  BY <1>1, <1>2, <1>3 DEF FlapInv

LEMMA FlapInit ==
    ASSUME BothInit
    PROVE  FlapInv
<1>1. tasks = {} /\ \A i \in Ids : rows[i].verdict.by = "none"
  <2>1. CASE rows = <<>>
    BY <2>1 DEF Ids, BothInit, AnalysisInit
  <2>2. CASE rows = [i \in 1 .. FlapLimit |-> OldRow]
    BY <2>2 DEF Ids, BothInit, AnalysisInit, OldRow, NoVerdict
  <2> QED
    BY <2>1, <2>2 DEF BothInit, AnalysisInit
<1> QED
  BY <1>1 DEF FlapInv

\* The flapping rule's note never takes the place of a verdict of the model,
\* whether a timer or the admin asked for it.
THEOREM NoteTakesNoVerdict == BothSpec => VerdictNotDowngraded
<1>1. BaseInv /\ FlapInv /\ [BothNext]_bothVars =>
        /\ (BaseInv /\ FlapInv)'
        /\ [\A i \in Ids : rows[i].verdict.by \in {"timer", "admin"} => rows'[i].verdict.by # "rule"]_analysisVars
  BY BaseStep, FlapStep
<1> QED
  BY <1>1, BaseInit, FlapInit, PTL DEF BothSpec, VerdictNotDowngraded

-----------------------------------------------------------------------------
(* Time.                                                                   *)

\* The latest moment a timer fires, and the limit of a task's context.
LatestDue(id) == rows[id].started + HandlerLimit + AnalysisDelay
ContextOf(t) == IF t.stage = "get" THEN GetLimit ELSE EnrichLimit

TimerInTime(t) == clock <= t.due /\ t.due <= LatestDue(t.id)
TaskInTime(t) ==
    /\ t.since <= clock
    /\ clock <= t.since + ContextOf(t)
    /\ t.by = "timer" => t.since <= LatestDue(t.id) + (IF t.stage = "get" THEN 0 ELSE GetLimit)

TimesInv == (\A t \in timers : TimerInTime(t)) /\ (\A t \in tasks : TaskInTime(t))

\* An outage keeps its start.
LEMMA StartsStay ==
    ASSUME BaseInv, StepCases, NEW i \in Ids
    PROVE  rows'[i].started = rows[i].started /\ LatestDue(i)' = LatestDue(i) /\ LatestDue(i) \in Nat
<1>1. rows'[i].started = rows[i].started
  BY DEF StepCases, DownShape, RecoveredShape, FireShape, AskShape, StepShape, TickShape, StillShape,
         CommandShape, OutagesStay
<1>2. LatestDue(i)' = LatestDue(i)
  BY <1>1 DEF LatestDue
<1>3. rows[i].started \in Nat /\ HandlerLimit \in Nat /\ AnalysisDelay \in Nat
  BY Values, Lengths
<1>4. LatestDue(i) \in Nat
  BY <1>3 DEF LatestDue
<1> QED
  BY <1>1, <1>2, <1>4

\* A timer set within HandlerLimit of an outage.
LEMMA DueInTime ==
    ASSUME NEW now \in Nat, NEW at \in Nat, NEW behind \in Nat, NEW delay \in Nat, now <= at + behind
    PROVE  now <= now + delay /\ now + delay <= at + behind + delay
OBVIOUS

LEMMA TimesStep ==
    ASSUME BaseInv, TimesInv, [BothNext]_bothVars
    PROVE  TimesInv'
<1>0. /\ clock \in Nat /\ StepCases /\ GetInv
      /\ \A t \in timers : t.due \in Nat /\ t.id \in Ids
      /\ \A t \in tasks : t.since \in Nat /\ t.id \in Ids
      /\ AnalysisDelay \in Nat /\ EnrichLimit \in Nat /\ GetLimit \in Nat /\ HandlerLimit \in Nat
      /\ \A i \in Ids : LatestDue(i)' = LatestDue(i) /\ LatestDue(i) \in Nat
  BY Values, Lengths, Cases, StartsStay DEF BaseInv
<1>1. CASE UNCHANGED clock
  <2>1. ASSUME NEW t \in timers PROVE TimerInTime(t)'
    BY <1>0, <1>1, <2>1 DEF TimesInv, TimerInTime
  <2>2. ASSUME NEW t \in tasks PROVE TaskInTime(t)'
    BY <1>0, <1>1, <2>2 DEF TimesInv, TaskInTime, ContextOf
  <2>3. CASE UNCHANGED <<timers, tasks>>
    BY <2>1, <2>2, <2>3 DEF TimesInv
  <2>4. ASSUME NEW n \in Nat, DownShape(n) PROVE TimesInv'
    <3> DEFINE new == [id |-> n, due |-> clock + AnalysisDelay]
    <3>1. TimerInTime(new)'
      <4>1. new.id = n /\ new.due = clock + AnalysisDelay
        OBVIOUS
      <4> HIDE DEF new
      <4>2. /\ rows'[n].started = changedAt' /\ changedAt' \in Nat /\ clock <= changedAt' + HandlerLimit
            /\ clock' = clock
        BY <2>4 DEF DownShape, Times
      <4>3. new' = new
        BY <2>4 DEF DownShape, new
      <4>4. LatestDue(n)' = changedAt' + HandlerLimit + AnalysisDelay
        BY <4>2 DEF LatestDue
      <4>5. /\ clock <= clock + AnalysisDelay
            /\ clock + AnalysisDelay <= changedAt' + HandlerLimit + AnalysisDelay
        <5>1. clock \in Nat /\ AnalysisDelay \in Nat /\ HandlerLimit \in Nat
          BY <1>0
        <5>2. changedAt' \in Nat /\ clock <= changedAt' + HandlerLimit
          BY <4>2
        <5> QED
          BY <5>1, <5>2, DueInTime
      <4>6. clock' <= new.due /\ new.due <= LatestDue(n)'
        BY <4>1, <4>2, <4>4, <4>5
      <4> QED
        BY <4>1, <4>3, <4>6 DEF TimerInTime, LatestDue
    <3>2. timers' = timers \union {new} /\ tasks' = tasks
      BY <2>4 DEF DownShape
    <3>3. \A t \in {new} : TimerInTime(t)'
      BY <2>4, <3>1 DEF DownShape, TimerInTime
    <3> HIDE DEF new
    <3> QED
      BY <2>1, <2>2, <3>2, <3>3 DEF TimesInv
  <2>5. ASSUME NEW t \in timers, FireShape(t) PROVE TimesInv'
    <3>1. PICK u \in Task : /\ u.id = t.id /\ u.by = "timer" /\ u.stage = "get" /\ u.since = clock
                            /\ tasks' = tasks \union {u}
      BY <2>5 DEF FireShape
    <3>2. clock <= LatestDue(t.id)
      BY <1>0 DEF TimesInv, TimerInTime
    <3>3. TaskInTime(u)'
      BY <1>0, <1>1, <3>1, <3>2 DEF TaskInTime, ContextOf
    <3> QED
      BY <2>1, <2>2, <2>5, <3>1, <3>3 DEF TimesInv, FireShape
  <2>6. ASSUME NEW id \in Ids, AskShape(id) PROVE TimesInv'
    <3>1. PICK u \in Task : /\ u.id = id /\ u.by = "admin" /\ u.stage = "summary" /\ u.since = clock
                            /\ tasks' = tasks \union {u}
      BY <2>6 DEF AskShape
    <3>2. TaskInTime(u)'
      BY <1>0, <1>1, <3>1 DEF TaskInTime, ContextOf
    <3> QED
      BY <2>1, <2>2, <2>6, <3>1, <3>2 DEF TimesInv, AskShape
  <2>7. ASSUME NEW t \in tasks, StepShape(t) PROVE TimesInv'
    <3>1. timers' = timers
      BY <2>7 DEF StepShape
    <3>2. ASSUME NEW u \in Task, NextTask(t, u) PROVE TaskInTime(u)'
      <4>1. /\ u.id = t.id /\ u.by = t.by /\ u.stage # "get"
            /\ IF t.stage = "get" THEN u.since = clock ELSE u.since = t.since
        BY <3>2 DEF NextTask
      <4>2. TaskInTime(t) /\ t.since \in Nat /\ t.id \in Ids
        BY <1>0 DEF TimesInv
      <4>3. LatestDue(u.id)' = LatestDue(t.id) /\ LatestDue(t.id) \in Nat
        BY <1>0, <4>1, <4>2
      <4>4. CASE t.stage = "get"
        BY <1>0, <1>1, <4>1, <4>2, <4>3, <4>4 DEF TaskInTime, ContextOf, GetInv
      <4>5. CASE t.stage # "get"
        BY <1>0, <1>1, <4>1, <4>2, <4>3, <4>5 DEF TaskInTime, ContextOf
      <4> QED
        BY <4>4, <4>5
    <3> QED
      BY <2>1, <2>2, <2>7, <3>1, <3>2 DEF TimesInv, StepShape, TaskGoesOn
  <2> QED
    BY <1>0, <1>1, <2>3, <2>4, <2>5, <2>6, <2>7
    DEF StepCases, RecoveredShape, TickShape, StillShape, CommandShape, serverWork
<1>2. CASE TickShape
  <2>1. clock' = clock + 1 /\ UNCHANGED <<timers, tasks>> /\ InTime
    BY <1>2 DEF TickShape
  <2>2. ASSUME NEW t \in timers PROVE TimerInTime(t)'
    BY <1>0, <2>1, <2>2 DEF TimesInv, TimerInTime, InTime
  <2>3. ASSUME NEW t \in tasks PROVE TaskInTime(t)'
    <3>1. clock < t.since + ContextOf(t) /\ ContextOf(t) \in Nat
      BY <1>0, <2>1 DEF InTime, ContextOf
    <3>2. TaskInTime(t) /\ t.since \in Nat /\ LatestDue(t.id)' = LatestDue(t.id) /\ LatestDue(t.id) \in Nat
      BY <1>0 DEF TimesInv
    <3>3. t.since <= clock' /\ clock' <= t.since + ContextOf(t)
      BY <1>0, <2>1, <3>1, <3>2 DEF TaskInTime
    <3> QED
      BY <3>2, <3>3 DEF TaskInTime, ContextOf
  <2> QED
    BY <2>1, <2>2, <2>3 DEF TimesInv
<1> QED
  BY <1>0, <1>1, <1>2
  DEF StepCases, DownShape, RecoveredShape, FireShape, AskShape, StepShape, StillShape, CommandShape, serverWork

LEMMA TimesInit ==
    ASSUME BothInit
    PROVE  TimesInv
BY DEF BothInit, AnalysisInit, TimesInv

\* As long as the handler, the wait for the timer, its look at the row and the
\* analysis fit into the time the API calls a row pending (20 s, 90 s, 10 s and
\* 90 s of 10 minutes), it never gives up on a verdict that may still come.
THEOREM PendingLongEnough ==
    ASSUME HandlerLimit + AnalysisDelay + GetLimit + EnrichLimit < PendingFor
    PROVE  BothSpec => []PendingWhileAnalysing
<1>1. BaseInv /\ TimesInv => PendingWhileAnalysing
  <2> SUFFICES ASSUME BaseInv, TimesInv, NEW id \in Ids, rows[id].verdict.by = "none",
                      (\E t \in timers : t.id = id) \/ (\E t \in tasks : t.id = id /\ t.by = "timer")
               PROVE  clock < rows[id].started + PendingFor
    BY DEF PendingWhileAnalysing, Pending
  <2>0. clock \in Nat /\ rows[id].started \in Nat /\ \A t \in timers : t.due \in Nat
    BY Values
  <2>1. CASE \E t \in timers : t.id = id
    BY <2>0, <2>1, Lengths DEF TimesInv, TimerInTime, LatestDue
  <2>2. CASE \E t \in tasks : t.id = id /\ t.by = "timer"
    <3>1. PICK t \in tasks : t.id = id /\ t.by = "timer"
      BY <2>2
    <3>2. TaskInTime(t) /\ t.since \in Nat
      BY Values DEF TimesInv
    <3> QED
      BY <2>0, <3>1, <3>2, Lengths DEF TaskInTime, ContextOf, LatestDue
  <2> QED
    BY <2>1, <2>2
<1>2. BaseInv /\ TimesInv /\ [BothNext]_bothVars => (BaseInv /\ TimesInv)'
  BY BaseStep, TimesStep
<1> QED
  BY <1>1, <1>2, BaseInit, TimesInit, PTL DEF BothSpec

-----------------------------------------------------------------------------
(* The timers' verdicts.                                                   *)

LEMMA AloneStep ==
    ASSUME EnrichLimit < MinGap + AnalysisDelay,
           BaseInv, TimesInv, ApartInv, [BothNext]_bothVars
    PROVE  ApartInv'
<1>0. /\ clock \in Nat /\ StepCases /\ GetInv /\ RowsInv /\ rows \in Seq(Row) /\ changedAt \in Nat
      /\ \A t \in timers : t.due \in Nat /\ t.id \in Ids
      /\ \A t \in tasks : t \in Task /\ t.since \in Nat /\ t.id \in Ids
      /\ \A i \in Ids : i \in Nat
      /\ AnalysisDelay \in Nat /\ EnrichLimit \in Nat /\ MinGap \in Nat
  BY Values, Lengths, Cases DEF BaseInv
<1>1. \A t \in Enriching : /\ Alone(t) /\ t \in TimerTasks /\ t \in tasks /\ t.stage # "get"
                           /\ t.id \in Ids /\ t.id \in Nat /\ t.since \in Nat
                           /\ t.since <= clock /\ clock <= t.since + EnrichLimit
  BY <1>0 DEF ApartInv, Alone, Enriching, TimerTasks, TimesInv, TaskInTime, ContextOf
<1>2. ASSUME \A t \in Enriching' : Alone(t)' PROVE ApartInv'
  BY <1>2 DEF ApartInv, Alone
<1>3. ASSUME NEW n \in Nat, DownShape(n) PROVE ApartInv'
  <2> SUFFICES ASSUME NEW t \in Enriching' PROVE Alone(t)'
    BY <1>2
  <2>1. /\ tasks' = tasks /\ n \notin Ids /\ Ids' = Ids \union {n} /\ \A i \in Ids : rows'[i] = rows[i]
        /\ changedAt' \in Nat /\ changedAt <= changedAt' /\ changedAt' <= clock
        /\ Ids # {} => changedAt' >= changedAt + MinGap
        /\ rows'[n].verdict.by = "none"
        /\ timers' = timers \union {[id |-> n, due |-> clock + AnalysisDelay]}
        /\ \A i \in Ids : rows[i].over
    BY <1>3 DEF DownShape, Times
  <2>2. t \in Enriching /\ TimerTasks' = TimerTasks
    BY <2>1 DEF Enriching, TimerTasks
  <2>3. /\ t.since <= changedAt /\ t.id \in Ids /\ t.since \in Nat /\ Alone(t)
        /\ clock >= t.since + MinGap
    <3>1. t.since <= changedAt /\ t.id \in Ids /\ t.since \in Nat /\ Alone(t)
      BY <1>1, <2>1, <2>2 DEF Alone
    <3> QED
      BY <1>0, <2>1, <3>1
  <2>4. \A u \in timers' : u.id > t.id => u.due >= t.since + MinGap + AnalysisDelay
    <3> DEFINE new == [id |-> n, due |-> clock + AnalysisDelay]
    <3>1. new.due >= t.since + MinGap + AnalysisDelay
      BY <1>0, <2>3
    <3>2. timers' = timers \union {new}
      BY <2>1
    <3> HIDE DEF new
    <3> QED
      BY <2>3, <3>1, <3>2 DEF Alone
  <2>5. \A j \in Ids' : j > t.id => rows'[j].verdict.by # "timer"
    BY <2>1, <2>3 DEF Alone
  <2>6. t.since <= changedAt'
    BY <1>0, <2>1, <2>3
  <2> QED
    BY <2>2, <2>3, <2>4, <2>5, <2>6 DEF Alone
<1>4. ASSUME NEW n \in Ids, RecoveredShape(n) PROVE ApartInv'
  <2> SUFFICES ASSUME NEW t \in Enriching' PROVE Alone(t)'
    BY <1>2
  <2>1. /\ UNCHANGED <<timers, tasks>> /\ Ids' = Ids /\ changedAt' = clock
        /\ \A i \in Ids : rows'[i].verdict = rows[i].verdict
    BY <1>4 DEF RecoveredShape
  <2>2. t \in Enriching /\ TimerTasks' = TimerTasks
    BY <2>1 DEF Enriching, TimerTasks
  <2> QED
    BY <1>1, <2>1, <2>2 DEF Alone
<1>5. ASSUME NEW v \in timers, FireShape(v) PROVE ApartInv'
  <2> SUFFICES ASSUME NEW t \in Enriching' PROVE Alone(t)'
    BY <1>2
  <2>1. PICK w \in Task : /\ w.id = v.id /\ w.by = "timer" /\ w.stage = "get"
                          /\ tasks' = tasks \union {w}
    BY <1>5 DEF FireShape
  <2>2. UNCHANGED <<clock, changedAt, rows>> /\ timers' \subseteq timers /\ clock >= v.due
    BY <1>5 DEF FireShape
  <2>3. t \in Enriching /\ TimerTasks' = TimerTasks \union {w}
    BY <2>1 DEF Enriching, TimerTasks
  <2>4. Alone(t) /\ t.id \in Nat /\ t.since \in Nat /\ clock <= t.since + EnrichLimit
    BY <1>1, <2>3
  <2>5. v.id <= t.id
    <3>1. v.id \in Nat /\ v.due \in Nat
      BY <1>0
    <3>2. CASE v.id > t.id
      <4>1. v.due >= t.since + MinGap + AnalysisDelay
        BY <2>4, <3>2 DEF Alone
      <4> QED
        BY <1>0, <2>2, <2>4, <3>1, <4>1
    <3> QED
      BY <2>4, <3>1, <3>2
  <2>6. \A u \in TimerTasks' : u.id <= t.id
    BY <2>1, <2>3, <2>4, <2>5 DEF Alone
  <2> QED
    BY <2>2, <2>4, <2>6 DEF Alone, Ids
<1>6. ASSUME NEW id \in Ids, AskShape(id) PROVE ApartInv'
  <2>1. UNCHANGED <<clock, changedAt, rows, timers>> /\ TimerTasks' = TimerTasks
    BY <1>6 DEF AskShape, TimerTasks
  <2>2. Enriching' = Enriching
    BY <2>1 DEF Enriching
  <2> QED
    BY <2>1, <2>2 DEF ApartInv, Alone, Ids
<1>7. ASSUME NEW t0 \in tasks, StepShape(t0) PROVE ApartInv'
  <2> SUFFICES ASSUME NEW t \in Enriching' PROVE Alone(t)'
    BY <1>2
  <2>1. /\ UNCHANGED <<clock, changedAt, timers>> /\ Ids' = Ids
        /\ \A i \in Ids : rows'[i].over = rows[i].over
        /\ \A i \in Ids : \/ rows'[i].verdict.by = rows[i].verdict.by
                          \/ rows'[i].verdict.by = "rule"
                          \/ i = t0.id /\ t0.stage = "analyze" /\ rows'[i].verdict.by = t0.by
    BY <1>7 DEF StepShape, OutagesStay, VerdictsKept, Ids
  <2>2. ASSUME NEW u \in TimerTasks' PROVE u \in TimerTasks \/ (t0 \in TimerTasks /\ NextTask(t0, u))
    BY <1>7, <2>2 DEF StepShape, TaskGoesOn, TimerTasks, NextTask
  <2>3. t \in TimerTasks' /\ t.stage # "get"
    BY DEF Enriching
  \* of a timer's analysis that was under way before the step
  <2>4. ASSUME NEW e \in Enriching, e.id = t.id, e.since = t.since PROVE Alone(t)'
    <3>1. Alone(e) /\ e.id \in Nat /\ e.id \in Ids
      BY <1>1
    <3>2. rows'[t.id].over => t.since <= changedAt'
      BY <2>1, <2>4, <3>1 DEF Alone
    <3>3. \A u \in timers' : u.id > t.id => u.due >= t.since + MinGap + AnalysisDelay
      BY <2>1, <2>4, <3>1 DEF Alone
    <3>4. \A u \in TimerTasks' : u.id <= t.id
      <4> TAKE u \in TimerTasks'
      <4>1. CASE u \in TimerTasks
        BY <2>4, <3>1, <4>1 DEF Alone
      <4>2. CASE t0 \in TimerTasks /\ u.id = t0.id
        BY <2>4, <3>1, <4>2 DEF Alone
      <4> QED
        BY <2>2, <4>1, <4>2 DEF NextTask
    <3>5. ASSUME NEW j \in Ids', j > t.id, rows'[j].verdict.by = "timer" PROVE FALSE
      <4>1. j \in Ids /\ rows[j].verdict.by # "timer"
        BY <2>1, <2>4, <3>1, <3>5 DEF Alone
      <4>2. j = t0.id /\ t0.by = "timer"
        BY <2>1, <3>5, <4>1
      <4>3. j <= t.id
        BY <2>4, <3>1, <4>2 DEF Alone, TimerTasks
      <4> QED
        BY <1>0, <2>4, <3>1, <3>5, <4>1, <4>3
    <3> QED
      BY <3>2, <3>3, <3>4, <3>5 DEF Alone
  <2>5. CASE t \in TimerTasks
    BY <2>3, <2>4, <2>5 DEF Enriching
  <2>6. CASE t0 \in TimerTasks /\ NextTask(t0, t) /\ t0.stage # "get"
    <3>1. t0 \in Enriching /\ t0.id = t.id /\ t0.since = t.since
      BY <2>6 DEF Enriching, NextTask
    <3> QED
      BY <2>4, <3>1
  <2>7. CASE t0 \in TimerTasks /\ NextTask(t0, t) /\ t0.stage = "get"
    <3>1. t.id = t0.id /\ t.id \in Ids /\ ~rows[t.id].over
      BY <1>0, <2>7 DEF NextTask
    <3>2. \A j \in Ids : j <= t.id
      BY <1>0, <3>1 DEF RowsInv
    <3>3. \A j \in Ids : ~(j > t.id)
      BY <1>0, <3>1, <3>2
    <3>4. ~rows'[t.id].over
      BY <2>1, <3>1
    <3>5. \A u \in timers' : ~(u.id > t.id)
      BY <1>0, <2>1, <3>3
    <3>6. \A u \in TimerTasks' : u.id <= t.id
      <4> TAKE u \in TimerTasks'
      <4>1. u.id \in Ids
        BY <1>0, <2>2 DEF TimerTasks, NextTask
      <4> QED
        BY <3>2, <4>1
    <3> QED
      BY <2>1, <3>3, <3>4, <3>5, <3>6 DEF Alone
  <2> QED
    BY <2>2, <2>3, <2>5, <2>6, <2>7
<1>8. CASE TickShape \/ StillShape
  BY <1>8 DEF TickShape, StillShape, ApartInv, Alone, Enriching, TimerTasks, Ids
<1>9. CASE CommandShape
  <2>1. /\ UNCHANGED <<clock, changedAt, timers, tasks>> /\ Ids' = Ids
        /\ \A i \in Ids : rows'[i].over = rows[i].over
        /\ \A i \in Ids : rows'[i].verdict.by = rows[i].verdict.by \/ rows'[i].verdict.by = "command"
    BY <1>9 DEF CommandShape, OutagesStay, serverWork, Ids
  <2>2. Enriching' = Enriching /\ TimerTasks' = TimerTasks
    BY <2>1 DEF Enriching, TimerTasks
  <2> SUFFICES ASSUME NEW t \in Enriching' PROVE Alone(t)'
    BY <1>2
  <2> QED
    BY <1>1, <2>1, <2>2 DEF Alone
<1> QED
  BY <1>0, <1>3, <1>4, <1>5, <1>6, <1>7, <1>8, <1>9 DEF StepCases

\* A verdict that a timer leaves is of an analysis that was alone.
LEMMA TimerVerdicts ==
    ASSUME BaseInv, StepCases, NEW i \in Ids', rows'[i].verdict.by = "timer"
    PROVE  /\ i \in Ids
           /\ \/ rows'[i].verdict = rows[i].verdict
              \/ \E t \in Enriching : /\ t.id = i /\ t.stage = "analyze" /\ rows'[i].verdict.at = clock
                                      /\ rows'[i].verdict.blind = t.blind
<1>1. \/ i \in Ids /\ rows'[i].verdict = rows[i].verdict
      \/ i \in Ids /\ \E t \in tasks : /\ i = t.id /\ t.stage = "analyze" /\ rows'[i].verdict.by = t.by
                                       /\ rows'[i].verdict.at = clock /\ rows'[i].verdict.blind = t.blind
  BY VerdictsAfter
<1> QED
  BY <1>1 DEF Enriching, TimerTasks

LEMMA ApartStep ==
    ASSUME BaseInv, TimesInv, ApartInv, CooledInv, TimerVerdictsApart, [BothNext]_bothVars
    PROVE  CooledInv' /\ TimerVerdictsApart'
<1>0. /\ clock \in Nat /\ StepCases /\ Cooldown \in Nat
      /\ \A t \in tasks : t \in Task /\ t.id \in Ids
      /\ \A i \in Ids : i \in Nat /\ rows[i].verdict.at \in Nat
  BY Values, Lengths, Cases
<1>1. clock' \in Nat /\ clock' >= clock
  BY <1>0 DEF StepCases, DownShape, RecoveredShape, FireShape, AskShape, StepShape, TickShape, StillShape,
              CommandShape, serverWork
<1>2. ASSUME NEW u \in TimerTasks', u.stage \in Checked, ~u.blind,
             NEW i \in Ids', i < u.id, rows'[i].verdict.by = "timer"
      PROVE  clock' >= rows'[i].verdict.at + Cooldown
  <2>1. \/ u \in TimerTasks
        \/ \E t \in TimerTasks : NextTask(t, u)
    <3>1. \/ u \in tasks
          \/ \E t \in tasks : StepShape(t) /\ NextTask(t, u)
          \/ u.stage \in {"get", "summary"} /\ u \in Task
      BY <1>0, TasksAfter DEF TimerTasks
    <3>2. u.by = "timer"
      BY <1>2 DEF TimerTasks
    <3> QED
      BY <1>2, <3>1, <3>2 DEF TimerTasks, NextTask, Checked
  <2>2. PICK t \in TimerTasks : t.id = u.id /\ (t = u \/ NextTask(t, u))
    BY <2>1 DEF NextTask
  <2>3. t.id \in Nat /\ t.id \in Ids /\ i \in Ids /\ i \in Nat
    <3>1. i \in Ids
      BY <1>0, <1>2, TimerVerdicts
    <3> QED
      BY <1>0, <3>1 DEF TimerTasks
  <2>4. rows'[i].verdict = rows[i].verdict
    <3>1. ASSUME NEW e \in Enriching, e.id = i PROVE FALSE
      <4>1. t.id <= i
        BY <3>1 DEF ApartInv, Alone
      <4> QED
        BY <1>2, <2>2, <2>3, <4>1
    <3> QED
      BY <1>0, <1>2, <3>1, TimerVerdicts
  <2>5. clock >= rows[i].verdict.at + Cooldown
    <3>1. rows[i].verdict.by = "timer"
      BY <1>2, <2>4
    <3>2. CASE t.stage \in Checked /\ ~t.blind
      BY <1>2, <2>2, <2>3, <3>1, <3>2 DEF CooledInv
    <3>3. CASE ~CoolingDown(t.id)
      <4>1. i # t.id
        BY <1>2, <2>2, <2>3
      <4>2. ~(clock < rows[i].verdict.at + Cooldown)
        BY <2>3, <3>1, <3>3, <4>1 DEF CoolingDown
      <4> QED
        BY <1>0, <2>3, <4>2
    <3> QED
      BY <1>2, <2>2, <3>2, <3>3 DEF NextTask
  <2> QED
    BY <1>0, <1>1, <2>3, <2>4, <2>5
<1>3. ASSUME NEW i \in Ids', NEW j \in Ids', i < j,
             rows'[i].verdict.by = "timer", rows'[j].verdict.by = "timer", ~rows'[j].verdict.blind
      PROVE  rows'[j].verdict.at >= rows'[i].verdict.at + Cooldown
  <2>1. i \in Ids /\ j \in Ids /\ i \in Nat /\ j \in Nat
    BY <1>0, <1>3, TimerVerdicts
  <2>2. CASE rows'[i].verdict = rows[i].verdict /\ rows'[j].verdict = rows[j].verdict
    BY <1>3, <2>1, <2>2 DEF TimerVerdictsApart
  <2>3. ASSUME NEW t \in Enriching, t.id = i PROVE rows'[j].verdict = rows[j].verdict /\ rows[j].verdict.by # "timer"
    <3>1. /\ \A u \in TimerTasks : u.id <= i
          /\ rows[j].verdict.by # "timer"
      BY <1>3, <2>1, <2>3 DEF ApartInv, Alone
    <3>2. \A u \in Enriching : u.id # j
      BY <1>3, <2>1, <3>1 DEF Enriching
    <3> QED
      BY <1>0, <1>3, <3>1, <3>2, TimerVerdicts
  <2>4. rows'[i].verdict = rows[i].verdict
    BY <1>0, <1>3, <2>3, TimerVerdicts
  <2>5. ASSUME NEW t \in Enriching, t.id = j, t.stage = "analyze",
               rows'[j].verdict.at = clock, rows'[j].verdict.blind = t.blind
        PROVE  rows'[j].verdict.at >= rows'[i].verdict.at + Cooldown
    <3>1. t \in TimerTasks /\ t.stage \in Checked /\ ~t.blind
      BY <1>3, <2>5 DEF Enriching, Checked
    <3> QED
      BY <1>3, <2>1, <2>4, <2>5, <3>1 DEF CooledInv
  <2> QED
    BY <1>0, <1>3, <2>2, <2>4, <2>5, TimerVerdicts
<1> QED
  BY <1>2, <1>3 DEF CooledInv, TimerVerdictsApart

LEMMA ApartInit ==
    ASSUME BothInit
    PROVE  ApartInv /\ CooledInv /\ TimerVerdictsApart
<1>1. tasks = {} /\ \A i \in Ids : rows[i].verdict.by = "none"
  <2>1. CASE rows = <<>>
    BY <2>1 DEF Ids, BothInit, AnalysisInit
  <2>2. CASE rows = [i \in 1 .. FlapLimit |-> OldRow]
    BY <2>2 DEF Ids, BothInit, AnalysisInit, OldRow, NoVerdict
  <2> QED
    BY <2>1, <2>2 DEF BothInit, AnalysisInit
<1> QED
  BY <1>1 DEF ApartInv, Alone, CooledInv, TimerVerdictsApart, Enriching, TimerTasks

\* The cooldown holds between the verdicts of the timers although it is checked
\* long before the verdict is saved: enrich has less time than passes from one
\* outage to the timer of the next (90 s, and 90 s more than the least time
\* between two changes).
THEOREM VerdictsApart ==
    ASSUME EnrichLimit < MinGap + AnalysisDelay
    PROVE  BothSpec => []TimerVerdictsApart
<1> DEFINE Inv == BaseInv /\ TimesInv /\ ApartInv /\ CooledInv /\ TimerVerdictsApart
<1>1. Inv /\ [BothNext]_bothVars => Inv'
  BY BaseStep, TimesStep, AloneStep, ApartStep
<1>2. BothInit => Inv
  BY BaseInit, TimesInit, ApartInit
<1> QED
  BY <1>1, <1>2, PTL DEF BothSpec

-----------------------------------------------------------------------------
(* The embeddings.                                                         *)

LEMMA OnceStep ==
    ASSUME BaseInv, OnceInv, [BothNext]_bothVars
    PROVE  OnceInv'
<1>0. /\ StepCases
      /\ \A t \in timers : t.id \in Ids
      /\ \A t \in tasks : t.id \in Ids
  BY Values, Cases
<1>1. CASE UNCHANGED <<timers, tasks>>
  BY <1>1 DEF OnceInv, TimerTasks
<1>2. ASSUME NEW n \in Nat, DownShape(n) PROVE OnceInv'
  <2> DEFINE new == [id |-> n, due |-> clock + AnalysisDelay]
  <2>1. timers' = timers \union {new} /\ TimerTasks' = TimerTasks /\ n \notin Ids
    BY <1>2 DEF DownShape, TimerTasks
  <2>2. new.id = n
    OBVIOUS
  <2> HIDE DEF new
  <2>3. \A t \in TimerTasks : t.id # n
    BY <1>0, <2>1 DEF TimerTasks
  <2> QED
    BY <1>0, <2>1, <2>2, <2>3 DEF OnceInv
<1>3. ASSUME NEW v \in timers, FireShape(v) PROVE OnceInv'
  <2>1. PICK w \in Task : /\ w.id = v.id /\ w.by = "timer" /\ w.stage = "get"
                          /\ tasks' = tasks \union {w}
    BY <1>3 DEF FireShape
  <2>2. timers' = timers \ {v} /\ TimerTasks' = TimerTasks \union {w}
    BY <1>3, <2>1 DEF FireShape, TimerTasks
  <2> QED
    BY <2>1, <2>2 DEF OnceInv
<1>4. ASSUME NEW id \in Ids, AskShape(id) PROVE OnceInv'
  <2>1. timers' = timers /\ TimerTasks' = TimerTasks
    BY <1>4 DEF AskShape, TimerTasks
  <2> QED
    BY <2>1 DEF OnceInv
<1>5. ASSUME NEW t \in tasks, StepShape(t) PROVE OnceInv'
  <2>1. timers' = timers
    BY <1>5 DEF StepShape
  <2>2. CASE tasks' = tasks \ {t}
    <3>1. TimerTasks' \subseteq TimerTasks
      BY <2>2 DEF TimerTasks
    <3> QED
      BY <2>1, <3>1 DEF OnceInv
  <2>3. ASSUME NEW u \in Task, NextTask(t, u), tasks' = (tasks \ {t}) \union {u} PROVE OnceInv'
    <3>1. u.id = t.id /\ u.by = t.by
      BY <2>3 DEF NextTask
    <3>2. CASE t.by = "timer"
      <4>1. TimerTasks' = (TimerTasks \ {t}) \union {u} /\ t \in TimerTasks
        BY <2>3, <3>1, <3>2 DEF TimerTasks
      <4> QED
        BY <2>1, <3>1, <4>1 DEF OnceInv
    <3>3. CASE t.by # "timer"
      <4>1. TimerTasks' = TimerTasks
        BY <2>3, <3>1, <3>3 DEF TimerTasks
      <4> QED
        BY <2>1, <4>1 DEF OnceInv
    <3> QED
      BY <3>2, <3>3
  <2> QED
    BY <1>5, <2>2, <2>3 DEF StepShape, TaskGoesOn
<1> QED
  BY <1>0, <1>1, <1>2, <1>3, <1>4, <1>5
  DEF StepCases, RecoveredShape, TickShape, StillShape, CommandShape, serverWork

\* Which rows are touched: no row but the one an admin asks about.
LEMMA TouchedStep ==
    ASSUME BaseInv, OnceInv, [BothNext]_bothVars
    PROVE  \/ Touched' \subseteq Touched /\ requests' = requests
           \/ \E id \in Ids : Touched' \subseteq Touched \union {id} /\ requests' = requests + 1
<1>0. /\ StepCases /\ rows \in Seq(Row)
      /\ \A t \in timers : t.id \in Ids
      /\ \A t \in tasks : t \in Task /\ t.id \in Ids /\ t.by \in {"timer", "admin"}
      /\ \A i \in Ids : rows'[i].started = rows[i].started
      /\ \A i \in Ids : rows[i].embedding \in {"none", "kept", "dropped"}
  BY Values, Cases, StartsStay, RowFields DEF Task, Row
<1>1. CASE /\ Ids' = Ids /\ \A i \in Ids : rows'[i].embedding = rows[i].embedding
           /\ UNCHANGED <<timers, tasks, requests>>
  BY <1>0, <1>1 DEF Touched, Waiting, TimerTasks
<1>2. ASSUME NEW n \in Nat, DownShape(n) PROVE Touched' \subseteq Touched /\ requests' = requests
  <2>1. /\ tasks' = tasks /\ n \notin Ids /\ Ids' = Ids \union {n} /\ \A i \in Ids : rows'[i] = rows[i]
        /\ rows'[n].embedding = "none" /\ requests' = requests
        /\ timers' = timers \union {[id |-> n, due |-> clock + AnalysisDelay]}
    BY <1>2 DEF DownShape
  <2>2. n \notin Touched'
    BY <1>0, <2>1 DEF Touched
  <2>3. ASSUME NEW i \in Ids PROVE Waiting(i)' => Waiting(i)
    BY <2>1 DEF Waiting, TimerTasks
  <2>4. ASSUME NEW i \in Ids, i \in Touched' PROVE i \in Touched
    BY <2>1, <2>3, <2>4 DEF Touched
  <2> QED
    BY <2>1, <2>2, <2>4 DEF Touched
<1>3. ASSUME NEW v \in timers, FireShape(v) PROVE Touched' \subseteq Touched /\ requests' = requests
  <2>1. PICK w \in Task : w.id = v.id /\ w.by = "timer" /\ tasks' = tasks \union {w}
    BY <1>3 DEF FireShape
  <2>2. UNCHANGED <<rows, requests>> /\ timers' \subseteq timers
    BY <1>3 DEF FireShape
  <2>3. ASSUME NEW i \in Ids PROVE Waiting(i)' => Waiting(i)
    BY <2>1, <2>2 DEF Waiting, TimerTasks
  <2>4. ASSUME NEW i, i \in Touched' PROVE i \in Touched
    <3>1. i \in Ids /\ rows[i].started > 0
      BY <2>2, <2>4 DEF Touched, Ids
    <3>2. rows'[i] = rows[i]
      BY <2>2
    <3>3. \A t \in tasks' : t.by = "admin" => t \in tasks
      BY <2>1
    <3> QED
      BY <2>3, <2>4, <3>1, <3>2, <3>3 DEF Touched
  <2> QED
    BY <2>2, <2>4
<1>4. ASSUME NEW id \in Ids, AskShape(id) PROVE Touched' \subseteq Touched \union {id} /\ requests' = requests + 1
  <2>1. PICK w \in Task : w.id = id /\ w.by = "admin" /\ tasks' = tasks \union {w}
    BY <1>4 DEF AskShape
  <2>2. UNCHANGED <<rows, timers>> /\ requests' = requests + 1
    BY <1>4 DEF AskShape
  <2>3. TimerTasks' = TimerTasks
    BY <2>1 DEF TimerTasks
  <2>4. ASSUME NEW i, i \in Touched', i # id PROVE i \in Touched
    <3>1. i \in Ids /\ rows[i].started > 0 /\ rows'[i] = rows[i] /\ (Waiting(i)' => Waiting(i))
      BY <2>2, <2>3, <2>4 DEF Touched, Ids, Waiting
    <3>2. \A t \in tasks' : t.id = i => t \in tasks
      BY <2>1, <2>4
    <3> QED
      BY <2>4, <3>1, <3>2 DEF Touched
  <2> QED
    BY <2>2, <2>4
<1>5. ASSUME NEW t \in tasks, StepShape(t) PROVE Touched' \subseteq Touched /\ requests' = requests
  <2>1. /\ UNCHANGED <<timers, requests>> /\ Ids' = Ids /\ TaskGoesOn(t)
    BY <1>5 DEF StepShape, OutagesStay, Ids
  <2>2. \A i \in Ids :
          \/ rows'[i].embedding = rows[i].embedding
          \/ i = t.id /\ t.stage = "summary" /\ rows[i].embedding # "none" /\ rows'[i].embedding = "dropped"
          \/ i = t.id /\ t.stage = "attach" /\ rows'[i].embedding = "kept"
    BY <1>5 DEF StepShape, EmbeddingsKept
  <2>3. ASSUME NEW u \in tasks' PROVE (u \in tasks /\ u # t) \/ NextTask(t, u)
    BY <2>1, <2>3 DEF TaskGoesOn
  <2> SUFFICES ASSUME NEW i, i \in Touched' PROVE i \in Touched
    BY <2>1
  <2>4. i \in Ids /\ rows[i].started > 0
    BY <1>0, <2>1 DEF Touched
  <2>5. CASE t.id = i /\ t.by = "admin"
    BY <2>4, <2>5 DEF Touched
  <2>6. ASSUME NEW u \in tasks', u.id = i, u.by = "admin", ~(t.id = i /\ t.by = "admin") PROVE i \in Touched
    <3>1. u \in tasks
      BY <2>3, <2>6 DEF NextTask
    <3> QED
      BY <2>4, <2>6, <3>1 DEF Touched
  <2>7. ASSUME rows'[i].embedding = "dropped", ~(t.id = i /\ t.by = "admin") PROVE i \in Touched
    <3>1. CASE rows[i].embedding = "dropped"
      BY <2>4, <3>1 DEF Touched
    <3>2. CASE rows[i].embedding # "dropped"
      <4>1. i = t.id /\ t.stage = "summary" /\ rows[i].embedding = "kept" /\ t.by = "timer"
        BY <1>0, <2>2, <2>4, <2>7, <3>2
      <4>2. Waiting(i)
        BY <4>1 DEF Waiting, TimerTasks
      <4> QED
        BY <2>4, <4>1, <4>2 DEF Touched
    <3> QED
      BY <3>1, <3>2
  <2>8. ASSUME rows'[i].embedding = "kept", Waiting(i)', ~(t.id = i /\ t.by = "admin") PROVE i \in Touched
    <3>1. CASE t.id # i
      <4>1. rows[i].embedding = "kept"
        BY <2>2, <2>4, <2>8, <3>1
      <4>2. Waiting(i)
        BY <2>1, <2>3, <2>8, <3>1 DEF Waiting, TimerTasks, NextTask
      <4> QED
        BY <2>4, <4>1, <4>2 DEF Touched
    <3>2. CASE t.id = i
      <4>1. t \in TimerTasks
        BY <1>0, <2>8, <3>2 DEF TimerTasks
      <4>2. \A v \in timers' : v.id # i
        BY <2>1, <3>2, <4>1 DEF OnceInv
      <4>3. PICK u \in tasks' : u.id = i /\ u.by = "timer" /\ u.stage \in {"get", "summary"}
        BY <2>8, <4>2 DEF Waiting, TimerTasks
      <4>4. NextTask(t, u)
        <5>1. u \notin tasks \/ u = t
          BY <3>2, <4>1, <4>3 DEF OnceInv, TimerTasks
        <5> QED
          BY <2>3, <5>1
      <4>5. t.stage = "get"
        BY <4>3, <4>4 DEF NextTask
      <4>6. rows[i].embedding = "kept"
        BY <2>2, <2>4, <2>8, <4>5
      <4>7. Waiting(i)
        BY <3>2, <4>1, <4>5 DEF Waiting
      <4> QED
        BY <2>4, <4>6, <4>7 DEF Touched
    <3> QED
      BY <3>1, <3>2
  <2> QED
    BY <2>5, <2>6, <2>7, <2>8 DEF Touched
<1>6. CASE CommandShape
  <2>1. /\ UNCHANGED <<timers, tasks, requests>> /\ Ids' = Ids
        /\ \A i \in Ids : rows'[i].embedding = rows[i].embedding \/ rows[i].started = 0
    BY <1>6 DEF CommandShape, OutagesStay, serverWork, TrailRows, Ids
  <2>2. ASSUME NEW i, i \in Touched' PROVE i \in Touched
    <3>1. i \in Ids /\ rows[i].started > 0 /\ (Waiting(i)' => Waiting(i))
      BY <1>0, <2>1, <2>2 DEF Touched, Waiting, TimerTasks
    <3>2. rows'[i].embedding = rows[i].embedding
      BY <2>1, <3>1
    <3> QED
      BY <2>1, <2>2, <3>1, <3>2 DEF Touched
  <2> QED
    BY <2>1, <2>2
<1>7. CASE UNCHANGED <<rows, timers, tasks, requests>>
  BY <1>1, <1>7 DEF Ids
<1>8. ASSUME NEW n \in Ids, RecoveredShape(n) PROVE Touched' \subseteq Touched /\ requests' = requests
  <2>1. /\ Ids' = Ids /\ \A i \in Ids : rows'[i].embedding = rows[i].embedding
        /\ UNCHANGED <<timers, tasks, requests>>
    BY <1>8 DEF RecoveredShape
  <2> QED
    BY <1>0, <2>1 DEF Touched, Waiting, TimerTasks
<1> QED
  BY <1>0, <1>2, <1>3, <1>4, <1>5, <1>6, <1>7, <1>8 DEF StepCases, TickShape, StillShape

LEMMA EmbeddingStep ==
    ASSUME BaseInv, OnceInv, EmbeddingInv, [BothNext]_bothVars
    PROVE  EmbeddingInv'
<1>0. /\ IsFiniteSet(Touched) /\ Cardinality(Touched) <= requests /\ requests \in Nat
      /\ Cardinality(Touched) \in Nat
  BY Values, FS_CardinalityType DEF EmbeddingInv
<1>1. CASE Touched' \subseteq Touched /\ requests' = requests
  <2>1. IsFiniteSet(Touched') /\ Cardinality(Touched') <= Cardinality(Touched)
    BY <1>0, <1>1, FS_Subset
  <2>2. Cardinality(Touched') \in Nat
    BY <2>1, FS_CardinalityType
  <2> QED
    BY <1>0, <1>1, <2>1, <2>2 DEF EmbeddingInv
<1>2. ASSUME NEW id \in Ids, Touched' \subseteq Touched \union {id}, requests' = requests + 1
      PROVE  EmbeddingInv'
  <2>1. /\ IsFiniteSet(Touched \union {id})
        /\ Cardinality(Touched \union {id}) \in Nat
        /\ Cardinality(Touched \union {id}) <= Cardinality(Touched) + 1
    <3>1. /\ IsFiniteSet(Touched \union {id})
          /\ \/ Cardinality(Touched \union {id}) = Cardinality(Touched)
             \/ Cardinality(Touched \union {id}) = Cardinality(Touched) + 1
      BY <1>0, FS_AddElement
    <3> QED
      BY <1>0, <3>1
  <2>2. IsFiniteSet(Touched') /\ Cardinality(Touched') <= Cardinality(Touched \union {id})
    BY <1>2, <2>1, FS_Subset
  <2>3. Cardinality(Touched') \in Nat
    BY <2>2, FS_CardinalityType
  <2>4. Cardinality(Touched') <= requests'
    BY <1>0, <1>2, <2>1, <2>2, <2>3
  <2> QED
    BY <2>2, <2>4 DEF EmbeddingInv
<1> QED
  BY <1>1, <1>2, TouchedStep

LEMMA EmbeddingInit ==
    ASSUME BothInit
    PROVE  OnceInv /\ EmbeddingInv
<1>1. timers = {} /\ tasks = {} /\ requests = 0 /\ \A i \in Ids : rows[i].embedding = "none"
  <2>1. CASE rows = <<>>
    BY <2>1 DEF Ids, BothInit, AnalysisInit
  <2>2. CASE rows = [i \in 1 .. FlapLimit |-> OldRow]
    BY <2>2 DEF Ids, BothInit, AnalysisInit, OldRow
  <2> QED
    BY <2>1, <2>2 DEF BothInit, AnalysisInit
<1>2. Touched = {}
  BY <1>1 DEF Touched
<1> QED
  BY <1>1, <1>2, FS_EmptySet DEF OnceInv, EmbeddingInv, TimerTasks

\* Only an admin's request beside a timer's analysis costs a stored embedding, and
\* at most one each.
THEOREM EmbeddingsLast == BothSpec => []EmbeddingsOutlive
<1>1. BaseInv /\ EmbeddingInv => EmbeddingsOutlive
  <2> SUFFICES ASSUME BaseInv, EmbeddingInv PROVE EmbeddingsOutlive
    OBVIOUS
  <2> DEFINE lost == {id \in Ids : rows[id].started > 0 /\ rows[id].embedding = "dropped"}
  <2>1. lost \subseteq Touched /\ IsFiniteSet(Touched) /\ Cardinality(Touched) <= requests
    BY DEF Touched, EmbeddingInv
  <2>2. IsFiniteSet(lost) /\ Cardinality(lost) <= Cardinality(Touched)
    BY <2>1, FS_Subset
  <2>3. Cardinality(lost) \in Nat /\ Cardinality(Touched) \in Nat /\ requests \in Nat
    BY <2>1, <2>2, FS_CardinalityType, Values
  <2> QED
    BY <2>1, <2>2, <2>3 DEF EmbeddingsOutlive
<1>2. BaseInv /\ OnceInv /\ EmbeddingInv /\ [BothNext]_bothVars => (BaseInv /\ OnceInv /\ EmbeddingInv)'
  BY BaseStep, OnceStep, EmbeddingStep
<1> QED
  BY <1>1, <1>2, BaseInit, EmbeddingInit, PTL DEF BothSpec

-----------------------------------------------------------------------------
(* The counters serve callers of any kind, over the end of a month.        *)

LEMMA CountersAfterSpend ==
    ASSUME CountersOK, [SpendNext]_spendVars, \A c \in Callers : caller[c].kind \in Kinds
    PROVE  CountersOK'
<1>1. ASSUME NEW c \in Callers, NEW k \in Kinds, Begin(c, k) PROVE CountersOK'
  BY <1>1, CountersKept DEF Begin
<1>2. ASSUME NEW c \in Callers, Refund(c) PROVE CountersOK'
  <2>1. RefundAIBudget(caller[c].kind) /\ caller[c].kind \in Kinds
    BY <1>2 DEF Refund
  <2> QED
    BY <2>1, CountersKept
<1>3. CASE MonthEnds
  <2>1. month' = month + 1 /\ calls' = calls /\ month < MaxMonth
    BY <1>3 DEF MonthEnds, NextMonth
  <2>2. month \in Nat /\ month' \in Months /\ month' > month
    BY <2>1, BudgetAssumption DEF CountersOK, BudgetTypeOK, Months
  <2>3. \A k \in Kinds : calls[month'][k] = 0 /\ Limit[k] \in Nat
    BY <2>2, BudgetAssumption DEF CountersOK
  <2>4. ASSUME NEW m \in Months, NEW k \in Kinds, m > month' PROVE calls'[m][k] = 0
    <3>1. m \in Nat /\ m > month
      BY <2>1, <2>2, <2>4 DEF Months
    <3> QED
      BY <2>1, <3>1 DEF CountersOK
  <2>5. \A k \in Kinds : calls'[month'][k] <= Limit[k]
    BY <2>1, <2>3
  <2> QED
    BY <2>1, <2>2, <2>4, <2>5 DEF CountersOK, BudgetTypeOK, Months
<1>4. CASE UNCHANGED budgetVars
  BY <1>4, CountersSame
<1> QED
  BY <1>1, <1>2, <1>3, <1>4 DEF SpendNext, Answered, NotSent, RefundFails, Restart, spendVars

\* All that writes to the rows and the counters keeps to their types, and no
\* counter ever passes its limit or falls below zero: not with the server, its
\* admin and the command at work, nor with any number of callers and months.
THEOREM AnalysesTyped == AllSpec => []AnalysesTypeOK
<1> DEFINE Inv == BaseInv /\ SpendInv
<1>1. AllInit => Inv
  BY BaseInit, SpendInitInv DEF AllInit
<1>2. Inv => AnalysesTypeOK
  BY DEF BaseInv, SpendInv, AnalysesTypeOK
<1>3. Inv /\ [AllNext]_allVars => Inv'
  <2> SUFFICES ASSUME BaseInv, SpendInv, [AllNext]_allVars PROVE BaseInv' /\ SpendInv'
    OBVIOUS
  <2>1. CASE [BothNext]_bothVars /\ UNCHANGED callerVars
    <3>1. BaseInv'
      BY <2>1, BaseStep
    <3>2. BudgetTypeOK' /\ UNCHANGED <<caller, billed, unearned>>
      BY <2>1, <3>1 DEF BaseInv, CountersOK, callerVars
    <3>3. SpendInv'
      BY <3>2 DEF SpendInv, SpendTypeOK, Months
    <3> QED
      BY <3>1, <3>3
  <2>2. CASE SpendNext /\ UNCHANGED <<clock, changedAt, rows, timers, tasks, requests, cmdVars>>
    <3>1. SpendInv'
      BY <2>2, SpendStepInv
    <3>2. CountersOK'
      BY <2>2, CountersAfterSpend DEF BaseInv, SpendInv, SpendTypeOK
    <3>3. UNCHANGED <<clock, changedAt, rows, timers, tasks, requests, cmd, runs, asked>>
      BY <2>2 DEF cmdVars
    <3>4. TrailStays
      BY <3>3 DEF TrailStays, TrailRows, HasVerdict, Ids
    <3>5. CommandInv'
      BY <3>3, <3>4, CommandUndisturbed DEF BaseInv
    <3>6. RowsInv' /\ TrailInv' /\ GetInv'
      BY <3>3, <3>4 DEF BaseInv, RowsInv, TrailInv, GetInv, TrailStays, Ids
    <3>7. CommandTypeOK'
      BY <3>2, <3>3 DEF BaseInv, CommandTypeOK, Command, AnalysisTypeOK, CountersOK, Task, Ids, Times, Stages
    <3> QED
      BY <3>1, <3>2, <3>5, <3>6, <3>7 DEF BaseInv
  <2>3. CASE UNCHANGED allVars
    BY <2>1, <2>3 DEF allVars
  <2> QED
    BY <2>1, <2>2, <2>3 DEF AllNext, Server, NextToCommand, BothNext
<1> QED
  BY <1>1, <1>2, <1>3, PTL DEF AllSpec
=============================================================================
