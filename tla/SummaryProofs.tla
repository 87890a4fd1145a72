----------------------------- MODULE SummaryProofs -----------------------------
(***************************************************************************)
(* The summaries, for any services, refreshers, budgets, days and faults.  *)
(* What a refresh holds in its hands is good as long as it is not saved:   *)
(* GoodInv follows card and blurb from the read of the row to its upsert.  *)
(* BudgetInv counts, for the days no refresh has carried over midnight,    *)
(* the calls made and the units held against the counter in memory.        *)
(***************************************************************************)
EXTENDS Summary, FiniteSetTheorems, TLAPS

Saved == [card : Card, blurb : [card : Card, day : Days],
          first : Outage .. Never, withheld : BOOLEAN]
Refresh == [stage : {"idle", "stats", "prev", "status", "daily", "monthly",
                     "giveback", "call", "refund", "save", "done"},
            site : Sites, now : Days, prev : Saved, out : Saved]

\* The blurb is one for the scorecard's hash, or was withheld.
Good(row) ==
    row.blurb # NoBlurb /\ ~row.withheld => InputsHash(row.blurb.card) = InputsHash(row.card)

Paying == {"daily", "monthly", "giveback", "call", "refund"}

GoodTask(t) ==
    /\ t.stage = "status" =>
         Good(t.prev) /\ t.out.blurb = t.prev.blurb /\ t.out.withheld = t.prev.withheld
    /\ t.stage = "save" => Good(t.out)
    /\ ~Enabled => t.stage \notin Paying /\ (t.stage \in {"status", "save"} => t.out.blurb = NoBlurb)

GoodInv ==
    /\ \A s \in Sites : Good(summary[s]) /\ (~Enabled => summary[s].blurb = NoBlurb)
    /\ \A r \in Refreshers : GoodTask(task[r])

\* A refresh that holds a unit of day d.
Holds(t, d) == t.stage \in {"monthly", "giveback", "call"} /\ t.now = d
Held(d) == {r \in Refreshers : Holds(task[r], d)}

\* The calls of a day, made or still possible.
Spent(d) == called[d] + Cardinality(Held(d))

\* A refresh that counts, or will count, on the day's counter; it is of this day,
\* or midnight has crossed it.
Counts(t) == t.stage \in {"stats", "prev", "status", "daily", "monthly", "giveback"}
OfToday(t) == t.now = day \/ (t.now \in crossed /\ day \in crossed)

BudgetInv ==
    /\ \A d \in Days : IsFiniteSet(Held(d))
    /\ \A r \in Refreshers : task[r].now <= day
    /\ \A r \in Refreshers : Counts(task[r]) => OfToday(task[r])
    /\ blurbDay <= day
    /\ \A d \in Days : d > day => called[d] = 0
    /\ \A d \in Days \ crossed : Spent(d) <= DailyBudget
    /\ \A d \in Days : d = day /\ d \notin crossed =>
         IF blurbDay = d THEN Spent(d) <= blurbCalls /\ blurbCalls <= DailyBudget
         ELSE Spent(d) = 0

SumInv == SummaryTypeOK /\ GoodInv /\ BudgetInv

-----------------------------------------------------------------------------
(* Types.                                                                  *)

LEMMA Types ==
    /\ NoBlurb \in [card : Card, day : Days] /\ NoSummary \in Saved
    /\ Idle \in Refresh /\ Idle.stage = "idle" /\ Idle.now = 0
    /\ Outage \in Outage .. Never /\ Start \in Outage .. Never /\ Never \in Outage .. Never
    /\ DailyBudget \in Nat /\ MaxFaults \in Nat
<1>1. /\ MaxWorld \in Nat /\ MaxDay \in Nat /\ MaxFaults \in Nat /\ DailyBudget \in Nat /\ Sites # {}
  BY SummaryAssumption
<1>2. 0 \in Worlds /\ 0 \in Days
  BY <1>1 DEF Worlds, Days
<1>3. NoCard \in Card
  BY <1>2, SummaryAssumption DEF NoCard, Card, Outage, Never
<1>4. NoBlurb \in [card : Card, day : Days]
  BY <1>2, <1>3 DEF NoBlurb
<1>5. Outage \in Outage .. Never /\ Start \in Outage .. Never /\ Never \in Outage .. Never
  BY DEF Outage, Start, Never
<1>6. NoSummary \in Saved
  BY <1>3, <1>4, <1>5 DEF NoSummary, Saved
<1>7. Idle \in Refresh /\ Idle.stage = "idle" /\ Idle.now = 0
  BY <1>1, <1>2, <1>6 DEF Idle, Refresh
<1> QED
  BY <1>1, <1>4, <1>5, <1>6, <1>7

TasksOK == task \in [Refreshers -> Refresh] /\ summary \in [Sites -> Saved]

LEMMA TypesOfState ==
    ASSUME SummaryTypeOK
    PROVE  /\ TasksOK
           /\ day \in Days /\ day \in Nat /\ blurbDay \in Int /\ blurbCalls \in Nat
           /\ called \in [Days -> Nat] /\ crossed \in SUBSET Days
           /\ world \in [Sites -> Worlds] /\ current \in [Sites -> Statuses] /\ todo \in SUBSET Sites
           /\ \A d \in Days : d \in Nat
<1>1. /\ TasksOK /\ day \in Days /\ blurbDay \in Days \union {-1} /\ blurbCalls \in Nat
      /\ called \in [Days -> Nat] /\ crossed \in SUBSET Days
      /\ world \in [Sites -> Worlds] /\ current \in [Sites -> Statuses] /\ todo \in SUBSET Sites
  BY DEF SummaryTypeOK, TasksOK, Saved, Refresh
<1>2. \A d \in Days : d \in Nat
  BY SummaryAssumption DEF Days
<1> QED
  BY <1>1, <1>2

\* The task of r becomes u.
Becomes(r, u) == u \in Refresh /\ task' = [task EXCEPT ![r] = u]

LEMMA TaskWritten ==
    ASSUME TasksOK, NEW r \in Refreshers, NEW u, Becomes(r, u)
    PROVE  /\ task' \in [Refreshers -> Refresh] /\ task'[r] = u /\ u \in Refresh
           /\ \A q \in Refreshers : q # r => task'[q] = task[q]
BY DEF TasksOK, Becomes

\* A refresh goes on to another stage.
LEMMA GoesShape ==
    ASSUME TasksOK, NEW r \in Refreshers, NEW stage,
           stage \in {"stats", "prev", "status", "daily", "monthly", "giveback", "call", "refund", "save"},
           Goes(r, stage)
    PROVE  \E u : /\ Becomes(r, u) /\ u.stage = stage /\ u.now = task[r].now
                  /\ u.prev = task[r].prev /\ u.out = task[r].out
<1> DEFINE u == [task[r] EXCEPT !.stage = stage]
<1>1. task[r] \in Refresh
  BY DEF TasksOK
<1>2. /\ u \in Refresh /\ u.stage = stage /\ u.now = task[r].now
      /\ u.prev = task[r].prev /\ u.out = task[r].out
  BY <1>1 DEF Refresh
<1>3. task' = [task EXCEPT ![r] = u]
  BY DEF Goes
<1> HIDE DEF u
<1> QED
  BY <1>2, <1>3 DEF Becomes

\* A blurb that was due is withheld.
LEMMA WithoutShape ==
    ASSUME TasksOK, NEW r \in Refreshers, GoesWithout(r)
    PROVE  \E u : /\ Becomes(r, u) /\ u.stage = "save" /\ u.now = task[r].now /\ u.out.withheld
<1> DEFINE o == [task[r].out EXCEPT !.withheld = TRUE]
           u == [task[r] EXCEPT !.stage = "save", !.out = o]
<1>1. task[r] \in Refresh /\ task[r].out \in Saved
  BY DEF TasksOK, Refresh
<1>2. o \in Saved /\ o.withheld
  BY <1>1 DEF Saved
<1>3. task' = [task EXCEPT ![r] = u]
  BY DEF GoesWithout
<1> HIDE DEF o
<1>4. u \in Refresh /\ u.stage = "save" /\ u.now = task[r].now /\ u.out = o
  BY <1>1, <1>2 DEF Refresh
<1> HIDE DEF u
<1> QED
  BY <1>2, <1>3, <1>4 DEF Becomes

LEMMA ReturnsShape ==
    ASSUME TasksOK, NEW r \in Refreshers, Returns(r)
    PROVE  \E u : Becomes(r, u) /\ u.stage \in {"idle", "done"} /\ u.now = 0
<1> DEFINE stage == IF r = loop THEN "idle" ELSE "done"
           u == [Idle EXCEPT !.stage = stage]
<1>1. stage \in {"idle", "done"}
  OBVIOUS
<1>2. task' = [task EXCEPT ![r] = u]
  BY DEF Returns
<1> HIDE DEF stage
<1>3. u \in Refresh /\ u.stage = stage /\ u.now = 0
  BY <1>1, Types DEF Refresh
<1> HIDE DEF u
<1> QED
  BY <1>1, <1>2, <1>3 DEF Becomes

LEMMA BeginShape ==
    ASSUME TasksOK, NEW r \in Refreshers, NEW s \in Sites, day \in Days, Begin(r, s)
    PROVE  \E u : Becomes(r, u) /\ u.stage = "stats" /\ u.now = day
<1> DEFINE u == [Idle EXCEPT !.stage = "stats", !.site = s, !.now = day]
<1>1. task' = [task EXCEPT ![r] = u]
  BY DEF Begin
<1>2. u \in Refresh /\ u.stage = "stats" /\ u.now = day
  BY Types DEF Refresh
<1> HIDE DEF u
<1> QED
  BY <1>1, <1>2 DEF Becomes

-----------------------------------------------------------------------------
(* What the first statements leave in the task.                            *)

LEMMA StatsShape ==
    ASSUME SummaryTypeOK, NEW r \in Refreshers, ReadStats(r)
    PROVE  \E u : /\ Becomes(r, u)
                  /\ \/ u.stage = "prev" /\ u.now = task[r].now
                     \/ u.stage \in {"idle", "done"} /\ u.now = 0
<1>0. TasksOK /\ task[r] \in Refresh /\ task[r].out \in Saved /\ task[r].out.card \in Card /\ task[r].site \in Sites
  BY TypesOfState DEF TasksOK, Refresh, Saved
<1>1. CASE Returns(r)
  BY <1>0, <1>1, ReturnsShape
<1>2. CASE task' = [task EXCEPT ![r].stage = "prev", ![r].out.card =
                      [@ EXCEPT !.stats = world[task[r].site], !.since = Oldest(task[r].site)]]
  <2> DEFINE w == world[task[r].site]
             f == Oldest(task[r].site)
             c == [task[r].out.card EXCEPT !.stats = w, !.since = f]
             o == [task[r].out EXCEPT !.card = c]
             u == [task[r] EXCEPT !.stage = "prev", !.out = o]
  <2>1. w \in Worlds /\ f \in Outage .. Never
    BY <1>0, TypesOfState, Types DEF Oldest
  <2>2. task' = [task EXCEPT ![r] = u]
    BY <1>0, <1>2
  <2> HIDE DEF w, f
  <2>3. c \in Card
    BY <1>0, <2>1 DEF Card
  <2> HIDE DEF c
  <2>4. o \in Saved
    BY <1>0, <2>1, <2>3 DEF Saved
  <2> HIDE DEF o
  <2>5. u \in Refresh /\ u.stage = "prev" /\ u.now = task[r].now
    BY <1>0, <2>4 DEF Refresh
  <2> HIDE DEF u
  <2> QED
    BY <2>2, <2>5 DEF Becomes
<1> QED
  BY <1>1, <1>2 DEF ReadStats

LEMMA PreviousShape ==
    ASSUME SummaryTypeOK, NEW r \in Refreshers, ReadPrevious(r)
    PROVE  \E u : /\ Becomes(r, u)
                  /\ \/ /\ u.stage = "status" /\ u.now = task[r].now
                        /\ \E s \in Sites : u.prev = summary[s]
                        /\ u.out.blurb = u.prev.blurb /\ u.out.withheld = u.prev.withheld
                     \/ u.stage \in {"idle", "done"} /\ u.now = 0
<1>0. TasksOK /\ task[r] \in Refresh /\ task[r].out \in Saved /\ task[r].out.card \in Card /\ task[r].site \in Sites
  BY TypesOfState DEF TasksOK, Refresh, Saved
<1>1. CASE Returns(r)
  BY <1>0, <1>1, ReturnsShape
<1>2. ASSUME NEW prev \in Saved, NEW f \in Outage .. Never,
             task' = [task EXCEPT ![r].stage = "status", ![r].prev = prev, ![r].out.blurb = prev.blurb,
                                  ![r].out.card = [@ EXCEPT !.since = f], ![r].out.withheld = prev.withheld]
      PROVE  \E u : /\ Becomes(r, u) /\ u.stage = "status" /\ u.now = task[r].now /\ u.prev = prev
                    /\ u.out.blurb = prev.blurb /\ u.out.withheld = prev.withheld
  <2> DEFINE c == [task[r].out.card EXCEPT !.since = f]
             o == [task[r].out EXCEPT !.blurb = prev.blurb, !.card = c, !.withheld = prev.withheld]
             u == [task[r] EXCEPT !.stage = "status", !.prev = prev, !.out = o]
  <2>1. task' = [task EXCEPT ![r] = u]
    BY <1>0, <1>2
  <2>1a. c \in Card
    BY <1>0 DEF Card
  <2> HIDE DEF c
  <2>2. o \in Saved /\ o.blurb = prev.blurb /\ o.withheld = prev.withheld
    BY <1>0, <2>1a DEF Saved
  <2> HIDE DEF o
  <2>3. u \in Refresh /\ u.stage = "status" /\ u.now = task[r].now /\ u.prev = prev /\ u.out = o
    BY <1>0, <2>2 DEF Refresh
  <2> HIDE DEF u
  <2> QED
    BY <2>1, <2>2, <2>3 DEF Becomes
<1>3. CASE ~Returns(r)
  <2> DEFINE prev == summary[task[r].site]
             f == IF prev.first < task[r].out.card.since THEN prev.first ELSE task[r].out.card.since
  <2>1. prev \in Saved /\ \E s \in Sites : prev = summary[s]
    BY <1>0 DEF TasksOK
  <2>2. f \in Outage .. Never
    BY <1>0, <2>1 DEF Saved, Card
  <2>3. task' = [task EXCEPT ![r].stage = "status", ![r].prev = prev, ![r].out.blurb = prev.blurb,
                             ![r].out.card = [@ EXCEPT !.since = f], ![r].out.withheld = prev.withheld]
    BY <1>3 DEF ReadPrevious
  <2> HIDE DEF prev, f
  <2>4. PICK u : /\ Becomes(r, u) /\ u.stage = "status" /\ u.now = task[r].now /\ u.prev = prev
                 /\ u.out.blurb = prev.blurb /\ u.out.withheld = prev.withheld
    BY <1>2, <2>1, <2>2, <2>3
  <2> QED
    BY <2>1, <2>4
<1> QED
  BY <1>1, <1>3

LEMMA StatusShape ==
    ASSUME SummaryTypeOK, NEW r \in Refreshers, ReadStatus(r)
    PROVE  \E u : /\ Becomes(r, u) /\ u.now = task[r].now /\ u.prev = task[r].prev
                  /\ u.out.blurb = task[r].out.blurb /\ u.out.withheld = task[r].out.withheld
                  /\ \/ Enabled /\ u.stage = "daily"
                     \/ u.stage = "save" /\ (~Enabled \/ ~Stale(u.prev, u.out.card))
<1>0. TasksOK /\ task[r] \in Refresh /\ task[r].out \in Saved /\ task[r].out.card \in Card /\ task[r].site \in Sites
  BY TypesOfState DEF TasksOK, Refresh, Saved
<1> DEFINE w == current[task[r].site]
           c == [task[r].out.card EXCEPT !.status = w]
           o == [task[r].out EXCEPT !.card = c]
<1>1. w \in Statuses
  BY <1>0, TypesOfState
<1>2. c \in Card
  BY <1>0, <1>1 DEF Card
<1>3. \/ /\ Enabled
         /\ task' = [task EXCEPT ![r].out.card = c, ![r].stage = "daily"]
      \/ /\ ~Enabled \/ ~Stale(task[r].prev, c)
         /\ task' = [task EXCEPT ![r].out.card = c, ![r].stage = "save"]
  BY DEF ReadStatus
<1> HIDE DEF c
<1>4. o \in Saved /\ o.card = c /\ o.blurb = task[r].out.blurb /\ o.withheld = task[r].out.withheld
  BY <1>0, <1>2 DEF Saved
<1>5. ASSUME NEW stage \in {"daily", "save"}, task' = [task EXCEPT ![r].out.card = c, ![r].stage = stage]
      PROVE  \E u : /\ Becomes(r, u) /\ u.stage = stage /\ u.now = task[r].now /\ u.prev = task[r].prev
                    /\ u.out = o
  <2> DEFINE u == [task[r] EXCEPT !.out = o, !.stage = stage]
  <2>1. task' = [task EXCEPT ![r] = u]
    BY <1>0, <1>5
  <2> HIDE DEF o
  <2>2. u \in Refresh /\ u.stage = stage /\ u.now = task[r].now /\ u.prev = task[r].prev /\ u.out = o
    BY <1>0, <1>4 DEF Refresh
  <2> HIDE DEF u
  <2> QED
    BY <2>1, <2>2 DEF Becomes
<1> HIDE DEF o
<1> QED
  BY <1>3, <1>4, <1>5

LEMMA SummarizeShape ==
    ASSUME SummaryTypeOK, NEW r \in Refreshers, Summarize(r)
    PROVE  \E u : /\ Becomes(r, u) /\ u.now = task[r].now
                  /\ \/ u.stage = "save" /\ Good(u.out)
                     \/ u.stage = "refund"
<1>0. TasksOK /\ task[r] \in Refresh /\ task[r].out \in Saved /\ task[r].out.card \in Card /\ task[r].now \in Days
  BY TypesOfState DEF TasksOK, Refresh, Saved
<1>1. CASE Goes(r, "refund")
  BY <1>0, <1>1, GoesShape
<1>2. ASSUME NEW b \in [card : Card, day : Days], b = NoBlurb \/ b.card = task[r].out.card,
             task' = [task EXCEPT ![r].stage = "save", ![r].out.withheld = FALSE, ![r].out.blurb = b]
      PROVE  \E u : Becomes(r, u) /\ u.now = task[r].now /\ u.stage = "save" /\ Good(u.out)
  <2> DEFINE o == [task[r].out EXCEPT !.withheld = FALSE, !.blurb = b]
             u == [task[r] EXCEPT !.stage = "save", !.out = o]
  <2>1. task' = [task EXCEPT ![r] = u]
    BY <1>0, <1>2
  <2>2. o \in Saved /\ o.blurb = b /\ o.card = task[r].out.card
    BY <1>0, <1>2 DEF Saved
  <2> HIDE DEF o
  <2>3. u \in Refresh /\ u.stage = "save" /\ u.now = task[r].now /\ u.out = o
    BY <1>0, <2>2 DEF Refresh
  <2> HIDE DEF u
  <2> QED
    BY <1>2, <2>1, <2>2, <2>3 DEF Becomes, Good
<1>3. CASE task' = [task EXCEPT ![r].stage = "save", ![r].out.withheld = FALSE,
                                ![r].out.blurb = [card |-> task[r].out.card, day |-> task[r].now]]
  <2> DEFINE b == [card |-> task[r].out.card, day |-> task[r].now]
  <2>1. b \in [card : Card, day : Days] /\ b.card = task[r].out.card
    BY <1>0
  <2>2. task' = [task EXCEPT ![r].stage = "save", ![r].out.withheld = FALSE, ![r].out.blurb = b]
    BY <1>3
  <2> HIDE DEF b
  <2> QED
    BY <1>2, <2>1, <2>2
<1>4. CASE task' = [task EXCEPT ![r].stage = "save", ![r].out.withheld = FALSE, ![r].out.blurb = NoBlurb]
  BY <1>2, <1>4, Types
<1> QED
  BY <1>1, <1>3, <1>4 DEF Summarize

\* The row that is saved is the one in hand but for first_seen_at.
LEMMA SaveShape ==
    ASSUME TasksOK, NEW r \in Refreshers, SaveSummary(r)
    PROVE  /\ summary' \in [Sites -> Saved]
           /\ \A s \in Sites :
                 \/ summary'[s] = summary[s]
                 \/ LET o == task[r].out
                    IN  /\ summary'[s].card = o.card /\ summary'[s].blurb = o.blurb
                        /\ summary'[s].withheld = o.withheld
<1>0. task[r].out \in Saved /\ task[r].site \in Sites
  BY DEF TasksOK, Refresh
<1>1. CASE UNCHANGED summary
  BY <1>1 DEF TasksOK
<1>2. CASE Upsert(task[r].site, task[r].out)
  <2> DEFINE q == task[r].site
             f == IF summary[q].first = Never THEN task[r].out.card.since ELSE summary[q].first
             row == [task[r].out EXCEPT !.first = f]
  <2>1. f \in Outage .. Never
    BY <1>0 DEF TasksOK, Saved, Card
  <2>2. summary' = [summary EXCEPT ![q] = row]
    BY <1>2 DEF Upsert
  <2> HIDE DEF f
  <2>3. /\ row \in Saved /\ row.card = task[r].out.card /\ row.blurb = task[r].out.blurb
        /\ row.withheld = task[r].out.withheld
    BY <1>0, <2>1 DEF Saved
  <2> HIDE DEF row
  <2> QED
    BY <1>0, <2>2, <2>3 DEF TasksOK
<1> QED
  BY <1>1, <1>2 DEF SaveSummary

-----------------------------------------------------------------------------
(* The types hold.                                                         *)

LEMMA BudgetTypesKept ==
    ASSUME BudgetTypeOK, NEW k \in Kinds, ConsumeAIBudget(k) \/ RefundAIBudget(k) \/ UNCHANGED budgetVars
    PROVE  BudgetTypeOK'
<1>1. CASE UNCHANGED budgetVars
  BY <1>1 DEF BudgetTypeOK, budgetVars
<1>2. CASE ConsumeAIBudget(k)
  BY <1>2 DEF BudgetTypeOK, ConsumeAIBudget
<1>3. CASE RefundAIBudget(k)
  <2>1. calls[month][k] \in Nat
    BY DEF BudgetTypeOK
  <2> DEFINE n == IF calls[month][k] = 0 THEN 0 ELSE calls[month][k] - 1
  <2>2. n \in Nat
    BY <2>1
  <2>3. calls' = [calls EXCEPT ![month][k] = n] /\ month' = month
    BY <1>3 DEF RefundAIBudget
  <2> HIDE DEF n
  <2> QED
    BY <2>2, <2>3 DEF BudgetTypeOK
<1> QED
  BY <1>1, <1>2, <1>3

\* What a step leaves of the types when the task of r becomes u.
LEMMA TypesKept ==
    ASSUME SummaryTypeOK, NEW r \in Refreshers, NEW u, Becomes(r, u), BudgetTypeOK',
           UNCHANGED <<day, current, trail>>,
           world' \in [Sites -> Worlds], summary' \in [Sites -> Saved], todo' \in SUBSET Sites,
           blurbDay' \in Days \union {-1}, blurbCalls' \in Nat, faults' \in 0 .. MaxFaults,
           called' \in [Days -> Nat], crossed' = crossed
    PROVE  SummaryTypeOK'
<1>1. task' \in [Refreshers -> Refresh]
  BY TypesOfState, TaskWritten
<1> QED
  BY <1>1 DEF SummaryTypeOK, Saved, Refresh

LEMMA Faults ==
    ASSUME SummaryTypeOK, Works \/ Fails
    PROVE  faults' \in 0 .. MaxFaults
BY Types DEF SummaryTypeOK, Works, Fails

LEMMA TypeStep ==
    ASSUME SummaryTypeOK, [SummaryNext]_summaryVars
    PROVE  SummaryTypeOK'
<1>0. /\ TasksOK /\ BudgetTypeOK /\ "blurb" \in Kinds /\ (Works => faults' \in 0 .. MaxFaults)
      /\ loop \in Refreshers /\ Workers \subseteq Refreshers
      /\ summary \in [Sites -> Saved] /\ world \in [Sites -> Worlds] /\ todo \in SUBSET Sites
      /\ blurbDay \in Days \union {-1} /\ blurbCalls \in Nat /\ faults \in 0 .. MaxFaults
      /\ called \in [Days -> Nat] /\ day \in Days
  BY TypesOfState, SummaryAssumption, Faults DEF SummaryTypeOK, TasksOK, Refreshers
<1>0a. UNCHANGED budgetVars => BudgetTypeOK'
  BY <1>0, BudgetTypesKept
<1>w. ASSUME NEW s \in Sites, world[s] < MaxWorld, world' = [world EXCEPT ![s] = @ + 1]
      PROVE  world' \in [Sites -> Worlds]
  <2>1. MaxWorld \in Nat
    BY SummaryAssumption
  <2> QED
    BY <1>0, <1>w, <2>1 DEF Worlds
<1>1. ASSUME NEW w \in Workers, NEW s \in Sites, Transition(w, s) PROVE SummaryTypeOK'
  <2>1. PICK u : Becomes(w, u)
    BY <1>0, <1>1, BeginShape DEF Transition
  <2>2. world' \in [Sites -> Worlds]
    BY <1>1, <1>w DEF Transition
  <2> QED
    BY <1>0, <1>0a, <1>1, <2>1, <2>2, TypesKept DEF Transition
<1>2. ASSUME NEW s \in Sites, Drift(s) PROVE SummaryTypeOK'
  <2>1. world' \in [Sites -> Worlds]
    BY <1>2, <1>w DEF Drift
  <2>2. current' \in [Sites -> Statuses]
    BY <1>2, TypesOfState DEF Drift
  <2> QED
    BY <1>0a, <1>2, <2>1, <2>2 DEF SummaryTypeOK, Drift
<1>2a. ASSUME NEW s \in Sites, Backfilled(s) PROVE SummaryTypeOK'
  <2>1. world' \in [Sites -> Worlds]
    BY <1>2a, <1>w DEF Backfilled
  <2> QED
    BY <1>0a, <1>2a, <2>1 DEF SummaryTypeOK, Backfilled
<1>3. CASE StartRound
  BY <1>0a, <1>3 DEF SummaryTypeOK, StartRound
<1>4. ASSUME NEW s \in Sites, NextService(s) PROVE SummaryTypeOK'
  <2>1. PICK u : Becomes(loop, u)
    BY <1>0, <1>4, BeginShape DEF NextService
  <2> QED
    BY <1>0, <1>0a, <1>4, <2>1, TypesKept DEF NextService
<1>5. ASSUME NEW r \in Refreshers, ReadStats(r) PROVE SummaryTypeOK'
  <2>1. PICK u : Becomes(r, u)
    BY <1>5, StatsShape
  <2>2. faults' \in 0 .. MaxFaults
    BY <1>5, Faults DEF ReadStats
  <2> QED
    BY <1>0, <1>0a, <1>5, <2>1, <2>2, TypesKept DEF ReadStats
<1>6. ASSUME NEW r \in Refreshers, ReadPrevious(r) PROVE SummaryTypeOK'
  <2>1. PICK u : Becomes(r, u)
    BY <1>6, PreviousShape
  <2>2. faults' \in 0 .. MaxFaults
    BY <1>6, Faults DEF ReadPrevious
  <2>3. UNCHANGED <<budgetVars, day, world, current, trail, summary, todo, blurbDay, blurbCalls, called, crossed>>
    BY <1>6 DEF ReadPrevious
  <2> QED
    BY <1>0, <1>0a, <2>1, <2>2, <2>3, TypesKept
<1>7. ASSUME NEW r \in Refreshers, ReadStatus(r) PROVE SummaryTypeOK'
  <2>1. PICK u : Becomes(r, u)
    BY <1>7, StatusShape
  <2>2. UNCHANGED <<budgetVars, day, world, current, trail, summary, todo, blurbDay, blurbCalls, faults, called, crossed>>
    BY <1>7 DEF ReadStatus
  <2> QED
    BY <1>0, <1>0a, <2>1, <2>2, TypesKept
<1>8. ASSUME NEW r \in Refreshers, TakeBlurbBudget(r) PROVE SummaryTypeOK'
  <2>1. PICK u : Becomes(r, u)
    BY <1>0, <1>8, GoesShape, WithoutShape DEF TakeBlurbBudget
  <2>2. blurbDay' \in Days \union {-1} /\ blurbCalls' \in Nat
    BY <1>0, <1>8 DEF TakeBlurbBudget, TasksOK, Refresh
  <2> QED
    BY <1>0, <1>0a, <1>8, <2>1, <2>2, TypesKept DEF TakeBlurbBudget
<1>9. ASSUME NEW r \in Refreshers, TakeMonthlyBudget(r) PROVE SummaryTypeOK'
  <2>1. PICK u : Becomes(r, u)
    BY <1>0, <1>9, GoesShape DEF TakeMonthlyBudget
  <2>2. faults' \in 0 .. MaxFaults
    BY <1>9, Faults DEF TakeMonthlyBudget
  <2>3. BudgetTypeOK'
    BY <1>0, <1>9, BudgetTypesKept DEF TakeMonthlyBudget
  <2> QED
    BY <1>0, <1>9, <2>1, <2>2, <2>3, TypesKept DEF TakeMonthlyBudget
<1>10. ASSUME NEW r \in Refreshers, GiveBackDaily(r) PROVE SummaryTypeOK'
  <2>1. PICK u : Becomes(r, u)
    BY <1>0, <1>10, WithoutShape DEF GiveBackDaily
  <2>2. blurbCalls' \in Nat
    BY <1>0, <1>10 DEF GiveBackDaily, Less
  <2> QED
    BY <1>0, <1>0a, <1>10, <2>1, <2>2, TypesKept DEF GiveBackDaily
<1>11. ASSUME NEW r \in Refreshers, Summarize(r) PROVE SummaryTypeOK'
  <2>1. PICK u : Becomes(r, u)
    BY <1>11, SummarizeShape
  <2>2. faults' \in 0 .. MaxFaults
    BY <1>11, Faults DEF Summarize
  <2>3. called' \in [Days -> Nat]
    <3>1. task[r].now \in Days
      BY <1>0 DEF TasksOK, Refresh
    <3>2. called' = [called EXCEPT ![task[r].now] = @ + 1]
      BY <1>11 DEF Summarize
    <3> QED
      BY <1>0, <3>1, <3>2
  <2>4. UNCHANGED <<budgetVars, day, world, current, trail, summary, todo, blurbDay, blurbCalls, crossed>>
    BY <1>11 DEF Summarize
  <2> QED
    BY <1>0, <1>0a, <2>1, <2>2, <2>3, <2>4, TypesKept
<1>12. ASSUME NEW r \in Refreshers, RefundMonthly(r) PROVE SummaryTypeOK'
  <2>1. PICK u : Becomes(r, u)
    BY <1>0, <1>12, WithoutShape DEF RefundMonthly
  <2>2. faults' \in 0 .. MaxFaults
    BY <1>12, Faults DEF RefundMonthly
  <2>3. BudgetTypeOK'
    BY <1>0, <1>12, BudgetTypesKept DEF RefundMonthly
  <2> QED
    BY <1>0, <1>12, <2>1, <2>2, <2>3, TypesKept DEF RefundMonthly
<1>13. ASSUME NEW r \in Refreshers, SaveSummary(r) PROVE SummaryTypeOK'
  <2>1. PICK u : Becomes(r, u)
    BY <1>0, <1>13, ReturnsShape DEF SaveSummary
  <2>2. faults' \in 0 .. MaxFaults
    BY <1>13, Faults DEF SaveSummary
  <2>3. summary' \in [Sites -> Saved]
    BY <1>13, TypesOfState, SaveShape
  <2> QED
    BY <1>0, <1>0a, <1>13, <2>1, <2>2, <2>3, TypesKept DEF SaveSummary
<1>14. CASE NextDay
  <2>1. day' \in Days
    BY <1>0, <1>14, SummaryAssumption DEF NextDay, Days
  <2>2. \A r \in Refreshers : task[r].now \in Days
    BY <1>0 DEF TasksOK, Refresh
  <2>3. crossed' \in SUBSET Days
    <3> DEFINE of == {task[r].now : r \in {q \in Refreshers : Counting(q)}}
    <3>1. of \subseteq Days
      BY <2>2
    <3>2. crossed' = crossed \union of \union {day'} \/ crossed' = crossed
      BY <1>14 DEF NextDay
    <3> HIDE DEF of
    <3> QED
      BY <2>1, <3>1, <3>2 DEF SummaryTypeOK
  <2> QED
    BY <1>0a, <1>14, <2>1, <2>3 DEF SummaryTypeOK, NextDay
<1>15. CASE UNCHANGED summaryVars
  BY <1>0a, <1>15 DEF SummaryTypeOK, summaryVars
<1> QED
  BY <1>1, <1>2, <1>2a, <1>3, <1>4, <1>5, <1>6, <1>7, <1>8, <1>9, <1>10, <1>11, <1>12, <1>13, <1>14, <1>15
     DEF SummaryNext, RefreshStep

-----------------------------------------------------------------------------
(* What is in hand is good.                                                *)

LEMMA GoodKept ==
    ASSUME SummaryTypeOK, GoodInv, NEW r \in Refreshers, NEW u, Becomes(r, u), GoodTask(u), UNCHANGED summary
    PROVE  GoodInv'
<1>1. \A q \in Refreshers : GoodTask(task'[q])
  BY TypesOfState, TaskWritten DEF GoodInv
<1> QED
  BY <1>1 DEF GoodInv, GoodTask, Good

LEMMA GoodQuiet ==
    ASSUME GoodInv, UNCHANGED <<task, summary>>
    PROVE  GoodInv'
BY DEF GoodInv, GoodTask, Good

LEMMA GoodStep ==
    ASSUME SummaryTypeOK, GoodInv, [SummaryNext]_summaryVars
    PROVE  GoodInv'
<1>0. /\ TasksOK /\ loop \in Refreshers /\ Workers \subseteq Refreshers /\ day \in Days
      /\ \A r \in Refreshers : GoodTask(task[r])
      /\ \A s \in Sites : Good(summary[s]) /\ (~Enabled => summary[s].blurb = NoBlurb)
  BY TypesOfState DEF Refreshers, GoodInv
<1>1. ASSUME NEW w \in Workers, NEW s \in Sites, Transition(w, s) PROVE GoodInv'
  <2>1. PICK u : Becomes(w, u) /\ u.stage = "stats"
    BY <1>0, <1>1, BeginShape DEF Transition
  <2>2. GoodTask(u)
    BY <2>1 DEF GoodTask, Paying
  <2> QED
    BY <1>0, <1>1, <2>1, <2>2, GoodKept DEF Transition
<1>2. ASSUME NEW s \in Sites, Drift(s) \/ Backfilled(s) PROVE GoodInv'
  BY <1>2, GoodQuiet DEF Drift, Backfilled
<1>3. CASE StartRound
  BY <1>3, GoodQuiet DEF StartRound
<1>4. ASSUME NEW s \in Sites, NextService(s) PROVE GoodInv'
  <2>1. PICK u : Becomes(loop, u) /\ u.stage = "stats"
    BY <1>0, <1>4, BeginShape DEF NextService
  <2>2. GoodTask(u)
    BY <2>1 DEF GoodTask, Paying
  <2> QED
    BY <1>0, <1>4, <2>1, <2>2, GoodKept DEF NextService
<1>5. ASSUME NEW r \in Refreshers, ReadStats(r) PROVE GoodInv'
  <2>1. PICK u : Becomes(r, u) /\ u.stage \in {"prev", "idle", "done"}
    BY <1>5, StatsShape
  <2>2. GoodTask(u)
    BY <2>1 DEF GoodTask, Paying
  <2> QED
    BY <1>5, <2>1, <2>2, GoodKept DEF ReadStats
<1>6. ASSUME NEW r \in Refreshers, ReadPrevious(r) PROVE GoodInv'
  <2>1. PICK u : /\ Becomes(r, u)
                 /\ \/ /\ u.stage = "status"
                       /\ \E s \in Sites : u.prev = summary[s]
                       /\ u.out.blurb = u.prev.blurb /\ u.out.withheld = u.prev.withheld
                    \/ u.stage \in {"idle", "done"}
    BY <1>6, PreviousShape
  <2>2. GoodTask(u)
    BY <1>0, <2>1 DEF GoodTask, Paying
  <2>3. UNCHANGED summary
    BY <1>6 DEF ReadPrevious
  <2> QED
    BY <2>1, <2>2, <2>3, GoodKept
<1>7. ASSUME NEW r \in Refreshers, ReadStatus(r) PROVE GoodInv'
  <2>1. PICK u : /\ Becomes(r, u) /\ u.prev = task[r].prev
                 /\ u.out.blurb = task[r].out.blurb /\ u.out.withheld = task[r].out.withheld
                 /\ \/ Enabled /\ u.stage = "daily"
                    \/ u.stage = "save" /\ (~Enabled \/ ~Stale(u.prev, u.out.card))
    BY <1>7, StatusShape
  <2>2. task[r].stage = "status" /\ UNCHANGED summary
    BY <1>7 DEF ReadStatus, At
  <2>3. /\ Good(u.prev) /\ u.out.blurb = u.prev.blurb /\ u.out.withheld = u.prev.withheld
        /\ ~Enabled => u.out.blurb = NoBlurb
    BY <1>0, <2>1, <2>2 DEF GoodTask
  <2>4. u.stage = "save" => Good(u.out)
    BY <2>1, <2>3 DEF Good, Stale
  <2>5. GoodTask(u)
    BY <2>1, <2>3, <2>4 DEF GoodTask, Paying
  <2> QED
    BY <2>1, <2>2, <2>5, GoodKept
<1>8. ASSUME NEW r \in Refreshers, task[r].stage \in Paying, UNCHANGED summary,
             NEW u, Becomes(r, u), u.stage \in Paying \/ (u.stage = "save" /\ Good(u.out))
      PROVE  GoodInv'
  <2>1. Enabled
    BY <1>0, <1>8 DEF GoodTask
  <2>2. GoodTask(u)
    BY <1>8, <2>1 DEF GoodTask, Paying
  <2> QED
    BY <1>8, <2>2, GoodKept
<1>9. ASSUME NEW r \in Refreshers, GoesWithout(r), task[r].stage \in Paying, UNCHANGED summary
      PROVE  GoodInv'
  <2>1. PICK u : Becomes(r, u) /\ u.stage = "save" /\ u.out.withheld
    BY <1>0, <1>9, WithoutShape
  <2>2. Good(u.out)
    BY <2>1 DEF Good
  <2> QED
    BY <1>8, <1>9, <2>1, <2>2
<1>10. ASSUME NEW r \in Refreshers, TakeBlurbBudget(r) PROVE GoodInv'
  <2>1. task[r].stage \in Paying /\ UNCHANGED summary
    BY <1>10 DEF TakeBlurbBudget, At, Paying
  <2>2. CASE Goes(r, "monthly")
    <3>1. PICK u : Becomes(r, u) /\ u.stage = "monthly"
      BY <1>0, <2>2, GoesShape
    <3> QED
      BY <1>8, <2>1, <3>1 DEF Paying
  <2>3. CASE GoesWithout(r)
    BY <1>9, <2>1, <2>3
  <2> QED
    BY <1>10, <2>2, <2>3 DEF TakeBlurbBudget
<1>11. ASSUME NEW r \in Refreshers, TakeMonthlyBudget(r) PROVE GoodInv'
  <2>1. task[r].stage \in Paying /\ UNCHANGED summary
    BY <1>11 DEF TakeMonthlyBudget, At, Paying
  <2>2. PICK u : Becomes(r, u) /\ u.stage \in {"call", "giveback"}
    BY <1>0, <1>11, GoesShape DEF TakeMonthlyBudget
  <2> QED
    BY <1>8, <2>1, <2>2 DEF Paying
<1>12. ASSUME NEW r \in Refreshers, GiveBackDaily(r) PROVE GoodInv'
  BY <1>9, <1>12 DEF GiveBackDaily, At, Paying
<1>13. ASSUME NEW r \in Refreshers, Summarize(r) PROVE GoodInv'
  <2>1. task[r].stage \in Paying /\ UNCHANGED summary
    BY <1>13 DEF Summarize, At, Paying
  <2>2. PICK u : Becomes(r, u) /\ ((u.stage = "save" /\ Good(u.out)) \/ u.stage = "refund")
    BY <1>13, SummarizeShape
  <2> QED
    BY <1>8, <2>1, <2>2 DEF Paying
<1>14. ASSUME NEW r \in Refreshers, RefundMonthly(r) PROVE GoodInv'
  BY <1>9, <1>14 DEF RefundMonthly, At, Paying
<1>15. ASSUME NEW r \in Refreshers, SaveSummary(r) PROVE GoodInv'
  <2>1. PICK u : Becomes(r, u) /\ u.stage \in {"idle", "done"}
    BY <1>0, <1>15, ReturnsShape DEF SaveSummary
  <2>2. GoodTask(u)
    BY <2>1 DEF GoodTask, Paying
  <2>3. \A q \in Refreshers : GoodTask(task'[q])
    BY <1>0, <2>1, <2>2, TaskWritten
  <2>4. Good(task[r].out) /\ (~Enabled => task[r].out.blurb = NoBlurb)
    BY <1>0, <1>15 DEF SaveSummary, At, GoodTask
  <2>5. \A s \in Sites : Good(summary'[s]) /\ (~Enabled => summary'[s].blurb = NoBlurb)
    <3> TAKE s \in Sites
    <3>1. CASE summary'[s] = summary[s]
      BY <1>0, <3>1
    <3>2. CASE /\ summary'[s].card = task[r].out.card /\ summary'[s].blurb = task[r].out.blurb
               /\ summary'[s].withheld = task[r].out.withheld
      BY <2>4, <3>2 DEF Good
    <3> QED
      BY <1>0, <1>15, <3>1, <3>2, SaveShape
  <2> QED
    BY <2>3, <2>5 DEF GoodInv, GoodTask, Good
<1>16. CASE NextDay
  BY <1>16, GoodQuiet DEF NextDay
<1>17. CASE UNCHANGED summaryVars
  BY <1>17, GoodQuiet DEF summaryVars
<1> QED
  BY <1>1, <1>2, <1>3, <1>4, <1>5, <1>6, <1>7, <1>10, <1>11, <1>12, <1>13, <1>14, <1>15, <1>16, <1>17
     DEF SummaryNext, RefreshStep

-----------------------------------------------------------------------------
(* The units of a day.                                                     *)

LEMMA HeldKept ==
    ASSUME TasksOK, NEW r \in Refreshers, NEW u, Becomes(r, u),
           \A d \in Days : Holds(u, d) <=> Holds(task[r], d)
    PROVE  \A d \in Days : Held(d)' = Held(d)
<1>1. task'[r] = u /\ \A q \in Refreshers : q # r => task'[q] = task[q]
  BY TaskWritten
<1>2. \A d \in Days : \A q \in Refreshers : Holds(task'[q], d) <=> Holds(task[q], d)
  BY <1>1
<1> QED
  BY <1>2 DEF Held, Holds

LEMMA HeldQuiet ==
    ASSUME UNCHANGED task
    PROVE  \A d \in Days : Held(d)' = Held(d)
BY DEF Held, Holds

LEMMA HeldMore ==
    ASSUME TasksOK, NEW r \in Refreshers, NEW u, Becomes(r, u), NEW d \in Days,
           Holds(u, d), ~Holds(task[r], d), IsFiniteSet(Held(d))
    PROVE  /\ IsFiniteSet(Held(d)') /\ Cardinality(Held(d)) \in Nat
           /\ Cardinality(Held(d)') = Cardinality(Held(d)) + 1
<1>1. task'[r] = u /\ \A q \in Refreshers : q # r => task'[q] = task[q]
  BY TaskWritten
<1>2. r \notin Held(d) /\ Held(d)' = Held(d) \union {r}
  BY <1>1 DEF Held, Holds
<1> QED
  BY <1>2, FS_AddElement, FS_CardinalityType

LEMMA HeldLess ==
    ASSUME TasksOK, NEW r \in Refreshers, NEW u, Becomes(r, u), NEW d \in Days,
           ~Holds(u, d), Holds(task[r], d), IsFiniteSet(Held(d))
    PROVE  /\ IsFiniteSet(Held(d)') /\ Cardinality(Held(d)) \in Nat \ {0}
           /\ Cardinality(Held(d)') = Cardinality(Held(d)) - 1
<1>1. task'[r] = u /\ \A q \in Refreshers : q # r => task'[q] = task[q]
  BY TaskWritten
<1>2. r \in Held(d) /\ Held(d)' = Held(d) \ {r}
  BY <1>1 DEF Held, Holds
<1>3. Cardinality(Held(d)) \in Nat /\ IsFiniteSet(Held(d)') /\ Cardinality(Held(d)') \in Nat
      /\ Cardinality(Held(d)') = Cardinality(Held(d)) - 1
  BY <1>2, FS_RemoveElement, FS_CardinalityType
<1> QED
  BY <1>3

LEMMA SpentTyped ==
    ASSUME SummaryTypeOK, BudgetInv
    PROVE  \A d \in Days : /\ IsFiniteSet(Held(d)) /\ Cardinality(Held(d)) \in Nat
                           /\ called[d] \in Nat /\ Spent(d) \in Nat
<1>1. \A d \in Days : IsFiniteSet(Held(d)) /\ called[d] \in Nat
  BY TypesOfState DEF BudgetInv
<1>2. \A d \in Days : Cardinality(Held(d)) \in Nat
  BY <1>1, FS_CardinalityType
<1> QED
  BY <1>1, <1>2 DEF Spent

\* A step of the refresh that neither takes a unit nor gives one back.
LEMMA BudgetKept ==
    ASSUME SummaryTypeOK, BudgetInv, NEW r \in Refreshers, NEW u, Becomes(r, u), u.now <= day,
           \A d \in Days : Holds(u, d) <=> Holds(task[r], d),
           Counts(u) => u.now = day \/ (Counts(task[r]) /\ u.now = task[r].now),
           UNCHANGED <<day, blurbDay, blurbCalls, called, crossed>>
    PROVE  BudgetInv'
<1>1. TasksOK /\ task'[r] = u /\ \A q \in Refreshers : q # r => task'[q] = task[q]
  BY TypesOfState, TaskWritten
<1>2. \A d \in Days : Held(d)' = Held(d)
  BY <1>1, HeldKept
<1>3. \A d \in Days : Spent(d)' = Spent(d)
  BY <1>2 DEF Spent
<1>4. \A q \in Refreshers : task'[q].now <= day
  BY <1>1 DEF BudgetInv
<1>5. \A q \in Refreshers : Counts(task'[q]) => OfToday(task'[q])
  BY <1>1 DEF BudgetInv, OfToday
<1> QED
  BY <1>2, <1>3, <1>4, <1>5 DEF BudgetInv, Counts, OfToday

LEMMA BudgetQuiet ==
    ASSUME BudgetInv, UNCHANGED <<task, day, blurbDay, blurbCalls, called, crossed>>
    PROVE  BudgetInv'
<1>1. \A d \in Days : Held(d)' = Held(d)
  BY HeldQuiet
<1>2. \A d \in Days : Spent(d)' = Spent(d)
  BY <1>1 DEF Spent
<1> QED
  BY <1>1, <1>2 DEF BudgetInv, Counts, OfToday

\* The facts every step of a refresh gives for the tasks.
LEMMA TasksKept ==
    ASSUME SummaryTypeOK, BudgetInv, NEW r \in Refreshers, NEW u, Becomes(r, u),
           u.now = task[r].now, Counts(u) => Counts(task[r]), UNCHANGED <<day, crossed>>
    PROVE  /\ \A q \in Refreshers : task'[q].now <= day
           /\ \A q \in Refreshers : (Counts(task[q]) => OfToday(task[q]))'
<1>1. TasksOK /\ task'[r] = u /\ \A q \in Refreshers : q # r => task'[q] = task[q]
  BY TypesOfState, TaskWritten
<1>2. \A q \in Refreshers : task'[q].now <= day
  BY <1>1 DEF BudgetInv
<1>3. \A q \in Refreshers : Counts(task'[q]) => OfToday(task'[q])
  BY <1>1 DEF BudgetInv, OfToday
<1> QED
  BY <1>2, <1>3 DEF Counts, OfToday

\* takeBlurbBudget.
LEMMA TakeKeepsBudget ==
    ASSUME SummaryTypeOK, BudgetInv, NEW r \in Refreshers, TakeBlurbBudget(r)
    PROVE  BudgetInv'
<1> DEFINE n == task[r].now
           used == IF blurbDay = n THEN blurbCalls ELSE 0
<1>0. /\ TasksOK /\ n \in Days /\ n \in Nat /\ day \in Nat /\ blurbCalls \in Nat /\ DailyBudget \in Nat
      /\ \A d \in Days : d \in Nat
  BY TypesOfState, Types DEF TasksOK, Refresh
<1>1. Counts(task[r]) /\ (\A d \in Days : ~Holds(task[r], d)) /\ n <= day /\ OfToday(task[r])
  BY DEF TakeBlurbBudget, At, Counts, Holds, BudgetInv
<1>2. blurbDay' = n /\ UNCHANGED <<day, called, crossed>>
  BY DEF TakeBlurbBudget
<1>3. n = day \/ (n \in crossed /\ day \in crossed)
  BY <1>1 DEF OfToday
<1>4. CASE used < DailyBudget /\ blurbCalls' = used + 1 /\ Goes(r, "monthly")
  <2>1. PICK u : Becomes(r, u) /\ u.stage = "monthly" /\ u.now = n
    BY <1>0, <1>4, GoesShape
  <2>2. /\ \A q \in Refreshers : task'[q].now <= day
        /\ \A q \in Refreshers : (Counts(task[q]) => OfToday(task[q]))'
    BY <1>1, <1>2, <2>1, TasksKept
  <2>3. \A d \in Days : IsFiniteSet(Held(d)')
                        /\ Spent(d)' = (IF d = n THEN Spent(d) + 1 ELSE Spent(d))
    <3> TAKE d \in Days
    <3>0. IsFiniteSet(Held(d)) /\ Cardinality(Held(d)) \in Nat /\ called[d] \in Nat
      BY SpentTyped
    <3>1. CASE d = n
      <4>1. Holds(u, d) /\ ~Holds(task[r], d)
        BY <1>1, <2>1, <3>1 DEF Holds
      <4>2. IsFiniteSet(Held(d)') /\ Cardinality(Held(d)') = Cardinality(Held(d)) + 1
        BY <1>0, <2>1, <3>0, <4>1, HeldMore
      <4> HIDE DEF n
      <4> QED
        BY <1>2, <3>0, <3>1, <4>2 DEF Spent
    <3>2. CASE d # n
      <4>1. Held(d)' = Held(d)
        <5>1. task'[r] = u /\ \A q \in Refreshers : q # r => task'[q] = task[q]
          BY <1>0, <2>1, TaskWritten
        <5> QED
          BY <1>1, <2>1, <3>2, <5>1 DEF Held, Holds
      <4> HIDE DEF n
      <4> QED
        BY <1>2, <3>0, <3>2, <4>1 DEF Spent
    <3> QED
      BY <3>1, <3>2
  <2>4. \A d \in Days \ crossed : d = n =>
          /\ d = day /\ Spent(d)' <= DailyBudget /\ Spent(d)' <= blurbCalls' /\ blurbCalls' <= DailyBudget
    <3> TAKE d \in Days \ crossed
    <3> HAVE d = n
    <3>1. d = day /\ Spent(d) \in Nat /\ Spent(d) <= used
      BY <1>0, <1>3, SpentTyped DEF BudgetInv
    <3>2. Spent(d)' = Spent(d) + 1
      BY <2>3
    <3>3. used \in Nat
      BY <1>0
    <3> HIDE DEF used, n
    <3> QED
      BY <1>0, <1>4, <3>1, <3>2, <3>3
  <2>5. \A d \in Days \ crossed : Spent(d)' <= DailyBudget
    <3> TAKE d \in Days \ crossed
    <3>1. CASE d = n
      BY <2>4, <3>1
    <3>2. CASE d # n
      BY <2>3, <3>2 DEF BudgetInv
    <3> QED
      BY <3>1, <3>2
  <2>6. \A d \in Days : d = day /\ d \notin crossed =>
          blurbDay' = d /\ Spent(d)' <= blurbCalls' /\ blurbCalls' <= DailyBudget
    BY <1>2, <1>3, <2>4
  <2> HIDE DEF n, used
  <2> QED
    BY <1>1, <1>2, <2>2, <2>3, <2>5, <2>6 DEF BudgetInv
<1>5. CASE ~(used < DailyBudget) /\ blurbCalls' = used /\ GoesWithout(r)
  <2>1. PICK u : Becomes(r, u) /\ u.stage = "save" /\ u.now = n
    BY <1>0, <1>5, WithoutShape
  <2>2. /\ \A q \in Refreshers : task'[q].now <= day
        /\ \A q \in Refreshers : (Counts(task[q]) => OfToday(task[q]))'
    BY <1>1, <1>2, <2>1, TasksKept
  <2>3. \A d \in Days : Held(d)' = Held(d)
    <3>1. \A d \in Days : Holds(u, d) <=> Holds(task[r], d)
      BY <1>1, <2>1 DEF Holds
    <3> QED
      BY <1>0, <2>1, <3>1, HeldKept
  <2>4. \A d \in Days : Spent(d)' = Spent(d)
    BY <1>2, <2>3 DEF Spent
  <2>5. \A d \in Days : d = day /\ d \notin crossed =>
          blurbDay' = d /\ Spent(d)' <= blurbCalls' /\ blurbCalls' <= DailyBudget
    <3> TAKE d \in Days
    <3> HAVE d = day /\ d \notin crossed
    <3>1. n = d
      BY <1>3
    <3>2. Spent(d) <= used /\ used <= DailyBudget
      BY <1>0, <3>1 DEF BudgetInv
    <3> QED
      BY <1>2, <1>5, <2>4, <3>1, <3>2
  <2> HIDE DEF n, used
  <2> QED
    BY <1>1, <1>2, <2>2, <2>3, <2>4, <2>5 DEF BudgetInv
<1> QED
  BY <1>4, <1>5 DEF TakeBlurbBudget, Allowed

\* refundBlurbBudget.
LEMMA GiveBackKeepsBudget ==
    ASSUME SummaryTypeOK, BudgetInv, NEW r \in Refreshers, GiveBackDaily(r)
    PROVE  BudgetInv'
<1> DEFINE n == task[r].now
<1>0. /\ TasksOK /\ n \in Days /\ blurbCalls \in Nat /\ DailyBudget \in Nat
      /\ UNCHANGED <<day, called, crossed, blurbDay>> /\ blurbCalls' = Less(blurbCalls)
  BY TypesOfState, Types DEF TasksOK, Refresh, GiveBackDaily
<1>1. Counts(task[r]) /\ (\A d \in Days : Holds(task[r], d) <=> n = d)
  BY DEF GiveBackDaily, At, Counts, Holds
<1>2. n = day \/ (n \in crossed /\ day \in crossed)
  BY <1>1 DEF OfToday, BudgetInv
<1>3. PICK u : Becomes(r, u) /\ u.stage = "save" /\ u.now = n
  BY <1>0, WithoutShape DEF GiveBackDaily
<1>4. /\ \A q \in Refreshers : task'[q].now <= day
      /\ \A q \in Refreshers : (Counts(task[q]) => OfToday(task[q]))'
  BY <1>0, <1>1, <1>3, TasksKept
<1>5. \A d \in Days : IsFiniteSet(Held(d)')
                      /\ Spent(d)' = (IF d = n THEN Spent(d) - 1 ELSE Spent(d))
                      /\ (d = n => Spent(d) > 0)
  <2> TAKE d \in Days
  <2>0. IsFiniteSet(Held(d)) /\ Cardinality(Held(d)) \in Nat /\ called[d] \in Nat
    BY SpentTyped
  <2>1. CASE d = n
    <3>1. ~Holds(u, d) /\ Holds(task[r], d)
      BY <1>1, <1>3, <2>1 DEF Holds
    <3>2. IsFiniteSet(Held(d)') /\ Cardinality(Held(d)') = Cardinality(Held(d)) - 1
          /\ Cardinality(Held(d)) \in Nat \ {0}
      BY <1>0, <1>3, <2>0, <3>1, HeldLess
    <3> HIDE DEF n
    <3> QED
      BY <1>0, <2>0, <2>1, <3>2 DEF Spent
  <2>2. CASE d # n
    <3>1. Held(d)' = Held(d)
      <4>1. task'[r] = u /\ \A q \in Refreshers : q # r => task'[q] = task[q]
        BY <1>0, <1>3, TaskWritten
      <4> QED
        BY <1>1, <1>3, <2>2, <4>1 DEF Held, Holds
    <3> HIDE DEF n
    <3> QED
      BY <1>0, <2>0, <2>2, <3>1 DEF Spent
  <2> QED
    BY <2>1, <2>2
<1>6. \A d \in Days \ crossed : Spent(d)' <= DailyBudget
  <2> TAKE d \in Days \ crossed
  <2>1. Spent(d) \in Nat /\ Spent(d) <= DailyBudget /\ (Spent(d)' = Spent(d) - 1 \/ Spent(d)' = Spent(d))
    BY <1>5, SpentTyped DEF BudgetInv
  <2> QED
    BY <1>0, <2>1
<1>7. \A d \in Days : d = day /\ d \notin crossed =>
        blurbDay = d /\ Spent(d)' <= blurbCalls' /\ blurbCalls' <= DailyBudget
  <2> TAKE d \in Days
  <2> HAVE d = day /\ d \notin crossed
  <2>1. d = n
    BY <1>2
  <2>2. Spent(d) \in Nat /\ Spent(d) > 0 /\ Spent(d)' = Spent(d) - 1
    BY <1>5, <2>1, SpentTyped
  <2>3. blurbDay = d /\ Spent(d) <= blurbCalls /\ blurbCalls <= DailyBudget
    BY <2>2 DEF BudgetInv
  <2> QED
    BY <1>0, <2>2, <2>3 DEF Less
<1> HIDE DEF n
<1> QED
  BY <1>0, <1>4, <1>5, <1>6, <1>7 DEF BudgetInv

\* Summarize: the unit in hand becomes a call.
LEMMA SummarizeKeepsBudget ==
    ASSUME SummaryTypeOK, BudgetInv, NEW r \in Refreshers, Summarize(r)
    PROVE  BudgetInv'
<1> DEFINE n == task[r].now
<1>0. /\ TasksOK /\ n \in Days /\ n \in Nat /\ day \in Nat /\ called \in [Days -> Nat]
      /\ UNCHANGED <<day, crossed, blurbDay, blurbCalls>> /\ called' = [called EXCEPT ![n] = @ + 1]
      /\ \A d \in Days : d \in Nat
  BY TypesOfState DEF TasksOK, Refresh, Summarize
<1>1. (\A d \in Days : Holds(task[r], d) <=> n = d) /\ n <= day
  BY DEF Summarize, At, Holds, BudgetInv
<1>3. PICK u : Becomes(r, u) /\ u.stage \in {"save", "refund"} /\ u.now = n
  BY <1>0, SummarizeShape
<1>4. /\ \A q \in Refreshers : task'[q].now <= day
      /\ \A q \in Refreshers : (Counts(task[q]) => OfToday(task[q]))'
  BY <1>0, <1>3, TasksKept DEF Counts
<1>5. \A d \in Days : IsFiniteSet(Held(d)') /\ Spent(d)' = Spent(d)
  <2> TAKE d \in Days
  <2>0. IsFiniteSet(Held(d)) /\ Cardinality(Held(d)) \in Nat /\ called[d] \in Nat
    BY SpentTyped
  <2>1. CASE d = n
    <3>1. ~Holds(u, d) /\ Holds(task[r], d)
      BY <1>1, <1>3, <2>1 DEF Holds
    <3>2. IsFiniteSet(Held(d)') /\ Cardinality(Held(d)') = Cardinality(Held(d)) - 1
          /\ Cardinality(Held(d)) \in Nat \ {0}
      BY <1>0, <1>3, <2>0, <3>1, HeldLess
    <3>3. called'[d] = called[d] + 1
      BY <1>0, <2>1
    <3> HIDE DEF n
    <3> QED
      BY <2>0, <3>2, <3>3 DEF Spent
  <2>2. CASE d # n
    <3>1. Held(d)' = Held(d)
      <4>1. task'[r] = u /\ \A q \in Refreshers : q # r => task'[q] = task[q]
        BY <1>0, <1>3, TaskWritten
      <4> QED
        BY <1>1, <1>3, <2>2, <4>1 DEF Held, Holds
    <3>2. called'[d] = called[d]
      BY <1>0, <2>2
    <3> HIDE DEF n
    <3> QED
      BY <2>0, <3>1, <3>2 DEF Spent
  <2> QED
    BY <2>1, <2>2
<1>6. \A d \in Days : d > day => called'[d] = 0
  BY <1>0, <1>1 DEF BudgetInv
<1> HIDE DEF n
<1> QED
  BY <1>0, <1>4, <1>5, <1>6 DEF BudgetInv

\* Midnight.
LEMMA MidnightKeepsBudget ==
    ASSUME SummaryTypeOK, BudgetInv, NextDay
    PROVE  BudgetInv'
<1>0. /\ TasksOK /\ day \in Nat /\ DailyBudget \in Nat /\ blurbDay \in Int /\ blurbDay <= day
      /\ day' = day + 1 /\ UNCHANGED <<task, blurbDay, blurbCalls, called>>
      /\ \A r \in Refreshers : task[r].now \in Nat /\ task[r].now <= day
  BY TypesOfState, Types DEF NextDay, BudgetInv, TasksOK, Refresh
<1>1. \A d \in Days : Held(d)' = Held(d)
  BY <1>0, HeldQuiet
<1>2. \A d \in Days : Spent(d)' = Spent(d)
  BY <1>0, <1>1 DEF Spent
<1>3. crossed \subseteq crossed'
  BY DEF NextDay
<1>4. \A d \in Days \ crossed' : Spent(d)' <= DailyBudget
  BY <1>2, <1>3 DEF BudgetInv
<1>5. \A d \in Days : d = day' => Spent(d) = 0
  <2> TAKE d \in Days
  <2> HAVE d = day'
  <2>1. d = day + 1
    BY <1>0
  <2>2. called[d] = 0
    BY <1>0, <2>1 DEF BudgetInv
  <2>3. \A r \in Refreshers : task[r].now # d
    BY <1>0, <2>1
  <2>4. Held(d) = {}
    BY <2>3 DEF Held, Holds
  <2>5. Cardinality(Held(d)) = 0
    BY <2>4, FS_EmptySet
  <2> QED
    BY <2>2, <2>5 DEF Spent
<1>6. blurbDay # day' /\ blurbDay <= day' /\ \A r \in Refreshers : task'[r].now <= day'
  BY <1>0
<1>7. \A r \in Refreshers : Counts(task'[r]) => task'[r].now \in crossed' /\ day' \in crossed'
  <2> TAKE r \in Refreshers
  <2> HAVE Counts(task'[r])
  <2>1. Counting(r) /\ task'[r] = task[r]
    BY <1>0 DEF Counts, Counting
  <2>2. crossed' = crossed \union {task[q].now : q \in {p \in Refreshers : Counting(p)}} \union {day'}
    BY <2>1 DEF NextDay
  <2>3. task[r].now \in {task[q].now : q \in {p \in Refreshers : Counting(p)}}
    BY <2>1
  <2> QED
    BY <2>1, <2>2, <2>3
<1>8. \A d \in Days : d > day' => called'[d] = 0
  BY <1>0, TypesOfState DEF BudgetInv
<1>9. \A r \in Refreshers : (Counts(task[r]) => OfToday(task[r]))'
  BY <1>7 DEF Counts, OfToday
<1>10. \A d \in Days : IsFiniteSet(Held(d)')
  BY <1>1 DEF BudgetInv
<1>11. \A d \in Days : d = day' /\ d \notin crossed' => blurbDay' # d /\ Spent(d)' = 0
  BY <1>0, <1>2, <1>5, <1>6
<1> QED
  BY <1>0, <1>4, <1>6, <1>8, <1>9, <1>10, <1>11 DEF BudgetInv

LEMMA BudgetStep ==
    ASSUME SummaryTypeOK, BudgetInv, [SummaryNext]_summaryVars
    PROVE  BudgetInv'
<1>0. /\ TasksOK /\ loop \in Refreshers /\ Workers \subseteq Refreshers /\ day \in Days /\ day \in Nat
      /\ \A r \in Refreshers : task[r].now <= day
  BY TypesOfState DEF Refreshers, BudgetInv
<1>1. ASSUME NEW r \in Refreshers, NEW s \in Sites, Begin(r, s), task[r].stage = "idle",
             UNCHANGED <<day, blurbDay, blurbCalls, called, crossed>>
      PROVE  BudgetInv'
  <2>1. PICK u : Becomes(r, u) /\ u.stage = "stats" /\ u.now = day
    BY <1>0, <1>1, BeginShape
  <2>2. \A d \in Days : Holds(u, d) <=> Holds(task[r], d)
    BY <1>1, <2>1 DEF Holds
  <2>3. u.now <= day
    BY <1>0, <2>1
  <2> QED
    BY <1>1, <2>1, <2>2, <2>3, BudgetKept
<1>2. ASSUME NEW r \in Refreshers, NEW u, Becomes(r, u),
             u.now = task[r].now \/ u.now = 0, Counts(u) => u.now = task[r].now /\ Counts(task[r]),
             \A d \in Days : Holds(u, d) <=> Holds(task[r], d),
             UNCHANGED <<day, blurbDay, blurbCalls, called, crossed>>
      PROVE  BudgetInv'
  <2>1. u.now <= day
    BY <1>0, <1>2
  <2> QED
    BY <1>2, <2>1, BudgetKept
<1>3. ASSUME NEW w \in Workers, NEW s \in Sites, Transition(w, s) PROVE BudgetInv'
  BY <1>0, <1>1, <1>3 DEF Transition
<1>4. ASSUME NEW s \in Sites, Drift(s) \/ Backfilled(s) PROVE BudgetInv'
  BY <1>4, BudgetQuiet DEF Drift, Backfilled
<1>5. CASE StartRound
  BY <1>5, BudgetQuiet DEF StartRound
<1>6. ASSUME NEW s \in Sites, NextService(s) PROVE BudgetInv'
  BY <1>0, <1>1, <1>6 DEF NextService
<1>7. ASSUME NEW r \in Refreshers, ReadStats(r) PROVE BudgetInv'
  <2>1. PICK u : /\ Becomes(r, u)
                 /\ (u.stage = "prev" /\ u.now = task[r].now) \/ (u.stage \in {"idle", "done"} /\ u.now = 0)
    BY <1>7, StatsShape
  <2>2. task[r].stage = "stats" /\ UNCHANGED <<day, blurbDay, blurbCalls, called, crossed>>
    BY <1>7 DEF ReadStats, At
  <2> QED
    BY <1>2, <2>1, <2>2 DEF Counts, Holds
<1>8. ASSUME NEW r \in Refreshers, ReadPrevious(r) PROVE BudgetInv'
  <2>1. PICK u : /\ Becomes(r, u)
                 /\ (u.stage = "status" /\ u.now = task[r].now) \/ (u.stage \in {"idle", "done"} /\ u.now = 0)
    BY <1>8, PreviousShape
  <2>2. task[r].stage = "prev" /\ UNCHANGED <<day, blurbDay, blurbCalls, called, crossed>>
    BY <1>8 DEF ReadPrevious, At
  <2> QED
    BY <1>2, <2>1, <2>2 DEF Counts, Holds
<1>9. ASSUME NEW r \in Refreshers, ReadStatus(r) PROVE BudgetInv'
  <2>1. PICK u : Becomes(r, u) /\ u.now = task[r].now /\ u.stage \in {"daily", "save"}
    BY <1>9, StatusShape
  <2>2. task[r].stage = "status" /\ UNCHANGED <<day, blurbDay, blurbCalls, called, crossed>>
    BY <1>9 DEF ReadStatus, At
  <2> QED
    BY <1>2, <2>1, <2>2 DEF Counts, Holds
<1>10. ASSUME NEW r \in Refreshers, TakeMonthlyBudget(r) PROVE BudgetInv'
  <2>1. PICK u : Becomes(r, u) /\ u.now = task[r].now /\ u.stage \in {"call", "giveback"}
    BY <1>0, <1>10, GoesShape DEF TakeMonthlyBudget
  <2>2. task[r].stage = "monthly" /\ UNCHANGED <<day, blurbDay, blurbCalls, called, crossed>>
    BY <1>10 DEF TakeMonthlyBudget, At
  <2> QED
    BY <1>2, <2>1, <2>2 DEF Counts, Holds
<1>11. ASSUME NEW r \in Refreshers, RefundMonthly(r) PROVE BudgetInv'
  <2>1. PICK u : Becomes(r, u) /\ u.now = task[r].now /\ u.stage = "save"
    BY <1>0, <1>11, WithoutShape DEF RefundMonthly
  <2>2. task[r].stage = "refund" /\ UNCHANGED <<day, blurbDay, blurbCalls, called, crossed>>
    BY <1>11 DEF RefundMonthly, At
  <2> QED
    BY <1>2, <2>1, <2>2 DEF Counts, Holds
<1>12. ASSUME NEW r \in Refreshers, SaveSummary(r) PROVE BudgetInv'
  <2>1. PICK u : Becomes(r, u) /\ u.now = 0 /\ u.stage \in {"idle", "done"}
    BY <1>0, <1>12, ReturnsShape DEF SaveSummary
  <2>2. task[r].stage = "save" /\ UNCHANGED <<day, blurbDay, blurbCalls, called, crossed>>
    BY <1>12 DEF SaveSummary, At
  <2> QED
    BY <1>2, <2>1, <2>2 DEF Counts, Holds
<1>13. CASE UNCHANGED summaryVars
  BY <1>13, BudgetQuiet DEF summaryVars
<1> QED
  BY <1>3, <1>4, <1>5, <1>6, <1>7, <1>8, <1>9, <1>10, <1>11, <1>12, <1>13,
     TakeKeepsBudget, GiveBackKeepsBudget, SummarizeKeepsBudget, MidnightKeepsBudget
     DEF SummaryNext, RefreshStep

-----------------------------------------------------------------------------
(* The theorems.                                                           *)

LEMMA InitHolds ==
    ASSUME SummaryInit
    PROVE  SumInv
<1>1. /\ Idle \in Refresh /\ Idle.stage = "idle" /\ Idle.now = 0 /\ NoSummary \in Saved
      /\ DailyBudget \in Nat /\ MaxFaults \in Nat /\ 0 \in Days /\ 0 \in Worlds /\ 0 \in 0 .. MaxFaults
      /\ "unknown" \in Statuses
  BY Types, SummaryAssumption DEF Days, Worlds
<1>2. BudgetTypeOK
  BY BudgetAssumption DEF BudgetInit, BudgetTypeOK, Months, SummaryInit
<1>3. SummaryTypeOK
  BY <1>1, <1>2 DEF SummaryInit, SummaryTypeOK, Saved, Refresh
<1>4. NoSummary.blurb = NoBlurb
  BY DEF NoSummary
<1>5. GoodInv
  BY <1>1, <1>4 DEF SummaryInit, GoodInv, GoodTask, Good, Paying
<1>6. \A d \in Days : Held(d) = {}
  BY <1>1 DEF SummaryInit, Held, Holds
<1>7. \A d \in Days : IsFiniteSet(Held(d)) /\ Cardinality(Held(d)) = 0
  BY <1>6, FS_EmptySet
<1>8. \A d \in Days : called[d] = 0 /\ Spent(d) = 0
  BY <1>7 DEF SummaryInit, Spent
<1>9. \A r \in Refreshers : task[r].now = 0 /\ ~Counts(task[r])
  BY <1>1 DEF SummaryInit, Counts
<1>10. day = 0 /\ blurbDay = -1 /\ \A d \in Days : blurbDay # d
  BY SummaryAssumption DEF SummaryInit, Days
<1>11. BudgetInv
  BY <1>1, <1>7, <1>8, <1>9, <1>10 DEF BudgetInv
<1> QED
  BY <1>3, <1>5, <1>11 DEF SumInv

LEMMA SummaryInvariant == SummarySpec => []SumInv
<1>1. SumInv /\ [SummaryNext]_summaryVars => SumInv'
  BY TypeStep, GoodStep, BudgetStep DEF SumInv
<1> QED
  BY <1>1, InitHolds, PTL DEF SummarySpec

\* Every variable keeps its type, and however the refreshes of a service
\* interleave and whichever of their statements and calls fail, a row's blurb was
\* written for a scorecard with the inputs hash of the row's, whatever the hash
\* leaves out, unless the last blurb that was due was refused or failed
\* (BlurbTellsScorecard): RefreshSummary reads the row, decides and writes both
\* together.
THEOREM BlurbStaysTrue == SummarySpec => []SummaryTypeOK /\ []BlurbTellsScorecard
<1>1. SumInv => SummaryTypeOK /\ BlurbTellsScorecard
  BY DEF SumInv, GoodInv, Good, BlurbTellsScorecard
<1> QED
  BY <1>1, SummaryInvariant, PTL

\* For any number of services and of transitions at once, a day makes no more
\* paid calls than dailyBlurbBudget, but for a day whose midnight passes while a
\* refresh that uses the other day's count is under way (DailyWithinBudget):
\* takeBlurbBudget and refundBlurbBudget.
THEOREM DayStaysWithinBudget == SummarySpec => []DailyWithinBudget
<1>1. SumInv => DailyWithinBudget
  <2> SUFFICES ASSUME SumInv, NEW d \in Days \ crossed
               PROVE  called[d] <= DailyBudget
    BY DEF DailyWithinBudget
  <2>1. Cardinality(Held(d)) \in Nat /\ called[d] \in Nat
    BY SpentTyped DEF SumInv
  <2>2. called[d] + Cardinality(Held(d)) <= DailyBudget
    BY DEF SumInv, BudgetInv, Spent
  <2>3. DailyBudget \in Nat
    BY Types
  <2> QED
    BY <2>1, <2>2, <2>3
<1> QED
  BY <1>1, SummaryInvariant, PTL

=============================================================================
