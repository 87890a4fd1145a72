-------------------------------- MODULE Summary --------------------------------
(***************************************************************************)
(* The stability summary of the services (internal/incidents,              *)
(* RefreshSummary): the periodic loop of cmd/server and one goroutine per  *)
(* transition recompute a service's scorecard and, when it has changed,    *)
(* its blurb, which a paid call writes.  All of them read and write the    *)
(* same row of service_summaries and share the daily budget in memory and  *)
(* the monthly one in the database (AIBudget).                             *)
(*                                                                         *)
(* What a service's incidents and the time have made of its numbers is a   *)
(* number itself, which grows with every change.  The inputs hash keeps    *)
(* less than the scorecard holds: of the numbers what Coarse leaves, of    *)
(* the status whether it is down.                                          *)
(***************************************************************************)
EXTENDS AIBudget

CONSTANTS
    Sites,        \* monitored services
    Workers,      \* goroutines of transitions, one for each of them
    loop,         \* the periodic refresh
    Enabled,      \* an API key is set
    Trailed,      \* services whose history backfill-incidents may fill in
    Statuses,     \* of a check: down, unknown before the first, slow or ok
    Coarse,       \* what the hash keeps of the numbers, by first_seen_at
    DailyBudget,  \* dailyBlurbBudget
    MaxFaults,    \* bound: statements and calls that fail
    MaxWorld,     \* bound: changes of a service
    MaxDay        \* bound: days

ASSUME SummaryAssumption ==
    /\ Sites # {}
    /\ loop \notin Workers
    /\ Enabled \in BOOLEAN
    /\ Trailed \subseteq Sites
    /\ "blurb" \in Kinds
    /\ DailyBudget \in Nat
    /\ {MaxFaults, MaxWorld, MaxDay} \subseteq Nat
    /\ {"down", "unknown"} \subseteq Statuses
    /\ Coarse \in [0 .. MaxWorld -> [0 .. 2 -> Nat]]

VARIABLES
    day,         \* the calendar day
    world,       \* what a service's incidents and the time have come to
    current,     \* what its last check says
    trail,       \* services whose older incidents are in the table
    summary,     \* service_summaries
    task,        \* the refreshes under way
    todo,        \* services the loop has still to refresh in this round
    blurbDay,    \* the day blurbCalls counts
    blurbCalls,
    faults,      \* failures so far
    called,      \* history: calls of the model by the day of their refresh
    crossed      \* history: days whose count a refresh from another day touches

summaryVars == <<budgetVars, day, world, current, trail, summary, task, todo, blurbDay, blurbCalls,
                 faults, called, crossed>>

Refreshers == Workers \union {loop}
Days == 0 .. MaxDay
Worlds == 0 .. MaxWorld

\* first_seen_at, and what the scorecard takes for it: the first outage of the
\* trail, the time of the first summary, or nothing yet.
Outage == 0
Start == 1
Never == 2

\* A scorecard is built of the incidents, the row there is and the status, read
\* one after the other; a blurb is known by the scorecard it was written for.
Card == [stats : Worlds, since : Outage .. Never, status : Statuses]
NoCard == [stats |-> 0, since |-> Never, status |-> "unknown"]
NoBlurb == [card |-> NoCard, day |-> 0]

\* withheld is history: the last blurb that was due could not be had.
NoSummary == [card |-> NoCard, blurb |-> NoBlurb, first |-> Never, withheld |-> FALSE]
Idle == [stage |-> "idle", site |-> CHOOSE s \in Sites : TRUE, now |-> 0,
         prev |-> NoSummary, out |-> NoSummary]

SummaryTypeOK ==
    LET Saved == [card : Card, blurb : [card : Card, day : Days],
                 first : Outage .. Never, withheld : BOOLEAN]
    IN  /\ BudgetTypeOK
        /\ day \in Days
        /\ world \in [Sites -> Worlds]
        /\ current \in [Sites -> Statuses]
        /\ trail \in SUBSET Trailed
        /\ summary \in [Sites -> Saved]
        /\ task \in [Refreshers -> [stage : {"idle", "stats", "prev", "status", "daily", "monthly",
                                             "giveback", "call", "refund", "save", "done"},
                                    site : Sites, now : Days, prev : Saved, out : Saved]]
        /\ todo \in SUBSET Sites
        /\ blurbDay \in Days \union {-1}
        /\ blurbCalls \in Nat
        /\ faults \in 0 .. MaxFaults
        /\ called \in [Days -> Nat]
        /\ crossed \in SUBSET Days

SummaryInit ==
    /\ BudgetInit
    /\ day = 0
    /\ world = [s \in Sites |-> 0]
    /\ current = [s \in Sites |-> "unknown"]
    /\ trail = {}
    /\ summary = [s \in Sites |-> NoSummary]
    /\ task = [r \in Refreshers |-> Idle]
    /\ todo = {}
    /\ blurbDay = -1
    /\ blurbCalls = 0
    /\ faults = 0
    /\ called = [d \in Days |-> 0]
    /\ crossed = {}

-----------------------------------------------------------------------------
(* Who refreshes.                                                          *)

Begin(r, s) == task' = [task EXCEPT ![r] = [Idle EXCEPT !.stage = "stats", !.site = s, !.now = day]]

\* OnTransition: the incident is written, then a goroutine refreshes.
Transition(w, s) ==
    /\ task[w].stage = "idle"
    /\ world[s] < MaxWorld
    /\ world' = [world EXCEPT ![s] = @ + 1]
    /\ Begin(w, s)
    /\ UNCHANGED <<budgetVars, day, current, trail, summary, todo, blurbDay, blurbCalls, faults, called, crossed>>

\* A check of the cache, confirmed or not, or the time moves the numbers; no refresh
\* is started.
Drift(s) ==
    /\ world[s] < MaxWorld
    /\ world' = [world EXCEPT ![s] = @ + 1]
    /\ \E status \in Statuses \ {"unknown"} : current' = [current EXCEPT ![s] = status]
    /\ UNCHANGED <<budgetVars, day, trail, summary, task, todo, blurbDay, blurbCalls, faults, called, crossed>>

\* The command inserts the incidents of the trail; it starts no refresh.
Backfilled(s) ==
    /\ s \in Trailed \ trail
    /\ world[s] < MaxWorld
    /\ world' = [world EXCEPT ![s] = @ + 1]
    /\ trail' = trail \union {s}
    /\ UNCHANGED <<budgetVars, day, current, summary, task, todo, blurbDay, blurbCalls, faults, called, crossed>>

\* The ticker: RefreshAllSummaries.
StartRound ==
    /\ task[loop].stage = "idle"
    /\ todo = {}
    /\ todo' = Sites
    /\ UNCHANGED <<budgetVars, day, world, current, trail, summary, task, blurbDay, blurbCalls, faults, called, crossed>>

\* The next service of the round (the order of Monitored does not matter here).
NextService(s) ==
    /\ task[loop].stage = "idle"
    /\ s \in todo
    /\ todo' = todo \ {s}
    /\ Begin(loop, s)
    /\ UNCHANGED <<budgetVars, day, world, current, trail, summary, blurbDay, blurbCalls, faults, called, crossed>>

-----------------------------------------------------------------------------
(* RefreshSummary.                                                         *)

At(r, stage) == task[r].stage = stage
Goes(r, stage) == task' = [task EXCEPT ![r].stage = stage]
Returns(r) == task' = [task EXCEPT ![r] = [Idle EXCEPT !.stage = IF r = loop THEN "idle" ELSE "done"]]

\* On to the save without the blurb that was due.
GoesWithout(r) == task' = [task EXCEPT ![r].stage = "save", ![r].out.withheld = TRUE]

Works == UNCHANGED faults
Fails == faults < MaxFaults /\ faults' = faults + 1

\* The oldest incident, or now.
Oldest(s) == IF s \in trail THEN Outage ELSE Start

ReadStats(r) ==
    /\ At(r, "stats")
    /\ \/ /\ Works
          /\ task' = [task EXCEPT ![r].stage = "prev", ![r].out.card =
                [@ EXCEPT !.stats = world[task[r].site], !.since = Oldest(task[r].site)]]
       \/ Fails /\ Returns(r)
    /\ UNCHANGED <<budgetVars, day, world, current, trail, summary, todo, blurbDay, blurbCalls, called, crossed>>

\* GetSummary; the new row keeps the blurb for now.
ReadPrevious(r) ==
    /\ At(r, "prev")
    /\ LET prev == summary[task[r].site]
           since == task[r].out.card.since
           first == IF prev.first < since THEN prev.first ELSE since
       IN  \/ /\ Works
             /\ task' = [task EXCEPT ![r].stage = "status", ![r].prev = prev,
                                     ![r].out.blurb = prev.blurb,
                                     ![r].out.card = [@ EXCEPT !.since = first],
                                     ![r].out.withheld = prev.withheld]
           \/ Fails /\ Returns(r)
    /\ UNCHANGED <<budgetVars, day, world, current, trail, summary, todo, blurbDay, blurbCalls, called, crossed>>

\* Mutant: the inputs hash is not compared.
Stale_NoHash(prev, card) == prev.blurb = NoBlurb

\* Level, counts and coarse uptimes: neither what the check took nor whether it was
\* slow, nor how long the service has been observed.
InputsHash(card) == [numbers |-> Coarse[card.stats][card.since], down |-> card.status = "down"]

\* No row, no blurb, or the inputs hash has moved.
Stale(prev, card) == prev.blurb = NoBlurb \/ InputsHash(prev.card) # InputsHash(card)

\* More than 24 h since the blurb: possible from the next day on, certain from
\* the one after it.
MayBeOld(prev, now) == now > prev.blurb.day
MustBeOld(prev, now) == now > prev.blurb.day + 1

\* Snapshot and Build; is a new blurb due, and can there be one?
ReadStatus(r) ==
    /\ At(r, "status")
    /\ LET t == task[r]
           card == [t.out.card EXCEPT !.status = current[t.site]]
           stale == Stale(t.prev, card)
       IN  \/ /\ Enabled
              /\ stale \/ MayBeOld(t.prev, t.now)
              /\ task' = [task EXCEPT ![r].out.card = card, ![r].stage = "daily"]
           \/ /\ ~Enabled \/ (~stale /\ ~MustBeOld(t.prev, t.now))
              /\ task' = [task EXCEPT ![r].out.card = card, ![r].stage = "save"]
    /\ UNCHANGED <<budgetVars, day, world, current, trail, summary, todo, blurbDay, blurbCalls, faults, called, crossed>>

\* Mutant: one call too many.
Allowed_Late(calls_) == calls_ <= DailyBudget

Allowed(calls_) == calls_ < DailyBudget

\* takeBlurbBudget, with the day the refresh began on.
TakeBlurbBudget(r) ==
    /\ At(r, "daily")
    /\ LET used == IF blurbDay = task[r].now THEN blurbCalls ELSE 0
       IN  /\ blurbDay' = task[r].now
           /\ \/ Allowed(used) /\ blurbCalls' = used + 1 /\ Goes(r, "monthly")
              \/ ~Allowed(used) /\ blurbCalls' = used /\ GoesWithout(r)
    /\ UNCHANGED <<budgetVars, day, world, current, trail, summary, todo, faults, called, crossed>>

TakeMonthlyBudget(r) ==
    /\ At(r, "monthly")
    /\ \/ ConsumeAIBudget("blurb") /\ Works /\ Goes(r, "call")
       \/ /\ (LimitReached("blurb") /\ Works) \/ Fails
          /\ Goes(r, "giveback")
          /\ UNCHANGED budgetVars
    /\ UNCHANGED <<day, world, current, trail, summary, todo, blurbDay, blurbCalls, called, crossed>>

Less(calls_) == IF calls_ > 0 THEN calls_ - 1 ELSE 0

\* refundBlurbBudget.
GiveBackDaily(r) ==
    /\ At(r, "giveback")
    /\ blurbCalls' = Less(blurbCalls)
    /\ GoesWithout(r)
    /\ UNCHANGED <<budgetVars, day, world, current, trail, summary, todo, blurbDay, faults, called, crossed>>

\* Summarize: an empty answer is a success and replaces the blurb; a failed call
\* gives the unit of the month back, not that of the day.
Summarize(r) ==
    /\ At(r, "call")
    /\ called' = [called EXCEPT ![task[r].now] = @ + 1]
    /\ \/ /\ Works
          /\ task' = [task EXCEPT ![r].stage = "save", ![r].out.withheld = FALSE,
                               ![r].out.blurb = [card |-> task[r].out.card, day |-> task[r].now]]
       \/ /\ Fails
          /\ task' = [task EXCEPT ![r].stage = "save", ![r].out.withheld = FALSE,
                                  ![r].out.blurb = NoBlurb]
       \/ Fails /\ Goes(r, "refund")
    /\ UNCHANGED <<budgetVars, day, world, current, trail, summary, todo, blurbDay, blurbCalls, crossed>>

RefundMonthly(r) ==
    /\ At(r, "refund")
    /\ \/ RefundAIBudget("blurb") /\ Works
       \/ Fails /\ UNCHANGED budgetVars
    /\ GoesWithout(r)
    /\ UNCHANGED <<day, world, current, trail, summary, todo, blurbDay, blurbCalls, called, crossed>>

\* Mutant: the row is only inserted, never updated.
Upsert_DoNothing(s, out) ==
    summary' = [summary EXCEPT ![s] = IF @ = NoSummary THEN [out EXCEPT !.first = out.card.since] ELSE @]

\* The upsert of SaveSummary writes card and blurb together, first_seen_at only
\* with a new row.
Upsert(s, out) ==
    summary' = [summary EXCEPT ![s] =
        [out EXCEPT !.first = IF summary[s].first = Never THEN out.card.since ELSE summary[s].first]]

SaveSummary(r) ==
    /\ At(r, "save")
    /\ \/ Upsert(task[r].site, task[r].out) /\ Works
       \/ Fails /\ UNCHANGED summary
    /\ Returns(r)
    /\ UNCHANGED <<budgetVars, day, world, current, trail, todo, blurbDay, blurbCalls, called, crossed>>

RefreshStep(r) ==
    \/ ReadStats(r) \/ ReadPrevious(r) \/ ReadStatus(r) \/ TakeBlurbBudget(r)
    \/ TakeMonthlyBudget(r) \/ GiveBackDaily(r) \/ Summarize(r) \/ RefundMonthly(r)
    \/ SaveSummary(r)

-----------------------------------------------------------------------------
\* The daily budget is before this refresh, or may still get a unit back from it.
Counting(r) == task[r].stage \in {"stats", "prev", "status", "daily", "monthly", "giveback"}

NextDay ==
    /\ day < MaxDay
    /\ day' = day + 1
    /\ crossed' = IF \E r \in Refreshers : Counting(r)
                  THEN crossed \union {task[r].now : r \in {q \in Refreshers : Counting(q)}}
                               \union {day'}
                  ELSE crossed
    /\ UNCHANGED <<budgetVars, world, current, trail, summary, task, todo, blurbDay, blurbCalls, faults, called>>

SummaryNext ==
    \/ \E w \in Workers, s \in Sites : Transition(w, s)
    \/ \E s \in Sites : Drift(s) \/ Backfilled(s)
    \/ StartRound
    \/ \E s \in Sites : NextService(s)
    \/ \E r \in Refreshers : RefreshStep(r)
    \/ NextDay

SummarySpec == SummaryInit /\ [][SummaryNext]_summaryVars

\* The ticker goes on, and every statement and call comes back; failures come to
\* an end (MaxFaults), as nothing can be shown of a row that is never saved.
SummaryFairness ==
    /\ WF_summaryVars(StartRound)
    /\ WF_summaryVars(\E s \in Sites : NextService(s))
    /\ \A r \in Refreshers : WF_summaryVars(RefreshStep(r))

FairSummarySpec == SummarySpec /\ SummaryFairness

-----------------------------------------------------------------------------
(* Properties.                                                             *)

Current(s) == [stats |-> world[s], since |-> Oldest(s), status |-> current[s]]

\* However the refreshes of a service overlap, once nothing changes any more
\* its row comes to hold the scorecard of what is the case, counted from the
\* first that is known of the service, and keeps it.
ScorecardCatchesUp == \A s \in Sites : <>[](summary[s].card = Current(s))

\* The blurb of a row, if it has one, was written for a scorecard with the inputs
\* hash of the row's, unless the blurb that was due last was refused by a budget or
\* failed: whichever refresh has written the row last.  What the hash leaves out (a
\* slow answer, the days observed) a blurb may tell otherwise than its scorecard.
BlurbTellsScorecard ==
    \A s \in Sites :
        summary[s].blurb # NoBlurb /\ ~summary[s].withheld =>
            InputsHash(summary[s].blurb.card) = InputsHash(summary[s].card)

\* The refreshes of a day make no more paid calls than the daily budget, but for
\* a day at whose midnight a refresh was under way that uses the other day's
\* count.
DailyWithinBudget == \A d \in Days \ crossed : called[d] <= DailyBudget

=============================================================================
