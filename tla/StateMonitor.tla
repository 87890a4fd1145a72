----------------------------- MODULE StateMonitor -----------------------------
(***************************************************************************)
(* The state monitor (internal/statemonitor) on the status cache: Start    *)
(* seeds the baseline, subscribes, and one goroutine evaluates a snapshot  *)
(* of the cache first at once and then on every refresh signal.  Receiving *)
(* the signal, taking the snapshot and evaluating it are separate steps,   *)
(* and evaluating may last for several refreshes (every save may take 10 s)*)
(* so the cache moves on in between.  The context given to Start is        *)
(* context.Background(): the loop does not end while the process runs.     *)
(***************************************************************************)
EXTENDS StatusCache, Baseline, FiniteSets

CONSTANTS
    MonitorCh,     \* the channel the monitor subscribes with
    Confirmations  \* consecutive checks a new status must hold

ASSUME MonitorAssumption ==
    /\ MonitorCh \in Subs
    /\ Confirmations \in Nat \ {0}

VARIABLES
    monPC,    \* where the monitor's goroutine is
    snapshot, \* the snapshot under evaluation
    todo,     \* services evaluate has still to visit
    pending,  \* Monitor.pending
    counted,  \* history: the checks (by cycle) that pending[k].count counts
    snapAt,   \* history: lastRefreshed when the snapshot was taken
    acted     \* history: snapAt of the last snapshot evaluated to its end

evalVars == <<monPC, snapshot, todo, pending, counted, snapAt, acted>>
monVars  == <<cacheVars, baseVars, evalVars>>

NoPending == [status |-> None, count |-> 0]
EmptySnapshot == [k \in Keys |-> Absent]

MonTypeOK ==
    /\ CacheTypeOK
    /\ BaseTypeOK
    /\ monPC \in {"boot", "loaded", "read", "evaluate", "select"}
    /\ snapshot \in [Keys -> Result]
    /\ todo \in SUBSET Monitored
    /\ pending \in [Monitored -> [status : Statuses \union {None}, count : Nat]]
    /\ counted \in [Monitored -> SUBSET Cycles]
    /\ snapAt \in Cycles
    /\ acted \in Cycles

MonInit ==
    /\ CacheInit
    /\ BaseInit
    /\ monPC = "boot"
    /\ snapshot = EmptySnapshot
    /\ todo = {}
    /\ pending = [k \in Monitored |-> NoPending]
    /\ counted = [k \in Monitored |-> {}]
    /\ snapAt = 0
    /\ acted = 0

-----------------------------------------------------------------------------
(* Start.  The cache already runs when main comes to it.                   *)

MonitorLoad ==
    /\ monPC = "boot"
    /\ LoadBaseline
    /\ monPC' = "loaded"
    /\ UNCHANGED <<cacheVars, snapshot, todo, pending, counted, snapAt, acted>>

MonitorSubscribe ==
    /\ monPC = "loaded"
    /\ Subscribe(MonitorCh)
    /\ monPC' = "read"
    /\ UNCHANGED <<baseVars, snapshot, todo, pending, counted, snapAt, acted>>

\* Mutant: the loop evaluates the snapshot it took at the start again.
MonitorReceive_OldSnapshot ==
    /\ monPC = "select"
    /\ Receive(MonitorCh)
    /\ todo' = Monitored
    /\ monPC' = "evaluate"
    /\ UNCHANGED <<baseVars, snapshot, pending, counted, snapAt, acted>>

\* The select of the loop: a refresh signal is there.
MonitorReceive ==
    /\ monPC = "select"
    /\ Receive(MonitorCh)
    /\ monPC' = "read"
    /\ UNCHANGED <<baseVars, snapshot, todo, pending, counted, snapAt, acted>>

\* Snapshot copies the results under mu; evaluate starts on the copy.
MonitorSnapshot ==
    /\ monPC = "read"
    /\ snapshot' = results
    /\ todo' = Monitored
    /\ snapAt' = lastRefreshed
    /\ monPC' = "evaluate"
    /\ UNCHANGED <<cacheVars, baseVars, pending, counted, acted>>

-----------------------------------------------------------------------------
(* evaluate, one service at a time.  The slice has an order; a service's   *)
(* step touches its own entries only, so any order is allowed here.        *)

Raw(k) == snapshot[k].status
Differs(k) == Has(snapshot, k) /\ confirmed[k] # Raw(k)

\* The count of checks that show the new status, the one in hand included: a
\* pending change to another status starts again.
Count(k) == IF pending[k].status = Raw(k) THEN pending[k].count + 1 ELSE 1

CountedChecks(k) ==
    {snapshot[k].cycle} \union
        (IF pending[k].status = Raw(k) THEN counted[k] ELSE {})

Turn(k) ==
    /\ monPC = "evaluate"
    /\ stage = "idle"
    /\ k \in todo
    /\ todo' = todo \ {k}

ForgetPending(k) ==
    /\ pending' = [pending EXCEPT ![k] = NoPending]
    /\ counted' = [counted EXCEPT ![k] = {}]

\* Not in the snapshot yet: nothing happens.
EvaluateMissing(k) ==
    /\ Turn(k)
    /\ ~Has(snapshot, k)
    /\ UNCHANGED <<cacheVars, baseVars, monPC, snapshot, pending, counted, snapAt, acted>>

\* As confirmed: a pending change is forgotten.
EvaluateSame(k) ==
    /\ Turn(k)
    /\ Has(snapshot, k)
    /\ confirmed[k] = Raw(k)
    /\ ForgetPending(k)
    /\ UNCHANGED <<cacheVars, baseVars, monPC, snapshot, snapAt, acted>>

\* A change of a known service that has not held long enough.
EvaluateCount(k) ==
    /\ Turn(k)
    /\ Differs(k)
    /\ Known(confirmed[k])
    /\ Count(k) < Confirmations
    /\ pending' = [pending EXCEPT ![k] = [status |-> Raw(k), count |-> Count(k)]]
    /\ counted' = [counted EXCEPT ![k] = CountedChecks(k)]
    /\ UNCHANGED <<cacheVars, baseVars, monPC, snapshot, snapAt, acted>>

\* A change that has held, or the first sight of a service without a baseline.
EvaluateConfirm(k) ==
    /\ Turn(k)
    /\ Differs(k)
    /\ Known(confirmed[k]) => Count(k) >= Confirmations
    /\ ForgetPending(k)
    /\ Confirm(k, Raw(k))
    /\ UNCHANGED <<cacheVars, monPC, snapshot, snapAt, acted>>

\* The rest of the confirmation; evaluate waits for saveState.
MonitorSave ==
    /\ SaveState \/ SaveFails
    /\ UNCHANGED <<cacheVars, evalVars>>

MonitorDispatch ==
    /\ Dispatch
    /\ UNCHANGED <<cacheVars, evalVars>>

\* Mutant: the channel has no buffer, so a signal sent while evaluate is at
\* work finds no receiver.
EvaluateEnd_Unbuffered ==
    /\ monPC = "evaluate"
    /\ stage = "idle"
    /\ todo = {}
    /\ signal' = [signal EXCEPT ![MonitorCh] = FALSE]
    /\ acted' = snapAt
    /\ monPC' = "select"
    /\ UNCHANGED <<loopVars, subs, closed, toNotify, heard,
                   baseVars, snapshot, todo, pending, counted, snapAt>>

\* evaluate returns to the select.
EvaluateEnd ==
    /\ monPC = "evaluate"
    /\ stage = "idle"
    /\ todo = {}
    /\ acted' = snapAt
    /\ monPC' = "select"
    /\ UNCHANGED <<cacheVars, baseVars, snapshot, todo, pending, counted, snapAt>>

-----------------------------------------------------------------------------
MonStep ==
    \/ MonitorLoad
    \/ MonitorSubscribe
    \/ MonitorReceive
    \/ MonitorSnapshot
    \/ \E k \in Monitored :
         EvaluateMissing(k) \/ EvaluateSame(k) \/ EvaluateCount(k) \/ EvaluateConfirm(k)
    \/ MonitorSave
    \/ MonitorDispatch
    \/ EvaluateEnd

CacheStep == LoopStep /\ UNCHANGED <<baseVars, evalVars>>

MonBoundReached ==
    /\ BoundReached
    /\ monPC = "select"
    /\ ~signal[MonitorCh]
    /\ UNCHANGED <<baseVars, evalVars>>

MonNext == CacheStep \/ MonStep \/ MonBoundReached

\* Both goroutines are always scheduled again; a save and a database load end
\* (contexts of 10 s, and main waits for Load).
MonSpec ==
    /\ MonInit
    /\ [][MonNext]_monVars
    /\ WF_monVars(CacheStep)
    /\ WF_monVars(MonStep)

-----------------------------------------------------------------------------
(* Properties.                                                             *)

\* The confirmed status leaves nothing pending; any other is being counted and is
\* still to be confirmed.
Noted(k, status) ==
    IF status = confirmed[k] THEN pending[k] = NoPending
    ELSE pending[k].status = status /\ pending[k].count < Confirmations

\* A monitor that waits with no signal to read, while the loop is at its
\* ticker, has taken note of every result in the cache.  No refresh gets lost
\* between Subscribe, the first Snapshot and the coalesced signals, and of a
\* change the last check takes back no count is left that one later check could
\* bring to Confirmations.
QuietMeansCaughtUp ==
    monPC = "select" /\ ~signal[MonitorCh] /\ loopPC = "wait" =>
        \A k \in Monitored : Has(results, k) => Noted(k, results[k].status)

\* How far the debounce can count one check again: the snapshot in hand, a
\* signal left from an earlier refresh and the signal of the refresh that made
\* the check can all show it, and nothing else can.  A statement about any
\* Confirmations: where a change needs two, it leaves a single check enough.
CountBound ==
    \A k \in Monitored : pending[k].count <= 3 * Cardinality(counted[k])

\* What the package comment says of the debounce: a change of a known service
\* rests on as many checks as Confirmations asks for.
DistinctChecks ==
    [][\A k \in Monitored :
         Known(confirmed[k]) /\ confirmed'[k] # confirmed[k] =>
             Cardinality(CountedChecks(k)) >= Confirmations]_monVars

\* The monitor as a subscriber of the abstract feed.
Feed == INSTANCE LatestFeed WITH
          MaxPublished <- MaxCycle, published <- lastRefreshed, seen <- acted

\* The monitor acts on refreshes in order, never on one that has not finished,
\* and comes to the latest one whatever signals were dropped on the way.
FeedImplemented == Feed!FeedSpec

=============================================================================
