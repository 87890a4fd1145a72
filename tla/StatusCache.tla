----------------------------- MODULE StatusCache -----------------------------
(***************************************************************************)
(* The status cache of the backend (internal/statuscache): one background  *)
(* loop that checks every site, stores each result as its check returns,   *)
(* and then signals the subscribers.  Two locks guard it: mu for the       *)
(* results (one step per acquisition here) and subsMu for the subscribers, *)
(* which notifySubscribers holds from its first send to its last.          *)
(*                                                                         *)
(* Time is the number of the refresh cycle: a result carries the cycle of  *)
(* its check instead of CheckedAt, lastRefreshed stands for                *)
(* lastRefreshedAt.  A subscriber is its channel.                          *)
(***************************************************************************)
EXTENDS Naturals, Services

CONSTANTS
    Subs,       \* channels that callers of Subscribe may make
    MaxCycle    \* bound: refresh cycles that are started

ASSUME MaxCycleAssumption == MaxCycle \in Nat

VARIABLES
    loopPC,         \* where the refresh loop is
    cycle,          \* the current refresh cycle, 0 before the first
    inflight,       \* keys whose check of this cycle has not stored its result
    results,        \* Cache.results
    lastRefreshed,  \* Cache.lastRefreshedAt: the last cycle that finished
    subs,           \* Cache.subs
    closed,         \* channels that cancel has closed
    signal,         \* signal[c]: the one-place buffer of c holds a signal
    toNotify,       \* channels notifySubscribers has still to visit
    heard           \* history: lastRefreshed when c subscribed or last received

loopVars  == <<loopPC, cycle, inflight, results, lastRefreshed>>
cacheVars == <<loopPC, cycle, inflight, results, lastRefreshed,
               subs, closed, signal, toNotify, heard>>

Cycles == 0 .. MaxCycle
Result == [status : Statuses \union {None}, cycle : Cycles]
Absent == [status |-> None, cycle |-> 0]
Has(snapshot, k) == snapshot[k].status # None

CacheTypeOK ==
    /\ loopPC \in {"wait", "check", "refreshed", "notify"}
    /\ cycle \in Cycles
    /\ inflight \in SUBSET Keys
    /\ results \in [Keys -> Result]
    /\ lastRefreshed \in Cycles
    /\ subs \in SUBSET Subs
    /\ closed \in SUBSET Subs
    /\ signal \in [Subs -> BOOLEAN]
    /\ toNotify \in SUBSET Subs
    /\ heard \in [Subs -> Cycles]

CacheInit ==
    /\ loopPC = "wait"
    /\ cycle = 0
    /\ inflight = {}
    /\ results = [k \in Keys |-> Absent]
    /\ lastRefreshed = 0
    /\ subs = {}
    /\ closed = {}
    /\ signal = [c \in Subs |-> FALSE]
    /\ toNotify = {}
    /\ heard = [c \in Subs |-> 0]

-----------------------------------------------------------------------------
(* The refresh loop.                                                       *)

\* loop: the first refresh at once, the later ones on a tick.  refreshAll
\* starts one goroutine per key.
StartRefresh ==
    /\ loopPC = "wait"
    /\ cycle < MaxCycle
    /\ cycle' = cycle + 1
    /\ inflight' = Keys
    /\ loopPC' = "check"
    /\ UNCHANGED <<results, lastRefreshed, subs, closed, signal, toNotify, heard>>

\* The goroutine of key k: CheckServiceStatus, then the store under mu.
FinishCheck(k, s) ==
    /\ k \in inflight
    /\ results' = [results EXCEPT ![k] = [status |-> s, cycle |-> cycle]]
    /\ inflight' = inflight \ {k}
    /\ UNCHANGED <<loopPC, cycle, lastRefreshed, subs, closed, signal, toNotify, heard>>

\* Mutant: the wait group is not waited for.
FinishRefresh_NoWait ==
    /\ loopPC = "check"
    /\ lastRefreshed' = cycle
    /\ loopPC' = "refreshed"
    /\ UNCHANGED <<cycle, inflight, results, subs, closed, signal, toNotify, heard>>

\* wg.Wait returns and refreshAll stamps the cycle.
FinishRefresh ==
    /\ loopPC = "check"
    /\ inflight = {}
    /\ lastRefreshed' = cycle
    /\ loopPC' = "refreshed"
    /\ UNCHANGED <<cycle, inflight, results, subs, closed, signal, toNotify, heard>>

\* notifySubscribers takes subsMu; the map it ranges over is fixed from here.
StartNotify ==
    /\ loopPC = "refreshed"
    /\ toNotify' = subs
    /\ loopPC' = "notify"
    /\ UNCHANGED <<cycle, inflight, results, lastRefreshed, subs, closed, signal, heard>>

\* Mutant: a full buffer ends the loop over the subscribers.
Notify_GivesUp(c) ==
    /\ loopPC = "notify"
    /\ c \in toNotify
    /\ signal' = [signal EXCEPT ![c] = TRUE]
    /\ toNotify' = IF signal[c] THEN {} ELSE toNotify \ {c}
    /\ UNCHANGED <<loopVars, subs, closed, heard>>

\* The non-blocking send: a full buffer stays as it is.
Notify(c) ==
    /\ loopPC = "notify"
    /\ c \in toNotify
    /\ signal' = [signal EXCEPT ![c] = TRUE]
    /\ toNotify' = toNotify \ {c}
    /\ UNCHANGED <<loopVars, subs, closed, heard>>

\* notifySubscribers gives subsMu back and the loop waits for its tick.
FinishNotify ==
    /\ loopPC = "notify"
    /\ toNotify = {}
    /\ loopPC' = "wait"
    /\ UNCHANGED <<cycle, inflight, results, lastRefreshed, subs, closed, signal,
                   toNotify, heard>>

-----------------------------------------------------------------------------
(* What callers do with the cache.                                         *)

\* Mutant: registering a channel does not wait for subsMu.
SubsMuFree_Unlocked == TRUE

SubsMuFree == loopPC # "notify"

\* Subscribe makes a new channel of capacity one and registers it.
Subscribe(c) ==
    /\ SubsMuFree
    /\ c \notin subs \union closed
    /\ subs' = subs \union {c}
    /\ heard' = [heard EXCEPT ![c] = lastRefreshed]
    /\ UNCHANGED <<loopVars, closed, signal, toNotify>>

\* The function Subscribe returns: a second call finds c gone and does nothing.
Cancel(c) ==
    /\ SubsMuFree
    /\ c \in subs
    /\ subs' = subs \ {c}
    /\ closed' = closed \union {c}
    /\ UNCHANGED <<loopVars, signal, toNotify, heard>>

\* The owner of c takes the buffered signal; no lock is involved.
Receive(c) ==
    /\ signal[c]
    /\ signal' = [signal EXCEPT ![c] = FALSE]
    /\ heard' = [heard EXCEPT ![c] = lastRefreshed]
    /\ UNCHANGED <<loopVars, subs, closed, toNotify>>

-----------------------------------------------------------------------------
LoopStep ==
    \/ StartRefresh
    \/ \E k \in Keys, s \in Statuses : FinishCheck(k, s)
    \/ FinishRefresh
    \/ StartNotify
    \/ \E c \in Subs : Notify(c)
    \/ FinishNotify

\* The bound on cycles is reached: only the model stops here, not the loop.
BoundReached ==
    /\ cycle = MaxCycle
    /\ loopPC = "wait"
    /\ UNCHANGED cacheVars

CacheNext ==
    \/ LoopStep
    \/ \E c \in Subs : Subscribe(c) \/ Cancel(c) \/ Receive(c)
    \/ BoundReached

\* The loop is always scheduled again and a check ends (its context expires
\* after 12 s).  Nothing is assumed of the callers.
CacheSpec ==
    /\ CacheInit
    /\ [][CacheNext]_cacheVars
    /\ WF_cacheVars(LoopStep)

-----------------------------------------------------------------------------
(* Properties.                                                             *)

\* notifySubscribers never sends on a closed channel (that would panic and
\* end the process): what it has still to visit is registered, and nothing
\* registered has been closed by its cancel function.
NoSendOnClosed ==
    /\ toNotify \subseteq subs
    /\ subs \intersect closed = {}

\* Snapshot takes mu between two stores, so it may mix cycles; but it never
\* holds a result older than the last finished refresh, it mixes that refresh
\* with the next one only, and only while checks run: from wg.Wait to the next
\* tick every result is of one cycle.
SnapshotAge ==
    /\ \A k \in Keys : results[k].cycle \in {lastRefreshed, lastRefreshed + 1}
    /\ loopPC # "check" => \A k \in Keys : results[k].cycle = cycle

\* Dropping a signal on a full buffer loses no refresh: once the loop is back
\* at its ticker, a subscriber without an unread signal subscribed or received
\* after the last refresh was stored.
NoMissedSignal ==
    loopPC = "wait" =>
        \A c \in subs : signal[c] \/ heard[c] = lastRefreshed

=============================================================================
