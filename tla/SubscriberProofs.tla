-------------------------- MODULE SubscriberProofs --------------------------
(***************************************************************************)
(* The status cache and its two kinds of subscribers, for any services,    *)
(* clients, channels and bounds: the state monitor and the stream          *)
(* handlers.  Each has an inductive invariant of its own on top of the     *)
(* cache's.                                                                *)
(***************************************************************************)
EXTENDS StateMonitor, StatusStream, FiniteSetTheorems, TLAPS

-----------------------------------------------------------------------------
(* The cache.                                                              *)

\* What the safety properties of the cache rest on: checks run in their stage
\* only, the sends go to registered channels, the stamp is one cycle behind
\* while checks run, and whoever has been visited by the notification that is
\* under way, or by the last one, has a signal or has heard of the refresh.
CacheInv ==
    /\ CacheTypeOK
    /\ inflight # {} => loopPC = "check"
    /\ loopPC # "notify" => toNotify = {}
    /\ NoSendOnClosed
    /\ loopPC = "check" => cycle = lastRefreshed + 1
    /\ loopPC = "wait" => cycle = lastRefreshed
    /\ loopPC = "refreshed" \/ loopPC = "notify" => cycle = lastRefreshed
    /\ \A k \in Keys :
         results[k].cycle = IF loopPC = "check" /\ k \in inflight THEN cycle - 1 ELSE cycle
    /\ loopPC # "refreshed" =>
         \A c \in subs \ toNotify : signal[c] \/ heard[c] = lastRefreshed

LEMMA CacheInitInv == CacheInit => CacheInv
  BY MaxCycleAssumption
  DEF CacheInit, CacheInv, CacheTypeOK, NoSendOnClosed, Cycles, Result, Absent

\* Every step of the loop keeps the invariant.
LEMMA LoopStepInv == CacheInv /\ LoopStep => CacheInv'
<1> SUFFICES ASSUME CacheInv, LoopStep PROVE CacheInv'
  OBVIOUS
<1> USE MaxCycleAssumption
<1>1. CASE StartRefresh
  BY <1>1 DEF StartRefresh, CacheInv, CacheTypeOK, NoSendOnClosed, Cycles, Result
<1>2. ASSUME NEW k \in Keys, NEW s \in Statuses, FinishCheck(k, s) PROVE CacheInv'
  BY <1>2 DEF FinishCheck, CacheInv, CacheTypeOK, NoSendOnClosed, Cycles, Result
<1>3. CASE FinishRefresh
  BY <1>3 DEF FinishRefresh, CacheInv, CacheTypeOK, NoSendOnClosed, Cycles, Result
<1>4. CASE StartNotify
  BY <1>4 DEF StartNotify, CacheInv, CacheTypeOK, NoSendOnClosed, Cycles, Result
<1>5. ASSUME NEW c \in Subs, Notify(c) PROVE CacheInv'
  BY <1>5 DEF Notify, CacheInv, CacheTypeOK, NoSendOnClosed, Cycles, Result, loopVars
<1>6. CASE FinishNotify
  BY <1>6 DEF FinishNotify, CacheInv, CacheTypeOK, NoSendOnClosed, Cycles, Result
<1> QED
  BY <1>1, <1>2, <1>3, <1>4, <1>5, <1>6 DEF LoopStep

\* So does what a caller may do with a channel.
LEMMA CallerStepInv ==
  ASSUME CacheInv, NEW c \in Subs, Subscribe(c) \/ Cancel(c) \/ Receive(c)
  PROVE  CacheInv'
<1> USE MaxCycleAssumption
<1>1. CASE Subscribe(c)
  BY <1>1 DEF Subscribe, SubsMuFree, CacheInv, CacheTypeOK, NoSendOnClosed, Cycles, Result,
              loopVars
<1>2. CASE Cancel(c)
  BY <1>2 DEF Cancel, SubsMuFree, CacheInv, CacheTypeOK, NoSendOnClosed, Cycles, Result,
              loopVars
<1>3. CASE Receive(c)
  BY <1>3 DEF Receive, CacheInv, CacheTypeOK, NoSendOnClosed, Cycles, Result, loopVars
<1> QED
  BY <1>1, <1>2, <1>3

LEMMA CacheStutterInv == CacheInv /\ UNCHANGED cacheVars => CacheInv'
  BY DEF CacheInv, CacheTypeOK, NoSendOnClosed, cacheVars

\* The stages of the invariant put together are the properties of the cache.
LEMMA CacheInvImplies == CacheInv => CacheTypeOK /\ NoSendOnClosed /\ SnapshotAge /\ NoMissedSignal
<1> SUFFICES ASSUME CacheInv
             PROVE  CacheTypeOK /\ NoSendOnClosed /\ SnapshotAge /\ NoMissedSignal
  OBVIOUS
<1>1. SnapshotAge
  BY MaxCycleAssumption DEF CacheInv, CacheTypeOK, Cycles, SnapshotAge
<1>2. NoMissedSignal
  BY DEF CacheInv, NoMissedSignal
<1> QED
  BY <1>1, <1>2 DEF CacheInv

\* Whatever the callers do, the cache keeps its types, never sends on a closed
\* channel, never shows results older than the last refresh, and loses no
\* refresh for a subscriber whose buffer was full.
THEOREM CacheSafety == CacheSpec => [](CacheTypeOK /\ NoSendOnClosed /\ SnapshotAge /\ NoMissedSignal)
<1>1. CacheInv /\ [CacheNext]_cacheVars => CacheInv'
  BY LoopStepInv, CallerStepInv, CacheStutterInv DEF CacheNext, BoundReached, cacheVars
<1> QED
  BY <1>1, CacheInitInv, CacheInvImplies, PTL DEF CacheSpec

-----------------------------------------------------------------------------
(* The monitor on the cache.                                               *)

Started == monPC \notin {"boot", "loaded"}
HasSnapshot == monPC \in {"evaluate", "select"}

\* How far the monitor has come, and what it cannot have done before.
ProgressInv ==
    /\ Started => MonitorCh \in subs
    /\ ~Started => /\ MonitorCh \notin subs
                   /\ ~signal[MonitorCh]
                   /\ \A k \in Monitored : pending[k] = NoPending /\ counted[k] = {}
    /\ monPC = "boot" => \A k \in Monitored : alerts[k].last = "none"
    /\ stage # "idle" => monPC = "evaluate"
    /\ monPC # "evaluate" => todo = {}

\* What evaluate has visited it has taken note of.
NotedInv ==
    HasSnapshot =>
        \A k \in Monitored \ todo :
            Has(snapshot, k) => Noted(k, snapshot[k].status)

\* Unless a signal is there or still to come, the snapshot is what the cache
\* holds.
FreshInv ==
    HasSnapshot /\ ~signal[MonitorCh]
        /\ (loopPC = "wait" \/ (loopPC = "notify" /\ MonitorCh \notin toNotify))
            => snapshot = results

FeedInv == acted <= snapAt /\ snapAt <= lastRefreshed

\* What the last alert tells, before and after the change in hand.
AlertInv ==
    /\ AlertTellsBaseline
    /\ stage # "idle" =>
         /\ confirmed[change.key] = change.cur
         /\ alerts[change.key].last # "none" =>
              Known(change.prev) /\ alerts[change.key].last = Health(change.prev)

MonInv ==
    /\ CacheInv
    /\ MonTypeOK
    /\ ProgressInv
    /\ NotedInv
    /\ FreshInv
    /\ FeedInv
    /\ AlertInv

-----------------------------------------------------------------------------
(* The steps of the monitor and of the cache seen from the cache.             *)

LEMMA CacheInvKept == CacheInv /\ [MonNext]_monVars => CacheInv'
<1> SUFFICES ASSUME CacheInv, [MonNext]_monVars PROVE CacheInv'
  OBVIOUS
<1>1. CASE UNCHANGED cacheVars
  BY <1>1, CacheStutterInv
<1>2. CASE LoopStep
  BY <1>2, LoopStepInv
<1>3. CASE Subscribe(MonitorCh) \/ Receive(MonitorCh)
  BY <1>3, CallerStepInv, MonitorAssumption
<1> QED
  BY <1>1, <1>2, <1>3
  DEF MonNext, MonStep, CacheStep, MonBoundReached, BoundReached, monVars, MonitorLoad,
      MonitorSubscribe, MonitorReceive, MonitorSnapshot, EvaluateMissing, EvaluateSame,
      EvaluateCount, EvaluateConfirm, MonitorSave, MonitorDispatch, EvaluateEnd

LEMMA MonInitInv == MonInit => MonInv
<1> SUFFICES ASSUME MonInit PROVE MonInv
  OBVIOUS
<1>1. CacheInv
  BY CacheInitInv DEF MonInit
<1>2. MonTypeOK
  BY <1>1, MaxCycleAssumption
  DEF CacheInv, MonTypeOK, MonInit, BaseTypeOK, BaseInit, NoPending, EmptySnapshot, Absent,
      Result, Cycles
<1>3. ProgressInv
  BY MonitorAssumption DEF ProgressInv, Started, MonInit, CacheInit, BaseInit
<1>4. NotedInv /\ FreshInv
  BY DEF NotedInv, FreshInv, HasSnapshot, MonInit
<1>5. FeedInv
  BY DEF FeedInv, MonInit, CacheInit
<1>6. AlertInv
  BY DEF AlertInv, AlertTellsBaseline, MonInit, BaseInit
<1> QED
  BY <1>1, <1>2, <1>3, <1>4, <1>5, <1>6 DEF MonInv

LEMMA MonStutterInv == MonInv /\ UNCHANGED monVars => MonInv'
  BY DEF MonInv, monVars, cacheVars, baseVars, evalVars, CacheInv, CacheTypeOK,
         NoSendOnClosed, MonTypeOK, BaseTypeOK, ProgressInv, Started, NotedInv, Noted, HasSnapshot,
         Has, FreshInv, FeedInv, AlertInv, AlertTellsBaseline

-----------------------------------------------------------------------------
(* A step of the loop.                                                        *)

LEMMA CacheStepInv == MonInv /\ CacheStep => MonInv'
<1> SUFFICES ASSUME MonInv, CacheStep PROVE MonInv'
  OBVIOUS
<1>1. CacheInv'
  BY CacheInvKept DEF MonInv, MonNext
<1>2. MonTypeOK'
  BY <1>1 DEF CacheInv, MonInv, MonTypeOK, BaseTypeOK, CacheStep, baseVars, evalVars
<1>3. /\ subs' = subs
      /\ signal'[MonitorCh] = FALSE => signal[MonitorCh] = FALSE
      /\ signal'[MonitorCh] # signal[MonitorCh] => MonitorCh \in toNotify
      /\ lastRefreshed' >= lastRefreshed
  BY MonitorAssumption
  DEF MonInv, CacheInv, CacheTypeOK, Cycles, CacheStep, LoopStep, StartRefresh, FinishCheck,
      FinishRefresh, StartNotify, Notify, FinishNotify, loopVars
<1>4. ProgressInv'
  BY <1>3 DEF MonInv, CacheInv, CacheTypeOK, NoSendOnClosed, ProgressInv, Started, CacheStep,
              baseVars, evalVars
<1>5. NotedInv'
  BY DEF MonInv, NotedInv, Noted, HasSnapshot, Has, CacheStep, baseVars, evalVars
<1>6. FreshInv'
  BY MonitorAssumption
  DEF MonInv, CacheInv, CacheTypeOK, ProgressInv, Started, FreshInv, HasSnapshot, CacheStep,
      evalVars, LoopStep, StartRefresh, FinishCheck, FinishRefresh, StartNotify, Notify,
      FinishNotify, loopVars
<1>7. FeedInv'
  BY <1>1, <1>3 DEF MonInv, MonTypeOK, CacheInv, CacheTypeOK, Cycles, FeedInv, CacheStep, evalVars
<1>8. AlertInv'
  BY DEF MonInv, AlertInv, AlertTellsBaseline, CacheStep, baseVars
<1> QED
  BY <1>1, <1>2, <1>4, <1>5, <1>6, <1>7, <1>8 DEF MonInv

-----------------------------------------------------------------------------
(* The steps of the monitor.  In each lemma the cache is <1>1, the types <1>2 *)
(* and the remaining parts follow in the order of MonInv.                     *)

LEMMA LoadInv == MonInv /\ MonitorLoad => MonInv'
<1> SUFFICES ASSUME MonInv, MonitorLoad PROVE MonInv'
  OBVIOUS
<1> USE DEF MonInv, Noted, MonitorLoad, LoadBaseline
<1>1. CacheInv'
  BY CacheInvKept DEF MonNext, MonStep
<1>2. MonTypeOK'
  BY <1>1 DEF CacheInv, MonTypeOK, BaseTypeOK
<1>3. ProgressInv'
  BY DEF ProgressInv, Started, cacheVars
<1>4. NotedInv' /\ FreshInv'
  BY DEF NotedInv, FreshInv, HasSnapshot
<1>5. FeedInv'
  BY DEF FeedInv, cacheVars
<1>6. AlertInv'
  BY DEF AlertInv, AlertTellsBaseline, ProgressInv
<1> QED
  BY <1>1, <1>2, <1>3, <1>4, <1>5, <1>6

LEMMA SubscribeInv == MonInv /\ MonitorSubscribe => MonInv'
<1> SUFFICES ASSUME MonInv, MonitorSubscribe PROVE MonInv'
  OBVIOUS
<1> USE DEF MonInv, Noted, MonitorSubscribe, Subscribe
<1>1. CacheInv'
  BY CacheInvKept DEF MonNext, MonStep
<1>2. MonTypeOK'
  BY <1>1 DEF CacheInv, MonTypeOK, BaseTypeOK, baseVars
<1>3. ProgressInv'
  BY DEF ProgressInv, Started, baseVars
<1>4. NotedInv' /\ FreshInv'
  BY DEF NotedInv, FreshInv, HasSnapshot
<1>5. FeedInv'
  BY DEF FeedInv, loopVars
<1>6. AlertInv'
  BY DEF AlertInv, AlertTellsBaseline, baseVars
<1> QED
  BY <1>1, <1>2, <1>3, <1>4, <1>5, <1>6

LEMMA ReceiveInv == MonInv /\ MonitorReceive => MonInv'
<1> SUFFICES ASSUME MonInv, MonitorReceive PROVE MonInv'
  OBVIOUS
<1> USE DEF MonInv, Noted, MonitorReceive, Receive
<1>1. CacheInv'
  BY CacheInvKept DEF MonNext, MonStep
<1>2. MonTypeOK'
  BY <1>1 DEF CacheInv, MonTypeOK, BaseTypeOK, baseVars
<1>3. ProgressInv'
  BY DEF ProgressInv, Started, baseVars
<1>4. NotedInv' /\ FreshInv'
  BY DEF NotedInv, FreshInv, HasSnapshot
<1>5. FeedInv'
  BY DEF FeedInv, loopVars
<1>6. AlertInv'
  BY DEF AlertInv, AlertTellsBaseline, baseVars
<1> QED
  BY <1>1, <1>2, <1>3, <1>4, <1>5, <1>6

LEMMA SnapshotInv == MonInv /\ MonitorSnapshot => MonInv'
<1> SUFFICES ASSUME MonInv, MonitorSnapshot PROVE MonInv'
  OBVIOUS
<1> USE DEF MonInv, Noted, MonitorSnapshot
<1>1. CacheInv'
  BY CacheInvKept DEF MonNext, MonStep
<1>2. MonTypeOK'
  BY <1>1 DEF CacheInv, CacheTypeOK, MonTypeOK, BaseTypeOK, baseVars
<1>3. ProgressInv'
  BY DEF ProgressInv, Started, baseVars, cacheVars
<1>4. NotedInv'
  BY DEF NotedInv
<1>5. FreshInv'
  BY DEF FreshInv, cacheVars
<1>6. FeedInv'
  BY DEF FeedInv, MonTypeOK, CacheTypeOK, Cycles, cacheVars
<1>7. AlertInv'
  BY DEF AlertInv, AlertTellsBaseline, baseVars
<1> QED
  BY <1>1, <1>2, <1>3, <1>4, <1>5, <1>6, <1>7

\* The steps of evaluate that leave the baseline alone.
LEMMA EvaluateQuietInv ==
  ASSUME MonInv, NEW k \in Monitored,
         EvaluateMissing(k) \/ EvaluateSame(k) \/ EvaluateCount(k)
  PROVE  MonInv'
<1> USE DEF MonInv, Noted, EvaluateMissing, EvaluateSame, EvaluateCount, Turn
<1>1. CacheInv'
  BY CacheInvKept DEF MonNext, MonStep
<1>2. MonTypeOK'
  <2>1. snapshot[k] \in Result
    BY ServicesAssumption DEF MonTypeOK
  <2>2. Count(k) \in Nat /\ CountedChecks(k) \in SUBSET Cycles
    BY <2>1 DEF MonTypeOK, Count, CountedChecks, Result
  <2>3. [status |-> Raw(k), count |-> Count(k)] \in
          [status : Statuses \union {None}, count : Nat]
    BY <2>1, <2>2 DEF Raw, Result
  <2>4. NoPending \in [status : Statuses \union {None}, count : Nat]
    BY DEF NoPending
  <2>5. pending' \in [Monitored -> [status : Statuses \union {None}, count : Nat]]
    BY <2>3, <2>4 DEF MonTypeOK, ForgetPending
  <2>6. counted' \in [Monitored -> SUBSET Cycles]
    BY <2>2 DEF MonTypeOK, ForgetPending
  <2> QED
    BY <1>1, <2>5, <2>6 DEF CacheInv, MonTypeOK, BaseTypeOK, baseVars
<1>3. ProgressInv'
  BY DEF ProgressInv, Started, baseVars, cacheVars
<1>4. NotedInv'
  <2>1. /\ UNCHANGED <<monPC, snapshot, confirmed>>
        /\ \A j \in Monitored : j # k => pending'[j] = pending[j] /\ (j \in todo' <=> j \in todo)
    BY DEF baseVars, ForgetPending, MonTypeOK
  <2>2. ASSUME NEW j \in Monitored \ todo', Has(snapshot, j), j # k
        PROVE  Noted(j, snapshot[j].status)'
    BY <2>1, <2>2 DEF NotedInv, HasSnapshot
  <2>3. Has(snapshot, k) => Noted(k, snapshot[k].status)'
    BY <2>1 DEF ForgetPending, Differs, Raw, MonTypeOK
  <2> QED
    BY <2>1, <2>2, <2>3 DEF NotedInv, Has
<1>5. FreshInv'
  BY DEF FreshInv, HasSnapshot, cacheVars
<1>6. FeedInv'
  BY DEF FeedInv, cacheVars
<1>7. AlertInv'
  BY DEF AlertInv, AlertTellsBaseline, baseVars
<1> QED
  BY <1>1, <1>2, <1>3, <1>4, <1>5, <1>6, <1>7

LEMMA EvaluateConfirmInv ==
  ASSUME MonInv, NEW k \in Monitored, EvaluateConfirm(k)
  PROVE  MonInv'
<1> USE DEF MonInv, Noted, EvaluateConfirm, Turn, Confirm
<1>1. CacheInv'
  BY CacheInvKept DEF MonNext, MonStep
<1>2. Raw(k) \in Statuses /\ Known(Raw(k))
  BY ServicesAssumption DEF MonTypeOK, Differs, Has, Raw, Result, Known
<1>3. MonTypeOK'
  BY <1>1, <1>2 DEF CacheInv, MonTypeOK, BaseTypeOK, ForgetPending, NoPending
<1>4. ProgressInv'
  BY DEF ProgressInv, Started, cacheVars
<1>5. NotedInv'
  BY DEF NotedInv, HasSnapshot, MonTypeOK, BaseTypeOK, ForgetPending, Raw, Has, NoPending
<1>6. FreshInv'
  BY DEF FreshInv, HasSnapshot, cacheVars
<1>7. FeedInv'
  BY DEF FeedInv, cacheVars
<1>8. AlertInv'
  BY <1>2 DEF AlertInv, AlertTellsBaseline, MonTypeOK, BaseTypeOK
<1> QED
  BY <1>1, <1>3, <1>4, <1>5, <1>6, <1>7, <1>8

LEMMA SaveInv == MonInv /\ MonitorSave => MonInv'
<1> SUFFICES ASSUME MonInv, MonitorSave PROVE MonInv'
  OBVIOUS
<1> USE DEF MonInv, Noted, MonitorSave, SaveState, SaveFails, evalVars
<1>1. CacheInv'
  BY CacheInvKept DEF MonNext, MonStep
<1>2. MonTypeOK'
  BY <1>1 DEF CacheInv, MonTypeOK, BaseTypeOK
<1>3. ProgressInv'
  BY DEF ProgressInv, Started, cacheVars
<1>4. NotedInv' /\ FreshInv'
  BY DEF NotedInv, FreshInv, HasSnapshot, Has, cacheVars
<1>5. FeedInv'
  BY DEF FeedInv, cacheVars
<1>6. AlertInv'
  BY DEF AlertInv, AlertTellsBaseline
<1> QED
  BY <1>1, <1>2, <1>3, <1>4, <1>5, <1>6

LEMMA DispatchInv == MonInv /\ MonitorDispatch => MonInv'
<1> SUFFICES ASSUME MonInv, MonitorDispatch PROVE MonInv'
  OBVIOUS
<1> USE DEF MonInv, Noted, MonitorDispatch, Dispatch, evalVars
<1>1. CacheInv'
  BY CacheInvKept DEF MonNext, MonStep
<1>2. Health(change.cur) \in {"up", "down"}
  BY DEF Health
<1>3. MonTypeOK'
  BY <1>1, <1>2 DEF CacheInv, MonTypeOK, BaseTypeOK
<1>4. ProgressInv'
  BY DEF ProgressInv, Started, cacheVars
<1>5. NotedInv' /\ FreshInv'
  BY DEF NotedInv, FreshInv, HasSnapshot, Has, cacheVars
<1>6. FeedInv'
  BY DEF FeedInv, cacheVars
<1>7. AlertInv'
  BY ServicesAssumption
  DEF AlertInv, AlertTellsBaseline, MonTypeOK, BaseTypeOK, Alerting, Health, Known
<1> QED
  BY <1>1, <1>3, <1>4, <1>5, <1>6, <1>7

LEMMA EvaluateEndInv == MonInv /\ EvaluateEnd => MonInv'
<1> SUFFICES ASSUME MonInv, EvaluateEnd PROVE MonInv'
  OBVIOUS
<1> USE DEF MonInv, Noted, EvaluateEnd
<1>1. CacheInv'
  BY CacheInvKept DEF MonNext, MonStep
<1>2. MonTypeOK'
  BY <1>1 DEF CacheInv, MonTypeOK, BaseTypeOK, baseVars
<1>3. ProgressInv'
  BY DEF ProgressInv, Started, baseVars, cacheVars
<1>4. NotedInv' /\ FreshInv'
  BY DEF NotedInv, FreshInv, HasSnapshot, Has, baseVars, cacheVars
<1>5. FeedInv'
  BY DEF FeedInv, MonTypeOK, CacheTypeOK, Cycles, cacheVars
<1>6. AlertInv'
  BY DEF AlertInv, AlertTellsBaseline, baseVars
<1> QED
  BY <1>1, <1>2, <1>3, <1>4, <1>5, <1>6

-----------------------------------------------------------------------------
(* The theorems.                                                              *)

LEMMA MonInvariant == MonSpec => []MonInv
<1>1. MonInv /\ [MonNext]_monVars => MonInv'
  BY CacheStepInv, LoadInv, SubscribeInv, ReceiveInv, SnapshotInv, EvaluateQuietInv,
     EvaluateConfirmInv, SaveInv, DispatchInv, EvaluateEndInv, MonStutterInv
  DEF MonNext, MonStep, MonBoundReached, BoundReached, monVars
<1> QED
  BY <1>1, MonInitInv, PTL DEF MonSpec

\* The composed system keeps its types; the cache keeps its own promises in it.
THEOREM MonTypes == MonSpec => [](MonTypeOK /\ NoSendOnClosed /\ SnapshotAge /\ NoMissedSignal)
<1>1. MonInv => MonTypeOK /\ NoSendOnClosed /\ SnapshotAge /\ NoMissedSignal
  BY CacheInvImplies DEF MonInv
<1> QED
  BY <1>1, MonInvariant, PTL

\* No refresh gets lost: a monitor with nothing left to read has taken note of
\* everything the cache holds.
THEOREM NoLostRefresh == MonSpec => []QuietMeansCaughtUp
<1>1. MonInv => QuietMeansCaughtUp
  BY DEF MonInv, ProgressInv, NotedInv, FreshInv, HasSnapshot, QuietMeansCaughtUp, Noted
<1> QED
  BY <1>1, MonInvariant, PTL

\* The last alert of a service tells the health of its baseline.
THEOREM LastAlertIsBaseline == MonSpec => []AlertTellsBaseline
<1>1. MonInv => AlertTellsBaseline
  BY DEF MonInv, AlertInv
<1> QED
  BY <1>1, MonInvariant, PTL

\* Alerts of a service alternate between down and up.
THEOREM Alternation == MonSpec => AlertsAlternate
<1>1. MonInv /\ [MonNext]_monVars =>
        [\A k \in Monitored :
           alerts'[k].sent # alerts[k].sent => alerts'[k].last # alerts[k].last]_baseVars
  <2> SUFFICES ASSUME MonInv, [MonNext]_monVars, NEW k \in Monitored,
                      alerts'[k].sent # alerts[k].sent
               PROVE  alerts'[k].last # alerts[k].last
    OBVIOUS
  <2>1. CASE MonitorDispatch
    BY <2>1 DEF MonitorDispatch, Dispatch, MonInv, AlertInv, MonTypeOK, BaseTypeOK, Alerting,
                Health, Healthy
  <2>2. CASE UNCHANGED alerts
    BY <2>2
  <2> QED
    BY <2>1, <2>2
    DEF MonNext, MonStep, CacheStep, MonBoundReached, monVars, baseVars, MonitorLoad,
        LoadBaseline, MonitorSubscribe, MonitorReceive, MonitorSnapshot, EvaluateMissing,
        EvaluateSame, EvaluateCount, EvaluateConfirm, Confirm, MonitorSave, SaveState, SaveFails,
        EvaluateEnd
<1> QED
  BY <1>1, MonInvariant, PTL DEF MonSpec, AlertsAlternate

\* The monitor's refreshes are steps of the abstract feed: they advance one at a
\* time, and the monitor acts on them in order and never ahead of them.
THEOREM FeedSteps == MonSpec => Feed!FeedInit /\ [][Feed!FeedNext]_(Feed!feedVars)
<1>1. MonInit => Feed!FeedInit
  BY DEF MonInit, CacheInit, Feed!FeedInit
<1>2. MonInv /\ [MonNext]_monVars => [Feed!FeedNext]_(Feed!feedVars)
  <2> SUFFICES ASSUME MonInv, [MonNext]_monVars PROVE [Feed!FeedNext]_(Feed!feedVars)
    OBVIOUS
  <2>1. CASE FinishRefresh /\ UNCHANGED acted
    BY <2>1, MaxCycleAssumption
    DEF FinishRefresh, MonInv, CacheInv, CacheTypeOK, Cycles, Feed!FeedNext, Feed!Publish
  <2>2. CASE EvaluateEnd
    BY <2>2, MaxCycleAssumption
    DEF EvaluateEnd, MonInv, MonTypeOK, CacheTypeOK, Cycles, FeedInv, cacheVars,
        Feed!FeedNext, Feed!Observe, Feed!feedVars
  <2>3. CASE UNCHANGED <<lastRefreshed, acted>>
    BY <2>3 DEF Feed!feedVars
  <2> QED
    BY <2>1, <2>2, <2>3
    DEF MonNext, MonStep, CacheStep, LoopStep, StartRefresh, FinishCheck, StartNotify, Notify,
        FinishNotify, loopVars, MonBoundReached, BoundReached, monVars, cacheVars, evalVars,
        MonitorLoad, MonitorSubscribe, Subscribe, MonitorReceive, Receive, MonitorSnapshot,
        EvaluateMissing, EvaluateSame, EvaluateCount, EvaluateConfirm, MonitorSave,
        MonitorDispatch
<1> QED
  BY <1>1, <1>2, MonInvariant, PTL DEF MonSpec

-----------------------------------------------------------------------------
(* How often the debounce can count a check.  A result can still be shown to  *)
(* the monitor by a snapshot it is about to take, by a signal in its buffer,  *)
(* and by the signal of the refresh that is under way: three at most, and     *)
(* each evaluation uses one of them up.                                       *)

One(b) == IF b THEN 1 ELSE 0

\* The refresh that stored the result of k has still to signal the monitor.
SignalToCome(k) ==
    \/ loopPC = "check" /\ k \notin inflight
    \/ loopPC = "refreshed"
    \/ loopPC = "notify" /\ MonitorCh \in toNotify

Showings(k) == One(monPC = "read") + One(signal[MonitorCh]) + One(SignalToCome(k))

\* The snapshot in hand is about to count a check that is counted already.
AboutToRecount(k) == k \in todo /\ snapshot[k].cycle \in counted[k]

Recounts(k) ==
    One(AboutToRecount(k)) + (IF results[k].cycle \in counted[k] THEN Showings(k) ELSE 0)

CountInvOf(k) ==
    /\ IsFiniteSet(counted[k])
    /\ \A n \in counted[k] : n <= snapshot[k].cycle
    /\ snapshot[k].cycle <= results[k].cycle
    /\ pending[k].count + Recounts(k) <= 3 * Cardinality(counted[k])

CountInv == \A k \in Monitored : CountInvOf(k)

LEMMA CountInitInv == MonInit => CountInv
<1> SUFFICES ASSUME MonInit, NEW k \in Monitored PROVE CountInvOf(k)
  BY DEF CountInv
<1>1. counted[k] = {} /\ pending[k].count = 0 /\ snapshot[k].cycle = 0 /\ results[k].cycle = 0
  BY ServicesAssumption DEF MonInit, CacheInit, NoPending, EmptySnapshot, Absent
<1>2. Cardinality({}) = 0 /\ IsFiniteSet({})
  BY FS_EmptySet
<1> QED
  BY <1>1, <1>2 DEF CountInvOf, Recounts, AboutToRecount, One

\* A step of the loop: a stored result is of a new cycle, counted by nobody, and
\* the notification only turns the signal to come into a signal.
LEMMA CountCacheStep ==
  ASSUME MonInv, CacheStep, NEW k \in Monitored, CountInvOf(k)
  PROVE  CountInvOf(k)'
<1>1. UNCHANGED <<monPC, snapshot, todo, pending, counted>>
  BY DEF CacheStep, evalVars
<1>2. Cardinality(counted[k]) \in Nat /\ pending[k].count \in Nat
  BY FS_CardinalityType DEF CountInvOf, MonInv, MonTypeOK
<1>3. /\ k \in Keys
      /\ results[k].cycle \in Nat
      /\ snapshot[k].cycle \in Nat
      /\ counted[k] \subseteq Nat
  BY ServicesAssumption DEF MonInv, MonTypeOK, CacheTypeOK, Result, Cycles
<1>4. CASE results'[k].cycle = results[k].cycle /\ Showings(k)' <= Showings(k)
  <2>1. Recounts(k)' <= Recounts(k)
    BY <1>1, <1>4 DEF Recounts, AboutToRecount, Showings, One
  <2>2. Recounts(k) \in Nat /\ Recounts(k)' \in Nat
    BY DEF Recounts, Showings, One
  <2> QED
    BY <1>1, <1>2, <1>4, <2>1, <2>2 DEF CountInvOf
<1>5. CASE results'[k].cycle = results[k].cycle + 1
  <2>1. results'[k].cycle \notin counted'[k]
    BY <1>1, <1>3, <1>5 DEF CountInvOf
  <2>2. Recounts(k)' <= Recounts(k)
    BY <1>1, <2>1 DEF Recounts, AboutToRecount, Showings, One
  <2>3. Recounts(k) \in Nat /\ Recounts(k)' \in Nat
    BY DEF Recounts, Showings, One
  <2> QED
    BY <1>1, <1>2, <1>3, <1>5, <2>2, <2>3 DEF CountInvOf
<1>6. CASE StartRefresh
  BY <1>1, <1>3, <1>4, <1>6 DEF StartRefresh, Showings, SignalToCome, One
<1>7. ASSUME NEW j \in Keys, NEW s \in Statuses, FinishCheck(j, s)
      PROVE  CountInvOf(k)'
  <2>1. CASE j = k
    BY <1>3, <1>5, <1>7, <2>1 DEF FinishCheck, MonInv, CacheInv, CacheTypeOK, Cycles
  <2>2. CASE j # k
    <3>1. results'[k] = results[k]
      BY <1>7, <2>2 DEF FinishCheck, MonInv, MonTypeOK, CacheTypeOK
    <3>2. Showings(k)' = Showings(k)
      BY <1>1, <1>7, <2>2 DEF FinishCheck, Showings, SignalToCome, One
    <3> QED
      BY <1>4, <3>1, <3>2 DEF Showings, One
  <2> QED
    BY <2>1, <2>2
<1>8. CASE FinishRefresh
  BY <1>1, <1>4, <1>8 DEF FinishRefresh, Showings, SignalToCome, One
<1>9. CASE StartNotify
  BY <1>1, <1>4, <1>9 DEF StartNotify, Showings, SignalToCome, One
<1>10. ASSUME NEW c \in Subs, Notify(c) PROVE CountInvOf(k)'
  <2>1. Showings(k)' <= Showings(k)
    BY <1>1, <1>10, MonitorAssumption
    DEF Notify, loopVars, Showings, SignalToCome, One, MonInv, MonTypeOK, CacheTypeOK
  <2> QED
    BY <1>4, <1>10, <2>1 DEF Notify, loopVars
<1>11. CASE FinishNotify
  BY <1>1, <1>4, <1>11 DEF FinishNotify, Showings, SignalToCome, One
<1> QED
  BY <1>6, <1>7, <1>8, <1>9, <1>10, <1>11 DEF CacheStep, LoopStep

\* The steps of the monitor that count nothing.
LEMMA CountQuietStep ==
  ASSUME MonInv, NEW k \in Monitored, CountInvOf(k),
         \/ MonitorLoad \/ MonitorSubscribe \/ MonitorReceive \/ MonitorSnapshot
         \/ MonitorSave \/ MonitorDispatch \/ EvaluateEnd
  PROVE  CountInvOf(k)'
<1>1. UNCHANGED <<results, pending, counted>>
  BY DEF MonitorLoad, MonitorSubscribe, MonitorReceive, MonitorSnapshot, MonitorSave,
         MonitorDispatch, EvaluateEnd, Subscribe, Receive, loopVars, cacheVars, evalVars
<1>2. Cardinality(counted[k]) \in Nat /\ pending[k].count \in Nat
  BY FS_CardinalityType DEF CountInvOf, MonInv, MonTypeOK
<1>3. /\ k \in Keys
      /\ results[k].cycle \in Nat
      /\ snapshot[k].cycle \in Nat
      /\ counted[k] \subseteq Nat
  BY ServicesAssumption DEF MonInv, MonTypeOK, CacheTypeOK, Result, Cycles
<1>4. Recounts(k) \in Nat /\ Recounts(k)' \in Nat
  BY DEF Recounts, Showings, One
<1>5. CASE MonitorSubscribe
  <2>1. counted[k] = {} /\ todo = {}
    BY <1>5 DEF MonitorSubscribe, MonInv, ProgressInv, Started
  <2>2. Recounts(k)' = 0
    BY <1>1, <1>5, <2>1 DEF MonitorSubscribe, Recounts, AboutToRecount, One
  <2> QED
    BY <1>1, <1>2, <1>4, <1>5, <2>2 DEF CountInvOf, MonitorSubscribe
<1>6. CASE MonitorReceive
  <2>1. Showings(k)' = Showings(k)
    BY <1>6, MonitorAssumption
    DEF MonitorReceive, Receive, loopVars, Showings, SignalToCome, One, MonInv, MonTypeOK,
        CacheTypeOK
  <2>2. Recounts(k)' = Recounts(k)
    BY <1>1, <1>6, <2>1 DEF MonitorReceive, Recounts, AboutToRecount, One
  <2> QED
    BY <1>1, <1>6, <2>2 DEF CountInvOf, MonitorReceive
<1>7. CASE MonitorSnapshot
  <2>1. Showings(k) = Showings(k)' + 1
    BY <1>7 DEF MonitorSnapshot, cacheVars, Showings, SignalToCome, One
  <2>2. Showings(k)' \in Nat
    BY DEF Showings, One
  <2>3. Recounts(k)' <= Recounts(k)
    BY <1>1, <1>7, <2>1, <2>2 DEF MonitorSnapshot, Recounts, AboutToRecount, One
  <2>4. \A n \in counted[k] : n <= results[k].cycle
    BY <1>3 DEF CountInvOf
  <2> QED
    BY <1>1, <1>2, <1>3, <1>4, <1>7, <2>3, <2>4 DEF CountInvOf, MonitorSnapshot
<1>8. CASE MonitorLoad \/ MonitorSave \/ MonitorDispatch \/ EvaluateEnd
  <2>1. UNCHANGED <<snapshot, todo>> /\ Showings(k)' <= Showings(k)
    BY <1>8
    DEF MonitorLoad, MonitorSave, MonitorDispatch, EvaluateEnd, cacheVars, evalVars, Showings,
        SignalToCome, One
  <2>2. Recounts(k)' <= Recounts(k)
    BY <1>1, <2>1 DEF Recounts, AboutToRecount, Showings, One
  <2> QED
    BY <1>1, <1>2, <1>4, <2>1, <2>2 DEF CountInvOf
<1> QED
  BY <1>5, <1>6, <1>7, <1>8

\* evaluate has taken the snapshot: two more can show the same result at most.
LEMMA TwoShowings == ASSUME NEW k, monPC = "evaluate" PROVE Showings(k) \in 0 .. 2
  BY DEF Showings, One

\* One service's turn, for that service.
LEMMA CountTurn ==
  ASSUME MonInv, NEW k \in Monitored, CountInvOf(k),
         \/ EvaluateMissing(k) \/ EvaluateSame(k) \/ EvaluateCount(k) \/ EvaluateConfirm(k)
  PROVE  CountInvOf(k)'
<1>1. /\ Turn(k)
      /\ UNCHANGED <<results, snapshot, monPC>>
      /\ Showings(k)' = Showings(k)
  BY DEF EvaluateMissing, EvaluateSame, EvaluateCount, EvaluateConfirm, cacheVars, Turn, Confirm,
         Showings, SignalToCome, One
<1>2. Cardinality(counted[k]) \in Nat /\ pending[k].count \in Nat
  BY FS_CardinalityType DEF CountInvOf, MonInv, MonTypeOK
<1>3. /\ k \in Keys
      /\ results[k].cycle \in Nat
      /\ snapshot[k].cycle \in Nat
      /\ counted[k] \subseteq Nat
  BY ServicesAssumption DEF MonInv, MonTypeOK, CacheTypeOK, Result, Cycles
<1>4. ~AboutToRecount(k)' /\ k \in todo
  BY <1>1 DEF AboutToRecount, Turn
<1>5. CASE counted'[k] = {} /\ pending'[k].count = 0
  BY <1>1, <1>4, <1>5, FS_EmptySet, <1>3 DEF CountInvOf, Recounts, One
<1>6. CASE EvaluateMissing(k)
  <2>1. UNCHANGED <<pending, counted>>
    BY <1>6 DEF EvaluateMissing
  <2>2. Recounts(k)' <= Recounts(k) /\ Recounts(k) \in Nat /\ Recounts(k)' \in Nat
    BY <1>1, <1>4, <2>1 DEF Recounts, Showings, One
  <2> QED
    BY <1>1, <1>2, <2>1, <2>2 DEF CountInvOf
<1>7. CASE EvaluateCount(k) /\ pending[k].status = Raw(k)
  <2> DEFINE y == snapshot[k].cycle
             C == counted[k]
  <2>1. /\ pending'[k].count = pending[k].count + 1
        /\ counted'[k] = C \union {y}
    BY <1>7 DEF EvaluateCount, MonInv, MonTypeOK, Count, CountedChecks
  <2>2. IsFiniteSet(counted'[k]) /\ \A n \in counted'[k] : n <= y
    BY <1>3, <2>1, FS_AddElement DEF CountInvOf
  <2>3. Showings(k) \in 0 .. 2
    BY <1>1, TwoShowings DEF Turn
  <2>4. CASE y \in C
    <3>1. counted'[k] = C
      BY <2>1, <2>4
    <3>2. Recounts(k) = Recounts(k)' + 1
      BY <1>1, <1>4, <2>3, <2>4, <3>1 DEF Recounts, AboutToRecount, One
    <3>3. Recounts(k)' \in Nat
      BY <1>1, <1>4, <2>3 DEF Recounts, One
    <3>4. pending'[k].count + Recounts(k)' = pending[k].count + Recounts(k)
      BY <1>2, <2>1, <3>2, <3>3
    <3>5. pending[k].count + Recounts(k) <= 3 * Cardinality(counted[k])
      BY DEF CountInvOf
    <3>6. pending'[k].count + Recounts(k)' <= 3 * Cardinality(counted'[k])
      BY <3>1, <3>4, <3>5
    <3>7. /\ IsFiniteSet(counted'[k])
          /\ \A n \in counted'[k] : n <= snapshot'[k].cycle
          /\ snapshot'[k].cycle <= results'[k].cycle
      BY <1>1, <2>2 DEF CountInvOf
    <3> QED
      BY <3>6, <3>7 DEF CountInvOf
  <2>5. CASE y \notin C
    <3>1. Cardinality(counted'[k]) = Cardinality(C) + 1
      BY <2>1, <2>5, FS_AddElement DEF CountInvOf
    <3>2. results[k].cycle \notin C
      BY <1>3, <2>5 DEF CountInvOf
    <3>3. Recounts(k) = 0
      BY <2>5, <3>2 DEF Recounts, AboutToRecount, One
    <3>4. Recounts(k)' \in 0 .. 2
      BY <1>1, <1>4, <2>3 DEF Recounts, One
    <3> QED
      BY <1>1, <1>2, <2>1, <2>2, <3>1, <3>3, <3>4 DEF CountInvOf
  <2> QED
    BY <2>4, <2>5
<1>8. CASE EvaluateCount(k) /\ pending[k].status # Raw(k)
  <2>1. pending'[k].count = 1 /\ counted'[k] = {snapshot[k].cycle}
    BY <1>8 DEF EvaluateCount, MonInv, MonTypeOK, Count, CountedChecks
  <2>2. IsFiniteSet(counted'[k]) /\ Cardinality(counted'[k]) = 1
    BY <2>1, FS_Singleton
  <2>3. Recounts(k)' \in 0 .. 2
    BY <1>1, <1>4, TwoShowings DEF Recounts, One, Turn
  <2> QED
    BY <1>1, <1>3, <2>1, <2>2, <2>3 DEF CountInvOf
<1>9. CASE EvaluateSame(k) \/ EvaluateConfirm(k)
  BY <1>5, <1>9 DEF EvaluateSame, EvaluateConfirm, ForgetPending, NoPending, MonInv, MonTypeOK
<1> QED
  BY <1>6, <1>7, <1>8, <1>9

\* One service's turn, for another service.
LEMMA CountOtherTurn ==
  ASSUME MonInv, NEW j \in Monitored, NEW k \in Monitored, j # k, CountInvOf(k),
         \/ EvaluateMissing(j) \/ EvaluateSame(j) \/ EvaluateCount(j) \/ EvaluateConfirm(j)
  PROVE  CountInvOf(k)'
<1>1. /\ UNCHANGED <<results, snapshot>>
      /\ Showings(k)' = Showings(k)
      /\ k \in todo' <=> k \in todo
  BY DEF EvaluateMissing, EvaluateSame, EvaluateCount, EvaluateConfirm, cacheVars, Turn, Confirm,
         Showings, SignalToCome, One
<1>2. pending'[k] = pending[k] /\ counted'[k] = counted[k]
  BY DEF EvaluateMissing, EvaluateSame, EvaluateCount, EvaluateConfirm, ForgetPending, MonInv,
         MonTypeOK
<1> QED
  BY <1>1, <1>2 DEF CountInvOf, Recounts, AboutToRecount, One

\* In the debounce a check counts three times at most, however the signals and
\* the refreshes interleave: a change of a known service rests on more than one
\* check as soon as Confirmations is above three.
THEOREM DebounceBound == MonSpec => []CountBound
<1>1. MonInv /\ CountInv /\ [MonNext]_monVars => CountInv'
  <2> SUFFICES ASSUME MonInv, CountInv, [MonNext]_monVars, NEW k \in Monitored
               PROVE  CountInvOf(k)'
    BY DEF CountInv
  <2>1. CountInvOf(k)
    BY DEF CountInv
  <2>2. CASE UNCHANGED monVars
    BY <2>1, <2>2
    DEF monVars, cacheVars, evalVars, CountInvOf, Recounts, AboutToRecount, Showings,
        SignalToCome, One
  <2> QED
    BY <2>1, <2>2, CountCacheStep, CountQuietStep, CountTurn, CountOtherTurn
    DEF MonNext, MonStep, MonBoundReached, BoundReached, monVars
<1>2. MonInv /\ CountInv => CountBound
  <2> SUFFICES ASSUME MonInv, CountInv, NEW k \in Monitored
               PROVE  pending[k].count <= 3 * Cardinality(counted[k])
    BY DEF CountBound
  <2>1. Cardinality(counted[k]) \in Nat /\ pending[k].count \in Nat /\ Recounts(k) \in Nat
    BY FS_CardinalityType
    DEF CountInv, CountInvOf, MonInv, MonTypeOK, Recounts, Showings, One
  <2> QED
    BY <2>1 DEF CountInv, CountInvOf
<1> QED
  BY <1>1, <1>2, CountInitInv, MonInvariant, PTL DEF MonSpec

-----------------------------------------------------------------------------
(* The stream handlers on the cache.                                       *)

\* The handler of c is in the loop it enters with Subscribe.
InLoop(c) == handler[c] \in {"select", "snapshot", "next", "write"}

\* No refresh is stored that c has not been notified of.
Notified(c) == loopPC = "wait" \/ (loopPC = "notify" /\ c \notin toNotify)

\* From the read of the snapshot to the client: without an unread signal, what
\* the handler has in hand is what the cache holds.
EventInv ==
    \A c \in Clients :
        /\ signalled[c] => InLoop(c) \/ handler[c] = "done"
        /\ Notified(c) /\ ~signal[c] =>
             /\ handler[c] = "next" => event[c].sites = results
             /\ handler[c] = "write" => event[c].sites = results /\ event[c].next = lastRefreshed
             /\ handler[c] = "select" /\ signalled[c] => Current(c)

StreamInv ==
    /\ CacheInv
    /\ StreamTypeOK
    /\ ChannelsOfHandlers
    /\ EventInv

LEMMA StreamInitInv == StreamInit => StreamInv
<1> SUFFICES ASSUME StreamInit PROVE StreamInv
  OBVIOUS
<1>1. CacheInv
  BY CacheInitInv DEF StreamInit
<1>2. StreamTypeOK
  BY <1>1, MaxCycleAssumption
  DEF CacheInv, StreamTypeOK, StreamInit, Building, Event, NoEvent, Absent, Result, Cycles,
      Clients
<1>3. ChannelsOfHandlers
  BY DEF ChannelsOfHandlers, StreamInit, CacheInit, Clients
<1>4. EventInv
  BY DEF EventInv, InLoop, Current, StreamInit, Clients
<1> QED
  BY <1>1, <1>2, <1>3, <1>4 DEF StreamInv

\* Seen from the cache, a handler only subscribes, cancels and receives.
LEMMA StreamCacheInv == CacheInv /\ [StreamNext]_vars => CacheInv'
<1> SUFFICES ASSUME CacheInv, [StreamNext]_vars PROVE CacheInv'
  OBVIOUS
<1>1. CASE UNCHANGED cacheVars
  BY <1>1, CacheStutterInv
<1>2. CASE LoopStep
  BY <1>2, LoopStepInv
<1>3. ASSUME NEW c \in Subs, Subscribe(c) \/ Cancel(c) \/ Receive(c) PROVE CacheInv'
  BY <1>3, CallerStepInv
<1> QED
  BY <1>1, <1>2, <1>3
  DEF StreamNext, CacheMoves, HandlerStep, ClientStep, StreamBoundReached, BoundReached, vars,
      Connect, ReadSnapshot, ReadNext, WriteEvent, StreamSubscribe, StreamReceive,
      FirstWriteFails, Leave, Clients

-----------------------------------------------------------------------------
LEMMA StreamStutterInv == StreamInv /\ UNCHANGED vars => StreamInv'
  BY DEF StreamInv, vars, cacheVars, streamVars, CacheInv, CacheTypeOK, NoSendOnClosed,
         StreamTypeOK, ChannelsOfHandlers, EventInv, InLoop, Notified, Current

\* A step of the loop: whoever is in the loop is registered, so a new
\* notification is on its way to it.
LEMMA StreamLoopInv == StreamInv /\ CacheMoves => StreamInv'
<1> SUFFICES ASSUME StreamInv, CacheMoves PROVE StreamInv'
  OBVIOUS
<1>1. CacheInv'
  BY StreamCacheInv DEF StreamInv, StreamNext
<1>2. StreamTypeOK'
  BY <1>1 DEF CacheInv, StreamInv, StreamTypeOK, CacheMoves, streamVars
<1>3. subs' = subs
  BY DEF CacheMoves, LoopStep, StartRefresh, FinishCheck, FinishRefresh, StartNotify, Notify,
         FinishNotify, loopVars
<1>4. ChannelsOfHandlers'
  BY <1>3 DEF StreamInv, ChannelsOfHandlers, CacheMoves, streamVars
<1>5. ASSUME NEW c \in Clients, InLoop(c), Notified(c)', ~signal'[c]
      PROVE  /\ Notified(c) /\ ~signal[c]
             /\ results' = results /\ lastRefreshed' = lastRefreshed
  BY <1>5
  DEF StreamInv, CacheInv, CacheTypeOK, ChannelsOfHandlers, InLoop, Notified, Clients, CacheMoves,
      LoopStep, StartRefresh, FinishCheck, FinishRefresh, StartNotify, Notify, FinishNotify,
      loopVars
<1>6. EventInv'
  BY <1>5 DEF StreamInv, EventInv, InLoop, Current, CacheMoves, streamVars
<1> QED
  BY <1>1, <1>2, <1>4, <1>6 DEF StreamInv

\* A step of a handler or of its client.
LEMMA StreamHandlerInv ==
  ASSUME StreamInv, NEW c \in Clients, HandlerStep(c) \/ ClientStep(c)
  PROVE  StreamInv'
<1>1. CacheInv'
  BY StreamCacheInv DEF StreamInv, StreamNext
<1>2. CacheTypeOK'
  BY <1>1 DEF CacheInv
<1> USE DEF StreamInv, StreamTypeOK, ChannelsOfHandlers, EventInv, InLoop, Notified, Current,
            Clients, Moves
<1>3. CASE Connect(c)
  BY <1>1, <1>2, <1>3 DEF Connect, cacheVars, Building
<1>4. CASE ReadSnapshot(c)
  <2>1. event' \in [Clients -> Event]
    BY <1>4 DEF ReadSnapshot, CacheInv, CacheTypeOK, Event
  <2>2. StreamTypeOK' /\ ChannelsOfHandlers'
    BY <1>2, <1>4, <2>1 DEF ReadSnapshot, cacheVars, Building
  <2>3. EventInv'
    BY <1>4 DEF ReadSnapshot, cacheVars, Event
  <2> QED
    BY <1>1, <2>2, <2>3
<1>5. CASE ReadNext(c)
  <2>1. event' \in [Clients -> Event]
    BY <1>5 DEF ReadNext, CacheInv, CacheTypeOK, Event
  <2>2. StreamTypeOK' /\ ChannelsOfHandlers'
    BY <1>2, <1>5, <2>1 DEF ReadNext, cacheVars, Building
  <2>3. EventInv'
    BY <1>5 DEF ReadNext, cacheVars, Event
  <2> QED
    BY <1>1, <2>2, <2>3
<1>6. CASE WriteEvent(c)
  <2>1. StreamTypeOK' /\ ChannelsOfHandlers'
    BY <1>2, <1>6 DEF WriteEvent, cacheVars, Building
  <2>2. EventInv'
    BY <1>6 DEF WriteEvent, cacheVars, Building
  <2> QED
    BY <1>1, <2>1, <2>2
<1>7. CASE StreamSubscribe(c)
  BY <1>1, <1>2, <1>7 DEF StreamSubscribe, Subscribe, loopVars, Building
<1>8. CASE StreamReceive(c)
  BY <1>1, <1>2, <1>8 DEF StreamReceive, Receive, loopVars, Building, CacheInv, CacheTypeOK
<1>9. CASE FirstWriteFails(c)
  BY <1>1, <1>2, <1>9 DEF FirstWriteFails, cacheVars, Building
<1>10. CASE Leave(c)
  BY <1>1, <1>2, <1>10 DEF Leave, Cancel, loopVars, Building
<1> QED
  BY <1>3, <1>4, <1>5, <1>6, <1>7, <1>8, <1>9, <1>10 DEF HandlerStep, ClientStep

LEMMA StreamInductive == StreamInv /\ [StreamNext]_vars => StreamInv'
  BY StreamStutterInv, StreamLoopInv, StreamHandlerInv
  DEF StreamNext, StreamBoundReached, BoundReached, vars

-----------------------------------------------------------------------------
\* The safety of the cache holds under any number of stream handlers that stall,
\* fail and leave as they like, and the types are kept.
THEOREM StreamCacheSafety ==
    StreamSpec => [](StreamTypeOK /\ NoSendOnClosed /\ SnapshotAge /\ NoMissedSignal)
<1>1. StreamInv => StreamTypeOK /\ NoSendOnClosed /\ SnapshotAge /\ NoMissedSignal
  BY CacheInvImplies DEF StreamInv
<1> QED
  BY <1>1, StreamInitInv, StreamInductive, PTL DEF StreamSpec

\* No handler leaks its channel, for any number of clients and any way to end.
THEOREM NoChannelLeak == StreamSpec => []ChannelsOfHandlers
<1>1. StreamInv => ChannelsOfHandlers
  BY DEF StreamInv
<1> QED
  BY <1>1, StreamInitInv, StreamInductive, PTL DEF StreamSpec

\* A client that has had one signal shows, whenever its handler waits and the
\* loop is at its ticker, the results of the last refresh.
THEOREM StreamCatchesUp == StreamSpec => []CaughtUpAfterSignal
<1>1. StreamInv => CaughtUpAfterSignal
  BY DEF StreamInv, EventInv, CaughtUpAfterSignal, Idle, Notified
<1> QED
  BY <1>1, StreamInitInv, StreamInductive, PTL DEF StreamSpec

=============================================================================
