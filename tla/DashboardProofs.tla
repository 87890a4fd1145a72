---------------------------- MODULE DashboardProofs ----------------------------
(***************************************************************************)
(* The page on a backend that comes and goes, for any sites, checks,       *)
(* events on their way and failures.  What is on its way to the page is in *)
(* the order of the checks and not older than what the page shows: that    *)
(* survives what a failure cuts off, and the cache that starts anew.       *)
(***************************************************************************)
EXTENDS Dashboard, SequenceTheorems, TLAPS

\* The results of s in w come in order, none below low nor above high.
InOrder(w, s, low, high) ==
    /\ \A i \in 1 .. Len(w) : w[i][s] # 0 => low <= w[i][s] /\ w[i][s] <= high
    /\ \A i, j \in 1 .. Len(w) :
         i < j /\ w[i][s] # 0 /\ w[j][s] # 0 => w[i][s] <= w[j][s]

\* A cached result is the last one, nobody has a later one.
SiteInv(s) ==
    /\ cache[s] \in {0, checks[s]}
    /\ edge[s] <= checks[s]
    /\ statusData[s] <= checks[s]
    /\ InOrder(wire, s, statusData[s], checks[s])

\* Nothing happens before the page is mounted; the first event ends the delay.
PageInv ==
    /\ page \in {"none", "rendered"} =>
         conn = "none" /\ wire = <<>> /\ ~due /\ ~heard /\ ~isDelayed /\ ~delayTimer
    /\ page = "none" => statusData = Nothing
    /\ heard => ~isDelayed /\ ~delayTimer

CardInv == \A s \in Sites : SiteInv(s)

DashInv == DashboardTypeOK /\ PageInv /\ CardInv

-----------------------------------------------------------------------------
(* Events on their way.                                                    *)

LEMMA ResultNumbers ==
  ASSUME NEW v \in Results, NEW s \in Sites
  PROVE  v[s] \in 0 .. MaxChecks /\ v[s] \in Nat
  BY DashboardAssumption DEF Results

LEMMA NothingResult == Nothing \in Results /\ \A s \in Sites : Nothing[s] = 0
  BY DashboardAssumption DEF Nothing, Results

LEMMA EventNumbers ==
  ASSUME NEW w \in Seq(Results), NEW s \in Sites
  PROVE  Len(w) \in Nat /\ \A i \in 1 .. Len(w) : w[i][s] \in Nat
<1>1. \A i \in 1 .. Len(w) : w[i] \in Results
  BY ElementOfSeq
<1> QED
  BY <1>1, LenProperties, ResultNumbers

\* What is cut off at the end leaves the rest in order.
LEMMA OrderOfPrefix ==
  ASSUME NEW w \in Seq(Results), NEW kept \in Prefixes(w)
  PROVE  /\ kept \in Seq(Results) /\ Len(kept) <= Len(w)
         /\ \A s, low, high : InOrder(w, s, low, high) => InOrder(kept, s, low, high)
<1>1. PICK l \in 0 .. Len(w) : kept = SubSeq(w, 1, l)
  BY DEF Prefixes
<1>2. Len(w) \in Nat /\ \A i \in 1 .. l : w[i] \in Results
  BY LenProperties, ElementOfSeq
<1>3. /\ kept \in Seq(Results)
      /\ Len(kept) = l
      /\ \A i \in 1 .. l : kept[i] = w[i]
  <2>1. /\ SubSeq(w, 1, l) \in Seq(Results)
        /\ Len(SubSeq(w, 1, l)) = IF 1 <= l THEN l - 1 + 1 ELSE 0
        /\ \A i \in 1 .. l - 1 + 1 : SubSeq(w, 1, l)[i] = w[1 + i - 1]
    BY <1>2, SubSeqProperties
  <2> QED
    BY <1>1, <1>2, <2>1
<1> QED
  BY <1>2, <1>3 DEF InOrder

\* The first event is taken and merged.
LEMMA OrderOfTail ==
  ASSUME NEW w \in Seq(Results), w # <<>>, NEW s \in Sites, NEW low \in Nat, NEW high \in Nat,
         low <= high, InOrder(w, s, low, high)
  PROVE  LET now == IF Head(w)[s] = 0 THEN low ELSE Head(w)[s]
         IN  low <= now /\ now <= high /\ InOrder(Tail(w), s, now, high)
<1>1. /\ Len(w) \in Nat \ {0} /\ Head(w) = w[1]
      /\ Len(Tail(w)) = Len(w) - 1
      /\ \A i \in 1 .. Len(Tail(w)) : Tail(w)[i] = w[i + 1]
  BY EmptySeq, LenProperties, HeadTailProperties
<1>2. \A i \in 1 .. Len(w) : w[i][s] \in Nat
  BY EventNumbers
<1> QED
  BY <1>1, <1>2 DEF InOrder

\* The last result, or none, is sent.
LEMMA OrderOfAppend ==
  ASSUME NEW w \in Seq(Results), NEW v \in Results, NEW s \in Sites, NEW low \in Nat, NEW high \in Nat,
         low <= high, v[s] \in {0, high}, InOrder(w, s, low, high)
  PROVE  InOrder(Append(w, v), s, low, high)
<1>1. /\ Len(w) \in Nat
      /\ Len(Append(w, v)) = Len(w) + 1
      /\ \A i \in 1 .. Len(w) : Append(w, v)[i] = w[i]
      /\ Append(w, v)[Len(w) + 1] = v
  BY LenProperties, AppendProperties
<1> QED
  BY <1>1 DEF InOrder

LEMMA OrderOfNone == ASSUME NEW s, NEW low, NEW high PROVE InOrder(<<>>, s, low, high)
<1>1. Len(<<>>) = 0
  BY EmptySeq
<1> QED
  BY <1>1 DEF InOrder

-----------------------------------------------------------------------------
(* The inductive invariant.                                                *)

LEMMA DashInitInv == DashboardInit => DashInv
<1> SUFFICES ASSUME DashboardInit PROVE DashInv
  OBVIOUS
<1>1. <<>> \in Seq(Results) /\ Len(<<>>) = 0
  BY EmptySeq
<1>2. DashboardTypeOK
  <2>1. 0 \in 0 .. MaxBreaks /\ wire \in Seq(Results) /\ Len(wire) <= MaxWire
    BY <1>1, DashboardAssumption DEF DashboardInit
  <2>2. conn \in ConnStates
    BY DEF DashboardInit, ConnStates
  <2> QED
    BY <2>1, <2>2, NothingResult DEF DashboardInit, DashboardTypeOK
<1>3. ASSUME NEW s \in Sites PROVE SiteInv(s)
  BY <1>1, NothingResult, OrderOfNone DEF DashboardInit, SiteInv
<1>4. PageInv
  BY DEF DashboardInit, PageInv
<1> QED
  BY <1>2, <1>3, <1>4 DEF DashInv, CardInv

LEMMA CheckInv == ASSUME DashInv, NEW k \in Sites, CheckSite(k) PROVE DashInv'
<1> USE DEF DashInv
<1>1. Checked(k) \in 0 .. MaxChecks /\ checks[k] <= Checked(k) /\ checks[k] \in Nat /\ Checked(k) \in Nat
  BY ResultNumbers, DashboardAssumption DEF DashboardTypeOK, Checked
<1>2. /\ checks' = [checks EXCEPT ![k] = Checked(k)] /\ cache' = [cache EXCEPT ![k] = Checked(k)]
      /\ todo' = todo \ {k}
      /\ UNCHANGED <<up, connVars, pageVars, breaks>>
  BY DEF CheckSite
<1>3. DashboardTypeOK'
  BY <1>1, <1>2 DEF DashboardTypeOK, Results, connVars, pageVars
<1>4. PageInv'
  BY <1>2 DEF PageInv, connVars, pageVars
<1>5. ASSUME NEW s \in Sites PROVE SiteInv(s)'
  <2>1. SiteInv(s) /\ checks[s] \in Nat /\ edge[s] \in Nat /\ statusData[s] \in Nat
    BY ResultNumbers DEF CardInv, DashboardTypeOK
  <2>2. checks[s] <= checks'[s] /\ checks'[s] \in Nat /\ cache'[s] \in {0, checks'[s]}
    BY <1>1, <1>2, <2>1 DEF DashboardTypeOK, Results, SiteInv
  <2>3. Len(wire) \in Nat /\ \A i \in 1 .. Len(wire) : wire[i][s] \in Nat
    BY EventNumbers DEF DashboardTypeOK
  <2>4. InOrder(wire, s, statusData[s], checks'[s])
    <3>1. InOrder(wire, s, statusData[s], checks[s])
      BY <2>1 DEF SiteInv
    <3>2. \A i \in 1 .. Len(wire) : wire[i][s] <= checks[s] => wire[i][s] <= checks'[s]
      BY <2>1, <2>2, <2>3
    <3> QED
      BY <3>1, <3>2 DEF InOrder
  <2> QED
    BY <1>2, <2>1, <2>2, <2>4 DEF SiteInv, connVars, pageVars
<1> QED
  BY <1>3, <1>4, <1>5 DEF CardInv

\* What breaks a connection, the backend's end or not.
LEMMA CutInv ==
  ASSUME DashInv, Cut, UNCHANGED <<checks, pageVars>>, up' \in BOOLEAN, breaks' \in 0 .. MaxBreaks,
         \/ cache' = Nothing /\ todo' = Sites
         \/ UNCHANGED <<cache, todo>>
  PROVE  DashInv'
<1> USE DEF DashInv
<1>1. wire' \in Prefixes(wire) /\ wire \in Seq(Results)
  BY DEF Cut, DashboardTypeOK
<1>2. /\ wire' \in Seq(Results) /\ Len(wire') <= Len(wire)
      /\ Len(wire) \in Nat /\ Len(wire') \in Nat
      /\ \A s, low, high : InOrder(wire, s, low, high) => InOrder(wire', s, low, high)
  BY <1>1, OrderOfPrefix, LenProperties
<1>3. DashboardTypeOK'
  <2>1. Len(wire') <= MaxWire
    BY <1>2, DashboardAssumption DEF DashboardTypeOK
  <2>2. cache' \in Results /\ todo' \subseteq Sites
    BY NothingResult DEF DashboardTypeOK
  <2> QED
    BY <1>2, <2>1, <2>2 DEF DashboardTypeOK, Cut, ConnStates, pageVars
<1>4. wire = <<>> => wire' = <<>>
  BY <1>1, <1>2, EmptySeq
<1>5. PageInv'
  BY <1>4 DEF PageInv, Cut, pageVars
<1>6. ASSUME NEW s \in Sites PROVE SiteInv(s)'
  BY <1>2, NothingResult DEF CardInv, SiteInv, pageVars
<1> QED
  BY <1>3, <1>5, <1>6 DEF CardInv

\* The handler writes what is cached.
LEMMA SendInv ==
  ASSUME DashInv, Len(wire) < MaxWire, wire' = Append(wire, cache), conn # "none",
         conn' \in ConnStates \ {"closed"}, due' \in BOOLEAN, page # "gone",
         UNCHANGED <<backendVars, pageVars, breaks>>
  PROVE  DashInv'
<1> USE DEF DashInv
<1>1. cache \in Results /\ wire \in Seq(Results)
  BY DEF DashboardTypeOK
<1>2. wire' \in Seq(Results) /\ Len(wire') <= MaxWire
  BY <1>1, AppendProperties, LenProperties, DashboardAssumption
<1>3. DashboardTypeOK'
  BY <1>2 DEF DashboardTypeOK, backendVars, pageVars
<1>4. PageInv'
  BY DEF PageInv, pageVars
<1>5. ASSUME NEW s \in Sites PROVE SiteInv(s)'
  <2>1. SiteInv(s) /\ checks[s] \in Nat /\ statusData[s] \in Nat
    BY ResultNumbers DEF CardInv, DashboardTypeOK
  <2>2. InOrder(wire', s, statusData[s], checks[s])
    BY <1>1, <2>1, OrderOfAppend DEF SiteInv
  <2> QED
    BY <2>1, <2>2 DEF SiteInv, backendVars, pageVars
<1> QED
  BY <1>3, <1>4, <1>5 DEF CardInv

LEMMA PrefetchInv == ASSUME DashInv, NEW k \in Sites, Prefetch(k) PROVE DashInv'
<1> USE DEF DashInv
<1>1. edge' = [edge EXCEPT ![k] = cache[k]]
      /\ UNCHANGED <<backendVars, connVars, breaks, page, statusData, delayTimer, isDelayed, heard>>
  BY DEF Prefetch
<1>2. DashboardTypeOK'
  BY <1>1, ResultNumbers DEF DashboardTypeOK, Results, backendVars, connVars
<1>3. PageInv'
  BY <1>1 DEF PageInv, connVars
<1>4. ASSUME NEW s \in Sites PROVE SiteInv(s)'
  <2>1. SiteInv(s) /\ checks[s] \in Nat
    BY ResultNumbers DEF CardInv, DashboardTypeOK
  <2>2. edge'[s] <= checks[s]
    BY <1>1, <2>1 DEF SiteInv, DashboardTypeOK, Results
  <2> QED
    BY <1>1, <2>1, <2>2 DEF SiteInv, backendVars, connVars
<1> QED
  BY <1>2, <1>3, <1>4 DEF CardInv

LEMMA RenderInv == DashInv /\ Render => DashInv'
<1> SUFFICES ASSUME DashInv, Render PROVE DashInv'
  OBVIOUS
<1> USE DEF DashInv
<1>1. wire = <<>>
  BY DEF Render, PageInv
<1>2. ASSUME NEW s \in Sites PROVE SiteInv(s)'
  <2>1. InOrder(wire, s, edge[s], checks[s])
    BY <1>1, OrderOfNone
  <2> QED
    BY <2>1 DEF Render, CardInv, SiteInv, backendVars, connVars
<1>3. DashboardTypeOK' /\ PageInv'
  BY DEF Render, DashboardTypeOK, PageInv, backendVars, connVars
<1> QED
  BY <1>2, <1>3 DEF CardInv

LEMMA Merged ==
  ASSUME NEW a \in Results, NEW b \in Results
  PROVE  /\ Merge(a, b) \in Results
         /\ \A s \in Sites : Merge(a, b)[s] = IF b[s] = 0 THEN a[s] ELSE b[s]
  BY DEF Merge, Results

\* What an event leaves a card with.
LEMMA MessageCard ==
  ASSUME DashInv, OnMessage, NEW s \in Sites
  PROVE  /\ statusData[s] <= statusData'[s] /\ statusData'[s] <= checks[s]
         /\ InOrder(wire', s, statusData'[s], checks[s])
<1>1. wire \in Seq(Results) /\ wire # <<>> /\ statusData \in Results
  BY DEF DashInv, DashboardTypeOK, OnMessage
<1>2. Head(wire) \in Results
  BY <1>1, HeadTailProperties
<1>3. statusData[s] \in Nat /\ checks[s] \in Nat /\ SiteInv(s)
  BY ResultNumbers DEF DashInv, DashboardTypeOK, CardInv
<1>4. CASE statusData' = Merge(statusData, Head(wire))
  <2>1. statusData'[s] = IF Head(wire)[s] = 0 THEN statusData[s] ELSE Head(wire)[s]
    BY <1>1, <1>2, <1>4, Merged
  <2> QED
    BY <1>1, <1>3, <2>1, OrderOfTail DEF OnMessage, SiteInv
<1>5. CASE statusData' = statusData
  <2>1. InOrder(Tail(wire), s, statusData[s], checks[s])
    <3>1. /\ Len(wire) \in Nat \ {0} /\ Len(Tail(wire)) = Len(wire) - 1
          /\ \A i \in 1 .. Len(Tail(wire)) : Tail(wire)[i] = wire[i + 1]
      BY <1>1, EmptySeq, LenProperties, HeadTailProperties
    <3> QED
      BY <1>3, <3>1 DEF SiteInv, InOrder
  <2> QED
    BY <1>3, <1>5, <2>1 DEF OnMessage, SiteInv
<1> QED
  BY <1>4, <1>5 DEF OnMessage, Takes

LEMMA MessageInv == DashInv /\ OnMessage => DashInv'
<1> SUFFICES ASSUME DashInv, OnMessage PROVE DashInv'
  OBVIOUS
<1>1. wire \in Seq(Results) /\ wire # <<>> /\ statusData \in Results /\ Len(wire) <= MaxWire
  BY DEF DashInv, DashboardTypeOK, OnMessage
<1>2. Head(wire) \in Results /\ Tail(wire) \in Seq(Results) /\ Len(Tail(wire)) <= MaxWire
  BY <1>1, HeadTailProperties, LenProperties, DashboardAssumption
<1>3. statusData' \in Results /\ breaks' \in 0 .. MaxBreaks
  BY <1>1, <1>2, Merged, DashboardAssumption DEF DashInv, DashboardTypeOK, OnMessage, Takes
<1>4. DashboardTypeOK'
  BY <1>2, <1>3 DEF DashInv, DashboardTypeOK, OnMessage, backendVars
<1>5. PageInv'
  BY DEF DashInv, PageInv, OnMessage
<1>6. ASSUME NEW s \in Sites PROVE SiteInv(s)'
  BY <1>4, MessageCard DEF DashInv, CardInv, SiteInv, OnMessage, backendVars
<1> QED
  BY <1>4, <1>5, <1>6 DEF DashInv, CardInv

\* The steps that touch neither results nor events.
LEMMA QuietInv ==
  ASSUME DashInv, FinishRefresh \/ Boot \/ HandlerSubscribes \/ Rejected \/ Mount \/ DelayTimerFires
  PROVE  DashInv'
<1>1. UNCHANGED <<checks, cache, edge, statusData, wire>>
  BY DEF FinishRefresh, Boot, HandlerSubscribes, Rejected, Mount, DelayTimerFires, backendVars,
         connVars, pageVars
<1>2. DashboardTypeOK'
  <2> USE DEF DashInv, DashboardTypeOK
  <2>1. CASE FinishRefresh
    BY <2>1 DEF FinishRefresh, pageVars
  <2>2. CASE Boot
    BY <2>2 DEF Boot, connVars, pageVars
  <2>3. CASE HandlerSubscribes
    BY <2>3 DEF HandlerSubscribes, backendVars, pageVars, ConnStates
  <2>4. CASE Rejected
    BY <2>4 DEF Rejected, backendVars, pageVars, ConnStates
  <2>5. CASE Mount
    BY <2>5 DEF Mount, backendVars, ConnStates
  <2>6. CASE DelayTimerFires
    BY <2>6 DEF DelayTimerFires, backendVars, connVars
  <2> QED
    BY <2>1, <2>2, <2>3, <2>4, <2>5, <2>6
<1>3. PageInv'
  BY DEF DashInv, PageInv, DashboardTypeOK, FinishRefresh, Boot, HandlerSubscribes, Rejected, Mount,
         DelayTimerFires, backendVars, connVars, pageVars
<1> QED
  BY <1>1, <1>2, <1>3 DEF DashInv, CardInv, SiteInv

LEMMA UnmountInv == DashInv /\ Unmount => DashInv'
<1> SUFFICES ASSUME DashInv, Unmount PROVE DashInv'
  OBVIOUS
<1>1. <<>> \in Seq(Results) /\ Len(<<>>) = 0
  BY EmptySeq
<1>2. DashboardTypeOK'
  <2>1. wire' \in Seq(Results) /\ Len(wire') <= MaxWire /\ conn' \in ConnStates
    BY <1>1, DashboardAssumption DEF Unmount, ConnStates
  <2> QED
    BY <2>1 DEF DashInv, DashboardTypeOK, Unmount, backendVars
<1>3. PageInv'
  BY DEF DashInv, PageInv, Unmount
<1>4. ASSUME NEW s \in Sites PROVE SiteInv(s)'
  BY OrderOfNone DEF DashInv, CardInv, SiteInv, Unmount, backendVars
<1> QED
  BY <1>2, <1>3, <1>4 DEF DashInv, CardInv

LEMMA DashInductive == DashInv /\ [DashboardNext]_dashboardVars => DashInv'
<1> SUFFICES ASSUME DashInv, [DashboardNext]_dashboardVars PROVE DashInv'
  OBVIOUS
<1>1. ASSUME NEW s \in Sites, CheckSite(s) \/ Prefetch(s) PROVE DashInv'
  BY <1>1, CheckInv, PrefetchInv
<1>2. CASE Crash \/ Break
  <2>1. breaks' \in 0 .. MaxBreaks
    BY <1>2, DashboardAssumption DEF Crash, Break, DashInv, DashboardTypeOK
  <2> QED
    BY <1>2, <2>1, CutInv DEF Crash, Break, backendVars, DashInv, DashboardTypeOK
<1>3. CASE Accept \/ Push
  <2>1. page # "gone"
    BY <1>3 DEF Accept, Push, DashInv, DashboardTypeOK
  <2> QED
    BY <1>3, <2>1, SendInv DEF Accept, Push, DashInv, DashboardTypeOK, ConnStates
<1>4. CASE FinishRefresh \/ Boot \/ HandlerSubscribes \/ Rejected \/ Mount \/ DelayTimerFires
  BY <1>4, QuietInv
<1>5. CASE Render \/ OnMessage \/ Unmount
  BY <1>5, RenderInv, MessageInv, UnmountInv
<1>6. CASE UNCHANGED dashboardVars
  BY <1>6 DEF dashboardVars, backendVars, connVars, pageVars, DashInv, DashboardTypeOK, PageInv,
              CardInv, SiteInv
<1> QED
  BY <1>1, <1>2, <1>3, <1>4, <1>5, <1>6 DEF DashboardNext, BackendStep, ConnectionStep

LEMMA DashAlways == DashboardSpec => []DashInv
  BY DashInitInv, DashInductive, PTL DEF DashboardSpec

-----------------------------------------------------------------------------
\* The types, and the notice: never on once the page has handled an event, for
\* any number of failures and events.
THEOREM NoticeGoesForGood == DashboardSpec => [](DashboardTypeOK /\ NoticeBeforeFirstEvent)
<1>1. DashInv => DashboardTypeOK /\ NoticeBeforeFirstEvent
  BY DEF DashInv, PageInv, NoticeBeforeFirstEvent
<1> QED
  BY <1>1, DashAlways, PTL

\* Every step of page and backend is, for each card, a step of the abstract feed
\* or none: a check is a publication, an event an observation.
THEOREM CardsImplementFeed == DashboardSpec => CardsFollowFeed
<1>1. DashboardInit => \A s \in Sites : Feed(s)!FeedInit
  BY NothingResult DEF DashboardInit, Feed!FeedInit
<1>2. ASSUME DashInv, DashboardNext, NEW s \in Sites
      PROVE  Feed(s)!FeedNext \/ UNCHANGED <<checks[s], statusData[s]>>
  <2>1. ASSUME NEW k \in Sites, CheckSite(k)
        PROVE  Feed(s)!FeedNext \/ UNCHANGED <<checks[s], statusData[s]>>
    <3>1. checks \in Results /\ checks[s] \in 0 .. MaxChecks /\ MaxChecks \in Nat
      BY <1>2, ResultNumbers, DashboardAssumption DEF DashInv, DashboardTypeOK
    <3>2. /\ statusData'[s] = statusData[s]
          /\ \/ checks'[s] = checks[s]
             \/ checks[s] < MaxChecks /\ checks'[s] = checks[s] + 1
      BY <2>1, <3>1 DEF CheckSite, Checked, pageVars, Results
    <3> QED
      BY <3>1, <3>2 DEF Feed!FeedNext, Feed!Publish
  <2>2. CASE Render
    <3>1. /\ checks'[s] = checks[s] /\ statusData[s] = 0 /\ statusData'[s] = edge[s]
          /\ edge[s] <= checks[s]
      BY <1>2, <2>2, NothingResult DEF Render, backendVars, DashInv, PageInv, CardInv, SiteInv
    <3>2. edge[s] \in Nat /\ checks[s] \in Nat
      BY <1>2, ResultNumbers DEF DashInv, DashboardTypeOK
    <3> QED
      BY <3>1, <3>2 DEF Feed!FeedNext, Feed!Observe
  <2>3. CASE OnMessage
    <3>1. /\ checks'[s] = checks[s] /\ statusData[s] <= statusData'[s]
          /\ statusData'[s] <= checks[s]
      BY <1>2, <2>3, MessageCard DEF OnMessage, backendVars
    <3>2. statusData[s] \in Nat /\ statusData'[s] \in Nat /\ checks[s] \in Nat
      BY <1>2, <2>3, MessageInv, ResultNumbers DEF DashInv, DashboardTypeOK
    <3> QED
      BY <3>1, <3>2 DEF Feed!FeedNext, Feed!Observe
  <2>4. CASE UNCHANGED <<checks, statusData>>
    BY <2>4
  <2> QED
    BY <1>2, <2>1, <2>2, <2>3, <2>4
    DEF DashboardNext, BackendStep, ConnectionStep, FinishRefresh, Crash, Boot, Accept,
        HandlerSubscribes, Push, Break, Rejected, Prefetch, Mount, DelayTimerFires, Unmount,
        backendVars, pageVars
<1>3. DashInv /\ [DashboardNext]_dashboardVars
        => [\A s \in Sites : Feed(s)!FeedNext \/ UNCHANGED <<checks[s], statusData[s]>>]_dashboardVars
  BY <1>2
<1> QED
  BY <1>1, <1>3, DashAlways, PTL DEF DashboardSpec, CardsFollowFeed

=============================================================================
