------------------------------- MODULE Dashboard -------------------------------
(***************************************************************************)
(* The page of one visitor (frontend: StatusDashboardServer,               *)
(* useStatusStream) on a backend that may stop and start again.  The page  *)
(* is rendered from the host's cached answers of /status/<site>, then      *)
(* opens an EventSource and merges every pushed snapshot into statusData.  *)
(*                                                                         *)
(* A result is named by the number of its check of that site, which is all *)
(* the properties tell apart; 0 is no result.  The backend is the part of  *)
(* StatusStream the page can see, with the two reads of an event as one.   *)
(* nextUpdateAt, the countdown, is left out here; it is in StatusStream.   *)
(***************************************************************************)
EXTENDS Naturals, SequencesExt

CONSTANTS
    Sites,      \* the endpoints of SITE_INFOS
    MaxChecks,  \* bound: results told apart; later ones count as the last
    MaxWire,    \* bound: events on their way
    MaxBreaks   \* bound: how often the backend, the connection or an event fails

ASSUME DashboardAssumption ==
    MaxChecks \in Nat \ {0} /\ MaxWire \in Nat \ {0} /\ MaxBreaks \in Nat

VARIABLES
    up,         \* the backend answers
    checks,     \* how often each site has been checked
    cache,      \* the backend's cached result of each site
    todo,       \* the sites the running refresh has not checked yet
    due,        \* the connection's handler has an unread refresh signal
    breaks,     \* failures so far
    edge,       \* the frontend host's cached answer of each endpoint
    page,       \* the page: not asked for, rendered, mounted, left
    conn,       \* the EventSource and the handler at its other end
    wire,       \* events sent and not dispatched yet
    statusData, \* what the page shows
    delayTimer, \* the timer of the delay notice is running
    isDelayed,  \* the notice is on
    heard       \* history: the mounted page has handled an event

backendVars == <<up, checks, cache, todo>>
connVars == <<due, conn, wire>>
pageVars == <<edge, page, statusData, delayTimer, isDelayed, heard>>
dashboardVars == <<backendVars, connVars, pageVars, breaks>>

Results == [Sites -> 0 .. MaxChecks]
Nothing == [s \in Sites |-> 0]

\* "first": connected, the first event is sent, Subscribe not called yet.
ConnStates == {"none", "connecting", "first", "subscribed", "closed"}

DashboardTypeOK ==
    /\ up \in BOOLEAN /\ due \in BOOLEAN
    /\ checks \in Results /\ cache \in Results
    /\ edge \in Results /\ statusData \in Results
    /\ todo \subseteq Sites
    /\ breaks \in 0 .. MaxBreaks
    /\ page \in {"none", "rendered", "live", "gone"}
    /\ conn \in ConnStates
    /\ wire \in Seq(Results) /\ Len(wire) <= MaxWire
    /\ delayTimer \in BOOLEAN /\ isDelayed \in BOOLEAN /\ heard \in BOOLEAN
    /\ page = "gone" => conn = "closed" /\ ~delayTimer

DashboardInit ==
    /\ up = TRUE /\ checks = Nothing /\ cache = Nothing /\ todo = Sites
    /\ due = FALSE /\ conn = "none" /\ wire = <<>>
    /\ breaks = 0
    /\ edge = Nothing /\ page = "none" /\ statusData = Nothing
    /\ delayTimer = FALSE /\ isDelayed = FALSE /\ heard = FALSE

-----------------------------------------------------------------------------
(* The backend.                                                            *)

Checked(s) == IF checks[s] < MaxChecks THEN checks[s] + 1 ELSE MaxChecks

CheckSite(s) ==
    /\ up /\ s \in todo
    /\ todo' = todo \ {s}
    /\ checks' = [checks EXCEPT ![s] = Checked(s)]
    /\ cache' = [cache EXCEPT ![s] = Checked(s)]
    /\ UNCHANGED <<up, connVars, pageVars, breaks>>

\* The refresh is over: subscribers are signalled, the next one will come.
FinishRefresh ==
    /\ up /\ todo = {}
    /\ todo' = Sites
    /\ due' = (due \/ conn = "subscribed")
    /\ UNCHANGED <<up, checks, cache, conn, wire, pageVars, breaks>>

\* A connection that ends loses what has not arrived; the EventSource retries.
Cut ==
    /\ conn' = IF conn \in {"first", "subscribed"} THEN "connecting" ELSE conn
    /\ due' = FALSE
    /\ \E kept \in Prefixes(wire) : wire' = kept

Crash ==
    /\ up /\ breaks < MaxBreaks
    /\ breaks' = breaks + 1
    /\ up' = FALSE
    /\ cache' = Nothing
    /\ todo' = Sites
    /\ Cut
    /\ UNCHANGED <<checks, pageVars>>

Boot ==
    /\ ~up
    /\ up' = TRUE
    /\ UNCHANGED <<checks, cache, todo, connVars, pageVars, breaks>>

-----------------------------------------------------------------------------
(* The connection.                                                         *)

Break ==
    /\ conn \in {"first", "subscribed"} /\ breaks < MaxBreaks
    /\ breaks' = breaks + 1
    /\ Cut
    /\ UNCHANGED <<backendVars, pageVars>>

\* statusStream writes the current state at once.
Accept ==
    /\ conn = "connecting" /\ up /\ Len(wire) < MaxWire
    /\ conn' = "first"
    /\ wire' = Append(wire, cache)
    /\ UNCHANGED <<backendVars, pageVars, breaks, due>>

HandlerSubscribes ==
    /\ conn = "first"
    /\ conn' = "subscribed"
    /\ UNCHANGED <<backendVars, pageVars, breaks, due, wire>>

Push ==
    /\ conn = "subscribed" /\ due /\ Len(wire) < MaxWire
    /\ due' = FALSE
    /\ wire' = Append(wire, cache)
    /\ UNCHANGED <<backendVars, pageVars, breaks, conn>>

\* The request is answered with an error (429 of the limiter, 5xx of the proxy
\* while the backend starts): an EventSource gives up for good.
Rejected ==
    /\ conn = "connecting"
    /\ conn' = "closed"
    /\ UNCHANGED <<backendVars, pageVars, breaks, due, wire>>

-----------------------------------------------------------------------------
(* The page.                                                               *)

\* The host fetches an endpoint (again); an error keeps what it had.
Prefetch(s) ==
    /\ up /\ cache[s] # 0 /\ edge[s] # cache[s]
    /\ edge' = [edge EXCEPT ![s] = cache[s]]
    /\ UNCHANGED <<backendVars, connVars, breaks, page, statusData, delayTimer, isDelayed, heard>>

\* fetchInitialStatusData: an endpoint without an answer is left out.
Render ==
    /\ page = "none"
    /\ page' = "rendered"
    /\ statusData' = edge
    /\ UNCHANGED <<backendVars, connVars, breaks, edge, delayTimer, isDelayed, heard>>

\* The effect of useStatusStream: the timer, then the EventSource.
Mount ==
    /\ page = "rendered"
    /\ page' = "live"
    /\ delayTimer' = TRUE
    /\ conn' = "connecting"
    /\ UNCHANGED <<backendVars, breaks, due, wire, edge, statusData, isDelayed, heard>>

DelayTimerFires ==
    /\ delayTimer
    /\ delayTimer' = FALSE
    /\ isDelayed' = TRUE
    /\ UNCHANGED <<backendVars, connVars, breaks, edge, page, statusData, heard>>

\* Mutant: the map is replaced by the event's.
Merge_Replaces(prev, next) == next

\* Mutant: the spreads are swapped, the old value wins.
Merge_OldWins(prev, next) == [s \in Sites |-> IF prev[s] = 0 THEN next[s] ELSE prev[s]]

Merge(prev, next) == [s \in Sites |-> IF next[s] = 0 THEN prev[s] ELSE next[s]]

\* The event is merged, or cannot be parsed and is passed over.
Takes(event) ==
    \/ statusData' = Merge(statusData, event) /\ UNCHANGED breaks
    \/ breaks < MaxBreaks /\ breaks' = breaks + 1 /\ UNCHANGED statusData

\* Mutant: the notice is turned off, its timer runs on.
OnMessage_TimerRuns ==
    /\ page = "live" /\ wire # <<>>
    /\ isDelayed' = FALSE
    /\ heard' = TRUE
    /\ Takes(Head(wire))
    /\ wire' = Tail(wire)
    /\ UNCHANGED <<backendVars, due, conn, edge, page, delayTimer>>

\* The timer and the notice are off before the event is read.
OnMessage ==
    /\ page = "live" /\ wire # <<>>
    /\ delayTimer' = FALSE
    /\ isDelayed' = FALSE
    /\ heard' = TRUE
    /\ Takes(Head(wire))
    /\ wire' = Tail(wire)
    /\ UNCHANGED <<backendVars, due, conn, edge, page>>

\* The visitor goes: the effect's cleanup.
Unmount ==
    /\ page = "live"
    /\ page' = "gone"
    /\ delayTimer' = FALSE
    /\ conn' = "closed" /\ wire' = <<>> /\ due' = FALSE
    /\ UNCHANGED <<backendVars, breaks, edge, statusData, isDelayed, heard>>

-----------------------------------------------------------------------------
BackendStep == FinishRefresh \/ \E s \in Sites : CheckSite(s)

ConnectionStep == Accept \/ HandlerSubscribes \/ Push

DashboardNext ==
    \/ BackendStep \/ Crash \/ Boot
    \/ ConnectionStep \/ Break \/ Rejected
    \/ \E s \in Sites : Prefetch(s)
    \/ Render \/ Mount \/ DelayTimerFires \/ OnMessage \/ Unmount

\* The refresh loop and the handler go on while the backend is up, an
\* EventSource that has not given up tries again, and what has arrived is
\* dispatched.  That a stopped backend starts again is not assumed.
DashboardSpec ==
    /\ DashboardInit
    /\ [][DashboardNext]_dashboardVars
    /\ WF_dashboardVars(FinishRefresh)
    /\ \A s \in Sites : WF_dashboardVars(CheckSite(s))
    /\ WF_dashboardVars(Accept)
    /\ WF_dashboardVars(HandlerSubscribes)
    /\ WF_dashboardVars(Push)
    /\ WF_dashboardVars(OnMessage)

-----------------------------------------------------------------------------
(* Properties.                                                             *)

Feed(s) == INSTANCE LatestFeed
    WITH MaxPublished <- MaxChecks, published <- checks[s], seen <- statusData[s]

\* Each card follows the checks of its site like a subscriber of the abstract
\* feed: it may skip results but never shows an older one after a newer one nor
\* loses one, whatever the host had cached, and over every restart of the
\* backend (which forgets its results) and every reconnection.
CardsFollowFeed ==
    /\ \A s \in Sites : Feed(s)!FeedInit
    /\ [][\A s \in Sites : Feed(s)!FeedNext \/ UNCHANGED <<checks[s], statusData[s]>>]_dashboardVars

\* The notice that it takes longer than usual is never on, nor comes back, once
\* the page has had an event.
NoticeBeforeFirstEvent == heard => ~isDelayed

Catches(s, n) == statusData[s] >= n \/ page = "gone" \/ ~up

\* A page whose EventSource has not given up shows every cached result or a
\* newer one in the end, even one that its handler was not signalled.
LiveWhileConnected ==
    \A s \in Sites : \A n \in 1 .. MaxChecks :
        (page = "live" /\ cache[s] >= n) ~> (Catches(s, n) \/ conn = "closed")

=============================================================================
