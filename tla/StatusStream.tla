----------------------------- MODULE StatusStream -----------------------------
(***************************************************************************)
(* The SSE handler (internal/httpapi, statusStream) on the status cache:   *)
(* one handler goroutine per connected client.  It writes the current      *)
(* state first and subscribes after that, then writes a new event for      *)
(* every signal.  An event is built from two reads of the cache, Snapshot  *)
(* and NextUpdateAt, each under its own lock.  A client is named by the    *)
(* channel its handler makes; one that reconnects is another client.       *)
(***************************************************************************)
EXTENDS StatusCache

VARIABLES
    handler,  \* where the handler of each client is
    event,    \* the event being built or written
    shown,    \* the last event the client has been sent
    signalled \* history: the handler has read a signal since it subscribed

streamVars == <<handler, event, shown, signalled>>
vars == <<cacheVars, streamVars>>

Clients == Subs
Event == [sites : [Keys -> Result], next : Cycles]
NoEvent == [sites |-> [k \in Keys |-> Absent], next |-> 0]

\* first: the event on connect, before Subscribe; the others after it.
Building == {"firstSnapshot", "firstNext", "firstWrite", "snapshot", "next", "write"}

StreamTypeOK ==
    /\ CacheTypeOK
    /\ handler \in [Clients -> Building \union {"none", "subscribe", "select", "done"}]
    /\ event \in [Clients -> Event]
    /\ shown \in [Clients -> Event]
    /\ signalled \in [Clients -> BOOLEAN]

StreamInit ==
    /\ CacheInit
    /\ handler = [c \in Clients |-> "none"]
    /\ event = [c \in Clients |-> NoEvent]
    /\ shown = [c \in Clients |-> NoEvent]
    /\ signalled = [c \in Clients |-> FALSE]

Moves(c, from, to) ==
    /\ handler[c] = from
    /\ handler' = [handler EXCEPT ![c] = to]

-----------------------------------------------------------------------------
Connect(c) ==
    /\ Moves(c, "none", "firstSnapshot")
    /\ UNCHANGED <<cacheVars, event, shown, signalled>>

\* Mutant: a lock held while an event is written keeps the others from reading.
ReadSnapshot_WriteLock(c) ==
    /\ \A d \in Clients : handler[d] \notin {"firstWrite", "write"}
    /\ \/ Moves(c, "firstSnapshot", "firstNext")
       \/ Moves(c, "snapshot", "next")
    /\ event' = [event EXCEPT ![c].sites = results]
    /\ UNCHANGED <<cacheVars, shown, signalled>>

\* buildStreamPayload: first the results ...
ReadSnapshot(c) ==
    /\ \/ Moves(c, "firstSnapshot", "firstNext")
       \/ Moves(c, "snapshot", "next")
    /\ event' = [event EXCEPT ![c].sites = results]
    /\ UNCHANGED <<cacheVars, shown, signalled>>

\* ... then NextUpdateAt, which is lastRefreshedAt plus the interval.
ReadNext(c) ==
    /\ \/ Moves(c, "firstNext", "firstWrite")
       \/ Moves(c, "next", "write")
    /\ event' = [event EXCEPT ![c].next = lastRefreshed]
    /\ UNCHANGED <<cacheVars, shown, signalled>>

\* The write to the client went through.
WriteEvent(c) ==
    /\ \/ Moves(c, "firstWrite", "subscribe")
       \/ Moves(c, "write", "select")
    /\ shown' = [shown EXCEPT ![c] = event[c]]
    /\ UNCHANGED <<cacheVars, event, signalled>>

StreamSubscribe(c) ==
    /\ Moves(c, "subscribe", "select")
    /\ Subscribe(c)
    /\ UNCHANGED <<event, shown, signalled>>

\* Mutant: the event is written from the results read before the signal.
StreamReceive_KeepsEvent(c) ==
    /\ Moves(c, "select", "write")
    /\ Receive(c)
    /\ signalled' = [signalled EXCEPT ![c] = TRUE]
    /\ UNCHANGED <<event, shown>>

\* The select: a refresh signal is there.
StreamReceive(c) ==
    /\ Moves(c, "select", "snapshot")
    /\ Receive(c)
    /\ signalled' = [signalled EXCEPT ![c] = TRUE]
    /\ UNCHANGED <<event, shown>>

\* A write that fails before Subscribe ends the handler.
FirstWriteFails(c) ==
    /\ Moves(c, "firstWrite", "done")
    /\ UNCHANGED <<cacheVars, event, shown, signalled>>

\* Mutant: the handler returns without calling cancel.
Leave_NoCancel(c) ==
    /\ Moves(c, "write", "done") \/ Moves(c, "select", "done")
    /\ UNCHANGED <<cacheVars, event, shown, signalled>>

\* A later write fails or the request's context is done: the deferred cancel.
Leave(c) ==
    /\ Moves(c, "write", "done") \/ Moves(c, "select", "done")
    /\ Cancel(c)
    /\ UNCHANGED <<event, shown, signalled>>

-----------------------------------------------------------------------------
HandlerStep(c) ==
    ReadSnapshot(c) \/ ReadNext(c) \/ StreamSubscribe(c) \/ StreamReceive(c)

ClientStep(c) == Connect(c) \/ WriteEvent(c) \/ FirstWriteFails(c) \/ Leave(c)

CacheMoves == LoopStep /\ UNCHANGED streamVars

StreamBoundReached == BoundReached /\ UNCHANGED streamVars

StreamNext ==
    \/ CacheMoves
    \/ \E c \in Clients : HandlerStep(c) \/ ClientStep(c)
    \/ StreamBoundReached

\* The server has no write timeout: a write may last for ever and nothing is
\* assumed of ClientStep.
StreamSpec ==
    /\ StreamInit
    /\ [][StreamNext]_vars
    /\ WF_vars(CacheMoves)
    /\ \A c \in Clients : WF_vars(HandlerStep(c))

-----------------------------------------------------------------------------
(* Properties.                                                             *)

Idle(c) == handler[c] = "select" /\ ~signal[c] /\ loopPC = "wait"

Current(c) == shown[c].sites = results /\ shown[c].next = lastRefreshed

\* A client that has had one signal is never left behind again: when its
\* handler waits, no signal is unread and the loop is at its ticker, the client
\* shows every result of the last refresh and the time of the next.
CaughtUpAfterSignal == \A c \in Clients : Idle(c) /\ signalled[c] => Current(c)

\* The cache holds the channels of the handlers in their loop and no other: a
\* client that has gone, at whatever step, leaves no channel behind.
ChannelsOfHandlers ==
    subs = {c \in Clients : handler[c] \in {"select", "snapshot", "next", "write"}}

\* A handler that waits takes a signal up and has its event ready to write,
\* unless its client goes; another client whose write never ends does not
\* stand in its way.
SignalTakenUp ==
    \A c \in Clients :
        (handler[c] = "select" /\ signal[c]) ~> (handler[c] \in {"write", "done"})

=============================================================================
