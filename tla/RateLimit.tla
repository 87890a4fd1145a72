------------------------------- MODULE RateLimit -------------------------------
(***************************************************************************)
(* The fixed-window limiter (internal/ratelimit) as the HTTP handlers use  *)
(* it: every request runs Allow in a goroutine of its own, reads the clock *)
(* before it has the lock, and may find a bucket that is newer than the    *)
(* time it holds.  sweepStale drops old buckets every now and then.        *)
(***************************************************************************)
EXTENDS Integers, FiniteSets

CONSTANTS
    Clients,   \* client addresses
    Requests,  \* requests in flight at the same time
    Window,    \* window
    Max,       \* max
    SweepGap,  \* the sweep's period
    Delay,     \* how long a goroutine may wait for the lock
    MaxTime    \* bound: time

ASSUME RateAssumption ==
    /\ Clients # {}
    /\ Window \in Nat \ {0}
    /\ Max \in Nat \ {0}
    /\ SweepGap \in Nat \ {0}
    /\ {Delay, MaxTime} \subseteq Nat
    /\ Delay <= Window /\ Delay < SweepGap

VARIABLES
    time,
    buckets,  \* the map: NoBucket for a key it does not have
    request,  \* requests between reading the clock and the lock
    cutoff,   \* that of a sweep that waits for the lock, or NoSweep
    swept,    \* when the sweep last fired
    passed    \* history: the requests let through, with the window each was counted in

rateVars == <<time, buckets, request, cutoff, swept, passed>>

Instants == 0 .. MaxTime
NoBucket == [windowStart |-> 0, count |-> 0]
NoRequest == [key |-> CHOOSE c \in Clients : TRUE, now |-> -1]
NoSweep == MaxTime + 1

RateTypeOK ==
    /\ time \in Instants
    /\ buckets \in [Clients -> [windowStart : Instants, count : 0 .. Max]]
    /\ request \in [Requests -> [key : Clients, now : Instants \union {-1}]]
    /\ cutoff \in Int
    /\ swept \in Instants
    /\ passed \subseteq [client : Clients, at : Instants, of : Instants, nth : Nat \ {0}]

RateInit ==
    /\ time = 0
    /\ buckets = [c \in Clients |-> NoBucket]
    /\ request = [r \in Requests |-> NoRequest]
    /\ cutoff = NoSweep
    /\ swept = 0
    /\ passed = {}

-----------------------------------------------------------------------------
\* A request of a client comes in and Allow reads the clock.
Arrive(r, c) ==
    /\ request[r] = NoRequest
    /\ request' = [request EXCEPT ![r] = [key |-> c, now |-> time]]
    /\ UNCHANGED <<time, buckets, cutoff, swept, passed>>

\* Mutant: the window is one unit longer.
NewWindow_Late(b, now) == b = NoBucket \/ now - b.windowStart > Window

\* No bucket, or its window is over.  A time before the bucket's start counts as
\* within the window.
NewWindow(b, now) == b = NoBucket \/ now - b.windowStart >= Window

Full(b) == b.count >= Max

\* The nth of those let through with the same reading of the clock.
LetThrough(c, now, start) ==
    passed' = passed \union
        {[client |-> c, at |-> now, of |-> start,
          nth |-> Cardinality({p \in passed : p.client = c /\ p.at = now}) + 1]}

\* The rest of Allow, under the lock.
Allow(r) ==
    LET c == request[r].key
        now == request[r].now
        b == buckets[c]
    IN  /\ request[r] # NoRequest
        /\ request' = [request EXCEPT ![r] = NoRequest]
        /\ \/ /\ NewWindow(b, now)
              /\ buckets' = [buckets EXCEPT ![c] = [windowStart |-> now, count |-> 1]]
              /\ LetThrough(c, now, now)
           \/ /\ ~NewWindow(b, now) /\ ~Full(b)
              /\ buckets' = [buckets EXCEPT ![c].count = @ + 1]
              /\ LetThrough(c, now, b.windowStart)
           \/ /\ ~NewWindow(b, now) /\ Full(b)
              /\ UNCHANGED <<buckets, passed>>
        /\ UNCHANGED <<time, cutoff, swept>>

\* The ticker of the sweep: the cutoff is taken before the lock.
SweepFires ==
    /\ cutoff = NoSweep
    /\ time >= swept + SweepGap
    /\ swept' = time
    /\ cutoff' = time - 2 * Window
    /\ UNCHANGED <<time, buckets, request, passed>>

\* Mutant: only buckets that are used up are dropped.
Expired_UsedUp(b, limit) == b.windowStart < limit /\ Full(b)

Expired(b, limit) == b.windowStart < limit

Sweep ==
    /\ cutoff # NoSweep
    /\ buckets' = [c \in Clients |-> IF Expired(buckets[c], cutoff) THEN NoBucket ELSE buckets[c]]
    /\ cutoff' = NoSweep
    /\ UNCHANGED <<time, request, swept, passed>>

\* The ticker is on time, and nobody waits for the lock for longer than Delay.
TimePasses ==
    /\ time < MaxTime
    /\ \A r \in Requests : request[r] # NoRequest => time < request[r].now + Delay
    /\ time < swept + (IF cutoff = NoSweep THEN SweepGap ELSE Delay)
    /\ time' = time + 1
    /\ UNCHANGED <<buckets, request, cutoff, swept, passed>>

RateNext ==
    \/ \E r \in Requests, c \in Clients : Arrive(r, c)
    \/ \E r \in Requests : Allow(r)
    \/ SweepFires
    \/ Sweep
    \/ TimePasses

RateSpec == RateInit /\ [][RateNext]_rateVars

-----------------------------------------------------------------------------
(* Properties.                                                             *)

PassedIn(c, first, last) == Cardinality({p \in passed : p.client = c /\ p.at \in first .. last})

\* A client gets at most this many requests through in the length of a window: the
\* end of one window (its first request lies before), a whole window, and
\* requests that had read the clock before the one that began a third.
ThreeWindows ==
    \A c \in Clients, t \in Instants :
        t + Window - 1 \in Instants => PassedIn(c, t, t + Window - 1) <= 3 * Max - 2

\* A request is refused only to a client that has had Max requests through, the
\* first of them less than a window ago.
RefusedOnlyWhenFull ==
    \A r \in Requests :
        LET c == request[r].key
            now == request[r].now
        IN  request[r] # NoRequest /\ request'[r] = NoRequest /\ passed' = passed =>
              \E t \in Instants :
                /\ now - t < Window
                /\ \E p \in passed : p.client = c /\ p.at = t
                /\ PassedIn(c, IF t > Delay THEN t - Delay ELSE 0, time) >= Max

\* The limit holds both ways, though clocks are read before the lock.
LimitHeld == []ThreeWindows /\ [][RefusedOnlyWhenFull]_rateVars

\* The map forgets: no bucket is older than two windows and a period of the
\* sweep.
BucketsGoAway ==
    \A c \in Clients :
        buckets[c] # NoBucket =>
            time <= buckets[c].windowStart + 2 * Window + SweepGap + Delay

=============================================================================
