---------------------------- MODULE BackfillProofs ----------------------------
(***************************************************************************)
(* The command that fills in the history, for any trail, any values of     *)
(* -after, any number of runs that fail or die anywhere, next to the       *)
(* server.  First what reconstruct makes of a trail, by induction on the   *)
(* snapshots; then the table.                                              *)
(***************************************************************************)
EXTENDS Backfill, Induction, SequenceTheorems

-----------------------------------------------------------------------------
(* What reconstruct makes of a trail.                                      *)

Reads(g, s, n) ==
    g = [m \in 0 .. n |-> IF m = 0 THEN Start ELSE ReadSnapshot(g[m - 1], s[m])]

\* The recursion of Reading defines a function.
LEMMA ReadingDefined ==
    ASSUME NEW s, NEW length \in Nat, Len(s) = length
    PROVE  /\ Reading(s)[0] = Start
           /\ \A n \in 1 .. length : Reading(s)[n] = ReadSnapshot(Reading(s)[n - 1], s[n])
<1> DEFINE T == {n \in Nat : ~ \E g : Reads(g, s, n)}
<1>1. T = {}
  <2> SUFFICES ASSUME T # {} PROVE FALSE
    OBVIOUS
  <2>1. PICK n \in T : \A m \in T : n <= m
    BY LeastNumber
  <2>2. CASE n = 0
    <3>1. Reads([m \in 0 .. 0 |-> Start], s, 0)
      BY DEF Reads
    <3> QED
      BY <2>2, <3>1
  <2>3. CASE n # 0
    <3>1. n \in Nat /\ n - 1 \in Nat /\ n - 1 \notin T
      BY <2>1, <2>3
    <3>2. PICK g : Reads(g, s, n - 1)
      BY <3>1
    <3> DEFINE h == [m \in 0 .. n |-> IF m = n THEN ReadSnapshot(g[n - 1], s[n]) ELSE g[m]]
    <3>3. \A m \in 0 .. n - 1 : g[m] = IF m = 0 THEN Start ELSE ReadSnapshot(g[m - 1], s[m])
      BY <3>2 DEF Reads
    <3>4. ASSUME NEW m \in 0 .. n
          PROVE  h[m] = IF m = 0 THEN Start ELSE ReadSnapshot(h[m - 1], s[m])
      <4>1. CASE m = n
        <5>1. h[m - 1] = g[n - 1] /\ h[m] = ReadSnapshot(g[n - 1], s[n])
          BY <3>1, <4>1
        <5> QED
          BY <2>3, <4>1, <5>1
      <4>2. CASE m # n
        <5>1. m \in 0 .. n - 1 /\ h[m] = g[m]
          BY <3>1, <4>2
        <5>2. m # 0 => h[m - 1] = g[m - 1]
          BY <3>1, <4>2
        <5> HIDE DEF h
        <5> QED
          BY <3>3, <5>1, <5>2
      <4> QED
        BY <4>1, <4>2
    <3>5. h = [m \in 0 .. n |-> IF m = 0 THEN Start ELSE ReadSnapshot(h[m - 1], s[m])]
      <4>1. h = [m \in 0 .. n |-> h[m]]
        OBVIOUS
      <4> HIDE DEF h
      <4> QED
        BY <3>4, <4>1
    <3>6. Reads(h, s, n)
      <4> HIDE DEF h
      <4> QED
        BY <3>5 DEF Reads
    <3> QED
      BY <2>1, <3>6
  <2> QED
    BY <2>2, <2>3
<1>2. PICK g : Reads(g, s, length)
  BY <1>1
<1>3. Reading(s) = CHOOSE r : Reads(r, s, length)
  BY DEF Reading, Reads
<1>4. Reads(Reading(s), s, length)
  BY <1>2, <1>3
<1> DEFINE r == Reading(s)
<1>5. r = [m \in 0 .. length |-> IF m = 0 THEN Start ELSE ReadSnapshot(r[m - 1], s[m])]
  BY <1>4 DEF Reads
<1> HIDE DEF r
<1>6. r[0] = Start /\ \A n \in 1 .. length : r[n] = ReadSnapshot(r[n - 1], s[n])
  BY <1>5
<1> QED
  BY <1>6 DEF r

\* The last change up to t of the first n snapshots was to a failure.
DownBy(s, n, t) ==
    \E i \in 1 .. n :
        /\ s[i].status # "ok"
        /\ s[i].changed \in 1 .. t
        /\ \A j \in 1 .. n : s[j].changed \in 1 .. t => s[j].changed <= s[i].changed

Covers(in, t) == in.started <= t /\ t < in.resolved

\* What reconstruct has noted says that t lies in an outage.
Noted(acc, t) == (acc.down /\ acc.started <= t) \/ \E in \in acc.out : Covers(in, t)

Failing == {"error", "timeout"}
Outage == [status : Failing, started : 1 .. MaxTime, resolved : 1 .. MaxTime]
Apart(a, b) == a.resolved <= b.started \/ b.resolved <= a.started

Noting == [down : BOOLEAN, status : Failing, started : 0 .. MaxTime,
           lastChanged : 0 .. MaxTime, out : SUBSET Outage]

\* What is noted of the first n snapshots is in order, and says what they say.
ReadInv(s, n, acc) ==
    /\ acc \in Noting
    /\ \A in \in acc.out : in.started < in.resolved /\ in.resolved <= acc.lastChanged
    /\ acc.down => /\ 1 <= acc.started /\ acc.started <= acc.lastChanged
                   /\ \A in \in acc.out : in.resolved <= acc.started
    /\ \A a, b \in acc.out : a # b => Apart(a, b)
    /\ \A j \in 1 .. n : s[j].changed <= acc.lastChanged
    /\ acc.lastChanged # 0 => \E i \in 1 .. n : s[i].changed = acc.lastChanged
    /\ \A t \in 1 .. MaxTime : DownBy(s, n, t) <=> Noted(acc, t)

LEMMA SnapshotFacts ==
    ASSUME NEW e \in Snapshot
    PROVE  /\ e.changed \in 0 .. MaxTime /\ e.status \in {"ok"} \union Failing
           /\ e.changed = 0 <=> e = NoEntry
  BY BackfillAssumption DEF Snapshot, NoEntry, Failing

\* Without news nothing changes.
LEMMA DownSame ==
    ASSUME NEW s, NEW n \in Nat, NEW t \in Int, \A j \in 1 .. n + 1 : s[j].changed \in Int,
           s[n + 1].changed = 0 \/ \E i \in 1 .. n : s[i] = s[n + 1]
    PROVE  DownBy(s, n + 1, t) <=> DownBy(s, n, t)
<1>1. \A j \in 1 .. n : j \in 1 .. n + 1
  OBVIOUS
<1>2. \A j \in 1 .. n + 1 : j \in 1 .. n \/ j = n + 1
  OBVIOUS
<1>3. CASE s[n + 1].changed = 0
  <2>1. ~(s[n + 1].changed \in 1 .. t)
    BY <1>3
  <2> QED
    BY <1>1, <1>2, <2>1 DEF DownBy
<1>4. CASE \E i \in 1 .. n : s[i] = s[n + 1]
  <2>1. PICK k \in 1 .. n : s[k] = s[n + 1]
    BY <1>4
  <2> QED
    BY <1>1, <1>2, <2>1 DEF DownBy
<1> QED
  BY <1>3, <1>4

\* A later change leaves what was before it and decides what comes after it.
LEMMA DownNews ==
    ASSUME NEW s, NEW n \in Nat, NEW t \in Int, \A j \in 1 .. n + 1 : s[j].changed \in Int,
           1 <= s[n + 1].changed, \A j \in 1 .. n : s[j].changed < s[n + 1].changed
    PROVE  /\ t < s[n + 1].changed => (DownBy(s, n + 1, t) <=> DownBy(s, n, t))
           /\ s[n + 1].changed <= t => (DownBy(s, n + 1, t) <=> s[n + 1].status # "ok")
<1>1. \A j \in 1 .. n : j \in 1 .. n + 1
  OBVIOUS
<1>2. \A j \in 1 .. n + 1 : j \in 1 .. n \/ j = n + 1
  OBVIOUS
<1>3. ASSUME t < s[n + 1].changed PROVE DownBy(s, n + 1, t) <=> DownBy(s, n, t)
  <2>1. ~(s[n + 1].changed \in 1 .. t)
    BY <1>3
  <2> QED
    BY <1>1, <1>2, <2>1 DEF DownBy
<1>4. ASSUME s[n + 1].changed <= t PROVE DownBy(s, n + 1, t) <=> s[n + 1].status # "ok"
  <2>1. s[n + 1].changed \in 1 .. t /\ n + 1 \in 1 .. n + 1
    BY <1>4
  <2>2. \A j \in 1 .. n + 1 : s[j].changed <= s[n + 1].changed
    BY <1>2
  <2>3. \A i \in 1 .. n : ~(s[n + 1].changed <= s[i].changed)
    BY <1>1
  <2> QED
    BY <1>1, <1>2, <2>1, <2>2, <2>3 DEF DownBy
<1> QED
  BY <1>3, <1>4

\* What a change notes.
LEMMA NewsNoted ==
    ASSUME NEW acc \in Noting, NEW e \in Snapshot, e # NoEntry, e.changed # acc.lastChanged,
           acc.down => 1 <= acc.started, NEW new, new = ReadSnapshot(acc, e)
    PROVE  /\ new \in Noting
           /\ new.lastChanged = e.changed
           /\ e.status # "ok" /\ ~acc.down =>
                new.down /\ new.started = e.changed /\ new.out = acc.out
           /\ e.status = "ok" /\ acc.down =>
                /\ ~new.down
                /\ \E in \in Outage : /\ in.started = acc.started /\ in.resolved = e.changed
                                      /\ new.out = acc.out \union {in}
           /\ (e.status = "ok" <=> ~acc.down) =>
                new.down = acc.down /\ new.started = acc.started /\ new.out = acc.out
<1>0. /\ e.changed \in 1 .. MaxTime /\ e.status \in {"ok"} \union Failing
      /\ acc.down \in BOOLEAN
  BY SnapshotFacts, BackfillAssumption DEF Noting
<1>1. new = [Pair(acc, e) EXCEPT !.lastChanged = e.changed]
  BY DEF ReadSnapshot
<1>2. CASE e.status # "ok" /\ ~acc.down
  <2>1. Pair(acc, e) = [acc EXCEPT !.down = TRUE, !.status = e.status, !.started = e.changed]
    BY <1>2 DEF Pair, Opened
  <2>2. new = [acc EXCEPT !.down = TRUE, !.status = e.status, !.started = e.changed, !.lastChanged = e.changed]
    BY <1>1, <2>1 DEF Noting
  <2>3. e.status \in Failing /\ e.changed \in 0 .. MaxTime
    BY <1>0, <1>2
  <2>4. /\ new \in Noting /\ new.lastChanged = e.changed
        /\ new.down /\ new.started = e.changed /\ new.out = acc.out
    BY <2>2, <2>3 DEF Noting
  <2> QED
    BY <1>2, <2>4
<1>3. CASE e.status = "ok" /\ acc.down
  <2> DEFINE in == [status |-> acc.status, started |-> acc.started, resolved |-> e.changed]
  <2>1. Pair(acc, e) = [acc EXCEPT !.down = FALSE, !.out = @ \union {in}]
    BY <1>3 DEF Pair, Closed
  <2>2. in.started = acc.started /\ in.resolved = e.changed
    OBVIOUS
  <2>3. in \in Outage
    BY <1>0, <1>3 DEF Noting, Outage
  <2> HIDE DEF in
  <2>4. new = [acc EXCEPT !.down = FALSE, !.out = acc.out \union {in}, !.lastChanged = e.changed]
    BY <1>1, <2>1 DEF Noting
  <2>5. acc.out \union {in} \subseteq Outage /\ e.changed \in 0 .. MaxTime
    BY <1>0, <2>3 DEF Noting
  <2>6. /\ new \in Noting /\ new.lastChanged = e.changed
        /\ ~new.down /\ new.out = acc.out \union {in}
    BY <2>4, <2>5 DEF Noting
  <2> QED
    BY <1>3, <2>2, <2>3, <2>6
<1>4. CASE e.status = "ok" <=> ~acc.down
  <2>1. Pair(acc, e) = acc
    BY <1>4 DEF Pair
  <2> QED
    BY <1>0, <1>1, <1>4, <2>1 DEF Noting
<1> QED
  BY <1>2, <1>3, <1>4

LEMMA ReadStart == ASSUME NEW s PROVE ReadInv(s, 0, Start)
<1>1. /\ Start \in Noting /\ ~Start.down /\ Start.out = {} /\ Start.lastChanged = 0
  BY BackfillAssumption DEF Start, Noting, Failing
<1>2. \A t : ~DownBy(s, 0, t)
  BY DEF DownBy
<1>3. \A t : ~Noted(Start, t)
  BY <1>1 DEF Noted
<1> QED
  BY <1>1, <1>2, <1>3 DEF ReadInv

LEMMA ReadStep ==
    ASSUME NEW s, NEW n \in Nat, \A j \in 1 .. n + 1 : s[j] \in Snapshot,
           \A j \in 1 .. n : Follows(s[n + 1], s[j]),
           NEW acc, ReadInv(s, n, acc)
    PROVE  ReadInv(s, n + 1, ReadSnapshot(acc, s[n + 1]))
<1> DEFINE e == s[n + 1]
           new == ReadSnapshot(acc, e)
<1>0. /\ MaxTime \in Nat
      /\ e \in Snapshot /\ e.changed \in 0 .. MaxTime
      /\ e.changed = 0 <=> e = NoEntry
      /\ \A j \in 1 .. n + 1 : s[j].changed \in 0 .. MaxTime
      /\ \A j \in 1 .. n + 1 : s[j].changed \in Int
      /\ \A j \in 1 .. n + 1 : j \in 1 .. n \/ j = n + 1
      /\ \A j \in 1 .. n : j \in 1 .. n + 1
  BY SnapshotFacts, BackfillAssumption
<1>1. /\ acc \in Noting /\ acc.lastChanged \in 0 .. MaxTime /\ acc.started \in 0 .. MaxTime
      /\ acc.down \in BOOLEAN
      /\ \A in \in acc.out : in \in Outage /\ in.started \in 1 .. MaxTime /\ in.resolved \in 1 .. MaxTime
  BY DEF ReadInv, Noting, Outage
<1>2. CASE e = NoEntry \/ e.changed = acc.lastChanged
  <2>1. new = acc
    BY <1>2 DEF ReadSnapshot
  <2>2. e.changed = 0 \/ \E i \in 1 .. n : s[i] = e
    <3>1. CASE e.changed # 0
      <4>1. PICK i \in 1 .. n : s[i].changed = acc.lastChanged
        BY <1>0, <1>2, <3>1 DEF ReadInv
      <4>2. Follows(e, s[i])
        OBVIOUS
      <4> QED
        BY <1>0, <1>2, <3>1, <4>1, <4>2 DEF Follows
    <3> QED
      BY <3>1
  <2>3. \A t \in 1 .. MaxTime : DownBy(s, n + 1, t) <=> DownBy(s, n, t)
    BY <1>0, <2>2, DownSame
  <2>4. \A j \in 1 .. n + 1 : s[j].changed <= acc.lastChanged
    BY <1>0, <1>1, <1>2 DEF ReadInv
  <2>5. acc.lastChanged # 0 => \E i \in 1 .. n + 1 : s[i].changed = acc.lastChanged
    BY <1>0 DEF ReadInv
  <2> HIDE DEF new, e
  <2>6. ReadInv(s, n + 1, acc)
    BY <2>3, <2>4, <2>5 DEF ReadInv
  <2> QED
    BY <2>1, <2>6 DEF new, e
<1>3. CASE e # NoEntry /\ e.changed # acc.lastChanged
  <2>1. e.changed >= 1 /\ \A j \in 1 .. n : s[j].changed < e.changed
    <3> SUFFICES ASSUME NEW j \in 1 .. n PROVE s[j].changed < e.changed
      BY <1>0, <1>3
    <3>1. Follows(e, s[j]) /\ s[j].changed <= acc.lastChanged
      BY DEF ReadInv
    <3>2. acc.lastChanged < e.changed
      <4>1. CASE acc.lastChanged = 0
        BY <1>0, <1>3, <4>1
      <4>2. CASE acc.lastChanged # 0
        <5>1. PICK i \in 1 .. n : s[i].changed = acc.lastChanged
          BY <4>2 DEF ReadInv
        <5>2. Follows(e, s[i])
          OBVIOUS
        <5> QED
          BY <1>3, <5>1, <5>2 DEF Follows
      <4> QED
        BY <4>1, <4>2
    <3> QED
      BY <1>0, <1>1, <3>1, <3>2
  <2>2. acc.lastChanged < e.changed
    <3>1. CASE acc.lastChanged = 0
      BY <1>0, <2>1, <3>1
    <3>2. CASE acc.lastChanged # 0
      BY <2>1, <3>2 DEF ReadInv
    <3> QED
      BY <3>1, <3>2
  <2>3. \A t \in 1 .. MaxTime :
          /\ t < e.changed => (DownBy(s, n + 1, t) <=> DownBy(s, n, t))
          /\ e.changed <= t => (DownBy(s, n + 1, t) <=> e.status # "ok")
    BY <1>0, <2>1, DownNews
  <2>4. /\ \A in \in acc.out : in.started < in.resolved /\ in.resolved <= acc.lastChanged
        /\ acc.down => /\ 1 <= acc.started /\ acc.started <= acc.lastChanged
                       /\ \A in \in acc.out : in.resolved <= acc.started
        /\ \A a, b \in acc.out : a # b => Apart(a, b)
        /\ \A t \in 1 .. MaxTime : DownBy(s, n, t) <=> Noted(acc, t)
    BY DEF ReadInv
  <2>5. /\ new \in Noting
        /\ new.lastChanged = e.changed
        /\ e.status # "ok" /\ ~acc.down =>
             new.down /\ new.started = e.changed /\ new.out = acc.out
        /\ e.status = "ok" /\ acc.down =>
             /\ ~new.down
             /\ \E in \in Outage : /\ in.started = acc.started /\ in.resolved = e.changed
                                   /\ new.out = acc.out \union {in}
        /\ (e.status = "ok" <=> ~acc.down) =>
             new.down = acc.down /\ new.started = acc.started /\ new.out = acc.out
    BY <1>0, <1>1, <1>3, <2>4, NewsNoted
  <2>6. /\ \A j \in 1 .. n + 1 : s[j].changed <= e.changed
        /\ \E i \in 1 .. n + 1 : s[i].changed = e.changed
    <3>1. n + 1 \in 1 .. n + 1
      OBVIOUS
    <3> QED
      BY <1>0, <2>1, <3>1
  <2> HIDE DEF new, e
  <2>7. CASE e.status # "ok" /\ ~acc.down
    <3>1. \A t \in 1 .. MaxTime : DownBy(s, n + 1, t) <=> Noted(new, t)
      BY <1>0, <1>1, <2>2, <2>3, <2>4, <2>5, <2>7 DEF Noted, Covers
    <3>2. \A a, b \in new.out : a # b => Apart(a, b)
      BY <2>4, <2>5, <2>7
    <3>3. /\ \A x \in new.out : x.started < x.resolved /\ x.resolved <= new.lastChanged
          /\ \A x \in new.out : x.resolved <= new.started
          /\ 1 <= new.started /\ new.started <= new.lastChanged
      BY <1>0, <1>1, <2>1, <2>2, <2>4, <2>5, <2>7
    <3>4. ReadInv(s, n + 1, new)
      BY <2>5, <2>6, <2>7, <3>1, <3>2, <3>3 DEF ReadInv
    <3> QED
      BY <3>4 DEF new, e
  <2>8. CASE e.status = "ok" /\ acc.down
    <3>1. PICK in \in Outage : /\ in.started = acc.started /\ in.resolved = e.changed
                               /\ new.out = acc.out \union {in}
      BY <2>5, <2>8
    <3>2. \A t \in 1 .. MaxTime : DownBy(s, n + 1, t) <=> Noted(new, t)
      BY <1>0, <1>1, <2>2, <2>3, <2>4, <2>5, <2>8, <3>1 DEF Noted, Covers
    <3>3. \A a, b \in new.out : a # b => Apart(a, b)
      BY <2>4, <2>8, <3>1 DEF Apart
    <3>4. \A x \in new.out : x.started < x.resolved /\ x.resolved <= new.lastChanged
      BY <1>0, <1>1, <2>2, <2>4, <2>5, <2>8, <3>1
    <3>5. ReadInv(s, n + 1, new)
      BY <2>5, <2>6, <2>8, <3>2, <3>3, <3>4 DEF ReadInv
    <3> QED
      BY <3>5 DEF new, e
  <2>9. CASE e.status = "ok" <=> ~acc.down
    <3>1. \A t \in 1 .. MaxTime : DownBy(s, n + 1, t) <=> Noted(new, t)
      BY <1>0, <1>1, <2>2, <2>3, <2>4, <2>5, <2>9 DEF Noted, Covers
    <3>2. ReadInv(s, n + 1, new)
      BY <1>0, <1>1, <2>2, <2>4, <2>5, <2>6, <2>9, <3>1 DEF ReadInv
    <3> QED
      BY <3>2 DEF new, e
  <2> QED
    BY <2>7, <2>8, <2>9
<1> QED
  BY <1>2, <1>3

LEMMA TrailFacts ==
    ASSUME NEW s \in Trails
    PROVE  /\ Len(s) \in Nat /\ DOMAIN s = 1 .. Len(s)
           /\ \A j \in 1 .. Len(s) : s[j] \in Snapshot
           /\ \A i, j \in 1 .. Len(s) : i < j => Follows(s[j], s[i])
<1>1. PICK n \in 0 .. MaxSnapshots : s \in [1 .. n -> Snapshot]
  BY DEF Trails
<1>2. n \in Nat
  BY BackfillAssumption
<1>3. s \in Seq(Snapshot) /\ Len(s) = n
  BY <1>1, <1>2
<1> QED
  BY <1>1, <1>2, <1>3 DEF Trails

\* Whatever part of a trail has been read.
LEMMA ReadAlways ==
    ASSUME NEW s \in Trails
    PROVE  ReadInv(s, Len(s), Reading(s)[Len(s)])
<1> DEFINE r == Reading(s)
           T == {n \in 0 .. Len(s) : ~ReadInv(s, n, r[n])}
<1>1. /\ Len(s) \in Nat
      /\ \A j \in 1 .. Len(s) : s[j] \in Snapshot
      /\ \A i, j \in 1 .. Len(s) : i < j => Follows(s[j], s[i])
  BY TrailFacts
<1>2. r[0] = Start /\ \A n \in 1 .. Len(s) : r[n] = ReadSnapshot(r[n - 1], s[n])
  BY <1>1, ReadingDefined
<1> HIDE DEF r
<1>3. T = {}
  <2> SUFFICES ASSUME T # {} PROVE FALSE
    OBVIOUS
  <2>1. T \in SUBSET Nat
    OBVIOUS
  <2>2. PICK n \in T : \A m \in T : n <= m
    <3> HIDE DEF T
    <3> QED
      BY <2>1, LeastNumber
  <2>3. CASE n = 0
    BY <1>2, <2>2, <2>3, ReadStart
  <2>4. CASE n # 0
    <3> DEFINE m == n - 1
    <3>1. m \in Nat /\ n = m + 1 /\ m \in 0 .. Len(s) /\ n \in 1 .. Len(s) /\ ~(n <= m)
      BY <1>1, <2>1, <2>2, <2>4
    <3> HIDE DEF m
    <3>2. ReadInv(s, m, r[m])
      BY <2>2, <3>1
    <3>3. r[n] = ReadSnapshot(r[m], s[m + 1])
      BY <1>2, <3>1
    <3>4. /\ \A j \in 1 .. m + 1 : s[j] \in Snapshot
          /\ \A j \in 1 .. m : Follows(s[m + 1], s[j])
      BY <1>1, <3>1
    <3>5. ReadInv(s, m + 1, r[n])
      BY <3>1, <3>2, <3>3, <3>4, ReadStep
    <3> QED
      BY <2>2, <3>1, <3>5
  <2> QED
    BY <2>3, <2>4
<1> QED
  BY <1>1, <1>3 DEF r

\* The incidents of a trail do not overlap, and tell when it has the service down.
Incident == [status : Failing, started : 1 .. MaxTime, resolved : (1 .. MaxTime) \union {Unset}]

LEMMA HistoryTold ==
    ASSUME trail \in Trails
    PROVE  /\ Incidents \subseteq Incident
           /\ \A in \in Incidents : in.started < in.resolved
           /\ \A a, b \in Incidents : a # b => Apart(a, b)
           /\ \A t \in 1 .. MaxTime : DownAt(t) <=> \E in \in Incidents : Covers(in, t)
<1> DEFINE acc == Reading(trail)[Len(trail)]
           last == [status |-> acc.status, started |-> acc.started, resolved |-> Unset]
<1>1. ReadInv(trail, Len(trail), acc)
  BY ReadAlways
<1>2. Incidents = IF acc.down THEN acc.out \union {last} ELSE acc.out
  BY DEF Incidents, Reconstruct
<1>3. \A t \in 1 .. MaxTime : DownAt(t) <=> DownBy(trail, Len(trail), t)
  BY TrailFacts DEF DownAt, DownBy
<1>4. last.started = acc.started /\ last.resolved = Unset /\ last.status = acc.status
  OBVIOUS
<1> HIDE DEF acc
<1>5. /\ acc \in Noting /\ acc.lastChanged \in 0 .. MaxTime /\ acc.started \in 0 .. MaxTime
      /\ acc.down \in BOOLEAN /\ MaxTime \in Nat
      /\ \A in \in acc.out : in \in Outage /\ in.started \in 1 .. MaxTime /\ in.resolved \in 1 .. MaxTime
      /\ \A in \in acc.out : in.started < in.resolved /\ in.resolved <= acc.lastChanged
      /\ acc.down => /\ 1 <= acc.started /\ acc.started <= acc.lastChanged
                     /\ \A in \in acc.out : in.resolved <= acc.started
      /\ \A a, b \in acc.out : a # b => Apart(a, b)
      /\ \A t \in 1 .. MaxTime : DownBy(trail, Len(trail), t) <=> Noted(acc, t)
  BY <1>1, BackfillAssumption DEF ReadInv, Noting, Outage
<1>6. Outage \subseteq Incident
  BY DEF Outage, Incident
<1>7. acc.down => last \in Incident
  BY <1>5 DEF Incident, Noting
<1> HIDE DEF last
<1>8. Incidents \subseteq Incident
  BY <1>2, <1>5, <1>6, <1>7
<1>9. \A in \in Incidents : in.started < in.resolved
  BY <1>2, <1>4, <1>5 DEF Unset
<1>10. \A a, b \in Incidents : a # b => Apart(a, b)
  BY <1>2, <1>4, <1>5 DEF Apart
<1>11. ASSUME NEW t \in 1 .. MaxTime PROVE Noted(acc, t) <=> \E in \in Incidents : Covers(in, t)
  <2>1. acc.down => (Covers(last, t) <=> acc.started <= t)
    BY <1>4, <1>5 DEF Covers, Unset
  <2> QED
    BY <1>2, <1>5, <2>1 DEF Noted
<1> QED
  BY <1>3, <1>5, <1>8, <1>9, <1>10, <1>11

-----------------------------------------------------------------------------
(* The command and the table.                                              *)

\* What it works on is there, and when it has ended nothing is left.
WorkInv ==
    /\ stage \in {"open", "resolve"} => Left # {}
    /\ stage = "resolve" => In.resolved # Unset
    /\ stage # "idle" => next > 0
    /\ stage = "idle" /\ next > 0 => Left = {}

\* No row is written that is there.
OnceInv == ~blind => Idempotent /\ (stage = "open" => ~Found)

\* Undisturbed, a row tells of an incident, but for the one that is about to be
\* closed; what the server closes lasts beyond the trail.
Tells(row, in) ==
    /\ row.started = in.started
    /\ IF in.resolved = Unset THEN row.resolved > MaxTime ELSE row.resolved = in.resolved
Closing(row) == stage = "resolve" /\ row.started = In.started /\ row.resolved = Unset

RowsInv ==
    ~disturbed /\ ~blind =>
        /\ \A id \in DOMAIN table :
             IF LiveRow(id) THEN table[id].resolved \in {Unset, LiveUpTime}
             ELSE Closing(table[id]) \/ \E in \in Incidents : Tells(table[id], in)
        /\ stage = "resolve" => \E id \in DOMAIN table : Closing(table[id])

\* What has been dealt with is there, unless something failed.
DoneInv ==
    /\ stage = "resolve" => Found
    /\ next > 0 /\ ~MayFail =>
         \A in \in Incidents :
             in.started >= after /\ in.started < next =>
                 \E id \in DOMAIN table : table[id].started = in.started

CommandInv == BackfillTypeOK /\ WorkInv /\ OnceInv /\ RowsInv /\ DoneInv

Row == [status : Failing, started : 1 .. LiveTime, resolved : 1 .. Unset]

LEMMA Times ==
    /\ MaxTime \in Nat /\ LiveTime = MaxTime + 1 /\ LiveUpTime = MaxTime + 2 /\ Unset = MaxTime + 3
    /\ LiveTime \in Nat /\ LiveUpTime \in Nat /\ Unset \in Nat /\ MaxRuns \in Nat
  BY BackfillAssumption DEF LiveTime, LiveUpTime, Unset

LEMMA IncidentFacts ==
    ASSUME trail \in Trails, NEW in \in Incidents
    PROVE  /\ in.status \in Failing /\ in.started \in 1 .. MaxTime
           /\ in.resolved \in 1 .. Unset /\ in.started < in.resolved
           /\ \A other \in Incidents : other.started = in.started => other = in
<1>1. Incidents \subseteq Incident /\ (\A x \in Incidents : x.started < x.resolved)
  BY HistoryTold
<1>2. \A a, b \in Incidents : a # b => Apart(a, b)
  BY HistoryTold
<1>3. \A x \in Incidents : /\ x.status \in Failing /\ x.started \in 1 .. MaxTime
                           /\ x.resolved \in 1 .. Unset /\ x.started < x.resolved
  BY <1>1, Times DEF Incident
<1>4. \A other \in Incidents : other.started = in.started => other = in
  <2> TAKE other \in Incidents
  <2>1. other # in => Apart(other, in)
    BY <1>2
  <2> QED
    BY <1>3, <2>1, Times DEF Apart
<1> QED
  BY <1>3, <1>4

\* The first of those left: the others of the run are earlier and dealt with.
LEMMA FirstLeft ==
    ASSUME trail \in Trails, Left # {}, next \in Nat
    PROVE  /\ In \in Incidents /\ In.started >= after /\ In.started >= next
           /\ \A in \in Incidents : in.started >= after /\ in.started < In.started + 1 =>
                in.started < next \/ in = In
<1>1. \A in \in Incidents : in.started \in 1 .. MaxTime
  BY IncidentFacts
<1>2. Left \subseteq Incidents
  BY DEF Left
<1> DEFINE T == {in.started : in \in Left}
<1>3. T \in SUBSET Nat /\ T # {}
  BY <1>1, <1>2, Times
<1>4. PICK n \in T : \A m \in T : n <= m
  <2> HIDE DEF T
  <2> QED
    BY <1>3, LeastNumber
<1>5. \E in \in Left : \A later \in Left : in.started <= later.started
  BY <1>4
<1>6. In \in Left /\ \A later \in Left : In.started <= later.started
  BY <1>5 DEF In
<1>7. ASSUME NEW in \in Incidents, in.started >= after, in.started < In.started + 1, ~(in.started < next)
      PROVE  in = In
  <2>0. in.started \in Int /\ In.started \in Int
    BY <1>1, <1>2, <1>6
  <2>1. In.started <= in.started
    <3>1. CASE in \in Left
      BY <1>6, <3>1
    <3>2. CASE in \notin Left
      BY <1>7, <2>0, <3>2 DEF Left
    <3> QED
      BY <3>1, <3>2
  <2> QED
    BY <1>2, <1>6, <1>7, <2>0, <2>1, IncidentFacts
<1> QED
  BY <1>2, <1>6, <1>7 DEF Left

LEMMA RowAdded ==
    ASSUME NEW old \in Seq(Row), NEW row \in Row, NEW new, new = Append(old, row)
    PROVE  /\ new \in Seq(Row)
           /\ DOMAIN new = DOMAIN old \union {Len(old) + 1} /\ Len(old) + 1 \notin DOMAIN old
           /\ new[Len(old) + 1] = row /\ \A id \in DOMAIN old : new[id] = old[id]
  OBVIOUS

LEMMA RowClosed ==
    ASSUME NEW old \in Seq(Row), NEW id \in DOMAIN old, NEW at \in 1 .. Unset,
           NEW new, new = [old EXCEPT ![id].resolved = at]
    PROVE  /\ new \in Seq(Row) /\ DOMAIN new = DOMAIN old
           /\ new[id].started = old[id].started /\ new[id].resolved = at
           /\ \A i \in DOMAIN old : i # id => new[i] = old[i]
<1>1. old[id] \in Row
  OBVIOUS
<1>2. [old[id] EXCEPT !.resolved = at] \in Row
  BY <1>1 DEF Row
<1>3. new \in [1 .. Len(old) -> Row] /\ DOMAIN new = DOMAIN old
  BY <1>2
<1> QED
  BY <1>1, <1>2, <1>3 DEF Row

\* If rows are open there is a most recent one.
LEMMA SomeOpenRow ==
    ASSUME table \in Seq(Row), NEW id \in DOMAIN table, table[id].resolved = Unset
    PROVE  OpenRows # {}
<1> DEFINE open == {i \in DOMAIN table : table[i].resolved = Unset}
           T == {LiveTime - table[i].started : i \in open}
<1>1. \A i \in DOMAIN table : table[i].started \in 1 .. LiveTime
  <2> TAKE i \in DOMAIN table
  <2>1. table[i] \in Row
    OBVIOUS
  <2> QED
    BY <2>1 DEF Row
<1>2. T \in SUBSET Nat /\ T # {}
  <2>1. \A i \in open : LiveTime - table[i].started \in Nat
    BY <1>1, Times
  <2>2. id \in open
    OBVIOUS
  <2> HIDE DEF open
  <2> QED
    BY <2>1, <2>2
<1>3. PICK n \in T : \A m \in T : n <= m
  <2> HIDE DEF T
  <2> QED
    BY <1>2, LeastNumber
<1>4. PICK i \in open : n = LiveTime - table[i].started
  BY <1>3
<1>5. \A j \in open : table[i].started >= table[j].started
  <2> TAKE j \in open
  <2>1. LiveTime - table[i].started <= LiveTime - table[j].started
    BY <1>3, <1>4
  <2> QED
    BY <1>1, <2>1, Times
<1> QED
  BY <1>4, <1>5 DEF OpenRows

LEMMA TableType == BackfillTypeOK <=> /\ trail \in Trails /\ table \in Seq(Row)
                                      /\ stage \in {"idle", "find", "open", "resolve"}
                                      /\ after \in Afters \union {0} /\ next \in 0 .. LiveTime
                                      /\ runs \in 0 .. MaxRuns
                                      /\ disturbed \in BOOLEAN /\ blind \in BOOLEAN
  BY DEF BackfillTypeOK, Row, Failing

\* The trail does not change, and what the command is at goes by after and next.
LEMMA SameWork ==
    ASSUME trail' = trail
    PROVE  /\ Incidents' = Incidents
           /\ UNCHANGED <<after, next>> => Left' = Left /\ In' = In
<1>1. Incidents' = Incidents
  BY DEF Incidents
<1>2. ASSUME UNCHANGED <<after, next>> PROVE Left' = Left /\ In' = In
  <2>1. Left' = Left
    BY <1>1, <1>2 DEF Left
  <2> QED
    BY <2>1 DEF In
<1> QED
  BY <1>1, <1>2

\* What holds of the incident at hand.
LEMMA AtHand ==
    ASSUME CommandInv, Left # {}
    PROVE  /\ In \in Incidents /\ In.status \in Failing /\ In.started \in 1 .. MaxTime
           /\ In.resolved \in 1 .. Unset /\ In.started < In.resolved
           /\ In.started >= after /\ In.started >= next
           /\ \A in \in Incidents : in.started >= after /\ in.started < In.started + 1 =>
                in.started < next \/ in = In
<1>1. trail \in Trails /\ next \in Nat
  BY Times DEF CommandInv, BackfillTypeOK
<1> QED
  BY <1>1, FirstLeft, IncidentFacts

\* To go on to the next one keeps what is dealt with, if the present one is.
LEMMA ProceedKeeps ==
    ASSUME CommandInv, Left # {}, Proceed, UNCHANGED <<trail, after, runs>>,
           \A id \in DOMAIN table : \E i \in DOMAIN table' : table'[i].started = table[id].started,
           MayFail \/ \E id \in DOMAIN table' : table'[id].started = In.started
    PROVE  /\ next' \in 0 .. LiveTime /\ stage' = "find"
           /\ WorkInv' /\ DoneInv'
<1>1. /\ In.started \in 1 .. MaxTime
      /\ \A in \in Incidents : in.started >= after /\ in.started < In.started + 1 =>
            in.started < next \/ in = In
  BY AtHand
<1>2. next' = In.started + 1 /\ stage' = "find" /\ next \in Nat
  BY Times DEF Proceed, CommandInv, BackfillTypeOK
<1>3. next' \in 0 .. LiveTime /\ next' > 0
  BY <1>1, <1>2, Times
<1>4. WorkInv'
  BY <1>2, <1>3 DEF WorkInv
<1>5. Incidents' = Incidents /\ MayFail' = MayFail
  BY SameWork DEF MayFail
<1>6. DoneInv'
  <2> SUFFICES ASSUME ~MayFail, NEW in \in Incidents, in.started >= after, in.started < In.started + 1
               PROVE  \E id \in DOMAIN table' : table'[id].started = in.started
    BY <1>2, <1>5 DEF DoneInv
  <2>1. CASE in = In
    BY <2>1
  <2>2. CASE in.started < next
    <3>1. in.started \in 1 .. MaxTime
      BY IncidentFacts DEF CommandInv, BackfillTypeOK
    <3>2. next > 0
      BY <1>2, <2>2, <3>1, Times
    <3>3. \E id \in DOMAIN table : table[id].started = in.started
      BY <2>2, <3>2 DEF CommandInv, DoneInv
    <3> QED
      BY <3>3
  <2> QED
    BY <1>1, <2>1, <2>2
<1> QED
  BY <1>2, <1>3, <1>4, <1>6

LEMMA CommandInitial == BackfillInit => CommandInv
<1> SUFFICES ASSUME BackfillInit PROVE CommandInv
  OBVIOUS
<1>1. BackfillTypeOK
  <2>1. table \in Seq(Row)
    BY DEF BackfillInit
  <2>2. next \in 0 .. LiveTime /\ runs \in 0 .. MaxRuns
    BY Times DEF BackfillInit
  <2> QED
    BY <2>1, <2>2, TableType DEF BackfillInit
<1>2. WorkInv /\ OnceInv /\ RowsInv /\ DoneInv
  BY DEF BackfillInit, WorkInv, OnceInv, Idempotent, RowsInv, DoneInv
<1> QED
  BY <1>1, <1>2 DEF CommandInv

LEMMA RunKeeps == ASSUME CommandInv, Run PROVE CommandInv'
<1>1. /\ stage = "idle" /\ stage' = "find" /\ next' = 1 /\ after' \in Afters
      /\ runs < MaxRuns /\ runs' = runs + 1
      /\ UNCHANGED <<trail, table, disturbed, blind>>
  BY DEF Run
<1>2. BackfillTypeOK'
  BY <1>1, Times DEF CommandInv, BackfillTypeOK
<1>3. WorkInv'
  BY <1>1 DEF WorkInv
<1>4. Incidents' = Incidents
  BY <1>1, SameWork
<1>5. OnceInv' /\ RowsInv'
  BY <1>1, <1>4 DEF CommandInv, OnceInv, Idempotent, RowsInv, Closing, LiveRow
<1>6. DoneInv'
  <2>1. \A in \in Incidents : in.started \in 1 .. MaxTime
    BY IncidentFacts DEF CommandInv, BackfillTypeOK
  <2> QED
    BY <1>1, <1>4, <2>1, Times DEF DoneInv
<1> QED
  BY <1>2, <1>3, <1>5, <1>6 DEF CommandInv

LEMMA FindKeeps == ASSUME CommandInv, FindID PROVE CommandInv'
<1>1. stage = "find" /\ Left # {} /\ UNCHANGED <<trail, table, after, runs, disturbed>>
  BY DEF FindID
<1>2. Incidents' = Incidents /\ (next' = next => Left' = Left /\ In' = In)
  BY <1>1, SameWork
<1>3. CASE Found /\ Proceed /\ UNCHANGED blind
  <2>1. next' \in 0 .. LiveTime /\ stage' = "find" /\ WorkInv' /\ DoneInv'
    BY <1>1, <1>3, ProceedKeeps DEF Found
  <2>2. BackfillTypeOK'
    BY <1>1, <1>3, <2>1 DEF CommandInv, BackfillTypeOK
  <2>3. OnceInv' /\ RowsInv'
    BY <1>1, <1>2, <1>3, <2>1 DEF CommandInv, OnceInv, Idempotent, RowsInv, Closing, LiveRow
  <2> QED
    BY <2>1, <2>2, <2>3 DEF CommandInv
<1>4. CASE stage' = "open" /\ next' = next /\ (blind' = TRUE \/ (blind' = blind /\ ~Found))
  <2>1. BackfillTypeOK'
    BY <1>1, <1>4 DEF CommandInv, BackfillTypeOK
  <2>2. Left' = Left /\ In' = In /\ (Found' <=> Found)
    BY <1>1, <1>2, <1>4 DEF Found
  <2>3. WorkInv'
    BY <1>1, <1>4, <2>2 DEF CommandInv, WorkInv
  <2>4. OnceInv'
    BY <1>1, <1>4, <2>2 DEF CommandInv, OnceInv, Idempotent
  <2>5. RowsInv'
    BY <1>1, <1>2, <1>4 DEF CommandInv, RowsInv, Closing, LiveRow
  <2>6. DoneInv'
    BY <1>1, <1>2, <1>4 DEF CommandInv, DoneInv, MayFail
  <2> QED
    BY <2>1, <2>3, <2>4, <2>5, <2>6 DEF CommandInv
<1> QED
  BY <1>1, <1>3, <1>4 DEF FindID

LEMMA OpenKeeps == ASSUME CommandInv, OpenRow PROVE CommandInv'
<1>1. stage = "open" /\ Left # {} /\ UNCHANGED <<trail, after, runs, blind>>
  BY DEF OpenRow, CommandInv, WorkInv
<1>2. /\ In \in Incidents /\ In.status \in Failing /\ In.started \in 1 .. MaxTime
      /\ In.resolved \in 1 .. Unset /\ next > 0 /\ table \in Seq(Row)
  BY <1>1, AtHand, TableType DEF CommandInv, WorkInv
<1>3. Incidents' = Incidents /\ (next' = next => Left' = Left /\ In' = In)
  BY <1>1, SameWork
<1>4. ASSUME MayFail, Proceed, UNCHANGED <<table, disturbed>> PROVE CommandInv'
  <2>1. next' \in 0 .. LiveTime /\ stage' = "find" /\ WorkInv' /\ DoneInv'
    BY <1>1, <1>4, ProceedKeeps
  <2>2. BackfillTypeOK'
    BY <1>1, <1>4, <2>1 DEF CommandInv, BackfillTypeOK
  <2>3. OnceInv' /\ RowsInv'
    BY <1>1, <1>3, <1>4, <2>1 DEF CommandInv, OnceInv, Idempotent, RowsInv, Closing, LiveRow
  <2> QED
    BY <2>1, <2>2, <2>3 DEF CommandInv
<1> DEFINE row == [status |-> In.status, started |-> In.started, resolved |-> Unset]
<1>5. ASSUME table' = Append(table, row), disturbed' \in BOOLEAN, ~disturbed' => ~disturbed,
             \/ Proceed /\ (~disturbed' => In.resolved = Unset)
             \/ In.resolved # Unset /\ stage' = "resolve" /\ UNCHANGED next
      PROVE  CommandInv'
  <2>1. row \in Row /\ row.started = In.started /\ row.resolved = Unset
    BY <1>2, Times DEF Row
  <2> HIDE DEF row
  <2>2. PICK new :
           /\ table' \in Seq(Row) /\ DOMAIN table' = DOMAIN table \union {new} /\ new \notin DOMAIN table
           /\ table'[new] = row /\ \A id \in DOMAIN table : table'[id] = table[id]
    BY <1>2, <1>5, <2>1, RowAdded
  <2>3. /\ next' \in 0 .. LiveTime /\ stage' \in {"find", "resolve"}
        /\ WorkInv' /\ DoneInv'
    <3>1. CASE Proceed
      BY <1>1, <1>5, <2>1, <2>2, <3>1, ProceedKeeps
    <3>2. CASE In.resolved # Unset /\ stage' = "resolve" /\ UNCHANGED next
      <4>1. WorkInv'
        BY <1>1, <1>2, <1>3, <1>5, <3>2 DEF WorkInv
      <4>2. Found'
        BY <1>3, <1>5, <2>1, <2>2, <3>2 DEF Found
      <4>3. DoneInv'
        BY <1>1, <1>3, <1>5, <2>2, <3>2, <4>2 DEF CommandInv, DoneInv, MayFail
      <4> QED
        BY <1>5, <3>2, <4>1, <4>3 DEF CommandInv, BackfillTypeOK
    <3> QED
      BY <1>5, <3>1, <3>2
  <2>4. BackfillTypeOK'
    BY <1>1, <1>5, <2>2, <2>3, TableType DEF CommandInv, BackfillTypeOK, Row, Failing
  <2>5. OnceInv'
    <3>1. ~blind => \A id \in DOMAIN table : table[id].started # In.started
      BY <1>1 DEF CommandInv, OnceInv, Found
    <3> QED
      BY <1>1, <2>1, <2>2, <2>3, <3>1 DEF CommandInv, OnceInv, Idempotent
  <2>6. RowsInv'
    <3> SUFFICES ASSUME ~disturbed', ~blind
                 PROVE  /\ \A id \in DOMAIN table' :
                             IF table'[id].started = LiveTime THEN table'[id].resolved \in {Unset, LiveUpTime}
                             ELSE Closing(table[id])' \/ \E in \in Incidents : Tells(table'[id], in)
                        /\ stage' = "resolve" => \E id \in DOMAIN table' : Closing(table[id])'
      BY <1>1, <1>3 DEF RowsInv, LiveRow, Tells
    <3>1. \A id \in DOMAIN table :
            IF table[id].started = LiveTime THEN table[id].resolved \in {Unset, LiveUpTime}
            ELSE \E in \in Incidents : Tells(table[id], in)
      BY <1>1, <1>5 DEF CommandInv, RowsInv, LiveRow, Closing
    <3>2. row.started # LiveTime
      BY <1>2, <2>1, Times
    <3>3. CASE Proceed /\ In.resolved = Unset
      <4>1. Tells(row, In) /\ stage' = "find"
        BY <1>5, <2>1, <3>3, Times DEF Tells, Proceed
      <4> QED
        BY <1>2, <2>2, <3>1, <3>2, <4>1
    <3>4. CASE In.resolved # Unset /\ stage' = "resolve" /\ UNCHANGED next
      <4>1. Closing(table[new])'
        BY <1>3, <1>5, <2>1, <2>2, <3>4 DEF Closing
      <4> QED
        BY <2>2, <3>1, <3>2, <4>1
    <3> QED
      BY <1>5, <3>3, <3>4
  <2> QED
    BY <2>3, <2>4, <2>5, <2>6 DEF CommandInv
<1>6. disturbed \in BOOLEAN
  BY DEF CommandInv, BackfillTypeOK
<1>7. CASE Inserted /\ UNCHANGED disturbed
  BY <1>5, <1>6, <1>7 DEF OpenRow, Inserted
<1>8. CASE MayFail /\ Proceed /\ Inserted /\ disturbed' = (disturbed \/ In.resolved # Unset)
  <2>1. disturbed' \in BOOLEAN /\ (~disturbed' => ~disturbed /\ In.resolved = Unset)
    BY <1>8, Zenon
  <2> QED
    BY <1>5, <1>8, <2>1 DEF Inserted
<1> QED
  BY <1>4, <1>7, <1>8 DEF OpenRow

LEMMA ResolveKeeps == ASSUME CommandInv, ResolveRow PROVE CommandInv'
<1>1. /\ stage = "resolve" /\ Left # {} /\ Found /\ In.resolved # Unset
      /\ UNCHANGED <<trail, after, runs, blind>> /\ Proceed
  BY DEF ResolveRow, CommandInv, WorkInv, DoneInv
<1>2. /\ In \in Incidents /\ In.started \in 1 .. MaxTime
      /\ In.resolved \in 1 .. Unset /\ table \in Seq(Row)
  BY <1>1, AtHand, TableType DEF CommandInv
<1>3. Incidents' = Incidents
  BY <1>1, SameWork
<1>4. ASSUME table' = table, disturbed' = TRUE PROVE CommandInv'
  <2>1. next' \in 0 .. LiveTime /\ stage' = "find" /\ WorkInv' /\ DoneInv'
    BY <1>1, <1>4, ProceedKeeps DEF Found
  <2>2. BackfillTypeOK'
    BY <1>1, <1>4, <2>1 DEF CommandInv, BackfillTypeOK
  <2>3. OnceInv' /\ RowsInv'
    BY <1>1, <1>4, <2>1 DEF CommandInv, OnceInv, Idempotent, RowsInv
  <2> QED
    BY <2>1, <2>2, <2>3 DEF CommandInv
<1>5. ASSUME Resolve(In.resolved), disturbed' = (disturbed \/ \E id \in OpenRows : table[id].started # In.started)
      PROVE  CommandInv'
  <2>1. \/ OpenRows = {} /\ table' = table
        \/ \E id \in OpenRows : table' = [table EXCEPT ![id].resolved = In.resolved]
    BY <1>5 DEF Resolve
  <2>2. OpenRows \subseteq DOMAIN table
    BY DEF OpenRows
  <2>3. /\ table' \in Seq(Row) /\ DOMAIN table' = DOMAIN table
        /\ \A id \in DOMAIN table : table'[id].started = table[id].started
    <3>1. CASE table' = table
      BY <1>2, <3>1
    <3>2. CASE \E id \in OpenRows : table' = [table EXCEPT ![id].resolved = In.resolved]
      <4>1. PICK id \in OpenRows : table' = [table EXCEPT ![id].resolved = In.resolved]
        BY <3>2
      <4>2. /\ table' \in Seq(Row) /\ DOMAIN table' = DOMAIN table
            /\ table'[id].started = table[id].started
            /\ \A i \in DOMAIN table : i # id => table'[i] = table[i]
        BY <1>2, <2>2, <4>1, RowClosed
      <4> QED
        BY <4>2
    <3> QED
      BY <2>1, <3>1, <3>2
  <2>4. next' \in 0 .. LiveTime /\ stage' = "find" /\ WorkInv' /\ DoneInv'
    BY <1>1, <2>3, ProceedKeeps DEF Found
  <2>5. BackfillTypeOK'
    BY <1>1, <1>5, <2>3, <2>4, TableType DEF CommandInv, BackfillTypeOK, Row, Failing
  <2>6. OnceInv'
    BY <1>1, <2>3, <2>4 DEF CommandInv, OnceInv, Idempotent
  <2>7. RowsInv'
    <3> SUFFICES ASSUME ~disturbed', ~blind,
                        NEW i \in DOMAIN table
                 PROVE  IF table[i].started = LiveTime THEN table'[i].resolved \in {Unset, LiveUpTime}
                        ELSE \E in \in Incidents : Tells(table'[i], in)
      BY <1>1, <1>3, <2>3, <2>4 DEF RowsInv, LiveRow, Tells
    <3>1. /\ ~disturbed /\ \A id \in OpenRows : table[id].started = In.started
      BY <1>5 DEF CommandInv, BackfillTypeOK
    <3>2. /\ IF table[i].started = LiveTime THEN table[i].resolved \in {Unset, LiveUpTime}
             ELSE Closing(table[i]) \/ \E in \in Incidents : Tells(table[i], in)
          /\ \E k \in DOMAIN table : Closing(table[k])
      BY <1>1, <3>1 DEF CommandInv, RowsInv, LiveRow
    <3>3. PICK k \in DOMAIN table : Closing(table[k])
      BY <3>2
    <3>4. \A j \in DOMAIN table : table[j].started = In.started => j = k
      BY <3>3 DEF CommandInv, OnceInv, Idempotent, Closing
    <3>5. OpenRows # {}
      BY <1>2, <3>3, SomeOpenRow DEF Closing
    <3>6. table' = [table EXCEPT ![k].resolved = In.resolved]
      BY <2>1, <2>2, <3>1, <3>4, <3>5
    <3>7. /\ table'[k].resolved = In.resolved /\ table'[k].started = In.started
          /\ \A j \in DOMAIN table : j # k => table'[j] = table[j]
      BY <1>2, <3>3, <3>6, RowClosed DEF Closing
    <3>8. CASE i = k
      BY <1>1, <1>2, <3>3, <3>7, <3>8, Times DEF Tells, Closing
    <3>9. CASE i # k
      BY <3>2, <3>4, <3>7, <3>9 DEF Closing
    <3> QED
      BY <3>8, <3>9
  <2> QED
    BY <2>4, <2>5, <2>6, <2>7 DEF CommandInv
<1> QED
  BY <1>4, <1>5 DEF ResolveRow

LEMMA EndKeeps == ASSUME CommandInv, Finish \/ Dies PROVE CommandInv'
<1>1. /\ stage' = "idle" /\ UNCHANGED <<trail, table, after, runs, blind>>
      /\ \/ next' = 0 /\ disturbed' = (disturbed \/ stage = "resolve")
         \/ next' = next /\ disturbed' = disturbed /\ stage = "find" /\ Left = {}
  BY DEF Finish, Dies
<1>2. Incidents' = Incidents /\ (next' = next => Left' = Left)
  BY <1>1, SameWork
<1>3. BackfillTypeOK'
  <2>1. disturbed' \in BOOLEAN
    BY <1>1 DEF CommandInv, BackfillTypeOK
  <2>2. next' \in 0 .. LiveTime
    BY <1>1, Times DEF CommandInv, BackfillTypeOK
  <2> QED
    BY <1>1, <2>1, <2>2 DEF CommandInv, BackfillTypeOK
<1>4. WorkInv'
  BY <1>1, <1>2 DEF WorkInv
<1>5. OnceInv'
  BY <1>1 DEF CommandInv, OnceInv, Idempotent
<1>6. RowsInv'
  BY <1>1, <1>2 DEF CommandInv, RowsInv, Closing, LiveRow
<1>7. DoneInv'
  BY <1>1, <1>2 DEF CommandInv, DoneInv, MayFail
<1> QED
  BY <1>3, <1>4, <1>5, <1>6, <1>7 DEF CommandInv

LEMMA LiveDownKeeps == ASSUME CommandInv, LiveDown PROVE CommandInv'
<1> DEFINE row == [status |-> "error", started |-> LiveTime, resolved |-> Unset]
<1>1. /\ ~LiveRecorded /\ table' = Append(table, row)
      /\ UNCHANGED <<trail, stage, after, next, runs, disturbed, blind>>
  BY DEF LiveDown
<1>2. Incidents' = Incidents /\ Left' = Left /\ In' = In /\ table \in Seq(Row)
  BY <1>1, SameWork, TableType DEF CommandInv
<1>3. row \in Row /\ row.started = LiveTime /\ row.resolved = Unset
  BY Times DEF Row, Failing
<1> HIDE DEF row
<1>4. PICK new :
         /\ table' \in Seq(Row) /\ DOMAIN table' = DOMAIN table \union {new} /\ new \notin DOMAIN table
         /\ table'[new] = row /\ \A id \in DOMAIN table : table'[id] = table[id]
  BY <1>1, <1>2, <1>3, RowAdded
<1>5. BackfillTypeOK'
  BY <1>1, <1>4, TableType DEF CommandInv, BackfillTypeOK, Row, Failing
<1>6. WorkInv'
  BY <1>1, <1>2 DEF CommandInv, WorkInv
<1>7. stage \in {"open", "resolve"} => In.started # LiveTime
  BY AtHand, Times DEF CommandInv, WorkInv
<1>8. OnceInv'
  <2>1. \A id \in DOMAIN table : table[id].started # LiveTime
    BY <1>1 DEF LiveRecorded, LiveRow
  <2> QED
    BY <1>1, <1>2, <1>3, <1>4, <1>7, <2>1 DEF CommandInv, OnceInv, Idempotent, Found
<1>9. RowsInv'
  <2>1. \A id : (Closing(table[id]))' <=> stage = "resolve" /\ table'[id].started = In.started /\ table'[id].resolved = Unset
    BY <1>1, <1>2 DEF Closing
  <2> QED
    BY <1>1, <1>2, <1>3, <1>4, <2>1 DEF CommandInv, RowsInv, Closing, LiveRow
<1>10. DoneInv'
  BY <1>1, <1>2, <1>4 DEF CommandInv, DoneInv, MayFail, Found
<1> QED
  BY <1>5, <1>6, <1>8, <1>9, <1>10 DEF CommandInv

LEMMA LiveUpKeeps == ASSUME CommandInv, LiveUp PROVE CommandInv'
<1>1. /\ LiveRecorded /\ Resolve(LiveUpTime)
      /\ \A id \in DOMAIN table : table[id].resolved # LiveUpTime
      /\ UNCHANGED <<trail, stage, after, next, runs, disturbed, blind>>
  BY DEF LiveUp
<1>2. /\ Incidents' = Incidents /\ Left' = Left /\ In' = In /\ table \in Seq(Row)
      /\ LiveUpTime \in 1 .. Unset
  BY <1>1, SameWork, TableType, Times DEF CommandInv
<1>3. CASE table' = table
  <2>1. BackfillTypeOK' /\ WorkInv' /\ OnceInv' /\ DoneInv'
    BY <1>1, <1>2, <1>3 DEF CommandInv, BackfillTypeOK, WorkInv, OnceInv, Idempotent, Found, DoneInv, MayFail
  <2>2. RowsInv'
    BY <1>1, <1>2, <1>3 DEF CommandInv, RowsInv, Closing, LiveRow
  <2> QED
    BY <2>1, <2>2 DEF CommandInv
<1>4. ASSUME NEW id \in OpenRows, table' = [table EXCEPT ![id].resolved = LiveUpTime] PROVE CommandInv'
  <2>1. id \in DOMAIN table /\ table[id].resolved = Unset
        /\ \A i \in DOMAIN table : table[i].resolved = Unset => table[id].started >= table[i].started
    BY DEF OpenRows
  <2>2. /\ table' \in Seq(Row) /\ DOMAIN table' = DOMAIN table
        /\ table'[id].started = table[id].started /\ table'[id].resolved = LiveUpTime
        /\ \A i \in DOMAIN table : i # id => table'[i] = table[i]
    <3>1. PICK at \in 1 .. Unset : at = LiveUpTime
      BY <1>2
    <3>2. table' = [table EXCEPT ![id].resolved = at]
      BY <1>4, <3>1
    <3>3. /\ table' \in Seq(Row) /\ DOMAIN table' = DOMAIN table
          /\ table'[id].started = table[id].started /\ table'[id].resolved = at
          /\ \A i \in DOMAIN table : i # id => table'[i] = table[i]
      BY <1>2, <2>1, <3>2, RowClosed
    <3> QED
      BY <3>1, <3>3
  <2>3. \A i \in DOMAIN table : table'[i].started = table[i].started
    BY <2>2
  <2>4. BackfillTypeOK'
    BY <1>1, <2>2, TableType DEF CommandInv, BackfillTypeOK, Row, Failing
  <2>5. WorkInv'
    BY <1>1, <1>2 DEF CommandInv, WorkInv
  <2>6. OnceInv'
    BY <1>1, <1>2, <2>2, <2>3 DEF CommandInv, OnceInv, Idempotent, Found
  <2>7. DoneInv'
    BY <1>1, <1>2, <2>2, <2>3 DEF CommandInv, DoneInv, MayFail, Found
  <2>8. RowsInv'
    <3> SUFFICES ASSUME ~disturbed, ~blind PROVE RowsInv'
      BY <1>1 DEF RowsInv
    <3>1. PICK k \in DOMAIN table : table[k].started = LiveTime
      BY <1>1 DEF LiveRecorded, LiveRow
    <3>2. table[k].resolved = Unset
      BY <1>1, <3>1 DEF CommandInv, RowsInv, LiveRow
    <3>3. table[id].started = LiveTime
      <4>1. table[id] \in Row
        BY <1>2, <2>1
      <4>2. table[id].started \in 1 .. LiveTime
        BY <4>1 DEF Row
      <4> QED
        BY <2>1, <3>1, <3>2, <4>2, Times
    <3>4. stage = "resolve" => In.started # LiveTime
      BY AtHand, Times DEF CommandInv, WorkInv
    <3>5. \A i : (Closing(table[i]))' <=> stage = "resolve" /\ table'[i].started = In.started /\ table'[i].resolved = Unset
      BY <1>1, <1>2 DEF Closing
    <3> QED
      BY <1>1, <1>2, <2>2, <2>3, <3>3, <3>4, <3>5 DEF CommandInv, RowsInv, Closing, LiveRow
  <2> QED
    BY <2>4, <2>5, <2>6, <2>7, <2>8 DEF CommandInv
<1> QED
  BY <1>1, <1>3, <1>4 DEF Resolve

LEMMA CommandStep == CommandInv /\ [BackfillNext]_backfillVars => CommandInv'
<1> SUFFICES ASSUME CommandInv, [BackfillNext]_backfillVars PROVE CommandInv'
  OBVIOUS
<1>1. CASE UNCHANGED backfillVars
  <2>1. UNCHANGED <<trail, table, stage, after, next, runs, disturbed, blind>>
    BY <1>1 DEF backfillVars
  <2>2. Incidents' = Incidents /\ Left' = Left /\ In' = In
    BY <2>1, SameWork
  <2>3. BackfillTypeOK' /\ WorkInv' /\ OnceInv' /\ DoneInv'
    BY <2>1, <2>2 DEF CommandInv, BackfillTypeOK, WorkInv, OnceInv, Idempotent, Found, DoneInv, MayFail
  <2>4. RowsInv'
    BY <2>1, <2>2 DEF CommandInv, RowsInv, Closing, LiveRow
  <2> QED
    BY <2>3, <2>4 DEF CommandInv
<1>2. CASE BackfillNext
  BY <1>2, RunKeeps, FindKeeps, OpenKeeps, ResolveKeeps, EndKeeps, LiveDownKeeps, LiveUpKeeps DEF BackfillNext
<1> QED
  BY <1>1, <1>2

LEMMA CommandAlways == BackfillSpec => []CommandInv
<1> QED
  BY CommandInitial, CommandStep, PTL DEF BackfillSpec

\* One row for an incident, in whatever way the runs and the server take turns,
\* as long as no query of findID fails for a row that is there.
THEOREM OneRowForEach == BackfillSpec => [](BackfillTypeOK /\ OneRowEach)
<1>1. CommandInv => BackfillTypeOK /\ OneRowEach
  BY DEF CommandInv, OnceInv, OneRowEach
<1> QED
  BY <1>1, CommandAlways, PTL

-----------------------------------------------------------------------------
(* A full run leaves what the trail tells.                                 *)

\* Every incident has its row, and a row of the trail's time is an incident's.
LEMMA RowsAreIncidents ==
    ASSUME CommandInv, Complete, ~disturbed, ~blind
    PROVE  /\ \A in \in Incidents : \E id \in DOMAIN table : Tells(table[id], in)
           /\ \A id \in DOMAIN table : LiveRow(id) \/ \E in \in Incidents : Tells(table[id], in)
           /\ Idempotent
<1>1. /\ stage = "idle" /\ next > 0 /\ ~MayFail /\ after = 0 /\ Left = {}
      /\ trail \in Trails /\ next \in Nat
  BY Times DEF Complete, CommandInv, WorkInv, BackfillTypeOK
<1>2. \A id \in DOMAIN table : LiveRow(id) \/ \E in \in Incidents : Tells(table[id], in)
  BY <1>1 DEF CommandInv, RowsInv, Closing
<1>3. ASSUME NEW in \in Incidents PROVE \E id \in DOMAIN table : Tells(table[id], in)
  <2>1. /\ in.started \in 1 .. MaxTime
        /\ \A other \in Incidents : other.started = in.started => other = in
    BY <1>1, IncidentFacts
  <2>2. in.started >= after /\ in.started < next
    BY <1>1, <2>1, Times DEF Left
  <2>3. PICK id \in DOMAIN table : table[id].started = in.started
    BY <1>1, <2>2 DEF CommandInv, DoneInv
  <2>4. ~LiveRow(id)
    BY <2>1, <2>3, Times DEF LiveRow
  <2>5. PICK other \in Incidents : Tells(table[id], other)
    BY <1>2, <2>4
  <2>6. other = in
    BY <2>1, <2>3, <2>5 DEF Tells
  <2> QED
    BY <2>5, <2>6
<1> QED
  BY <1>2, <1>3 DEF CommandInv, OnceInv

\* So the rows that have the service down at a time of the trail are the ones
\* of the incidents that have.
LEMMA FullRunTells == CommandInv => TableTellsTrail
<1> SUFFICES ASSUME CommandInv, Complete, ~disturbed, ~blind, NEW t \in 1 .. MaxTime
             PROVE  Cardinality({id \in DOMAIN table : table[id].started <= t /\ t < table[id].resolved})
                      = IF DownAt(t) THEN 1 ELSE 0
  BY DEF TableTellsTrail, TableIsTrail
<1> DEFINE covering == {id \in DOMAIN table : table[id].started <= t /\ t < table[id].resolved}
<1>1. /\ trail \in Trails /\ table \in Seq(Row)
  BY TableType DEF CommandInv
<1>2. /\ \A in \in Incidents : \E id \in DOMAIN table : Tells(table[id], in)
      /\ \A id \in DOMAIN table : LiveRow(id) \/ \E in \in Incidents : Tells(table[id], in)
      /\ \A i, j \in DOMAIN table : table[i].started = table[j].started => i = j
  BY RowsAreIncidents DEF Idempotent
<1>3. /\ DownAt(t) <=> \E in \in Incidents : Covers(in, t)
      /\ \A a, b \in Incidents : a # b => Apart(a, b)
  BY <1>1, HistoryTold
<1>4. \A in \in Incidents : in.started \in 1 .. MaxTime /\ in.resolved \in 1 .. Unset
  BY <1>1, IncidentFacts
<1>5. \A id \in DOMAIN table : table[id].started \in 1 .. LiveTime /\ table[id].resolved \in 1 .. Unset
  <2> TAKE id \in DOMAIN table
  <2>1. table[id] \in Row
    BY <1>1
  <2> QED
    BY <2>1 DEF Row
<1>6. \A id \in DOMAIN table, in \in Incidents :
        Tells(table[id], in) => (id \in covering <=> Covers(in, t))
  <2> TAKE id \in DOMAIN table, in \in Incidents
  <2> QED
    BY <1>4, <1>5, Times DEF Tells, Covers
<1>7. \A id \in covering : ~LiveRow(id)
  BY <1>5, Times DEF LiveRow
<1>8. \A id \in covering : id \in DOMAIN table
  OBVIOUS
<1> HIDE DEF covering
<1>9. ASSUME NEW i \in covering, NEW j \in covering PROVE i = j
  <2>1. PICK a \in Incidents : Tells(table[i], a)
    BY <1>2, <1>7, <1>8
  <2>2. PICK b \in Incidents : Tells(table[j], b)
    BY <1>2, <1>7, <1>8
  <2>3. Covers(a, t) /\ Covers(b, t)
    BY <1>6, <1>8, <2>1, <2>2
  <2>4. ~Apart(a, b)
    BY <1>4, <2>3, Times DEF Covers, Apart
  <2>5. a = b
    BY <1>3, <2>4
  <2>6. table[i].started = table[j].started
    BY <2>1, <2>2, <2>5 DEF Tells
  <2> QED
    BY <1>2, <1>8, <2>6
<1>10. CASE DownAt(t)
  <2>1. PICK in \in Incidents : Covers(in, t)
    BY <1>3, <1>10
  <2>2. PICK id \in DOMAIN table : Tells(table[id], in)
    BY <1>2
  <2>3. covering = {id}
    BY <1>6, <1>9, <2>1, <2>2
  <2>4. Cardinality(covering) = 1
    BY <2>3, FS_Singleton
  <2> QED
    BY <1>10, <2>4 DEF covering
<1>11. CASE ~DownAt(t)
  <2>1. covering = {}
    <3> SUFFICES ASSUME NEW id \in covering PROVE FALSE
      OBVIOUS
    <3>1. PICK in \in Incidents : Tells(table[id], in)
      BY <1>2, <1>7, <1>8
    <3> QED
      BY <1>3, <1>6, <1>8, <1>11, <3>1
  <2>2. Cardinality({}) = 0
    BY FS_EmptySet
  <2>3. Cardinality(covering) = 0
    BY <2>1, <2>2
  <2> QED
    BY <1>11, <2>3 DEF covering
<1> QED
  BY <1>10, <1>11

\* Once a full run has come to its end the table has the service down exactly
\* when the trail has, whatever became of the runs before, unless a Resolve was
\* lost or hit another row, or a failed query was taken for a missing row.
THEOREM TrailIsTold == BackfillSpec => []TableTellsTrail
<1> QED
  BY CommandAlways, FullRunTells, PTL

=============================================================================
