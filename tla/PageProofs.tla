----------------------------- MODULE PageProofs -----------------------------
(***************************************************************************)
(* Proofs about the five things a visitor of the page meets beside the     *)
(* cards: the contact form, the pins, the limiter of requests, the         *)
(* analysis section of the detail dialog and what flags a message.  They   *)
(* share no state and are proved one after the other: for each an          *)
(* inductive invariant, a lemma for every action, and the theorems.        *)
(***************************************************************************)
EXTENDS Contact, Favourites, RateLimit, AnalysisView, Profanity, Induction, SequenceTheorems

-----------------------------------------------------------------------------
(* The contact form.                                                       *)

Forms == [dialog : 0 .. MaxDialogs, state : {"closed", "idle", "sending", "success", "error"},
          text : 0 .. MaxTexts, website : BOOLEAN, written : 0 .. MaxTexts]
PostRecords == [dialog : 0 .. MaxDialogs, text : 0 .. MaxTexts, website : BOOLEAN,
                stage : {"none", "preflight", "post", "mail", "ok", "refused"},
                awaited : BOOLEAN]

PageTypes ==
    /\ form \in Forms
    /\ posts \in [Slots -> PostRecords]

CountTypes ==
    /\ spent \in 0 .. MaxPerWindow
    /\ crowd \in 0 .. spent
    /\ clicks \in 0 .. MaxClicks
    /\ faults \in 0 .. MaxFaults
    /\ mails \in [Texts -> Nat]
    /\ lost \in [Texts -> Nat]
    /\ \A t \in Texts : lost[t] <= faults

\* Texts are numbered as they are written, and so are dialogs.
NumberInv ==
    /\ form.text <= form.written
    /\ \A s \in Slots :
         /\ posts[s].text <= form.written
         /\ posts[s].dialog <= form.dialog
         /\ posts[s].stage # "none" => posts[s].text \in Texts
         /\ posts[s].awaited => posts[s].stage # "none"
    /\ \A t \in Texts : t > form.written => mails[t] = 0

\* The dialog waits for one request at most, and only at "sending".
AwaitInv ==
    \A s \in Slots :
        posts[s].awaited /\ posts[s].dialog = form.dialog =>
            /\ form.state \in {"closed", "sending"}
            /\ \A u \in Slots :
                 posts[u].awaited /\ posts[u].dialog = form.dialog => u = s

\* A request whose text may still be mailed, or come back to be sent again.
Weight(p, t) ==
    IF p.text = t /\ p.stage \in {"preflight", "post", "mail", "refused"} THEN 1 ELSE 0
Chances(t) == {s \in Slots : Weight(posts[s], t) = 1}

\* The form may send the text without having lost an answer to it.
Sendable(t) ==
    /\ form.text = t
    /\ form.state # "closed"
    /\ \A s \in Slots : Awaits(s) => posts[s].text # t
More(t) == IF Sendable(t) THEN 1 ELSE 0

ChanceInv ==
    \A t \in Texts :
        /\ IsFiniteSet(Chances(t))
        /\ mails[t] + Cardinality(Chances(t)) + More(t) <= 1 + lost[t]

ContactInv == PageTypes /\ CountTypes /\ NumberInv /\ AwaitInv /\ ChanceInv

LEMMA ChancesChange ==
    ASSUME PageTypes, NEW t \in Texts, NEW s \in Slots, NEW p,
           IsFiniteSet(Chances(t)), posts' = [posts EXCEPT ![s] = p]
    PROVE  /\ IsFiniteSet(Chances(t)')
           /\ Cardinality(Chances(t)') = Cardinality(Chances(t)) - Weight(posts[s], t) + Weight(p, t)
           /\ Cardinality(Chances(t)) \in Nat /\ Cardinality(Chances(t)') \in Nat
<1> DEFINE R == Chances(t) \ {s}
<1>1. IsFiniteSet(R) /\ Cardinality(R) \in Nat /\ s \notin R
  BY FS_RemoveElement, FS_CardinalityType
<1>2. IsFiniteSet(R \union {s}) /\ Cardinality(R \union {s}) = Cardinality(R) + 1
  BY <1>1, FS_AddElement
<1>3. /\ posts'[s] = p
      /\ \A u \in Slots : u # s => posts'[u] = posts[u]
  BY DEF PageTypes
<1>4. /\ Weight(posts[s], t) \in {0, 1} /\ Weight(p, t) \in {0, 1}
      /\ Chances(t) = IF Weight(posts[s], t) = 1 THEN R \union {s} ELSE R
      /\ Chances(t)' = IF Weight(p, t) = 1 THEN R \union {s} ELSE R
  <2> HIDE DEF R
  <2>1. Weight(posts[s], t) \in {0, 1} /\ Weight(p, t) \in {0, 1}
    BY DEF Weight
  <2>2. \A u : u \in R <=> u \in Slots /\ Weight(posts[u], t) = 1 /\ u # s
    BY DEF R, Chances
  <2>3. \A u : u \in Chances(t)' <=> u \in Slots /\ Weight(posts'[u], t) = 1
    BY DEF Chances, Weight
  <2> QED
    BY <2>1, <2>2, <2>3, <1>3 DEF Chances
<1> HIDE DEF R
<1> QED
  BY <1>1, <1>2, <1>4

LEMMA ContactInitial == ContactInit => ContactInv
<1> SUFFICES ASSUME ContactInit PROVE ContactInv
  OBVIOUS
<1> USE ContactAssumption DEF ContactInit
<1>1. PageTypes
  BY DEF PageTypes, Forms, PostRecords, NoPost
<1>2. CountTypes
  BY DEF CountTypes
<1>3. NumberInv /\ AwaitInv
  BY DEF NumberInv, AwaitInv, NoPost
<1>4. ChanceInv
  <2> SUFFICES ASSUME NEW t \in Texts
               PROVE  /\ IsFiniteSet(Chances(t))
                      /\ mails[t] + Cardinality(Chances(t)) + More(t)
                           <= 1 + lost[t]
    BY DEF ChanceInv
  <2>1. Chances(t) = {}
    BY DEF Chances, Weight, NoPost
  <2>2. More(t) = 0
    BY DEF More, Sendable
  <2> QED
    BY <2>1, <2>2, FS_EmptySet
<1> QED
  BY <1>1, <1>2, <1>3, <1>4 DEF ContactInv

\* A request that goes to another stage, everything else of it as it was.
LEMMA StageTypes ==
    ASSUME ContactInv, NEW s \in Slots, posts[s].stage # "none",
           NEW stage \in {"preflight", "post", "mail", "ok", "refused"}, Goes(s, stage)
    PROVE  /\ posts' \in [Slots -> PostRecords]
           /\ \A u \in Slots :
                /\ posts'[u].text = posts[u].text
                /\ posts'[u].dialog = posts[u].dialog
                /\ posts'[u].awaited = posts[u].awaited
                /\ posts'[u].stage = IF u = s THEN stage ELSE posts[u].stage
BY DEF ContactInv, PageTypes, PostRecords, Goes

LEMMA StageKeeps ==
    ASSUME ContactInv, NEW s \in Slots, posts[s].stage # "none", form' = form,
           NEW stage \in {"preflight", "post", "mail", "ok", "refused"}, Goes(s, stage)
    PROVE  /\ PageTypes'
           /\ mails' = mails => NumberInv'
           /\ AwaitInv'
           /\ \A t \in Texts : Sendable(t)' <=> Sendable(t)
<1> USE StageTypes
<1>1. PageTypes'
  BY DEF ContactInv, PageTypes
<1>2. ASSUME mails' = mails PROVE NumberInv'
  BY <1>2 DEF ContactInv, NumberInv
<1>3. AwaitInv'
  BY DEF ContactInv, AwaitInv
<1>4. ASSUME NEW t \in Texts PROVE Sendable(t)' <=> Sendable(t)
  BY DEF Sendable, Awaits
<1> QED
  BY <1>1, <1>2, <1>3, <1>4

\* What a step does to one request, the losses and the form has to balance.
LEMMA ChanceStep ==
    ASSUME ContactInv, NEW t \in Texts, NEW s \in Slots, NEW p,
           posts' = [posts EXCEPT ![s] = p],
           mails'[t] \in Nat, lost'[t] \in Nat,
           mails'[t] + Weight(p, t) + More(t)' + lost[t]
             <= mails[t] + Weight(posts[s], t) + More(t) + lost'[t]
    PROVE  /\ IsFiniteSet(Chances(t)')
           /\ mails'[t] + Cardinality(Chances(t)') + More(t)' <= 1 + lost'[t]
<1>1. PageTypes /\ IsFiniteSet(Chances(t))
      /\ mails[t] + Cardinality(Chances(t)) + More(t) <= 1 + lost[t]
  BY DEF ContactInv, ChanceInv
<1>2. /\ IsFiniteSet(Chances(t)')
      /\ Cardinality(Chances(t)') = Cardinality(Chances(t)) - Weight(posts[s], t) + Weight(p, t)
      /\ Cardinality(Chances(t)) \in Nat /\ Cardinality(Chances(t)') \in Nat
  BY <1>1, ChancesChange
<1>3. /\ mails[t] \in Nat /\ lost[t] \in Nat
      /\ Weight(p, t) \in Nat /\ Weight(posts[s], t) \in Nat
      /\ More(t) \in Nat /\ More(t)' \in Nat
  BY DEF ContactInv, CountTypes, Weight, More
<1> QED
  BY <1>1, <1>2, <1>3

LEMMA PreflightKeeps == ASSUME ContactInv, NEW s \in Slots, Preflight(s) \/ Post(s) PROVE ContactInv'
<1> USE ContactAssumption
<1>1. PICK stage \in {"preflight", "post", "mail", "ok", "refused"} : Goes(s, stage)
  BY DEF Preflight, Post
<1>2. /\ posts[s].stage \in {"preflight", "post"}
      /\ form' = form /\ mails' = mails /\ lost' = lost
  BY DEF Preflight, Post, At
<1>3. PageTypes' /\ NumberInv' /\ AwaitInv' /\ \A t \in Texts : Sendable(t)' <=> Sendable(t)
  BY <1>1, <1>2, StageKeeps
<1>4. CountTypes'
  BY DEF ContactInv, CountTypes, Preflight, Post, Passes
<1>5. ChanceInv'
  <2> SUFFICES ASSUME NEW t \in Texts
               PROVE  /\ IsFiniteSet(Chances(t)')
                      /\ mails'[t] + Cardinality(Chances(t)') + More(t)' <= 1 + lost'[t]
    BY DEF ChanceInv
  <2> DEFINE p == [posts[s] EXCEPT !.stage = stage]
  <2>1. posts' = [posts EXCEPT ![s] = p]
    BY <1>1 DEF Goes
  <2>2. Weight(p, t) <= Weight(posts[s], t) /\ Weight(p, t) \in Nat /\ Weight(posts[s], t) \in Nat
    BY <1>2 DEF Weight, ContactInv, PageTypes, PostRecords
  <2> HIDE DEF p
  <2>3. More(t)' = More(t) /\ More(t) \in Nat
    BY <1>3 DEF More
  <2>4. mails[t] \in Nat /\ lost[t] \in Nat
    BY DEF ContactInv, CountTypes
  <2>5. mails'[t] + Weight(p, t) + More(t)' + lost[t]
          <= mails[t] + Weight(posts[s], t) + More(t) + lost'[t]
    BY <1>2, <2>2, <2>3, <2>4
  <2> QED
    BY <1>2, <2>1, <2>4, <2>5, ChanceStep
<1> QED
  BY <1>3, <1>4, <1>5 DEF ContactInv

LEMMA MailKeeps == ASSUME ContactInv, NEW s \in Slots, Mail(s) PROVE ContactInv'
<1> USE ContactAssumption
<1> DEFINE to == posts[s].text
<1>1. /\ Goes(s, "ok") /\ posts[s].stage = "mail"
      /\ form' = form /\ lost' = lost
      /\ to \in Texts /\ to <= form.written /\ form.written \in Nat
  BY DEF Mail, At, ContactInv, NumberInv, PageTypes, Forms
<1>2. /\ mails' \in [Texts -> Nat]
      /\ \A t \in Texts : t # to => mails'[t] = mails[t]
      /\ mails'[to] \in {mails[to], mails[to] + 1}
  BY <1>1 DEF Mail, Mailed, ContactInv, CountTypes
<1>3. PageTypes' /\ AwaitInv' /\ \A t \in Texts : Sendable(t)' <=> Sendable(t)
  BY <1>1, StageKeeps
<1>4. CountTypes'
  <2>1. faults' \in 0 .. MaxFaults /\ faults' >= faults
    BY DEF ContactInv, CountTypes, Mail, Fault
  <2>2. UNCHANGED <<spent, clicks, crowd, lost>>
    BY DEF Mail
  <2> QED
    BY <2>1, <2>2, <1>2 DEF ContactInv, CountTypes
<1>5. NumberInv'
  <2>1. \A t \in Texts : t > form.written => mails'[t] = 0
    BY <1>1, <1>2 DEF ContactInv, NumberInv, Texts
  <2> QED
    BY <2>1, <1>1, StageTypes DEF ContactInv, NumberInv
<1>6. ChanceInv'
  <2> SUFFICES ASSUME NEW t \in Texts
               PROVE  /\ IsFiniteSet(Chances(t)')
                      /\ mails'[t] + Cardinality(Chances(t)') + More(t)' <= 1 + lost'[t]
    BY DEF ChanceInv
  <2> DEFINE p == [posts[s] EXCEPT !.stage = "ok"]
  <2>1. posts' = [posts EXCEPT ![s] = p]
    BY <1>1 DEF Goes
  <2>2. Weight(p, t) = 0
    BY DEF Weight, ContactInv, PageTypes, PostRecords
  <2>3. Weight(posts[s], t) = IF t = to THEN 1 ELSE 0
    BY <1>1 DEF Weight
  <2> HIDE DEF p
  <2>4. More(t)' = More(t) /\ More(t) \in Nat
    BY <1>3 DEF More
  <2>5. mails[t] \in Nat /\ lost[t] \in Nat /\ mails'[t] \in Nat
    BY <1>2 DEF ContactInv, CountTypes
  <2>6. mails'[t] + Weight(p, t) + More(t)' + lost[t]
          <= mails[t] + Weight(posts[s], t) + More(t) + lost'[t]
    <3>1. CASE t = to
      BY <3>1, <1>1, <1>2, <2>2, <2>3, <2>4, <2>5
    <3>2. CASE t # to
      BY <3>2, <1>1, <1>2, <2>2, <2>3, <2>4, <2>5
    <3> QED
      BY <3>1, <3>2
  <2> QED
    BY <1>1, <2>1, <2>5, <2>6, ChanceStep
<1> QED
  BY <1>3, <1>4, <1>5, <1>6 DEF ContactInv

\* A step that leaves the requests alone.
LEMMA FormStep ==
    ASSUME ContactInv, NEW t \in Texts, posts' = posts, mails' = mails, lost' = lost,
           More(t)' <= More(t)
    PROVE  /\ IsFiniteSet(Chances(t)')
           /\ mails'[t] + Cardinality(Chances(t)') + More(t)' <= 1 + lost'[t]
<1>1. Chances(t)' = Chances(t)
  BY DEF Chances, Weight
<1>2. IsFiniteSet(Chances(t)) /\ mails[t] + Cardinality(Chances(t)) + More(t) <= 1 + lost[t]
  BY DEF ContactInv, ChanceInv
<1>3. Cardinality(Chances(t)) \in Nat /\ mails[t] \in Nat /\ lost[t] \in Nat
      /\ More(t) \in Nat /\ More(t)' \in Nat
  BY <1>2, FS_CardinalityType DEF ContactInv, CountTypes, More
<1> QED
  BY <1>1, <1>2, <1>3

LEMMA ServerKeeps == ASSUME ContactInv, Click \/ WindowPasses PROVE ContactInv'
<1> USE ContactAssumption
<1>1. /\ form' = form /\ posts' = posts /\ mails' = mails /\ lost' = lost /\ faults' = faults
  BY DEF Click, WindowPasses
<1>2. CountTypes'
  BY DEF ContactInv, CountTypes, Click, WindowPasses, Passes
<1>3. PageTypes' /\ NumberInv' /\ AwaitInv'
  BY <1>1 DEF ContactInv, PageTypes, NumberInv, AwaitInv
<1>4. ChanceInv'
  <2>1. \A t \in Texts : More(t)' = More(t) /\ More(t) \in Nat
    BY <1>1 DEF More, Sendable, Awaits
  <2>2. \A t \in Texts : More(t)' <= More(t)
    BY <2>1
  <2> QED
    BY <1>1, <2>2, FormStep DEF ChanceInv
<1> QED
  BY <1>2, <1>3, <1>4 DEF ContactInv

LEMMA DialogKeeps == ASSUME ContactInv, Open \/ Close \/ Edit PROVE ContactInv'
<1> USE ContactAssumption
<1>1. /\ posts' = posts /\ UNCHANGED server
  BY DEF Open, Close, Edit
<1>2. CountTypes'
  BY <1>1 DEF server, ContactInv, CountTypes
<1>3. PageTypes'
  <2>1. form \in Forms
    BY DEF ContactInv, PageTypes
  <2>2. form' \in Forms
    <3>1. CASE Open
      <4>1. PICK website \in {FALSE, Autofill} :
              form' = [form EXCEPT !.dialog = @ + 1, !.state = "idle", !.text = 0, !.website = website]
        BY <3>1 DEF Open
      <4>2. website \in BOOLEAN
        OBVIOUS
      <4>3. form.dialog + 1 \in 0 .. MaxDialogs /\ 0 \in 0 .. MaxTexts
        BY <2>1, <3>1 DEF Open, Forms
      <4> QED
        BY <2>1, <4>1, <4>2, <4>3, Zenon DEF Forms
    <3>2. CASE Close
      <4>1. 0 \in 0 .. MaxTexts
        OBVIOUS
      <4> QED
        BY <2>1, <3>2, <4>1 DEF Close, Forms
    <3>3. CASE Edit
      <4>1. form.written + 1 \in 0 .. MaxTexts
        BY <2>1, <3>3 DEF Edit, Forms
      <4> QED
        BY <2>1, <3>3, <4>1 DEF Edit, Forms
    <3> QED
      BY <3>1, <3>2, <3>3
  <2> QED
    BY <2>2, <1>1 DEF ContactInv, PageTypes
<1>4. NumberInv' /\ AwaitInv'
  <2> USE <1>1 DEF server, ContactInv, PageTypes, Forms, PostRecords, NumberInv, AwaitInv
  <2>1. CASE Open
    BY <2>1 DEF Open
  <2>2. CASE Close
    BY <2>2 DEF Close
  <2>3. CASE Edit
    BY <2>3 DEF Edit, Texts
  <2> QED
    BY <2>1, <2>2, <2>3
<1>5. ChanceInv'
  <2> SUFFICES ASSUME NEW t \in Texts
               PROVE  /\ IsFiniteSet(Chances(t)')
                      /\ mails'[t] + Cardinality(Chances(t)') + More(t)' <= 1 + lost'[t]
    BY DEF ChanceInv
  <2>1. CASE form'.text # t
    <3>1. More(t)' <= More(t)
      BY <2>1 DEF More, Sendable
    <3> QED
      BY <3>1, <1>1, FormStep DEF server
  <2>2. CASE form'.text = t
    <3>0. form \in Forms /\ t # 0
      BY DEF ContactInv, PageTypes, Texts
    <3>1. t = form.written + 1 /\ form.written \in Nat
      <4>1. ~Open /\ ~Close
        BY <2>2, <3>0 DEF Open, Close, Forms
      <4> QED
        <5>1. form'.text = form.written + 1
          BY <4>1, <3>0 DEF Edit, Forms
        <5>2. form.written \in 0 .. MaxTexts
          BY <3>0 DEF Forms
        <5> QED
          BY <2>2, <5>1, <5>2
    <3>2. mails[t] = 0 /\ lost[t] \in Nat
      BY <3>1 DEF ContactInv, NumberInv, CountTypes
    <3>3. Chances(t)' = {}
      BY <3>1, <1>1 DEF Chances, Weight, ContactInv, NumberInv, PageTypes, PostRecords
    <3> QED
      BY <3>2, <3>3, <1>1, FS_EmptySet DEF server, More
  <2> QED
    BY <2>1, <2>2
<1> QED
  BY <1>2, <1>3, <1>4, <1>5 DEF ContactInv

LEMMA SubmitKeeps == ASSUME ContactInv, Submit PROVE ContactInv'
<1> USE ContactAssumption
<1>1. PICK s \in Slots, stage \in {"preflight", "post"} :
        /\ posts[s] = NoPost
        /\ posts' = [posts EXCEPT ![s] =
               [dialog |-> form.dialog, text |-> form.text, website |-> form.website,
                stage |-> stage, awaited |-> TRUE]]
  BY DEF Submit
<1> DEFINE p == [dialog |-> form.dialog, text |-> form.text, website |-> form.website,
                 stage |-> stage, awaited |-> TRUE]
<1>2. /\ form \in Forms
      /\ form.state \notin {"closed", "sending"} /\ form.text \in Texts
      /\ form' = [form EXCEPT !.state = "sending"]
      /\ UNCHANGED server
  BY DEF Submit, CanSend, ContactInv, PageTypes, Forms, Texts
<1>3. form' \in Forms /\ p \in PostRecords
  BY <1>2 DEF Forms, PostRecords, Texts
<1>4. PageTypes'
  BY <1>1, <1>3 DEF ContactInv, PageTypes
<1>5. CountTypes'
  BY <1>2 DEF server, ContactInv, CountTypes
<1>6. /\ form'.dialog = form.dialog /\ form'.text = form.text /\ form'.written = form.written
      /\ form'.state = "sending"
      /\ posts'[s] = p
      /\ \A u \in Slots : u # s => posts'[u] = posts[u]
  BY <1>1, <1>2 DEF Forms, ContactInv, PageTypes
<1>7. NumberInv'
  <2>1. UNCHANGED mails
    BY <1>2 DEF server
  <2>2. p.text <= form.written /\ p.dialog <= form.dialog /\ p.text \in Texts /\ p.stage # "none"
    BY <1>2 DEF ContactInv, NumberInv, Forms
  <2> HIDE DEF p
  <2> QED
    BY <1>6, <2>1, <2>2 DEF ContactInv, NumberInv
<1>8. AwaitInv'
  <2>1. \A u \in Slots : posts[u].awaited => posts[u].dialog # form.dialog
    BY <1>2 DEF ContactInv, AwaitInv
  <2> HIDE DEF p
  <2>2. \A u \in Slots : posts'[u].awaited /\ posts'[u].dialog = form'.dialog => u = s
    BY <2>1, <1>6
  <2> QED
    BY <2>2, <1>6 DEF AwaitInv
<1>9. ChanceInv'
  <2> SUFFICES ASSUME NEW t \in Texts
               PROVE  /\ IsFiniteSet(Chances(t)')
                      /\ mails'[t] + Cardinality(Chances(t)') + More(t)' <= 1 + lost'[t]
    BY DEF ChanceInv
  <2>1. mails[t] \in Nat /\ lost[t] \in Nat /\ mails'[t] = mails[t] /\ lost'[t] = lost[t]
    BY <1>2 DEF server, ContactInv, CountTypes
  <2>2. Weight(posts[s], t) = 0
    BY <1>1 DEF Weight, NoPost
  <2>3. Weight(p, t) = IF form.text = t THEN 1 ELSE 0
    BY DEF Weight
  <2>4. More(t) = IF form.text = t THEN 1 ELSE 0
    BY <1>2 DEF More, Sendable, Awaits
  <2>5. More(t)' = 0
    <3>1. ASSUME form.text = t PROVE ~Sendable(t)'
      <4>1. Awaits(s)' /\ posts'[s].text = t
        BY <1>6, <3>1 DEF Awaits
      <4> QED
        BY <4>1 DEF Sendable
    <3> QED
      BY <3>1, <1>6 DEF More, Sendable
  <2>6. posts' = [posts EXCEPT ![s] = p]
    BY <1>1
  <2> HIDE DEF p
  <2>7. mails'[t] + Weight(p, t) + More(t)' + lost[t]
          <= mails[t] + Weight(posts[s], t) + More(t) + lost'[t]
    BY <2>1, <2>2, <2>3, <2>4, <2>5
  <2> QED
    BY <2>1, <2>6, <2>7, ChanceStep
<1> QED
  BY <1>4, <1>5, <1>7, <1>8, <1>9 DEF ContactInv

\* The answer to a request, or the loss of it: the form takes notice at most once,
\* and at most of the request of its own dialog.
LEMMA AnswerTypes ==
    ASSUME ContactInv, NEW s \in Slots, NEW p \in PostRecords,
           posts' = [posts EXCEPT ![s] = p],
           form' \in Forms, form'.dialog = form.dialog, form'.written = form.written,
           form'.text \in {form.text, 0},
           p.awaited = FALSE, p.text \in {posts[s].text, 0}, p.dialog \in {posts[s].dialog, 0},
           p.stage # "none" => p.stage = posts[s].stage /\ p.text = posts[s].text,
           form'.state # form.state => Awaits(s),
           mails' = mails
    PROVE  PageTypes' /\ NumberInv' /\ AwaitInv'
<1>1. /\ posts'[s] = p
      /\ \A u \in Slots : u # s => posts'[u] = posts[u]
      /\ posts' \in [Slots -> PostRecords]
  BY DEF ContactInv, PageTypes
<1>2. PageTypes'
  BY <1>1 DEF PageTypes
<1>3. form.written \in Nat /\ form.dialog \in Nat
  BY DEF ContactInv, PageTypes, Forms
<1>4. NumberInv'
  BY <1>1, <1>3 DEF ContactInv, NumberInv
<1>5. AwaitInv'
  BY <1>1 DEF ContactInv, AwaitInv, Awaits
<1> QED
  BY <1>2, <1>4, <1>5

LEMMA AnswerKeeps == ASSUME ContactInv, NEW s \in Slots, Answer(s) PROVE ContactInv'
<1> USE ContactAssumption
<1>1. /\ posts[s].stage \in {"ok", "refused"}
      /\ posts' = [posts EXCEPT ![s] = NoPost]
      /\ UNCHANGED server
  BY DEF Answer
<1>2. NoPost \in PostRecords /\ NoPost.awaited = FALSE /\ NoPost.text = 0 /\ NoPost.dialog = 0
      /\ NoPost.stage = "none"
  BY DEF NoPost, PostRecords
<1>3. /\ form \in Forms /\ form' \in Forms
      /\ form'.dialog = form.dialog /\ form'.written = form.written
      /\ form'.text = IF Awaits(s) /\ posts[s].stage = "ok" THEN 0 ELSE form.text
      /\ form'.state = IF Awaits(s) THEN IF posts[s].stage = "ok" THEN "success" ELSE "error"
                       ELSE form.state
  <2>1. form \in Forms /\ 0 \in 0 .. MaxTexts
    BY DEF ContactInv, PageTypes
  <2>2. CASE ~Awaits(s)
    BY <2>1, <2>2 DEF Answer
  <2>3. CASE Awaits(s) /\ posts[s].stage = "ok"
    BY <2>1, <2>3 DEF Answer, At, Forms
  <2>4. CASE Awaits(s) /\ posts[s].stage # "ok"
    BY <2>1, <2>4 DEF Answer, At, Forms
  <2> QED
    BY <2>2, <2>3, <2>4
<1>4. PageTypes' /\ NumberInv' /\ AwaitInv'
  <2>1. mails' = mails /\ (form'.state # form.state => Awaits(s)) /\ form'.text \in {form.text, 0}
    BY <1>1, <1>3 DEF server
  <2> QED
    BY <1>1, <1>2, <1>3, <2>1, AnswerTypes
<1>5. CountTypes'
  BY <1>1 DEF server, ContactInv, CountTypes
<1>6. ChanceInv'
  <2> SUFFICES ASSUME NEW t \in Texts
               PROVE  /\ IsFiniteSet(Chances(t)')
                      /\ mails'[t] + Cardinality(Chances(t)') + More(t)' <= 1 + lost'[t]
    BY DEF ChanceInv
  <2>1. mails[t] \in Nat /\ lost[t] \in Nat /\ mails'[t] = mails[t] /\ lost'[t] = lost[t]
    BY <1>1 DEF server, ContactInv, CountTypes
  <2>2. Weight(NoPost, t) = 0
    BY DEF Weight, NoPost
  <2>3. Weight(posts[s], t) \in {0, 1} /\ More(t) \in {0, 1} /\ More(t)' \in {0, 1}
    BY DEF Weight, More
  <2>4. More(t)' <= Weight(posts[s], t) + More(t)
    <3> SUFFICES ASSUME Sendable(t)', ~Sendable(t) PROVE Weight(posts[s], t) = 1
      BY <2>3 DEF More
    <3>1. form.text = t /\ form.state # "closed"
      BY <1>3 DEF Sendable, Texts, Awaits
    <3>2. PICK u \in Slots : Awaits(u) /\ posts[u].text = t
      BY <3>1 DEF Sendable
    <3>3. u = s
      <4> SUFFICES ASSUME u # s PROVE FALSE
        OBVIOUS
      <4>1. posts'[u] = posts[u]
        BY <1>1 DEF ContactInv, PageTypes
      <4>2. form'.state = form.state
        BY <1>3, <3>2 DEF Awaits, ContactInv, AwaitInv
      <4> QED
        BY <4>1, <4>2, <3>2, <1>3 DEF Sendable, Awaits
    <3>4. posts[s].stage = "refused"
      BY <3>2, <3>3, <1>1, <1>3 DEF Sendable, Texts
    <3> QED
      BY <3>2, <3>3, <3>4 DEF Weight
  <2>5. mails'[t] + Weight(NoPost, t) + More(t)' + lost[t]
          <= mails[t] + Weight(posts[s], t) + More(t) + lost'[t]
    BY <2>1, <2>2, <2>3, <2>4
  <2> QED
    BY <1>1, <2>1, <2>5, ChanceStep
<1> QED
  BY <1>4, <1>5, <1>6 DEF ContactInv

LEMMA LostKeeps == ASSUME ContactInv, NEW s \in Slots, Lost(s) PROVE ContactInv'
<1> USE ContactAssumption
<1>0. form \in Forms /\ posts[s] \in PostRecords
  BY DEF ContactInv, PageTypes
<1>1. PICK p \in {[posts[s] EXCEPT !.awaited = FALSE], NoPost} : posts' = [posts EXCEPT ![s] = p]
  BY DEF Lost
<1>2. /\ p \in PostRecords /\ p.awaited = FALSE
      /\ p.text \in {posts[s].text, 0} /\ p.dialog \in {posts[s].dialog, 0}
      /\ p.stage # "none" => p.stage = posts[s].stage /\ p.text = posts[s].text
      /\ p.stage = "none" => p.text = 0
  <2>1. NoPost \in PostRecords
    BY DEF NoPost, PostRecords
  <2>2. CASE p = NoPost
    BY <2>1, <2>2 DEF NoPost
  <2>3. CASE p = [posts[s] EXCEPT !.awaited = FALSE]
    <3>1. posts[s].stage # "none"
      BY DEF Lost, ContactInv, NumberInv
    <3> QED
      BY <2>3, <3>1, <1>0 DEF PostRecords
  <2> QED
    BY <2>2, <2>3
<1> DEFINE to == posts[s].text
<1>3. to \in Texts /\ posts[s].awaited
  BY DEF Lost, ContactInv, NumberInv
<1>4. /\ lost' = [lost EXCEPT ![to] = @ + 1] /\ mails' = mails
      /\ faults' = faults + 1 /\ faults < MaxFaults
  BY DEF Lost, Fault
<1>5. /\ form' \in Forms
      /\ form'.dialog = form.dialog /\ form'.written = form.written /\ form'.text = form.text
      /\ form'.state = IF Awaits(s) THEN "error" ELSE form.state
  <2>1. CASE ~Awaits(s)
    BY <1>0, <2>1 DEF Lost
  <2>2. CASE Awaits(s)
    BY <1>0, <2>2 DEF Lost, Forms
  <2> QED
    BY <2>1, <2>2
<1>6. PageTypes' /\ NumberInv' /\ AwaitInv'
  <2>1. (form'.state # form.state => Awaits(s)) /\ form'.text \in {form.text, 0}
    BY <1>5
  <2> QED
    BY <1>1, <1>2, <1>4, <1>5, <2>1, AnswerTypes
<1>7. /\ lost' \in [Texts -> Nat]
      /\ \A t \in Texts : lost'[t] = IF t = to THEN lost[t] + 1 ELSE lost[t]
  BY <1>3, <1>4 DEF ContactInv, CountTypes
<1>8. CountTypes'
  <2>1. UNCHANGED <<spent, clicks, crowd>>
    BY DEF Lost
  <2>2. faults \in Nat /\ \A t \in Texts : lost[t] <= faults /\ lost[t] \in Nat
    BY DEF ContactInv, CountTypes
  <2>3. \A t \in Texts : lost'[t] <= faults'
    BY <2>2, <1>4, <1>7
  <2>4. faults' \in 0 .. MaxFaults
    BY <1>4, <2>2
  <2> QED
    BY <1>4, <1>7, <2>1, <2>3, <2>4 DEF ContactInv, CountTypes
<1>9. ChanceInv'
  <2> SUFFICES ASSUME NEW t \in Texts
               PROVE  /\ IsFiniteSet(Chances(t)')
                      /\ mails'[t] + Cardinality(Chances(t)') + More(t)' <= 1 + lost'[t]
    BY DEF ChanceInv
  <2>1. mails[t] \in Nat /\ lost[t] \in Nat /\ mails'[t] = mails[t] /\ lost'[t] \in Nat
        /\ lost'[t] = IF t = to THEN lost[t] + 1 ELSE lost[t]
    BY <1>4, <1>7 DEF ContactInv, CountTypes
  <2>2. Weight(posts[s], t) \in {0, 1} /\ Weight(p, t) \in {0, 1} /\ More(t) \in {0, 1}
        /\ More(t)' \in {0, 1}
    BY DEF Weight, More
  <2>3. Weight(p, t) <= Weight(posts[s], t)
    BY <1>2 DEF Weight, Texts
  <2>4. More(t)' <= More(t) + (IF t = to THEN 1 ELSE 0)
    <3> SUFFICES ASSUME Sendable(t)', ~Sendable(t) PROVE t = to
      BY <2>2 DEF More
    <3>1. form.text = t /\ form.state # "closed"
      BY <1>5 DEF Sendable, Awaits
    <3>2. PICK u \in Slots : Awaits(u) /\ posts[u].text = t
      BY <3>1 DEF Sendable
    <3>3. u = s
      <4> SUFFICES ASSUME u # s PROVE FALSE
        OBVIOUS
      <4>1. posts'[u] = posts[u]
        BY <1>1 DEF ContactInv, PageTypes
      <4>2. form'.state = form.state
        BY <1>5, <3>2 DEF Awaits, ContactInv, AwaitInv
      <4> QED
        BY <4>1, <4>2, <3>2, <1>5 DEF Sendable, Awaits
    <3> QED
      BY <3>2, <3>3
  <2>5. mails'[t] + Weight(p, t) + More(t)' + lost[t]
          <= mails[t] + Weight(posts[s], t) + More(t) + lost'[t]
    BY <2>1, <2>2, <2>3, <2>4
  <2> QED
    BY <1>1, <2>1, <2>5, ChanceStep
<1> QED
  BY <1>6, <1>8, <1>9 DEF ContactInv

LEMMA ContactStep == ContactInv /\ [ContactNext]_contactVars => ContactInv'
<1> SUFFICES ASSUME ContactInv, [ContactNext]_contactVars PROVE ContactInv'
  OBVIOUS
<1>1. CASE UNCHANGED contactVars
  BY <1>1 DEF contactVars, ContactInv, PageTypes, CountTypes, NumberInv, AwaitInv, Awaits,
              ChanceInv, Chances, Weight, More, Sendable
<1>2. CASE ContactNext
  BY <1>2, DialogKeeps, SubmitKeeps, ServerKeeps, PreflightKeeps, MailKeeps, AnswerKeeps, LostKeeps
     DEF ContactNext, Settles
<1> QED
  BY <1>1, <1>2

\* The contact form is typed, and a text is mailed twice only after the page has
\* lost the answer to it (ContactForm.jsx, misc.go), however many requests are
\* under way.
THEOREM OneMail == ContactSpec => [](ContactTypeOK /\ OneMailEach)
<1>1. ContactInit => ContactInv
  BY ContactInitial
<1>2. ContactInv /\ [ContactNext]_contactVars => ContactInv'
  BY ContactStep
<1>3. ContactInv => ContactTypeOK /\ OneMailEach
  <2> SUFFICES ASSUME ContactInv PROVE ContactTypeOK /\ OneMailEach
    OBVIOUS
  <2>1. ASSUME NEW t \in Texts PROVE mails[t] <= 1 + lost[t] /\ mails[t] \in 0 .. MaxFaults + 1
                                     /\ lost[t] \in 0 .. MaxFaults + 1
    <3>1. /\ IsFiniteSet(Chances(t))
          /\ mails[t] + Cardinality(Chances(t)) + More(t) <= 1 + lost[t]
      BY DEF ContactInv, ChanceInv
    <3>2. Cardinality(Chances(t)) \in Nat /\ More(t) \in Nat
      BY <3>1, FS_CardinalityType DEF More
    <3>3. mails[t] \in Nat /\ lost[t] \in Nat /\ lost[t] <= faults /\ faults \in 0 .. MaxFaults
      BY DEF ContactInv, CountTypes
    <3> QED
      BY <3>1, <3>2, <3>3, ContactAssumption
  <2>2. mails \in [Texts -> 0 .. MaxFaults + 1] /\ lost \in [Texts -> 0 .. MaxFaults + 1]
    BY <2>1 DEF ContactInv, CountTypes
  <2> QED
    BY <2>1, <2>2 DEF ContactInv, PageTypes, CountTypes, ContactTypeOK, OneMailEach, Forms, PostRecords
<1> QED
  BY <1>1, <1>2, <1>3, PTL DEF ContactSpec

-----------------------------------------------------------------------------
(* The pins.                                                               *)

\* What a tab has that the entry has not, or the other way round, another tab has
\* changed since.
MissedInv ==
    available =>
        \A t \in Tabs, s \in Sites : Differs(s, stored, items[t]) => s \in missed[t]

\* No timeout of an earlier toast is left.
TimerInv ==
    \A t \in Tabs :
        toast[t].says # "nothing" => \A due \in timers[t] : due >= toast[t].at + Duration

PinInv == FavouritesTypeOK /\ MissedInv /\ TimerInv

LEMMA NoToastType == NoToast \in [site : Sites, says : {"nothing", "added", "removed"}, at : Moments]
<1>1. (CHOOSE s \in Sites : TRUE) \in Sites
  BY FavouritesAssumption
<1>2. 0 \in Moments
  BY FavouritesAssumption DEF Moments
<1> QED
  BY <1>1, <1>2 DEF NoToast

LEMMA PinInitial == FavouritesInit => PinInv
<1> SUFFICES ASSUME FavouritesInit PROVE PinInv
  OBVIOUS
<1>1. stored \subseteq Sites
  BY DEF FavouritesInit
<1>2. 0 \in Moments
  BY FavouritesAssumption DEF Moments
<1>3. 0 \in 0 .. MaxOpened
  BY FavouritesAssumption
<1>4. FavouritesTypeOK
  BY <1>1, <1>2, <1>3, NoToastType DEF FavouritesInit, FavouritesTypeOK
<1>5. MissedInv /\ TimerInv
  BY DEF FavouritesInit, MissedInv, TimerInv, Differs
<1> QED
  BY <1>4, <1>5 DEF PinInv

LEMMA LoadPins ==
    ASSUME PinInv, NEW t \in Tabs, Load(t)
    PROVE  PinInv' /\ ChangedByHand /\ ToastStays
<1>1. FavouritesTypeOK'
  <2>1. opened' \in 0 .. MaxOpened
    BY FavouritesAssumption DEF Load, PinInv, FavouritesTypeOK
  <2>2. toast' \in [Tabs -> [site : Sites, says : {"nothing", "added", "removed"}, at : Moments]]
    BY NoToastType DEF Load, PinInv, FavouritesTypeOK
  <2> QED
    BY <2>1, <2>2 DEF Load, PinInv, FavouritesTypeOK, Entry
<1>2. MissedInv'
  BY DEF Load, PinInv, FavouritesTypeOK, MissedInv, Differs, Entry
<1>3. TimerInv'
  BY DEF Load, PinInv, FavouritesTypeOK, TimerInv
<1>4. ChangedByHand
  BY DEF Load, ChangedByHand, Differs
<1>5. ToastStays
  BY DEF Load, ToastStays, PinInv, FavouritesTypeOK
<1> QED
  BY <1>1, <1>2, <1>3, <1>4, <1>5 DEF PinInv

LEMMA TogglePins ==
    ASSUME PinInv, NEW t \in Tabs, NEW s \in Sites, Toggle(t, s)
    PROVE  PinInv' /\ ChangedByHand /\ ToastStays
<1> DEFINE next == Written(t, s)
           bread == [site |-> s, says |-> IF s \in items[t] THEN "removed" ELSE "added", at |-> moment]
<1>1. /\ next \subseteq Sites
      /\ \A r : r \in next <=> IF r = s THEN s \notin items[t] ELSE r \in items[t]
  BY DEF Written, PinInv, FavouritesTypeOK
<1>2. /\ items' = [items EXCEPT ![t] = next]
      /\ stored' = IF available THEN next ELSE stored
      /\ missed' = [u \in Tabs |->
             IF u = t THEN missed[u]
             ELSE missed[u] \union (stored \ stored') \union (stored' \ stored)]
      /\ toast' = [toast EXCEPT ![t] = bread]
      /\ timers' = [timers EXCEPT ![t] = Timed(t)]
      /\ UNCHANGED <<moment, available, opened>>
  BY DEF Toggle
<1> HIDE DEF next
<1>3. /\ items'[t] = next /\ \A u \in Tabs : u # t => items'[u] = items[u]
      /\ items' \in [Tabs -> SUBSET Sites]
  BY <1>1, <1>2 DEF PinInv, FavouritesTypeOK
<1>4. stored' \subseteq Sites /\ missed' \in [Tabs -> SUBSET Sites]
  <2>1. stored' \subseteq Sites /\ stored \subseteq Sites
    BY <1>1, <1>2 DEF PinInv, FavouritesTypeOK
  <2>2. \A u \in Tabs : missed[u] \subseteq Sites
    BY DEF PinInv, FavouritesTypeOK
  <2> QED
    BY <2>1, <2>2, <1>2
<1>5. /\ bread.says # "nothing" /\ bread.at = moment
      /\ bread \in [site : Sites, says : {"nothing", "added", "removed"}, at : Moments]
  BY DEF PinInv, FavouritesTypeOK
<1> HIDE DEF bread
<1>6. /\ toast'[t] = bread /\ \A u \in Tabs : u # t => toast'[u] = toast[u]
      /\ toast' \in [Tabs -> [site : Sites, says : {"nothing", "added", "removed"}, at : Moments]]
  BY <1>2, <1>5 DEF PinInv, FavouritesTypeOK
<1>7. /\ timers'[t] = {moment + Duration} /\ \A u \in Tabs : u # t => timers'[u] = timers[u]
      /\ timers' \in [Tabs -> SUBSET (Duration .. MaxMoment + Duration)]
  <2>1. moment + Duration \in Duration .. MaxMoment + Duration
    BY FavouritesAssumption DEF PinInv, FavouritesTypeOK, Moments
  <2> QED
    BY <1>2, <2>1 DEF PinInv, FavouritesTypeOK, Timed
<1>8. FavouritesTypeOK'
  BY <1>2, <1>3, <1>4, <1>6, <1>7 DEF PinInv, FavouritesTypeOK
<1>9. MissedInv'
  <2> SUFFICES ASSUME available, NEW u \in Tabs, NEW r \in Sites, Differs(r, stored', items'[u])
               PROVE  r \in missed'[u]
    BY <1>2 DEF MissedInv, Differs
  <2>1. u # t
    BY <1>2, <1>3 DEF Differs
  <2>2. Differs(r, stored, items[u]) => r \in missed[u]
    BY DEF PinInv, MissedInv
  <2> QED
    BY <2>1, <2>2, <1>2, <1>3 DEF Differs
<1>10. TimerInv'
  <2>1. \A u \in Tabs : u # t => toast'[u] = toast[u] /\ timers'[u] = timers[u]
    BY <1>6, <1>7
  <2>2. \A due \in timers'[t] : due >= toast'[t].at + Duration
    BY <1>5, <1>6, <1>7, FavouritesAssumption DEF PinInv, FavouritesTypeOK, Moments
  <2> QED
    BY <2>1, <2>2 DEF PinInv, TimerInv
<1>11. ChangedByHand
  <2> SUFFICES ASSUME NEW r \in Sites, Differs(r, stored, stored')
               PROVE  /\ items'[t] # items[t]
                      /\ Differs(r, items[t], items'[t]) \/ r \in missed[t]
    BY DEF ChangedByHand
  <2>1. available /\ stored' = next
    BY <1>2 DEF Differs
  <2>2. items'[t] # items[t]
    BY <1>1, <1>3
  <2>3. CASE Differs(r, stored, items[t])
    BY <2>1, <2>2, <2>3 DEF PinInv, MissedInv
  <2>4. CASE ~Differs(r, stored, items[t])
    BY <2>1, <2>2, <2>4, <1>3 DEF Differs
  <2> QED
    BY <2>3, <2>4
<1>12. ToastStays
  BY <1>5, <1>6 DEF ToastStays
<1> QED
  BY <1>8, <1>9, <1>10, <1>11, <1>12 DEF PinInv

LEMMA TimerPins ==
    ASSUME PinInv, NEW t \in Tabs, TimerFires(t)
    PROVE  PinInv' /\ ChangedByHand /\ ToastStays
<1>1. PICK due \in timers[t] :
        /\ moment >= due
        /\ timers' = [timers EXCEPT ![t] = @ \ {due}]
        /\ toast' = [toast EXCEPT ![t] = NoToast]
        /\ UNCHANGED <<moment, available, stored, items, opened, missed>>
  BY DEF TimerFires
<1>2. /\ toast'[t].says = "nothing" /\ \A u \in Tabs : u # t => toast'[u] = toast[u]
      /\ toast' \in [Tabs -> [site : Sites, says : {"nothing", "added", "removed"}, at : Moments]]
  BY <1>1, NoToastType DEF PinInv, FavouritesTypeOK, NoToast
<1>3. /\ timers' \in [Tabs -> SUBSET (Duration .. MaxMoment + Duration)]
      /\ \A u \in Tabs : u # t => timers'[u] = timers[u]
  BY <1>1 DEF PinInv, FavouritesTypeOK
<1>4. FavouritesTypeOK'
  BY <1>1, <1>2, <1>3 DEF PinInv, FavouritesTypeOK
<1>5. MissedInv' /\ ChangedByHand
  BY <1>1 DEF PinInv, MissedInv, ChangedByHand, Differs
<1>6. TimerInv'
  BY <1>2, <1>3 DEF PinInv, TimerInv
<1>7. ToastStays
  <2> SUFFICES ASSUME toast[t].says # "nothing" PROVE moment >= toast[t].at + Duration
    BY <1>2 DEF ToastStays
  <2>1. due >= toast[t].at + Duration /\ due \in Nat
    BY FavouritesAssumption DEF PinInv, TimerInv, FavouritesTypeOK
  <2>2. moment \in Nat /\ toast[t].at \in Nat /\ Duration \in Nat
    BY FavouritesAssumption DEF PinInv, FavouritesTypeOK, Moments
  <2> QED
    BY <1>1, <2>1, <2>2
<1> QED
  BY <1>4, <1>5, <1>6, <1>7 DEF PinInv

LEMMA PinStep == PinInv /\ [FavouritesNext]_favouriteVars => PinInv' /\ [ChangedByHand /\ ToastStays]_favouriteVars
<1> SUFFICES ASSUME PinInv, [FavouritesNext]_favouriteVars
             PROVE  PinInv' /\ [ChangedByHand /\ ToastStays]_favouriteVars
  OBVIOUS
<1>1. CASE UNCHANGED favouriteVars
  BY <1>1 DEF favouriteVars, PinInv, FavouritesTypeOK, MissedInv, TimerInv
<1>2. CASE MomentPasses
  <2>1. moment' \in Moments /\ UNCHANGED <<available, stored, items, toast, timers, opened, missed>>
    BY <1>2, FavouritesAssumption DEF MomentPasses, PinInv, FavouritesTypeOK, Moments
  <2>2. PinInv'
    BY <2>1 DEF PinInv, FavouritesTypeOK, MissedInv, TimerInv
  <2>3. ChangedByHand /\ ToastStays
    BY <2>1 DEF ChangedByHand, ToastStays, Differs
  <2> QED
    BY <2>2, <2>3
<1>3. CASE \E t \in Tabs : Load(t) \/ TimerFires(t) \/ \E s \in Sites : Toggle(t, s)
  BY <1>3, LoadPins, TimerPins, TogglePins
<1> QED
  BY <1>1, <1>2, <1>3 DEF FavouritesNext

\* No pin is lost to a tab that has seen it, and every toast stays for its time
\* (usePersistentSet, useToast), for any tabs, services and times.
THEOREM PinsHold == FavouritesSpec => []FavouritesTypeOK /\ PinsAsPressed
<1>1. FavouritesInit => PinInv
  BY PinInitial
<1>2. PinInv /\ [FavouritesNext]_favouriteVars => PinInv' /\ [ChangedByHand /\ ToastStays]_favouriteVars
  BY PinStep
<1>3. PinInv => FavouritesTypeOK
  BY DEF PinInv
<1> QED
  BY <1>1, <1>2, <1>3, PTL DEF FavouritesSpec, PinsAsPressed

-----------------------------------------------------------------------------
(* The limiter.                                                            *)

\* A sweep is at most a period ago, one that has fired waits at most Delay.
SweepInv ==
    /\ swept <= time
    /\ cutoff = NoSweep => time <= swept + SweepGap
    /\ cutoff # NoSweep => cutoff = swept - 2 * Window /\ time <= swept + Delay

\* A request waits for the lock at most Delay.
WaitInv ==
    \A r \in Requests :
        request[r] # NoRequest => /\ request[r].now \in Instants
                                  /\ request[r].now <= time /\ time <= request[r].now + Delay

\* What the last sweep has left, and what came later.
AgeInv ==
    \A c \in Clients :
        buckets[c] # NoBucket =>
            buckets[c].windowStart >=
                swept - 2 * Window - (IF cutoff = NoSweep THEN 0 ELSE SweepGap)

RateInv == RateTypeOK /\ IsFiniteSet(passed) /\ SweepInv /\ WaitInv /\ AgeInv

LEMMA NoRequestType == NoRequest \in [key : Clients, now : Instants \union {-1}]
<1>1. (CHOOSE c \in Clients : TRUE) \in Clients
  BY RateAssumption
<1> QED
  BY <1>1 DEF NoRequest

\* One more is let through, and it is told apart from the others.
LEMMA LetThroughKeeps ==
    ASSUME RateTypeOK, IsFiniteSet(passed),
           NEW c \in Clients, NEW now \in Instants, NEW start \in Instants, LetThrough(c, now, start)
    PROVE  /\ passed' \subseteq [client : Clients, at : Instants, of : Instants, nth : Nat \ {0}]
           /\ IsFiniteSet(passed')
<1> DEFINE same == {p \in passed : p.client = c /\ p.at = now}
           n == Cardinality(same) + 1
           new == [client |-> c, at |-> now, of |-> start, nth |-> n]
<1>1. n \in Nat \ {0}
  <2>1. IsFiniteSet(same)
    BY FS_Subset
  <2>2. Cardinality(same) \in Nat
    BY <2>1, FS_CardinalityType
  <2> HIDE DEF same
  <2> QED
    BY <2>2
<1>2. passed' = passed \union {new}
  BY DEF LetThrough
<1> HIDE DEF n
<1>3. new \in [client : Clients, at : Instants, of : Instants, nth : Nat \ {0}]
  BY <1>1
<1> HIDE DEF new
<1>4. IsFiniteSet(passed')
  BY <1>2, FS_AddElement
<1> QED
  BY <1>2, <1>3, <1>4 DEF RateTypeOK

LEMMA RateInitial == RateInit => RateInv
<1> SUFFICES ASSUME RateInit PROVE RateInv
  OBVIOUS
<1> USE RateAssumption DEF RateInit
<1>1. RateTypeOK /\ IsFiniteSet(passed)
  BY NoRequestType, FS_EmptySet DEF RateTypeOK, Instants, NoBucket, NoSweep
<1>2. SweepInv /\ WaitInv /\ AgeInv
  BY DEF SweepInv, WaitInv, AgeInv
<1> QED
  BY <1>1, <1>2 DEF RateInv

LEMMA ArriveKeeps == ASSUME RateInv, NEW r \in Requests, NEW c \in Clients, Arrive(r, c) PROVE RateInv'
<1> USE RateAssumption
<1>1. /\ request' = [request EXCEPT ![r] = [key |-> c, now |-> time]]
      /\ UNCHANGED <<time, buckets, cutoff, swept, passed>>
      /\ time \in Instants
  BY DEF Arrive, RateInv, RateTypeOK
<1>2. RateTypeOK'
  BY <1>1 DEF RateInv, RateTypeOK
<1>3. SweepInv' /\ AgeInv'
  BY <1>1 DEF RateInv, SweepInv, AgeInv, NoSweep, NoBucket
<1>4. WaitInv'
  <2>1. request'[r].now = time /\ \A q \in Requests : q # r => request'[q] = request[q]
    BY <1>1 DEF RateInv, RateTypeOK
  <2>2. time <= time + Delay
    BY <1>1 DEF Instants
  <2> QED
    BY <1>1, <2>1, <2>2 DEF RateInv, WaitInv, Instants
<1> QED
  BY <1>1, <1>2, <1>3, <1>4 DEF RateInv

LEMMA AllowKeeps == ASSUME RateInv, NEW r \in Requests, Allow(r) PROVE RateInv'
<1> USE RateAssumption
<1> DEFINE c == request[r].key
           now == request[r].now
           b == buckets[c]
<1>1. /\ request[r] # NoRequest
      /\ request' = [request EXCEPT ![r] = NoRequest]
      /\ UNCHANGED <<time, cutoff, swept>>
      /\ c \in Clients /\ now \in Instants
      /\ now <= time /\ time <= now + Delay
  BY DEF Allow, RateInv, RateTypeOK, WaitInv
<1>2. request' \in [Requests -> [key : Clients, now : Instants \union {-1}]]
  BY <1>1, NoRequestType DEF RateInv, RateTypeOK
<1>3. SweepInv' /\ WaitInv'
  BY <1>1 DEF RateInv, RateTypeOK, SweepInv, WaitInv
<1>4. /\ time \in Int /\ swept \in Int /\ now \in Int
      /\ Window \in Int /\ Delay \in Int /\ SweepGap \in Int
      /\ now >= swept - 2 * Window /\ SweepGap >= 0
  <2>1. /\ time \in Nat /\ swept \in Nat /\ now \in Nat /\ swept <= time
    BY <1>1 DEF RateInv, SweepInv, RateTypeOK, Instants
  <2> HIDE DEF now
  <2> QED
    BY <1>1, <2>1
<1>5. b \in [windowStart : Instants, count : 0 .. Max]
  BY <1>1 DEF RateInv, RateTypeOK
<1>6. CASE NewWindow(b, now)
  <2>1. /\ buckets' = [buckets EXCEPT ![c] = [windowStart |-> now, count |-> 1]]
        /\ LetThrough(c, now, now)
    BY <1>6 DEF Allow
  <2>0. /\ passed' \subseteq [client : Clients, at : Instants, of : Instants, nth : Nat \ {0}]
        /\ IsFiniteSet(passed')
    BY <1>1, <2>1, LetThroughKeeps DEF RateInv
  <2>2. 1 \in 0 .. Max
    OBVIOUS
  <2>3. RateTypeOK'
    <3>1. buckets' \in [Clients -> [windowStart : Instants, count : 0 .. Max]]
      BY <1>1, <2>1, <2>2 DEF RateInv, RateTypeOK
    <3> QED
      BY <1>1, <1>2, <2>0, <3>1 DEF RateInv, RateTypeOK
  <2>4. /\ buckets'[c].windowStart = now
        /\ \A d \in Clients : d # c => buckets'[d] = buckets[d]
    BY <1>1, <2>1 DEF RateInv, RateTypeOK
  <2>5. AgeInv'
    BY <2>4, <1>1, <1>4 DEF RateInv, AgeInv
  <2> QED
    BY <1>3, <2>0, <2>3, <2>5 DEF RateInv
<1>7. CASE ~NewWindow(b, now) /\ ~Full(b)
  <2>1. /\ buckets' = [buckets EXCEPT ![c].count = @ + 1]
        /\ LetThrough(c, now, b.windowStart)
    BY <1>7 DEF Allow
  <2>0. /\ passed' \subseteq [client : Clients, at : Instants, of : Instants, nth : Nat \ {0}]
        /\ IsFiniteSet(passed')
    <3>1. b.windowStart \in Instants
      BY <1>5
    <3> HIDE DEF b, c, now
    <3> QED
      BY <1>1, <2>1, <3>1, LetThroughKeeps DEF RateInv
  <2>2. b.count + 1 \in 0 .. Max
    BY <1>5, <1>7 DEF Full
  <2>3. RateTypeOK'
    <3>1. buckets' \in [Clients -> [windowStart : Instants, count : 0 .. Max]]
      BY <1>1, <2>1, <2>2 DEF RateInv, RateTypeOK
    <3> QED
      BY <1>1, <1>2, <2>0, <3>1 DEF RateInv, RateTypeOK
  <2>4. /\ b # NoBucket /\ buckets'[c].windowStart = b.windowStart
        /\ \A d \in Clients : d # c => buckets'[d] = buckets[d]
    BY <1>1, <1>5, <1>7, <2>1 DEF RateInv, RateTypeOK, NewWindow
  <2>5. AgeInv'
    BY <2>4, <1>1 DEF RateInv, AgeInv
  <2> QED
    BY <1>3, <2>0, <2>3, <2>5 DEF RateInv
<1>8. CASE ~NewWindow(b, now) /\ Full(b)
  <2>1. UNCHANGED <<buckets, passed>>
    BY <1>8 DEF Allow
  <2> QED
    BY <1>1, <1>2, <1>3, <2>1 DEF RateInv, RateTypeOK, AgeInv
<1> QED
  BY <1>6, <1>7, <1>8

LEMMA SweepFiresKeeps == ASSUME RateInv, SweepFires PROVE RateInv'
<1> USE RateAssumption
<1>1. /\ time \in Instants /\ time \in Int /\ time <= MaxTime /\ swept \in Int
      /\ time <= swept + SweepGap
      /\ cutoff = NoSweep
      /\ swept' = time /\ cutoff' = time - 2 * Window
      /\ UNCHANGED <<time, buckets, request, passed>>
  BY DEF SweepFires, RateInv, RateTypeOK, SweepInv, Instants
<1>2. RateTypeOK'
  BY <1>1 DEF RateInv, RateTypeOK
<1>3. cutoff' # NoSweep
  BY <1>1 DEF NoSweep
<1>4. SweepInv'
  BY <1>1, <1>3 DEF SweepInv, NoSweep
<1>5. WaitInv'
  BY <1>1 DEF RateInv, WaitInv
<1>6. AgeInv'
  <2> SUFFICES ASSUME NEW c \in Clients, buckets[c] # NoBucket
               PROVE  buckets[c].windowStart >= time - 2 * Window - SweepGap
    BY <1>1, <1>3 DEF AgeInv, NoSweep
  <2>1. buckets[c].windowStart >= swept - 2 * Window - 0
    BY <1>1 DEF RateInv, AgeInv
  <2>2. buckets[c].windowStart \in Int
    BY DEF RateInv, RateTypeOK, Instants
  <2> QED
    BY <2>1, <2>2, <1>1
<1> QED
  BY <1>1, <1>2, <1>4, <1>5, <1>6 DEF RateInv

LEMMA SweepKeeps == ASSUME RateInv, Sweep PROVE RateInv'
<1> USE RateAssumption
<1>1. /\ cutoff = swept - 2 * Window /\ time <= swept + Delay
      /\ buckets' = [c \in Clients |-> IF Expired(buckets[c], cutoff) THEN NoBucket ELSE buckets[c]]
      /\ cutoff' = NoSweep
      /\ UNCHANGED <<time, request, swept, passed>>
      /\ time \in Int /\ swept \in Int
  BY DEF Sweep, RateInv, SweepInv, RateTypeOK, Instants
<1>2. RateTypeOK'
  <2>1. NoBucket \in [windowStart : Instants, count : 0 .. Max] /\ NoSweep \in Int
    BY DEF NoBucket, NoSweep, Instants
  <2>2. buckets' \in [Clients -> [windowStart : Instants, count : 0 .. Max]]
    BY <1>1, <2>1 DEF RateInv, RateTypeOK
  <2> QED
    BY <1>1, <2>1, <2>2 DEF RateInv, RateTypeOK
<1>3. SweepInv'
  BY <1>1 DEF RateInv, SweepInv, NoSweep
<1>4. WaitInv'
  BY <1>1 DEF RateInv, WaitInv
<1>5. AgeInv'
  <2> SUFFICES ASSUME NEW c \in Clients, buckets'[c] # NoBucket
               PROVE  buckets'[c].windowStart >= swept - 2 * Window - 0
    BY <1>1 DEF AgeInv, NoSweep, NoBucket
  <2>1. buckets'[c] = buckets[c] /\ ~(buckets[c].windowStart < cutoff)
    BY <1>1 DEF Expired
  <2>2. buckets[c].windowStart \in Int
    BY DEF RateInv, RateTypeOK, Instants
  <2> QED
    BY <2>1, <2>2, <1>1
<1> QED
  BY <1>1, <1>2, <1>3, <1>4, <1>5 DEF RateInv

LEMMA TimeKeeps == ASSUME RateInv, TimePasses PROVE RateInv'
<1> USE RateAssumption
<1>1. /\ time \in Int /\ 0 <= time /\ time < MaxTime /\ swept \in Int
      /\ \A r \in Requests : request[r] # NoRequest => time < request[r].now + Delay
      /\ time < swept + (IF cutoff = NoSweep THEN SweepGap ELSE Delay)
      /\ time' = time + 1
      /\ UNCHANGED <<buckets, request, cutoff, swept, passed>>
  BY DEF TimePasses, RateInv, RateTypeOK, Instants
<1>2. RateTypeOK'
  BY <1>1 DEF RateInv, RateTypeOK, Instants
<1>3. SweepInv'
  BY <1>1 DEF RateInv, SweepInv, NoSweep
<1>4. WaitInv'
  BY <1>1 DEF RateInv, WaitInv, Instants, NoRequest
<1>5. AgeInv'
  BY <1>1 DEF RateInv, AgeInv, NoSweep, NoBucket
<1> QED
  BY <1>1, <1>2, <1>3, <1>4, <1>5 DEF RateInv

LEMMA RateStep == RateInv /\ [RateNext]_rateVars => RateInv'
<1> SUFFICES ASSUME RateInv, [RateNext]_rateVars PROVE RateInv'
  OBVIOUS
<1>1. CASE UNCHANGED rateVars
  BY <1>1 DEF rateVars, RateInv, RateTypeOK, SweepInv, WaitInv, AgeInv
<1>2. CASE RateNext
  BY <1>2, ArriveKeeps, AllowKeeps, SweepFiresKeeps, SweepKeeps, TimeKeeps DEF RateNext
<1> QED
  BY <1>1, <1>2

\* The map of the limiter forgets (sweepStale), for any clients, window and period
\* of the sweep, and no count passes the limit.
THEOREM MapForgets == RateSpec => [](RateTypeOK /\ BucketsGoAway)
<1>1. RateInit => RateInv
  BY RateInitial
<1>2. RateInv /\ [RateNext]_rateVars => RateInv'
  BY RateStep
<1>3. RateInv => RateTypeOK /\ BucketsGoAway
  <2> SUFFICES ASSUME RateInv, NEW c \in Clients, buckets[c] # NoBucket
               PROVE  time <= buckets[c].windowStart + 2 * Window + SweepGap + Delay
    BY DEF BucketsGoAway, RateInv
  <2>1. /\ buckets[c].windowStart \in Int /\ time \in Int /\ swept \in Int
        /\ buckets[c].windowStart >= swept - 2 * Window - (IF cutoff = NoSweep THEN 0 ELSE SweepGap)
        /\ cutoff = NoSweep => time <= swept + SweepGap
        /\ cutoff # NoSweep => time <= swept + Delay
    BY DEF RateInv, RateTypeOK, AgeInv, SweepInv, Instants
  <2> QED
    BY <2>1, RateAssumption
<1> QED
  BY <1>1, <1>2, <1>3, PTL DEF RateSpec

-----------------------------------------------------------------------------
(* How many get through.                                                   *)

Of(c) == {p \in passed : p.client = c}
Counted(c, start) == {p \in passed : p.client = c /\ p.of = start}
ReadAt(c, now) == {p \in passed : p.client = c /\ p.at = now}

\* Where a request lies to the window it was counted in, which begins with one of
\* them.
PlaceInv ==
    \A p \in passed :
        /\ p.of <= time /\ p.at <= time
        /\ p.of <= p.at + Delay /\ p.at < p.of + Window
        /\ \E q \in passed : q.client = p.client /\ q.of = p.of /\ q.at = p.of

\* Windows of a client do not overlap.
ApartInv == \A p, q \in passed : p.client = q.client /\ p.of < q.of => p.of + Window <= q.of

\* The bucket is the last window's, and counts its requests; when it has been
\* dropped, the last window was long over.
BucketInv ==
    \A c \in Clients :
        LET b == buckets[c]
        IN  /\ b # NoBucket =>
                 /\ b.windowStart <= time
                 /\ Cardinality(Counted(c, b.windowStart)) = b.count
                 /\ \A p \in Of(c) : p.of <= b.windowStart
                 /\ \E q \in Of(c) : q.of = b.windowStart /\ q.at = b.windowStart
            /\ b = NoBucket => \A p \in Of(c) : p.of < swept - 2 * Window

\* No window counts more than Max, and no two of the requests are the same.
CountInv ==
    /\ \A c \in Clients, start \in Instants : Cardinality(Counted(c, start)) <= Max
    /\ \A p \in passed : p.nth <= Cardinality(ReadAt(p.client, p.at))

LimitInv == PlaceInv /\ ApartInv /\ BucketInv /\ CountInv

LEMMA LimitInitial == RateInit => LimitInv
<1> SUFFICES ASSUME RateInit PROVE LimitInv
  OBVIOUS
<1>1. passed = {} /\ \A c \in Clients : buckets[c] = NoBucket
  BY DEF RateInit
<1>2. \A c, start : Counted(c, start) = {}
  BY <1>1 DEF Counted
<1>3. \A c, start : Cardinality(Counted(c, start)) <= Max
  BY <1>2, FS_EmptySet, RateAssumption
<1> QED
  BY <1>1, <1>3 DEF LimitInv, PlaceInv, ApartInv, BucketInv, CountInv, Of

\* Steps that let nobody through and drop no bucket.
LEMMA LimitQuiet ==
    ASSUME RateInv, LimitInv, UNCHANGED <<buckets, passed>>, time' \in Int, time <= time', swept' \in Int, swept <= swept'
    PROVE  LimitInv'
<1>1. /\ time \in Int /\ swept \in Int /\ Window \in Int
      /\ \A p \in passed : p.of \in Int /\ p.at \in Int
      /\ \A c \in Clients : buckets[c].windowStart \in Int
  BY RateAssumption DEF RateInv, RateTypeOK, Instants
<1>2. PlaceInv'
  BY <1>1 DEF LimitInv, PlaceInv
<1>3. ApartInv' /\ CountInv'
  BY DEF LimitInv, ApartInv, CountInv, Counted, ReadAt
<1>4. BucketInv'
  <2>0. \A c : Of(c)' = Of(c) /\ Of(c) \subseteq passed /\ \A start : Counted(c, start)' = Counted(c, start)
    BY DEF Of, Counted
  <2> SUFFICES ASSUME NEW c \in Clients
               PROVE  /\ buckets[c] # NoBucket =>
                           /\ buckets[c].windowStart <= time'
                           /\ Cardinality(Counted(c, buckets[c].windowStart)) = buckets[c].count
                           /\ \A p \in Of(c) : p.of <= buckets[c].windowStart
                           /\ \E q \in Of(c) : q.of = buckets[c].windowStart /\ q.at = buckets[c].windowStart
                      /\ buckets[c] = NoBucket => \A p \in Of(c) : p.of < swept' - 2 * Window
    BY <2>0 DEF BucketInv, Counted, Of
  <2>1. CASE buckets[c] # NoBucket
    BY <1>1, <2>1 DEF LimitInv, BucketInv
  <2>2. CASE buckets[c] = NoBucket
    <3>1. \A p \in Of(c) : p.of < swept - 2 * Window /\ p.of \in Int
      BY <1>1, <2>0, <2>2 DEF LimitInv, BucketInv
    <3> QED
      BY <1>1, <2>2, <3>1
  <2> QED
    BY <2>1, <2>2
<1> QED
  BY <1>2, <1>3, <1>4 DEF LimitInv

LEMMA LimitSweep == ASSUME RateInv, LimitInv, Sweep PROVE LimitInv'
<1>1. /\ cutoff = swept - 2 * Window
      /\ buckets' = [c \in Clients |-> IF Expired(buckets[c], cutoff) THEN NoBucket ELSE buckets[c]]
      /\ UNCHANGED <<time, swept, passed>>
  BY DEF Sweep, RateInv, SweepInv
<1>2. /\ swept \in Int /\ Window \in Int /\ \A p \in passed : p.of \in Int
      /\ \A c \in Clients : buckets[c].windowStart \in Int
  BY RateAssumption DEF RateInv, RateTypeOK, Instants
<1>3. PlaceInv' /\ ApartInv' /\ CountInv'
  BY <1>1 DEF LimitInv, PlaceInv, ApartInv, CountInv, Counted, ReadAt
<1>4. BucketInv'
  <2>0. \A c : Of(c)' = Of(c) /\ Of(c) \subseteq passed /\ \A start : Counted(c, start)' = Counted(c, start)
    BY <1>1 DEF Of, Counted
  <2> SUFFICES ASSUME NEW c \in Clients
               PROVE  /\ buckets'[c] # NoBucket => buckets'[c] = buckets[c]
                      /\ buckets'[c] = NoBucket => \A p \in Of(c) : p.of < swept - 2 * Window
    BY <1>1, <2>0 DEF LimitInv, BucketInv, Of, Counted
  <2>1. CASE buckets[c] # NoBucket /\ Expired(buckets[c], cutoff)
    <3>1. buckets[c].windowStart < swept - 2 * Window /\ buckets'[c] = NoBucket
      BY <1>1, <2>1 DEF Expired
    <3>2. \A p \in Of(c) : p.of <= buckets[c].windowStart /\ p.of \in Int
      BY <1>2, <2>0, <2>1 DEF LimitInv, BucketInv
    <3> QED
      BY <1>2, <3>1, <3>2
  <2>2. CASE buckets[c] = NoBucket
    <3>1. buckets'[c] = NoBucket
      BY <1>1, <2>2
    <3>2. \A p \in Of(c) : p.of < swept - 2 * Window
      BY <2>2 DEF LimitInv, BucketInv
    <3> QED
      BY <3>1, <3>2
  <2>3. CASE buckets[c] # NoBucket /\ ~Expired(buckets[c], cutoff)
    BY <1>1, <2>3
  <2> QED
    BY <2>1, <2>2, <2>3
<1> QED
  BY <1>3, <1>4 DEF LimitInv

\* One more is let through, in the window that begins at start.
LEMMA LimitLet ==
    ASSUME RateInv, LimitInv, NEW c \in Clients, NEW now \in Instants, NEW start \in Instants,
           NEW n \in Nat, LetThrough(c, now, start), UNCHANGED <<time, swept>>,
           now <= time, start <= time, start <= now + Delay, now < start + Window,
           Cardinality(Counted(c, start)) = n, n < Max,
           \A p \in Of(c) : p.of = start \/ p.of + Window <= start,
           now = start \/ \E q \in Of(c) : q.of = start /\ q.at = start,
           buckets'[c].windowStart = start, buckets'[c].count = n + 1,
           \A d \in Clients : d # c => buckets'[d] = buckets[d]
    PROVE  LimitInv' /\ passed' # passed
<1> DEFINE nth == Cardinality(ReadAt(c, now)) + 1
           new == [client |-> c, at |-> now, of |-> start, nth |-> nth]
<1>0. /\ time \in Int /\ swept \in Int /\ Window \in Nat \ {0} /\ Delay \in Nat /\ Max \in Nat
      /\ \A p \in passed : p.of \in Int /\ p.at \in Int /\ p.nth \in Nat
      /\ now \in Int /\ start \in Int /\ IsFiniteSet(passed)
  BY RateAssumption DEF RateInv, RateTypeOK, Instants
<1>1. passed' = passed \union {new}
  BY DEF LetThrough, ReadAt
<1>2. \A d, t : /\ IsFiniteSet(ReadAt(d, t)) /\ Cardinality(ReadAt(d, t)) \in Nat
                /\ IsFiniteSet(Counted(d, t)) /\ Cardinality(Counted(d, t)) \in Nat
  BY <1>0, FS_Subset, FS_CardinalityType DEF ReadAt, Counted
<1>3. nth \in Nat
  BY <1>2
<1>4. new.client = c /\ new.at = now /\ new.of = start /\ new.nth = nth
  OBVIOUS
<1>5. new \notin passed
  <2> SUFFICES ASSUME new \in passed PROVE FALSE
    OBVIOUS
  <2>1. new.nth <= Cardinality(ReadAt(c, now))
    BY <1>4 DEF LimitInv, CountInv
  <2>2. Cardinality(ReadAt(c, now)) \in Nat
    BY <1>2
  <2> QED
    BY <1>4, <2>1, <2>2
<1> HIDE DEF new, nth
<1>6. /\ ReadAt(c, now)' = ReadAt(c, now) \union {new} /\ new \notin ReadAt(c, now)
      /\ Counted(c, start)' = Counted(c, start) \union {new} /\ new \notin Counted(c, start)
      /\ \A d, t : d # c \/ t # now => ReadAt(d, t)' = ReadAt(d, t)
      /\ \A d, t : d # c \/ t # start => Counted(d, t)' = Counted(d, t)
      /\ Of(c)' = Of(c) \union {new} /\ \A d : d # c => Of(d)' = Of(d)
  BY <1>1, <1>4, <1>5 DEF ReadAt, Counted, Of
<1>7. /\ Cardinality(ReadAt(c, now)') = nth
      /\ Cardinality(Counted(c, start)') = n + 1
  <2>1. /\ IsFiniteSet(ReadAt(c, now)) /\ new \notin ReadAt(c, now)
        /\ IsFiniteSet(Counted(c, start)) /\ new \notin Counted(c, start)
    BY <1>2, <1>6
  <2>2. Cardinality(ReadAt(c, now) \union {new}) = Cardinality(ReadAt(c, now)) + 1
    BY <2>1, FS_AddElement
  <2>3. Cardinality(Counted(c, start) \union {new}) = Cardinality(Counted(c, start)) + 1
    BY <2>1, FS_AddElement
  <2>4. Cardinality(ReadAt(c, now)') = nth
    BY <1>6, <2>2 DEF nth
  <2> QED
    BY <1>6, <2>3, <2>4
<1>8. PlaceInv'
  <2>1. \E q \in passed' : q.client = c /\ q.of = start /\ q.at = start
    BY <1>1, <1>4 DEF Of
  <2>2. \A p \in passed : /\ p.of <= time /\ p.at <= time
                          /\ p.of <= p.at + Delay /\ p.at < p.of + Window
                          /\ \E q \in passed' : q.client = p.client /\ q.of = p.of /\ q.at = p.of
    BY <1>1 DEF LimitInv, PlaceInv
  <2> QED
    BY <1>1, <1>4, <2>1, <2>2 DEF PlaceInv
<1>9. ApartInv'
  <2> SUFFICES ASSUME NEW p \in passed', NEW q \in passed', p.client = q.client, p.of < q.of
               PROVE  p.of + Window <= q.of
    BY DEF ApartInv
  <2>1. CASE p \in passed /\ q \in passed
    BY <2>1 DEF LimitInv, ApartInv
  <2>2. CASE q = new /\ p \in passed
    BY <1>0, <1>4, <2>2 DEF Of
  <2>3. CASE p = new
    <3>1. q \in Of(c) /\ q.of \in Int /\ start < q.of
      BY <1>0, <1>1, <1>4, <2>3 DEF Of
    <3>2. q.of = start \/ q.of + Window <= start
      BY <3>1
    <3> QED
      BY <1>0, <3>1, <3>2
  <2> QED
    BY <1>1, <2>1, <2>2, <2>3
<1>10. BucketInv'
  <2>1. \A d \in Clients : d # c => Counted(d, buckets[d].windowStart)' = Counted(d, buckets'[d].windowStart)
                                    /\ Of(d)' = Of(d)
    <3>1. \A d : d # c => Of(d)' = Of(d)
      BY <1>6
    <3>2. \A d, t : d # c => {p \in passed' : p.client = d /\ p.of = t} = {p \in passed : p.client = d /\ p.of = t}
      BY <1>1, <1>4
    <3> QED
      BY <3>1, <3>2 DEF Counted
  <2>2. Counted(c, buckets[c].windowStart)' = Counted(c, start)'
    BY DEF Counted
  <2>3. buckets'[c].count # 0 /\ buckets'[c] # NoBucket
    BY <1>0 DEF NoBucket
  <2>4. /\ Cardinality(Counted(c, buckets[c].windowStart)') = n + 1
        /\ \A p \in Of(c)' : p.of <= start
        /\ \E q \in Of(c)' : q.of = start /\ q.at = start
    <3>1. \A p \in Of(c) : p.of <= start
      <4> TAKE p \in Of(c)
      <4>1. p.of \in Int /\ (p.of = start \/ p.of + Window <= start)
        BY <1>0 DEF Of
      <4> QED
        BY <1>0, <4>1
    <3> QED
      BY <1>0, <1>4, <1>6, <1>7, <2>2, <3>1
  <2> SUFFICES ASSUME NEW d \in Clients
               PROVE  /\ buckets'[d] # NoBucket =>
                           /\ buckets'[d].windowStart <= time
                           /\ Cardinality(Counted(d, buckets[d].windowStart)') = buckets'[d].count
                           /\ \A p \in Of(d)' : p.of <= buckets'[d].windowStart
                           /\ \E q \in Of(d)' : q.of = buckets'[d].windowStart /\ q.at = buckets'[d].windowStart
                      /\ buckets'[d] = NoBucket => \A p \in Of(d)' : p.of < swept - 2 * Window
    BY DEF BucketInv, Of, NoBucket
  <2>5. CASE d = c
    BY <2>3, <2>4, <2>5
  <2>6. CASE d # c
    BY <2>1, <2>6 DEF LimitInv, BucketInv
  <2> QED
    BY <2>5, <2>6
<1>11. CountInv'
  <2>1. ASSUME NEW d \in Clients, NEW t \in Instants PROVE Cardinality(Counted(d, t)') <= Max
    <3>1. CASE d = c /\ t = start
      BY <1>0, <1>7, <3>1
    <3>2. CASE d # c \/ t # start
      BY <1>6, <3>2 DEF LimitInv, CountInv
    <3> QED
      BY <3>1, <3>2
  <2>2. ASSUME NEW p \in passed' PROVE p.nth <= Cardinality({q \in passed' : q.client = p.client /\ q.at = p.at})
    <3> DEFINE d == p.client
               t == p.at
    <3>0. {q \in passed' : q.client = d /\ q.at = t} = IF d = c /\ t = now THEN ReadAt(c, now) \union {new} ELSE ReadAt(d, t)
      BY <1>1, <1>4 DEF ReadAt
    <3>1. CASE p = new
      <4>1. d = c /\ t = now /\ p.nth = nth
        BY <1>4, <3>1
      <4>2. {q \in passed' : q.client = d /\ q.at = t} = ReadAt(c, now)'
        BY <1>6, <3>0, <4>1
      <4> HIDE DEF d, t
      <4>3. Cardinality(ReadAt(c, now)') = nth /\ nth <= nth
        BY <1>3, <1>7
      <4>4. Cardinality({q \in passed' : q.client = d /\ q.at = t}) = Cardinality(ReadAt(c, now)')
        BY <4>2
      <4>5. p.nth <= Cardinality({q \in passed' : q.client = d /\ q.at = t})
        BY <4>1, <4>3, <4>4
      <4> QED
        BY <4>5 DEF d, t
    <3>2. CASE p \in passed
      <4>1. p.nth <= Cardinality(ReadAt(d, t)) /\ p.nth \in Nat /\ Cardinality(ReadAt(d, t)) \in Nat
        BY <1>0, <1>2, <3>2 DEF LimitInv, CountInv
      <4>2. CASE d = c /\ t = now
        <5>1. Cardinality(ReadAt(c, now) \union {new}) = Cardinality(ReadAt(c, now)) + 1
          BY <1>2, <1>6, FS_AddElement
        <5> HIDE DEF d, t
        <5>2. p.nth <= Cardinality(ReadAt(c, now) \union {new})
          BY <4>1, <4>2, <5>1
        <5> QED
          BY <3>0, <4>2, <5>2 DEF d, t
      <4>3. CASE ~(d = c /\ t = now)
        <5>1. {q \in passed' : q.client = d /\ q.at = t} = ReadAt(d, t)
          BY <3>0, <4>3
        <5> HIDE DEF d, t
        <5>2. p.nth <= Cardinality({q \in passed' : q.client = d /\ q.at = t})
          BY <4>1, <5>1
        <5> QED
          BY <5>2 DEF d, t
      <4> QED
        BY <4>2, <4>3
    <3> QED
      BY <1>1, <3>1, <3>2
  <2> QED
    BY <2>1, <2>2 DEF CountInv, ReadAt
<1> QED
  BY <1>1, <1>5, <1>8, <1>9, <1>10, <1>11 DEF LimitInv


\* Allow keeps the windows, and refuses only within one that is full.
LEMMA LimitAllow ==
    ASSUME RateInv, LimitInv, NEW r \in Requests, Allow(r)
    PROVE  /\ LimitInv'
           /\ passed' = passed => /\ ~NewWindow(buckets[request[r].key], request[r].now)
                                  /\ Full(buckets[request[r].key])
<1> DEFINE c == request[r].key
           now == request[r].now
           b == buckets[c]
<1>1. /\ UNCHANGED <<time, swept>>
      /\ c \in Clients /\ now \in Instants
      /\ now <= time /\ time <= now + Delay
      /\ b \in [windowStart : Instants, count : 0 .. Max]
  BY DEF Allow, RateInv, RateTypeOK, WaitInv
<1>2. /\ time \in Int /\ swept \in Int /\ swept <= time /\ now \in Int /\ b.windowStart \in Int /\ b.count \in Nat
      /\ Window \in Nat \ {0} /\ Delay \in Nat /\ Delay <= Window /\ Max \in Nat \ {0}
      /\ \A p \in Of(c) : p \in passed /\ p.client = c /\ p.of \in Int
  BY <1>1, RateAssumption DEF RateInv, RateTypeOK, SweepInv, Instants, Of
<1>3. b # NoBucket =>
        /\ b.windowStart <= time
        /\ Cardinality(Counted(c, b.windowStart)) = b.count
        /\ \A p \in Of(c) : p.of <= b.windowStart
        /\ \E q \in Of(c) : q.of = b.windowStart /\ q.at = b.windowStart
  BY <1>1 DEF LimitInv, BucketInv
<1>4. CASE NewWindow(b, now)
  <2>1. /\ buckets' = [buckets EXCEPT ![c] = [windowStart |-> now, count |-> 1]]
        /\ LetThrough(c, now, now)
    BY <1>4 DEF Allow
  <2>2. /\ buckets'[c].windowStart = now /\ buckets'[c].count = 0 + 1
        /\ \A d \in Clients : d # c => buckets'[d] = buckets[d]
    BY <1>1, <2>1 DEF RateInv, RateTypeOK
  <2>3. \A p \in Of(c) : p.of + Window <= now
    <3> TAKE p \in Of(c)
    <3>1. CASE b = NoBucket
      <4>1. p.of < swept - 2 * Window
        BY <1>1, <3>1 DEF LimitInv, BucketInv
      <4> HIDE DEF b, c, now
      <4> QED
        BY <1>1, <1>2, <4>1
    <3>2. CASE b # NoBucket
      <4>1. p.of <= b.windowStart /\ now - b.windowStart >= Window
        BY <1>3, <1>4, <3>2 DEF NewWindow
      <4> HIDE DEF b, c, now
      <4> QED
        BY <1>2, <4>1
    <3> QED
      BY <3>1, <3>2
  <2> HIDE DEF b, c, now
  <2>4. Cardinality(Counted(c, now)) = 0
    <3>1. Counted(c, now) = {}
      <4> SUFFICES ASSUME NEW p \in Counted(c, now) PROVE FALSE
        OBVIOUS
      <4>1. p \in Of(c) /\ p.of = now
        BY DEF Counted, Of
      <4> QED
        BY <1>2, <2>3, <4>1
    <3> QED
      BY <3>1, FS_EmptySet
  <2>5. now <= now + Delay /\ now < now + Window /\ 0 \in Nat /\ 0 < Max
    BY <1>2
  <2>6. LimitInv' /\ passed' # passed
    BY <1>1, <2>1, <2>2, <2>3, <2>4, <2>5, LimitLet
  <2> QED
    BY <2>6
<1>5. CASE ~NewWindow(b, now) /\ ~Full(b)
  <2>1. /\ buckets' = [buckets EXCEPT ![c].count = @ + 1]
        /\ LetThrough(c, now, b.windowStart)
    BY <1>5 DEF Allow
  <2>2. /\ buckets'[c].windowStart = b.windowStart /\ buckets'[c].count = b.count + 1
        /\ \A d \in Clients : d # c => buckets'[d] = buckets[d]
    BY <1>1, <2>1 DEF RateInv, RateTypeOK
  <2>3. b # NoBucket /\ now < b.windowStart + Window /\ b.count < Max
    BY <1>2, <1>5 DEF NewWindow, Full
  <2>4. b.windowStart <= now + Delay /\ b.windowStart \in Instants
    <3>1. b.windowStart \in Instants
      BY <1>1
    <3> HIDE DEF b, c, now
    <3> QED
      BY <1>1, <1>2, <1>3, <2>3, <3>1
  <2> HIDE DEF b, c, now
  <2>5. \A p \in Of(c) : p.of = b.windowStart \/ p.of + Window <= b.windowStart
    <3> TAKE p \in Of(c)
    <3>1. PICK q \in Of(c) : q.of = b.windowStart
      BY <1>3, <2>3
    <3>2. p.of < q.of => p.of + Window <= q.of
      BY <1>2 DEF LimitInv, ApartInv
    <3>3. p.of <= b.windowStart
      BY <1>3, <2>3
    <3> QED
      BY <1>2, <3>1, <3>2, <3>3
  <2>6. LimitInv' /\ passed' # passed
    BY <1>1, <1>2, <1>3, <2>1, <2>2, <2>3, <2>4, <2>5, LimitLet
  <2> QED
    BY <2>6
<1>6. CASE ~NewWindow(b, now) /\ Full(b)
  <2>1. UNCHANGED <<buckets, passed>>
    BY <1>6 DEF Allow
  <2>2. LimitInv'
    BY <1>1, <1>2, <2>1, LimitQuiet
  <2> QED
    BY <1>6, <2>2
<1> QED
  BY <1>4, <1>5, <1>6

LEMMA LimitStep == RateInv /\ LimitInv /\ [RateNext]_rateVars => LimitInv'
<1> SUFFICES ASSUME RateInv, LimitInv, [RateNext]_rateVars PROVE LimitInv'
  OBVIOUS
<1>0. time \in Int /\ swept \in Int /\ swept <= time
  BY DEF RateInv, RateTypeOK, SweepInv, Instants
<1>1. CASE UNCHANGED rateVars
  BY <1>0, <1>1, LimitQuiet DEF rateVars
<1>2. ASSUME NEW r \in Requests, NEW c \in Clients, Arrive(r, c) PROVE LimitInv'
  BY <1>0, <1>2, LimitQuiet DEF Arrive
<1>3. CASE SweepFires
  BY <1>0, <1>3, LimitQuiet DEF SweepFires
<1>4. CASE TimePasses
  BY <1>0, <1>4, LimitQuiet DEF TimePasses
<1> QED
  BY <1>1, <1>2, <1>3, <1>4, LimitAllow, LimitSweep DEF RateNext

\* Requests of one window.
LEMMA OneWindow ==
    ASSUME RateInv, LimitInv, NEW c \in Clients, NEW X, X \subseteq Of(c), \A p, q \in X : p.of = q.of
    PROVE  /\ IsFiniteSet(X) /\ Cardinality(X) \in Nat /\ Cardinality(X) <= Max
           /\ (\A p \in X : p.at # p.of) => Cardinality(X) <= Max - 1
<1>1. IsFiniteSet(X) /\ Cardinality(X) \in Nat
  BY FS_Subset, FS_CardinalityType DEF RateInv, Of
<1>2. Max \in Nat \ {0}
  BY RateAssumption
<1>3. CASE X = {}
  <2>1. Cardinality(X) = 0
    BY <1>3, FS_EmptySet
  <2> QED
    BY <1>1, <1>2, <2>1
<1>4. CASE X # {}
  <2>1. PICK p \in X : TRUE
    BY <1>4
  <2> DEFINE W == Counted(c, p.of)
  <2>2. X \subseteq W /\ W \subseteq passed /\ p \in passed /\ p.client = c /\ p.of \in Instants
    BY <2>1 DEF Counted, Of, RateInv, RateTypeOK
  <2>3. IsFiniteSet(W) /\ Cardinality(W) \in Nat /\ Cardinality(W) <= Max
    BY <2>2, FS_Subset, FS_CardinalityType DEF RateInv, LimitInv, CountInv
  <2>4. PICK f \in passed : f.client = c /\ f.of = p.of /\ f.at = p.of
    BY <2>2 DEF LimitInv, PlaceInv
  <2>5. f \in W
    BY <2>4 DEF Counted
  <2> HIDE DEF W
  <2>6. Cardinality(X) <= Cardinality(W)
    BY <2>2, <2>3, FS_Subset
  <2>7. ASSUME \A x \in X : x.at # x.of PROVE Cardinality(X) <= Max - 1
    <3>1. f \notin X
      BY <2>4, <2>7
    <3>2. X # W
      BY <2>5, <3>1
    <3>3. Cardinality(W) # Cardinality(X)
      BY <2>2, <2>3, <3>2, FS_Subset
    <3> QED
      BY <1>1, <1>2, <2>3, <2>6, <3>3
  <2> QED
    BY <1>1, <1>2, <2>3, <2>6, <2>7
<1> QED
  BY <1>3, <1>4

LEMMA SmallUnion ==
    ASSUME NEW A, NEW B, NEW m \in Nat, NEW n \in Nat, IsFiniteSet(A), IsFiniteSet(B),
           Cardinality(A) <= m, Cardinality(B) <= n
    PROVE  IsFiniteSet(A \union B) /\ Cardinality(A \union B) <= m + n
<1>1. IsFiniteSet(A \union B) /\ Cardinality(A \union B) = Cardinality(A) + Cardinality(B) - Cardinality(A \cap B)
  BY FS_Union
<1>2. IsFiniteSet(A \cap B)
  BY FS_Intersection
<1>3. Cardinality(A) \in Nat /\ Cardinality(B) \in Nat /\ Cardinality(A \cap B) \in Nat
  BY <1>2, FS_CardinalityType
<1> QED
  BY <1>1, <1>3

LEMMA LimitThree == ASSUME RateInv, LimitInv PROVE ThreeWindows
<1> SUFFICES ASSUME NEW c \in Clients, NEW t \in Instants
             PROVE  PassedIn(c, t, t + Window - 1) <= 3 * Max - 2
  BY DEF ThreeWindows
<1> DEFINE S == {p \in passed : p.client = c /\ p.at \in t .. t + Window - 1}
           A == {p \in S : p.of < t}
           B == {p \in S : t <= p.of /\ p.of < t + Window}
           C == {p \in S : t + Window <= p.of}
<1>1. /\ t \in Int /\ Window \in Nat \ {0} /\ Delay \in Nat /\ Delay <= Window /\ Max \in Nat \ {0}
      /\ \A p \in S : /\ p \in passed /\ p.client = c /\ p.of \in Int /\ p.at \in Int
                      /\ t <= p.at /\ p.at < t + Window
  BY RateAssumption DEF RateInv, RateTypeOK, Instants
<1>2. S = (A \union B) \union C /\ A \subseteq Of(c) /\ B \subseteq Of(c) /\ C \subseteq Of(c)
  BY <1>1 DEF Of
<1>3. \A p \in S : p.of <= p.at + Delay /\ p.at < p.of + Window
  BY <1>1 DEF LimitInv, PlaceInv
<1>4. \A p, q \in S : p.of < q.of => p.of + Window <= q.of
  BY <1>1 DEF LimitInv, ApartInv
<1>5. (\A p, q \in A : p.of = q.of) /\ (\A p \in A : p.at # p.of)
  <2>1. ASSUME NEW p \in A, NEW q \in A PROVE ~(p.of < q.of)
    BY <1>1, <1>3, <1>4
  <2>2. \A p \in A : p.of \in Int
    BY <1>1
  <2>3. \A p, q \in A : p.of = q.of
    <3> TAKE p, q \in A
    <3> QED
      BY <2>1, <2>2
  <2> QED
    BY <1>1, <2>3
<1>6. \A p, q \in B : p.of = q.of
  <2> TAKE p, q \in B
  <2> QED
    BY <1>1, <1>4
<1>7. (\A p, q \in C : p.of = q.of) /\ (\A p \in C : p.at # p.of)
  <2>1. ASSUME NEW p \in C, NEW q \in C PROVE ~(p.of < q.of)
    BY <1>1, <1>3, <1>4
  <2>2. \A p \in C : p.of \in Int
    BY <1>1
  <2>3. \A p, q \in C : p.of = q.of
    <3> TAKE p, q \in C
    <3> QED
      BY <2>1, <2>2
  <2> QED
    BY <1>1, <2>3
<1> HIDE DEF A, B, C
<1>8. /\ IsFiniteSet(A) /\ Cardinality(A) <= Max - 1
      /\ IsFiniteSet(B) /\ Cardinality(B) <= Max
      /\ IsFiniteSet(C) /\ Cardinality(C) <= Max - 1
  <2>1. IsFiniteSet(A) /\ Cardinality(A) <= Max - 1
    BY <1>2, <1>5, OneWindow
  <2>2. IsFiniteSet(B) /\ Cardinality(B) <= Max
    BY <1>2, <1>6, OneWindow
  <2>3. IsFiniteSet(C) /\ Cardinality(C) <= Max - 1
    BY <1>2, <1>7, OneWindow
  <2> QED
    BY <2>1, <2>2, <2>3
<1>9. /\ Max - 1 \in Nat /\ Max \in Nat /\ (Max - 1) + Max \in Nat
      /\ ((Max - 1) + Max) + (Max - 1) = 3 * Max - 2
  BY <1>1
<1>10. IsFiniteSet(A \union B) /\ Cardinality(A \union B) <= (Max - 1) + Max
  BY <1>8, <1>9, SmallUnion
<1>11. Cardinality((A \union B) \union C) <= ((Max - 1) + Max) + (Max - 1)
  BY <1>8, <1>9, <1>10, SmallUnion
<1>12. Cardinality(S) <= 3 * Max - 2
  BY <1>2, <1>9, <1>11
<1> QED
  BY <1>12 DEF PassedIn

LEMMA LimitRefuses == ASSUME RateInv, LimitInv, [RateNext]_rateVars PROVE RefusedOnlyWhenFull
<1> SUFFICES ASSUME NEW r \in Requests, request[r] # NoRequest, request'[r] = NoRequest, passed' = passed
             PROVE  \E t \in Instants :
                      /\ request[r].now - t < Window
                      /\ \E p \in passed : p.client = request[r].key /\ p.at = t
                      /\ PassedIn(request[r].key, IF t > Delay THEN t - Delay ELSE 0, time) >= Max
  BY DEF RefusedOnlyWhenFull
<1>1. Allow(r)
  <2>1. ASSUME NEW q \in Requests, NEW c \in Clients, Arrive(q, c) PROVE FALSE
    <3>1. q # r /\ request' = [request EXCEPT ![q] = [key |-> c, now |-> time]]
      BY <2>1 DEF Arrive
    <3>2. request'[r] = request[r]
      BY <3>1 DEF RateInv, RateTypeOK
    <3> QED
      BY <3>2
  <2>2. ASSUME NEW q \in Requests, q # r, Allow(q) PROVE FALSE
    <3>1. request' = [request EXCEPT ![q] = NoRequest]
      BY <2>2 DEF Allow
    <3>2. request'[r] = request[r]
      BY <2>2, <3>1 DEF RateInv, RateTypeOK
    <3> QED
      BY <3>2
  <2> QED
    BY <2>1, <2>2 DEF RateNext, rateVars, SweepFires, Sweep, TimePasses
<1> DEFINE c == request[r].key
           t == buckets[c].windowStart
           lo == IF t > Delay THEN t - Delay ELSE 0
           S == {p \in passed : p.client = c /\ p.at \in lo .. time}
<1>2. /\ ~NewWindow(buckets[c], request[r].now) /\ Full(buckets[c])
      /\ c \in Clients /\ request[r].now \in Instants
  BY <1>1, LimitAllow DEF RateInv, RateTypeOK, WaitInv
<1>3. /\ buckets[c] # NoBucket
      /\ t \in Instants /\ request[r].now - t < Window
      /\ buckets[c].count \in Nat /\ buckets[c].count >= Max
  BY <1>2, RateAssumption DEF NewWindow, Full, RateInv, RateTypeOK, Instants
<1>4. /\ Cardinality(Counted(c, t)) = buckets[c].count
      /\ \E q \in Of(c) : q.at = t
  BY <1>2, <1>3 DEF LimitInv, BucketInv
<1>5. Counted(c, t) \subseteq S /\ S \subseteq passed
  <2> SUFFICES ASSUME NEW p \in Counted(c, t) PROVE p.at \in lo .. time
    BY DEF Counted
  <2>1. /\ p \in passed /\ p.of = t /\ p.at \in Nat /\ t \in Nat /\ time \in Nat /\ Delay \in Nat
    BY <1>3, RateAssumption DEF Counted, RateInv, RateTypeOK, Instants
  <2>2. p.at <= time /\ p.of <= p.at + Delay
    BY <2>1 DEF LimitInv, PlaceInv
  <2> HIDE DEF t, c
  <2> QED
    BY <2>1, <2>2
<1>6. Cardinality(S) >= Max
  <2> HIDE DEF S, t, c
  <2>1. IsFiniteSet(S) /\ Cardinality(S) \in Nat
    BY <1>5, FS_Subset, FS_CardinalityType DEF RateInv
  <2>2. Cardinality(Counted(c, t)) <= Cardinality(S)
    BY <1>5, <2>1, FS_Subset
  <2> QED
    BY <1>3, <1>4, <2>1, <2>2, RateAssumption
<1>7. \E p \in passed : p.client = c /\ p.at = t
  BY <1>4 DEF Of
<1> QED
  BY <1>3, <1>6, <1>7 DEF PassedIn

\* The limit holds both ways (Allow), for any clients, window and limit, when no
\* request waits for the lock longer than a window.
THEOREM LimitHolds == RateSpec => LimitHeld
<1>1. RateInit => RateInv /\ LimitInv
  BY RateInitial, LimitInitial
<1>2. RateInv /\ LimitInv /\ [RateNext]_rateVars => RateInv' /\ LimitInv'
  BY RateStep, LimitStep
<1>3. RateInv /\ LimitInv => ThreeWindows
  BY LimitThree
<1>4. RateInv /\ LimitInv /\ [RateNext]_rateVars => RefusedOnlyWhenFull
  BY LimitRefuses
<1> QED
  BY <1>1, <1>2, <1>3, <1>4, PTL DEF RateSpec, LimitHeld

-----------------------------------------------------------------------------
(* The analysis section.                                                   *)

Fetch == [n : 1 .. MaxSections, since : Times, stage : {"latest", "recent", "answer"}, data : Answers]
Kept == [at : Times, data : Answers]

\* The answer hangs together.
Tells(d) ==
    /\ \A e \in d.recent :
         e[1] = d.id => /\ d.incident.over => e[2].over
                        /\ d.incident.verdict => e[2].verdict
    /\ d.recent # {} /\ d.incident.over /\ ~d.incident.blip => \E e \in d.recent : e[1] >= d.id

\* The table has gone on from what an answer has read of its incident.
Read(d) ==
    /\ d.id \in DOMAIN rows
    /\ d.incident.over => rows[d.id].over
    /\ d.incident.verdict => rows[d.id].verdict
    /\ d.incident.over /\ ~d.incident.blip => ~rows[d.id].blip
    /\ d.recent = {}

FetchInv ==
    \A r \in fetches :
        /\ r.n <= section.n
        /\ r.since <= clock /\ clock <= r.since + RequestLimit
        /\ r.stage # "latest" => r.since <= r.data.asked
        /\ r.stage = "recent" => Read(r.data)
        /\ r.stage = "answer" => Tells(r.data)

CacheInv == \A c \in cache : Tells(c.data) /\ c.at <= c.data.asked + RequestLimit

ShownInv == section.state = "done" => Tells(section.data)

ViewInv ==
    /\ ViewTypeOK /\ FetchInv /\ CacheInv /\ ShownInv
    /\ ShownIsRecent /\ LoadingIsAwaited

\* The list has the newest of the rows that are no blips, if there is one.
LEMMA RecentHasNewest ==
    ASSUME rows \in Seq(Row), NEW id \in DOMAIN rows, ~rows[id].blip, RecentLimit \in Nat \ {0}
    PROVE  \E e \in Recent : e[1] >= id
<1> DEFINE ids == {i \in DOMAIN rows : ~rows[i].blip}
<1>1. ids \subseteq 0 .. Len(rows) /\ Len(rows) \in Nat /\ id \in ids
  BY LenProperties
<1>2. PICK m \in ids : \A i \in ids : i <= m
  <2> HIDE DEF ids
  <2> QED
    BY <1>1, GreatestNumber
<1>3. {j \in ids : j > m} = {}
  <2>1. m \in Int /\ \A j \in ids : j \in Int
    BY <1>1
  <2> QED
    BY <1>2, <2>1
<1>4. Cardinality({j \in ids : j > m}) < RecentLimit
  <2> DEFINE later == {j \in ids : j > m}
  <2>1. later = {} /\ Cardinality({}) = 0
    BY <1>3, FS_EmptySet
  <2> HIDE DEF later
  <2>2. Cardinality(later) < RecentLimit
    BY <2>1
  <2> QED
    BY <2>2 DEF later
<1>5. <<m, rows[m]>> \in Recent
  BY <1>2, <1>4 DEF Recent
<1> QED
  BY <1>1, <1>2, <1>5

LEMMA RecentType ==
    ASSUME rows \in Seq(Row)
    PROVE  /\ Recent \in SUBSET (Nat \X Row)
           /\ \A e \in Recent : e[1] \in DOMAIN rows /\ e[2] = rows[e[1]]
<1>1. DOMAIN rows \subseteq Nat /\ \A i \in DOMAIN rows : rows[i] \in Row
  BY LenProperties, ElementOfSeq
<1>2. \A e \in Recent : \E i \in DOMAIN rows : e = <<i, rows[i]>>
  BY DEF Recent
<1> QED
  BY <1>1, <1>2

LEMMA NoAnswerType == NoAnswer \in Answers /\ Tells(NoAnswer)
<1>1. 0 \in Times /\ NoIncident \in Row
  BY ViewAssumption DEF Times, NoIncident, Row
<1> QED
  BY <1>1 DEF NoAnswer, Answers, Tells, NoIncident

LEMMA ViewInitial == ViewInit => ViewInv
<1> SUFFICES ASSUME ViewInit PROVE ViewInv
  OBVIOUS
<1>1. 0 \in Times /\ 1 \in Times /\ 0 \in 0 .. MaxSections
  BY ViewAssumption DEF Times
<1>2. OldRow \in Row
  BY <1>1 DEF OldRow, Row
<1>3. rows \in Seq(Row)
  <2>1. <<OldRow>> \in Seq(Row)
    <3>1. Append(<<>>, OldRow) = <<OldRow>>
      OBVIOUS
    <3> QED
      BY <1>2, <3>1, EmptySeq, AppendProperties
  <2> QED
    BY <2>1, EmptySeq DEF ViewInit
<1>4. Cardinality({}) <= 1
  BY FS_EmptySet
<1>5. section \in Section
  BY <1>1, NoAnswerType DEF ViewInit, Section
<1>6. ViewTypeOK
  BY <1>1, <1>3, <1>4, <1>5 DEF ViewInit, ViewTypeOK
<1>7. FetchInv /\ CacheInv /\ ShownInv /\ ShownIsRecent /\ LoadingIsAwaited
  BY DEF ViewInit, FetchInv, CacheInv, ShownInv, ShownIsRecent, LoadingIsAwaited
<1> QED
  BY <1>6, <1>7 DEF ViewInv

-----------------------------------------------------------------------------
\* What any step does to the rows: none goes, and what is said of an outage that
\* is over, and its verdict, stays.
RowsGoOn ==
    /\ rows' \in Seq(Row)
    /\ DOMAIN rows \subseteq DOMAIN rows'
    /\ \A i \in DOMAIN rows :
         /\ rows[i].over => rows'[i].over
         /\ rows[i].verdict => rows'[i].verdict
         /\ rows[i].over => rows'[i].blip = rows[i].blip

LEMMA OneRow ==
    ASSUME rows \in Seq(Row), NEW i \in DOMAIN rows, NEW row \in Row,
           rows' = [rows EXCEPT ![i] = row],
           rows[i].over => row.over /\ row.blip = rows[i].blip, rows[i].verdict => row.verdict
    PROVE  RowsGoOn
<1>1. i \in 1 .. Len(rows)
  BY LenProperties
<1>2. rows' \in Seq(Row) /\ DOMAIN rows' = DOMAIN rows
  BY <1>1, ExceptSeq
<1> QED
  BY <1>2 DEF RowsGoOn

LEMMA OutageRows ==
    ASSUME ViewTypeOK, OutageBegins \/ OutageEnds \/ \E i \in DOMAIN rows : SaveVerdict(i)
    PROVE  RowsGoOn /\ UNCHANGED <<clock, fetches, cache, section>>
<1>1. rows \in Seq(Row) /\ clock \in Times
  BY DEF ViewTypeOK
<1>2. CASE OutageBegins
  <2> DEFINE row == [start |-> clock, over |-> FALSE, blip |-> FALSE, verdict |-> FALSE]
  <2>1. row \in Row /\ rows' = Append(rows, row)
    BY <1>1, <1>2 DEF OutageBegins, Row
  <2> HIDE DEF row
  <2>2. rows' \in Seq(Row) /\ DOMAIN rows' = 1 .. Len(rows) + 1 /\ DOMAIN rows = 1 .. Len(rows)
        /\ \A i \in 1 .. Len(rows) : rows'[i] = rows[i]
    BY <1>1, <2>1, AppendProperties, LenProperties
  <2>3. Len(rows) \in Nat
    BY <1>1, LenProperties
  <2> QED
    BY <1>2, <2>2, <2>3 DEF OutageBegins, RowsGoOn
<1>3. CASE OutageEnds
  <2> DEFINE n == Len(rows)
             row == [rows[n] EXCEPT !.over = TRUE, !.blip = clock < rows[n].start + BlipLimit]
  <2>1. n \in DOMAIN rows /\ ~rows[n].over /\ rows[n] \in Row
    BY <1>1, <1>3, LenProperties, ElementOfSeq, EmptySeq DEF OutageEnds, OutageLasts
  <2>2. (clock < rows[n].start + BlipLimit) \in BOOLEAN
    OBVIOUS
  <2>3. row \in Row /\ row.verdict = rows[n].verdict
    BY <2>1, <2>2 DEF Row
  <2>4. rows' = [rows EXCEPT ![n] = row]
    BY <1>3, <2>1 DEF OutageEnds
  <2> HIDE DEF row, n
  <2> QED
    BY <1>1, <1>3, <2>1, <2>3, <2>4, OneRow DEF OutageEnds
<1>4. CASE \E i \in DOMAIN rows : SaveVerdict(i)
  <2>1. PICK i \in DOMAIN rows : SaveVerdict(i)
    BY <1>4
  <2> DEFINE row == [rows[i] EXCEPT !.verdict = TRUE]
  <2>2. rows[i] \in Row
    BY <1>1, ElementOfSeq, LenProperties
  <2>3. row \in Row /\ row.verdict /\ row.over = rows[i].over /\ row.blip = rows[i].blip
    BY <2>2 DEF Row
  <2>4. rows' = [rows EXCEPT ![i] = row]
    BY <2>1 DEF SaveVerdict
  <2> HIDE DEF row
  <2> QED
    BY <1>1, <2>1, <2>3, <2>4, OneRow DEF SaveVerdict
<1> QED
  BY <1>2, <1>3, <1>4

LEMMA OutageKeeps ==
    ASSUME ViewInv, OutageBegins \/ OutageEnds \/ \E i \in DOMAIN rows : SaveVerdict(i)
    PROVE  ViewInv'
<1>1. RowsGoOn /\ UNCHANGED <<clock, fetches, cache, section>>
  BY OutageRows DEF ViewInv
<1>2. ViewTypeOK'
  BY <1>1 DEF ViewInv, ViewTypeOK, RowsGoOn
<1>3. \A d : Read(d) => Read(d)'
  BY <1>1 DEF Read, RowsGoOn
<1>4. FetchInv'
  BY <1>1, <1>3 DEF ViewInv, FetchInv, Tells
<1>5. CacheInv' /\ ShownInv' /\ ShownIsRecent' /\ LoadingIsAwaited'
  BY <1>1 DEF ViewInv, CacheInv, ShownInv, ShownIsRecent, LoadingIsAwaited, Tells
<1> QED
  BY <1>2, <1>4, <1>5 DEF ViewInv

LEMMA TickKeeps == ASSUME ViewInv, Tick PROVE ViewInv'
<1> USE ViewAssumption
<1>1. /\ clock \in Nat /\ clock < MaxClock /\ clock' = clock + 1
      /\ \A r \in fetches : clock < r.since + RequestLimit
      /\ UNCHANGED <<rows, fetches, cache, section>>
  BY DEF Tick, ViewInv, ViewTypeOK, Times
<1>2. clock' \in Times
  BY <1>1 DEF Times
<1>3. ViewTypeOK'
  BY <1>1, <1>2 DEF ViewInv, ViewTypeOK
<1>4. FetchInv'
  <2> SUFFICES ASSUME NEW r \in fetches
               PROVE  /\ r.n <= section.n
                      /\ r.since <= clock' /\ clock' <= r.since + RequestLimit
                      /\ r.stage # "latest" => r.since <= r.data.asked
                      /\ r.stage = "recent" => Read(r.data)'
                      /\ r.stage = "answer" => Tells(r.data)'
    BY <1>1 DEF FetchInv
  <2>1. r.since \in Nat
    BY DEF ViewInv, ViewTypeOK, Times
  <2>2. r.since <= clock
    BY DEF ViewInv, FetchInv
  <2>3. r.since <= clock' /\ clock' <= r.since + RequestLimit
    BY <1>1, <2>1, <2>2
  <2> QED
    BY <1>1, <2>3 DEF ViewInv, FetchInv, Read, Tells
<1>5. CacheInv' /\ ShownInv' /\ ShownIsRecent' /\ LoadingIsAwaited'
  BY <1>1 DEF ViewInv, CacheInv, ShownInv, ShownIsRecent, LoadingIsAwaited, Tells
<1> QED
  BY <1>3, <1>4, <1>5 DEF ViewInv

-----------------------------------------------------------------------------
\* A request that is answered in part.
LEMMA MovesKeeps ==
    ASSUME ViewInv, NEW r \in fetches, NEW stage \in {"recent", "answer"}, NEW data \in Answers,
           Moves(r, stage, data), UNCHANGED <<serverVars, cache, section>>,
           r.since <= data.asked,
           stage = "recent" => Read(data), stage = "answer" => Tells(data)
    PROVE  ViewInv'
<1> DEFINE q == [r EXCEPT !.stage = stage, !.data = data]
<1>1. fetches' = (fetches \ {r}) \union {q} /\ UNCHANGED <<clock, rows, cache, section>>
  BY DEF Moves, serverVars
<1>2. r \in Fetch
  BY DEF ViewInv, ViewTypeOK, Fetch
<1>3. q \in Fetch /\ q.n = r.n /\ q.since = r.since /\ q.stage = stage /\ q.data = data
  BY <1>2 DEF Fetch
<1> HIDE DEF q
<1>4. ViewTypeOK'
  BY <1>1, <1>3 DEF ViewInv, ViewTypeOK, Fetch
<1>5. FetchInv'
  BY <1>1, <1>3 DEF ViewInv, FetchInv, Read, Tells
<1>6. LoadingIsAwaited'
  BY <1>1, <1>3 DEF ViewInv, LoadingIsAwaited
<1>7. CacheInv' /\ ShownInv' /\ ShownIsRecent'
  BY <1>1 DEF ViewInv, CacheInv, ShownInv, ShownIsRecent, Tells
<1> QED
  BY <1>4, <1>5, <1>6, <1>7 DEF ViewInv

LEMMA ReadLatestKeeps == ASSUME ViewInv, NEW r \in fetches, ReadLatest(r) PROVE ViewInv'
<1>1. /\ clock \in Times /\ clock \in Nat /\ rows \in Seq(Row)
      /\ r.since <= clock
      /\ UNCHANGED <<serverVars, cache, section>>
  BY DEF ReadLatest, ViewInv, ViewTypeOK, FetchInv, Times
<1>2. CASE rows = <<>>
  <2> DEFINE data == [NoAnswer EXCEPT !.asked = clock]
  <2>1. data \in Answers /\ data.asked = clock /\ Tells(data)
    BY <1>1, NoAnswerType DEF Answers, Tells, NoAnswer
  <2>2. Moves(r, "answer", data)
    BY <1>2 DEF ReadLatest
  <2> HIDE DEF data
  <2> QED
    BY <1>1, <2>1, <2>2, MovesKeeps
<1>3. CASE rows # <<>>
  <2> DEFINE id == Len(rows)
             pending == Pending(rows[id])
             data == [asked |-> clock, id |-> id, incident |-> rows[id],
                      pending |-> pending, recent |-> {}]
  <2>1. id \in DOMAIN rows /\ id \in Nat /\ rows[id] \in Row
    BY <1>1, <1>3, LenProperties, ElementOfSeq, EmptySeq
  <2>2. pending \in BOOLEAN
    BY DEF Pending
  <2>3. Moves(r, "recent", data)
    BY <1>3 DEF ReadLatest
  <2> HIDE DEF id, pending
  <2>4. data \in Answers /\ data.asked = clock /\ Read(data)
    BY <1>1, <2>1, <2>2 DEF Answers, Read
  <2> HIDE DEF data
  <2> QED
    BY <1>1, <2>3, <2>4, MovesKeeps
<1> QED
  BY <1>2, <1>3

LEMMA ReadRecentKeeps == ASSUME ViewInv, NEW r \in fetches, ReadRecent(r) PROVE ViewInv'
<1>1. /\ rows \in Seq(Row) /\ r \in Fetch /\ r.stage = "recent"
      /\ Read(r.data) /\ r.since <= r.data.asked
      /\ UNCHANGED <<serverVars, cache, section>>
  BY DEF ReadRecent, ViewInv, ViewTypeOK, FetchInv, Fetch
<1>2. PICK list \in {Recent, {}} : Moves(r, "answer", [r.data EXCEPT !.recent = list])
  BY DEF ReadRecent
<1>3. list \in SUBSET (Nat \X Row) /\ \A e \in list : e[1] \in DOMAIN rows /\ e[2] = rows[e[1]]
  BY <1>1, RecentType
<1> DEFINE data == [r.data EXCEPT !.recent = list]
<1>4. /\ data \in Answers /\ data.asked = r.data.asked /\ data.id = r.data.id
      /\ data.incident = r.data.incident /\ data.recent = list
  BY <1>1, <1>3 DEF Fetch, Answers
<1> HIDE DEF data
<1>5. Tells(data)
  <2>1. ASSUME NEW e \in list, e[1] = data.id
        PROVE (data.incident.over => e[2].over) /\ (data.incident.verdict => e[2].verdict)
    BY <1>1, <1>3, <1>4, <2>1 DEF Read
  <2>2. ASSUME list # {}, data.incident.over, ~data.incident.blip
        PROVE  \E e \in list : e[1] >= data.id
    <3>1. list = Recent
      BY <2>2
    <3>2. data.id \in DOMAIN rows /\ ~rows[data.id].blip
      BY <1>1, <1>4, <2>2 DEF Read
    <3> QED
      BY <1>1, <3>1, <3>2, RecentHasNewest, ViewAssumption
  <2> QED
    BY <1>4, <2>1, <2>2 DEF Tells
<1>6. Moves(r, "answer", data)
  BY <1>2 DEF data
<1> QED
  BY <1>1, <1>4, <1>5, <1>6, MovesKeeps

\* One request less; its section has noticed, if it still waited.
LEMMA SettledFetch ==
    ASSUME ViewInv, NEW r \in fetches, fetches' = fetches \ {r}, section'.n = section.n,
           section'.state = "loading" => section.state = "loading" /\ ~Awaited(r)
    PROVE  LoadingIsAwaited'
BY DEF ViewInv, LoadingIsAwaited, Awaited

LEMMA OneAnswerCached ==
    ASSUME NEW data \in Answers, clock \in Times
    PROVE  Cached(data) \in SUBSET [at : Times, data : Answers] /\ Cardinality(Cached(data)) <= 1
<1> DEFINE c == [at |-> clock, data |-> data]
<1>1. c \in [at : Times, data : Answers]
  OBVIOUS
<1> HIDE DEF c
<1>2. Cardinality({c}) = 1
  BY FS_Singleton
<1>3. Cached(data) = {c}
  BY DEF Cached, c
<1> QED
  BY <1>1, <1>2, <1>3

LEMMA ArrivesKeeps == ASSUME ViewInv, NEW r \in fetches, Arrives(r) PROVE ViewInv'
<1>1. /\ r \in Fetch /\ Tells(r.data) /\ r.since <= r.data.asked /\ clock <= r.since + RequestLimit
      /\ clock \in Times /\ section \in Section
      /\ fetches' = fetches \ {r} /\ cache' = Cached(r.data)
      /\ UNCHANGED <<clock, rows>>
  BY DEF Arrives, ViewInv, ViewTypeOK, FetchInv, Fetch, serverVars
<1>2. /\ r.data \in Answers /\ r.data.asked \in Nat /\ r.since \in Nat /\ clock \in Nat
      /\ RequestLimit \in Nat /\ CacheTTL \in Nat \ {0}
  BY <1>1, ViewAssumption DEF Fetch, Answers, Times
<1>3. clock <= r.data.asked + RequestLimit
  BY <1>1, <1>2
<1>4. CASE Awaited(r)
  <2>1. section' = [section EXCEPT !.state = "done", !.data = r.data, !.shownAt = clock]
    BY <1>4 DEF Arrives
  <2>2. /\ section' \in Section /\ section'.n = section.n /\ section'.state = "done"
        /\ section'.data = r.data /\ section'.shownAt = clock
    BY <1>1, <1>2, <2>1 DEF Section
  <2>3. ViewTypeOK'
    <3>1. cache' \in SUBSET [at : Times, data : Answers] /\ Cardinality(cache') <= 1
      BY <1>1, <1>2, OneAnswerCached
    <3> QED
      BY <1>1, <2>2, <3>1 DEF ViewInv, ViewTypeOK
  <2>4. FetchInv'
    BY <1>1, <2>2 DEF ViewInv, FetchInv, Read, Tells
  <2>5. CacheInv'
    BY <1>1, <1>3 DEF CacheInv, Cached, Tells
  <2>6. ShownInv' /\ LoadingIsAwaited'
    BY <1>1, <2>2 DEF ShownInv, LoadingIsAwaited, Tells
  <2>7. ShownIsRecent'
    BY <1>2, <1>3, <2>2 DEF ShownIsRecent
  <2> QED
    BY <2>3, <2>4, <2>5, <2>6, <2>7 DEF ViewInv
<1>5. CASE ~Awaited(r)
  <2>1. section' = section
    BY <1>5 DEF Arrives
  <2>2. ViewTypeOK'
    <3>1. cache' \in SUBSET [at : Times, data : Answers] /\ Cardinality(cache') <= 1
      BY <1>1, <1>2, OneAnswerCached
    <3> QED
      BY <1>1, <2>1, <3>1 DEF ViewInv, ViewTypeOK
  <2>3. FetchInv'
    BY <1>1, <2>1 DEF ViewInv, FetchInv, Read, Tells
  <2>4. CacheInv'
    BY <1>1, <1>3 DEF CacheInv, Cached, Tells
  <2>5. LoadingIsAwaited'
    BY <1>1, <1>5, <2>1, SettledFetch
  <2>6. ShownInv' /\ ShownIsRecent'
    BY <2>1 DEF ViewInv, ShownInv, ShownIsRecent, Tells
  <2> QED
    BY <2>2, <2>3, <2>4, <2>5, <2>6 DEF ViewInv
<1> QED
  BY <1>4, <1>5

LEMMA FailsKeeps == ASSUME ViewInv, NEW r \in fetches, Fails(r) PROVE ViewInv'
<1>1. /\ section \in Section /\ fetches' = fetches \ {r}
      /\ UNCHANGED <<clock, rows, cache>>
      /\ section' = IF Awaited(r) THEN [section EXCEPT !.state = "error"] ELSE section
  BY DEF Fails, ViewInv, ViewTypeOK, serverVars
<1>2. /\ section' \in Section /\ section'.n = section.n
      /\ section'.state = IF Awaited(r) THEN "error" ELSE section.state
      /\ section'.data = section.data /\ section'.shownAt = section.shownAt
  BY <1>1 DEF Section
<1>3. ViewTypeOK'
  BY <1>1, <1>2 DEF ViewInv, ViewTypeOK
<1>4. FetchInv'
  BY <1>1, <1>2 DEF ViewInv, FetchInv, Read, Tells
<1>5. CacheInv' /\ ShownInv' /\ ShownIsRecent'
  BY <1>1, <1>2 DEF ViewInv, CacheInv, ShownInv, ShownIsRecent, Tells
<1>6. LoadingIsAwaited'
  BY <1>1, <1>2, SettledFetch
<1> QED
  BY <1>3, <1>4, <1>5, <1>6 DEF ViewInv

LEMMA NewSectionFacts ==
    ASSUME ViewInv, NEW state \in {"idle", "loading", "error", "done"}, NEW data \in Answers,
           NewSection(state, data)
    PROVE  /\ section' \in Section /\ section.n \in Nat /\ section'.n = section.n + 1
           /\ section'.n \in 1 .. MaxSections
           /\ section'.state = state /\ section'.data = data /\ section'.shownAt = clock
<1>1. section.n \in Nat /\ section.n < MaxSections /\ clock \in Times /\ MaxSections \in Nat
  BY ViewAssumption DEF NewSection, ViewInv, ViewTypeOK, Section
<1>2. section' = [n |-> section.n + 1, state |-> state, data |-> data, shownAt |-> clock]
  BY DEF NewSection
<1>3. section.n + 1 \in 1 .. MaxSections /\ section.n + 1 \in 0 .. MaxSections
  BY <1>1
<1> QED
  BY <1>1, <1>2, <1>3 DEF Section

LEMMA ClickCachedKeeps == ASSUME ViewInv, ClickCached PROVE ViewInv'
<1>1. PICK hit \in Fresh : NewSection("done", hit.data)
  BY DEF ClickCached
<1>2. /\ hit \in cache /\ clock - hit.at < CacheTTL /\ hit \in Kept
      /\ Tells(hit.data) /\ hit.at <= hit.data.asked + RequestLimit
      /\ UNCHANGED <<clock, rows, fetches, cache>>
  BY DEF ClickCached, Fresh, ViewInv, ViewTypeOK, CacheInv, Kept, serverVars
<1>3. /\ hit.data \in Answers /\ hit.data.asked \in Nat /\ hit.at \in Nat /\ clock \in Nat
      /\ CacheTTL \in Nat /\ RequestLimit \in Nat
  BY <1>2, ViewAssumption DEF Kept, Answers, Times, ViewInv, ViewTypeOK
<1>4. /\ section' \in Section /\ section.n \in Nat /\ section'.n = section.n + 1
      /\ section'.state = "done" /\ section'.data = hit.data /\ section'.shownAt = clock
  BY <1>1, <1>3, NewSectionFacts
<1>5. ViewTypeOK'
  BY <1>2, <1>4 DEF ViewInv, ViewTypeOK
<1>6. FetchInv'
  <2>1. \A r \in fetches : r.n \in Nat
    BY DEF ViewInv, ViewTypeOK
  <2>2. \A r \in fetches : r.n <= section'.n
    BY <2>1, <1>4 DEF ViewInv, FetchInv
  <2> QED
    BY <1>2, <2>2 DEF ViewInv, FetchInv, Read, Tells
<1>7. CacheInv' /\ ShownInv' /\ LoadingIsAwaited'
  BY <1>2, <1>4 DEF ViewInv, CacheInv, ShownInv, LoadingIsAwaited, Tells
<1>8. ShownIsRecent'
  <2>1. clock - hit.data.asked < RequestLimit + CacheTTL
    BY <1>2, <1>3
  <2> QED
    BY <2>1, <1>4 DEF ShownIsRecent
<1> QED
  BY <1>5, <1>6, <1>7, <1>8 DEF ViewInv

LEMMA ClickFetchesKeeps == ASSUME ViewInv, ClickFetches PROVE ViewInv'
<1> DEFINE q == [n |-> section'.n, since |-> clock, stage |-> "latest", data |-> NoAnswer]
<1>1. /\ clock \in Times /\ clock \in Nat
      /\ UNCHANGED <<clock, rows, cache>> /\ fetches' = fetches \union {q}
  BY DEF ClickFetches, serverVars, ViewInv, ViewTypeOK, Times
<1>2. /\ section' \in Section /\ section.n \in Nat /\ section'.n = section.n + 1
      /\ section'.n \in 1 .. MaxSections
      /\ section'.state = "loading"
  BY NoAnswerType, NewSectionFacts DEF ClickFetches
<1>3. q \in Fetch /\ q.n = section'.n /\ q.since = clock /\ q.stage = "latest"
  BY <1>1, <1>2, NoAnswerType DEF Fetch
<1> HIDE DEF q
<1>4. ViewTypeOK'
  BY <1>1, <1>2, <1>3 DEF ViewInv, ViewTypeOK, Fetch
<1>5. FetchInv'
  <2>1. \A r \in fetches : r.n \in Nat
    BY DEF ViewInv, ViewTypeOK
  <2>2. \A r \in fetches : r.n <= section'.n
    BY <2>1, <1>2 DEF ViewInv, FetchInv
  <2>3. clock <= clock + RequestLimit
    BY <1>1, ViewAssumption
  <2> QED
    BY <1>1, <1>2, <1>3, <2>2, <2>3 DEF ViewInv, FetchInv, Read, Tells
<1>6. CacheInv' /\ ShownInv' /\ ShownIsRecent' /\ LoadingIsAwaited'
  BY <1>1, <1>2, <1>3 DEF ViewInv, CacheInv, ShownInv, ShownIsRecent, LoadingIsAwaited, Tells
<1> QED
  BY <1>4, <1>5, <1>6 DEF ViewInv

LEMMA ViewStep == ViewInv /\ [ViewNext]_viewVars => ViewInv'
<1> SUFFICES ASSUME ViewInv, [ViewNext]_viewVars PROVE ViewInv'
  OBVIOUS
<1>1. CASE UNCHANGED viewVars
  <2>1. UNCHANGED <<clock, rows, fetches, cache, section>>
    BY <1>1 DEF viewVars, serverVars
  <2> QED
    BY <2>1 DEF ViewInv, ViewTypeOK, FetchInv, CacheInv, ShownInv, ShownIsRecent,
                LoadingIsAwaited, Tells, Read
<1>2. CASE ViewNext
  BY <1>2, OutageKeeps, TickKeeps, ReadLatestKeeps, ReadRecentKeeps, ArrivesKeeps, FailsKeeps,
     ClickCachedKeeps, ClickFetchesKeeps DEF ViewNext, FetchSettles
<1> QED
  BY <1>1, <1>2

\* The section of the dialog does not wait for a request that has ended, and what
\* it shows is no older than a request and a CACHE_TTL (AiAnalysisSection.jsx).
THEOREM SectionKeeps == ViewSpec => [](ViewTypeOK /\ SectionKeepsUp)
<1>1. ViewInit => ViewInv
  BY ViewInitial
<1>2. ViewInv /\ [ViewNext]_viewVars => ViewInv'
  BY ViewStep
<1>3. ViewInv => ViewTypeOK /\ SectionKeepsUp
  BY DEF ViewInv, SectionKeepsUp
<1> QED
  BY <1>1, <1>2, <1>3, PTL DEF ViewSpec

\* An answer hangs together, though the handler reads its parts one after the
\* other while outages go on (httpapi/incidents.go).
THEOREM AnswerHangsTogether == ViewSpec => []ListKnowsIncident
<1>1. ViewInit => ViewInv
  BY ViewInitial
<1>2. ViewInv /\ [ViewNext]_viewVars => ViewInv'
  BY ViewStep
<1>3. ViewInv => ListKnowsIncident
  BY DEF ViewInv, ShownInv, Tells, ListKnowsIncident
<1> QED
  BY <1>1, <1>2, <1>3, PTL DEF ViewSpec

-----------------------------------------------------------------------------
(* What flags a message.                                                   *)

\* What Normal may leave of a text.
Readable == Letters \union (Blanks \ Separators)

LEMMA Cases ==
    /\ \A c \in Readable : Lower(c) = c /\ c \notin DOMAIN Upper /\ c \notin Separators
    /\ \A c \in Separators : Lower(c) = c /\ c \notin DOMAIN Upper
    /\ \A c \in Chars : Lower(c) \in Readable <=> c \notin Separators
    /\ \A c \in Chars : Lower(c) \in Separators <=> c \in Separators
<1>1. \A c \in Readable : Lower(c) = c /\ c \notin DOMAIN Upper /\ c \notin Separators
  BY ProfanityAssumption DEF Lower, Readable
<1>2. \A c \in Separators : Lower(c) = c /\ c \notin DOMAIN Upper /\ c \notin Readable
  BY ProfanityAssumption DEF Lower, Readable
<1>3. \A c \in DOMAIN Upper : Lower(c) \in Readable /\ c \notin Separators /\ Lower(c) \notin Separators
  BY ProfanityAssumption DEF Lower, Readable
<1>4. \A c \in Chars : c \in Readable \/ c \in Separators \/ c \in DOMAIN Upper
  BY DEF Chars, Readable
<1> QED
  BY <1>1, <1>2, <1>3, <1>4

Writes(norm, text, n) ==
    norm = [m \in 0 .. n |->
              IF m = 0 THEN <<>>
              ELSE IF Lower(text[m]) \in Separators THEN norm[m - 1]
              ELSE Append(norm[m - 1], Lower(text[m]))]

\* The recursion of Normal defines a function.
LEMMA NormalDefined ==
    ASSUME NEW text, NEW length \in Nat, Len(text) = length
    PROVE  \E norm : /\ Normal(text) = norm[length] /\ norm[0] = <<>>
                     /\ \A n \in 1 .. length :
                          norm[n] = IF Lower(text[n]) \in Separators THEN norm[n - 1]
                                    ELSE Append(norm[n - 1], Lower(text[n]))
<1> DEFINE Next(before, m) == IF Lower(text[m]) \in Separators THEN before
                              ELSE Append(before, Lower(text[m]))
           T == {n \in Nat : ~ \E g : Writes(g, text, n)}
<1>0. \A g, n : Writes(g, text, n) <=>
                  g = [m \in 0 .. n |-> IF m = 0 THEN <<>> ELSE Next(g[m - 1], m)]
  BY DEF Writes
<1> HIDE DEF Next
<1>1. T = {}
  <2> SUFFICES ASSUME T # {} PROVE FALSE
    OBVIOUS
  <2>1. PICK n \in T : \A m \in T : n <= m
    BY LeastNumber
  <2>2. CASE n = 0
    <3> DEFINE g == [m \in 0 .. 0 |-> <<>>]
    <3>1. g = [m \in 0 .. 0 |-> IF m = 0 THEN <<>> ELSE Next(g[m - 1], m)]
      <4>1. \A m \in 0 .. 0 : m = 0
        OBVIOUS
      <4> QED
        BY <4>1
    <3>2. Writes(g, text, 0)
      <4> HIDE DEF g
      <4> QED
        BY <1>0, <3>1
    <3> QED
      BY <2>1, <2>2, <3>2
  <2>3. CASE n # 0
    <3>1. n \in Nat /\ n - 1 \in Nat /\ n - 1 \notin T
      BY <2>1, <2>3
    <3>2. PICK g : Writes(g, text, n - 1)
      BY <3>1
    <3> DEFINE h == [m \in 0 .. n |-> IF m = n THEN Next(g[n - 1], n) ELSE g[m]]
    <3>3. \A m \in 0 .. n - 1 : g[m] = IF m = 0 THEN <<>> ELSE Next(g[m - 1], m)
      <4>1. g = [m \in 0 .. n - 1 |-> IF m = 0 THEN <<>> ELSE Next(g[m - 1], m)]
        BY <1>0, <3>2
      <4> QED
        BY <4>1
    <3>4. ASSUME NEW m \in 0 .. n
          PROVE  h[m] = IF m = 0 THEN <<>> ELSE Next(h[m - 1], m)
      <4>1. CASE m = n
        <5>1. h[m - 1] = g[n - 1] /\ h[m] = Next(g[n - 1], n)
          BY <3>1, <4>1
        <5> QED
          BY <2>3, <4>1, <5>1
      <4>2. CASE m # n
        <5>1. m \in 0 .. n - 1 /\ h[m] = g[m]
          BY <3>1, <4>2
        <5>2. m # 0 => h[m - 1] = g[m - 1]
          BY <3>1, <4>2
        <5> HIDE DEF h
        <5> QED
          BY <3>3, <5>1, <5>2
      <4> QED
        BY <4>1, <4>2
    <3>5. h = [m \in 0 .. n |-> IF m = 0 THEN <<>> ELSE Next(h[m - 1], m)]
      <4>1. h = [m \in 0 .. n |-> h[m]]
        OBVIOUS
      <4> HIDE DEF h
      <4> QED
        BY <3>4, <4>1
    <3>6. Writes(h, text, n)
      <4> HIDE DEF h
      <4> QED
        BY <1>0, <3>5
    <3> QED
      BY <2>1, <3>6
  <2> QED
    BY <2>2, <2>3
<1>2. PICK g : Writes(g, text, length)
  BY <1>1
<1> DEFINE norm == CHOOSE r : Writes(r, text, length)
<1>3. Normal(text) = norm[length]
  BY DEF Normal, Writes
<1>4. Writes(norm, text, length)
  BY <1>2
<1> HIDE DEF norm
<1>5. norm = [m \in 0 .. length |-> IF m = 0 THEN <<>> ELSE Next(norm[m - 1], m)]
  BY <1>0, <1>4
<1>6. norm[0] = <<>> /\ \A n \in 1 .. length : norm[n] = Next(norm[n - 1], n)
  BY <1>5
<1> QED
  BY <1>3, <1>6 DEF Next

\* The k-th character of word is the one at place[k] of the first n of the text,
\* in lower case, and nothing but separators is left out.
Places(place, word, text, n) ==
    /\ word \in Seq(Readable)
    /\ place \in [1 .. Len(word) -> 1 .. n]
    /\ \A k \in 1 .. Len(word) : text[place[k]] \notin Separators /\ word[k] = Lower(text[place[k]])
    /\ \A k, l \in 1 .. Len(word) : k < l => place[k] < place[l]
    /\ \A i \in 1 .. n : text[i] \notin Separators => \E k \in 1 .. Len(word) : place[k] = i

LEMMA PlacesGrow ==
    ASSUME NEW text, NEW n \in Nat, text[n + 1] \in Chars, NEW word, NEW place,
           Places(place, word, text, n),
           NEW next, next = IF Lower(text[n + 1]) \in Separators THEN word
                            ELSE Append(word, Lower(text[n + 1]))
    PROVE  \E p : Places(p, next, text, n + 1)
<1>1. CASE text[n + 1] \in Separators
  <2>1. next = word
    BY <1>1, Cases
  <2>2. Places(place, word, text, n + 1)
    <3>1. /\ place \in [1 .. Len(word) -> 1 .. n + 1]
      BY DEF Places
    <3>2. \A i \in 1 .. n + 1 : text[i] \notin Separators => i \in 1 .. n
      BY <1>1
    <3> QED
      BY <3>1, <3>2 DEF Places
  <2> QED
    BY <2>1, <2>2
<1>2. CASE text[n + 1] \notin Separators
  <2> DEFINE c == Lower(text[n + 1])
             len == Len(word)
  <2>1. next = Append(word, c) /\ c \in Readable
    BY <1>2, Cases
  <2>2. word \in Seq(Readable) /\ len \in Nat
    BY LenProperties DEF Places
  <2>3. /\ next \in Seq(Readable) /\ Len(next) = len + 1
        /\ \A k \in 1 .. len : next[k] = word[k]
        /\ next[len + 1] = c
    <3> HIDE DEF c
    <3> QED
      BY <2>1, <2>2, AppendProperties
  <2> DEFINE p == [k \in 1 .. len + 1 |-> IF k = len + 1 THEN n + 1 ELSE place[k]]
  <2>4. /\ \A k \in 1 .. len : place[k] \in 1 .. n
        /\ \A k \in 1 .. len : text[place[k]] \notin Separators /\ word[k] = Lower(text[place[k]])
        /\ \A k, l \in 1 .. len : k < l => place[k] < place[l]
        /\ \A i \in 1 .. n : text[i] \notin Separators => \E k \in 1 .. len : place[k] = i
    BY DEF Places
  <2>5. /\ \A k \in 1 .. len : p[k] = place[k]
        /\ p[len + 1] = n + 1
        /\ p \in [1 .. len + 1 -> 1 .. n + 1]
        /\ \A k \in 1 .. len + 1 : k \in 1 .. len \/ k = len + 1
        /\ \A i \in 1 .. n + 1 : i \in 1 .. n \/ i = n + 1
        /\ \A k \in 1 .. len : k \in 1 .. len + 1
        /\ len + 1 \in 1 .. len + 1
    BY <2>2, <2>4
  <2> HIDE DEF p, len, c
  <2>6. \A k \in 1 .. len + 1 : text[p[k]] \notin Separators /\ next[k] = Lower(text[p[k]])
    BY <1>2, <2>3, <2>4, <2>5 DEF c
  <2>7. \A k, l \in 1 .. len + 1 : k < l => p[k] < p[l]
    <3> TAKE k, l \in 1 .. len + 1
    <3> HAVE k < l
    <3>1. k \in 1 .. len
      BY <2>2
    <3>2. CASE l \in 1 .. len
      BY <2>4, <2>5, <3>1, <3>2
    <3>3. CASE l = len + 1
      <4>1. place[k] \in 1 .. n /\ p[k] = place[k] /\ p[l] = n + 1
        BY <2>4, <2>5, <3>1, <3>3
      <4> QED
        BY <4>1
    <3> QED
      BY <2>5, <3>2, <3>3
  <2>8. \A i \in 1 .. n + 1 : text[i] \notin Separators => \E k \in 1 .. len + 1 : p[k] = i
    <3> TAKE i \in 1 .. n + 1
    <3> HAVE text[i] \notin Separators
    <3>1. CASE i = n + 1
      BY <2>5, <3>1
    <3>2. CASE i \in 1 .. n
      <4>1. PICK k \in 1 .. len : place[k] = i
        BY <2>4, <3>2
      <4> QED
        BY <2>5, <4>1
    <3> QED
      BY <2>5, <3>1, <3>2
  <2>9. Places(p, next, text, n + 1)
    BY <2>3, <2>5, <2>6, <2>7, <2>8 DEF Places
  <2> QED
    BY <2>9
<1> QED
  BY <1>1, <1>2

LEMMA NormalPlaces ==
    ASSUME NEW text \in Seq(Chars)
    PROVE  \E p : Places(p, Normal(text), text, Len(text))
<1> DEFINE length == Len(text)
<1>1. length \in Nat /\ \A i \in 1 .. length : text[i] \in Chars
  BY LenProperties, ElementOfSeq
<1>2. PICK norm : /\ Normal(text) = norm[length] /\ norm[0] = <<>>
                  /\ \A n \in 1 .. length :
                       norm[n] = IF Lower(text[n]) \in Separators THEN norm[n - 1]
                                 ELSE Append(norm[n - 1], Lower(text[n]))
  BY <1>1, NormalDefined
<1> HIDE DEF length
<1> DEFINE T == {n \in 0 .. length : ~ \E p : Places(p, norm[n], text, n)}
<1>3. T = {}
  <2> SUFFICES ASSUME T # {} PROVE FALSE
    OBVIOUS
  <2>1. PICK n \in T : \A m \in T : n <= m
    <3>1. T \in SUBSET Nat
      OBVIOUS
    <3> HIDE DEF T
    <3> QED
      BY <3>1, LeastNumber
  <2>2. n \in 0 .. length /\ ~ \E p : Places(p, norm[n], text, n)
    OBVIOUS
  <2>3. CASE n = 0
    <3>1. <<>> \in Seq(Readable) /\ Len(<<>>) = 0 /\ 1 .. 0 = {}
      BY EmptySeq
    <3> DEFINE p == [k \in {} |-> 0]
    <3>2. p \in [{} -> {}]
      OBVIOUS
    <3>3. Places(p, <<>>, text, 0)
      <4> HIDE DEF p
      <4> QED
        BY <3>1, <3>2 DEF Places
    <3> QED
      BY <1>2, <2>2, <2>3, <3>3
  <2>4. CASE n # 0
    <3>1. PICK m : m = n - 1
      OBVIOUS
    <3>2. m \in Nat /\ n = m + 1 /\ m \in 0 .. length /\ n \in 1 .. length /\ ~(n <= m)
      BY <1>1, <2>2, <2>4, <3>1
    <3>3. m \notin T
      <4> HIDE DEF T
      <4> QED
        BY <2>1, <3>2
    <3>4. PICK p : Places(p, norm[m], text, m)
      BY <3>2, <3>3
    <3>5. norm[m + 1] = IF Lower(text[m + 1]) \in Separators THEN norm[m]
                        ELSE Append(norm[m], Lower(text[m + 1]))
      BY <1>2, <3>1, <3>2
    <3>6. text[m + 1] \in Chars
      BY <1>1, <3>2
    <3>7. \E q : Places(q, norm[m + 1], text, m + 1)
      BY <3>2, <3>4, <3>5, <3>6, PlacesGrow
    <3> QED
      BY <2>2, <3>2, <3>7
  <2> QED
    BY <2>3, <2>4
<1>4. length \in 0 .. length
  BY <1>1
<1>5. \E p : Places(p, norm[length], text, length)
  BY <1>3, <1>4
<1> QED
  BY <1>2, <1>5 DEF length

\* What is found can be read in the text.
LEMMA FoundIsSpelled ==
    ASSUME NEW text \in Seq(Chars), NEW s \in Seq(Readable), s # <<>>,
           NEW i \in DOMAIN Normal(text), NEW j \in DOMAIN Normal(text),
           SubSeq(Normal(text), i, j) = s
    PROVE  Spells(text, s)
<1> DEFINE word == Normal(text)
           n == Len(text)
<1>1. PICK place : Places(place, word, text, n)
  BY NormalPlaces
<1>2. /\ n \in Nat /\ DOMAIN text = 1 .. n
      /\ word \in Seq(Readable) /\ Len(word) \in Nat /\ DOMAIN word = 1 .. Len(word)
      /\ Len(s) \in Nat /\ DOMAIN s = 1 .. Len(s)
  <2>1. word \in Seq(Readable)
    BY <1>1 DEF Places
  <2> QED
    BY <2>1, LenProperties
<1> HIDE DEF word, n
<1>3. /\ \A k \in 1 .. Len(word) : place[k] \in 1 .. n
      /\ \A k \in 1 .. Len(word) : text[place[k]] \notin Separators /\ word[k] = Lower(text[place[k]])
      /\ \A k, l \in 1 .. Len(word) : k < l => place[k] < place[l]
      /\ \A h \in 1 .. n : text[h] \notin Separators => \E k \in 1 .. Len(word) : place[k] = h
      /\ \A k \in 1 .. Len(word) : word[k] \in Readable
  <2>1. \A k \in 1 .. Len(word) : word[k] \in Readable
    BY <1>2, ElementOfSeq
  <2> QED
    BY <1>1, <2>1 DEF Places
<1>4. /\ i \in Nat /\ j \in Nat /\ 1 <= i /\ i <= Len(word) /\ j <= Len(word)
      /\ SubSeq(word, i, j) = s
  BY <1>2 DEF word
<1>5. /\ Len(s) = (IF i <= j THEN j - i + 1 ELSE 0)
      /\ \A k \in 1 .. j - i + 1 : s[k] = word[i + k - 1]
  <2>1. \A k \in i .. j : word[k] \in Readable
    BY <1>2, <1>3, <1>4
  <2>2. i \in Int /\ j \in Int
    BY <1>4
  <2>3. /\ Len(SubSeq(word, i, j)) = (IF i <= j THEN j - i + 1 ELSE 0)
        /\ \A k \in 1 .. j - i + 1 : SubSeq(word, i, j)[k] = word[i + k - 1]
    BY <2>1, <2>2, SubSeqProperties
  <2> QED
    BY <1>4, <2>3
<1>6. Len(s) # 0
  BY EmptySeq
<1>7. i <= j /\ Len(s) = j - i + 1 /\ \A k \in 1 .. Len(s) : s[k] = word[i + k - 1] /\ i + k - 1 \in 1 .. Len(word)
  BY <1>2, <1>4, <1>5, <1>6
<1> DEFINE at == [k \in DOMAIN s |-> place[i + k - 1]]
<1>8. /\ \A k \in 1 .. Len(s) : at[k] = place[i + k - 1]
      /\ at \in [DOMAIN s -> DOMAIN text]
  BY <1>2, <1>3, <1>7
<1> HIDE DEF at
<1>9. ASSUME NEW k \in DOMAIN s
      PROVE  LET c == text[at[k]] IN c = s[k] \/ (c \in DOMAIN Upper /\ Upper[c] = s[k])
  <2>1. s[k] = Lower(text[at[k]])
    BY <1>2, <1>3, <1>7, <1>8
  <2> QED
    BY <2>1 DEF Lower
<1>10. ASSUME NEW k \in 1 .. Len(s) - 1
       PROVE  at[k] < at[k + 1] /\ \A h \in at[k] + 1 .. at[k + 1] - 1 : text[h] \in Separators
  <2>1. k \in 1 .. Len(s) /\ k + 1 \in 1 .. Len(s) /\ k \in Nat
    BY <1>2
  <2>2. PICK m : m = i + k - 1
    OBVIOUS
  <2>3. m \in 1 .. Len(word) /\ m + 1 \in 1 .. Len(word) /\ i + (k + 1) - 1 = m + 1 /\ m < m + 1
    BY <1>4, <1>7, <2>1, <2>2
  <2>4. at[k] = place[m] /\ at[k + 1] = place[m + 1]
    BY <1>8, <2>1, <2>2, <2>3
  <2>5. place[m] < place[m + 1] /\ place[m] \in 1 .. n /\ place[m + 1] \in 1 .. n
    BY <1>3, <2>3
  <2>6. ASSUME NEW h \in place[m] + 1 .. place[m + 1] - 1 PROVE text[h] \in Separators
    <3>1. h \in 1 .. n /\ place[m] < h /\ h < place[m + 1]
      BY <1>2, <2>5
    <3> SUFFICES ASSUME text[h] \notin Separators PROVE FALSE
      OBVIOUS
    <3>2. PICK l \in 1 .. Len(word) : place[l] = h
      BY <1>3, <3>1
    <3>3. l <= m \/ m + 1 <= l
      BY <1>2, <2>3
    <3>4. l = m \/ l < m \/ l = m + 1 \/ m + 1 < l
      BY <1>2, <2>3, <3>3
    <3>5. l < m => place[l] < place[m]
      BY <1>3, <2>3
    <3>6. m + 1 < l => place[m + 1] < place[l]
      BY <1>3, <2>3
    <3> QED
      BY <2>5, <3>1, <3>2, <3>4, <3>5, <3>6
  <2> QED
    BY <2>4, <2>5, <2>6
<1> QED
  BY <1>8, <1>9, <1>10 DEF Spells

\* What can be read in the text is found.
LEMMA SpelledIsFound ==
    ASSUME NEW text \in Seq(Chars), NEW s \in Seq(Readable), s # <<>>, Spells(text, s)
    PROVE  \E i, j \in DOMAIN Normal(text) : SubSeq(Normal(text), i, j) = s
<1> DEFINE word == Normal(text)
           n == Len(text)
<1>1. PICK place : Places(place, word, text, n)
  BY NormalPlaces
<1>2. /\ n \in Nat /\ DOMAIN text = 1 .. n
      /\ word \in Seq(Readable) /\ Len(word) \in Nat /\ DOMAIN word = 1 .. Len(word)
      /\ Len(s) \in Nat /\ DOMAIN s = 1 .. Len(s) /\ Len(s) # 0
  <2>1. word \in Seq(Readable)
    BY <1>1 DEF Places
  <2> QED
    BY <2>1, LenProperties, EmptySeq
<1>3. PICK at \in [DOMAIN s -> DOMAIN text] :
        /\ \A k \in DOMAIN s :
             LET c == text[at[k]]
             IN  c = s[k] \/ (c \in DOMAIN Upper /\ Upper[c] = s[k])
        /\ \A k \in 1 .. Len(s) - 1 :
             at[k] < at[k + 1] /\ \A h \in at[k] + 1 .. at[k + 1] - 1 : text[h] \in Separators
  BY DEF Spells
<1> HIDE DEF word, n
<1>4. /\ \A k \in 1 .. Len(word) : place[k] \in 1 .. n
      /\ \A k \in 1 .. Len(word) : text[place[k]] \notin Separators /\ word[k] = Lower(text[place[k]])
      /\ \A k, l \in 1 .. Len(word) : k < l => place[k] < place[l]
      /\ \A h \in 1 .. n : text[h] \notin Separators => \E k \in 1 .. Len(word) : place[k] = h
      /\ \A k \in 1 .. Len(word) : word[k] \in Readable
  <2>1. \A k \in 1 .. Len(word) : word[k] \in Readable
    BY <1>2, ElementOfSeq
  <2> QED
    BY <1>1, <2>1 DEF Places
<1>5. ASSUME NEW k \in 1 .. Len(s)
      PROVE  /\ at[k] \in 1 .. n /\ Lower(text[at[k]]) = s[k] /\ text[at[k]] \notin Separators
             /\ \E m \in 1 .. Len(word) : place[m] = at[k]
  <2>1. at[k] \in 1 .. n /\ s[k] \in Readable
    BY <1>2, <1>3, ElementOfSeq
  <2>2. text[at[k]] = s[k] \/ (text[at[k]] \in DOMAIN Upper /\ Upper[text[at[k]]] = s[k])
    BY <1>2, <1>3
  <2>3. Lower(text[at[k]]) = s[k]
    BY <2>1, <2>2, Cases DEF Lower
  <2>4. text[at[k]] \in Chars
    BY <1>2, <2>1, ElementOfSeq DEF n
  <2>5. text[at[k]] \notin Separators
    BY <2>1, <2>3, <2>4, Cases
  <2> QED
    BY <1>4, <2>1, <2>3, <2>5
<1>6. \A l, m \in 1 .. Len(word) : place[l] < place[m] => l < m
  <2> TAKE l, m \in 1 .. Len(word)
  <2> HAVE place[l] < place[m]
  <2>1. place[l] \in 1 .. n /\ place[m] \in 1 .. n
    BY <1>4
  <2>2. l = m \/ m < l \/ l < m
    BY <1>2
  <2>3. m < l => place[m] < place[l]
    BY <1>4
  <2> QED
    BY <2>1, <2>2, <2>3
<1>7. PICK first \in 1 .. Len(word) : place[first] = at[1]
  BY <1>2, <1>5
<1> DEFINE There(k) == first + k - 1 \in 1 .. Len(word) /\ place[first + k - 1] = at[k]
           T == {k \in 1 .. Len(s) : ~There(k)}
<1>8. T = {}
  <2> SUFFICES ASSUME T # {} PROVE FALSE
    OBVIOUS
  <2>1. PICK k \in T : \A l \in T : k <= l
    <3>1. T \in SUBSET Nat
      BY <1>2
    <3> HIDE DEF T
    <3> QED
      BY <3>1, LeastNumber
  <2>2. k \in 1 .. Len(s) /\ ~There(k) /\ k \in Nat /\ first \in Nat
    BY <1>2
  <2>3. CASE k = 1
    BY <1>7, <2>2, <2>3
  <2>4. CASE k # 1
    <3>1. PICK l : l = k - 1
      OBVIOUS
    <3>2. l \in 1 .. Len(s) /\ l \in 1 .. Len(s) - 1 /\ k = l + 1 /\ ~(k <= l) /\ l \in Nat
      BY <1>2, <2>2, <2>4, <3>1
    <3>3. There(l)
      <4>1. l \notin T
        <5> HIDE DEF T
        <5> QED
          BY <2>1, <3>2
      <4> QED
        BY <3>2, <4>1
    <3>4. PICK m : m = first + l - 1
      OBVIOUS
    <3>5. m \in 1 .. Len(word) /\ place[m] = at[l] /\ first + k - 1 = m + 1 /\ m \in Nat
      BY <1>2, <2>2, <3>2, <3>3, <3>4
    <3>6. at[l] < at[k] /\ \A h \in at[l] + 1 .. at[k] - 1 : text[h] \in Separators
      BY <1>3, <3>2
    <3>7. PICK q \in 1 .. Len(word) : place[q] = at[k]
      BY <1>5, <2>2
    <3>8. m < q
      BY <1>6, <3>5, <3>6, <3>7
    <3>9. q = m + 1
      <4> SUFFICES ASSUME q # m + 1 PROVE FALSE
        OBVIOUS
      <4>1. m + 1 \in 1 .. Len(word) /\ m < m + 1 /\ m + 1 < q
        BY <1>2, <3>5, <3>7, <3>8
      <4>2. place[m] < place[m + 1] /\ place[m + 1] < place[q] /\ place[m + 1] \in 1 .. n
            /\ place[m] \in 1 .. n /\ place[q] \in 1 .. n
        BY <1>4, <3>5, <3>7, <4>1
      <4>3. place[m + 1] \in at[l] + 1 .. at[k] - 1
        <5>1. PICK a, b, c : a = at[l] /\ b = at[k] /\ c = place[m + 1]
          OBVIOUS
        <5>2. a < c /\ c < b /\ a \in 1 .. n /\ b \in 1 .. n /\ c \in 1 .. n
          BY <3>5, <3>7, <4>2, <5>1
        <5>3. c \in a + 1 .. b - 1
          BY <1>2, <5>2
        <5> QED
          BY <5>1, <5>3
      <4> QED
        BY <1>4, <3>6, <4>1, <4>3
    <3> QED
      BY <2>2, <3>5, <3>7, <3>9
  <2> QED
    BY <2>3, <2>4
<1>9. \A k \in 1 .. Len(s) : /\ first + k - 1 \in 1 .. Len(word)
                             /\ s[k] = word[first + k - 1]
  <2> TAKE k \in 1 .. Len(s)
  <2>1. There(k)
    BY <1>8
  <2> QED
    BY <1>4, <1>5, <2>1
<1> DEFINE last == first + Len(s) - 1
<1>10. /\ last \in DOMAIN word /\ first \in DOMAIN word
       /\ first \in Int /\ last \in Int /\ first <= last /\ last - first + 1 = Len(s)
  <2>1. Len(s) \in 1 .. Len(s)
    BY <1>2
  <2> QED
    BY <1>2, <1>7, <1>9, <2>1
<1> HIDE DEF last
<1>11. SubSeq(word, first, last) = s
  <2>1. \A k \in first .. last : word[k] \in Readable
    BY <1>2, <1>4, <1>10
  <2>2. /\ SubSeq(word, first, last) \in Seq(Readable)
        /\ Len(SubSeq(word, first, last)) = Len(s)
        /\ \A k \in 1 .. Len(s) : SubSeq(word, first, last)[k] = word[first + k - 1]
    BY <1>10, <2>1, SubSeqProperties
  <2> DEFINE part == SubSeq(word, first, last)
  <2>3. /\ part \in Seq(Readable) /\ Len(part) = Len(s)
        /\ \A k \in 1 .. Len(s) : part[k] = s[k]
    BY <1>9, <2>2
  <2> HIDE DEF part
  <2>4. part = s
    BY <2>3, SeqEqual
  <2> QED
    BY <2>4 DEF part
<1> QED
  BY <1>10, <1>11 DEF word

LEMMA TrimIsText ==
    ASSUME NEW text \in Seq(Chars)
    PROVE  Trim(text) \in Seq(Chars)
<1> DEFINE told == {i \in DOMAIN text : text[i] \notin Blanks}
           first == CHOOSE i \in told : \A j \in told : i <= j
           last == CHOOSE i \in told : \A j \in told : j <= i
<1>1. Len(text) \in Nat /\ DOMAIN text = 1 .. Len(text)
      /\ \A i \in 1 .. Len(text) : text[i] \in Chars
  BY LenProperties, ElementOfSeq
<1>2. Trim(text) = IF told = {} THEN <<>> ELSE SubSeq(text, first, last)
  BY DEF Trim
<1>3. CASE told = {}
  BY <1>2, <1>3, EmptySeq
<1>4. CASE told # {}
  <2>1. told \in SUBSET Nat /\ told \in SUBSET (0 .. Len(text)) /\ told \subseteq 1 .. Len(text)
    BY <1>1
  <2> HIDE DEF told
  <2>2. \E i \in told : \A j \in told : i <= j
    BY <1>4, <2>1, LeastNumber
  <2>3. \E i \in told : \A j \in told : j <= i
    BY <1>1, <1>4, <2>1, GreatestNumber
  <2>4. first \in told /\ last \in told
    BY <2>2, <2>3
  <2> HIDE DEF first, last
  <2>5. /\ first \in Int /\ last \in Int
        /\ \A k \in first .. last : text[k] \in Chars
    <3>1. first \in 1 .. Len(text) /\ last \in 1 .. Len(text)
      BY <2>1, <2>4
    <3> QED
      BY <1>1, <3>1
  <2>6. SubSeq(text, first, last) \in Seq(Chars)
    BY <2>5, SubSeqProperties
  <2> QED
    BY <1>2, <1>4, <2>6
<1> QED
  BY <1>3, <1>4

\* Whatever is typed, in whatever case and with whatever separators in between, a
\* stem is found in the two texts exactly if it can be read there: Find looks for it
\* in a copy from which characters were taken out.
THEOREM FindReadsOverSeparators == ProfanitySpec => []FindsWhatIsSpelled
<1> DEFINE Typed == message \in Seq(Chars) /\ name \in Seq(Chars)
<1>1. ProfanityInit => Typed
  BY EmptySeq DEF ProfanityInit
<1>2. Typed /\ [ProfanityNext]_profanityVars => Typed'
  <2> SUFFICES ASSUME Typed, [ProfanityNext]_profanityVars PROVE Typed'
    OBVIOUS
  <2>1. ASSUME NEW c \in Chars, Type(c) PROVE Typed'
    <3>1. Append(message, c) \in Seq(Chars) /\ Append(name, c) \in Seq(Chars)
      BY AppendProperties
    <3> QED
      BY <2>1, <3>1 DEF Type
  <2> QED
    BY <2>1 DEF ProfanityNext, profanityVars
<1>3. Typed => FindsWhatIsSpelled
  <2> SUFFICES ASSUME Typed PROVE FindsWhatIsSpelled
    OBVIOUS
  <2>1. newline \in Chars /\ <<newline>> \in Seq(Chars)
    BY ProfanityAssumption DEF Chars
  <2>2. Submitted \in Seq(Chars)
    <3>1. Trim(message) \in Seq(Chars) /\ Trim(name) \in Seq(Chars)
      BY TrimIsText
    <3>2. Trim(message) \o <<newline>> \in Seq(Chars)
      BY <2>1, <3>1, ConcatProperties
    <3> QED
      BY <3>1, <3>2, ConcatProperties DEF Submitted
  <2>3. ASSUME NEW s \in Stems
        PROVE  Spells(Submitted, s)
                 <=> \E i, j \in DOMAIN Normal(Submitted) : SubSeq(Normal(Submitted), i, j) = s
    <3>1. s \in Seq(Readable) /\ s # <<>>
      BY ProfanityAssumption, SeqMonotonic DEF Readable
    <3>2. ASSUME NEW i \in DOMAIN Normal(Submitted), NEW j \in DOMAIN Normal(Submitted),
                 SubSeq(Normal(Submitted), i, j) = s
          PROVE  Spells(Submitted, s)
      BY <2>2, <3>1, <3>2, FoundIsSpelled
    <3>3. Spells(Submitted, s)
             => \E i, j \in DOMAIN Normal(Submitted) : SubSeq(Normal(Submitted), i, j) = s
      BY <2>2, <3>1, SpelledIsFound
    <3> QED
      BY <3>2, <3>3
  <2> QED
    BY <2>3 DEF FindsWhatIsSpelled, Hits, Find
<1> QED
  BY <1>1, <1>2, <1>3, PTL DEF ProfanitySpec

=============================================================================
