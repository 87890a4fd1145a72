-------------------------------- MODULE Contact --------------------------------
(***************************************************************************)
(* The contact form (ContactForm.jsx in a dialog that may be closed at any *)
(* time) and the way of a message to the mailbox: the browser's preflight, *)
(* the limiter it shares with the clicks of everyone at the same address   *)
(* (httpapi.go), the handler (misc.go) and the mail (mailer.go).           *)
(*                                                                         *)
(* A text stands for name, message and consent together; the bucket of the *)
(* limiter (RateLimit) is a count that a new window sets to nothing.       *)
(***************************************************************************)
EXTENDS Naturals, FiniteSets

CONSTANTS
    Slots,       \* bound: requests under way
    MaxPerWindow,  \* max of the limiter
    MaxTexts,    \* bound: texts written
    MaxDialogs,  \* bound: openings of the dialog
    Long,        \* those over maxContactMessageBytes
    MaxClicks,   \* bound: clicks told apart in site_clicks; clicking never ends
    MaxFaults,   \* bound: answers and mails that are lost
    MailFaults,  \* mails may fail
    Configured,  \* RESEND_API_KEY and ALERT_EMAIL_TO are set
    Autofill     \* the browser may fill the hidden field

ASSUME ContactAssumption ==
    /\ MaxPerWindow \in Nat /\ MaxPerWindow >= 2
    /\ {MaxTexts, MaxDialogs, MaxClicks, MaxFaults} \subseteq Nat
    /\ Long \subseteq 1 .. MaxTexts
    /\ {MailFaults, Configured, Autofill} \subseteq BOOLEAN

VARIABLES
    form,      \* the dialog that was opened last
    posts,     \* requests under way, by slot
    spent,     \* the count of the address' bucket
    clicks,    \* site_clicks
    faults,    \* losses so far
    crowd,     \* history: clicks counted in the present window
    mails,     \* history: mails delivered, by text
    lost       \* history: requests the page gave up, by text

contactVars == <<form, posts, spent, clicks, faults, crowd, mails, lost>>

Texts == 1 .. MaxTexts
NoPost == [dialog |-> 0, text |-> 0, website |-> FALSE, stage |-> "none", awaited |-> FALSE]

ContactTypeOK ==
    /\ form \in [dialog : 0 .. MaxDialogs, state : {"closed", "idle", "sending", "success", "error"},
                 text : 0 .. MaxTexts, website : BOOLEAN, written : 0 .. MaxTexts]
    /\ posts \in [Slots -> [dialog : 0 .. MaxDialogs, text : 0 .. MaxTexts, website : BOOLEAN,
                               stage : {"none", "preflight", "post", "mail", "ok", "refused"},
                               awaited : BOOLEAN]]
    /\ spent \in 0 .. MaxPerWindow
    /\ crowd \in 0 .. spent
    /\ clicks \in 0 .. MaxClicks
    /\ faults \in 0 .. MaxFaults
    /\ {mails, lost} \subseteq [Texts -> 0 .. MaxFaults + 1]

ContactInit ==
    /\ form = [dialog |-> 0, state |-> "closed", text |-> 0, website |-> FALSE, written |-> 0]
    /\ posts = [s \in Slots |-> NoPost]
    /\ spent = 0 /\ clicks = 0 /\ faults = 0 /\ crowd = 0
    /\ mails = [t \in Texts |-> 0]
    /\ lost = [t \in Texts |-> 0]

-----------------------------------------------------------------------------
(* The dialog.                                                             *)

server == <<spent, clicks, faults, crowd, mails, lost>>

\* A new form is empty (text 0).
Open ==
    /\ form.state = "closed"
    /\ form.dialog < MaxDialogs
    /\ \E website \in {FALSE, Autofill} :
         form' = [form EXCEPT !.dialog = @ + 1, !.state = "idle", !.text = 0, !.website = website]
    /\ UNCHANGED <<posts, server>>

\* Escape, a click beside it or the button: the form is gone with its text.
Close ==
    /\ form.state # "closed"
    /\ form' = [form EXCEPT !.state = "closed", !.text = 0]
    /\ UNCHANGED <<posts, server>>

\* The fields can be edited while a request is under way.
Edit ==
    /\ form.state # "closed"
    /\ form.written < MaxTexts
    /\ form' = [form EXCEPT !.text = form.written + 1, !.written = @ + 1]
    /\ UNCHANGED <<posts, server>>

\* Mutant: the status is not looked at.
CanSend_Twice == form.state # "closed" /\ form.text # 0

\* Mutant: only a fresh form can be sent.
CanSend_Fresh == form.state = "idle" /\ form.text # 0

CanSend == form.state \notin {"closed", "sending"} /\ form.text # 0

\* handleSubmit; the browser may remember an earlier preflight.
Submit ==
    /\ CanSend
    /\ form' = [form EXCEPT !.state = "sending"]
    /\ \E s \in Slots, stage \in {"preflight", "post"} :
         /\ posts[s] = NoPost
         /\ posts' = [posts EXCEPT ![s] =
                [dialog |-> form.dialog, text |-> form.text, website |-> form.website,
                 stage |-> stage, awaited |-> TRUE]]
    /\ UNCHANGED server

-----------------------------------------------------------------------------
(* The backend.                                                            *)

At(s, stage) == posts[s].stage = stage
Goes(s, stage) == posts' = [posts EXCEPT ![s].stage = stage]

Passes == spent < MaxPerWindow

\* OPTIONS: charged like every other request, then answered by corsMiddleware.
Preflight(s) ==
    /\ At(s, "preflight")
    /\ \/ Passes /\ spent' = spent + 1 /\ Goes(s, "post")
       \/ ~Passes /\ Goes(s, "refused") /\ UNCHANGED spent
    /\ UNCHANGED <<form, clicks, faults, crowd, mails, lost>>

\* contact: a body that is too long is refused, a filled hidden field earns a
\* fake success.
Post(s) ==
    /\ At(s, "post")
    /\ \/ ~Passes /\ Goes(s, "refused") /\ UNCHANGED spent
       \/ /\ Passes
          /\ spent' = spent + 1
          /\ Goes(s, IF posts[s].text \in Long THEN "refused"
                     ELSE IF posts[s].website THEN "ok" ELSE "mail")
    /\ UNCHANGED <<form, clicks, faults, crowd, mails, lost>>

Fault == faults < MaxFaults /\ faults' = faults + 1
Mailed(s) == mails' = [mails EXCEPT ![posts[s].text] = @ + 1]

\* SendContactMessage: without a key nothing is sent, and an error is only
\* logged; the call may fail after the mail is on its way.
Mail(s) ==
    /\ At(s, "mail")
    /\ Goes(s, "ok")
    /\ \/ Configured /\ Mailed(s) /\ UNCHANGED faults
       \/ /\ IF Configured THEN MailFaults /\ Fault ELSE UNCHANGED faults
          /\ UNCHANGED mails
    /\ UNCHANGED <<form, spent, clicks, crowd, lost>>

\* clickIncrement of this or another visitor of the address, as often as they like;
\* an error is logged, and a click that is refused leaves nothing behind.
Click ==
    /\ Passes
    /\ spent' = spent + 1
    /\ crowd' = crowd + 1
    /\ clicks' \in {clicks, IF clicks < MaxClicks THEN clicks + 1 ELSE clicks}
    /\ UNCHANGED <<form, posts, faults, mails, lost>>

WindowPasses ==
    /\ spent > 0
    /\ spent' = 0
    /\ crowd' = 0
    /\ UNCHANGED <<form, posts, clicks, faults, mails, lost>>

-----------------------------------------------------------------------------
(* The answer.                                                             *)

\* A form that has been closed takes no notice.
Awaits(s) == posts[s].awaited /\ form.dialog = posts[s].dialog /\ form.state = "sending"

\* Success empties the fields, whatever is in them by now.
Answer(s) ==
    /\ posts[s].stage \in {"ok", "refused"}
    /\ form' = IF ~Awaits(s) THEN form
               ELSE IF At(s, "ok") THEN [form EXCEPT !.state = "success", !.text = 0]
               ELSE [form EXCEPT !.state = "error"]
    /\ posts' = [posts EXCEPT ![s] = NoPost]
    /\ UNCHANGED server

\* The page gives up; the handler goes on, or has died with its process.
Lost(s) ==
    /\ posts[s].awaited
    /\ Fault
    /\ form' = IF Awaits(s) THEN [form EXCEPT !.state = "error"] ELSE form
    /\ posts' \in {[posts EXCEPT ![s].awaited = FALSE], [posts EXCEPT ![s] = NoPost]}
    /\ lost' = [lost EXCEPT ![posts[s].text] = @ + 1]
    /\ UNCHANGED <<spent, clicks, crowd, mails>>

Settles(s) == Preflight(s) \/ Post(s) \/ Mail(s) \/ Answer(s)

ContactNext ==
    \/ Open \/ Close \/ Edit \/ Submit \/ Click \/ WindowPasses
    \/ \E s \in Slots : Settles(s) \/ Lost(s)

\* Requests are worked off, time goes on, and a visitor who is told to try again
\* does so.  Nothing is assumed of the others: they may click for ever.
ContactFairness ==
    /\ \A s \in Slots : WF_contactVars(Settles(s))
    /\ WF_contactVars(WindowPasses)
    /\ WF_contactVars(form.state = "error" /\ Submit)

ContactSpec == ContactInit /\ [][ContactNext]_contactVars /\ ContactFairness

-----------------------------------------------------------------------------
(* Properties.                                                             *)

\* A text is mailed twice only after the page has lost the answer to it: not by
\* pressing the button twice, editing meanwhile, or closing and opening the form.
OneMailEach == \A t \in Texts : mails[t] <= 1 + lost[t]

Settled(t) == form.state = "success" \/ form.text # t

\* The others have not left the preflight and the post of one attempt in this window.
Crowded == crowd + 2 > MaxPerWindow

\* A text that is short enough gets through once it has been sent: the form does
\* not stay at "sending", and trying again helps.  Attempts that were refused or lost
\* never use up the limit for good; that can only be others behind the address,
\* who leave too little of it in window after window.
RetryHelps ==
    \A t \in Texts \ Long :
        \/ form.state \in {"sending", "error"} /\ form.text = t ~> Settled(t)
        \/ []<>Crowded

=============================================================================
