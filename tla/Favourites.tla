------------------------------ MODULE Favourites ------------------------------
(***************************************************************************)
(* The pinned services of a browser (usePersistentSet in hooks.js), which  *)
(* several tabs of the page keep in one localStorage entry, and the toast  *)
(* that confirms a pin (useToast.js, StatusDashboard.jsx).                 *)
(***************************************************************************)
EXTENDS Naturals

CONSTANTS
    Tabs,
    Sites,
    Duration,   \* TOAST_DURATION_MS
    MaxMoment,  \* bound: time
    MaxOpened   \* bound: openings and reloads of tabs

ASSUME FavouritesAssumption ==
    /\ Sites # {}
    /\ Duration \in Nat \ {0}
    /\ {MaxMoment, MaxOpened} \subseteq Nat

VARIABLES
    moment,
    available,  \* the browser lets the page store things
    stored,     \* the entry in localStorage; {} for none, or one that cannot be parsed
    items,      \* what each tab has pinned
    toast,      \* what its toast says, and since when
    timers,     \* when its timeouts are due
    opened,     \* openings so far
    missed      \* history: sites other tabs have changed in the entry since a tab read it

favouriteVars == <<moment, available, stored, items, toast, timers, opened, missed>>

Moments == 0 .. MaxMoment
NoToast == [site |-> CHOOSE s \in Sites : TRUE, says |-> "nothing", at |-> 0]

FavouritesTypeOK ==
    /\ moment \in Moments
    /\ available \in BOOLEAN
    /\ stored \subseteq Sites
    /\ items \in [Tabs -> SUBSET Sites]
    /\ toast \in [Tabs -> [site : Sites, says : {"nothing", "added", "removed"}, at : Moments]]
    /\ timers \in [Tabs -> SUBSET (Duration .. MaxMoment + Duration)]
    /\ opened \in 0 .. MaxOpened
    /\ missed \in [Tabs -> SUBSET Sites]

\* Every tab has been opened, on an entry of earlier visits.
FavouritesInit ==
    /\ moment = 0
    /\ available \in BOOLEAN
    /\ stored \in IF available THEN SUBSET Sites ELSE {{}}
    /\ items = [t \in Tabs |-> stored]
    /\ toast = [t \in Tabs |-> NoToast]
    /\ timers = [t \in Tabs |-> {}]
    /\ opened = 0
    /\ missed = [t \in Tabs |-> {}]

-----------------------------------------------------------------------------
\* Mutant: the entry is not read.
Entry_Unread == {}

Entry == stored

\* A tab is loaded anew: the effect of usePersistentSet reads the entry.
Load(t) ==
    /\ opened < MaxOpened
    /\ opened' = opened + 1
    /\ items' = [items EXCEPT ![t] = Entry]
    /\ toast' = [toast EXCEPT ![t] = NoToast]
    /\ timers' = [timers EXCEPT ![t] = {}]
    /\ missed' = [missed EXCEPT ![t] = {}]
    /\ UNCHANGED <<moment, available, stored>>

Written(t, s) == IF s \in items[t] THEN items[t] \ {s} ELSE items[t] \union {s}

\* showToast: clearTimeout and a new timeout.
Timed(t) == {moment + Duration}

\* togglePin: the list of the tab, as it has it, goes to storage as a whole.
Toggle(t, s) ==
    /\ LET next == Written(t, s)
       IN  /\ items' = [items EXCEPT ![t] = next]
           /\ stored' = IF available THEN next ELSE stored
           /\ missed' = [u \in Tabs |->
                IF u = t THEN missed[u]
                ELSE missed[u] \union (stored \ stored') \union (stored' \ stored)]
    /\ toast' = [toast EXCEPT ![t] =
            [site |-> s, says |-> IF s \in items[t] THEN "removed" ELSE "added", at |-> moment]]
    /\ timers' = [timers EXCEPT ![t] = Timed(t)]
    /\ UNCHANGED <<moment, available, opened>>

\* A timeout, on time or late.
TimerFires(t) ==
    \E due \in timers[t] :
        /\ moment >= due
        /\ timers' = [timers EXCEPT ![t] = @ \ {due}]
        /\ toast' = [toast EXCEPT ![t] = NoToast]
        /\ UNCHANGED <<moment, available, stored, items, opened, missed>>

MomentPasses ==
    /\ moment < MaxMoment
    /\ moment' = moment + 1
    /\ UNCHANGED <<available, stored, items, toast, timers, opened, missed>>

FavouritesNext ==
    \/ \E t \in Tabs : Load(t) \/ TimerFires(t) \/ \E s \in Sites : Toggle(t, s)
    \/ MomentPasses

FavouritesSpec == FavouritesInit /\ [][FavouritesNext]_favouriteVars

-----------------------------------------------------------------------------
(* Properties.                                                             *)

Differs(s, before, now) == (s \in before) # (s \in now)

\* Only a press changes the entry of a site: that of a tab that has just been told
\* to pin or unpin it, or of one where another tab had, since it was loaded.
ChangedByHand ==
    \A s \in Sites :
        Differs(s, stored, stored') =>
            \E t \in Tabs : items'[t] # items[t]
                            /\ (Differs(s, items[t], items'[t]) \/ s \in missed[t])

\* A toast goes at its time, or with its page.
ToastStays ==
    \A t \in Tabs :
        toast[t].says # "nothing" /\ toast'[t].says = "nothing" =>
            moment >= toast[t].at + Duration \/ opened' # opened

\* What was pressed holds and is seen: no pin is lost to a tab that has seen it, and
\* every toast stays for its time, however fast pins are pressed.
PinsAsPressed == [][ChangedByHand /\ ToastStays]_favouriteVars

=============================================================================
