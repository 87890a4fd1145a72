------------------------------ MODULE LatestFeed ------------------------------
(***************************************************************************)
(* What a subscriber of the status cache is promised, without channels,    *)
(* locks or signals: refreshes are published in order, and the subscriber  *)
(* may skip some but never goes back, never runs ahead of what has been    *)
(* published, and always comes to the latest one.                          *)
(***************************************************************************)
EXTENDS Naturals

CONSTANT MaxPublished  \* bound: refreshes that are published

VARIABLES
    published,  \* the last refresh that finished
    seen        \* the last one the subscriber has acted on

feedVars == <<published, seen>>

FeedInit == published = 0 /\ seen = 0

Publish ==
    /\ published < MaxPublished
    /\ published' = published + 1
    /\ UNCHANGED seen

Observe ==
    /\ \E v \in (seen + 1) .. published : seen' = v
    /\ UNCHANGED published

FeedNext == Publish \/ Observe

FeedSpec == FeedInit /\ [][FeedNext]_feedVars /\ WF_feedVars(Observe)

=============================================================================
