-------------------------------- MODULE MCPage --------------------------------
(***************************************************************************)
(* What visitors do beside looking at the cards: the contact form, the     *)
(* look through its texts, the pins, and the limiter requests pass.        *)
(* They share no state, so that each is explored for itself: part says     *)
(* which.                                                                  *)
(***************************************************************************)
EXTENDS Contact, Profanity, Favourites, RateLimit, TLC

VARIABLE part

pageVars == <<contactVars, favouriteVars, rateVars, profanityVars, part>>

\* Two stems of which one is the end of the other, as there are in the list.
MCUpper == ("A" :> "a")
MCStems == {<<"a", "b">>, <<"b", "a", "b">>}

PageInit ==
    /\ ContactInit /\ FavouritesInit /\ RateInit /\ ProfanityInit
    /\ part \in {"contact", "texts", "pins", "limiter"}
    /\ part # "pins" => ~available

PageNext ==
    /\ UNCHANGED part
    /\ \/ part = "contact" /\ ContactNext /\ UNCHANGED <<profanityVars, favouriteVars, rateVars>>
       \/ part = "texts" /\ ProfanityNext /\ UNCHANGED <<contactVars, favouriteVars, rateVars>>
       \/ part = "pins" /\ FavouritesNext /\ UNCHANGED <<contactVars, profanityVars, rateVars>>
       \/ part = "limiter" /\ RateNext /\ UNCHANGED <<contactVars, profanityVars, favouriteVars>>

PageSpec == PageInit /\ [][PageNext]_pageVars /\ ContactFairness

=============================================================================
