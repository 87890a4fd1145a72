------------------------------- MODULE Profanity -------------------------------
(***************************************************************************)
(* What flags a contact message (profanity.Find as misc.go calls it): the  *)
(* message and the name of its sender are put together, and stems are      *)
(* looked for after separators have been taken out.  Both are typed here   *)
(* character by character.                                                 *)
(***************************************************************************)
EXTENDS Naturals, Sequences

CONSTANTS
    Letters,     \* lower case
    Upper,       \* upper case letters, with what ToLower makes of them
    Separators,  \* what the replacer takes out, newline among them
    newline,
    Blanks,      \* what TrimSpace takes off the ends: more than the separators hold
    Stems,       \* stems
    MaxLength    \* bound: length of either text

ASSUME ProfanityAssumption ==
    /\ newline \in Separators
    /\ Letters \intersect (Separators \union Blanks) = {}
    /\ \A c \in DOMAIN Upper :
         c \notin Letters \union Separators \union Blanks /\ Upper[c] \in Letters
    /\ Stems \subseteq Seq(Letters) \ {<<>>}
    /\ MaxLength \in Nat

VARIABLES message, name

profanityVars == <<message, name>>

Chars == Letters \union DOMAIN Upper \union Separators \union Blanks

Lower(c) == IF c \in DOMAIN Upper THEN Upper[c] ELSE c

\* Mutant: separators stay.
Normal_Spaced(text) == [i \in DOMAIN text |-> Lower(text[i])]

\* ToLower, then the replacer.
Normal(text) ==
    LET norm[n \in 0 .. Len(text)] ==
          IF n = 0 THEN <<>>
          ELSE IF Lower(text[n]) \in Separators THEN norm[n - 1]
          ELSE Append(norm[n - 1], Lower(text[n]))
    IN  norm[Len(text)]

Find(text) == {s \in Stems : \E i, j \in DOMAIN Normal(text) : SubSeq(Normal(text), i, j) = s}

\* strings.TrimSpace.
Trim(text) ==
    LET told == {i \in DOMAIN text : text[i] \notin Blanks}
        first == CHOOSE i \in told : \A j \in told : i <= j
        last == CHOOSE i \in told : \A j \in told : j <= i
    IN  IF told = {} THEN <<>> ELSE SubSeq(text, first, last)

\* contact: Find(req.Message + "\n" + name), unless there is no message.
Submitted == Trim(message) \o <<newline>> \o Trim(name)
Hits == IF Trim(message) = <<>> THEN {} ELSE Find(Submitted)

ProfanityInit == message = <<>> /\ name = <<>>

Type(c) ==
    \/ Len(message) < MaxLength /\ message' = Append(message, c) /\ UNCHANGED name
    \/ Len(name) < MaxLength /\ name' = Append(name, c) /\ UNCHANGED message

ProfanityNext == \E c \in Chars : Type(c)

ProfanitySpec == ProfanityInit /\ [][ProfanityNext]_profanityVars

-----------------------------------------------------------------------------
(* Properties.                                                             *)

\* The characters of a stem, in whatever case, one after the other with nothing
\* but separators in between.
Spells(text, s) ==
    \E at \in [DOMAIN s -> DOMAIN text] :
        /\ \A k \in DOMAIN s :
             LET c == text[at[k]]
             IN  c = s[k] \/ (c \in DOMAIN Upper /\ Upper[c] = s[k])
        /\ \A k \in 1 .. Len(s) - 1 :
             at[k] < at[k + 1] /\ \A i \in at[k] + 1 .. at[k + 1] - 1 : text[i] \in Separators

\* "Matching is substring-based on a normalized copy of the text": a stem is found
\* just where it can be read over separators, in a message that is not blank.
FindsWhatIsSpelled ==
    Hits = {s \in Stems : Trim(message) # <<>> /\ Spells(Submitted, s)}

=============================================================================
