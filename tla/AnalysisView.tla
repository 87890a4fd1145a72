---------------------------- MODULE AnalysisView ----------------------------
(***************************************************************************)
(* The analysis section of one service's detail dialog                     *)
(* (AiAnalysisSection.jsx) over GET /api/incidents/{site}/analysis         *)
(* (httpapi/incidents.go): the handler reads the incident tables one       *)
(* statement at a time while outages go on, and the page keeps an answer   *)
(* for a minute.  A section lives from opening the dialog to closing it,   *)
(* its request longer.  A press of the section's button stands for closing *)
(* the dialog, opening it again and the press.                             *)
(*                                                                         *)
(* How rows come about is the subject of OutageLog and Analysis; here they *)
(* are written one after the other, and a verdict may come at any time.    *)
(***************************************************************************)
EXTENDS Integers, Sequences, FiniteSets

CONSTANTS
    CacheTTL,       \* CACHE_TTL_MS
    PendingFor,     \* how long a row without verdict is called pending
    BlipLimit,      \* BlipThresholdSeconds
    RecentLimit,    \* rows of the list of recent outages
    RequestLimit,   \* longest life of a request, set by browser and proxy
    MaxClock,       \* bound: time
    MaxOutages,     \* bound: outages of this process
    MaxSections,    \* bound: openings of the dialog
    MaxFetches      \* bound: requests under way at a time

ASSUME ViewAssumption ==
    /\ {PendingFor, BlipLimit, MaxOutages, MaxSections, MaxFetches} \subseteq Nat
    /\ {CacheTTL, RecentLimit, RequestLimit, MaxClock} \subseteq Nat \ {0}

VARIABLES
    clock,
    rows,       \* the incidents of the service, by start
    fetches,    \* requests under way
    cache,      \* the page's last answer, once there is one, and when it came
    section     \* the section of the dialog that was opened last

serverVars == <<clock, rows>>
viewVars == <<serverVars, fetches, cache, section>>

Times == 0 .. MaxClock
Row == [start : Times, over : BOOLEAN, blip : BOOLEAN, verdict : BOOLEAN]

\* An answer: the latest incident, whether its analysis is called pending, and
\* the list of recent ones; all as read, with the time of the first read.
NoIncident == [start |-> 0, over |-> TRUE, blip |-> TRUE, verdict |-> FALSE]
Answers == [asked : Times, id : Nat, incident : Row, pending : BOOLEAN,
           recent : SUBSET (Nat \X Row)]
NoAnswer == [asked |-> 0, id |-> 0, incident |-> NoIncident, pending |-> FALSE, recent |-> {}]

\* When a section began to show its answer is history.
Section == [n : 0 .. MaxSections, state : {"idle", "loading", "error", "done"},
            data : Answers, shownAt : Times]

ViewTypeOK ==
    /\ clock \in Times
    /\ rows \in Seq(Row)
    /\ fetches \in SUBSET [n : 1 .. MaxSections, since : Times,
                            stage : {"latest", "recent", "answer"}, data : Answers]
    /\ cache \in SUBSET [at : Times, data : Answers] /\ Cardinality(cache) <= 1
    /\ section \in Section

OldRow == [start |-> 0, over |-> TRUE, blip |-> FALSE, verdict |-> TRUE]

\* The table is new, or has what an earlier process left in it.
ViewInit ==
    /\ clock = 1
    /\ rows \in {<<>>, <<OldRow>>}
    /\ fetches = {}
    /\ cache = {}
    /\ section = [n |-> 0, state |-> "idle", data |-> NoAnswer, shownAt |-> 0]

-----------------------------------------------------------------------------
(* What the service does meanwhile.                                        *)

OutageLasts == rows # <<>> /\ ~rows[Len(rows)].over

\* Open.
OutageBegins ==
    /\ ~OutageLasts
    /\ Cardinality({i \in DOMAIN rows : rows[i].start > 0}) < MaxOutages
    /\ rows' = Append(rows, [start |-> clock, over |-> FALSE, blip |-> FALSE, verdict |-> FALSE])
    /\ UNCHANGED <<clock, fetches, cache, section>>

\* Resolve: a short outage is filed as a blip.
OutageEnds ==
    /\ OutageLasts
    /\ rows' = [rows EXCEPT ![Len(rows)].over = TRUE,
                            ![Len(rows)].blip = clock < rows[Len(rows)].start + BlipLimit]
    /\ UNCHANGED <<clock, fetches, cache, section>>

\* SaveVerdict, of any of the analyses.
SaveVerdict(i) ==
    /\ ~rows[i].verdict
    /\ rows' = [rows EXCEPT ![i].verdict = TRUE]
    /\ UNCHANGED <<clock, fetches, cache, section>>

\* No request is older than its limit.
Tick ==
    /\ clock < MaxClock
    /\ \A r \in fetches : clock < r.since + RequestLimit
    /\ clock' = clock + 1
    /\ UNCHANGED <<rows, fetches, cache, section>>

-----------------------------------------------------------------------------
(* The handler.                                                            *)

Moves(r, stage, data) ==
    fetches' = (fetches \ {r}) \union {[r EXCEPT !.stage = stage, !.data = data]}

Pending(row) == ~row.verdict /\ clock < row.start + PendingFor

\* Latest (blips too); without a row the answer is the summary, if there is one.
ReadLatest(r) ==
    /\ r.stage = "latest"
    /\ IF rows = <<>>
       THEN Moves(r, "answer", [NoAnswer EXCEPT !.asked = clock])
       ELSE LET id == Len(rows)
            IN  Moves(r, "recent", [asked |-> clock, id |-> id, incident |-> rows[id],
                                    pending |-> Pending(rows[id]), recent |-> {}])
    /\ UNCHANGED <<serverVars, cache, section>>

\* Mutant: the list is cut at the wrong end.
Recent_Oldest ==
    LET ids == {i \in DOMAIN rows : ~rows[i].blip}
    IN  {<<i, rows[i]>> : i \in {i \in ids : Cardinality({j \in ids : j < i}) < RecentLimit}}

\* Recent: the newest rows that are no blips.
Recent ==
    LET ids == {i \in DOMAIN rows : ~rows[i].blip}
    IN  {<<i, rows[i]>> : i \in {i \in ids : Cardinality({j \in ids : j > i}) < RecentLimit}}

\* An error leaves the list out of the answer.
ReadRecent(r) ==
    /\ r.stage = "recent"
    /\ \E list \in {Recent, {}} : Moves(r, "answer", [r.data EXCEPT !.recent = list])
    /\ UNCHANGED <<serverVars, cache, section>>

-----------------------------------------------------------------------------
(* The page.                                                               *)

\* A request settles: only the section that sent it takes notice.
Awaited(r) == section.n = r.n /\ section.state = "loading"

Cached(data) == {[at |-> clock, data |-> data]}

Arrives(r) ==
    /\ r.stage = "answer"
    /\ fetches' = fetches \ {r}
    /\ cache' = Cached(r.data)
    /\ section' = IF Awaited(r)
                  THEN [section EXCEPT !.state = "done", !.data = r.data, !.shownAt = clock]
                  ELSE section
    /\ UNCHANGED serverVars

\* Latest failed, the answer was lost, or the limiter refused.
Fails(r) ==
    /\ fetches' = fetches \ {r}
    /\ section' = IF Awaited(r) THEN [section EXCEPT !.state = "error"] ELSE section
    /\ UNCHANGED <<serverVars, cache>>

\* Mutant: the age is compared with the wrong operator.
Fresh_TooLong == {c \in cache : clock - c.at <= CacheTTL}

Fresh == {c \in cache : clock - c.at < CacheTTL}

NewSection(state, data) ==
    /\ section.n < MaxSections
    /\ section' = [n |-> section.n + 1, state |-> state, data |-> data, shownAt |-> clock]

\* load with a fresh answer at hand.
ClickCached ==
    /\ \E hit \in Fresh : NewSection("done", hit.data)
    /\ UNCHANGED <<serverVars, fetches, cache>>

\* load without one.
ClickFetches ==
    /\ Fresh = {}
    /\ Cardinality(fetches) < MaxFetches
    /\ NewSection("loading", NoAnswer)
    /\ fetches' = fetches \union
         {[n |-> section'.n, since |-> clock, stage |-> "latest", data |-> NoAnswer]}
    /\ UNCHANGED <<serverVars, cache>>

FetchSettles(r) == ReadLatest(r) \/ ReadRecent(r) \/ Arrives(r) \/ Fails(r)

ViewNext ==
    \/ OutageBegins \/ OutageEnds \/ Tick
    \/ \E i \in DOMAIN rows : SaveVerdict(i)
    \/ \E r \in fetches : FetchSettles(r)
    \/ ClickCached \/ ClickFetches

ViewSpec == ViewInit /\ [][ViewNext]_viewVars

-----------------------------------------------------------------------------
(* Properties.                                                             *)

\* What a section shows was read at most one request and one CacheTTL before it
\* came up.
ShownIsRecent ==
    section.state = "done" => section.shownAt - section.data.asked < RequestLimit + CacheTTL

\* One answer hangs together though its parts are read apart: the list never
\* knows less of the incident shown above it than the incident itself, and has that
\* incident or a newer one, unless it was a blip.
ListKnowsIncident ==
    section.state = "done" =>
        LET d == section.data IN
        /\ \A e \in d.recent :
             e[1] = d.id => /\ d.incident.over => e[2].over
                            /\ d.incident.verdict => e[2].verdict
        /\ d.recent # {} /\ d.incident.over /\ ~d.incident.blip => \E e \in d.recent : e[1] >= d.id

\* A section at "loading" has its request under way.
LoadingIsAwaited ==
    section.state = "loading" => \E r \in fetches : r.n = section.n

\* However often the dialog is opened and however its requests overtake each
\* other, a section shows what is recent and does not wait for a request that has
\* ended.
SectionKeepsUp == ShownIsRecent /\ LoadingIsAwaited

=============================================================================
