------------------------------- MODULE Scorecard -------------------------------
(***************************************************************************)
(* The numbers behind a service's stability: incidentstore.Stats over the  *)
(* rows of its incidents and servicehealth.Build on top of it, for one     *)
(* moment Now and a history that is recorded bit by bit (late rows are     *)
(* those of the backfill), with the check the current status comes from    *)
(* (SiteCheck).  Time is counted from a first of March, in units of which  *)
(* a minute has Minute: the code knows when an outage began and ended      *)
(* more finely than the minutes it stores and sums.                        *)
(***************************************************************************)
EXTENDS SiteCheck, FiniteSets, FiniteSetsExt

CONSTANTS
    Minute,        \* units of time in a minute
    Now,           \* the moment the numbers are for
    Starts,        \* when outages begin
    Durations,     \* how long they last
    FirstSeens,    \* what first_seen_at may hold, Now before it is first saved
    Sites,         \* what the site may do when it is checked
    MaxIncidents   \* bound: outages

ASSUME ScorecardAssumption ==
    /\ Minute \in Nat \ {0}
    /\ {Now, MaxIncidents} \subseteq Nat
    /\ Starts \subseteq 0 .. Now - 1
    /\ Durations \subseteq {d \in Nat : d >= Minute}  \* a shorter one is a blip
    /\ FirstSeens \subseteq 0 .. Now
    /\ Sites \subseteq Site

VARIABLES
    history,    \* the rows that are no blips: [started, lasted]
    firstSeen,  \* first_seen_at as it is stored
    site        \* what the site did at the last check, NotChecked without one

scoreVars == <<history, firstSeen, site>>

NotChecked == [redirects |-> 0, how |-> "not checked", code |-> NA, time |-> NA]
Checked == site # NotChecked
CheckResult == CheckServiceStatus(site)
Current == IF Checked THEN CurrentStatus(CheckResult) ELSE "unknown"

Ongoing == -1  \* resolved_at and duration_minutes are NULL
Day == 1440 * Minute
Window7d == 7 * Day
Window30d == 30 * Day

-----------------------------------------------------------------------------
(* academic.ContextTag.                                                    *)

ContextTag(m, d) ==
    CASE m \in {3, 9} /\ d <= 10 -> "first week"
      [] m \in {4, 10} /\ d \in 14 .. 27 -> "exams"
      [] m \in {6, 12} /\ d \in 10 .. 23 -> "exams"
      [] OTHER -> "regular"

\* March and April.
TagAt(t) ==
    IF t \div Day < 31 THEN ContextTag(3, t \div Day + 1) ELSE ContextTag(4, t \div Day - 30)

-----------------------------------------------------------------------------
(* incidentstore.Stats.                                                    *)

HourDiff(a, b) ==
    LET d == IF a < b THEN b - a ELSE a - b
    IN  IF d > 12 THEN 24 - d ELSE d

Hour(t) == (t % Day) \div (60 * Minute)
Weekday(t) == (t \div Day) % 7

\* duration_minutes, as Resolve rounds it: 90 seconds are 2 minutes.
Minutes(i) == (i.lasted + Minute \div 2) \div Minute

\* The k-th of the durations, sorted.
Sorted(h, k) ==
    CHOOSE m \in {Minutes(i) : i \in h} :
        /\ Cardinality({i \in h : Minutes(i) < m}) < k
        /\ Cardinality({i \in h : Minutes(i) <= m}) >= k

\* Of a set of resolved incidents.
Median(h) ==
    LET n == Cardinality(h)
    IN  IF n = 0 THEN 0
        ELSE IF n % 2 = 1 THEN Sorted(h, n \div 2 + 1)
        ELSE (Sorted(h, n \div 2) + Sorted(h, n \div 2 + 1)) \div 2

\* The incidents of a window, and the resolved ones, with their minutes.
Since(h, window) == {i \in h : Now - i.started <= window}
Resolved(h) == {i \in h : i.lasted # Ongoing}

\* Mutant: the last one overwrites the sum.
DownMinutes_Last(h) ==
    MapThenSumSet(Minutes,
                  {i \in Resolved(h) : \A j \in Resolved(h) : j.started <= i.started})

DownMinutes(h) == MapThenSumSet(Minutes, Resolved(h))

SameHour(h) == {i \in Resolved(h) : HourDiff(Hour(i.started), Hour(Now)) <= 1}
SameWeekday(h) == {i \in Resolved(h) : Weekday(i.started) = Weekday(Now)}
SameContext(h) == {i \in Resolved(h) : TagAt(i.started) = TagAt(Now)}

MinMinutes(h) == IF Resolved(h) = {} THEN 0 ELSE Min({Minutes(i) : i \in Resolved(h)})
MaxMinutes(h) == IF Resolved(h) = {} THEN 0 ELSE Max({Minutes(i) : i \in Resolved(h)})
LastIncidentAt(h) == IF h = {} THEN -1 ELSE Max({i.started : i \in h})

Stats(h) ==
    [Count |-> Cardinality(h),
     ResolvedCount |-> Cardinality(Resolved(h)),
     MedianMinutes |-> Median(Resolved(h)),
     MinMinutes |-> MinMinutes(h),
     MaxMinutes |-> MaxMinutes(h),
     SameHourCount |-> Cardinality(SameHour(h)),
     SameHourMedian |-> Median(SameHour(h)),
     SameWeekdayCount |-> Cardinality(SameWeekday(h)),
     SameContextCount |-> Cardinality(SameContext(h)),
     SameContextMedian |-> Median(SameContext(h)),
     Flapping24hCount |-> Cardinality(Since(h, Day)),
     Incidents7d |-> Cardinality(Since(h, Window7d)),
     Incidents30d |-> Cardinality(Since(h, Window30d)),
     DownMinutes7d |-> DownMinutes(Since(h, Window7d)),
     DownMinutes30d |-> DownMinutes(Since(h, Window30d)),
     LastIncidentAt |-> LastIncidentAt(h)]

-----------------------------------------------------------------------------
(* servicehealth.Build.  Shares are in ten-thousandths, -1 if unknown.     *)

\* RefreshSummary: an incident older than what is stored moves the beginning back.
FirstSeen ==
    IF \E i \in history : i.started < firstSeen
      THEN Min({i.started : i \in history})
      ELSE firstSeen

\* Mutant: the window does not shrink with the observation.
Observed_Full(window, since) == window

Observed(window, since) == IF Now - since < window THEN Now - since ELSE window

\* Rounded half up, and no less than 0.
Uptime(downMin, since, window) ==
    LET w == Observed(window, since)
    IN  IF w < 60 * Minute THEN -1
        ELSE IF Minute * downMin >= w THEN 0
        ELSE (10000 * (w - Minute * downMin) + w \div 2) \div w

Below(share, bound) == share >= 0 /\ share < bound

Level(st, up7, up30, cur) ==
    CASE cur = "down" -> "down"
      [] cur # "down" /\ (st.Incidents7d >= 3 \/ Below(up7, 9800) \/ Below(up30, 9500)) -> "shaky"
      [] OTHER -> IF st.Incidents30d >= 1 \/ Below(up30, 9990) THEN "mostly-stable" ELSE "solid"

Build(h, since, cur) ==
    LET st == Stats(h)
        up7 == Uptime(st.DownMinutes7d, since, Window7d)
        up30 == Uptime(st.DownMinutes30d, since, Window30d)
    IN  [ObservedDays |-> (Now - since) \div Day,
         Incidents7d |-> st.Incidents7d, Incidents30d |-> st.Incidents30d,
         Uptime7d |-> up7, Uptime30d |-> up30,
         LastIncidentDaysAgo |-> IF h = {} THEN -1 ELSE (Now - st.LastIncidentAt) \div Day,
         MedianRecoveryMin |-> st.MedianMinutes,
         CurrentStatus |-> cur,
         Level |-> Level(st, up7, up30, cur)]

-----------------------------------------------------------------------------
ScoreInit ==
    /\ history = {}
    /\ firstSeen \in FirstSeens
    /\ site \in Sites \union {NotChecked}

End(i) == IF i.lasted = Ongoing THEN Now ELSE i.started + i.lasted

\* Another outage of the service gets its row, from before first_seen_at too if the
\* backfill writes it.  Outages that are over do not overlap; an open row may be one
\* of the past that nothing has closed.
Record(i) ==
    /\ Cardinality(history) < MaxIncidents
    /\ End(i) <= Now
    /\ \A j \in history :
         Ongoing \in {i.lasted, j.lasted} \/ End(i) < j.started \/ End(j) < i.started
    /\ history' = history \union {i}
    /\ UNCHANGED <<firstSeen, site>>

ScoreNext ==
    \E s \in Starts, m \in Durations \union {Ongoing} : Record([started |-> s, lasted |-> m])

ScoreSpec == ScoreInit /\ [][ScoreNext]_scoreVars

-----------------------------------------------------------------------------
(* Properties.                                                             *)

Card == Build(history, FirstSeen, Current)
Shown == BuildStatusDetail(CheckResult)

\* The medians are: no more than half of the outages are longer, or shorter.
MedianIsMiddle ==
    \A h \in {Resolved(history), SameContext(history)} :
        LET m == Median(h)
        IN  /\ 2 * Cardinality({i \in h : Minutes(i) > m}) <= Cardinality(h)
            /\ 2 * Cardinality({i \in h : Minutes(i) < m}) <= Cardinality(h)

Rank == [l \in {"solid", "mostly-stable", "shaky", "down"} |->
            CASE l = "solid" -> 0 [] l = "mostly-stable" -> 1 [] l = "shaky" -> 2 [] OTHER -> 3]

\* One more outage in the history makes a service look more stable only if it is
\* older than all that was known and the service was watched for less than the
\* longest window, which then grows: the beginning of the monitoring moves back.
MoreOutagesNoBetter ==
    [][history' # history /\ Rank[Card'.Level] < Rank[Card.Level]
         => FirstSeen' < FirstSeen /\ Now - FirstSeen < Window30d]_scoreVars

\* The observed part of a window, and how long of it the service was down.
Seen(window) == IF Now - FirstSeen < window THEN Now - FirstSeen ELSE window

Lost(window) ==
    LET from == Now - Seen(window)
    IN  MapThenSumSet(LAMBDA i : LET a == IF i.started < from THEN from ELSE i.started
                                 IN  IF End(i) > a THEN End(i) - a ELSE 0, history)

\* What the minutes of a window may be off: half a minute for each that is stored.
RoundedOff(window) == (Minute \div 2) * Cardinality(Resolved(Since(history, window)))

\* The uptime shown, times what was observed, and what it would be unrounded; the
\* share itself is rounded to ten-thousandths.
ShownUp(window) == Uptime(DownMinutes(Since(history, window)), FirstSeen, window) * Seen(window)
TrulyUp(window) == 10000 * (Seen(window) - Lost(window))
Slack(window) == 10000 * RoundedOff(window) + Seen(window) \div 2

\* The uptime is the share of the observed part of the window that the service was
\* up, but for the rounding, as long as no outage goes on or reaches into the window.
UptimeOfWhole ==
    \A w \in {Window7d, Window30d} :
        /\ Now - FirstSeen >= 60 * Minute
        /\ \A i \in history :
             i.lasted # Ongoing /\ (i.started >= Now - w \/ End(i) < Now - w)
        => /\ ShownUp(w) <= TrulyUp(w) + Slack(w)
           /\ TrulyUp(w) <= ShownUp(w) + Slack(w)

\* Of any history, what is counted fits into what was observed, so that an uptime of
\* 0 has nothing cut off, and the uptime is not below that share, but for the
\* rounding: the outages it leaves out, or counts for another window only, flatter.
UptimeNotTooLow ==
    \A w \in {Window7d, Window30d} :
        /\ Minute * DownMinutes(Since(history, w)) <= Seen(w) + RoundedOff(w)
        /\ Now - FirstSeen >= 60 * Minute => TrulyUp(w) <= ShownUp(w) + Slack(w)

\* The numbers are what their names say, for windows that are cut by the age of the
\* service, outages at their edges and days of more than one context.
NumbersTellHistory == MedianIsMiddle /\ UptimeOfWhole /\ UptimeNotTooLow

\* The detail modal tells what the site did, over a conversion to a message in
\* one language and a pattern on it in another: it shows an HTTP code exactly
\* when the site answered, that code, calls only a 200 fine and a silent site
\* timed out; a site whose redirects were not followed to their end is no answer.
CardTellsAnswer ==
    Checked =>
        LET answered == site.how = "answers" /\ site.redirects < MaxRedirects
            silent == site.how = "silent" /\ site.redirects < MaxRedirects
        IN  /\ Shown.httpCode = IF answered THEN site.code ELSE NA
            /\ Shown.ok <=> answered /\ site.code = 200
            /\ Shown.reason = "timeout" <=> silent

\* The card and the scorecard call a result by the same level.
CardAgreesWithScorecard == Checked => Current = StatusLevel(Shown)

\* What the dialog shows of one check is one tale: modal and card tell what the site
\* did, and the scorecard what the card does, though it has a threshold of its
\* own and another way to read a response time.
DialogTellsAnswer == CardTellsAnswer /\ CardAgreesWithScorecard

=============================================================================
