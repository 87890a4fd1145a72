------------------------------ MODULE MCScorecard ------------------------------
(* Now is 4 April, 00:30, and a minute has four units, so that an outage may   *)
(* last 75 seconds, stored as one minute, and 90, stored as two.  Outages      *)
(* begin on, before and after the edges of the windows of 1, 7 and 30 days,    *)
(* near midnight, in the first week of March, and before first_seen_at.        *)
(* The sites answer at and above the threshold, with a code that is no error   *)
(* and one that is, refuse, keep silent, and redirect up to the limit.         *)
EXTENDS Scorecard, AnalysisView

MCNow == 34 * Day + 30 * Minute
MCStarts ==
    {5 * Day + 60 * Minute, MCNow - Window30d, MCNow - Window7d - 1, MCNow - Window7d,
     MCNow - 4 * Day - 60 * Minute, MCNow - Day - 100 * Minute, MCNow - 61 * Minute}
MCDurations == {(5 * Minute) \div 4, (3 * Minute) \div 2, 600 * Minute}
MCFirstSeens ==
    {0, MCNow - Window7d - 1, MCNow - 2 * Day, MCNow - 61 * Minute, MCNow - 59 * Minute, MCNow}

MCSite(redirects, how, code, time) ==
    [redirects |-> redirects, how |-> how, code |-> code, time |-> time]
MCSilent == MCSite(2, "silent", 200, 900)
MCSites ==
    {MCSite(0, "answers", 200, 800), MCSite(4, "answers", 200, 801),
     MCSite(1, "answers", 304, 20), MCSite(0, "answers", 503, 900),
     MCSite(0, "refuses", 200, 5), MCSilent,
     MCSite(5, "answers", 200, 30)}

(* The numbers, the check and the analysis are shown by the same dialog and    *)
(* share no state but for whether the site is down, so that each is explored   *)
(* for itself.                                                                 *)
VARIABLE part

dialogVars == <<scoreVars, viewVars, part>>

DialogInit ==
    /\ ScoreInit /\ ViewInit
    /\ part \in {"numbers", "check", "analysis"}
    /\ part = "numbers" => site = NotChecked \/ (site = MCSilent /\ firstSeen = 0)
    /\ part = "analysis" => site = NotChecked
    /\ part # "numbers" => firstSeen = Now
    /\ part # "analysis" => rows = <<>>

DialogNext ==
    /\ UNCHANGED part
    /\ \/ part = "numbers" /\ ScoreNext /\ UNCHANGED viewVars
       \/ part = "analysis" /\ ViewNext /\ UNCHANGED scoreVars

DialogSpec == DialogInit /\ [][DialogNext]_dialogVars

=============================================================================
