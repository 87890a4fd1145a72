CONSTANTS
    Kinds = {"blurb"}
    Limit <- MCLimit
    MaxMonth = 0
    Sites = {s2}
    Workers = {w1}
    loop = loop
    Enabled = TRUE
    Trailed = {s2}
    Statuses = {"unknown", "slow", "down"}
    Coarse <- MCCoarse
    DailyBudget = 2
    MaxFaults = 1
    MaxWorld = 2
    MaxDay = 1
SPECIFICATION FairSummarySpec
INVARIANTS
    BlurbTellsScorecard
    DailyWithinBudget
PROPERTIES
    ScorecardCatchesUp
