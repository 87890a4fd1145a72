CONSTANTS
    MaxRedirects = 5
    SlowResponseMs = 800
    SlowResponseThresholdMs = 800
    Minute = 4
    Now <- MCNow
    Starts <- MCStarts
    Durations <- MCDurations
    FirstSeens <- MCFirstSeens
    Sites <- MCSites
    MaxIncidents = 3
    CacheTTL = 1
    PendingFor = 1
    BlipLimit = 1
    RecentLimit = 1
    RequestLimit = 1
    MaxClock = 3
    MaxOutages = 1
    MaxSections = 3
    MaxFetches = 2
SPECIFICATION DialogSpec
INVARIANTS
    NumbersTellHistory
    DialogTellsAnswer
    SectionKeepsUp
    ListKnowsIncident
PROPERTIES
    MoreOutagesNoBetter
CHECK_DEADLOCK FALSE
