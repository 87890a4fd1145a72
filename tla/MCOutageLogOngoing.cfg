CONSTANTS
    Keys = {PORTAL}
    Monitored = {PORTAL}
    Statuses <- MCUpDown
    None = None
    BaselineFaults = {}
    BlipThreshold = 6
    AnalysisDelay = 9
    HandlerLimit = 2
    SaveLimit = 1
    MinGap = 2
    HandlersFail = FALSE
    MaxClock = 14
    MaxCrashes = 0
SPECIFICATION LogSpec
INVARIANTS
    OngoingIsUnresolved
