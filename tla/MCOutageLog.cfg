CONSTANTS
    Keys = {PORTAL}
    Monitored = {PORTAL}
    Statuses <- MCUpDown
    None = None
    BaselineFaults = {"load", "save"}
    BlipThreshold = 6
    AnalysisDelay = 9
    HandlerLimit = 2
    SaveLimit = 1
    MinGap = 2
    HandlersFail = TRUE
    MaxClock = 11
    MaxCrashes = 1
SPECIFICATION LogSpec
INVARIANTS
    NoVerdictOnBlip
    LogSettles
PROPERTIES
    NoRefire
