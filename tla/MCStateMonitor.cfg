CONSTANTS
    Keys = {PORTAL}
    Monitored = {PORTAL}
    Statuses <- MCAllStatuses
    None = None
    BaselineFaults = {"load", "save"}
    Subs = {mon}
    MonitorCh = mon
    MaxCycle = 5
    Confirmations = 2
SPECIFICATION MonSpec
INVARIANTS
    QuietMeansCaughtUp
    AlertTellsBaseline
PROPERTIES
    AlertsAlternate
    FeedImplemented
