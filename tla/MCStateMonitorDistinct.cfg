CONSTANTS
    Keys = {PORTAL, NOTICE}
    Monitored = {PORTAL}
    Statuses <- MCUpDown
    None = None
    BaselineFaults = {"load", "save"}
    Subs = {mon}
    MonitorCh = mon
    MaxCycle = 3
    Confirmations = 2
SPECIFICATION MonSpec
PROPERTIES
    DistinctChecks
