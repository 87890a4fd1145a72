CONSTANTS
    Keys = {HOME, PORTAL}
    Monitored = {PORTAL}
    Statuses <- MCOneStatus
    None = None
    Subs = {c1, c2}
    MaxCycle = 2
SPECIFICATION StreamSpec
INVARIANTS
    NoSendOnClosed
    SnapshotAge
    NoMissedSignal
    CaughtUpAfterSignal
    ChannelsOfHandlers
PROPERTIES
    SignalTakenUp
