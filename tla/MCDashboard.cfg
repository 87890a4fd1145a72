CONSTANTS
    Sites = {home, ecampus}
    MaxChecks = 2
    MaxWire = 2
    MaxBreaks = 1
SPECIFICATION DashboardSpec
INVARIANTS
    NoticeBeforeFirstEvent
PROPERTIES
    CardsFollowFeed
    LiveWhileConnected
