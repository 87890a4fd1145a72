CONSTANTS
    MaxTime = 4
    MaxSnapshots = 5
    MaxRuns = 2
    Afters = {0, 3}
    Faults = FALSE
    Live = FALSE
SPECIFICATION BackfillSpec
INVARIANT
    HistoryReconstructed
CHECK_DEADLOCK FALSE
