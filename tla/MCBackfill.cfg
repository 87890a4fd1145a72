CONSTANTS
    MaxTime = 4
    MaxSnapshots = 5
    MaxRuns = 2
    Afters = {0, 3}
    Faults = TRUE
    Live = TRUE
SPECIFICATION BackfillSpec
INVARIANTS
    TableTellsTrail
    OneRowEach
CHECK_DEADLOCK FALSE
