CONSTANTS
    Kinds = {"verdict", "embed"}
    Limit <- MCLimit
    MaxMonth = 1
    AnalysisDelay = 2
    EnrichLimit = 2
    GetLimit = 1
    HandlerLimit = 1
    MinGap = 1
    Cooldown = 4
    FlapLimit = 2
    PendingFor = 7
    Enabled = TRUE
    Faults = TRUE
    MaxClock = 8
    MaxIncidents = 2
    MaxReanalyze = 1
    MaxRuns = 2
    Callers = {c1, c2, c3}
    Refunded = {"verdict"}
    FailuresBilled = TRUE
    MaxBilled = 3
SPECIFICATION AllSpec
INVARIANTS
    AnalysesTypeOK
    
    PendingWhileAnalysing
    EmbeddingsOutlive
    SpendAccounted
PROPERTIES
    VerdictNotDowngraded
    WhatIsMissing
