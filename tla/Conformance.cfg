SPECIFICATION Spec
CONSTANTS
    ColdRuns <- Cold
    WarmRuns <- Warm
    MaxFaults = 2
INVARIANTS
    TypeOK
    Distinguishes
    SessionsShut
    ReportComplete
