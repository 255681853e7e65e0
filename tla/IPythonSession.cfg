SPECIFICATION FairSpec
CONSTANTS
    MaxRuns = 2
    MaxTools = 3
    MaxMessages = 3
    Settings <- AllSettings
CHECK_DEADLOCK FALSE
INVARIANTS
    TypeOK
    NoLeak
    OwnAnswer
PROPERTIES
    ToolOfCell
    ImplementsContract
    CallsReturn
