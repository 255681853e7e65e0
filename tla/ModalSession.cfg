SPECIFICATION FairSpec
CONSTANTS
    a = a
    b = b
    w1 = w1
    w2 = w2
    main = main
    None = None
    Main = main
    Workers <- TwoWorkers
    Threads <- TwoThreads
    Executors <- TwoThreads
    Starters <- OtherThread
    Stoppers <- OneThread
    Settings <- BothSettings
    MaxRuns = 2
    Helpers <- NoHelper
    MaxTools = 1
    Children = TRUE
CHECK_DEADLOCK FALSE
INVARIANTS
    TypeOK
    NoLeak
    NoOrphan
    OneNamespace
    OneReader
PROPERTIES
    ImplementsContract
    CallsReturn
