SPECIFICATION FairSpec
CONSTANTS
    a = a
    b = b
    w1 = w1
    w2 = w2
    main = main
    helper = helper
    None = None
    Main = main
    Workers <- TwoWorkers
    Threads <- OneThread
    Executors <- OneThread
    Starters <- OneThread
    Stoppers <- OneThread
    Overlap = FALSE
    HasTimeout = FALSE
    Interrupts = TRUE
    MaxRuns = 2
    Helpers <- NoHelper
    MaxTools = 1
    Children = TRUE
CHECK_DEADLOCK FALSE
INVARIANTS
    NoOrphan
    NoLeak
    OneNamespace
PROPERTIES
    DeadWorkerNoticed
    EndKills
