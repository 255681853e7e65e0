SPECIFICATION FairSpec
CONSTANTS
    a = a
    b = b
    w1 = w1
    w2 = w2
    main = main
    helper = helper
    None = None
    Main = main
    Workers <- OneWorker
    Threads <- TwoThreads
    Executors <- TwoThreads
    Starters <- NoThread
    Stoppers <- OneThread
    Overlap = TRUE
    HasTimeout = TRUE
    Interrupts = FALSE
    MaxRuns = 2
    Helpers <- OneHelper
    MaxTools = 1
    Children = FALSE
CHECK_DEADLOCK FALSE
INVARIANT OwnAnswer
PROPERTY CallsReturn
