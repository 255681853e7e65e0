SPECIFICATION FairSpec
CONSTANTS
    a = a
    b = b
    w1 = w1
    w2 = w2
    main = main
    helper = helper
    None = None
    Main = main
    Workers <- OneWorker
    Threads <- OneThread
    Executors <- OneThread
    Starters <- NoThread
    Stoppers <- NoThread
    Overlap = FALSE
    HasTimeout = TRUE
    Interrupts = FALSE
    MaxRuns = 1
    Helpers <- NoHelper
    MaxTools = 0
    Children = TRUE
CHECK_DEADLOCK FALSE
PROPERTY CallsReturn
