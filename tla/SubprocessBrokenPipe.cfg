SPECIFICATION Spec
CONSTANTS
    a = a
    b = b
    w1 = w1
    w2 = w2
    main = main
    helper = helper
    None = None
    Main = main
    Workers <- OneWorker
    Threads <- OneThread
    Executors <- OneThread
    Starters <- NoThread
    Stoppers <- OneThread
    Overlap = FALSE
    HasTimeout = TRUE
    Interrupts = FALSE
    MaxRuns = 2
    Helpers <- NoHelper
    MaxTools = 1
    Children = FALSE
CHECK_DEADLOCK FALSE
INVARIANT DocumentedErrors
