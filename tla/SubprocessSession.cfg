SPECIFICATION Spec
CONSTANTS
    a = a
    b = b
    w1 = w1
    w2 = w2
    main = main
    helper = helper
    None = None
    Main = main
    Workers <- TwoWorkers
    Threads <- TwoThreads
    Executors <- TwoThreads
    Starters <- NoThread
    Stoppers <- TwoThreads
    Overlap = FALSE
    HasTimeout = TRUE
    Interrupts = FALSE
    MaxRuns = 2
    Helpers <- NoHelper
    MaxTools = 2
    Children = TRUE
CHECK_DEADLOCK FALSE
INVARIANTS
    TypeOK
    SessionInv
    ToolAwaited
    AnswerInv
PROPERTY ImplementsContract
