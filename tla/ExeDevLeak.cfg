SPECIFICATION Spec
CONSTANTS
    a = a
    b = b
    v0 = v0
    v1 = v1
    v2 = v2
    None = None
    Threads <- TwoThreads
    Starters <- OneThread
    Stoppers <- TwoThreads
    VMs <- ThreeVMs
    Given = v0
    BadAnswers = TRUE
    NameOnly = FALSE
CHECK_DEADLOCK FALSE
INVARIANT VMsRemoved
