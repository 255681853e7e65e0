SPECIFICATION Spec
CONSTANTS
    p = p
    q = q
    t = t
    x = x
    Sessions <- TwoSessions
    Hosts <- Pairs
    Names <- TwoNames
    Grants <- PChanges
    Inputs <- OneInput
    FieldLists <- PDeclares
    Calls <- SmallCalls
    MaxDepth = 3
INVARIANTS
    TypeOK
    OwnOutput
    ModuleRestored
    OwnRouter
    SubmitExact
    Portable
PROPERTY Authorised
