CONSTANTS
    Clients = {a, b}
    Ops <- MCOps
    MaxCalls = 2
    MaxTries = 2
    MaxGeneration = 4
    None = None
SPECIFICATION FairSpec
INVARIANTS
    AtMostOnce
    OkMeansApplied
    RefusalIsFinal
PROPERTY
    CallReturns
CHECK_DEADLOCK FALSE
