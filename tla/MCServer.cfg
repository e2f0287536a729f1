CONSTANTS
    Conns = {c1, c2}
    Hosts = {"library", "daemon"}
    Limits = {1, 2}
    MaxRequests = 1
SPECIFICATION FairSpec
INVARIANTS
    ThreadBudget
    SlotsReturned
    QuietAfterStop
    JoinedAtEnd
    NothingLostOnStop
PROPERTIES
    ImplementsService
    StopCompletes
CHECK_DEADLOCK FALSE
