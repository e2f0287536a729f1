CONSTANTS
    Conns = {c1, c2}
    Hosts = {"daemon"}
    Limits = {1, 2}
    MaxRequests = 1
SPECIFICATION FairSpec
PROPERTY SignalStops
CHECK_DEADLOCK FALSE
