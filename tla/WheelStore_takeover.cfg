\* A fetch and a takeover, whatever fails.
SPECIFICATION FairSpec
CONSTANTS
    c1 = c1  c2 = c2  c3 = c3
    None = None
    Clients = {c1, c3}
    Role <- OneRetry
    Host <- OneHost
    Wheels = {w1, w2, w3, w4, w5}
    Locks = {l1, l2, l3}
    MaxTouches = 1
    Starts = {"absent", "abandoned", "empty", "bad"}
    Faults = {"age", "crash", "lock", "disk", "network", "touch"}
PROPERTIES
    LiveLockStays
    OperationsEnd
