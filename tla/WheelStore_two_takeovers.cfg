\* Two takeovers beside one fetch.
SPECIFICATION Spec
CONSTANTS
    c1 = c1  c2 = c2  c3 = c3
    None = None
    Clients = {c2, c3}
    Role <- TwoRetries
    Host <- OneHost
    Wheels = {w1, w2, w3, w4, w5, w6}
    Locks = {l1, l2, l3, l4}
    MaxTouches = 0
    Starts = {"abandoned"}
    Faults = {"age"}
PROPERTIES
    LiveLockStays
