\* Two fetches of one wheel beside one that is persisted or looked up, over any
\* entry, while locks fail, processes die and the wheel is touched and damaged.
SPECIFICATION Spec
CONSTANTS
    c1 = c1  c2 = c2  c3 = c3
    None = None
    Clients = {c1, c2, c3}
    Role <- Mixed
    Host <- OneHost
    Wheels = {w1, w2, w3, w4, w5, w6}
    Locks = {l1, l2, l3, l4}
    MaxTouches = 1
    Starts = {"absent", "good", "attested", "bad"}
    Faults = {"touch", "damage", "lock", "crash"}
SYMMETRY Fetchers
INVARIANTS
    TypeOK
    OnlyRightBytes
    OneFiller
PROPERTIES
    GoodWheelStays
