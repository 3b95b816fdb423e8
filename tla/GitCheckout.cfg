\* Every fault, a crash with a restart, and the loss of the marker.
SPECIFICATION FairSpec
CONSTANTS
    p1 = p1  p2 = p2
    t1 = t1  t2 = t2  t3 = t3
    i1 = i1  i2 = i2
    None = None
    Partial = Partial
    Procs = {p1, p2}
    Tasks = {t1, t2, t3}
    Home <- MCHome
    Identities = {i1, i2}
    Ident <- MCIdent
    MaxCrashes = 1
    Faults = {"git", "disk", "lock", "unlock", "cancel", "erase"}
INVARIANTS
    TypeOK
    MarkedTreeIsWhole
    OneInitializer
PROPERTIES
    SharedTreeSpec
    CallsEnd
