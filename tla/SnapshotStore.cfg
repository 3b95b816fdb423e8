\* Everything goes wrong, and the horizon passes between the calls.
SPECIFICATION Spec
CONSTANTS
    c1 = c1  c2 = c2  c3 = c3
    r1 = r1  r2 = r2
    None = None
    Callers = {c1, c2, c3}
    Reapers = {r1, r2}
    Full = {c3}
    MaxTrees = 3
    MaxHorizons = 1
    MaxCrashes = 1
    Faults = {"git", "disk", "stamp", "damage"}
SYMMETRY Symmetry
INVARIANTS
    TypeOK
    NothingIsLost
    ClonesAreNeeded
    LockedHitsKeepTheirTree
