CONSTANTS
    p1 = p1
    p2 = p2
    a = a
    b = b
    None = None
    Procs = {p1, p2}
    Outputs = {a, b}
    MaxFp = 1
    Worlds <- ThreeWorlds
    Content <- MovesOnce
    FirstWorld = 0
    FirstLocks <- SomeLocks
    Faults = {"lock", "write"}
    Bounds <- Few
SPECIFICATION Spec
SYMMETRY Symmetric
CHECK_DEADLOCK FALSE
INVARIANTS
    TypeOK
    AnswersHaveRecords
    FreshIdentitiesAreBuilt
    IncrementalAnswersKeepTheirPlans
    LockedComputationsAreFirst
