\* More builds than tokens: one of three holds the only token, so the fair share
\* of the others is zero.  A process crashes, callers are cancelled and leases
\* expire; the registry itself works.
SPECIFICATION FairSpec
CONSTANTS
    p1 = p1  p2 = p2  p3 = p3
    b1 = b1  b2 = b2  b3 = b3
    Procs = {p1, p2, p3}
    Builds = {b1, b2, b3}
    NoBuild = NoBuild
    Owner <- OwnerEach
    Want <- MCWant
    Override <- NoOverride
    Budget <- MCBudget
    Nonces = {n1}
    MaxBudget = 1
    MaxCrashes = 1
    MaxNonceAttempts = 1
    Faults = {"crash", "cancel"}
INVARIANTS
    RunningChildrenCharged
PROPERTIES
    AcquireTerminates
    LeasesAreReturned
