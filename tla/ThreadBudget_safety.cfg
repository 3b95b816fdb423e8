\* Every fault, also unreadable /proc entries, while the processes disagree
\* on the budget.
SPECIFICATION Spec
CONSTANTS
    p1 = p1  p2 = p2  p3 = p3
    b1 = b1  b2 = b2  b3 = b3
    Procs = {p1, p2}
    Builds = {b1, b2, b3}
    NoBuild = NoBuild
    Owner <- MCOwner
    Want <- MCWant
    Override <- NoOverride
    Budget <- MixedBudget
    Nonces = {n1, n2}
    MaxBudget = 3
    MaxCrashes = 2
    MaxNonceAttempts = 1
    Faults = {"crash", "cancel", "registry", "procfs"}
SYMMETRY NonceSymmetry
INVARIANTS
    TypeOK
    LeasesAreOwned
    BudgetRespected
PROPERTIES
    NewGrantFits
    TokenPoolSpec
