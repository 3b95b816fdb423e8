\* Two activations, of one bundle or of two that share a distribution, while
\* steps fail, processes die, locks change and the environment is changed.
SPECIFICATION Spec
CONSTANTS
    p1 = p1  p2 = p2
    b1 = b1  b2 = b2
    d1 = d1  d2 = d2
    None = None
    Procs = {p1, p2}
    Bundles = {b1, b2}
    Dists = {d1, d2}
    Locked <- MCLocked
    Direct = FALSE
    MaxAttempts = 1
    MaxDigest = 2
    MaxTroubles = 2
SYMMETRY Symmetry
INVARIANTS
    TypeOK
    UnfinishedReplaysAreDistrusted
    ReplaysAreSerial
    GrantsAreWithinBudget
    RolledBackIsOwnedOrAbsent
