\* One bundle whose payload is overwritten, and one step of its repair fails.
SPECIFICATION Spec
CONSTANTS
    p1 = p1  p2 = p2
    b1 = b1  b2 = b2
    d1 = d1  d2 = d2
    None = None
    Procs = {p1}
    Bundles = {b1}
    Dists = {d1, d2}
    Locked <- MCLocked
    Direct = FALSE
    MaxAttempts = 3
    MaxDigest = 1
    MaxTroubles = 2
PROPERTIES
    DivergenceFollowsAReplay
