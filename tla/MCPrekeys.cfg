SPECIFICATION Spec
CONSTANTS
    p = p
    q = q
    None = None
    Peers = {p, q}
    Threads = {"chain", "replenish", "effect", "removal"}
    Ceiling = 3
    ClaimLimit = 1
    MaxSealTokens = 2
    MaxClock = 2
    LowWater = 1
    Target = 2
    Modes <- MCModes
INVARIANTS
    FirstMessageOpens
    ClaimsAreLimited
PROPERTY
    TokenSettles
CHECK_DEADLOCK FALSE
