SPECIFICATION Spec
CONSTANTS
    Origins = {a}
    Grids = {g1, g2}
    NoGrid = NoGrid
    Networks = {n1, n2}
    NoNetwork = NoNetwork
    Names = {p}
    Keys = {k1, k2}
    NoKey = NoKey
    Unpinned = Unpinned
    NoOwner = NoOwner
    Lanes = {}
    Broadcasts <- AllBroadcasts
    MaxOrigins = 1
    MaxScopes = 2
    FirstCap = 2
    LastCap = 2
    MaxRevision = 2
    MaxSpend = 1
    Signers = {k1, k2}
    StateSize = 1
SYMMETRY TrustSymmetry
INVARIANTS
    OnlyVerified
    EnforcedStateIsTrusted
