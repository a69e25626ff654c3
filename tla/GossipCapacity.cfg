SPECIFICATION Spec
CONSTANTS
    Origins = {a, b}
    Grids = {g}
    NoGrid = NoGrid
    Networks = {n}
    NoNetwork = NoNetwork
    Names = {p}
    Keys = {k}
    NoKey = NoKey
    Unpinned = Unpinned
    NoOwner = NoOwner
    Lanes = {"cert", "signals"}
    Broadcasts <- AllBroadcasts
    MaxOrigins = 1
    MaxScopes = 1
    FirstCap = 1
    LastCap = 2
    MaxRevision = 2
    MaxSpend = 1
    Signers = {k}
    StateSize = 1
SYMMETRY OriginSymmetry
INVARIANTS
    TypeOK
    SitesSpeakForThemselves
    WithinCapacity
PROPERTIES
    PinnedSurvivePressure
    RevisionsOnlyAdvance
    SpendNeverFalls
