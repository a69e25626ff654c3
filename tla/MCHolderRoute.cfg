SPECIFICATION RouteSpec
CONSTANTS
    Replicas = {r1, r2}
    NoHolder = NoHolder
    LEASE_DURATION = 3
    RENEW_DEADLINE = 2
    WRITE_TIMEOUT = 1
    EndsAbruptly = FALSE
    MaxTime = 5
    MaxSliceVersion = 2
SYMMETRY Symmetry
INVARIANTS
    LandedRouteStands
