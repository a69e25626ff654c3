SPECIFICATION Spec
CONSTANTS
    Replicas = {r1, r2}
    Gated = {r1, r2}
    NoHolder = NoHolder
    LEASE_DURATION = 3
    RENEW_DEADLINE = 2
    MaxTime = 5
    MaxVersion = 3
SYMMETRY Symmetry
INVARIANTS
    TypeOK
    HolderIsNamed
    AtMostOneHolder
PROPERTIES
    GateIsAskedAnew
    TakeoverWaits
    ImplementsLease
