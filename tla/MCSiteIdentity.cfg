SPECIFICATION SiteSpec
CONSTANTS
    Tokens = {t1, t2}
    Names = {site}
    Site = site
    Reserved = {}
    Keys = {k1, k2, k3, k4, k5, other}
    BoundKeys = {other}
    Requests = {r1, r2}
    Minters = {m1}
    MaxClock = 2
    MaxGeneration = 0
    MaxLosses = 1
    Nil = Nil
INVARIANTS
    NeverFreezesItself
    RejectionIsHonest
PROPERTY DueIsRenewed
CHECK_DEADLOCK FALSE
