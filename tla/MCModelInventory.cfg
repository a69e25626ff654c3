SPECIFICATION Spec
CONSTANTS
    MaxUid = 2
    Sizes <- SizeSeq
    MaxState = 3
    MaxClock = 2
    Ahead <- AheadSet
    Age = 1
    Skew = 1
    Ttl = 2
    InProgress = 2
    Pairs = 3
    Scopes = 2
INVARIANTS
    NeverReverts
    AdvertisedIsPublished
CHECK_DEADLOCK FALSE
