SPECIFICATION FairSpec
CONSTANTS
    Contents = {c1, c2}
    Policies = {"open", "signer"}
    Others = {"open", "strict"}
    BroadcastCap = 1
    WithdrawCap = 1
    UpdateCap = 2
INVARIANT TypeOK
PROPERTIES
    SilentWhilePending
    FreshStateIsSigned
    GoneMeansWithdrawn
    DeletionCompletes
    StatePublished
