SPECIFICATION FairSpec
CONSTANTS
    Contents = {c1}
    Policies = {"open"}
    Others = {}
    BroadcastCap = 1
    WithdrawCap = 1
    UpdateCap = 2
PROPERTY DeletionEnds
