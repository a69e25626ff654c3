SPECIFICATION Spec
CONSTANTS
    Contents = {c1}
    Policies = {"open"}
    Others = {}
    BroadcastCap = 1
    WithdrawCap = 1
    UpdateCap = 2
INVARIANT WithdrawalIsLastWord
