SPECIFICATION StoreSpec
CONSTANTS
    Tokens = {t1, t2}
    Names = {spoke, hub}
    Reserved = {hub}
    Keys = {k1, k2, k3}
    BoundKeys = {}
    Requests = {r1, r2}
    Minters = {m1, m2}
    MaxClock = 0
    MaxGeneration = 3
    Nil = Nil
SYMMETRY Symmetry
INVARIANTS
    TypeOK
    TokenIssuesOnce
    KeysNeverReused
    DeletedNameStaysOut
    OneUsableTokenPerName
PROPERTY RecordsMoveForward
CHECK_DEADLOCK FALSE
