SPECIFICATION Spec
CONSTANTS
    Valid = {v1, v2, v3}
    Invalid = {bad}
    MaxEvents = 3
    Nil = Nil
INVARIANTS
    ServesLastGood
    ReadyIsCurrent
PROPERTY SettlesOrSaysSo
