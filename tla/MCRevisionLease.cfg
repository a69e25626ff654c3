SPECIFICATION Spec
CONSTANTS
    Procs = {p1, p2}
    Millis = {1, 4}
    Nanos = {1}
    Size = 2
    Skew = 1
    GenerationSize = 2
    MaxGeneration = 5
    Attempts = 2
    MaxVersion = 3
SYMMETRY Symmetry
INVARIANTS
    TypeOK
    NeverReused
    GenerationsNeverShared
    PersistedBeforeUse
PROPERTIES
    OwnRevisionsIncrease
