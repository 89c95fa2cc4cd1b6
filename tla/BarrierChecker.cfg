SPECIFICATION CheckerSpec
CONSTANTS
    Threads = {0, 1, 2}
    Rounds = 4
    Spin = TRUE
    MaxSpurious = 1
INVARIANTS
    TypeOK
    RoundsApart
    NoLostWakeup
    SameAfterEachStep
PROPERTIES
    KeepsPromise
    EveryoneGetsThrough
