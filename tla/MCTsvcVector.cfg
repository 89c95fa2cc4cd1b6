SPECIFICATION Spec
CONSTANTS
    LEN_1D = 39
    LEN_2D = 7
    Strip = 12
    VFs = {2, 4, 8, 16}
    Masks <- FourMasks
    Chosen <- Everyone
INVARIANTS
    Vectorizable
    RecurrencesAreReal
    InBounds
