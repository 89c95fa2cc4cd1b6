SPECIFICATION Spec
CONSTANTS
    Unit = 4
    Lanes = {1, 2, 4, 8}
    LEN_1D = 256
    LEN_2D = 32
    BenchRuns <- AllBench
    MicroRuns <- AllMicro
INVARIANTS
    SameAsScalar
    InBounds
    DependencySignature
