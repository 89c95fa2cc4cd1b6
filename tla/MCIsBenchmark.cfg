SPECIFICATION BenchSpec
CONSTANTS
    NT = 3
    NUM_KEYS = 6
    MAX_KEY = 4
    NUM_BUCKETS = 2
    MAX_ITERATIONS = 2
    TestIndices <- Tests
    Arrays <- AllArrays
    Half = 3
    MaxThreads = 4
    Seeds = {1, 27, 62}
    Multipliers = {13, 29, 33, 61}
INVARIANTS
    KeysAsInSequence
    PointersAgree
    RanksRight
    Verified
