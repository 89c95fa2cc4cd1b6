SPECIFICATION Spec
CONSTANTS
    b1 = b1
    short = short
    long = long
    vf4 = vf4
    Nothing = nothing
    Benchmarks = {b1}
    Lens = {short, long}
    Factors = {vf4}
    Offered <- OfferedAlways
    MaxVersion = 0
    MaxSessions = 2
INVARIANTS NoCacheIsFresh
