SPECIFICATION FairSpec
CONSTANTS
    p1 = p1
    p2 = p2
    Procs = {p1}
    ArchOf <- SameArch
    Benches = {b1, b2}
    VFs = {v1}
    Default = Default
    MaxWorkers = 2
    Outcomes <- AllOutcomes
    MaxMinute = 1
INVARIANTS TypeOK AggregateComplete ExitMatchesRows
PROPERTIES EveryRunEnds KeepsPromise
