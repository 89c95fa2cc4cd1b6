SPECIFICATION Spec
CONSTANTS
    p1 = p1
    p2 = p2
    Procs = {p1, p2}
    ArchOf <- SameArch
    Benches = {b1}
    VFs = {v1}
    Default = Default
    MaxWorkers = 2
    Outcomes <- FewOutcomes
    MaxMinute = 2
INVARIANTS AggregateComplete ExportFindsTables
PROPERTIES RowsOnlyGrow
