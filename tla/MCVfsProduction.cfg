SPECIFICATION Spec
CONSTANTS
    p1 = p1
    p2 = p2
    Procs = {p1, p2}
    ArchOf <- Archs
    Benches = 2
    VFs = {v1}
INVARIANTS
    OneWriter
    ReadsItsOwn
CHECK_DEADLOCK FALSE
