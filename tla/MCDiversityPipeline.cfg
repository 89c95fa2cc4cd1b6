SPECIFICATION FairSpec
CONSTANTS
    f1 = f1
    f2 = f2
    f3 = f3
    s1 = s1
    s2 = s2
    Funcs = {f1, f2, f3}
    Sources = {s1, s2}
    SourceOf <- TwoShareOne
    Parallelism = 2
    MaxSessions = 1
INVARIANTS TypeOK PermitsBalanced WholeModuleRead ShownIsFinished
PROPERTIES CompiledOnce EverySessionEnds
