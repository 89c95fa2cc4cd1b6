SPECIFICATION Spec
CONSTANTS
    MaxRuns = 1
    JobsRun <- GemKernels
INVARIANTS
    KernelIsMeasured
CHECK_DEADLOCK FALSE
