SPECIFICATION Spec
CONSTANTS
    MaxRuns = 2
    JobsRun <- AllJobs
INVARIANTS
    VerdictTrue
    MeasuredByItself
CHECK_DEADLOCK FALSE
