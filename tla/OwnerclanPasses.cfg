\* A pass of parallel runs, then one put together from runs of both kinds.
SPECIFICATION Spec
CONSTANTS
    w1 = w1
    w2 = w2
    Worker <- MCWorker
    NumCategories = 2
    MaxPage = 1
    Follow <- Short
    MaxCategoryFailures = 2
    MaxFaults = 2
    MaxLimitedRuns = 1
    MaxPasses = 2
    Modes <- ParallelFirst
SYMMETRY Symmetry
INVARIANTS PassIsWhole EitherMayGoOn
