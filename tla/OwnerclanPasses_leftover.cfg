\* Two passes, of runs of both kinds.
SPECIFICATION Spec
CONSTANTS
    w1 = w1
    w2 = w2
    Worker <- MCWorker
    NumCategories = 2
    MaxPage = 1
    Follow <- Short
    MaxCategoryFailures = 2
    MaxFaults = 1
    MaxLimitedRuns = 0
    MaxPasses = 2
    Modes <- AnyRuns
SYMMETRY Symmetry
INVARIANT PassIsWhole
