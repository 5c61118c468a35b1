\* Three faults and two limited runs, of any limits.
SPECIFICATION FairSpec
CONSTANTS
    NumCategories = 3
    MaxPage = 2
    Follow <- Mixed
    MaxFaults = 3
    MaxLimitedRuns = 2
PROPERTIES StateOnlyAdvances EventuallyFinished PassSpec
