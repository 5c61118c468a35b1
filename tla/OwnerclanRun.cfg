\* Two items, a change and a page at a time.
SPECIFICATION FairSpec
CONSTANTS
    NumItems = 2
    MaxTime = 3
    Overlap = 1
    Lag = 1
    Histories = TRUE
    MaxAttempts = 2
    MaxFailureRestarts = 1
    MaxFaults = 1
INVARIANTS TypeOK NothingSkipped
PROPERTY RunReturns
