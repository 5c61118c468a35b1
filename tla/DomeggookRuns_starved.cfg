\* A fixed collection whose discovery uses up the budget of every run.
SPECIFICATION FairSpec
CONSTANTS
    Product <- MCProduct
    Schedules <- MCSchedules
    Budget = 2
    BatchSize = 2
    MaxAttempts = 2
    ProductLimit = 1
    MaxFaults = 0
    NumPositions = 3
    Category <- MCCategory
    Listings <- MCListings
    CategoryLimit = 3
    MaxTime = 4
PROPERTY RunsComplete
