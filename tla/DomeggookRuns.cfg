\* Main runs of both modes, or fixed collections.
SPECIFICATION FairSpec
CONSTANTS
    Product <- MCProduct
    Schedules <- MCSchedules
    Budget = 2
    BatchSize = 2
    MaxAttempts = 2
    ProductLimit = 1
    MaxFaults = 2
    NumPositions = 3
    Category <- MCCategory
    Listings <- MCListings
    CategoryLimit = 2
    MaxTime = 4
INVARIANTS TypeOK DetailsWhole SampleWhole
PROPERTY RunsComplete
