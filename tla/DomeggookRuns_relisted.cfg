\* The fixed collection lists anew before it goes on with its details.
SPECIFICATION FairSpec
CONSTANTS
    Product <- MCProduct
    Schedules <- MCSchedules
    Budget = 2
    BatchSize = 1
    MaxAttempts = 2
    ProductLimit = 1
    MaxFaults = 2
    NumPositions = 3
    Category <- MCCategory
    Listings <- MCListings
    CategoryLimit = 2
    MaxTime = 4
INVARIANT DetailsWholeAlways
