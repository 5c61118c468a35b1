\* The flush behind the last position raises.
SPECIFICATION FairSpec
CONSTANTS
    NumPositions = 3
    FullPages <- FullThenEmpty
    ShortEnds <- FirstShort
    Ranked = {1, 3}
    MaxRetries = 2
    FlushPages = 2
    PageLimit = 9
    MaxPages = 9
    Vanishing = {}
    MaxListChanges = 0
    MaxStops = 0
    MaxSaveErrors = 1
    MaxCrashes = 0
INVARIANT NeverMuchFetchedAgain
