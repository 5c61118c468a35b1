\* A run is stopped in the first category, which is then dropped.
SPECIFICATION FairSpec
CONSTANTS
    NumPositions = 3
    FullPages <- FullThenEmpty
    ShortEnds <- FirstShort
    Ranked = {1, 3}
    MaxRetries = 2
    FlushPages = 2
    PageLimit = 9
    MaxPages = 9
    Vanishing = {1}
    MaxListChanges = 1
    MaxStops = 2
    MaxSaveErrors = 0
    MaxCrashes = 0
INVARIANT ResumePointBehindSaves
