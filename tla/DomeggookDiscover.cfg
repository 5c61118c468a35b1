\* Runs stop and die, flushes raise.
SPECIFICATION FairSpec
CONSTANTS
    NumPositions = 3
    FullPages <- WithEmpty
    ShortEnds <- FirstShort
    Ranked = {1, 3}
    MaxRetries = 2
    FlushPages = 2
    PageLimit = 4
    MaxPages = 3
    Vanishing = {2, 3}
    MaxListChanges = 1
    MaxStops = 2
    MaxSaveErrors = 2
    MaxCrashes = 2
INVARIANTS ResumePointBehindSaves LittleFetchedAgain
PROPERTIES PassEnds PassSpec
