\* One run dies; the second list ends with an empty page.
SPECIFICATION FairSpec
CONSTANTS
    NumPositions = 3
    FullPages <- FullThenEmpty
    ShortEnds <- FirstShort
    Ranked = {1, 3}
    MaxRetries = 2
    FlushPages = 2
    PageLimit = 9
    MaxPages = 9
    Vanishing = {}
    MaxListChanges = 0
    MaxStops = 0
    MaxSaveErrors = 0
    MaxCrashes = 1
INVARIANT ResumePointBehindSaves
