\* Two savers that meet the same products, two batches, one newer run.
SPECIFICATION MCSpec
CONSTANTS
    s1 = s1
    s2 = s2
    p1 = p1
    p2 = p2
    Saver = {s1, s2}
    Product = {p1, p2}
    Reports <- MCReports
    Volatile = {"updatedAt"}
    Supply <- Shared
    MaxBatches = 2
    MaxRuns = 1
    MaxFaults = 1
INVARIANTS HistoryWithProduct ChangesOnly LatestIsSaved
PROPERTY BatchEnds
