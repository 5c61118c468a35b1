\* Windows and POSIX: crashes, and runs longer than the stale limit.
SPECIFICATION LockFairSpec
CONSTANTS
    p1 = p1
    p2 = p2
    p3 = p3
    Process <- MCProcess
    LongRuns = TRUE
    MaxLockCrashes = 2
INVARIANTS LockTypeOK MutualExclusion HolderHasFile
PROPERTY StaleLockRemoved
