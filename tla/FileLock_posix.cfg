\* POSIX: one crashed run, recovered from by several processes at once.
SPECIFICATION LockSpec
CONSTANTS
    p1 = p1
    p2 = p2
    p3 = p3
    Process <- MCProcess
    LongRuns = FALSE
    MaxLockCrashes = 1
INVARIANT OneHolder
