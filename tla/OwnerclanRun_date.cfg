\* Syncs that stop at a limit or a repeated cursor, or begin without a date,
\* move the date all the same.
SPECIFICATION Spec
CONSTANTS
    NumItems = 2
    MaxTime = 2
    Overlap = 0
    Lag = 0
    Histories = FALSE
    MaxAttempts = 1
    MaxFailureRestarts = 0
    MaxFaults = 1
INVARIANT DateBehindSaves
