\* One run dies.
SPECIFICATION Spec
CONSTANTS
    NumKeywords = 3
    MaxRetries = 2
    MaxApiErrors = 0
    MaxFileErrors = 0
    MaxSaveErrors = 0
    MaxCrashes = 1
INVARIANT CheckpointBehindSaves
