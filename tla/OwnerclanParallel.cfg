\* Two faults; a category is given up after two failures, and the server
\* repeats a cursor of the other one.
SPECIFICATION FairSpec
CONSTANTS
    w1 = w1
    w2 = w2
    Worker <- MCWorker
    NumCategories = 2
    MaxPage = 2
    Follow <- Looping
    MaxCategoryFailures = 2
    MaxFaults = 2
INVARIANTS TypeOK ResumePointBehindSaves CollectedWhenCleared OneOwner NoPageSavedTwice FailuresBounded
PROPERTIES ProgressKept EventuallyFinished PassSpec
