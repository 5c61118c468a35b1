\* Three keywords, two of every fault, and enough API errors to exhaust
\* the attempts of one.
SPECIFICATION FairSpec
CONSTANTS
    NumKeywords = 3
    MaxRetries = 2
    MaxApiErrors = 4
    MaxFileErrors = 2
    MaxSaveErrors = 1
    MaxCrashes = 2
INVARIANTS SavedUnlessInterrupted FewSearchedAgain
PROPERTY PassEnds
