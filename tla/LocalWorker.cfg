SPECIFICATION FairSpec
CONSTANTS
    Window = 2
    MaxItems = 3
    MaxRuns = 2
    MaxPolls = 2
    MaxVersion = 2
    MaxFaults = 2
INVARIANTS
    ResultsAreRight
    NoReadStraddles
    ReadsFollowTheChanges
PROPERTY
    EveryCallReturns
CHECK_DEADLOCK FALSE
