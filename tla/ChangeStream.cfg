SPECIFICATION FairSpec
CONSTANTS
    MaxSeq = 3
    MaxFaults = 3
    CheckMayFail = FALSE
INVARIANTS
    NeverSkip
PROPERTIES
    EveryChangeArrives
    ConsumesTheJournal
CHECK_DEADLOCK FALSE
