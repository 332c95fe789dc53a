SPECIFICATION FairSpec
CONSTANTS
    Setups = {"commit", "merge", "publish"}
    MaxSeq = 2
    MaxFaults = 3
CHECK_DEADLOCK FALSE
INVARIANT ReachedIsCommitted
PROPERTY OnlyTrustedIsGenerated
PROPERTY EveryStopIsLeft
