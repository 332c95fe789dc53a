SPECIFICATION Spec
CONSTANTS
    MaxSeq = 3
    MaxFaults = 3
    CheckMayFail = TRUE
INVARIANTS
    TypeOK
    NoLostWakeup
CHECK_DEADLOCK FALSE
