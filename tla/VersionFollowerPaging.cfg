SPECIFICATION Spec
CONSTANTS
    Functions = {1, 2}
    Callers <- MCCallers
    CheckIns <- MCCheckIns
    SeqPerVersion = 4
    Limit = 1
    MaxEvents = 2
    Modes = {"remote"}
    MaxVersion = 2
    MaxFaults = 1
INVARIANT
    NothingSkipped
CHECK_DEADLOCK FALSE
