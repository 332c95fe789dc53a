SPECIFICATION FairSpec
CONSTANTS
    Functions = {1, 2}
    Callers <- MCCallers
    CheckIns <- MCCheckIns
    SeqPerVersion = 4
    Limit = 2
    MaxEvents = 2
    Modes = {"remote", "checkout"}
    MaxVersion = 3
    MaxFaults = 2
INVARIANTS
    NothingSkipped
    CallersReread
    OtherChangesStop
    BatchReadsItsVersion
    AnswersAreTheHistory
PROPERTY
    CatchesUp
CHECK_DEADLOCK FALSE
