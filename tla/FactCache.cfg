SPECIFICATION Spec
CONSTANTS
    Funs = {f1, f2}
    Shown = {"code", "name"}
    MaxValue = 1
    MaxEdits = 3
    MaxRuns = 2
    MaxScript = 1
INVARIANTS
    CurrentMeansRight
    StampNeverNewer
    QuietRunIsRight
CHECK_DEADLOCK FALSE
