SPECIFICATION FairSpec
CONSTANTS
    Lists <- MCLists
    Order = Order
    BatchSize = 2
    CheckIns <- MCCheckIns
    MaxVersion = 3
    MaxFaults = 2
INVARIANTS
    CommitIsOfItsVersion
PROPERTIES
    CountedIsEvidence
    StaleIsRepaired
CHECK_DEADLOCK FALSE
