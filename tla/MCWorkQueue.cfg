SPECIFICATION QueueSpec
CONSTANTS
    a1 = a1
    a2 = a2
    r1 = r1
    m1 = m1
    m2 = m2
    Tasks <- MCTasks
    KindOf <- MCKindOf
    Foldable <- MCFoldable
INVARIANTS
    QueueTypeOK
    OneAtATime
    NothingStranded
    BlockedHoldsOnlyRecovery
PROPERTIES
    StartsInOrder
    EveryCallerHears
