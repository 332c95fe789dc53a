SPECIFICATION FairSpec
CONSTANTS
    u1 = u1
    u2 = u2
    Units <- MCUnits
    MaxSeq = 2
    MaxContent = 1
    MaxBuild = 1
    Reinstalled = {}
    MaxFaults = 2
INVARIANTS
    MixedTreeIsNotTrusted
    SavedTreeIsCurrent
    ReuseIsSound
    SeqFoldedIntoSnapshot
PROPERTIES
    CommitsNeverRegress
    EverythingReachesTheTree
