SPECIFICATION FairSpec
CONSTANTS
    Proposals = {p1}
    Slots = {s1}
    Owner = Owner
    None = None
    MaxSeq = 3
    MaxFaults = 2
    Circumstances = {"abandons", "ordinary-fails", "commit-throws", "no-hold"}
PROPERTY EveryEditIsCommitted
