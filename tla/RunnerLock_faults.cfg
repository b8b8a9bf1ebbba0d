SPECIFICATION FairSpec
CONSTANTS
    None = None
    p1 = p1
    p2 = p2
    p3 = p3
    Runners = {p1, p2, p3}
    MaxAttempts = 1
    MaxFaults = 2
INVARIANTS
    MutualExclusion
    HolderNamed
PROPERTIES
    StaleLockReclaimed
