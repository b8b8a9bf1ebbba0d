CONSTANTS
    None = None
    a = a
    b = b
    c = c
    Controllers = {a, b, c}
    MaxCommits = 2
    MaxFaults = 2
SPECIFICATION FairSpec
INVARIANTS HeadWithinReach
PROPERTIES KeepsPromise Reclaimed
CHECK_DEADLOCK FALSE
