CONSTANTS
    None = None
    a = a
    b = b
    c = c
    Controllers = {a, b}
    MaxCommits = 1
    MaxFaults = 0
SPECIFICATION Spec
INVARIANTS FenceRetainsCommitted
CHECK_DEADLOCK FALSE
