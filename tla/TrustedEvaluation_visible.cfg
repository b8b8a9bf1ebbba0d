CONSTANTS
    None = None
    Controllers = {a, b}
    Lanes = {first}
    MaxFaults = 2
SPECIFICATION Spec
INVARIANTS NamedReleaseVisible
CHECK_DEADLOCK FALSE
