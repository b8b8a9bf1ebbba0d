SPECIFICATION FairSpec
CONSTANTS
    None = None
    MaxFaults = 3
    MaxForeign = 3
CHECK_DEADLOCK FALSE
INVARIANTS
    RecordedAfterLanding
PROPERTIES
    Completes
