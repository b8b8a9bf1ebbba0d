CONSTANTS
    None = None
    Controllers = {a, b, c}
    Lanes = {first}
    MaxFaults = 3
SPECIFICATION FairSpec
INVARIANTS StoresAgree NothingReleasable
PROPERTIES KeepsPromise Settles
CHECK_DEADLOCK FALSE
