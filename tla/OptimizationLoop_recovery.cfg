CONSTANTS
    None = None
    Auths = {a1}
    InitialLimit = 1
    InitialFresh = 2
    MaxExperiments = 2
    MaxFaults = 1
    MaxOps = 2
SPECIFICATION FairSpec
INVARIANTS HistoryReadable RecordsAgree SpendNotLost
PROPERTIES RecoverableApplied InterruptionFirst KeepsLedger
CHECK_DEADLOCK FALSE
