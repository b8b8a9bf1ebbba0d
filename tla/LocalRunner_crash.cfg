SPECIFICATION FairSpec
CONSTANTS
    None = None
    Costs = {0, 1}
    BudgetLimit = 1
    PublicationEnabled = TRUE
    MaxPanelAttempts = 2
    MaxInfraRetries = 1
    Window = 2
    MaxExperiments = 2
    MaxFaults = 1
    MaxRequests = 1
INVARIANTS
    ReplayConsistent
    SelectionReplayed
    EvidenceChargedOnce
    PublishedBeforeInstalled
    ScreensCountedOnce
PROPERTIES
    KeepsPromise
    NoPaidWorkOverBudget
    StopHonoured
    PublishedIsInstalled
