SPECIFICATION Spec
CONSTANTS
    None = None
    Costs = {1}
    BudgetLimit = None
    PublicationEnabled = TRUE
    MaxPanelAttempts = 1
    MaxInfraRetries = 0
    Window = 1
    MaxExperiments = 3
    MaxFaults = 0
    MaxRequests = 0
INVARIANTS
    RetainedPanelUsable
