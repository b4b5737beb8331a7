SPECIFICATION FairSpec
CONSTANTS
    Clients = {c1, c2}
    JobIds = {j1}
    Priorities = {0}
    MaxRuns = 2
    HistoryLimit = 1
    SlotLimits = {1}
    MaxCrashes = 2
    MaxErased = 1
    WritesFail = TRUE
    None = None
PROPERTIES ImplementsLifecycle QueuedJobsMove CloseEnds
