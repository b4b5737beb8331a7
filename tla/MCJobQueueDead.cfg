SPECIFICATION Spec
CONSTANTS
    Clients = {c1}
    JobIds = {j1}
    Priorities = {0}
    MaxRuns = 1
    HistoryLimit = 1
    SlotLimits = {1}
    MaxCrashes = 0
    MaxErased = 0
    WritesFail = FALSE
    None = None
INVARIANTS NoDeadRunningJob
