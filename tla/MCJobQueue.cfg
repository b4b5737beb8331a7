SPECIFICATION Spec
CONSTANTS
    Clients = {c1, c2}
    JobIds = {j1}
    Priorities = {0, 1}
    MaxRuns = 3
    HistoryLimit = 1
    SlotLimits = {1, 2}
    MaxCrashes = 0
    MaxErased = 0
    WritesFail = FALSE
    None = None
SYMMETRY Symmetry
INVARIANTS QueueInStep NoLostWakeup MaintenanceIdle
PROPERTIES DispatchInOrder
