SPECIFICATION Spec
CONSTANTS
    r1 = r1
    r2 = r2
    a = a
    b = b
    Runs = {r1, r2}
    Subscribers = {a, b}
    Watches <- WatchesAB
    ReplayLimit = 2
    Buffer = 1
    MaxEvents = 5
CHECK_DEADLOCK FALSE
INVARIANTS ReplayComplete ProtectedDelivered
