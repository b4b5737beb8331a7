SPECIFICATION FairSpec
CONSTANTS
    a1 = a1
    a2 = a2
    a3 = a3
    b = b
    x = x
    k1 = k1
    k2 = k2
    kx = kx
    Callers <- MCCallers
    Key <- MCKey
    Occupies <- MCOccupies
    WaitsFor <- MCWaitsFor
    None = None
    Slots = 1
    MaxCancels = 1
    MaxFails = 1
    MaxStale = 1
CHECK_DEADLOCK FALSE
INVARIANTS OneFlight NoNeedlessRun OthersSurvive PermitsInStep
PROPERTIES EveryCallEnds
