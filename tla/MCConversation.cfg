SPECIFICATION FairSpec
CONSTANTS
    Invocations = {a, b}
    Transfers = {b}
    Impatient = {a}
    MaxCuts = 1
CHECK_DEADLOCK FALSE
INVARIANTS HoldUntilAdopted ReturnedIsReleased RecordsInStep
PROPERTIES CancelSettles StartedCallEnds
