SPECIFICATION FairSpec
CONSTANTS
    Runs = {r1, r2}
    MaxPending = 1
    KeepRuns = 1
    MaxEvents = 5
    MaxFaults = 1
CHECK_DEADLOCK FALSE
INVARIANTS DurableKept JournalInStep
PROPERTIES EndsFinished
