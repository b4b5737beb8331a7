SPECIFICATION BoundedSpec
CONSTANTS
    n1 = n1
    n2 = n2
    s1 = s1
    s2 = s2
    Runs <- MCRuns
    Sheds <- MCSheds
    MaxRes = 1
    Artifacts = TRUE
    None = None
CHECK_DEADLOCK FALSE
INVARIANTS PinnedIsResident HeldIsResident CondemnedForAReason
PROPERTIES GateSettles
