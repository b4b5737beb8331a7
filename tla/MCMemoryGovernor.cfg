SPECIFICATION FairSpec
CONSTANTS
    Requests = {q1, q2}
    NumClasses = 2
    Ram = 1
    Sizes = {1}
    Limits = {1}
    Consumers = {c1, c3}
    c1 = c1
    c3 = c3
    Priority <- Priorities
    MaxFoot = 1
    None = None
CHECK_DEADLOCK FALSE
INVARIANTS AccountsInStep SkipsNobody
PROPERTIES GrantsFit AdmissionDecides
