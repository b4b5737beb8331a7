SPECIFICATION Spec
CONSTANTS
    Invocations = {a, b}
    Transfers = {}
    Impatient = {a}
    MaxCuts = 0
CHECK_DEADLOCK FALSE
INVARIANTS NoRefusal
