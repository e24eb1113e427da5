SPECIFICATION Spec
CONSTANTS
    NumWords = 3
    k = 2
    p = 1
    Clients = {c1, c2}
    NoClient = NoClient
INVARIANT
    SameCounts
CHECK_DEADLOCK FALSE
