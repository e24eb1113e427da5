SPECIFICATION Spec
CONSTANTS
    NumWords = 2
    k = 2
    p = 1
    Clients = {c1, c2}
    NoClient = NoClient
PROPERTY
    HuhOnlyOnCollision
CHECK_DEADLOCK FALSE
