SPECIFICATION BackoffSpec
CONSTANTS
    NumWords = 2
    k = 2
    p = 1
    Clients = {c1, c2}
    NoClient = NoClient
PROPERTY
    BackoffGrows
CHECK_DEADLOCK FALSE
