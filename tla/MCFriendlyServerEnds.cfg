\* Two connections, two batches each.
SPECIFICATION Spec
CONSTANTS
    NumWords = 2
    k = 1
    p = 1
    Cuts = FALSE
    Places = 2
    Clients = {c1, c2}
    NoClient = NoClient
PROPERTIES
    ServerEnds
\* The processes end.
CHECK_DEADLOCK FALSE
