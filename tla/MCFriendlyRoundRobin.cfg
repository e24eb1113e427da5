\* Two connections, three batches each.
SPECIFICATION TurnsSpec
CONSTANTS
    NumWords = 3
    k = 1
    p = 1
    Cuts = FALSE
    Places = 2
    Clients = {c1, c2}
    NoClient = NoClient
SYMMETRY ClientSymmetry
PROPERTIES
    RoundRobinTakesTurns
\* The processes end.
CHECK_DEADLOCK FALSE
