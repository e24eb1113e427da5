\* Three connections for two places: one may be turned away.
SPECIFICATION Spec
CONSTANTS
    NumWords = 2
    k = 1
    p = 1
    Cuts = FALSE
    Places = 2
    Clients = {c1, c2, c3}
    NoClient = NoClient
PROPERTIES
    QueuedIsTaken
    ClientsEnd
\* The processes end.
CHECK_DEADLOCK FALSE
