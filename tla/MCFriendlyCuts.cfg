\* One connection whose stream is cut behind any text or inside it, each text
\* once at most.
SPECIFICATION Spec
CONSTANTS
    NumWords = 5
    k = 2
    p = 1
    Cuts = TRUE
    Places = 2
    Clients = {c1}
    NoClient = NoClient
INVARIANTS
    CountedAtMostOnce
\* The processes end.
CHECK_DEADLOCK FALSE
