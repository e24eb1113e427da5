\* Two clients, one batch of two packets of one word each: with k >= 2 a batch can
\* lose a word to a HUH!, which is what leads a client to read $$.
SPECIFICATION Spec
CONSTANTS
    NumWords = 2
    k = 2
    p = 1
    Clients = {c1, c2}
    NoClient = NoClient
PROPERTIES
    RequestLeavesService
    LoneClientFinishes
    ServerStops
\* The program ends.
CHECK_DEADLOCK FALSE
