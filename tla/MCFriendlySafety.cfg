\* Three connections, three batches of two, two and one packets, whole sends.
SPECIFICATION TurnsSpec
CONSTANTS
    NumWords = 5
    k = 2
    p = 1
    Cuts = FALSE
    Places = 3
    Clients = {c1, c2, c3}
    NoClient = NoClient
SYMMETRY ClientSymmetry
INVARIANTS
    TypeOK
    QueuedOnce
    UnservedCounted
    OutputComplete
    ExitLeavesOne
    PlaceInv
    NotForgotten
    RecvReturns
    NeverAllWait
PROPERTIES
    AbsSpec
    FifoTakesTurns
    StepsRunOut
\* The processes end.
CHECK_DEADLOCK FALSE
