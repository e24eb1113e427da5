\* Two clients; the file is two batches of two packets each, 2 + 1 words.
SPECIFICATION Spec
CONSTANTS
    NumWords = 6
    k = 3
    p = 2
    Clients = {c1, c2}
    NoClient = NoClient
SYMMETRY ClientSymmetry
INVARIANTS
    TypeOK
    StopAndWait
    AttemptContinues
    BusyMeansServed
    WordCountedOnce
    LossReported
    ConnectionInv
PROPERTIES
    AbsSpec
    ServiceRunsOut
\* The program ends.
CHECK_DEADLOCK FALSE
