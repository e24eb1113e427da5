\* One session of part 1, cut behind any text or inside it (each text once at
\* most) or not, and two of part 2 that are not cut; three batches of two
\* packets each, the last one full.
SPECIFICATION MCSpec
CONSTANTS
    NumWords = 9
    k = 3
    p = 2
    Clients = {c1, c2}
INVARIANTS
    TypeOK
    TableComplete
    CountedAtMostOnce
    AskedInFile
    NeverBothWait
PROPERTIES
    AbsSpec
    SessionsEnd
    StepsRunOut
\* The processes end.
CHECK_DEADLOCK FALSE
