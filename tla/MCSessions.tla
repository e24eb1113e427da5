----------------------------- MODULE MCSessions -----------------------------
(***************************************************************************)
(* Instances of Sessions for TLC.                                          *)
(***************************************************************************)
EXTENDS Sessions

(* Only part 1 with a stream that is cut: in part 2 a recv without words   *)
(* makes the client ask for the same window again, without bound.          *)
(* Which client part 1 has makes no difference.                            *)
MCInit ==
    /\ Init
    /\ cuts => part = 1
    /\ part = 1 => sessions = {CHOOSE c \in Clients : TRUE}

MCSpec == MCInit /\ [][Next]_vars /\ Fairness
=============================================================================
