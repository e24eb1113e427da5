------------------------------ MODULE MCGrumpy ------------------------------
(***************************************************************************)
(* Instances of Grumpy for TLC.                                            *)
(***************************************************************************)
EXTENDS Grumpy, TLC

(* Handlers and clients run the same code, and clientID is only compared:  *)
(* the clients are interchangeable.                                        *)
ClientSymmetry == Permutations(Clients)
=============================================================================
