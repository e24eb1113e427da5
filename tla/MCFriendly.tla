----------------------------- MODULE MCFriendly -----------------------------
(***************************************************************************)
(* Instances of Friendly for TLC.                                          *)
(***************************************************************************)
EXTENDS Friendly, TLC

(* The threads of the clients run the same code and descriptors are only   *)
(* compared: the connections are interchangeable.                          *)
ClientSymmetry == Permutations(Clients)
=============================================================================
