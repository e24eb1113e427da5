--------------------------- MODULE MCFriendlyTurns ---------------------------
(***************************************************************************)
(* Instances of FriendlyTurns for TLC.                                     *)
(***************************************************************************)
EXTENDS FriendlyTurns, TLC

(* As in MCFriendly.                                                       *)
ClientSymmetry == Permutations(Clients)
=============================================================================
