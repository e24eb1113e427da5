---------------------------- MODULE FriendlyTurns ----------------------------
(***************************************************************************)
(* Friendly with a history variable that remembers, for each connection in *)
(* the queue, which others were taken from the queue since it entered it.  *)
(***************************************************************************)
EXTENDS Friendly

VARIABLE passed     \* [Clients -> SUBSET Clients]

turnVars == <<vars, passed>>

(* The scheduler's step takes c from the queue.                            *)
Takes(c) == Schedule /\ cur' = c

TurnsInit == Init /\ passed = [c \in Clients |-> {}]

TurnsNext ==
    /\ Next
    /\ passed' = [d \in Clients |->
          IF InQueue(d) /\ InQueue(d)'
          THEN passed[d] \cup {c \in Clients : Takes(c)}
          ELSE {}]

TurnsSpec == TurnsInit /\ [][TurnsNext]_turnVars

-----------------------------------------------------------------------------
(* Nobody is taken twice while another connection waits: processRequest    *)
(* answers one request and puts the connection behind those that wait.     *)
NoSecondTurn ==
    \A c, d \in Clients :
        Takes(c) /\ c # d /\ InQueue(d) => c \notin passed[d]

FifoTakesTurns == [][policy = "FIFO" => NoSecondTurn]_turnVars

(* README.md:111: ROUND_ROBIN is "Fair Scheduling (Round Robin)".          *)
RoundRobinTakesTurns == [][policy = "ROUND_ROBIN" => NoSecondTurn]_turnVars
=============================================================================
