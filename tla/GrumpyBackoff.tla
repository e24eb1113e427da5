--------------------------- MODULE GrumpyBackoff ---------------------------
(***************************************************************************)
(* Grumpy with the protocol "beb": what each client's wait before a        *)
(* request is drawn from, and whether its last attempt was refused.        *)
(***************************************************************************)
EXTENDS Grumpy

VARIABLES
    max_attempts,   \* member max_attempts
    window,         \* the wait was drawn from T, 2T, ..., window * T
    refused         \* the last attempt ended with HUH!

waitVars == <<max_attempts, window, refused>>
backoffVars == <<vars, waitVars>>

MaxAttempts == 16

BackoffInit ==
    /\ Init
    /\ max_attempts = [c \in Clients |-> MaxAttempts]
    /\ window = [c \in Clients |-> 0]
    /\ refused = [c \in Clients |-> FALSE]

(* wait_beb is called with max_attempts by value: its max_attempts-- is    *)
(* lost when it returns.  The test for 0 attempts left comes before it.    *)
WaitBeb(c) ==
    /\ max_attempts[c] # 0
    /\ window' = [window EXCEPT ![c] = 2 ^ (MaxAttempts - max_attempts[c])]
    /\ UNCHANGED <<max_attempts, refused>>

(* The attempt was not refused: all attempts are there again.              *)
Accepted(c) ==
    /\ max_attempts' = [max_attempts EXCEPT ![c] = MaxAttempts]
    /\ refused' = [refused EXCEPT ![c] = FALSE]
    /\ UNCHANGED window

BackoffStep(c) ==
    \/ Request(c) /\ WaitBeb(c)
    \/ /\ Refused(c)
       /\ refused' = [refused EXCEPT ![c] = TRUE]
       /\ UNCHANGED <<max_attempts, window>>
    \/ /\ Finish(c) \/ Collect(c)
       /\ \/ phase'[c] # "recv" /\ Accepted(c)
          \/ phase'[c] = "recv" /\ UNCHANGED waitVars

BackoffNext == \E c \in Clients :
    \/ HandlerNext(c) /\ UNCHANGED waitVars
    \/ BackoffStep(c) /\ UNCHANGED serverVars

BackoffSpec == BackoffInit /\ [][BackoffNext]_backoffVars

-----------------------------------------------------------------------------
(* README.md:83: the protocol is "Binary Exponential Backoff (BEB)".  The  *)
(* wait of a client that was refused comes from a larger range than the    *)
(* one before.                                                             *)
BackoffGrows ==
    [][\A c \in Clients :
          Request(c) /\ refused[c] => window'[c] > window[c]]_backoffVars
=============================================================================
