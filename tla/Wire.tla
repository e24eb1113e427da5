-------------------------------- MODULE Wire --------------------------------
(***************************************************************************)
(* The TCP connections between the clients and the server's handlers: per  *)
(* client, the requests not yet read by its handler and the tokens not yet *)
(* read by the client.  TCP delivers both in order and loses nothing, but  *)
(* it keeps no message boundaries: one recv may return the tail of one     *)
(* send together with the head of the next: recv returns a non-empty       *)
(* prefix of what is in flight.  Which prefixes, the clients say.          *)
(***************************************************************************)
EXTENDS WordFile

CONSTANT Clients        \* the n connections the server accepts

ASSUME ClientsAssumption == IsFiniteSet(Clients)

VARIABLES
    toServer,   \* [Clients -> Seq(Nat)]    offsets requested, "o\n" each
    toClient    \* [Clients -> Seq(Token)]  answers

wireVars == <<toServer, toClient>>

WireTypeOK ==
    /\ toServer \in [Clients -> Seq(Nat)]
    /\ toClient \in [Clients -> Seq(Token)]

WireInit ==
    /\ toServer = [c \in Clients |-> <<>>]
    /\ toClient = [c \in Clients |-> <<>>]

(* send(client_socket, tokens): never blocks, the socket buffer is larger  *)
(* than everything one request can put into it.                            *)
Answer(c, tokens) ==
    toClient' = [toClient EXCEPT ![c] = @ \o tokens]

(* The first m elements of s, and what is left after them.                 *)
First(s, m) == SubSeq(s, 1, m)
Rest(s, m)  == SubSeq(s, m + 1, Len(s))
=============================================================================
