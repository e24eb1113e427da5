------------------------------ MODULE Sockets -------------------------------
(***************************************************************************)
(* The sockets of part 4: Stream, with the moments of accepting, closing   *)
(* and hanging up.                                                         *)
(***************************************************************************)
EXTENDS Stream

VARIABLES
    listening,  \* the server's socket accepts connections
    backlog,    \* the connections not yet accepted, oldest first
    closed,     \* the connections the server's end has closed
    hungup      \* the connections the client's end has closed

socketVars == <<listening, backlog, closed, hungup>>

SocketsTypeOK ==
    /\ toServer \in [Clients -> Seq(Nat)]
    /\ toClient \in [Clients -> Seq(Text \cup {NL})]
    /\ listening \in BOOLEAN
    /\ backlog \in Seq(Clients)
    /\ closed \in SUBSET Clients
    /\ hungup \in SUBSET Clients

SocketsInit ==
    /\ WireInit
    /\ listening = TRUE
    /\ backlog = <<>>
    /\ closed = {}
    /\ hungup = {}

-----------------------------------------------------------------------------
(* close(server_socket): nobody can connect any more, and the connections  *)
(* nobody accepted are reset.                                              *)
StopListening ==
    /\ listening' = FALSE
    /\ backlog' = <<>>
    /\ closed' = closed \cup {backlog[j] : j \in DOMAIN backlog}

CloseConnection(c) == closed' = closed \cup {c}
=============================================================================
