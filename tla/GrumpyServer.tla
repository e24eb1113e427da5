---------------------------- MODULE GrumpyServer ----------------------------
(***************************************************************************)
(* The server of part 3: one handler thread per accepted connection        *)
(* (handleClient), all of them sharing the atomics isRunning, clientID and *)
(* lastCollisionTime.  Every action is one handler thread running up to    *)
(* its next access of a shared atomic; two accesses are merged only where  *)
(* no other thread's step between them could tell (see the README).        *)
(***************************************************************************)
EXTENDS Wire

CONSTANT NoClient       \* clientID == 0: no socket has descriptor 0

ASSUME NoClientAssumption == NoClient \notin Clients

VARIABLES
    isRunning,  \* atomic<bool>
    clientID,   \* atomic<int>
    late,       \* the handlers at the comparison whose "now" is older
                \* than lastCollisionTime
    pc,         \* where each handler is
    req,        \* local offset: the request, then the next word to send
    z,          \* local z
    i,          \* local i of the packet being built
    is_sent,    \* local is_sent
    back        \* where resetClient returns to

shared == <<isRunning, clientID, late>>
locals == <<req, z, i, is_sent>>
serverVars == <<shared, pc, locals, back>>

Label == {"accept", "recv", "check", "claim", "own", "late", "outer", "inner",
          "emit", "reset", "unset", "stamp", "release", "exit"}

ServerTypeOK ==
    /\ isRunning \in BOOLEAN
    /\ clientID \in Clients \cup {NoClient}
    /\ late \in SUBSET Clients
    /\ pc \in [Clients -> Label]
    /\ req \in [Clients -> Nat]
    /\ z \in [Clients -> 0 .. NumWords]
    /\ i \in [Clients -> 0 .. NumWords]
    /\ is_sent \in [Clients -> BOOLEAN]
    /\ back \in [Clients -> {"recv", "release"}]

ServerInit ==
    /\ isRunning = FALSE
    /\ clientID = NoClient
    /\ late = {}
    /\ pc = [c \in Clients |-> "accept"]
    /\ req = [c \in Clients |-> 0]
    /\ z = [c \in Clients |-> 0]
    /\ i = [c \in Clients |-> 0]
    /\ is_sent = [c \in Clients |-> FALSE]
    /\ back = [c \in Clients |-> "recv"]

-----------------------------------------------------------------------------
At(c, label)   == pc[c] = label
Goto(c, label) == pc' = [pc EXCEPT ![c] = label]
Jump(c, from, to) == At(c, from) /\ Goto(c, to)

(* The locals offset, z and i go out of scope.                             *)
Leave(c) ==
    /\ req' = [req EXCEPT ![c] = 0]
    /\ z' = [z EXCEPT ![c] = 0]
    /\ i' = [i EXCEPT ![c] = 0]

(* The condition both serving loops share.                                 *)
MayServe(c) == isRunning /\ clientID = c

(* start: the connection is accepted and its handler thread created.       *)
Accept(c) ==
    /\ Jump(c, "accept", "recv")
    /\ UNCHANGED <<wireVars, shared, locals, back>>

(* recv returns; only the first line of what it returned is used.  The     *)
(* getline strips the newline, so the two BUSY? tests never succeed.       *)
Receive(c) ==
    /\ Jump(c, "recv", "check")
    /\ \E m \in 1 .. Len(toServer[c]) :
          toServer' = [toServer EXCEPT ![c] = Rest(@, m)]
    /\ req' = [req EXCEPT ![c] = Head(toServer[c])]
    /\ UNCHANGED <<toClient, shared, z, i, is_sent, back>>

(* Some request is being served: HUH!, and wait for the next one.          *)
Refuse(c) ==
    /\ Jump(c, "check", "recv")
    /\ isRunning
    /\ Answer(c, <<HUH>>)
    /\ Leave(c)
    /\ UNCHANGED <<toServer, shared, is_sent, back>>

(* The server looked idle.  Nothing is reserved yet: the test and the two  *)
(* stores that follow it are separate steps.                               *)
Admit(c) ==
    /\ Jump(c, "check", "claim")
    /\ ~isRunning
    /\ UNCHANGED <<wireVars, shared, locals, back>>

Claim(c) ==
    /\ Jump(c, "claim", "own")
    /\ isRunning' = TRUE
    /\ UNCHANGED <<wireVars, clientID, late, locals, back>>

(* clientID is stored and "now" read.                                      *)
Own(c) ==
    /\ Jump(c, "own", "late")
    /\ clientID' = c
    /\ UNCHANGED <<wireVars, isRunning, late, locals, back>>

(* Fault: no continue after the HUH!; the request is served as well.       *)
LateServesOn(c) ==
    /\ Jump(c, "late", "outer")
    /\ c \in late
    /\ late' = late \ {c}
    /\ Answer(c, <<HUH>>)
    /\ z' = [z EXCEPT ![c] = BatchEnd(req[c])]
    /\ UNCHANGED <<toServer, isRunning, clientID, req, i, is_sent, back>>

(* A collision was stamped after "now": resetClient, then the next request.*)
Late(c) ==
    /\ Jump(c, "late", "reset")
    /\ c \in late
    /\ late' = late \ {c}
    /\ Answer(c, <<HUH>>)
    /\ back' = [back EXCEPT ![c] = "recv"]
    /\ Leave(c)
    /\ UNCHANGED <<toServer, isRunning, clientID, is_sent>>

(* offset >= words.size(): "$$" and the thread ends.                       *)
OutOfRange(c) ==
    /\ Jump(c, "late", "exit")
    /\ c \notin late
    /\ req[c] >= NumWords
    /\ Answer(c, <<DOLLAR>>)
    /\ Leave(c)
    /\ UNCHANGED <<toServer, shared, is_sent, back>>

Begin(c) ==
    /\ Jump(c, "late", "outer")
    /\ c \notin late
    /\ req[c] < NumWords
    /\ z' = [z EXCEPT ![c] = BatchEnd(req[c])]
    /\ UNCHANGED <<wireVars, shared, req, i, is_sent, back>>

(* Fault: <= for < in the loop condition.                                  *)
NextPacketOnceMore(c) ==
    /\ Jump(c, "outer", "inner")
    /\ req[c] <= z[c] /\ MayServe(c)
    /\ i' = [i EXCEPT ![c] = req[c]]
    /\ UNCHANGED <<wireVars, shared, req, z, is_sent, back>>

(* while (offset < z && ...): another packet.                              *)
NextPacket(c) ==
    /\ Jump(c, "outer", "inner")
    /\ req[c] < z[c] /\ MayServe(c)
    /\ i' = [i EXCEPT ![c] = req[c]]
    /\ UNCHANGED <<wireVars, shared, req, z, is_sent, back>>

EndBatch(c) ==
    /\ Jump(c, "outer", "release")
    /\ ~ (req[c] < z[c] /\ MayServe(c))
    /\ Leave(c)
    /\ UNCHANGED <<wireVars, shared, is_sent, back>>

(* Fault: the inner loop does not stop at z.                               *)
PacketFullPastEnd(c) == ~ (i[c] < req[c] + p)

PacketFull(c) == ~ (i[c] < req[c] + p /\ i[c] < z[c])

(* One more word in the packet.                                            *)
AddWord(c) ==
    /\ At(c, "inner")
    /\ ~ PacketFull(c) /\ MayServe(c)
    /\ i' = [i EXCEPT ![c] = @ + 1]
    /\ UNCHANGED <<wireVars, shared, pc, req, z, is_sent, back>>

(* Fault: a handler that lost the server waits to own it again.            *)
EndPacketWhenFull(c) ==
    /\ Jump(c, "inner", "emit")
    /\ PacketFull(c)
    /\ UNCHANGED <<wireVars, shared, locals, back>>

EndPacket(c) ==
    /\ Jump(c, "inner", "emit")
    /\ PacketFull(c) \/ ~MayServe(c)
    /\ UNCHANGED <<wireVars, shared, locals, back>>

(* The packet holds the words req..i-1, and the EOF mark after the last    *)
(* word of the file.  A packet without words is a send of zero bytes.      *)
Packet(c) ==
    Run(req[c], i[c]) \o (IF i[c] >= NumWords THEN <<END>> ELSE <<>>)

(* Fault: offset is not advanced past the words sent.                      *)
EmitKeepsOffset(c) ==
    /\ Jump(c, "emit", "outer")
    /\ clientID = c
    /\ Answer(c, Packet(c))
    /\ is_sent' = [is_sent EXCEPT ![c] = @ \/ i[c] >= NumWords]
    /\ UNCHANGED <<toServer, shared, req, z, i, back>>

(* Fault: is_sent is not set with the EOF mark.                            *)
EmitForgetsEof(c) ==
    /\ Jump(c, "emit", "outer")
    /\ clientID = c
    /\ Answer(c, Packet(c))
    /\ req' = [req EXCEPT ![c] = i[c]]
    /\ UNCHANGED <<toServer, shared, z, i, is_sent, back>>

(* Still the owner: offset += temp, send.                                  *)
Emit(c) ==
    /\ Jump(c, "emit", "outer")
    /\ clientID = c
    /\ Answer(c, Packet(c))
    /\ req' = [req EXCEPT ![c] = i[c]]
    /\ is_sent' = [is_sent EXCEPT ![c] = @ \/ i[c] >= NumWords]
    /\ UNCHANGED <<toServer, shared, z, i, back>>

(* Another handler took over: the packet is dropped, resetClient sends     *)
(* HUH! and the serving loop is left.                                      *)
Abandon(c) ==
    /\ Jump(c, "emit", "reset")
    /\ clientID # c
    /\ Answer(c, <<HUH>>)
    /\ is_sent' = [is_sent EXCEPT ![c] = FALSE]
    /\ back' = [back EXCEPT ![c] = "release"]
    /\ Leave(c)
    /\ UNCHANGED <<toServer, shared>>

(* The rest of resetClient: isRunning, clientID, lastCollisionTime, one    *)
(* store after the other, whoever is being served meanwhile.               *)
ResetRunning(c) ==
    /\ Jump(c, "reset", "unset")
    /\ isRunning' = FALSE
    /\ UNCHANGED <<wireVars, clientID, late, locals, back>>

ResetOwner(c) ==
    /\ Jump(c, "unset", "stamp")
    /\ clientID' = NoClient
    /\ UNCHANGED <<wireVars, isRunning, late, locals, back>>

(* The stamp is a clock reading taken some time before it is stored, and   *)
(* two readings may be equal: any handler between its own reading and its  *)
(* comparison may or may not find the stamp to be later.                   *)
ResetStamp(c) ==
    /\ Jump(c, "stamp", back[c])
    /\ late' \in SUBSET {d \in Clients : At(d, "late")}
    /\ UNCHANGED <<wireVars, isRunning, clientID, locals, back>>

(* Fault: the store of FALSE after the serving loop is missing.            *)
ReleaseStaysBusy(c) ==
    /\ Jump(c, "release", IF is_sent[c] THEN "exit" ELSE "recv")
    /\ UNCHANGED <<wireVars, shared, locals, back>>

(* isRunning.store(false) after the serving loop, whoever owns the server; *)
(* the thread ends once the EOF mark was sent.                             *)
Release(c) ==
    /\ Jump(c, "release", IF is_sent[c] THEN "exit" ELSE "recv")
    /\ isRunning' = FALSE
    /\ UNCHANGED <<wireVars, clientID, late, locals, back>>

HandlerStep(c) ==
    \/ Accept(c)    \/ Receive(c)  \/ Refuse(c)       \/ Admit(c)
    \/ Claim(c)     \/ Own(c)      \/ Late(c)         \/ OutOfRange(c)
    \/ Begin(c)     \/ NextPacket(c) \/ EndBatch(c)   \/ AddWord(c)
    \/ EndPacket(c) \/ Emit(c)     \/ Abandon(c)      \/ ResetRunning(c)
    \/ ResetOwner(c) \/ ResetStamp(c) \/ Release(c)
=============================================================================
