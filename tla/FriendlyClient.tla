--------------------------- MODULE FriendlyClient ---------------------------
(***************************************************************************)
(* The client threads of part 4 (Client::run), all of one process.  The    *)
(* rogue client is five of these threads; they differ from the others only *)
(* in the names of the files they write.                                   *)
(***************************************************************************)
EXTENDS Sockets

CONSTANT Cuts   \* FALSE where every recv ends where some send ended

ASSUME CutsAssumption == Cuts \in BOOLEAN

VARIABLES
    phase,          \* "new" before connect, "recv", "write", "done", "killed"
    offset,
    words_received,
    word_count,
    is_read,        \* the end of the file was read: the table is final
    output          \* the file of the table: "none", "cut" or "written"

clientVars == <<phase, offset, words_received, word_count, is_read, output>>

(* The keys of word_count: words, the text $$, pieces of words and the     *)
(* empty word.                                                             *)
Key == Words \cup {DOLLAR, PIECE, COMMA}

FriendlyClientTypeOK ==
    /\ phase \in [Clients -> {"new", "recv", "write", "done", "killed"}]
    /\ offset \in [Clients -> Nat]
    /\ words_received \in [Clients -> Nat]
    /\ word_count \in [Clients -> [Key -> Nat]]
    /\ is_read \in [Clients -> BOOLEAN]
    /\ output \in [Clients -> {"none", "cut", "written"}]

ClientInit ==
    /\ phase = [c \in Clients |-> "new"]
    /\ offset = [c \in Clients |-> 0]
    /\ words_received = [c \in Clients |-> 0]
    /\ word_count = [c \in Clients |-> [w \in Key |-> 0]]
    /\ is_read = [c \in Clients |-> FALSE]
    /\ output = [c \in Clients |-> "none"]

-----------------------------------------------------------------------------
Connect(c) ==
    /\ phase[c] = "new" /\ listening
    /\ phase' = [phase EXCEPT ![c] = "recv"]
    /\ backlog' = Append(backlog, c)
    /\ toServer' = [toServer EXCEPT ![c] = Append(@, offset[c])]
    /\ UNCHANGED <<toClient, listening, closed, hungup,
                   offset, words_received, word_count, is_read, output>>

(* Where exit(1) finds a client that writes its table: before the file is  *)
(* opened, between two of its lines, or behind the last.                   *)
CutOutput(c) ==
    IF phase[c] = "write" THEN {"none", "cut", "written"} ELSE {output[c]}

(* connect fails, and exit(1) ends the threads of all other clients too,   *)
(* whatever they are at.                                                   *)
ConnectRefused(c) ==
    /\ phase[c] = "new" /\ ~listening
    /\ phase' = [d \in Clients |->
                    IF phase[d] = "done" THEN "done" ELSE "killed"]
    /\ output' \in [Clients -> {"none", "cut", "written"}]
    /\ \A d \in Clients : output'[d] \in CutOutput(d)
    /\ hungup' = Clients
    /\ UNCHANGED <<wireVars, listening, backlog, closed,
                   offset, words_received, word_count, is_read>>

-----------------------------------------------------------------------------
(* The thread closes its socket and ends.                                  *)
Finish(c) ==
    /\ phase' = [phase EXCEPT ![c] = "done"]
    /\ hungup' = hungup \cup {c}

(* The loop has ended and the end of the file was not read: there is no    *)
(* table to write.                                                         *)
Leave(c) == Finish(c) /\ UNCHANGED output

(* The loop has ended with the end of the file: the file is opened and the *)
(* table written to it, line by line.  No other thread can notice how far  *)
(* that is, but for the one whose connect is refused.                      *)
WriteTable(c) ==
    /\ phase[c] = "write"
    /\ output' = [output EXCEPT ![c] = "written"]
    /\ Finish(c)
    /\ UNCHANGED <<wireVars, listening, backlog, closed,
                   offset, words_received, word_count, is_read>>

(* The mark EOF is three letters, which a recv may cut as well.            *)
Reads(s) ==
    IF Cuts THEN CutReads(s, Words \cup {END, DOLLAR}) ELSE WholeReads(s)

(* recv returns r.packet.                                                  *)
Receive(c, r) ==
    /\ phase[c] = "recv"
    /\ toClient' = [toClient EXCEPT ![c] = r.rest]
    /\ UNCHANGED <<listening, backlog, closed>>

(* The packets that make the loop break before anything is counted.        *)
IsLast(packet) == packet \in {<<END, NL>>, <<END>>, <<DOLLAR, NL>>}

(* word_count[word]++, words_received++ for all text of the packet.        *)
Count(c, packet) ==
    /\ words_received' = [words_received EXCEPT ![c] = @ + TextLen(packet)]
    /\ word_count' = [word_count EXCEPT
          ![c] = [w \in Key |-> @[w] + Occurrences(packet, w)]]

(* recv returns 0.                                                         *)
ServerClosed(c) ==
    /\ phase[c] = "recv" /\ toClient[c] = <<>> /\ c \in closed
    /\ Leave(c)
    /\ UNCHANGED <<wireVars, listening, backlog, closed,
                   offset, words_received, word_count, is_read>>

LastPacket(c) ==
    \E r \in Reads(toClient[c]) :
        /\ Receive(c, r)
        /\ IsLast(r.packet)
        /\ Leave(c)
        /\ UNCHANGED <<toServer, offset, words_received, word_count, is_read>>

(* Fault: the words that came with EOF are not counted.                    *)
EndOfFileDropsWords(c) ==
    \E r \in Reads(toClient[c]) :
        /\ Receive(c, r)
        /\ ~IsLast(r.packet) /\ HasEnd(r.packet)
        /\ is_read' = [is_read EXCEPT ![c] = TRUE]
        /\ phase' = [phase EXCEPT ![c] = "write"]
        /\ UNCHANGED <<toServer, hungup, offset, words_received, word_count,
                       output>>

EndOfFile(c) ==
    \E r \in Reads(toClient[c]) :
        /\ Receive(c, r)
        /\ ~IsLast(r.packet)
        /\ \E m \in 0 .. Len(r.packet) - 1 :
              BeforeEnd(r.packet, m) /\ Count(c, First(r.packet, m))
        /\ is_read' = [is_read EXCEPT ![c] = TRUE]
        /\ phase' = [phase EXCEPT ![c] = "write"]
        /\ UNCHANGED <<toServer, hungup, offset, output>>

(* Fault: the next request starts one word too far.                        *)
MaybeAskSkips(c) ==
    \/ /\ words_received'[c] % k = 0
       /\ offset' = [offset EXCEPT ![c] = @ + k + 1]
       /\ toServer' = [toServer EXCEPT ![c] = Append(@, offset[c] + k + 1)]
    \/ /\ words_received'[c] % k # 0
       /\ UNCHANGED <<offset, toServer>>

(* Fault: the offset after the words read is asked for, whatever was asked *)
(* before.                                                                 *)
MaybeAskAgain(c) ==
    \/ /\ words_received'[c] % k = 0
       /\ offset' = [offset EXCEPT ![c] = words_received'[c]]
       /\ toServer' = [toServer EXCEPT ![c] = Append(@, words_received'[c])]
    \/ /\ words_received'[c] % k # 0
       /\ UNCHANGED <<offset, toServer>>

(* Fault: only the words of this recv are counted.                         *)
MaybeAskPerRecv(c) ==
    \/ /\ (words_received'[c] - words_received[c]) % k = 0
       /\ offset' = [offset EXCEPT ![c] = @ + k]
       /\ toServer' = [toServer EXCEPT ![c] = Append(@, offset[c] + k)]
    \/ /\ (words_received'[c] - words_received[c]) % k # 0
       /\ UNCHANGED <<offset, toServer>>

(* With a multiple of k words read, the next k are asked for.              *)
MaybeAsk(c) ==
    \/ /\ words_received'[c] % k = 0
       /\ offset' = [offset EXCEPT ![c] = @ + k]
       /\ toServer' = [toServer EXCEPT ![c] = Append(@, offset[c] + k)]
    \/ /\ words_received'[c] % k # 0
       /\ UNCHANGED <<offset, toServer>>

CountWords(c) ==
    \E r \in Reads(toClient[c]) :
        /\ Receive(c, r)
        /\ ~IsLast(r.packet) /\ ~HasEnd(r.packet)
        /\ Count(c, r.packet)
        /\ MaybeAsk(c)
        /\ UNCHANGED <<hungup, phase, is_read, output>>

ClientStep(c) ==
    \/ Connect(c) \/ ConnectRefused(c)
    \/ ServerClosed(c) \/ LastPacket(c) \/ EndOfFile(c) \/ CountWords(c)
    \/ WriteTable(c)
=============================================================================
