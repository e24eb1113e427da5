------------------------------ MODULE Sessions ------------------------------
(***************************************************************************)
(* Parts 1 and 2: sessions of one client and one handler that share        *)
(* nothing but the file.  Part 1 has one session, whose handler is the     *)
(* server's main thread; part 2 has n, each with a handler thread and a    *)
(* client thread.  The two servers do the same; the clients differ in what *)
(* they ask for next.                                                      *)
(***************************************************************************)
EXTENDS Stream

VARIABLES
    part,           \* 1 or 2
    cuts,           \* FALSE where every recv ends where some send ended
    sessions,       \* the clients there are
    running,        \* the server process runs
    closed,         \* the connections the server's end has closed
    hpc,            \* where each session's handler is
    req,            \* handler: offset, then the next word to send
    z,              \* handler: z
    is_sent,        \* handler: is_sent
    phase,          \* "new" before connect, "recv", "done"
    offset,
    total_words,
    word_count

setup == <<part, cuts, sessions>>
handlerVars == <<hpc, req, z, is_sent>>
serverVars == <<running, closed, handlerVars>>
clientVars == <<phase, offset, total_words, word_count>>
vars == <<wireVars, setup, serverVars, clientVars>>

(* The keys of word_count; an empty word is skipped.                       *)
Key == Words \cup {DOLLAR, PIECE}

ServerInit ==
    /\ running = TRUE
    /\ closed = {}
    /\ hpc = [c \in Clients |-> "none"]
    /\ req = [c \in Clients |-> 0]
    /\ z = [c \in Clients |-> 0]
    /\ is_sent = [c \in Clients |-> FALSE]

Init ==
    /\ WireInit
    /\ \/ part = 1 /\ \E c \in Clients : sessions = {c}
       \/ part = 2 /\ sessions = Clients
    /\ cuts \in BOOLEAN
    /\ ServerInit
    /\ phase = [c \in Clients |-> "new"]
    /\ offset = [c \in Clients |-> 0]
    /\ total_words = [c \in Clients |-> 0]
    /\ word_count = [c \in Clients |-> [w \in Key |-> 0]]

-----------------------------------------------------------------------------
(* The server: handleClient and start.  No client hangs up before its      *)
(* handler has ended, so the handler's recv never returns 0.               *)

(* The connections are independent: accept may take any that waits.        *)
Accept(c) ==
    /\ hpc[c] = "none" /\ phase[c] # "new"
    /\ hpc' = [hpc EXCEPT ![c] = "recv"]
    /\ UNCHANGED <<wireVars, running, closed, req, z, is_sent>>

(* recv returns one request or several that arrived together; stoi reads   *)
(* the first, the others are lost.                                         *)
TakeRequest(c) ==
    /\ hpc[c] = "recv"
    /\ \E m \in 1 .. Len(toServer[c]) :
          toServer' = [toServer EXCEPT ![c] = Rest(@, m)]

OutOfRange(c) ==
    /\ TakeRequest(c)
    /\ Head(toServer[c]) > NumWords
    /\ Answer(c, <<DOLLAR, NL>>)
    /\ closed' = closed \cup {c}
    /\ hpc' = [hpc EXCEPT ![c] = "end"]
    /\ UNCHANGED <<running, req, z, is_sent>>

(* Fault: the end of the file does not bound the batch.                    *)
BeginAnswerPastEnd(c) ==
    /\ TakeRequest(c)
    /\ Head(toServer[c]) <= NumWords
    /\ hpc' = [hpc EXCEPT ![c] = "serve"]
    /\ req' = [req EXCEPT ![c] = Head(toServer[c])]
    /\ z' = [z EXCEPT ![c] = Head(toServer[c]) + k]
    /\ UNCHANGED <<toClient, running, closed, is_sent>>

(* Offset NumWords gets through: nothing will be sent for it.              *)
BeginAnswer(c) ==
    /\ TakeRequest(c)
    /\ Head(toServer[c]) <= NumWords
    /\ hpc' = [hpc EXCEPT ![c] = "serve"]
    /\ req' = [req EXCEPT ![c] = Head(toServer[c])]
    /\ z' = [z EXCEPT ![c] = BatchEnd(Head(toServer[c]))]
    /\ UNCHANGED <<toClient, running, closed, is_sent>>

(* Fault: EOF only follows a packet that passes the end of the file.       *)
PacketWithoutEnd(a, b) ==
    Run(a, b) \o (IF b > NumWords THEN <<NL, END, NL>> ELSE <<NL>>)

(* The packet of the words from a to b-1; EOF is a line of its own.        *)
Packet(a, b) ==
    Run(a, b) \o (IF b = NumWords THEN <<NL, END, NL>> ELSE <<NL>>)

SendPacket(c) ==
    /\ hpc[c] = "serve" /\ req[c] < z[c]
    /\ LET b == IF req[c] + p < z[c] THEN req[c] + p ELSE z[c]
       IN  /\ Answer(c, Packet(req[c], b))
           /\ req' = [req EXCEPT ![c] = b]
           /\ is_sent' = [is_sent EXCEPT ![c] = HasEnd(Packet(req[c], b))]
    /\ UNCHANGED <<toServer, running, closed, hpc, z>>

(* The batch is sent.  After EOF the handler ends, without a close.        *)
EndAnswer(c) ==
    /\ hpc[c] = "serve" /\ req[c] >= z[c]
    /\ \/ is_sent[c] /\ hpc' = [hpc EXCEPT ![c] = "end"]
       \/ ~is_sent[c] /\ hpc' = [hpc EXCEPT ![c] = "recv"]
    /\ req' = [req EXCEPT ![c] = 0]
    /\ z' = [z EXCEPT ![c] = 0]
    /\ UNCHANGED <<wireVars, running, closed, is_sent>>

HandlerStep(c) ==
    OutOfRange(c) \/ BeginAnswer(c) \/ SendPacket(c) \/ EndAnswer(c)

(* Fault: the handlers are not joined.                                     *)
ExitWithoutJoin ==
    /\ running /\ \A c \in sessions : hpc[c] # "none"
    /\ running' = FALSE
    /\ closed' = Clients
    /\ UNCHANGED <<wireVars, handlerVars>>

(* All handlers are joined and main returns: every connection is closed.   *)
Exit ==
    /\ running /\ \A c \in sessions : hpc[c] = "end"
    /\ running' = FALSE
    /\ closed' = Clients
    /\ UNCHANGED <<wireVars, handlerVars>>

-----------------------------------------------------------------------------
(* The clients: Client::run.                                               *)

Connect(c) ==
    /\ phase[c] = "new" /\ c \in sessions
    /\ phase' = [phase EXCEPT ![c] = "recv"]
    /\ toServer' = [toServer EXCEPT ![c] = Append(@, offset[c])]
    /\ UNCHANGED <<toClient, offset, total_words, word_count>>

(* However the loop ends, the table is written.                            *)
Finish(c) == phase' = [phase EXCEPT ![c] = "done"]

(* recv returns 0.                                                         *)
ServerClosed(c) ==
    /\ phase[c] = "recv" /\ toClient[c] = <<>> /\ c \in closed
    /\ Finish(c)
    /\ UNCHANGED <<wireVars, offset, total_words, word_count>>

(* The mark EOF is one byte, which nothing can cut.                        *)
Reads(s) ==
    IF cuts THEN CutReads(s, Words \cup {DOLLAR}) ELSE WholeReads(s)

(* recv returns r.packet.                                                  *)
Receive(c, r) ==
    /\ phase[c] = "recv"
    /\ toClient' = [toClient EXCEPT ![c] = r.rest]

IsRefusal(packet) == packet = <<DOLLAR, NL>>

Refused(c) ==
    \E r \in Reads(toClient[c]) :
        /\ Receive(c, r)
        /\ IsRefusal(r.packet)
        /\ Finish(c)
        /\ UNCHANGED <<toServer, offset, total_words, word_count>>

(* word_count[word]++ for the non-empty words of the packet.               *)
Count(c, packet) ==
    word_count' = [word_count EXCEPT
        ![c] = [w \in Key |-> @[w] + Occurrences(packet, w)]]

(* Fault: the words that came with EOF are not counted.                    *)
EndOfFileDropsWords(c) ==
    \E r \in Reads(toClient[c]) :
        /\ Receive(c, r)
        /\ HasEnd(r.packet)
        /\ Finish(c)
        /\ UNCHANGED <<toServer, offset, total_words, word_count>>

EndOfFile(c) ==
    \E r \in Reads(toClient[c]) :
        /\ Receive(c, r)
        /\ \E m \in 0 .. Len(r.packet) - 1 :
              BeforeEnd(r.packet, m) /\ Count(c, First(r.packet, m))
        /\ Finish(c)
        /\ UNCHANGED <<toServer, offset, total_words>>

(* Fault: part 1 goes on after the words read, too.                        *)
NextOffsetByWords(c, n) == offset[c] + n

(* Fault: part 1 asks for the same window again.                           *)
NextOffsetStays(c, n) == offset[c] + (IF part = 1 THEN 0 ELSE n)

(* What is asked for after n words: part 1 goes on by k, part 2 by n.      *)
NextOffset(c, n) == offset[c] + (IF part = 1 THEN k ELSE n)

(* Fault: the count of words read is not reset.                            *)
MaybeAskKeepsTotal(c, n) ==
    /\ total_words' = [total_words EXCEPT ![c] = n]
    /\ \/ /\ n % k = 0
          /\ offset' = [offset EXCEPT ![c] = NextOffset(c, n)]
          /\ toServer' = [toServer EXCEPT ![c] = Append(@, NextOffset(c, n))]
       \/ n % k # 0 /\ UNCHANGED <<offset, toServer>>

(* n words were read since the last request.  With a multiple of k, none   *)
(* at all included, the next ones are asked for.                           *)
MaybeAsk(c, n) ==
    \/ /\ n % k = 0
       /\ offset' = [offset EXCEPT ![c] = NextOffset(c, n)]
       /\ toServer' = [toServer EXCEPT ![c] = Append(@, NextOffset(c, n))]
       /\ total_words' = [total_words EXCEPT ![c] = 0]
    \/ /\ n % k # 0
       /\ total_words' = [total_words EXCEPT ![c] = n]
       /\ UNCHANGED <<offset, toServer>>

CountWords(c) ==
    \E r \in Reads(toClient[c]) :
        /\ Receive(c, r)
        /\ ~IsRefusal(r.packet) /\ ~HasEnd(r.packet)
        /\ Count(c, r.packet)
        /\ MaybeAsk(c, total_words[c] + TextLen(r.packet)
                                      - Occurrences(r.packet, COMMA))
        /\ UNCHANGED phase

ClientStep(c) ==
    \/ Connect(c) \/ ServerClosed(c)
    \/ Refused(c) \/ EndOfFile(c) \/ CountWords(c)

-----------------------------------------------------------------------------
Accepting == \E c \in Clients : Accept(c)

Main == (Accepting \/ Exit) /\ UNCHANGED <<setup, clientVars>>

Handler(c) == running /\ HandlerStep(c) /\ UNCHANGED <<setup, clientVars>>

Client(c) == ClientStep(c) /\ UNCHANGED <<setup, serverVars>>

Next == Main \/ \E c \in Clients : Handler(c) \/ Client(c)

(* Every thread is run again and again while it can go on.                 *)
Fairness ==
    /\ WF_vars(Main)
    /\ \A c \in Clients : WF_vars(Handler(c)) /\ WF_vars(Client(c))

Spec == Init /\ [][Next]_vars /\ Fairness

-----------------------------------------------------------------------------
(* The variables hold values of their kind.                                *)
TypeOK ==
    /\ toServer \in [Clients -> Seq(Nat)]
    /\ toClient \in [Clients -> Seq(Text \cup {NL})]
    /\ part \in {1, 2} /\ cuts \in BOOLEAN /\ sessions \in SUBSET Clients
    /\ running \in BOOLEAN
    /\ closed \in SUBSET Clients
    /\ hpc \in [Clients -> {"none", "recv", "serve", "end"}]
    /\ req \in [Clients -> Nat]
    /\ z \in [Clients -> 0 .. NumWords]
    /\ is_sent \in [Clients -> BOOLEAN]
    /\ phase \in [Clients -> {"new", "recv", "done"}]
    /\ offset \in [Clients -> Nat]
    /\ total_words \in [Clients -> Nat]
    /\ word_count \in [Clients -> [Key -> Nat]]

Done(c) == phase[c] = "done"

(* The table is written whatever ended the loop, an early end of the       *)
(* server included; when every recv ends where a send ended it has every   *)
(* word of the file once and nothing else.                                 *)
TableComplete ==
    ~cuts => \A c \in Clients :
        Done(c) => word_count[c] = [w \in Key |-> IF w \in Words THEN 1 ELSE 0]

(* Part 1 asks for each window once, however its stream is cut and however *)
(* many requests that makes it send too early: no word of the file is      *)
(* counted twice.  (Part 2 may ask for a window again.)                    *)
CountedAtMostOnce ==
    part = 1 => \A c \in Clients : \A w \in Words : word_count[c][w] <= 1

(* The test offset > words.size() lets offset == words.size() through,     *)
(* which is answered with nothing at all.  It does no harm because EOF     *)
(* comes in one send with the last words: nobody asks for that offset.     *)
AskedInFile ==
    ~cuts => \A c \in Clients : \A j \in DOMAIN toServer[c] :
        toServer[c][j] < NumWords

(* The sessions whose streams are not cut count the file window by window; *)
(* of the words read, those before offset are the finished windows.        *)
Finished(c) == [e \in Entry |->
    IF e \in Words /\ ~cuts /\ (e < offset[c] \/ Done(c))
    THEN word_count[c][e] ELSE 0]

Abs == INSTANCE WordCount
           WITH Readers <- Clients, Lossy <- FALSE,
                next <- [c \in Clients |-> IF cuts THEN 0 ELSE offset[c]],
                tally <- [c \in Clients |-> Finished(c)],
                finished <- [c \in Clients |-> ~cuts /\ Done(c)]

AbsSpec == Abs!Spec

(* Client and handler wait for each other's messages only, and never both  *)
(* at once: the clients finish and the server, which joins its handlers,   *)
(* ends.                                                                   *)
SessionsEnd == ~cuts => <>(~running /\ \A c \in sessions : Done(c))
-----------------------------------------------------------------------------
(* Termination, but for fairness.                                          *)

(* What the two ends of a connection do of their own accord: nothing.      *)
HandlerIdle(c) == hpc[c] = "end" \/ (hpc[c] = "recv" /\ toServer[c] = <<>>)
ClientIdle(c) == Done(c) \/ (phase[c] = "recv" /\ Reads(toClient[c]) = {})

(* Client and handler, both of which block in recv, never wait for each    *)
(* other, and neither waits for one that has ended, although a request     *)
(* depends on how many words were read and EOF on how many were sent.      *)
NeverBothWait ==
    ~cuts => \A c \in Clients :
        HandlerIdle(c) /\ ClientIdle(c) => hpc[c] = "end" /\ Done(c)

(* The end of what was sent to the client, or will be before it asks again *)
(* for what it asks for now.                                               *)
SentTo(c) ==
    IF hpc[c] = "serve" THEN req[c]
    ELSE IF hpc[c] = "none" \/ toServer[c] # <<>> THEN offset[c]
    ELSE BatchEnd(offset[c])

(* A bound on the steps that are left of a session: packets to send, words *)
(* to read, windows to take, and what both sides do once.                  *)
Work(c) ==
    (NumWords - SentTo(c)) + (NumWords - offset[c] - total_words[c])
    + 2 * (NumWords - offset[c]) + 2 * Len(toServer[c])
    + (IF hpc[c] \in {"none", "serve"} THEN 1 ELSE 0)
    + (IF phase[c] = "new" THEN 4 ELSE IF phase[c] = "recv" THEN 1 ELSE 0)

(* No step is in vain: each brings a session closer to its end, by words   *)
(* sent or read that will not be sent or read again, and takes none away   *)
(* from it; or it is the last, by which the server ends.                   *)
StepsRunOut ==
    [][~cuts =>
        /\ \A c \in Clients : Work(c)' \in 0 .. Work(c)
        /\ (\E c \in Clients : Work(c)' # Work(c)) \/ (running /\ ~running')]_vars
=============================================================================
