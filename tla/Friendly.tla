------------------------------ MODULE Friendly ------------------------------
(***************************************************************************)
(* Part 4, "Friendly Server with Centralized Scheduling": the server       *)
(* process with its main, handler and scheduler threads, and the client    *)
(* process with one thread per connection.                                 *)
(***************************************************************************)
EXTENDS FriendlyServer, FriendlyClient

vars == <<wireVars, socketVars, serverVars, clientVars>>

Init == SocketsInit /\ ServerInit /\ ClientInit

Main       == MainStep /\ UNCHANGED clientVars
WokenUp    == AcceptFails /\ UNCHANGED clientVars
Handler(c) == HandleClient(c) /\ UNCHANGED clientVars
Scheduler  == SchedulerStep /\ UNCHANGED clientVars
Client(c)  == ClientStep(c) /\ UNCHANGED serverVars

Next ==
    \/ Main \/ WokenUp \/ Scheduler
    \/ \E c \in Clients : Handler(c) \/ Client(c)

(* Every thread is run again and again while it can go on.  Nothing        *)
(* promises that closing server_socket wakes the main thread up.           *)
Fairness ==
    /\ WF_vars(Main)
    /\ WF_vars(Scheduler)
    /\ \A c \in Clients : WF_vars(Handler(c)) /\ WF_vars(Client(c))

Spec == Init /\ [][Next]_vars /\ Fairness

-----------------------------------------------------------------------------
(* The variables hold values of their kind.                                *)
TypeOK == SocketsTypeOK /\ FriendlyServerTypeOK /\ FriendlyClientTypeOK

InQueue(c) ==
    (\E j \in DOMAIN fifo_queue : fifo_queue[j] = c) \/ rr_queue[c] > 0

(* A connection is in one place at a time: with its handler, in the queue  *)
(* once, or with the scheduler.  Nothing in addToQueue prevents a second   *)
(* entry; the order of the threads' steps does.                            *)
QueuedOnce ==
    /\ \A i, j \in DOMAIN fifo_queue : fifo_queue[i] = fifo_queue[j] => i = j
    /\ \A c \in Clients :
          /\ rr_queue[c] <= 1
          /\ hpc[c] # "end" \/ cur = c => ~InQueue(c)
          /\ hpc[c] # "end" => cur # c

(* Queued once, and nowhere any more, but not closed.                      *)
IsServed(c) ==
    /\ hpc[c] = "end" /\ ~InQueue(c) /\ c \notin closed
    /\ cur = c => spc = "join"

(* client_unserved, which nothing protects, is the number of places whose  *)
(* connection was not answered with EOF, and every connection that the     *)
(* scheduler let go of for another reason is closed.                       *)
UnservedCounted ==
    Running =>
        client_unserved = Places - Cardinality({c \in Clients : IsServed(c)})

(* When every recv ends where a send ended, an output file has lines of a  *)
(* table with every word of the file once and nothing else (no $$, piece   *)
(* or empty word), whatever the scheduler answered in between and whenever *)
(* the server ends.  All of them are there when the client has read the    *)
(* end of the file and come to its own end; only another client's refused  *)
(* connect can keep it from that.                                          *)
OutputComplete ==
    \A c \in Clients :
        /\ output[c] # "none" =>
              word_count[c] = [w \in Key |-> IF w \in Words THEN 1 ELSE 0]
        /\ is_read[c] =>
              output[c] = "written" \/ phase[c] \in {"write", "killed"}

(* However a stream is cut, and however many requests that makes a client  *)
(* send too early, no word of the file is counted twice.                   *)
CountedAtMostOnce ==
    \A c \in Clients : \A w \in Words : word_count[c][w] <= 1

(* The accept loop may end while connections wait, but never with more     *)
(* than one place not served.                                              *)
ExitLeavesOne == mpc \in {"join", "return", "exit"} => client_unserved <= 1

(* The clients count the file window by window: of the words read, those   *)
(* before offset are the finished windows.                                 *)
Finished(c) == [e \in Entry |->
    IF e \in Words /\ (e < offset[c] \/ is_read[c])
    THEN word_count[c][e] ELSE 0]

Abs == INSTANCE WordCount
           WITH Readers <- Clients, Lossy <- FALSE, next <- offset,
                tally <- [c \in Clients |-> Finished(c)], finished <- is_read

AbsSpec == Abs!Spec

-----------------------------------------------------------------------------
(* The inductive invariant behind QueuedOnce and ExitLeavesOne.            *)

(* The scheduler holds a connection while it is with a request.            *)
SchedulerInv ==
    /\ spc = "next" <=> cur = NoClient
    /\ spc = "join" => client_unserved = 0

(* A connection that waits for accept has no handler, and waits once.      *)
BacklogInv ==
    /\ \A i, j \in DOMAIN backlog : backlog[i] = backlog[j] => i = j
    /\ \A j \in DOMAIN backlog :
          hpc[backlog[j]] = "none" /\ phase[backlog[j]] # "new"
    /\ \A c \in Clients : phase[c] = "new" => hpc[c] = "none"

(* Only when at most one place is not served does the server stop          *)
(* listening.                                                              *)
StopInv == ~listening => client_unserved <= 1

(* The queue of the policy that was not chosen is empty.                   *)
PolicyInv ==
    /\ policy = "FIFO" => \A c \in Clients : rr_queue[c] = 0
    /\ policy = "ROUND_ROBIN" => fifo_queue = <<>>

(* While the server runs, a connection its end has closed is nowhere.      *)
ClosedInv ==
    Running => \A c \in closed :
        /\ ~InQueue(c) /\ cur # c
        /\ hpc[c] # "add" /\ phase[c] # "new"
        /\ \A j \in DOMAIN backlog : backlog[j] # c

PlaceInv ==
    /\ SchedulerInv /\ BacklogInv /\ StopInv /\ PolicyInv /\ ClosedInv
    /\ QueuedOnce /\ ExitLeavesOne

-----------------------------------------------------------------------------
Ended(c) == phase[c] \in {"done", "killed"}

(* A connection in the queue is not forgotten, although the scheduler      *)
(* waits in recv for every connection it takes and the round robin takes   *)
(* them in any order: it is taken, or the server ends.                     *)
QueuedIsTaken == \A c \in Clients : InQueue(c) ~> cur = c \/ ~Running

(* Every client thread ends, those that are turned away and those the      *)
(* server leaves behind included.                                          *)
ClientsEnd == \A c \in Clients : <>Ended(c)

-----------------------------------------------------------------------------
(* Termination, but for fairness.                                          *)

(* A client that reads on and was not sent EOF is where some thread of the *)
(* server will come across it, or its connection is closed: every way      *)
(* through the accept loop, the handlers and processRequest keeps it.      *)
NotForgotten ==
    ~Cuts /\ Running => \A c \in Clients :
        phase[c] = "recv" /\ c \notin closed /\ ~HasEnd(toClient[c]) =>
            \/ \E j \in DOMAIN backlog : backlog[j] = c
            \/ hpc[c] = "add" \/ InQueue(c)
            \/ cur = c /\ spc # "join"

(* What a thread does of its own accord: nothing.                          *)
MainIdle ==
    \/ mpc = "exit"
    \/ mpc = "accept" /\ backlog = <<>>
    \/ mpc = "join" /\ ~HandlersEnded /\ spc # "join"
SchedulerIdle ==
    \/ ~Running
    \/ spc = "next" /\ \A c \in Clients : ~InQueue(c)
    \/ spc = "recv" /\ toServer[cur] = <<>> /\ cur \notin hungup
    \/ spc = "join" /\ ~HandlersEnded /\ mpc # "join"
HandlerIdle(c) == ~Running \/ hpc[c] # "add"
ClientIdle(c) ==
    \/ Ended(c)
    \/ /\ phase[c] = "recv" /\ Reads(toClient[c]) = {}
       /\ toClient[c] # <<>> \/ c \notin closed

(* The one scheduler thread blocks in recv, with no timeout, on whatever   *)
(* connection it took from the queue.  It is always one whose client has   *)
(* something left to do, be it to hang up.                                 *)
RecvReturns ==
    ~Cuts /\ Running /\ spc = "recv" /\ SchedulerIdle => ~ClientIdle(cur)

(* The threads of server and clients never all wait, for each other or for *)
(* one that has ended, before every client thread has ended.               *)
NeverAllWait ==
    /\ ~Cuts /\ MainIdle /\ SchedulerIdle
    /\ \A c \in Clients : HandlerIdle(c) /\ ClientIdle(c)
    => \A c \in Clients : Ended(c)

(* The end of what was sent to the client, or will be before it asks again *)
(* for what it asks for now.                                               *)
SentTo(c) ==
    IF cur = c /\ spc = "serve" THEN req
    ELSE IF phase[c] = "new" \/ toServer[c] # <<>> THEN offset[c]
    ELSE BatchEnd(offset[c])

(* The steps until a connection is in the scheduler's recv, and one more.  *)
(* While it is served it may have to be queued and taken again.            *)
Distance(c) ==
    IF hpc[c] = "none" THEN 4 ELSE IF hpc[c] = "add" THEN 3
    ELSE IF InQueue(c) THEN 2
    ELSE IF cur # c THEN 0 ELSE IF spc = "serve" THEN 3 ELSE 1

(* A bound on the steps that are left for a connection: packets to send,   *)
(* words to read, windows to take, its way to the scheduler, and what its  *)
(* client does once.                                                       *)
Work(c) ==
    (NumWords - SentTo(c)) + (NumWords - words_received[c])
    + 3 * (NumWords - offset[c]) + 3 * Len(toServer[c]) + Distance(c)
    + (CASE phase[c] = "new" -> 6 [] phase[c] = "recv" -> 2
         [] phase[c] = "write" -> 1 [] OTHER -> 0)

(* The steps of the main thread until the next accept or its end.          *)
MainWork ==
    CASE mpc = "push" -> 5 [] mpc = "test" -> 4 [] mpc = "accept" -> 3
      [] mpc = "join" -> 2 [] mpc = "return" -> 1 [] mpc = "exit" -> 0

(* No step is in vain: each brings a connection closer to its end and      *)
(* takes none away from it, so nobody is requeued or served for nothing;   *)
(* or else it brings the main thread closer to its next accept or its end. *)
StepsRunOut ==
    [][~Cuts =>
        /\ \A c \in Clients : Work(c)' \in 0 .. Work(c)
        /\ (\E c \in Clients : Work(c)' # Work(c)) \/ MainWork' < MainWork]_vars

-----------------------------------------------------------------------------
(* What the repository says of the program, and it does not do.            *)

(* part4/test.py:29 waits for the server to end by itself.                 *)
ServerEnds == (\A c \in Clients : Ended(c)) ~> ~Running
=============================================================================
