--------------------------- MODULE FriendlyServer ---------------------------
(***************************************************************************)
(* The server of part 4.  The main thread (start) accepts connections and  *)
(* gives each to a short-lived handler thread, which puts it in the queue; *)
(* one scheduler thread takes connections from the queue, answers one      *)
(* request of each and puts it back.  The queues and client_set are        *)
(* accessed with queue_mutex held, so addToQueue and getNextRequest are    *)
(* atomic; client_unserved, threads and server_socket have no lock.        *)
(***************************************************************************)
EXTENDS Sockets

CONSTANTS
    Places,         \* n+4
    NoClient        \* the scheduler holds no connection (-1)

ASSUME ServerAssumption ==
    /\ Places \in Nat \ {0}
    /\ NoClient \notin Clients

VARIABLES
    policy,             \* argv[1]
    fifo_queue, rr_queue, client_set, client_unserved,
    threads,            \* the handler threads in the vector
    mpc,                \* where the main thread is
    hpc,                \* where each connection's handler is
    spc,                \* where the scheduler is
    cur,                \* scheduler: client_socket
    req,                \* scheduler: offset, then the next word to send
    z                   \* scheduler: z

queueVars == <<fifo_queue, rr_queue, client_set>>
localVars == <<cur, req, z>>
serverVars == <<policy, queueVars, client_unserved, threads,
                mpc, hpc, spc, localVars>>

FriendlyServerTypeOK ==
    /\ policy \in {"FIFO", "ROUND_ROBIN"}
    /\ fifo_queue \in Seq(Clients)
    /\ rr_queue \in [Clients -> Nat]
    /\ client_set \in SUBSET Clients
    /\ client_unserved \in Int
    /\ threads \in SUBSET Clients
    /\ mpc \in {"test", "accept", "push", "join", "return", "exit"}
    /\ hpc \in [Clients -> {"none", "add", "end"}]
    /\ spc \in {"next", "recv", "serve", "join"}
    /\ cur \in Clients \cup {NoClient}
    /\ req \in Nat
    /\ z \in 0 .. NumWords

ServerInit ==
    /\ policy \in {"FIFO", "ROUND_ROBIN"}
    /\ fifo_queue = <<>>
    /\ rr_queue = [c \in Clients |-> 0]
    /\ client_set = {}
    /\ client_unserved = Places
    /\ threads = {}
    /\ mpc = "test"
    /\ hpc = [c \in Clients |-> "none"]
    /\ spc = "next"
    /\ cur = NoClient /\ req = 0 /\ z = 0

Running == mpc # "exit"

-----------------------------------------------------------------------------
(* The queues.  rr_queue maps a descriptor to a queue that only ever holds *)
(* that descriptor, so its length says everything.                         *)

Push(c) ==
    \/ /\ policy = "FIFO"
       /\ fifo_queue' = Append(fifo_queue, c)
       /\ UNCHANGED rr_queue
    \/ /\ policy = "ROUND_ROBIN"
       /\ rr_queue' = [rr_queue EXCEPT ![c] = @ + 1]
       /\ UNCHANGED fifo_queue

(* A connection is turned away when n+4 others have been queued.           *)
AddToQueue(c) ==
    \/ /\ Cardinality(client_set) < Places \/ c \in client_set
       /\ client_set' = client_set \cup {c}
       /\ Push(c)
       /\ UNCHANGED closed
    \/ /\ Cardinality(client_set) >= Places /\ c \notin client_set
       /\ CloseConnection(c)
       /\ UNCHANGED queueVars

(* Fault: the connection taken stays in the queue.                         *)
GetNextRequestKeeps(c) ==
    /\ \/ policy = "FIFO" /\ fifo_queue # <<>> /\ c = Head(fifo_queue)
       \/ policy = "ROUND_ROBIN" /\ rr_queue[c] > 0
    /\ UNCHANGED <<fifo_queue, rr_queue>>

(* Fault: the last request of a queue is never taken.                      *)
GetNextRequestLeavesLast(c) ==
    \/ /\ policy = "FIFO" /\ Len(fifo_queue) > 1
       /\ c = Head(fifo_queue)
       /\ fifo_queue' = Tail(fifo_queue)
       /\ UNCHANGED rr_queue
    \/ /\ policy = "ROUND_ROBIN" /\ rr_queue[c] > 1
       /\ rr_queue' = [rr_queue EXCEPT ![c] = @ - 1]
       /\ UNCHANGED fifo_queue

(* Fault: the request is taken from the back of the queue.                 *)
GetNextRequestLast(c) ==
    \/ /\ policy = "FIFO" /\ fifo_queue # <<>>
       /\ c = fifo_queue[Len(fifo_queue)]
       /\ fifo_queue' = First(fifo_queue, Len(fifo_queue) - 1)
       /\ UNCHANGED rr_queue
    \/ /\ policy = "ROUND_ROBIN" /\ rr_queue[c] > 0
       /\ rr_queue' = [rr_queue EXCEPT ![c] = @ - 1]
       /\ UNCHANGED fifo_queue

(* The round robin takes the first non-empty queue in the order of an      *)
(* unordered_map, which is any order.                                      *)
GetNextRequest(c) ==
    \/ /\ policy = "FIFO" /\ fifo_queue # <<>>
       /\ c = Head(fifo_queue)
       /\ fifo_queue' = Tail(fifo_queue)
       /\ UNCHANGED rr_queue
    \/ /\ policy = "ROUND_ROBIN" /\ rr_queue[c] > 0
       /\ rr_queue' = [rr_queue EXCEPT ![c] = @ - 1]
       /\ UNCHANGED fifo_queue

-----------------------------------------------------------------------------
(* The main thread: start.                                                 *)

(* The loop's condition; that of the break at the end of the loop's body   *)
(* adds nothing, since client_unserved only decreases.                     *)
AcceptMore ==
    /\ mpc = "test" /\ client_unserved > 1
    /\ mpc' = "accept"
    /\ UNCHANGED <<wireVars, socketVars, queueVars, client_unserved, threads,
                   policy, hpc, spc, localVars>>

(* Fault: the loop ends with two clients to go.                            *)
StopAcceptingEarly ==
    /\ mpc = "test" /\ client_unserved <= 2
    /\ mpc' = "join"
    /\ UNCHANGED <<wireVars, socketVars, queueVars, client_unserved, threads,
                   policy, hpc, spc, localVars>>

StopAccepting ==
    /\ mpc = "test" /\ client_unserved <= 1
    /\ mpc' = "join"
    /\ UNCHANGED <<wireVars, socketVars, queueVars, client_unserved, threads,
                   policy, hpc, spc, localVars>>

(* A connection is accepted and its handler thread created.                *)
Accept ==
    /\ mpc = "accept" /\ backlog # <<>>
    /\ mpc' = "push"
    /\ backlog' = Tail(backlog)
    /\ hpc' = [hpc EXCEPT ![Head(backlog)] = "add"]
    /\ UNCHANGED <<wireVars, listening, closed, hungup, queueVars,
                   client_unserved, threads, policy, spc, localVars>>

(* threads.push_back                                                       *)
PushBack ==
    /\ mpc = "push"
    /\ mpc' = "test"
    /\ threads' = {c \in Clients : hpc[c] # "none"}
    /\ UNCHANGED <<wireVars, socketVars, queueVars, client_unserved,
                   policy, hpc, spc, localVars>>

(* accept fails because the scheduler closed server_socket.  An accept     *)
(* that was waiting when that happened may also go on waiting: POSIX       *)
(* leaves it open, and on Linux it waits for ever.                         *)
AcceptFails ==
    /\ mpc = "accept" /\ ~listening
    /\ mpc' = "join"
    /\ UNCHANGED <<wireVars, socketVars, queueVars, client_unserved, threads,
                   policy, hpc, spc, localVars>>

(* The handlers are joined by the main thread and by the scheduler.  A     *)
(* pthread_join of a thread that another thread is joining returns at      *)
(* once, with an error that nobody looks at: one of the two has to wait.   *)
HandlersEnded == \A c \in threads : hpc[c] = "end"

JoinHandlers ==
    /\ mpc = "join"
    /\ HandlersEnded \/ spc = "join"
    /\ mpc' = "return"
    /\ StopListening
    /\ UNCHANGED <<wireVars, hungup, queueVars, client_unserved, threads,
                   policy, hpc, spc, localVars>>

(* main returns: the process ends, whatever the scheduler is doing, and    *)
(* all its connections are closed.                                         *)
Return ==
    /\ mpc = "return"
    /\ mpc' = "exit"
    /\ closed' = Clients
    /\ UNCHANGED <<wireVars, listening, backlog, hungup, queueVars,
                   client_unserved, threads, policy, hpc, spc, localVars>>

MainStep ==
    \/ AcceptMore \/ StopAccepting \/ Accept \/ PushBack
    \/ JoinHandlers \/ Return

-----------------------------------------------------------------------------
(* The handler thread of connection c.                                     *)
HandleClient(c) ==
    /\ Running /\ hpc[c] = "add"
    /\ hpc' = [hpc EXCEPT ![c] = "end"]
    /\ AddToQueue(c)
    /\ UNCHANGED <<wireVars, listening, backlog, hungup, client_unserved,
                   threads, policy, mpc, spc, localVars>>

-----------------------------------------------------------------------------
(* The scheduler thread: scheduler and processRequest.                     *)

(* The locals go out of scope and the next request is looked for.          *)
Ready == spc' = "next" /\ cur' = NoClient /\ req' = 0 /\ z' = 0

Schedule ==
    /\ Running /\ spc = "next"
    /\ \E c \in Clients : GetNextRequest(c) /\ cur' = c
    /\ spc' = "recv"
    /\ UNCHANGED <<wireVars, socketVars, client_set, client_unserved, threads,
                   policy, mpc, hpc, req, z>>

(* recv returns 0: the client's end is closed.                             *)
HungUp ==
    /\ Running /\ spc = "recv"
    /\ cur \in hungup /\ toServer[cur] = <<>>
    /\ CloseConnection(cur)
    /\ Ready
    /\ UNCHANGED <<wireVars, listening, backlog, hungup, queueVars,
                   client_unserved, threads, policy, mpc, hpc>>

(* recv returns one request or several that arrived together; stoi reads   *)
(* the first, the others are lost.                                         *)
TakeRequest ==
    /\ Running /\ spc = "recv"
    /\ \E m \in 1 .. Len(toServer[cur]) :
          toServer' = [toServer EXCEPT ![cur] = Rest(@, m)]

OutOfRange ==
    /\ TakeRequest
    /\ Head(toServer[cur]) >= NumWords
    /\ Answer(cur, <<DOLLAR, NL>>)
    /\ CloseConnection(cur)
    /\ Ready
    /\ UNCHANGED <<listening, backlog, hungup, queueVars, client_unserved,
                   threads, policy, mpc, hpc>>

(* Fault: the end of the file does not bound the batch.                    *)
BeginAnswerPastEnd ==
    /\ TakeRequest
    /\ Head(toServer[cur]) < NumWords
    /\ spc' = "serve"
    /\ req' = Head(toServer[cur])
    /\ z' = Head(toServer[cur]) + k
    /\ UNCHANGED <<toClient, socketVars, queueVars, client_unserved, threads,
                   policy, mpc, hpc, cur>>

(* Fault: the connection is put back before its request is answered.       *)
BeginAnswerQueuesFirst ==
    /\ TakeRequest
    /\ Head(toServer[cur]) < NumWords
    /\ AddToQueue(cur)
    /\ spc' = "serve"
    /\ req' = Head(toServer[cur])
    /\ z' = BatchEnd(Head(toServer[cur]))
    /\ UNCHANGED <<toClient, listening, backlog, hungup, client_unserved,
                   threads, policy, mpc, hpc, cur>>

BeginAnswer ==
    /\ TakeRequest
    /\ Head(toServer[cur]) < NumWords
    /\ spc' = "serve"
    /\ req' = Head(toServer[cur])
    /\ z' = BatchEnd(Head(toServer[cur]))
    /\ UNCHANGED <<toClient, socketVars, queueVars, client_unserved, threads,
                   policy, mpc, hpc, cur>>

(* The packet of the words from a to b-1.                                  *)
Packet(a, b) ==
    Run(a, b) \o (IF b >= NumWords THEN <<END, NL>> ELSE <<NL>>)

SendPacket ==
    /\ Running /\ spc = "serve" /\ req < z
    /\ LET b == IF req + p < z THEN req + p ELSE z
       IN  /\ Answer(cur, Packet(req, b))
           /\ req' = b
    /\ UNCHANGED <<toServer, socketVars, queueVars, client_unserved, threads,
                   policy, mpc, hpc, spc, cur, z>>

(* Fault: the connection is not put back.                                  *)
RequeueForgets ==
    /\ Running /\ spc = "serve" /\ req >= z /\ req < NumWords
    /\ Ready
    /\ UNCHANGED <<wireVars, socketVars, queueVars, client_unserved, threads,
                   policy, mpc, hpc>>

(* The whole batch is sent, and it did not reach the end of the file.      *)
Requeue ==
    /\ Running /\ spc = "serve" /\ req >= z /\ req < NumWords
    /\ AddToQueue(cur)
    /\ Ready
    /\ UNCHANGED <<wireVars, listening, backlog, hungup, client_unserved,
                   threads, policy, mpc, hpc>>

(* Fault: a client served is not counted unless it is the last.            *)
ServedUncounted ==
    /\ Running /\ spc = "serve" /\ req >= z /\ req >= NumWords
    /\ \/ /\ client_unserved = 1 /\ client_unserved' = 0
          /\ spc' = "join" /\ UNCHANGED localVars
       \/ client_unserved # 1 /\ Ready /\ UNCHANGED client_unserved
    /\ UNCHANGED <<wireVars, socketVars, queueVars, threads, policy, mpc, hpc>>

(* EOF was sent: this client is served.                                    *)
Served ==
    /\ Running /\ spc = "serve" /\ req >= z /\ req >= NumWords
    /\ client_unserved' = client_unserved - 1
    /\ \/ client_unserved = 1 /\ spc' = "join" /\ UNCHANGED localVars
       \/ client_unserved # 1 /\ Ready
    /\ UNCHANGED <<wireVars, socketVars, queueVars, threads, policy, mpc, hpc>>

(* The last client is served: join the handlers and close server_socket.   *)
SchedulerJoins ==
    /\ Running /\ spc = "join"
    /\ HandlersEnded \/ mpc = "join"
    /\ StopListening
    /\ Ready
    /\ UNCHANGED <<wireVars, hungup, queueVars, client_unserved, threads,
                   policy, mpc, hpc>>

SchedulerStep ==
    \/ Schedule
    \/ HungUp \/ OutOfRange \/ BeginAnswer
    \/ SendPacket \/ Requeue \/ Served
    \/ SchedulerJoins
=============================================================================
