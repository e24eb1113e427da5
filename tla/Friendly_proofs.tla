--------------------------- MODULE Friendly_proofs ---------------------------
(***************************************************************************)
(* Theorems about part 4, for every set of connections, every number of    *)
(* places, every file, every k and p, both policies, and streams that      *)
(* recv cuts or not.                                                       *)
(***************************************************************************)
EXTENDS FriendlyTurns, Stream_proofs

-----------------------------------------------------------------------------
(* Type correctness.                                                       *)

TypeInv == TypeOK /\ SchedulerInv

LEMMA PacketType ==
    ASSUME NEW a \in Nat, NEW b \in Nat, b <= NumWords
    PROVE  Packet(a, b) \in Seq(Text \cup {NL})
  <1>1. Run(a, b) \in Seq(Words)
    BY RunInFile
  <1>2. Run(a, b) \in Seq(Text \cup {NL})
    BY <1>1, SeqMonotonic, Zenon DEF Text
  <1>3. <<END, NL>> \in Seq(Text \cup {NL}) /\ <<NL>> \in Seq(Text \cup {NL})
    BY DEF Text
  <1> QED
    BY <1>2, <1>3, ConcatProperties DEF Packet

(* What recv returns and leaves is text and newlines.                      *)
LEMMA ReadType ==
    ASSUME NEW s \in Seq(Text \cup {NL}), NEW r \in Reads(s)
    PROVE  StreamRead(s, r)
  BY WholeReadsDivide, CutReadsDivide DEF Reads

LEMMA BatchEndRange ==
    ASSUME NEW o \in Nat
    PROVE  BatchEnd(o) \in 0 .. NumWords
  <1>1. BatchEnd(o) \in Nat /\ BatchEnd(o) <= NumWords /\ NumWords \in Nat
    BY BatchEndProperties, ConfigAssumption
  <1> HIDE DEF BatchEnd
  <1> QED
    BY <1>1

(* An answer leaves text and newlines on the connection.                   *)
LEMMA AnswerType ==
    ASSUME SocketsTypeOK, NEW c \in Clients,
           NEW tokens \in Seq(Text \cup {NL}), Answer(c, tokens)
    PROVE  toClient' \in [Clients -> Seq(Text \cup {NL})]
  <1>1. toClient[c] \o tokens \in Seq(Text \cup {NL})
    BY ConcatProperties DEF SocketsTypeOK
  <1> QED
    BY <1>1 DEF SocketsTypeOK, Answer

LEMMA StopListeningType ==
    ASSUME SocketsTypeOK, StopListening
    PROVE  /\ listening' \in BOOLEAN
           /\ backlog' \in Seq(Clients)
           /\ closed' \in SUBSET Clients
  <1>1. \A j \in DOMAIN backlog : backlog[j] \in Clients
    BY DEF SocketsTypeOK
  <1> QED
    BY <1>1, EmptySeq DEF SocketsTypeOK, StopListening

LEMMA AddToQueueType ==
    ASSUME TypeOK, NEW c \in Clients, AddToQueue(c), UNCHANGED policy
    PROVE  /\ fifo_queue' \in Seq(Clients)
           /\ rr_queue' \in [Clients -> Nat]
           /\ client_set' \in SUBSET Clients
           /\ closed' \in SUBSET Clients
  <1> USE DEF TypeOK, SocketsTypeOK, FriendlyServerTypeOK
  <1>1. Append(fifo_queue, c) \in Seq(Clients)
    BY AppendProperties
  <1>2. rr_queue[c] + 1 \in Nat
    OBVIOUS
  <1> QED
    BY <1>1, <1>2 DEF AddToQueue, Push, CloseConnection, queueVars

LEMMA GetNextRequestType ==
    ASSUME TypeOK, NEW c \in Clients, GetNextRequest(c)
    PROVE  /\ fifo_queue' \in Seq(Clients)
           /\ rr_queue' \in [Clients -> Nat]
  <1> USE DEF TypeOK, FriendlyServerTypeOK
  <1>1. CASE policy = "FIFO"
    <2>1. /\ fifo_queue # <<>> /\ fifo_queue' = Tail(fifo_queue)
          /\ rr_queue' = rr_queue /\ fifo_queue \in Seq(Clients)
      BY <1>1 DEF GetNextRequest
    <2>2. Tail(fifo_queue) \in Seq(Clients)
      BY <2>1, TailParts
    <2> QED
      BY <2>1, <2>2
  <1>2. CASE policy = "ROUND_ROBIN"
    <2>1. rr_queue[c] - 1 \in Nat
      BY <1>2 DEF GetNextRequest
    <2> QED
      BY <1>2, <2>1 DEF GetNextRequest
  <1> QED
    BY <1>1, <1>2

(* The main thread, a handler, the scheduler and the clients in turn.      *)
LEMMA MainType ==
    ASSUME TypeOK, Main \/ WokenUp
    PROVE  TypeOK'
  <1> USE DEF TypeOK, SocketsTypeOK, FriendlyServerTypeOK, wireVars,
              socketVars, queueVars, localVars
  <1>0. FriendlyClientTypeOK'
    BY DEF Main, WokenUp, FriendlyClientTypeOK, clientVars
  <1>1. CASE AcceptMore
    BY <1>0, <1>1 DEF AcceptMore
  <1>2. CASE StopAccepting
    BY <1>0, <1>2 DEF StopAccepting
  <1>3. CASE Accept
    <2>1. Tail(backlog) \in Seq(Clients)
      BY <1>3, TailParts DEF Accept
    <2> QED
      BY <1>0, <1>3, <2>1 DEF Accept
  <1>4. CASE PushBack
    BY <1>0, <1>4 DEF PushBack
  <1>5. CASE JoinHandlers
    BY <1>0, <1>5, StopListeningType DEF JoinHandlers
  <1>6. CASE Return
    BY <1>0, <1>6 DEF Return
  <1>7. CASE AcceptFails
    BY <1>0, <1>7 DEF AcceptFails
  <1> QED
    BY <1>1, <1>2, <1>3, <1>4, <1>5, <1>6, <1>7 DEF Main, MainStep, WokenUp

LEMMA HandlerType ==
    ASSUME TypeOK, NEW c \in Clients, Handler(c)
    PROVE  TypeOK'
  <1>0. FriendlyClientTypeOK'
    BY DEF Handler, FriendlyClientTypeOK, clientVars, TypeOK
  <1>1. /\ fifo_queue' \in Seq(Clients)
        /\ rr_queue' \in [Clients -> Nat]
        /\ client_set' \in SUBSET Clients
        /\ closed' \in SUBSET Clients
    BY AddToQueueType DEF Handler, HandleClient
  <1> QED
    BY <1>0, <1>1 DEF Handler, HandleClient, TypeOK, SocketsTypeOK,
        FriendlyServerTypeOK, wireVars, localVars

LEMMA TakeRequestType ==
    ASSUME TypeOK, cur \in Clients, TakeRequest
    PROVE  /\ toServer' \in [Clients -> Seq(Nat)]
           /\ Head(toServer[cur]) \in Nat
  <1>1. PICK m \in 1 .. Len(toServer[cur]) :
           toServer' = [toServer EXCEPT ![cur] = Rest(@, m)]
    BY DEF TakeRequest
  <1>2. toServer[cur] \in Seq(Nat) /\ toServer[cur] # <<>>
    BY <1>1 DEF TypeOK, SocketsTypeOK
  <1>3. Rest(toServer[cur], m) \in Seq(Nat)
    BY <1>1, <1>2, TakeProperties, Zenon DEF Rest
  <1> QED
    BY <1>1, <1>2, <1>3, TailParts DEF TypeOK, SocketsTypeOK

LEMMA SchedulerType ==
    ASSUME TypeInv, Scheduler
    PROVE  TypeOK'
  <1> USE DEF TypeOK, SocketsTypeOK, FriendlyServerTypeOK, wireVars,
              socketVars, queueVars, localVars
  <1>0. FriendlyClientTypeOK'
    BY DEF Scheduler, FriendlyClientTypeOK, clientVars, TypeInv
  <1>a. TypeOK /\ NumWords \in Nat /\ p \in Nat \ {0} /\ NoClient \notin Clients
    BY ConfigAssumption, ServerAssumption DEF TypeInv
  <1>b. spc # "next" => cur \in Clients
    BY DEF TypeInv, SchedulerInv
  <1>c. Ready => /\ spc' \in {"next", "recv", "serve", "join"}
                 /\ cur' \in Clients \cup {NoClient}
                 /\ req' \in Nat /\ z' \in 0 .. NumWords
    BY <1>a DEF Ready
  <1>1. CASE Schedule
    BY <1>0, <1>1, <1>a, GetNextRequestType DEF Schedule
  <1>2. CASE HungUp
    BY <1>0, <1>2, <1>a, <1>b, <1>c DEF HungUp, CloseConnection
  <1>3. CASE OutOfRange
    <2>1. cur \in Clients
      BY <1>3, <1>b DEF OutOfRange, TakeRequest
    <2>2. toServer' \in [Clients -> Seq(Nat)]
      BY <1>3, <1>a, <2>1, TakeRequestType DEF OutOfRange
    <2>3. <<DOLLAR, NL>> \in Seq(Text \cup {NL})
      BY DEF Text
    <2>4. toClient' \in [Clients -> Seq(Text \cup {NL})]
      BY <1>3, <1>a, <2>1, <2>3, AnswerType DEF OutOfRange
    <2> QED
      BY <1>0, <1>3, <1>a, <1>c, <2>1, <2>2, <2>4 DEF OutOfRange, CloseConnection
  <1>4. CASE BeginAnswer
    <2>1. cur \in Clients
      BY <1>4, <1>b DEF BeginAnswer, TakeRequest
    <2>2. toServer' \in [Clients -> Seq(Nat)] /\ Head(toServer[cur]) \in Nat
      BY <1>4, <1>a, <2>1, TakeRequestType DEF BeginAnswer
    <2>3. BatchEnd(Head(toServer[cur])) \in 0 .. NumWords
      BY <2>2, BatchEndRange
    <2> QED
      BY <1>0, <1>4, <1>a, <2>2, <2>3 DEF BeginAnswer
  <1>5. CASE SendPacket
    <2> DEFINE b == IF req + p < z THEN req + p ELSE z
    <2>1. cur \in Clients /\ b \in Nat /\ b <= NumWords /\ req \in Nat
      BY <1>5, <1>a, <1>b DEF SendPacket
    <2> HIDE DEF b
    <2>2. Packet(req, b) \in Seq(Text \cup {NL})
      BY <2>1, PacketType
    <2>3. Answer(cur, Packet(req, b)) /\ req' = b
      BY <1>5 DEF SendPacket, b
    <2>4. toClient' \in [Clients -> Seq(Text \cup {NL})]
      BY <1>a, <2>1, <2>2, <2>3, AnswerType
    <2> QED
      BY <1>0, <1>5, <1>a, <2>1, <2>3, <2>4 DEF SendPacket
  <1>6. CASE Requeue
    <2>1. cur \in Clients /\ policy' = policy
      BY <1>6, <1>b DEF Requeue
    <2> QED
      BY <1>0, <1>6, <1>a, <1>c, <2>1, AddToQueueType DEF Requeue
  <1>7. CASE Served
    BY <1>0, <1>7, <1>a, <1>c DEF Served
  <1>8. CASE SchedulerJoins
    BY <1>0, <1>8, <1>a, <1>c, StopListeningType DEF SchedulerJoins
  <1> QED
    BY <1>1, <1>2, <1>3, <1>4, <1>5, <1>6, <1>7, <1>8
    DEF Scheduler, SchedulerStep

LEMMA CountType ==
    ASSUME TypeOK, NEW c \in Clients, NEW packet \in Seq(Text \cup {NL}),
           Count(c, packet)
    PROVE  /\ words_received' \in [Clients -> Nat]
           /\ word_count' \in [Clients -> [Key -> Nat]]
  <1>1. TextLen(packet) \in Nat
    BY TextLenType
  <1>2. words_received[c] + TextLen(packet) \in Nat
    BY <1>1 DEF TypeOK, FriendlyClientTypeOK
  <1>3. \A w \in Key : Occurrences(packet, w) \in Nat
    BY OccurrencesType, Zenon
  <1>4. [w \in Key |-> word_count[c][w] + Occurrences(packet, w)]
           \in [Key -> Nat]
    BY <1>3 DEF TypeOK, FriendlyClientTypeOK
  <1>5. words_received' \in [Clients -> Nat]
    BY <1>2 DEF TypeOK, FriendlyClientTypeOK, Count
  <1>6. word_count' \in [Clients -> [Key -> Nat]]
    BY <1>4 DEF TypeOK, FriendlyClientTypeOK, Count
  <1> QED
    BY <1>5, <1>6

LEMMA AskType ==
    ASSUME TypeOK, NEW c \in Clients, MaybeAsk(c)
    PROVE  /\ offset' \in [Clients -> Nat]
           /\ toServer' \in [Clients -> Seq(Nat)]
  <1>0. offset \in [Clients -> Nat] /\ toServer \in [Clients -> Seq(Nat)]
    BY DEF TypeOK, SocketsTypeOK, FriendlyClientTypeOK
  <1>1. offset[c] + k \in Nat
    BY <1>0, ConfigAssumption
  <1>2. Append(toServer[c], offset[c] + k) \in Seq(Nat)
    BY <1>0, <1>1, AppendProperties
  <1>3. \/ /\ offset' = [offset EXCEPT ![c] = offset[c] + k]
           /\ toServer' = [toServer EXCEPT
                              ![c] = Append(toServer[c], offset[c] + k)]
        \/ offset' = offset /\ toServer' = toServer
    BY DEF MaybeAsk
  <1> QED
    BY <1>0, <1>1, <1>2, <1>3

LEMMA ReceiveType ==
    ASSUME TypeOK, NEW c \in Clients, NEW r \in Reads(toClient[c]),
           Receive(c, r)
    PROVE  /\ r.packet \in Seq(Text \cup {NL})
           /\ toClient' \in [Clients -> Seq(Text \cup {NL})]
           /\ listening' \in BOOLEAN
           /\ backlog' \in Seq(Clients)
           /\ closed' \in SUBSET Clients
  <1>1. toClient[c] \in Seq(Text \cup {NL})
    BY DEF TypeOK, SocketsTypeOK
  <1>2. r.packet \in Seq(Text \cup {NL}) /\ r.rest \in Seq(Text \cup {NL})
    BY <1>1, ReadType DEF StreamRead
  <1> QED
    BY <1>2 DEF Receive, TypeOK, SocketsTypeOK

LEMMA ClientType ==
    ASSUME TypeOK, NEW c \in Clients, Client(c)
    PROVE  TypeOK'
  <1>0. FriendlyServerTypeOK'
    BY DEF Client, TypeOK, FriendlyServerTypeOK, serverVars, queueVars,
           localVars
  <1> USE DEF TypeOK, SocketsTypeOK, FriendlyClientTypeOK, wireVars
  <1>1. CASE Connect(c)
    <2>1. /\ Append(backlog, c) \in Seq(Clients)
          /\ Append(toServer[c], offset[c]) \in Seq(Nat)
      BY AppendProperties
    <2> QED
      BY <1>0, <1>1, <2>1 DEF Connect
  <1>2. CASE ConnectRefused(c)
    BY <1>0, <1>2 DEF ConnectRefused
  <1>3. CASE ServerClosed(c)
    BY <1>0, <1>3 DEF ServerClosed, Leave, Finish
  <1>4. CASE LastPacket(c)
    <2>1. PICK r \in Reads(toClient[c]) :
             /\ Receive(c, r) /\ Finish(c)
             /\ UNCHANGED <<toServer, offset, words_received, word_count,
                            is_read, output>>
      BY <1>4 DEF LastPacket, Leave
    <2> QED
      BY <1>0, <2>1, ReceiveType DEF Finish
  <1>5. CASE EndOfFile(c)
    <2>1. PICK r \in Reads(toClient[c]) :
             /\ Receive(c, r)
             /\ \E m \in 0 .. Len(r.packet) - 1 :
                   BeforeEnd(r.packet, m) /\ Count(c, First(r.packet, m))
             /\ is_read' = [is_read EXCEPT ![c] = TRUE]
             /\ phase' = [phase EXCEPT ![c] = "write"]
             /\ UNCHANGED <<toServer, hungup, offset, output>>
      BY <1>5 DEF EndOfFile
    <2>2. PICK m \in 0 .. Len(r.packet) - 1 : Count(c, First(r.packet, m))
      BY <2>1
    <2>3. r.packet \in Seq(Text \cup {NL})
      BY <2>1, ReceiveType
    <2>4. m \in 0 .. Len(r.packet)
      BY <2>3, LenProperties
    <2>5. First(r.packet, m) \in Seq(Text \cup {NL})
      BY <2>3, <2>4, PrefixType
    <2> QED
      BY <1>0, <2>1, <2>2, <2>5, ReceiveType, CountType
  <1>6. CASE CountWords(c)
    <2>1. PICK r \in Reads(toClient[c]) :
             /\ Receive(c, r) /\ Count(c, r.packet) /\ MaybeAsk(c)
             /\ UNCHANGED <<hungup, phase, is_read, output>>
      BY <1>6 DEF CountWords
    <2> QED
      BY <1>0, <2>1, ReceiveType, CountType, AskType
  <1>7. CASE WriteTable(c)
    BY <1>0, <1>7 DEF WriteTable, Finish
  <1> QED
    BY <1>1, <1>2, <1>3, <1>4, <1>5, <1>6, <1>7 DEF Client, ClientStep

LEMMA InitType == Init => TypeInv
  <1> SUFFICES ASSUME Init PROVE TypeInv
    OBVIOUS
  <1>1. <<>> \in Seq(Nat) /\ <<>> \in Seq(Clients)
        /\ <<>> \in Seq(Text \cup {NL})
    BY EmptySeq
  <1>2. SocketsTypeOK
    BY <1>1 DEF Init, SocketsInit, WireInit, SocketsTypeOK
  <1>3. FriendlyServerTypeOK /\ SchedulerInv
    BY <1>1, ConfigAssumption, ServerAssumption
    DEF Init, ServerInit, FriendlyServerTypeOK, SchedulerInv
  <1>4. FriendlyClientTypeOK
    BY DEF Init, ClientInit, FriendlyClientTypeOK
  <1> QED
    BY <1>2, <1>3, <1>4 DEF TypeInv, TypeOK

(* The scheduler holds a connection exactly while it is with a request,    *)
(* and only it says so.                                                    *)
LEMMA SchedulerInvStep ==
    ASSUME TypeInv, [Next]_vars
    PROVE  SchedulerInv'
  <1> USE DEF SchedulerInv
  <1>0. SchedulerInv /\ NoClient \notin Clients /\ client_unserved \in Int
    BY ServerAssumption DEF TypeInv, TypeOK, FriendlyServerTypeOK
  <1>1. CASE Scheduler
    <2>1. Ready => SchedulerInv'
      BY DEF Ready
    <2>2. CASE Schedule
      BY <1>0, <2>2 DEF Schedule
    <2>3. CASE HungUp \/ OutOfRange \/ Requeue \/ SchedulerJoins
      BY <2>1, <2>3 DEF HungUp, OutOfRange, Requeue, SchedulerJoins
    <2>4. CASE BeginAnswer \/ SendPacket
      BY <1>0, <2>4 DEF BeginAnswer, TakeRequest, SendPacket
    <2>5. CASE Served
      BY <1>0, <2>1, <2>5 DEF Served, localVars
    <2> QED
      BY <1>1, <2>2, <2>3, <2>4, <2>5 DEF Scheduler, SchedulerStep
  <1>2. CASE Main \/ WokenUp
    BY <1>0, <1>2 DEF Main, MainStep, WokenUp, AcceptMore, StopAccepting,
       Accept, PushBack, JoinHandlers, Return, AcceptFails, localVars
  <1>3. CASE \E c \in Clients : Handler(c) \/ Client(c)
    BY <1>0, <1>3 DEF Handler, HandleClient, Client, serverVars, localVars
  <1>4. CASE UNCHANGED vars
    BY <1>0, <1>4 DEF vars, serverVars, localVars
  <1> QED
    BY <1>1, <1>2, <1>3, <1>4 DEF Next

LEMMA TypeStep ==
    ASSUME TypeInv, [Next]_vars
    PROVE  TypeInv'
  <1>0. TypeOK
    BY DEF TypeInv
  <1>1. TypeOK'
    <2>1. CASE Main \/ WokenUp
      BY <1>0, <2>1, MainType
    <2>2. CASE Scheduler
      BY <2>2, SchedulerType
    <2>3. CASE \E c \in Clients : Handler(c) \/ Client(c)
      BY <1>0, <2>3, HandlerType, ClientType
    <2>4. CASE UNCHANGED vars
      BY <1>0, <2>4 DEF vars, wireVars, socketVars, serverVars, queueVars,
         localVars, clientVars, TypeOK, SocketsTypeOK, FriendlyServerTypeOK,
         FriendlyClientTypeOK
    <2> QED
      BY <2>1, <2>2, <2>3, <2>4 DEF Next
  <1> QED
    BY <1>1, SchedulerInvStep DEF TypeInv

LEMMA TypeInvariant == Spec => []TypeInv
  <1> QED
    BY InitType, TypeStep, PTL DEF Spec

(* Every variable of the server's threads, of the clients' threads and of  *)
(* the connections between them has a value of its kind in every state;    *)
(* in particular z stays inside the file and the scheduler's socket is a   *)
(* connection or none.                                                     *)
THEOREM TypeCorrect == Spec => []TypeOK
  <1>1. TypeInv => TypeOK
    BY DEF TypeInv
  <1> QED
    BY <1>1, TypeInvariant, PTL

-----------------------------------------------------------------------------
(* The queues.                                                             *)

OnceInFifo ==
    \A i, j \in DOMAIN fifo_queue : fifo_queue[i] = fifo_queue[j] => i = j

QueueInv ==
    /\ OnceInFifo
    /\ \A c \in Clients : rr_queue[c] <= 1
    /\ PolicyInv

(* Putting a connection in the queue that is not there puts it there once; *)
(* otherwise it is closed.  The others stay.                               *)
LEMMA AddToQueueEffect ==
    ASSUME TypeOK, QueueInv, NEW c \in Clients, ~InQueue(c), AddToQueue(c),
           UNCHANGED policy
    PROVE  /\ QueueInv'
           /\ \/ closed' = closed /\ InQueue(c)'
              \/ closed' = closed \cup {c} /\ ~InQueue(c)'
           /\ \A d \in Clients \ {c} : InQueue(d)' <=> InQueue(d)
  <1> USE DEF TypeOK, FriendlyServerTypeOK, QueueInv, PolicyInv, OnceInFifo
  <1>1. CASE UNCHANGED queueVars /\ CloseConnection(c)
    BY <1>1 DEF queueVars, CloseConnection, InQueue
  <1>2. CASE Push(c) /\ closed' = closed /\ policy = "FIFO"
    <2>1. fifo_queue' = Append(fifo_queue, c) /\ rr_queue' = rr_queue
      BY <1>2 DEF Push
    <2>2. /\ DOMAIN fifo_queue = 1 .. Len(fifo_queue)
          /\ DOMAIN fifo_queue' = 1 .. Len(fifo_queue) + 1
          /\ \A j \in 1 .. Len(fifo_queue) : fifo_queue'[j] = fifo_queue[j]
          /\ fifo_queue'[Len(fifo_queue) + 1] = c
          /\ Len(fifo_queue) \in Nat
      BY <2>1, AppendParts, LenProperties
    <2>3. \A j \in 1 .. Len(fifo_queue) : fifo_queue[j] # c
      BY <2>2 DEF InQueue
    <2>4. OnceInFifo'
      BY <2>2, <2>3
    <2>5. InQueue(c)'
      BY <2>2 DEF InQueue
    <2>6. \A d \in Clients \ {c} : InQueue(d)' <=> InQueue(d)
      BY <2>1, <2>2 DEF InQueue
    <2> QED
      BY <1>2, <2>1, <2>4, <2>5, <2>6
  <1>3. CASE Push(c) /\ closed' = closed /\ policy = "ROUND_ROBIN"
    <2>1. /\ fifo_queue' = fifo_queue
          /\ rr_queue' = [rr_queue EXCEPT ![c] = @ + 1]
      BY <1>3 DEF Push
    <2>2. rr_queue[c] = 0
      BY DEF InQueue
    <2> QED
      BY <1>3, <2>1, <2>2 DEF InQueue
  <1> QED
    BY <1>1, <1>2, <1>3 DEF AddToQueue

(* A request taken from the queue leaves it, and the others stay.          *)
LEMMA GetNextRequestEffect ==
    ASSUME TypeOK, QueueInv, NEW c \in Clients, GetNextRequest(c),
           UNCHANGED policy
    PROVE  /\ QueueInv'
           /\ InQueue(c) /\ ~InQueue(c)'
           /\ \A d \in Clients \ {c} : InQueue(d)' <=> InQueue(d)
  <1> USE DEF TypeOK, FriendlyServerTypeOK, QueueInv, PolicyInv, OnceInFifo
  <1>1. CASE policy = "FIFO"
    <2>1. /\ fifo_queue # <<>> /\ c = Head(fifo_queue)
          /\ fifo_queue' = Tail(fifo_queue) /\ rr_queue' = rr_queue
      BY <1>1 DEF GetNextRequest
    <2>2. /\ c = fifo_queue[1]
          /\ Len(fifo_queue) \in Nat /\ Len(fifo_queue) >= 1
          /\ DOMAIN fifo_queue = 1 .. Len(fifo_queue)
          /\ DOMAIN fifo_queue' = 1 .. Len(fifo_queue) - 1
          /\ \A j \in 1 .. Len(fifo_queue) - 1 :
                fifo_queue'[j] = fifo_queue[j + 1]
      BY <2>1, TailParts, LenProperties
    <2>3. OnceInFifo'
      <3>1. ASSUME NEW i \in DOMAIN fifo_queue', NEW j \in DOMAIN fifo_queue',
                   fifo_queue'[i] = fifo_queue'[j]
            PROVE  i = j
        <4>1. i + 1 \in DOMAIN fifo_queue /\ j + 1 \in DOMAIN fifo_queue
          BY <2>2
        <4>2. fifo_queue[i + 1] = fifo_queue[j + 1]
          BY <2>2, <3>1
        <4>3. i + 1 = j + 1 /\ i \in Int /\ j \in Int
          BY <2>2, <4>1, <4>2
        <4> QED
          BY <4>3
      <3> QED
        BY <3>1
    <2>4. InQueue(c) /\ ~InQueue(c)'
      BY <1>1, <2>1, <2>2 DEF InQueue
    <2>5. ASSUME NEW d \in Clients \ {c}
          PROVE  InQueue(d)' <=> InQueue(d)
      <3>1. ASSUME NEW j \in DOMAIN fifo_queue, fifo_queue[j] = d
            PROVE  j - 1 \in DOMAIN fifo_queue' /\ fifo_queue'[j - 1] = d
        BY <2>2, <2>5, <3>1
      <3>2. ASSUME NEW j \in DOMAIN fifo_queue', fifo_queue'[j] = d
            PROVE  j + 1 \in DOMAIN fifo_queue /\ fifo_queue[j + 1] = d
        BY <2>2, <3>2
      <3> QED
        BY <2>1, <3>1, <3>2 DEF InQueue
    <2> QED
      BY <1>1, <2>1, <2>3, <2>4, <2>5
  <1>2. CASE policy = "ROUND_ROBIN"
    <2>1. /\ fifo_queue' = fifo_queue /\ rr_queue[c] > 0
          /\ rr_queue' = [rr_queue EXCEPT ![c] = @ - 1]
      BY <1>2 DEF GetNextRequest
    <2>2. fifo_queue = <<>> /\ rr_queue[c] = 1
      BY <1>2, <2>1
    <2>3. DOMAIN fifo_queue = {}
      BY <2>2
    <2> QED
      BY <1>2, <2>1, <2>2, <2>3 DEF InQueue
  <1> QED
    BY <1>1, <1>2

LEMMA QueuesKept ==
    ASSUME QueueInv, UNCHANGED <<policy, fifo_queue, rr_queue>>
    PROVE  /\ QueueInv'
           /\ \A d \in Clients : InQueue(d)' <=> InQueue(d)
  BY DEF QueueInv, OnceInFifo, PolicyInv, InQueue

-----------------------------------------------------------------------------
(* The inductive invariant.                                                *)

(* With its handler, in the queue or with the scheduler.                   *)
OnePlace ==
    \A c \in Clients :
        /\ hpc[c] # "end" \/ cur = c => ~InQueue(c)
        /\ hpc[c] # "end" => cur # c

PlacesInv == BacklogInv /\ StopInv /\ ClosedInv /\ ExitLeavesOne /\ OnePlace

LEMMA PlaceParts ==
    PlaceInv <=> SchedulerInv /\ QueueInv /\ PlacesInv
  BY DEF PlaceInv, QueueInv, OnceInFifo, PlacesInv, OnePlace, QueuedOnce

LEMMA InitPlace == Init => PlaceInv
  <1> SUFFICES ASSUME Init PROVE PlaceInv
    OBVIOUS
  <1>1. SchedulerInv
    BY InitType DEF TypeInv
  <1>2. /\ backlog = <<>> /\ fifo_queue = <<>>
        /\ \A c \in Clients : rr_queue[c] = 0 /\ hpc[c] = "none"
        /\ closed = {} /\ listening = TRUE /\ mpc = "test"
        /\ cur = NoClient /\ NoClient \notin Clients
    BY ServerAssumption DEF Init, SocketsInit, ServerInit
  <1>3. DOMAIN <<>> = {}
    OBVIOUS
  <1>4. \A c \in Clients : ~InQueue(c)
    BY <1>2, <1>3 DEF InQueue
  <1>5. QueuedOnce /\ PolicyInv
    BY <1>2, <1>3, <1>4 DEF QueuedOnce, PolicyInv
  <1>6. BacklogInv
    BY <1>2, <1>3 DEF BacklogInv
  <1>7. StopInv /\ ClosedInv /\ ExitLeavesOne
    BY <1>2 DEF StopInv, ClosedInv, ExitLeavesOne
  <1> QED
    BY <1>1, <1>5, <1>6, <1>7 DEF PlaceInv

(* close(server_socket), when at most one place is not served.             *)
LEMMA StopListeningPlace ==
    ASSUME TypeOK, PlacesInv, StopListening, client_unserved <= 1,
           UNCHANGED <<hpc, phase, cur, mpc, client_unserved>>,
           \A d \in Clients : InQueue(d)' <=> InQueue(d)
    PROVE  BacklogInv' /\ StopInv' /\ ClosedInv'
  <1> USE DEF PlacesInv, BacklogInv, StopInv, ClosedInv, OnePlace, Running
  <1>1. /\ backlog' = <<>> /\ DOMAIN backlog' = {}
        /\ closed' = closed \cup {backlog[j] : j \in DOMAIN backlog}
        /\ \A j \in DOMAIN backlog : backlog[j] \in Clients
        /\ closed \in SUBSET Clients
    BY DEF StopListening, TypeOK, SocketsTypeOK
  <1>2. BacklogInv' /\ StopInv'
    BY <1>1
  <1>3. ASSUME Running', NEW c \in closed'
        PROVE  ~InQueue(c)' /\ cur # c /\ hpc[c] # "add" /\ phase[c] # "new"
    BY <1>1, <1>3
  <1> QED
    BY <1>1, <1>2, <1>3

LEMMA MainPlace ==
    ASSUME TypeOK, PlaceInv, Main \/ WokenUp
    PROVE  QueueInv' /\ PlacesInv'
  <1>1. QueueInv /\ PlacesInv /\ client_unserved \in Int
    BY PlaceParts DEF TypeOK, FriendlyServerTypeOK
  <1>2. UNCHANGED <<policy, fifo_queue, rr_queue, phase, cur, client_unserved>>
    BY DEF Main, WokenUp, MainStep, AcceptMore, StopAccepting, Accept,
       PushBack, JoinHandlers, Return, AcceptFails, queueVars, localVars,
       clientVars
  <1>3. QueueInv' /\ \A d \in Clients : InQueue(d)' <=> InQueue(d)
    BY <1>1, <1>2, QueuesKept
  <1> USE DEF PlacesInv, BacklogInv, StopInv, ClosedInv, ExitLeavesOne,
              OnePlace, Running
  <1>4. CASE AcceptMore \/ StopAccepting \/ PushBack \/ AcceptFails
    <2>1. UNCHANGED <<backlog, closed, hpc, listening>>
      BY <1>4 DEF AcceptMore, StopAccepting, PushBack, AcceptFails, socketVars
    <2>2. BacklogInv' /\ StopInv' /\ ClosedInv' /\ OnePlace'
      <3>1. Running
        BY <1>4 DEF AcceptMore, StopAccepting, PushBack, AcceptFails
      <3> QED
        BY <1>1, <1>2, <1>3, <2>1, <3>1 DEF TypeOK, SocketsTypeOK
    <2>3. ExitLeavesOne'
      BY <1>1, <1>2, <1>4
      DEF AcceptMore, StopAccepting, PushBack, AcceptFails
    <2> QED
      BY <1>3, <2>2, <2>3
  <1>5. CASE Accept
    <2> DEFINE a == Head(backlog)
    <2>1. /\ UNCHANGED <<closed, listening>>
          /\ mpc = "accept" /\ mpc' = "push"
          /\ backlog' = Tail(backlog)
          /\ hpc' = [hpc EXCEPT ![a] = "add"]
          /\ a \in Clients /\ a = backlog[1]
          /\ Len(backlog) \in Nat /\ Len(backlog) >= 1
          /\ DOMAIN backlog = 1 .. Len(backlog)
          /\ DOMAIN backlog' = 1 .. Len(backlog) - 1
          /\ \A j \in 1 .. Len(backlog) - 1 : backlog'[j] = backlog[j + 1]
          /\ \A j \in 1 .. Len(backlog) : backlog[j] \in Clients
          /\ hpc \in [Clients -> {"none", "add", "end"}]
          /\ closed \in SUBSET Clients
      BY <1>5, TailParts, LenProperties
      DEF Accept, TypeOK, SocketsTypeOK, FriendlyServerTypeOK
    <2> HIDE DEF a
    <2>2. hpc[a] = "none" /\ phase[a] # "new"
      BY <1>1, <2>1
    <2>3. ASSUME NEW j \in DOMAIN backlog'
          PROVE  /\ j + 1 \in DOMAIN backlog /\ backlog'[j] = backlog[j + 1]
                 /\ backlog'[j] # a /\ backlog'[j] \in Clients
      <3>1. j + 1 \in DOMAIN backlog /\ 1 \in DOMAIN backlog /\ j + 1 # 1
        BY <2>1
      <3> QED
        BY <1>1, <2>1, <3>1
    <2>4. ASSUME NEW i \in DOMAIN backlog', NEW j \in DOMAIN backlog',
                 backlog'[i] = backlog'[j]
          PROVE  i = j
      <3>1. i + 1 = j + 1 /\ i \in Int /\ j \in Int
        BY <1>1, <2>1, <2>3, <2>4
      <3> QED
        BY <3>1
    <2>5. BacklogInv'
      BY <1>1, <1>2, <2>1, <2>2, <2>3, <2>4
    <2>6. OnePlace'
      BY <1>1, <1>2, <1>3, <2>1, <2>2
    <2>7. ClosedInv'
      <3>1. a \notin closed
        BY <1>1, <2>1
      <3> QED
        BY <1>1, <1>2, <1>3, <2>1, <2>3, <3>1
    <2>8. StopInv' /\ ExitLeavesOne'
      BY <1>1, <1>2, <2>1
    <2> QED
      BY <1>3, <2>5, <2>6, <2>7, <2>8
  <1>6. CASE JoinHandlers
    <2>1. /\ StopListening /\ client_unserved <= 1
          /\ UNCHANGED hpc
          /\ mpc = "join" /\ mpc' = "return"
      BY <1>1, <1>6 DEF JoinHandlers
    <2>2. BacklogInv' /\ StopInv' /\ ClosedInv'
      BY <1>1, <1>2, <1>3, <2>1 DEF StopListening, TypeOK, SocketsTypeOK
    <2> QED
      BY <1>1, <1>2, <1>3, <2>1, <2>2
  <1>7. CASE Return
    BY <1>1, <1>2, <1>3, <1>7 DEF Return
  <1> QED
    BY <1>4, <1>5, <1>6, <1>7 DEF Main, MainStep, WokenUp

LEMMA HandlerPlace ==
    ASSUME TypeOK, PlaceInv, NEW c \in Clients, Handler(c)
    PROVE  QueueInv' /\ PlacesInv'
  <1>1. QueueInv /\ PlacesInv
    BY PlaceParts
  <1>2. /\ Running /\ hpc[c] = "add" /\ AddToQueue(c)
        /\ hpc' = [hpc EXCEPT ![c] = "end"]
        /\ UNCHANGED <<listening, backlog, client_unserved, policy, mpc, cur,
                       phase>>
        /\ hpc \in [Clients -> {"none", "add", "end"}]
        /\ closed \in SUBSET Clients
        /\ \A j \in DOMAIN backlog : backlog[j] \in Clients
    BY DEF Handler, HandleClient, localVars, clientVars, TypeOK,
       FriendlyServerTypeOK, SocketsTypeOK
  <1> USE DEF PlacesInv, BacklogInv, StopInv, ClosedInv, ExitLeavesOne,
              OnePlace, Running
  <1>3. ~InQueue(c) /\ cur # c /\ c \notin closed /\ phase[c] # "new"
        /\ \A j \in DOMAIN backlog : backlog[j] # c
    BY <1>1, <1>2
  <1>4. /\ QueueInv'
        /\ \/ closed' = closed /\ InQueue(c)'
           \/ closed' = closed \cup {c} /\ ~InQueue(c)'
        /\ \A d \in Clients \ {c} : InQueue(d)' <=> InQueue(d)
    BY <1>1, <1>2, <1>3, AddToQueueEffect
  <1>5. BacklogInv' /\ StopInv' /\ ExitLeavesOne'
    BY <1>1, <1>2, <1>3
  <1>6. OnePlace'
    BY <1>1, <1>2, <1>3, <1>4
  <1>7. ClosedInv'
    <2>1. ASSUME NEW d \in closed'
          PROVE  /\ ~InQueue(d)' /\ cur # d
                 /\ hpc'[d] # "add" /\ phase[d] # "new"
                 /\ \A j \in DOMAIN backlog : backlog[j] # d
      <3>1. CASE d = c
        BY <1>2, <1>3, <1>4, <2>1, <3>1
      <3>2. CASE d # c
        <4>1. d \in closed /\ d \in Clients \ {c}
          BY <1>2, <1>4, <2>1, <3>2
        <4> QED
          BY <1>1, <1>2, <1>4, <4>1
      <3> QED
        BY <3>1, <3>2
    <2> QED
      BY <1>2, <2>1
  <1> QED
    BY <1>4, <1>5, <1>6, <1>7

(* What no step of the scheduler but the last changes.                     *)
LEMMA SchedulerFrame ==
    ASSUME TypeOK, Scheduler
    PROVE  /\ UNCHANGED <<policy, phase, hpc, mpc, threads>> /\ Running
           /\ closed \in SUBSET Clients /\ client_unserved \in Int
           /\ hpc \in [Clients -> {"none", "add", "end"}]
           /\ \A j \in DOMAIN backlog : backlog[j] \in Clients
  BY DEF Scheduler, SchedulerStep, Schedule, HungUp, OutOfRange, BeginAnswer,
     TakeRequest, SendPacket, Requeue, Served, SchedulerJoins, clientVars,
     TypeOK, SocketsTypeOK, FriendlyServerTypeOK

LEMMA SchedulerPlace ==
    ASSUME TypeOK, PlaceInv, Scheduler
    PROVE  QueueInv' /\ PlacesInv'
  <1>1. QueueInv /\ PlacesInv /\ SchedulerInv
    BY PlaceParts
  <1>2. NoClient \notin Clients /\ (cur \in Clients \/ cur = NoClient)
    BY ServerAssumption DEF TypeOK, FriendlyServerTypeOK
  <1>3. spc # "next" => cur \in Clients
    BY <1>1, <1>2 DEF SchedulerInv
  <1> USE SchedulerFrame DEF PlacesInv, BacklogInv, StopInv, ClosedInv,
          ExitLeavesOne, OnePlace, Running
  <1>4. CASE Schedule
    <2>1. PICK c \in Clients : GetNextRequest(c) /\ cur' = c
      BY <1>4 DEF Schedule
    <2>2. /\ QueueInv' /\ InQueue(c) /\ ~InQueue(c)'
          /\ \A d \in Clients \ {c} : InQueue(d)' <=> InQueue(d)
      BY <1>1, <2>1, GetNextRequestEffect
    <2>3. /\ UNCHANGED <<listening, backlog, closed, client_unserved>>
          /\ cur = NoClient
      BY <1>1, <1>4 DEF Schedule, socketVars, SchedulerInv
    <2> QED
      BY <1>1, <1>2, <2>1, <2>2, <2>3
  <1>5. CASE HungUp \/ OutOfRange
    <2>1. /\ cur' = NoClient /\ cur \in Clients
          /\ closed' = closed \cup {cur}
          /\ UNCHANGED <<policy, fifo_queue, rr_queue, listening, backlog,
                         client_unserved>>
      BY <1>3, <1>5 DEF HungUp, OutOfRange, TakeRequest, Ready,
         CloseConnection, queueVars
    <2>2. QueueInv' /\ \A d \in Clients : InQueue(d)' <=> InQueue(d)
      BY <1>1, <2>1, QueuesKept
    <2>3. /\ hpc[cur] = "end" /\ ~InQueue(cur) /\ phase[cur] # "new"
          /\ \A j \in DOMAIN backlog : backlog[j] # cur
      BY <1>1, <2>1
    <2> QED
      BY <1>1, <1>2, <2>1, <2>2, <2>3
  <1>6. CASE BeginAnswer \/ SendPacket
    <2>1. UNCHANGED <<policy, fifo_queue, rr_queue, listening, backlog, closed,
                      client_unserved, cur>>
      BY <1>6 DEF BeginAnswer, SendPacket, socketVars, queueVars
    <2>2. QueueInv' /\ \A d \in Clients : InQueue(d)' <=> InQueue(d)
      BY <1>1, <2>1, QueuesKept
    <2> QED
      BY <1>1, <2>1, <2>2
  <1>7. CASE Requeue
    <2>0. PICK c \in Clients : c = cur
      BY <1>3, <1>7 DEF Requeue
    <2>1. /\ cur' = NoClient /\ AddToQueue(c)
          /\ UNCHANGED <<listening, backlog, client_unserved>>
      BY <1>7, <2>0 DEF Requeue, Ready
    <2>2. /\ hpc[c] = "end" /\ ~InQueue(c) /\ phase[c] # "new"
          /\ c \notin closed /\ \A j \in DOMAIN backlog : backlog[j] # c
      BY <1>1, <2>0
    <2>3. /\ QueueInv'
          /\ \/ closed' = closed /\ InQueue(c)'
             \/ closed' = closed \cup {c} /\ ~InQueue(c)'
          /\ \A d \in Clients \ {c} : InQueue(d)' <=> InQueue(d)
      BY <1>1, <2>1, <2>2, AddToQueueEffect
    <2>4. OnePlace' /\ BacklogInv' /\ StopInv' /\ ExitLeavesOne'
      BY <1>1, <1>2, <2>0, <2>1, <2>2, <2>3
    <2>5. ClosedInv'
      BY <1>1, <1>2, <2>1, <2>2, <2>3
    <2> QED
      BY <2>3, <2>4, <2>5
  <1>8. CASE Served
    <2>1. /\ cur' = cur \/ cur' = NoClient
          /\ client_unserved' = client_unserved - 1
          /\ UNCHANGED <<policy, fifo_queue, rr_queue, listening, backlog,
                         closed>>
      BY <1>8 DEF Served, Ready, socketVars, queueVars, localVars
    <2>2. QueueInv' /\ \A d \in Clients : InQueue(d)' <=> InQueue(d)
      BY <1>1, <2>1, QueuesKept
    <2> QED
      BY <1>1, <1>2, <2>1, <2>2
  <1>9. CASE SchedulerJoins
    <2>1. /\ cur' = NoClient /\ client_unserved = 0 /\ StopListening
          /\ UNCHANGED <<policy, fifo_queue, rr_queue, client_unserved>>
      BY <1>1, <1>9 DEF SchedulerJoins, SchedulerInv, Ready, queueVars
    <2>2. QueueInv' /\ \A d \in Clients : InQueue(d)' <=> InQueue(d)
      BY <1>1, <2>1, QueuesKept
    <2>3. BacklogInv' /\ StopInv' /\ ClosedInv'
      BY <1>1, <1>2, <2>1, <2>2 DEF StopListening
    <2> QED
      BY <1>1, <1>2, <2>1, <2>2, <2>3
  <1> QED
    BY <1>4, <1>5, <1>6, <1>7, <1>8, <1>9 DEF Scheduler, SchedulerStep

LEMMA ClientPlace ==
    ASSUME TypeOK, PlaceInv, NEW c \in Clients, Client(c)
    PROVE  QueueInv' /\ PlacesInv'
  <1>1. QueueInv /\ PlacesInv
    BY PlaceParts
  <1>2. /\ UNCHANGED <<policy, fifo_queue, rr_queue, hpc, mpc, cur,
                       client_unserved>>
        /\ phase \in [Clients -> {"new", "recv", "write", "done", "killed"}]
        /\ \A j \in DOMAIN backlog : backlog[j] \in Clients
        /\ closed \in SUBSET Clients
    BY DEF Client, serverVars, queueVars, localVars, TypeOK, SocketsTypeOK,
       FriendlyClientTypeOK
  <1>3. QueueInv' /\ \A d \in Clients : InQueue(d)' <=> InQueue(d)
    BY <1>1, <1>2, QueuesKept
  <1> USE DEF PlacesInv, BacklogInv, StopInv, ClosedInv, ExitLeavesOne,
              OnePlace, Running
  <1>4. CASE Connect(c)
    <2>1. /\ UNCHANGED <<closed, listening>> /\ phase[c] = "new"
          /\ phase' = [phase EXCEPT ![c] = "recv"]
          /\ Len(backlog) \in Nat
          /\ DOMAIN backlog = 1 .. Len(backlog)
          /\ DOMAIN backlog' = 1 .. Len(backlog) + 1
          /\ \A j \in 1 .. Len(backlog) : backlog'[j] = backlog[j]
          /\ backlog'[Len(backlog) + 1] = c
      BY <1>4, AppendParts, LenProperties DEF Connect, TypeOK, SocketsTypeOK
    <2>2. /\ hpc[c] = "none" /\ \A j \in DOMAIN backlog : backlog[j] # c
          /\ Running => c \notin closed
      BY <1>1, <2>1
    <2>3. BacklogInv'
      BY <1>1, <1>2, <2>1, <2>2
    <2>4. ClosedInv'
      BY <1>1, <1>2, <1>3, <2>1, <2>2
    <2> QED
      BY <1>1, <1>2, <1>3, <2>1, <2>3, <2>4
  <1>5. CASE ~Connect(c)
    <2>1. /\ UNCHANGED <<closed, listening, backlog>>
          /\ \A d \in Clients : phase[d] # "new" => phase'[d] # "new"
          /\ \A d \in Clients : phase'[d] = "new" => phase[d] = "new"
      BY <1>2, <1>5 DEF Client, ClientStep, ConnectRefused, ServerClosed,
         LastPacket, EndOfFile, CountWords, WriteTable, Receive, Leave, Finish
    <2> QED
      BY <1>1, <1>2, <1>3, <2>1
  <1> QED
    BY <1>4, <1>5

LEMMA PlaceStep ==
    ASSUME TypeInv, PlaceInv, [Next]_vars
    PROVE  PlaceInv'
  <1>0. TypeOK /\ SchedulerInv'
    BY SchedulerInvStep DEF TypeInv
  <1>1. QueueInv' /\ PlacesInv'
    <2>1. CASE Main \/ WokenUp
      BY <1>0, <2>1, MainPlace
    <2>2. CASE Scheduler
      BY <1>0, <2>2, SchedulerPlace
    <2>3. CASE \E c \in Clients : Handler(c) \/ Client(c)
      BY <1>0, <2>3, HandlerPlace, ClientPlace
    <2>4. CASE UNCHANGED vars
      <3>1. QueueInv /\ PlacesInv
        BY PlaceParts
      <3> QED
        BY <2>4, <3>1 DEF vars, socketVars, serverVars, queueVars, localVars,
           clientVars, QueueInv, OnceInFifo, PolicyInv, PlacesInv, BacklogInv,
           StopInv, ClosedInv, ExitLeavesOne, OnePlace, Running, InQueue
    <2> QED
      BY <2>1, <2>2, <2>3, <2>4 DEF Next
  <1>2. PlaceInv' <=> SchedulerInv' /\ QueueInv' /\ PlacesInv'
    BY PlaceParts, PTL
  <1> QED
    BY <1>0, <1>1, <1>2

(* The inductive invariant of the server's threads: which of them holds a  *)
(* connection, whichever policy is chosen and however the threads, the     *)
(* clients and the two places that close server_socket interleave.         *)
THEOREM PlaceCorrect == Spec => []PlaceInv
  <1>1. TypeInv /\ PlaceInv /\ [Next]_vars => PlaceInv'
    BY PlaceStep
  <1> QED
    BY <1>1, InitPlace, TypeInvariant, PTL DEF Spec

(* No connection is ever in the queue twice, or in the queue while its     *)
(* handler or the scheduler still has it, although addToQueue never looks. *)
THEOREM QueuedOnceCorrect == Spec => []QueuedOnce
  <1>1. PlaceInv => QueuedOnce
    BY DEF PlaceInv
  <1> QED
    BY <1>1, PlaceCorrect, PTL

(* However the unprotected reads of client_unserved and the closing of     *)
(* server_socket fall, the accept loop ends with at most one place left.   *)
THEOREM ExitLeavesOneCorrect == Spec => []ExitLeavesOne
  <1>1. PlaceInv => ExitLeavesOne
    BY DEF PlaceInv
  <1> QED
    BY <1>1, PlaceCorrect, PTL

-----------------------------------------------------------------------------
(* Counting the clients that are served.                                   *)

LEMMA SameServed ==
    ASSUME UnservedCounted, \A d \in Clients : IsServed(d)' <=> IsServed(d),
           client_unserved' = client_unserved, Running' => Running
    PROVE  UnservedCounted'
  <1>1. {d \in Clients : IsServed(d)}' = {d \in Clients : IsServed(d)}
    OBVIOUS
  <1> QED
    BY <1>1 DEF UnservedCounted

LEMMA InitServed == Init => UnservedCounted
  <1> SUFFICES ASSUME Init PROVE UnservedCounted
    OBVIOUS
  <1>1. {c \in Clients : IsServed(c)} = {}
    BY DEF Init, ServerInit, IsServed
  <1>2. client_unserved = Places /\ Places \in Nat
    BY ServerAssumption DEF Init, ServerInit
  <1> QED
    BY <1>1, <1>2, FS_EmptySet DEF UnservedCounted

LEMMA ServedStep ==
    ASSUME TypeInv, PlaceInv, UnservedCounted, [Next]_vars
    PROVE  UnservedCounted'
  <1>0. /\ TypeOK /\ SchedulerInv /\ QueueInv /\ PlacesInv
        /\ NoClient \notin Clients
        /\ hpc \in [Clients -> {"none", "add", "end"}]
        /\ closed \in SUBSET Clients
        /\ \A j \in DOMAIN backlog : backlog[j] \in Clients
    <2>1. /\ TypeOK /\ SchedulerInv /\ QueueInv /\ PlacesInv
          /\ NoClient \notin Clients
      BY PlaceParts, ServerAssumption DEF TypeInv
    <2>2. /\ hpc \in [Clients -> {"none", "add", "end"}]
          /\ closed \in SUBSET Clients /\ backlog \in Seq(Clients)
      BY <2>1 DEF TypeOK, SocketsTypeOK, FriendlyServerTypeOK
    <2>3. \A j \in DOMAIN backlog : backlog[j] \in Clients
      BY <2>2
    <2> QED
      BY <2>1, <2>2, <2>3
  <1> USE DEF IsServed
  <1>1. CASE Main \/ WokenUp
    <2>1. CASE Return
      BY <2>1 DEF Return, UnservedCounted, Running
    <2>2. CASE ~Return
      <3>1. /\ UNCHANGED <<policy, fifo_queue, rr_queue, cur, spc,
                           client_unserved>>
            /\ Running' => Running
        BY <1>1, <2>2 DEF Main, WokenUp, MainStep, AcceptMore, StopAccepting,
           Accept, PushBack, JoinHandlers, AcceptFails, queueVars, localVars,
           Running
      <3>2. /\ hpc' = hpc
            \/ /\ backlog # <<>>
               /\ hpc' = [hpc EXCEPT ![Head(backlog)] = "add"]
               /\ closed' = closed
        BY <1>1, <2>2 DEF Main, WokenUp, MainStep, AcceptMore, StopAccepting,
           Accept, PushBack, JoinHandlers, AcceptFails
      <3>3. \/ closed' = closed
            \/ closed' = closed \cup {backlog[j] : j \in DOMAIN backlog}
        BY <1>1, <2>2 DEF Main, WokenUp, MainStep, AcceptMore, StopAccepting,
           Accept, PushBack, JoinHandlers, AcceptFails, StopListening,
           socketVars
      <3>4. \A j \in DOMAIN backlog : hpc[backlog[j]] = "none"
        BY <1>0 DEF PlacesInv, BacklogInv
      <3>5. backlog # <<>> => 1 \in DOMAIN backlog /\ Head(backlog) = backlog[1]
        BY <1>0, TailParts, LenProperties DEF TypeOK, SocketsTypeOK
      <3>6. \A d \in Clients : InQueue(d)' <=> InQueue(d)
        BY <1>0, <3>1, QueuesKept
      <3>7. \A d \in Clients : IsServed(d)' <=> IsServed(d)
        BY <1>0, <3>1, <3>2, <3>3, <3>4, <3>5, <3>6
      <3> QED
        BY <3>1, <3>7, SameServed
    <2> QED
      BY <2>1, <2>2
  <1>2. CASE \E c \in Clients : Handler(c)
    <2>1. PICK c \in Clients : Handler(c)
      BY <1>2
    <2>2. /\ hpc[c] = "add" /\ AddToQueue(c)
          /\ hpc' = [hpc EXCEPT ![c] = "end"]
          /\ UNCHANGED <<client_unserved, policy, mpc, cur, spc>>
      BY <2>1 DEF Handler, HandleClient, localVars
    <2>3. ~InQueue(c)
      BY <1>0, <2>2 DEF PlacesInv, OnePlace
    <2>4. /\ \/ closed' = closed /\ InQueue(c)'
             \/ closed' = closed \cup {c} /\ ~InQueue(c)'
          /\ \A d \in Clients \ {c} : InQueue(d)' <=> InQueue(d)
      BY <1>0, <2>2, <2>3, AddToQueueEffect
    <2>5. \A d \in Clients : IsServed(d)' <=> IsServed(d)
      BY <1>0, <2>2, <2>4
    <2> QED
      BY <2>2, <2>5, SameServed DEF Running
  <1>3. CASE \E c \in Clients : Client(c)
    <2>1. UNCHANGED <<policy, fifo_queue, rr_queue, hpc, mpc, cur, spc, closed,
                      client_unserved>>
      BY <1>3 DEF Client, ClientStep, Connect, ConnectRefused, ServerClosed,
         LastPacket, EndOfFile, CountWords, WriteTable, Receive, serverVars,
         queueVars, localVars
    <2>2. \A d \in Clients : InQueue(d)' <=> InQueue(d)
      BY <1>0, <2>1, QueuesKept
    <2> QED
      BY <2>1, <2>2, SameServed DEF Running
  <1>4. CASE Scheduler
    <2>0. UNCHANGED <<policy, hpc, mpc>> /\ Running
      BY <1>0, <1>4, SchedulerFrame
    <2>1. CASE Schedule
      <3>1. PICK c \in Clients : GetNextRequest(c) /\ cur' = c
        BY <2>1 DEF Schedule
      <3>2. /\ InQueue(c)
            /\ \A d \in Clients \ {c} : InQueue(d)' <=> InQueue(d)
        BY <1>0, <2>0, <3>1, GetNextRequestEffect
      <3>3. /\ UNCHANGED <<closed, client_unserved>>
            /\ cur = NoClient /\ spc' = "recv"
        BY <1>0, <2>1 DEF Schedule, socketVars, SchedulerInv
      <3>4. \A d \in Clients : IsServed(d)' <=> IsServed(d)
        BY <1>0, <2>0, <3>1, <3>2, <3>3
      <3> QED
        BY <2>0, <3>3, <3>4, SameServed
    <2>2. CASE HungUp \/ OutOfRange
      <3>1. /\ spc = "recv" /\ cur' = NoClient
            /\ closed' = closed \cup {cur}
            /\ UNCHANGED <<fifo_queue, rr_queue, client_unserved>>
        BY <2>2 DEF HungUp, OutOfRange, TakeRequest, Ready, CloseConnection,
           queueVars
      <3>2. \A d \in Clients : InQueue(d)' <=> InQueue(d)
        BY <1>0, <2>0, <3>1, QueuesKept
      <3>3. \A d \in Clients : IsServed(d)' <=> IsServed(d)
        BY <1>0, <2>0, <3>1, <3>2
      <3> QED
        BY <2>0, <3>1, <3>3, SameServed
    <2>3. CASE BeginAnswer \/ SendPacket
      <3>1. /\ spc # "join" /\ spc' # "join"
            /\ UNCHANGED <<fifo_queue, rr_queue, closed, client_unserved, cur>>
        BY <2>3 DEF BeginAnswer, TakeRequest, SendPacket, socketVars, queueVars
      <3>2. \A d \in Clients : InQueue(d)' <=> InQueue(d)
        BY <1>0, <2>0, <3>1, QueuesKept
      <3>3. \A d \in Clients : IsServed(d)' <=> IsServed(d)
        BY <1>0, <2>0, <3>1, <3>2
      <3> QED
        BY <2>0, <3>1, <3>3, SameServed
    <2>4. CASE Requeue
      <3>0. PICK c \in Clients : c = cur
        BY <1>0, <2>4 DEF Requeue, SchedulerInv, TypeOK, FriendlyServerTypeOK
      <3>1. /\ cur' = NoClient /\ AddToQueue(c) /\ spc = "serve"
            /\ UNCHANGED client_unserved
        BY <2>4, <3>0 DEF Requeue, Ready
      <3>2. ~InQueue(c)
        BY <1>0, <3>0 DEF PlacesInv, OnePlace
      <3>3. /\ \/ closed' = closed /\ InQueue(c)'
               \/ closed' = closed \cup {c} /\ ~InQueue(c)'
            /\ \A d \in Clients \ {c} : InQueue(d)' <=> InQueue(d)
        BY <1>0, <2>0, <3>1, <3>2, AddToQueueEffect
      <3>4. \A d \in Clients : IsServed(d)' <=> IsServed(d)
        BY <1>0, <2>0, <3>0, <3>1, <3>3
      <3> QED
        BY <2>0, <3>1, <3>4, SameServed
    <2>5. CASE Served
      <3>0. PICK c \in Clients : c = cur
        BY <1>0, <2>5 DEF Served, SchedulerInv, TypeOK, FriendlyServerTypeOK
      <3>1. /\ spc = "serve"
            /\ \/ spc' = "join" /\ cur' = cur
               \/ spc' = "next" /\ cur' = NoClient
            /\ client_unserved' = client_unserved - 1
            /\ UNCHANGED <<fifo_queue, rr_queue, closed>>
        BY <2>5 DEF Served, Ready, localVars, queueVars, socketVars
      <3>2. \A d \in Clients : InQueue(d)' <=> InQueue(d)
        BY <1>0, <2>0, <3>1, QueuesKept
      <3>3. hpc[c] = "end" /\ ~InQueue(c) /\ c \notin closed
        BY <1>0, <2>0, <3>0 DEF PlacesInv, OnePlace, ClosedInv
      <3>4. /\ ~IsServed(c) /\ IsServed(c)'
            /\ \A d \in Clients \ {c} : IsServed(d)' <=> IsServed(d)
        BY <1>0, <2>0, <3>0, <3>1, <3>2, <3>3
      <3> DEFINE S == {d \in Clients : IsServed(d)}
      <3>5. S' = S \cup {c} /\ c \notin S
        BY <3>4
      <3>6. IsFiniteSet(S)
        BY ClientsAssumption, FS_Subset
      <3>7. /\ Cardinality(S') = Cardinality(S) + 1
            /\ Cardinality(S) \in Nat
        BY <3>5, <3>6, FS_AddElement, FS_CardinalityType
      <3>8. client_unserved = Places - Cardinality(S) /\ Places \in Nat
        BY <2>0, ServerAssumption DEF UnservedCounted
      <3>9. client_unserved' = Places - Cardinality(S')
        <4> HIDE DEF S
        <4> QED
          BY <3>1, <3>7, <3>8
      <3> QED
        BY <3>9 DEF UnservedCounted
    <2>6. CASE SchedulerJoins
      <3>1. /\ spc = "join" /\ cur' = NoClient
            /\ closed' = closed \cup {backlog[j] : j \in DOMAIN backlog}
            /\ UNCHANGED <<fifo_queue, rr_queue, client_unserved>>
        BY <2>6 DEF SchedulerJoins, Ready, StopListening, queueVars
      <3>2. \A j \in DOMAIN backlog : hpc[backlog[j]] = "none"
        BY <1>0 DEF PlacesInv, BacklogInv
      <3>3. \A d \in Clients : InQueue(d)' <=> InQueue(d)
        BY <1>0, <2>0, <3>1, QueuesKept
      <3>4. \A d \in Clients : IsServed(d)' <=> IsServed(d)
        BY <1>0, <2>0, <3>1, <3>2, <3>3
      <3> QED
        BY <2>0, <3>1, <3>4, SameServed
    <2> QED
      BY <1>4, <2>1, <2>2, <2>3, <2>4, <2>5, <2>6 DEF Scheduler, SchedulerStep
  <1>5. CASE UNCHANGED vars
    BY <1>5 DEF vars, socketVars, serverVars, queueVars, localVars,
       clientVars, UnservedCounted, Running, InQueue
  <1> QED
    BY <1>1, <1>2, <1>3, <1>4, <1>5 DEF Next

(* client_unserved, read and written without the mutex by two threads,     *)
(* always is the number of places whose connection was not answered with   *)
(* EOF: every path through processRequest puts the connection back, closes *)
(* it or counts it, and none does two of these.                            *)
THEOREM UnservedCountedCorrect == Spec => []UnservedCounted
  <1>1. TypeInv /\ PlaceInv /\ UnservedCounted /\ [Next]_vars
           => UnservedCounted'
    BY ServedStep
  <1> QED
    BY <1>1, InitServed, TypeInvariant, PlaceCorrect, PTL DEF Spec

-----------------------------------------------------------------------------
(* Turns.                                                                  *)

(* Who was taken since d entered the queue, and entered it again, stands   *)
(* behind d.                                                               *)
TurnInv == policy = "FIFO" =>
    \A i, j \in DOMAIN fifo_queue :
        fifo_queue[i] \in passed[fifo_queue[j]] => j <= i

LEMMA TurnsNextType ==
    ASSUME [TurnsNext]_turnVars
    PROVE  [Next]_vars
  BY DEF TurnsNext, turnVars

LEMMA InitTurn == TurnsInit => TurnInv
  BY DEF TurnsInit, TurnInv, Init, ServerInit

(* Only the scheduler takes from the queue, from its front.                *)
LEMMA QueueSteps ==
    ASSUME TypeInv, policy = "FIFO", Next, ~Schedule
    PROVE  \/ fifo_queue' = fifo_queue
           \/ \E c \in Clients :
                 /\ hpc[c] # "end" \/ cur = c
                 /\ fifo_queue' = Append(fifo_queue, c)
  <1>1. ASSUME NEW c \in Clients, AddToQueue(c)
        PROVE  fifo_queue' = fifo_queue \/ fifo_queue' = Append(fifo_queue, c)
    BY <1>1 DEF AddToQueue, Push, queueVars
  <1>2. CASE Main \/ WokenUp
    BY <1>2 DEF Main, MainStep, AcceptMore, StopAccepting, Accept, PushBack,
                JoinHandlers, Return, WokenUp, AcceptFails, queueVars
  <1>3. CASE Scheduler
    <2>1. ASSUME Requeue
          PROVE  cur \in Clients
      BY <2>1 DEF Requeue, TypeInv, SchedulerInv, TypeOK, FriendlyServerTypeOK
    <2> QED
      BY <1>1, <1>3, <2>1
      DEF Scheduler, SchedulerStep, HungUp, OutOfRange, BeginAnswer, SendPacket,
          Requeue, Served, SchedulerJoins, queueVars
  <1>4. ASSUME NEW c \in Clients, Handler(c)
        PROVE  \/ fifo_queue' = fifo_queue
               \/ hpc[c] # "end" /\ fifo_queue' = Append(fifo_queue, c)
    BY <1>1, <1>4 DEF Handler, HandleClient
  <1>5. ASSUME NEW c \in Clients, Client(c)
        PROVE  fifo_queue' = fifo_queue
    BY <1>5 DEF Client, serverVars, queueVars
  <1> QED
    BY <1>2, <1>3, <1>4, <1>5 DEF Next

LEMMA PolicyKept ==
    ASSUME [Next]_vars
    PROVE  policy' = policy
  <1>1. CASE Main \/ WokenUp
    BY <1>1 DEF Main, MainStep, AcceptMore, StopAccepting, Accept, PushBack,
                JoinHandlers, Return, WokenUp, AcceptFails
  <1>2. CASE Scheduler
    BY <1>2 DEF Scheduler, SchedulerStep, Schedule, HungUp, OutOfRange,
                BeginAnswer, SendPacket, Requeue, Served, SchedulerJoins
  <1>3. CASE \E c \in Clients : Handler(c) \/ Client(c)
    BY <1>3 DEF Handler, HandleClient, Client, serverVars
  <1>4. CASE UNCHANGED vars
    BY <1>4 DEF vars, serverVars
  <1> QED
    BY <1>1, <1>2, <1>3, <1>4 DEF Next

(* The queue's front.                                                      *)
LEMMA FrontTaken ==
    ASSUME TypeOK, policy = "FIFO", NEW c, Takes(c)
    PROVE  /\ c \in Clients
           /\ 1 \in DOMAIN fifo_queue /\ fifo_queue[1] = c
           /\ \A j \in DOMAIN fifo_queue' :
                 /\ j \in Nat /\ j >= 1 /\ j + 1 \in DOMAIN fifo_queue
                 /\ fifo_queue'[j] = fifo_queue[j + 1]
  <1>1. PICK d \in Clients : GetNextRequest(d) /\ cur' = d
    BY DEF Takes, Schedule
  <1>2. d = c
    BY <1>1 DEF Takes
  <1>3. /\ fifo_queue # <<>> /\ c = Head(fifo_queue)
        /\ fifo_queue' = Tail(fifo_queue) /\ fifo_queue \in Seq(Clients)
    BY <1>1, <1>2 DEF GetNextRequest, TypeOK, FriendlyServerTypeOK
  <1>4. /\ c = fifo_queue[1]
        /\ Len(fifo_queue) \in Nat /\ Len(fifo_queue) >= 1
        /\ DOMAIN fifo_queue = 1 .. Len(fifo_queue)
        /\ DOMAIN fifo_queue' = 1 .. Len(fifo_queue) - 1
        /\ \A j \in 1 .. Len(fifo_queue) - 1 :
              fifo_queue'[j] = fifo_queue[j + 1]
    BY <1>3, TailParts, LenProperties
  <1> QED
    BY <1>1, <1>2, <1>4

LEMMA TurnStep ==
    ASSUME TypeInv, PlaceInv, TurnInv, [TurnsNext]_turnVars
    PROVE  TurnInv'
  <1>0. TypeOK /\ QueuedOnce /\ policy' = policy
    BY TurnsNextType, PolicyKept DEF TypeInv, PlaceInv
  <1> SUFFICES ASSUME policy = "FIFO", NEW i \in DOMAIN fifo_queue',
                      NEW j \in DOMAIN fifo_queue',
                      fifo_queue'[i] \in passed'[fifo_queue'[j]]
               PROVE  j <= i
    BY <1>0 DEF TurnInv
  <1>1. CASE UNCHANGED turnVars
    BY <1>1 DEF turnVars, vars, serverVars, queueVars, TurnInv
  <1>2. CASE TurnsNext /\ Schedule
    <2>1. PICK c : Takes(c)
      BY <1>2 DEF Takes
    <2>2. /\ 1 \in DOMAIN fifo_queue /\ fifo_queue[1] = c
          /\ i \in Nat /\ i >= 1 /\ i + 1 \in DOMAIN fifo_queue
          /\ fifo_queue'[i] = fifo_queue[i + 1]
          /\ j \in Nat /\ j + 1 \in DOMAIN fifo_queue
          /\ fifo_queue'[j] = fifo_queue[j + 1]
      BY <1>0, <2>1, FrontTaken
    <2>3. i + 1 # 1 /\ fifo_queue[i + 1] # c
      <3>1. i + 1 # 1
        BY <2>2
      <3> QED
        BY <1>0, <2>2, <3>1 DEF QueuedOnce
    <2>4. fifo_queue[j + 1] \in Clients
      BY <1>0, <2>2 DEF TypeOK, FriendlyServerTypeOK
    <2>5. \A d : Takes(d) => d = c
      BY <2>1 DEF Takes
    <2>6. fifo_queue[i + 1] \in passed[fifo_queue[j + 1]]
      BY <1>2, <2>2, <2>3, <2>4, <2>5 DEF TurnsNext
    <2>7. j + 1 <= i + 1
      BY <2>2, <2>6 DEF TurnInv
    <2> QED
      BY <2>2, <2>7
  <1>3. CASE TurnsNext /\ ~Schedule
    <2>0. /\ fifo_queue \in Seq(Clients) /\ Len(fifo_queue) \in Nat
          /\ DOMAIN fifo_queue = 1 .. Len(fifo_queue)
      BY <1>0 DEF TypeOK, FriendlyServerTypeOK
    <2>1. ASSUME NEW d \in Clients, NEW e \in passed'[d]
          PROVE  e \in passed[d] /\ InQueue(d)
      BY <1>3, <2>1 DEF TurnsNext, Takes
    <2>2. CASE fifo_queue' = fifo_queue
      BY <2>0, <2>1, <2>2 DEF TurnInv
    <2>3. ASSUME NEW c \in Clients, hpc[c] # "end" \/ cur = c,
                 fifo_queue' = Append(fifo_queue, c)
          PROVE  j <= i
      <3>1. /\ DOMAIN fifo_queue' = 1 .. Len(fifo_queue) + 1
            /\ \A n \in 1 .. Len(fifo_queue) : fifo_queue'[n] = fifo_queue[n]
            /\ fifo_queue'[Len(fifo_queue) + 1] = c
        BY <2>0, <2>3, AppendParts, LenProperties
      <3>2. CASE i = Len(fifo_queue) + 1
        BY <2>0, <3>1, <3>2
      <3>3. CASE j = Len(fifo_queue) + 1
        <4>1. InQueue(c)
          BY <2>1, <3>1, <3>3
        <4> QED
          BY <1>0, <2>3, <4>1 DEF QueuedOnce
      <3>4. CASE i # Len(fifo_queue) + 1 /\ j # Len(fifo_queue) + 1
        <4>1. i \in 1 .. Len(fifo_queue) /\ j \in 1 .. Len(fifo_queue)
          BY <2>0, <3>1, <3>4
        <4>2. /\ fifo_queue'[i] = fifo_queue[i]
              /\ fifo_queue'[j] = fifo_queue[j] /\ fifo_queue[j] \in Clients
          BY <2>0, <3>1, <4>1
        <4>3. fifo_queue[i] \in passed[fifo_queue[j]]
          BY <2>1, <4>2
        <4> QED
          BY <2>0, <4>1, <4>3 DEF TurnInv
      <3> QED
        BY <3>2, <3>3, <3>4
    <2> QED
      BY <1>0, <1>3, <2>2, <2>3, QueueSteps DEF TurnsNext
  <1> QED
    BY <1>1, <1>2, <1>3

LEMMA TurnTaken ==
    ASSUME TypeInv, PlaceInv, TurnInv, policy = "FIFO"
    PROVE  NoSecondTurn
  <1> SUFFICES ASSUME NEW c \in Clients, NEW d \in Clients, Takes(c), c # d,
                      InQueue(d), c \in passed[d]
               PROVE  FALSE
    BY DEF NoSecondTurn
  <1>0. TypeOK /\ \A e \in Clients : rr_queue[e] = 0
    BY DEF TypeInv, PlaceInv, PolicyInv
  <1>1. 1 \in DOMAIN fifo_queue /\ fifo_queue[1] = c
    BY <1>0, FrontTaken
  <1>2. PICK j \in DOMAIN fifo_queue : fifo_queue[j] = d
    BY <1>0 DEF InQueue
  <1>3. j <= 1
    BY <1>1, <1>2 DEF TurnInv
  <1>4. j \in Nat /\ j >= 1
    BY <1>0 DEF TypeOK, FriendlyServerTypeOK
  <1>5. j = 1
    BY <1>3, <1>4
  <1> QED
    BY <1>1, <1>2, <1>5

(* With FIFO every connection in the queue is answered before any other    *)
(* is answered twice, although nothing limits how often a client asks.     *)
THEOREM FifoTakesTurnsCorrect == TurnsSpec => FifoTakesTurns
  <1>1. TurnsInit => TypeInv /\ PlaceInv /\ TurnInv
    BY InitType, InitPlace, InitTurn DEF TurnsInit
  <1>2. TypeInv /\ PlaceInv /\ TurnInv /\ [TurnsNext]_turnVars
           => TypeInv' /\ PlaceInv' /\ TurnInv'
    BY TurnsNextType, TypeStep, PlaceStep, TurnStep
  <1>3. TypeInv /\ PlaceInv /\ TurnInv
           => (policy = "FIFO" => NoSecondTurn)
    BY TurnTaken
  <1> QED
    BY <1>1, <1>2, <1>3, PTL DEF TurnsSpec, FifoTakesTurns
=============================================================================
