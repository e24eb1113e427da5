------------------------ MODULE FriendlyTable_proofs ------------------------
(***************************************************************************)
(* No table of part 4 counts a word of the file twice, for every set of    *)
(* connections, every number of places, every file, every k and p, both    *)
(* policies, and streams that recv cuts or not.  Where every recv          *)
(* ends where a send ended, the tables that are written are right, no      *)
(* connection is forgotten, server and clients never all wait, no step is  *)
(* in vain, and part 4 implements WordCount.                               *)
(***************************************************************************)
EXTENDS Friendly_proofs

(* A client, its stream and the scheduler while it serves the client, see  *)
(* Stream_proofs.  A client that has not connected has nothing.            *)
ClientWindow(c) ==
    /\ Idle(word_count[c], toClient[c], toServer[c], offset[c])
    /\ spc = "serve" /\ cur = c =>
          /\ phase[c] # "new"
          /\ Serving(word_count[c], toClient[c], toServer[c], offset[c], req, z)
    /\ phase[c] = "new" =>
          /\ toServer[c] = <<>> /\ offset[c] = 0
          /\ \A w \in Words : ~Appears(word_count[c], toClient[c], w)

WindowInv == \A c \in Clients : ClientWindow(c)

LEMMA InitWindow == Init => WindowInv
  <1> SUFFICES ASSUME Init, NEW c \in Clients
               PROVE  ClientWindow(c)
    BY DEF WindowInv
  <1>1. /\ toServer[c] = <<>> /\ toClient[c] = <<>> /\ offset[c] = 0
        /\ spc = "next"
    BY DEF Init, SocketsInit, WireInit, ServerInit, ClientInit
  <1>2. \A w \in Words : word_count[c][w] = 0
    BY DEF Init, ClientInit, Key
  <1>3. \A j \in DOMAIN <<>> : FALSE
    OBVIOUS
  <1>4. \A w \in Words : ~Appears(word_count[c], toClient[c], w)
    BY <1>1, <1>2, <1>3 DEF Appears
  <1>5. Idle(word_count[c], toClient[c], toServer[c], offset[c])
    BY <1>1, <1>2, <1>3, <1>4
    DEF Idle, CountedOnce, OnceIn, Asked, Ahead
  <1> QED
    BY <1>1, <1>4, <1>5 DEF ClientWindow

(* A client whose variables stay, and whom the scheduler does not begin to *)
(* serve.                                                                  *)
LEMMA WindowFrame ==
    ASSUME NEW c, ClientWindow(c),
           word_count'[c] = word_count[c], toClient'[c] = toClient[c],
           toServer'[c] = toServer[c], offset'[c] = offset[c],
           phase'[c] = phase[c] \/ phase'[c] # "new",
           \/ spc' = spc /\ cur' = cur /\ req' = req /\ z' = z
           \/ spc' # "serve" \/ cur' # c
    PROVE  ClientWindow(c)'
  BY DEF ClientWindow

LEMMA WindowTypes ==
    ASSUME TypeInv, NEW c \in Clients
    PROVE  /\ toServer[c] \in Seq(Nat)
           /\ toClient[c] \in Seq(Text \cup {NL})
           /\ offset[c] \in Nat /\ req \in Nat
           /\ z \in Nat /\ z <= NumWords
  BY ConfigAssumption
  DEF TypeInv, TypeOK, SocketsTypeOK, FriendlyServerTypeOK, FriendlyClientTypeOK

-----------------------------------------------------------------------------
(* The server's steps.                                                     *)

(* The main thread and the handlers leave all of it alone.                 *)
LEMMA OthersWindow ==
    ASSUME WindowInv, Main \/ WokenUp \/ (\E c \in Clients : Handler(c))
    PROVE  WindowInv'
  <1>1. /\ toClient' = toClient /\ toServer' = toServer /\ offset' = offset
        /\ word_count' = word_count /\ phase' = phase
        /\ spc' = spc /\ cur' = cur /\ req' = req /\ z' = z
    <2>1. CASE Main
      BY <2>1 DEF Main, MainStep, AcceptMore, StopAccepting, Accept, PushBack,
                  JoinHandlers, Return, wireVars, localVars, clientVars
    <2>2. CASE WokenUp
      BY <2>2 DEF WokenUp, AcceptFails, wireVars, localVars, clientVars
    <2>3. CASE \E c \in Clients : Handler(c)
      BY <2>3 DEF Handler, HandleClient, wireVars, localVars, clientVars
    <2> QED
      BY <2>1, <2>2, <2>3
  <1> QED
    BY <1>1, WindowFrame DEF WindowInv

LEMMA TakeRequestWindow ==
    ASSUME TypeInv, WindowInv, TakeRequest
    PROVE  /\ cur \in Clients /\ phase[cur] # "new"
           /\ Head(toServer[cur]) \in Nat
           /\ \A d \in Clients \ {cur} : toServer'[d] = toServer[d]
           /\ Idle(word_count[cur], toClient[cur], toServer'[cur], offset[cur])
           /\ Serving(word_count[cur], toClient[cur], toServer'[cur],
                      offset[cur],
                      Head(toServer[cur]), BatchEnd(Head(toServer[cur])))
  <1>1. cur \in Clients
    BY DEF TakeRequest, TypeInv, SchedulerInv, TypeOK, FriendlyServerTypeOK
  <1>2. toServer[cur] \in Seq(Nat) /\ offset[cur] \in Nat
    BY <1>1, WindowTypes
  <1>3. PICK m \in 1 .. Len(toServer[cur]) :
           toServer' = [toServer EXCEPT ![cur] = Rest(@, m)]
    BY DEF TakeRequest
  <1>4. /\ toServer'[cur] = Rest(toServer[cur], m)
        /\ \A d \in Clients \ {cur} : toServer'[d] = toServer[d]
    BY <1>1, <1>3 DEF TypeInv, TypeOK, SocketsTypeOK
  <1>5. ClientWindow(cur)
    BY <1>1 DEF WindowInv
  <1>6. Idle(word_count[cur], toClient[cur], toServer[cur], offset[cur])
    BY <1>5 DEF ClientWindow
  <1>7. phase[cur] # "new"
    BY <1>3, <1>5 DEF ClientWindow
  <1>8. Head(toServer[cur]) \in Nat
    BY <1>2, <1>3, TailParts
  <1> QED
    BY <1>1, <1>2, <1>4, <1>6, <1>7, <1>8, TakeWindow

(* A packet is a run of words and what ends it, in which there is no word. *)
LEMMA PacketParts ==
    ASSUME NEW a \in Nat, NEW b \in Nat
    PROVE  \E q \in Seq(Text \cup {NL}) :
              NoWord(q) /\ Packet(a, b) = Run(a, b) \o q
  <1>1. /\ <<END, NL>> \in Seq(Text \cup {NL})
        /\ <<NL>> \in Seq(Text \cup {NL})
    BY DEF Text
  <1>2. \A q \in {<<END, NL>>, <<NL>>} : NoWord(q)
    BY DEF NoWord, Words, NL, END
  <1> QED
    BY <1>1, <1>2 DEF Packet

LEMMA SchedulerWindow ==
    ASSUME TypeInv, WindowInv, Scheduler
    PROVE  WindowInv'
  <1> SUFFICES ASSUME NEW c \in Clients
               PROVE  ClientWindow(c)'
    BY DEF WindowInv
  <1>0. /\ toServer[c] \in Seq(Nat) /\ toClient[c] \in Seq(Text \cup {NL})
        /\ offset[c] \in Nat /\ req \in Nat /\ z \in Nat /\ z <= NumWords
    BY WindowTypes
  <1>a. /\ word_count' = word_count /\ offset' = offset /\ phase' = phase
        /\ ClientWindow(c)
    BY DEF Scheduler, clientVars, WindowInv
  <1>b. toServer \in [Clients -> Seq(Nat)]
        /\ toClient \in [Clients -> Seq(Text \cup {NL})]
    BY DEF TypeInv, TypeOK, SocketsTypeOK
  <1>1. CASE Schedule \/ HungUp \/ Requeue \/ Served \/ SchedulerJoins
    <2>1. /\ toClient' = toClient /\ toServer' = toServer
          /\ spc' # "serve"
      BY <1>1 DEF Schedule, HungUp, Requeue, Served, SchedulerJoins, Ready,
                  wireVars
    <2> QED
      BY <1>a, <2>1, WindowFrame
  <1>2. CASE OutOfRange
    <2>1. /\ cur \in Clients /\ phase[cur] # "new"
          /\ Idle(word_count[cur], toClient[cur], toServer'[cur], offset[cur])
          /\ \A d \in Clients \ {cur} : toServer'[d] = toServer[d]
      BY <1>2, TakeRequestWindow DEF OutOfRange
    <2>2. /\ toClient'[cur] = toClient[cur] \o <<DOLLAR, NL>>
          /\ \A d \in Clients \ {cur} : toClient'[d] = toClient[d]
          /\ spc' # "serve"
      BY <1>2, <1>b, <2>1 DEF OutOfRange, Answer, Ready
    <2>3. CASE cur = c
      <3>1. /\ <<DOLLAR, NL>> \in Seq(Text \cup {NL})
            /\ NoWord(<<DOLLAR, NL>>)
        BY DEF NoWord, Text, Words, DOLLAR, NL
      <3>2. Idle(word_count[c], toClient'[c], toServer'[c], offset[c])
        BY <1>0, <2>1, <2>2, <2>3, <3>1, SendMark
      <3> QED
        BY <1>a, <2>1, <2>2, <2>3, <3>2 DEF ClientWindow
    <2>4. CASE cur # c
      BY <1>a, <2>1, <2>2, <2>4, WindowFrame
    <2> QED
      BY <2>3, <2>4
  <1>3. CASE BeginAnswer
    <2>1. /\ cur \in Clients /\ phase[cur] # "new"
          /\ Idle(word_count[cur], toClient[cur], toServer'[cur], offset[cur])
          /\ Serving(word_count[cur], toClient[cur], toServer'[cur],
                     offset[cur],
                     Head(toServer[cur]), BatchEnd(Head(toServer[cur])))
          /\ \A d \in Clients \ {cur} : toServer'[d] = toServer[d]
      BY <1>3, TakeRequestWindow DEF BeginAnswer
    <2>2. /\ toClient' = toClient /\ cur' = cur
          /\ req' = Head(toServer[cur]) /\ z' = BatchEnd(Head(toServer[cur]))
      BY <1>3 DEF BeginAnswer
    <2>3. CASE cur = c
      BY <1>a, <2>1, <2>2, <2>3 DEF ClientWindow
    <2>4. CASE cur # c
      BY <1>a, <2>1, <2>2, <2>4, WindowFrame
    <2> QED
      BY <2>3, <2>4
  <1>4. CASE SendPacket
    <2>1. cur \in Clients /\ spc = "serve" /\ req < z
      BY <1>4 DEF SendPacket, TypeInv, SchedulerInv, TypeOK,
                  FriendlyServerTypeOK
    <2> DEFINE b == IF req + p < z THEN req + p ELSE z
    <2>2. /\ b \in Nat /\ req <= b /\ b <= z
      BY <1>0, <2>1, ConfigAssumption
    <2>3. /\ Answer(cur, Packet(req, b)) /\ req' = b /\ z' = z
          /\ toServer' = toServer /\ spc' = spc /\ cur' = cur
      BY <1>4 DEF SendPacket
    <2> HIDE DEF b
    <2>4. PICK q \in Seq(Text \cup {NL}) :
             NoWord(q) /\ Packet(req, b) = Run(req, b) \o q
      BY <1>0, <2>2, PacketParts
    <2>5. /\ toClient'[cur] = toClient[cur] \o (Run(req, b) \o q)
          /\ \A d \in Clients \ {cur} : toClient'[d] = toClient[d]
      BY <1>b, <2>1, <2>3, <2>4 DEF Answer
    <2>6. CASE cur = c
      <3>1. /\ phase[c] # "new"
            /\ Serving(word_count[c], toClient[c], toServer[c], offset[c],
                       req, z)
        BY <1>a, <2>1, <2>6 DEF ClientWindow
      <3>2. Serving(word_count[c], toClient[c] \o (Run(req, b) \o q),
                    toServer[c], offset[c], b, z)
        BY <1>0, <2>2, <2>4, <3>1, SendWindow, Zenon
      <3>3. Serving(word_count[c], toClient'[c], toServer[c], offset[c], b, z)
        BY <2>5, <2>6, <3>2
      <3>4. Idle(word_count[c], toClient'[c], toServer[c], offset[c])
        BY <3>3 DEF Serving
      <3> QED
        BY <1>a, <2>3, <3>1, <3>3, <3>4 DEF ClientWindow
    <2>7. CASE cur # c
      BY <1>a, <2>3, <2>5, <2>7, WindowFrame
    <2> QED
      BY <2>6, <2>7
  <1> QED
    BY <1>1, <1>2, <1>3, <1>4 DEF Scheduler, SchedulerStep

-----------------------------------------------------------------------------
(* The clients' steps.                                                     *)

LEMMA CountsWords ==
    ASSUME TypeOK, NEW c \in Clients, NEW q, Count(c, q)
    PROVE  /\ Counts(word_count[c], q, word_count'[c])
           /\ \A d \in Clients \ {c} : word_count'[d] = word_count[d]
  <1>1. word_count \in [Clients -> [Key -> Nat]]
    BY DEF TypeOK, FriendlyClientTypeOK
  <1>2. word_count'[c] = [w \in Key |-> word_count[c][w] + Occurrences(q, w)]
    BY <1>1 DEF Count
  <1>3. \A w \in Words : w \in Key
    BY DEF Key
  <1>4. Counts(word_count[c], q, word_count'[c])
    BY <1>2, <1>3, Zenon DEF Counts
  <1>5. \A d \in Clients \ {c} : word_count'[d] = word_count[d]
    BY <1>1 DEF Count
  <1> QED
    BY <1>4, <1>5

(* The table stays as it is.                                               *)
LEMMA NothingCounted ==
    ASSUME TypeOK, NEW c \in Clients, UNCHANGED word_count
    PROVE  Counts(word_count[c], <<>>, word_count'[c])
  <1>1. \A w \in Words : Occurrences(<<>>, w) = 0
    BY OccursNowhere
  <1>2. \A w \in Words : word_count[c][w] \in Nat
    BY DEF TypeOK, FriendlyClientTypeOK, Key
  <1> QED
    BY <1>1, <1>2 DEF Counts

(* The client counts the words of q, read with r, and asks or does not.    *)
LEMMA CountWindow ==
    ASSUME TypeInv, NEW c \in Clients, ClientWindow(c),
           NEW r \in Reads(toClient[c]), Receive(c, r),
           NEW q \in Seq(Text \cup {NL}),
           Begins(q, r.packet), Counts(word_count[c], q, word_count'[c]),
           phase'[c] # "new",
           spc' = spc, cur' = cur, req' = req, z' = z,
           \/ toServer'[c] = toServer[c] /\ offset'[c] = offset[c]
           \/ /\ toServer'[c] = Append(toServer[c], offset[c] + k)
              /\ offset'[c] = offset[c] + k
    PROVE  ClientWindow(c)'
  <1>0. /\ toServer[c] \in Seq(Nat) /\ toClient[c] \in Seq(Text \cup {NL})
        /\ offset[c] \in Nat /\ req \in Nat /\ z \in Nat
    BY WindowTypes
  <1>1. StreamRead(toClient[c], r)
    BY <1>0, ReadType
  <1>2. toClient'[c] = r.rest
    BY DEF Receive, TypeInv, TypeOK, SocketsTypeOK
  <1>3. Idle(word_count[c], toClient[c], toServer[c], offset[c])
    BY DEF ClientWindow
  <1>4. /\ Idle(word_count'[c], r.rest, toServer[c], offset[c])
        /\ \A a, b \in Nat :
              Serving(word_count[c], toClient[c], toServer[c], offset[c], a, b)
              => Serving(word_count'[c], r.rest, toServer[c], offset[c], a, b)
    BY <1>0, <1>1, <1>3, ReadWindow
  <1>5. /\ Idle(word_count'[c], r.rest, toServer'[c], offset'[c])
        /\ \A a, b \in Nat :
              Serving(word_count'[c], r.rest, toServer[c], offset[c], a, b)
              => Serving(word_count'[c], r.rest, toServer'[c], offset'[c], a, b)
    <2>1. CASE toServer'[c] = toServer[c] /\ offset'[c] = offset[c]
      BY <1>4, <2>1
    <2>2. CASE /\ toServer'[c] = Append(toServer[c], offset[c] + k)
               /\ offset'[c] = offset[c] + k
      <3>1. PICK table, s, reqs, o : /\ table = word_count'[c] /\ s = r.rest
                                     /\ reqs = toServer[c] /\ o = offset[c]
        OBVIOUS
      <3>2. Idle(table, s, Append(reqs, o + k), o + k)
        BY <1>0, <1>4, <3>1, AskWindow
      <3>3. \A a, b \in Nat : Serving(table, s, reqs, o, a, b)
               => Serving(table, s, Append(reqs, o + k), o + k, a, b)
        BY <1>0, <1>4, <3>1, AskWindow
      <3> QED
        BY <2>2, <3>1, <3>2, <3>3
    <2> QED
      BY <2>1, <2>2
  <1>6. spc = "serve" /\ cur = c =>
           Serving(word_count'[c], toClient'[c], toServer'[c], offset'[c],
                   req, z)
    BY <1>0, <1>2, <1>4, <1>5 DEF ClientWindow
  <1> QED
    BY <1>2, <1>5, <1>6 DEF ClientWindow

LEMMA ClientStepWindow ==
    ASSUME TypeInv, WindowInv, NEW c \in Clients, Client(c)
    PROVE  WindowInv'
  <1>0. /\ TypeOK /\ ClientWindow(c)
        /\ toServer[c] \in Seq(Nat) /\ toClient[c] \in Seq(Text \cup {NL})
    BY WindowTypes DEF TypeInv, WindowInv
  <1>a. spc' = spc /\ cur' = cur /\ req' = req /\ z' = z /\ ClientStep(c)
    BY DEF Client, serverVars, localVars
  <1>b. /\ toServer \in [Clients -> Seq(Nat)]
        /\ toClient \in [Clients -> Seq(Text \cup {NL})]
        /\ offset \in [Clients -> Nat]
        /\ phase \in [Clients -> {"new", "recv", "write", "done", "killed"}]
    BY <1>0 DEF TypeOK, SocketsTypeOK, FriendlyClientTypeOK
  <1>c. ASSUME NEW d \in Clients, d # c
        PROVE  ClientWindow(d)'
    <2>1. word_count'[d] = word_count[d]
      BY <1>0, <1>a, <1>c, CountsWords
      DEF ClientStep, Connect, ConnectRefused, ServerClosed, LastPacket,
          EndOfFile, CountWords, WriteTable
    <2>2. phase'[d] = phase[d] \/ phase'[d] # "new"
      BY <1>a, <1>b, <1>c
      DEF ClientStep, Connect, ConnectRefused, ServerClosed, LastPacket,
          EndOfFile, CountWords, WriteTable, Leave, Finish
    <2>3. toClient'[d] = toClient[d]
      BY <1>a, <1>b, <1>c
      DEF ClientStep, Connect, ConnectRefused, ServerClosed, LastPacket,
          EndOfFile, CountWords, WriteTable, Receive, wireVars
    <2>4. toServer'[d] = toServer[d] /\ offset'[d] = offset[d]
      BY <1>a, <1>b, <1>c
      DEF ClientStep, Connect, ConnectRefused, ServerClosed, LastPacket,
          EndOfFile, CountWords, WriteTable, MaybeAsk, wireVars
    <2>5. ClientWindow(d)
      BY DEF WindowInv
    <2> QED
      BY <1>a, <2>1, <2>2, <2>3, <2>4, <2>5, WindowFrame
  <1>1. CASE Connect(c)
    <2>1. /\ phase[c] = "new" /\ phase'[c] = "recv"
          /\ toServer'[c] = Append(toServer[c], offset[c])
          /\ toClient'[c] = toClient[c] /\ offset'[c] = offset[c]
          /\ word_count'[c] = word_count[c]
      BY <1>1, <1>b DEF Connect
    <2>2. /\ ~(spc = "serve" /\ cur = c)
          /\ toServer[c] = <<>> /\ offset[c] = 0
          /\ \A w \in Words : ~Appears(word_count[c], toClient[c], w)
          /\ Idle(word_count[c], toClient[c], toServer[c], offset[c])
      BY <1>0, <2>1 DEF ClientWindow
    <2>3. toServer'[c] = <<0>>
      BY <2>1, <2>2
    <2>4. DOMAIN <<0>> = {1} /\ <<0>>[1] = 0
      OBVIOUS
    <2>5. Asked(toServer'[c], offset'[c])
      BY <2>1, <2>2, <2>3, <2>4 DEF Asked
    <2>6. Idle(word_count'[c], toClient'[c], toServer'[c], offset'[c])
      BY <2>1, <2>2, <2>5 DEF Idle, Ahead
    <2>7. ClientWindow(c)'
      BY <1>a, <2>1, <2>2, <2>6 DEF ClientWindow
    <2> QED
      BY <1>c, <2>7 DEF WindowInv
  <1>2. CASE ConnectRefused(c) \/ ServerClosed(c) \/ WriteTable(c)
    <2>1. /\ toClient'[c] = toClient[c] /\ toServer'[c] = toServer[c]
          /\ offset'[c] = offset[c] /\ word_count'[c] = word_count[c]
          /\ phase'[c] # "new"
      BY <1>2, <1>b
      DEF ConnectRefused, ServerClosed, WriteTable, Leave, Finish, wireVars
    <2>2. ClientWindow(c)'
      BY <1>0, <1>a, <2>1, WindowFrame
    <2> QED
      BY <1>c, <2>2 DEF WindowInv
  <1>3. CASE LastPacket(c)
    <2>1. PICK r \in Reads(toClient[c]) :
             /\ Receive(c, r) /\ Finish(c)
             /\ UNCHANGED <<toServer, offset, words_received, word_count,
                            is_read>>
      BY <1>3 DEF LastPacket, Leave
    <2>2. Counts(word_count[c], <<>>, word_count'[c])
      BY <1>0, <2>1, NothingCounted
    <2>3. <<>> \in Seq(Text \cup {NL}) /\ Begins(<<>>, r.packet)
      BY EmptySeq DEF Begins
    <2>4. phase'[c] = "done"
      BY <1>b, <2>1 DEF Finish
    <2>5. ClientWindow(c)'
      BY <1>0, <1>a, <2>1, <2>2, <2>3, <2>4, CountWindow
    <2> QED
      BY <1>c, <2>5 DEF WindowInv
  <1>4. CASE EndOfFile(c)
    <2>1. PICK r \in Reads(toClient[c]) :
             /\ Receive(c, r)
             /\ \E m \in 0 .. Len(r.packet) - 1 :
                   BeforeEnd(r.packet, m) /\ Count(c, First(r.packet, m))
             /\ phase' = [phase EXCEPT ![c] = "write"]
             /\ UNCHANGED <<toServer, offset>>
      BY <1>4 DEF EndOfFile
    <2>2. PICK m \in 0 .. Len(r.packet) - 1 : Count(c, First(r.packet, m))
      BY <2>1
    <2>3. r.packet \in Seq(Text \cup {NL})
      BY <1>0, <2>1, ReceiveType
    <2>4. m \in 0 .. Len(r.packet)
      BY <2>3, LenProperties
    <2>5. /\ First(r.packet, m) \in Seq(Text \cup {NL})
          /\ Begins(First(r.packet, m), r.packet)
      BY <2>3, <2>4, FirstBegins
    <2>6. Counts(word_count[c], First(r.packet, m), word_count'[c])
      BY <1>0, <2>2, CountsWords
    <2>7. phase'[c] = "write"
      BY <1>b, <2>1
    <2>8. ClientWindow(c)'
      BY <1>0, <1>a, <2>1, <2>5, <2>6, <2>7, CountWindow
    <2> QED
      BY <1>c, <2>8 DEF WindowInv
  <1>5. CASE CountWords(c)
    <2>1. PICK r \in Reads(toClient[c]) :
             /\ Receive(c, r) /\ Count(c, r.packet) /\ MaybeAsk(c)
             /\ UNCHANGED <<hungup, phase, is_read>>
      BY <1>5 DEF CountWords
    <2>2. r.packet \in Seq(Text \cup {NL}) /\ Begins(r.packet, r.packet)
      BY <1>0, <2>1, ReceiveType DEF Begins
    <2>3. Counts(word_count[c], r.packet, word_count'[c])
      BY <1>0, <2>1, CountsWords
    <2>4. phase'[c] # "new"
      BY <2>1 DEF Receive
    <2>5. \/ toServer'[c] = toServer[c] /\ offset'[c] = offset[c]
          \/ /\ toServer'[c] = Append(toServer[c], offset[c] + k)
             /\ offset'[c] = offset[c] + k
      BY <1>b, <2>1 DEF MaybeAsk
    <2>6. ClientWindow(c)'
      BY <1>0, <1>a, <2>1, <2>2, <2>3, <2>4, <2>5, CountWindow
    <2> QED
      BY <1>c, <2>6 DEF WindowInv
  <1> QED
    BY <1>a, <1>1, <1>2, <1>3, <1>4, <1>5 DEF ClientStep

-----------------------------------------------------------------------------
(* The requests of a client and what was sent for them keep apart.         *)
THEOREM WindowCorrect == Spec => []WindowInv
  <1>1. Init => WindowInv
    BY InitWindow
  <1>2. TypeInv /\ WindowInv /\ [Next]_vars => WindowInv'
    <2>1. CASE UNCHANGED vars
      <3>1. /\ toClient' = toClient /\ toServer' = toServer /\ offset' = offset
            /\ word_count' = word_count /\ phase' = phase
            /\ spc' = spc /\ cur' = cur /\ req' = req /\ z' = z
        BY <2>1 DEF vars, wireVars, serverVars, localVars, clientVars
      <3> QED
        BY <3>1, WindowFrame DEF WindowInv
    <2> QED
      BY <2>1, OthersWindow, SchedulerWindow, ClientStepWindow DEF Next
  <1> QED
    BY <1>1, <1>2, TypeInvariant, PTL DEF Spec

(* No word of the file is counted twice by a client of part 4, wherever    *)
(* its stream is cut and however many requests that makes it send early.   *)
THEOREM CountedAtMostOnceCorrect == Spec => []CountedAtMostOnce
  <1>1. WindowInv => CountedAtMostOnce
    <2> SUFFICES ASSUME WindowInv, NEW c \in Clients, NEW w \in Words
                 PROVE  word_count[c][w] <= 1
      BY DEF CountedAtMostOnce
    <2>1. word_count[c][w] \in {0, 1}
      BY DEF WindowInv, ClientWindow, Idle, CountedOnce
    <2> QED
      BY <2>1
  <1> QED
    BY <1>1, WindowCorrect, PTL

-----------------------------------------------------------------------------
(* Part 4 where every recv ends where a send ended.                        *)

Serves(c) == spc = "serve" /\ cur = c

(* The end of what was sent of the window the client last asked for.       *)
Sent(c) == IF Serves(c) THEN req ELSE BatchEnd(offset[c])

(* The table has what the file begins with, the finished windows and       *)
(* perhaps more.                                                           *)
StepKept(c) ==
    \E x \in Nat : offset[c] <= x /\ Tallied(word_count[c], x)

(* The client has nothing, and has not connected.                          *)
StepNew(c) ==
    /\ toServer[c] = <<>> /\ toClient[c] = <<>> /\ offset[c] = 0
    /\ words_received[c] = 0 /\ Tallied(word_count[c], 0) /\ ~Serves(c)

(* Its request is on the way.                                              *)
StepAsked(c) ==
    /\ Requested(word_count[c], toClient[c], toServer[c], offset[c])
    /\ words_received[c] = offset[c]
    /\ Serves(c) => req >= z

(* Its request was taken.                                                  *)
StepAnswered(c) ==
    /\ Answered(word_count[c], toClient[c], toServer[c], offset[c],
                words_received[c], Sent(c))
    /\ Serves(c) => z = BatchEnd(offset[c])

InStep(c) ==
    /\ StepKept(c)
    /\ offset[c] % k = 0
    /\ phase[c] = "new" => StepNew(c)
    /\ phase[c] = "recv" => StepAsked(c) \/ StepAnswered(c)
    /\ is_read[c] => /\ phase[c] \in {"write", "done", "killed"}
                     /\ Tallied(word_count[c], NumWords)

StepInv == \A c \in Clients : InStep(c)

LEMMA TalliedNone ==
    ASSUME NEW table, \A w \in Words \cup {DOLLAR, PIECE} : table[w] = 0
    PROVE  Tallied(table, 0)
  BY WordsAreNumbers DEF Tallied

LEMMA InitStep == Init => StepInv
  <1> SUFFICES ASSUME Init, NEW c \in Clients
               PROVE  InStep(c)
    BY DEF StepInv
  <1>1. /\ toServer[c] = <<>> /\ toClient[c] = <<>> /\ offset[c] = 0
        /\ words_received[c] = 0 /\ ~Serves(c) /\ phase[c] = "new"
    BY DEF Init, SocketsInit, WireInit, ServerInit, ClientInit, Serves
  <1>2. ~is_read[c]
    BY Zenon DEF Init, ClientInit
  <1>3. Tallied(word_count[c], 0)
    <2>1. \A w \in Words \cup {DOLLAR, PIECE} : word_count[c][w] = 0
      BY DEF Init, ClientInit, Key
    <2> QED
      BY <2>1, TalliedNone
  <1>4. 0 % k = 0
    BY MultipleIs, ConfigAssumption
  <1> QED
    BY <1>1, <1>2, <1>3, <1>4 DEF InStep, StepNew, StepKept

LEMMA StepTypes ==
    ASSUME TypeOK, NEW c \in Clients
    PROVE  /\ toServer[c] \in Seq(Nat)
           /\ toClient[c] \in Seq(Text \cup {NL})
           /\ offset[c] \in Nat /\ words_received[c] \in Nat
           /\ req \in Nat /\ z \in Nat /\ z <= NumWords
           /\ BatchEnd(offset[c]) \in Nat /\ Sent(c) \in Nat
           /\ NumWords \in Nat
           /\ phase[c] \in {"new", "recv", "write", "done", "killed"}
  <1>1. /\ toServer[c] \in Seq(Nat)
        /\ toClient[c] \in Seq(Text \cup {NL})
    BY DEF TypeOK, SocketsTypeOK
  <1>3. /\ offset[c] \in Nat /\ words_received[c] \in Nat
        /\ phase[c] \in {"new", "recv", "write", "done", "killed"}
    BY DEF TypeOK, FriendlyClientTypeOK
  <1>4. /\ req \in Nat /\ z \in Nat /\ z <= NumWords
        /\ NumWords \in Nat
    BY ConfigAssumption DEF TypeOK, FriendlyServerTypeOK
  <1>2. BatchEnd(offset[c]) \in Nat
    BY <1>3, BatchEndProperties
  <1> QED
    BY <1>1, <1>2, <1>3, <1>4 DEF Sent

(* A client whose variables stay, and whom the scheduler neither begins    *)
(* nor ceases to serve.                                                    *)
LEMMA StepFrame ==
    ASSUME NEW c, InStep(c),
           word_count'[c] = word_count[c], toClient'[c] = toClient[c],
           toServer'[c] = toServer[c], offset'[c] = offset[c],
           words_received'[c] = words_received[c], phase'[c] = phase[c],
           is_read'[c] = is_read[c],
           \/ ~Serves(c) /\ ~Serves(c)'
           \/ Serves(c) /\ Serves(c)' /\ req' = req /\ z' = z
    PROVE  InStep(c)'
  BY DEF InStep, StepKept, StepNew, StepAsked, StepAnswered, Sent

(* What a client has is kept when it stops, whatever is under way.         *)
LEMMA StepStops ==
    ASSUME NEW c, InStep(c),
           word_count'[c] = word_count[c], offset'[c] = offset[c],
           is_read'[c] = is_read[c],
           phase'[c] \in {"done", "killed"}
    PROVE  InStep(c)'
  BY DEF InStep, StepKept

-----------------------------------------------------------------------------
(* The scheduler's steps.                                                  *)

(* The main thread and the handlers leave all of it alone.                 *)
LEMMA OthersStep ==
    ASSUME StepInv, Main \/ WokenUp \/ (\E c \in Clients : Handler(c))
    PROVE  StepInv'
  <1>1. /\ toClient' = toClient /\ toServer' = toServer /\ offset' = offset
        /\ word_count' = word_count /\ phase' = phase /\ is_read' = is_read
        /\ words_received' = words_received
        /\ spc' = spc /\ cur' = cur /\ req' = req /\ z' = z
    <2>1. CASE Main
      BY <2>1 DEF Main, MainStep, AcceptMore, StopAccepting, Accept, PushBack,
                  JoinHandlers, Return, wireVars, localVars, clientVars
    <2>2. CASE WokenUp
      BY <2>2 DEF WokenUp, AcceptFails, wireVars, localVars, clientVars
    <2>3. CASE \E c \in Clients : Handler(c)
      BY <2>3 DEF Handler, HandleClient, wireVars, localVars, clientVars
    <2> QED
      BY <2>1, <2>2, <2>3
  <1> QED
    BY <1>1, StepFrame DEF StepInv, Serves

(* A client the scheduler has sent its batch.                              *)
LEMMA StepServed ==
    ASSUME TypeOK, NEW c \in Clients, InStep(c), Serves(c), req >= z,
           word_count'[c] = word_count[c], toClient'[c] = toClient[c],
           toServer'[c] = toServer[c], offset'[c] = offset[c],
           words_received'[c] = words_received[c], phase'[c] = phase[c],
           is_read'[c] = is_read[c], ~Serves(c)'
    PROVE  InStep(c)'
  <1>1. StepKept(c)' /\ phase[c] # "new"
    BY DEF InStep, StepKept, StepNew
  <1>2. CASE phase[c] # "recv"
    BY <1>1, <1>2 DEF InStep
  <1>3. CASE phase[c] = "recv" /\ StepAsked(c)
    <2>1. StepAsked(c)'
      BY <1>3 DEF StepAsked
    <2> QED
      BY <1>1, <1>3, <2>1 DEF InStep
  <1>4. CASE phase[c] = "recv" /\ StepAnswered(c)
    <2>1. Sent(c) = req /\ z = BatchEnd(offset[c])
      BY <1>4 DEF Sent, StepAnswered
    <2>2. req <= BatchEnd(offset[c])
      BY <1>4, <2>1 DEF StepAnswered, Answered
    <2>3. req = BatchEnd(offset[c])
      BY <2>1, <2>2, StepTypes
    <2>4. Sent(c)' = Sent(c)
      BY <2>1, <2>3 DEF Sent
    <2>5. StepAnswered(c)'
      BY <1>4, <2>4 DEF StepAnswered
    <2> QED
      BY <1>1, <1>4, <2>5 DEF InStep
  <1> QED
    BY <1>2, <1>3, <1>4 DEF InStep

(* The scheduler takes a request of a client that waits for its answer, or *)
(* of one that has stopped.                                                *)
LEMMA StepTakes ==
    ASSUME TypeInv, StepInv, TakeRequest
    PROVE  /\ cur \in Clients /\ phase[cur] # "new" /\ ~Serves(cur)
           /\ \A d \in Clients \ {cur} : toServer'[d] = toServer[d]
           /\ phase[cur] = "recv" =>
                 /\ Head(toServer[cur]) = offset[cur] /\ offset[cur] < NumWords
                 /\ words_received[cur] = offset[cur]
                 /\ Answered(word_count[cur], toClient[cur], toServer'[cur],
                             offset[cur], offset[cur], offset[cur])
  <1>1. cur \in Clients /\ ~Serves(cur)
    BY DEF TakeRequest, TypeInv, SchedulerInv, TypeOK, FriendlyServerTypeOK,
           Serves
  <1>2. PICK m \in 1 .. Len(toServer[cur]) :
           toServer' = [toServer EXCEPT ![cur] = Rest(@, m)]
    BY DEF TakeRequest
  <1>3. /\ toServer'[cur] = Rest(toServer[cur], m)
        /\ \A d \in Clients \ {cur} : toServer'[d] = toServer[d]
    BY <1>1, <1>2 DEF TypeInv, TypeOK, SocketsTypeOK
  <1>4. InStep(cur) /\ toServer[cur] # <<>> /\ offset[cur] \in Nat
    BY <1>1, <1>2, StepTypes DEF StepInv, TypeInv
  <1>5. phase[cur] # "new"
    BY <1>4 DEF InStep, StepNew
  <1>6. ASSUME phase[cur] = "recv"
        PROVE  /\ Head(toServer[cur]) = offset[cur] /\ offset[cur] < NumWords
               /\ words_received[cur] = offset[cur]
               /\ Answered(word_count[cur], toClient[cur], toServer'[cur],
                           offset[cur], offset[cur], offset[cur])
    <2>1. StepAsked(cur)
      BY <1>4, <1>6 DEF InStep, StepAnswered, Answered
    <2>2. Requested(word_count[cur], toClient[cur], toServer[cur], offset[cur])
      BY <2>1 DEF StepAsked
    <2> QED
      BY <1>3, <1>4, <2>1, <2>2, TakesRequest DEF StepAsked
  <1> QED
    BY <1>1, <1>3, <1>5, <1>6

LEMMA PacketPending ==
    ASSUME NEW a \in Nat, NEW b \in Nat, a < b, b <= NumWords
    PROVE  /\ Packet(a, b) \in Seq(Text \cup {NL}) /\ Packet(a, b) # <<>>
           /\ Pending(Packet(a, b), a, b)
  <1>0. NumWords \in Nat
    BY ConfigAssumption
  <1>1. CASE b = NumWords
    <2>1. Packet(a, b) = Run(a, b) \o <<END, NL>>
      BY <1>0, <1>1 DEF Packet
    <2>2. <<END, NL>> \in Seq(Text \cup {NL})
      BY DEF Text
    <2>3. Closes(<<END, NL>>, b)
      BY <1>1 DEF Closes, NL, END
    <2> QED
      BY <2>1, <2>2, <2>3, RunPending
  <1>2. CASE b # NumWords
    <2>1. Packet(a, b) = Run(a, b) \o <<NL>>
      BY <1>0, <1>2 DEF Packet
    <2>2. <<NL>> \in Seq(Text \cup {NL})
      BY DEF Text
    <2>3. Closes(<<NL>>, b)
      BY <1>2 DEF Closes, NL, END
    <2> QED
      BY <2>1, <2>2, <2>3, RunPending
  <1> QED
    BY <1>1, <1>2

LEMMA SchedulerInStep ==
    ASSUME TypeInv, StepInv, Scheduler
    PROVE  StepInv'
  <1> SUFFICES ASSUME NEW c \in Clients
               PROVE  InStep(c)'
    BY DEF StepInv
  <1>0. /\ toServer[c] \in Seq(Nat) /\ toClient[c] \in Seq(Text \cup {NL})
        /\ offset[c] \in Nat /\ words_received[c] \in Nat
        /\ req \in Nat /\ z \in Nat /\ z <= NumWords
        /\ BatchEnd(offset[c]) \in Nat /\ NumWords \in Nat
    BY StepTypes DEF TypeInv
  <1>a. /\ word_count' = word_count /\ offset' = offset /\ phase' = phase
        /\ words_received' = words_received /\ is_read' = is_read
        /\ InStep(c) /\ TypeOK
    BY DEF Scheduler, clientVars, StepInv, TypeInv
  <1>b. /\ toServer \in [Clients -> Seq(Nat)]
        /\ toClient \in [Clients -> Seq(Text \cup {NL})]
    BY DEF TypeInv, TypeOK, SocketsTypeOK
  <1>1. CASE Schedule \/ HungUp \/ SchedulerJoins
    <2>1. /\ toClient' = toClient /\ toServer' = toServer
          /\ ~Serves(c) /\ ~Serves(c)'
      BY <1>1 DEF Schedule, HungUp, SchedulerJoins, Ready, wireVars, Serves
    <2> QED
      BY <1>a, <2>1, StepFrame
  <1>2. CASE Requeue \/ Served
    <2>1. /\ toClient' = toClient /\ toServer' = toServer
          /\ req >= z /\ ~Serves(c)'
      BY <1>2 DEF Requeue, Served, Ready, wireVars, Serves
    <2> QED
      BY <1>a, <2>1, StepFrame, StepServed
  <1>3. CASE OutOfRange
    <2>1. /\ cur \in Clients /\ phase[cur] # "new" /\ ~Serves(cur)
          /\ \A d \in Clients \ {cur} : toServer'[d] = toServer[d]
          /\ phase[cur] = "recv" =>
                Head(toServer[cur]) = offset[cur] /\ offset[cur] < NumWords
      BY <1>3, StepTakes DEF OutOfRange
    <2>2. /\ \A d \in Clients \ {cur} : toClient'[d] = toClient[d]
          /\ ~Serves(c)' /\ Head(toServer[cur]) >= NumWords
      BY <1>3, <1>b, <2>1 DEF OutOfRange, Answer, Ready, Serves
    <2>3. CASE cur = c
      <3>1. phase[c] # "recv" /\ phase[c] # "new"
        BY <1>0, <2>1, <2>2, <2>3
      <3> QED
        BY <1>a, <3>1 DEF InStep, StepKept
    <2>4. CASE cur # c
      <3>1. ~Serves(c)
        BY <2>4 DEF Serves
      <3> QED
        BY <1>a, <2>1, <2>2, <2>4, <3>1, StepFrame
    <2> QED
      BY <2>3, <2>4
  <1>4. CASE BeginAnswer
    <2>1. /\ cur \in Clients /\ phase[cur] # "new" /\ ~Serves(cur)
          /\ \A d \in Clients \ {cur} : toServer'[d] = toServer[d]
          /\ phase[cur] = "recv" =>
                /\ Head(toServer[cur]) = offset[cur]
                /\ words_received[cur] = offset[cur]
                /\ Answered(word_count[cur], toClient[cur], toServer'[cur],
                            offset[cur], offset[cur], offset[cur])
      BY <1>4, StepTakes DEF BeginAnswer
    <2>2. /\ toClient' = toClient /\ cur' = cur /\ spc' = "serve"
          /\ req' = Head(toServer[cur]) /\ z' = BatchEnd(Head(toServer[cur]))
      BY <1>4 DEF BeginAnswer
    <2>3. CASE cur = c /\ phase[c] = "recv"
      <3>1. /\ Serves(c)' /\ req' = offset[c] /\ z' = BatchEnd(offset[c])
            /\ words_received[c] = offset[c]
            /\ Answered(word_count[c], toClient[c], toServer'[c], offset[c],
                        words_received[c], offset[c])
        BY <2>1, <2>2, <2>3 DEF Serves
      <3>2. Sent(c)' = offset[c]
        BY <3>1 DEF Sent
      <3> HIDE DEF BatchEnd
      <3>3. StepAnswered(c)'
        BY <1>a, <2>2, <3>1, <3>2 DEF StepAnswered
      <3> QED
        BY <1>a, <2>3, <3>3 DEF InStep, StepKept
    <2>4. CASE cur = c /\ phase[c] # "recv"
      BY <1>a, <2>1, <2>4 DEF InStep, StepKept
    <2>5. CASE cur # c
      <3>1. ~Serves(c) /\ ~Serves(c)'
        BY <2>2, <2>5 DEF Serves
      <3> QED
        BY <1>a, <2>1, <2>2, <2>5, <3>1, StepFrame
    <2> QED
      BY <2>3, <2>4, <2>5
  <1>5. CASE SendPacket
    <2>1. cur \in Clients /\ spc = "serve" /\ req < z
      BY <1>5 DEF SendPacket, TypeInv, SchedulerInv, TypeOK,
                  FriendlyServerTypeOK
    <2> DEFINE b == IF req + p < z THEN req + p ELSE z
    <2>2. /\ b \in Nat /\ req < b /\ b <= z
      BY <1>0, <2>1, ConfigAssumption
    <2>3. /\ Answer(cur, Packet(req, b)) /\ req' = b /\ z' = z
          /\ toServer' = toServer /\ spc' = spc /\ cur' = cur
      BY <1>5 DEF SendPacket
    <2> HIDE DEF b
    <2> DEFINE u == Packet(req, b)
    <2>4. /\ u \in Seq(Text \cup {NL}) /\ u # <<>>
          /\ Pending(u, req, b)
      BY <1>0, <2>2, PacketPending
    <2>5. /\ toClient'[cur] = toClient[cur] \o u
          /\ \A d \in Clients \ {cur} : toClient'[d] = toClient[d]
      BY <1>b, <2>1, <2>3 DEF Answer
    <2> HIDE DEF u
    <2>6. CASE cur = c /\ phase[c] = "recv"
      <3>1. Serves(c) /\ Serves(c)' /\ ~(req >= z)
        BY <1>0, <2>1, <2>3, <2>6 DEF Serves
      <3>2. StepAnswered(c)
        BY <1>a, <2>6, <3>1 DEF InStep, StepAsked
      <3>3. Sent(c) = req /\ Sent(c)' = b /\ z = BatchEnd(offset[c])
        BY <2>3, <3>1, <3>2 DEF Sent, StepAnswered
      <3>4. b <= BatchEnd(offset[c])
        BY <2>2, <3>3
      <3>5. Answered(word_count[c], toClient[c], toServer[c], offset[c],
                     words_received[c], req)
        BY <3>2, <3>3 DEF StepAnswered
      <3>6. Answered(word_count[c], toClient[c] \o u, toServer[c], offset[c],
                     words_received[c], b)
        BY <1>0, <2>2, <2>4, <3>4, <3>5, SendsWords
      <3>7. toClient'[c] = toClient[c] \o u
        BY <2>5, <2>6
      <3> HIDE DEF BatchEnd
      <3>8. StepAnswered(c)'
        BY <1>a, <2>3, <3>3, <3>6, <3>7 DEF StepAnswered
      <3> QED
        BY <1>a, <2>6, <3>8 DEF InStep, StepKept
    <2>7. CASE cur = c /\ phase[c] # "recv"
      <3>1. phase[c] # "new"
        BY <1>a, <2>1, <2>7 DEF InStep, StepNew, Serves
      <3> QED
        BY <1>a, <2>7, <3>1 DEF InStep, StepKept
    <2>8. CASE cur # c
      <3>1. ~Serves(c) /\ ~Serves(c)'
        BY <2>3, <2>8 DEF Serves
      <3> QED
        BY <1>a, <2>3, <2>5, <2>8, <3>1, StepFrame
    <2> QED
      BY <2>6, <2>7, <2>8
  <1> QED
    BY <1>1, <1>2, <1>3, <1>4, <1>5 DEF Scheduler, SchedulerStep

-----------------------------------------------------------------------------
(* The clients' steps.                                                     *)

(* What a client reads was sent for the request it waits for.              *)
LEMMA StepReads ==
    ASSUME TypeOK, Cuts = FALSE, NEW c \in Clients, InStep(c),
           NEW r \in Reads(toClient[c]), Receive(c, r)
    PROVE  /\ phase[c] = "recv" /\ StepAnswered(c)
           /\ r \in WholeReads(toClient[c])
           /\ toClient[c] \in Seq(Text \cup {NL})
           /\ toClient'[c] = r.rest
           /\ ~IsLast(r.packet)
  <1>1. phase[c] = "recv" /\ toClient'[c] = r.rest
    BY DEF Receive, TypeOK, SocketsTypeOK
  <1>2. r \in WholeReads(toClient[c])
    BY DEF Reads
  <1>3. StepAnswered(c)
    BY <1>1, <1>2, NothingToRead DEF InStep, StepAsked, Requested
  <1>4. toClient[c] \in Seq(Text \cup {NL})
    BY StepTypes
  <1>5. PICK x, y : Pending(toClient[c], x, y)
    BY <1>3 DEF StepAnswered, Answered
  <1>6. ~IsLast(r.packet)
    BY <1>2, <1>4, <1>5, PendingBegins DEF IsLast
  <1> QED
    BY <1>1, <1>2, <1>3, <1>4, <1>6

LEMMA CountsKeys ==
    ASSUME TypeOK, NEW c \in Clients, NEW q, Count(c, q)
    PROVE  CountsAll(word_count[c], q, word_count'[c])
  <1>1. word_count \in [Clients -> [Key -> Nat]]
    BY DEF TypeOK, FriendlyClientTypeOK
  <1>2. word_count'[c] = [w \in Key |-> word_count[c][w] + Occurrences(q, w)]
    BY <1>1 DEF Count
  <1>3. \A w \in Words \cup {DOLLAR, PIECE} : w \in Key
    BY DEF Key
  <1> QED
    BY <1>2, <1>3, Zenon DEF CountsAll

(* The client that reads EOF has counted the whole file.                   *)
LEMMA StepEnd ==
    ASSUME TypeOK, Cuts = FALSE, NEW c \in Clients, InStep(c), EndOfFile(c)
    PROVE  /\ phase[c] = "recv" /\ StepAnswered(c) /\ Sent(c) = NumWords
           /\ Tallied(word_count'[c], NumWords)
           /\ words_received'[c] = NumWords
           /\ phase'[c] = "write" /\ offset' = offset
           /\ is_read' = [is_read EXCEPT ![c] = TRUE]
  <1>1. PICK r \in Reads(toClient[c]) :
           /\ Receive(c, r)
           /\ \E m \in 0 .. Len(r.packet) - 1 :
                 BeforeEnd(r.packet, m) /\ Count(c, First(r.packet, m))
           /\ is_read' = [is_read EXCEPT ![c] = TRUE]
           /\ phase' = [phase EXCEPT ![c] = "write"]
           /\ UNCHANGED <<toServer, offset>>
    BY DEF EndOfFile
  <1>2. PICK m \in 0 .. Len(r.packet) - 1 :
           BeforeEnd(r.packet, m) /\ Count(c, First(r.packet, m))
    BY <1>1
  <1>3. /\ phase[c] = "recv" /\ StepAnswered(c)
        /\ r \in WholeReads(toClient[c])
        /\ toClient[c] \in Seq(Text \cup {NL})
    BY <1>1, StepReads
  <1>4. Sent(c) \in Nat /\ offset[c] \in Nat /\ words_received[c] \in Nat
    BY StepTypes
  <1>5. Answered(word_count[c], toClient[c], toServer[c], offset[c],
                 words_received[c], Sent(c))
    BY <1>3 DEF StepAnswered
  <1>6. CountsAll(word_count[c], First(r.packet, m), word_count'[c])
    BY <1>2, CountsKeys
  <1>7. Sent(c) = NumWords /\ Tallied(word_count'[c], NumWords)
    BY <1>2, <1>3, <1>4, <1>5, <1>6, ReadsEnd
  <1>10. words_received'[c] = NumWords
    <2>1. words_received'[c]
             = words_received[c] + TextLen(First(r.packet, m))
      BY <1>2 DEF Count, TypeOK, FriendlyClientTypeOK
    <2>2. PICK x \in Nat, y \in Nat, o \in Nat :
             x = words_received[c] /\ y = Sent(c) /\ o = offset[c]
      BY <1>4
    <2>3. Answered(word_count[c], toClient[c], toServer[c], o, x, y)
      BY <1>5, <2>2
    <2>4. /\ toClient[c] \in Seq(Text \cup {NL}) /\ BeforeEnd(r.packet, m)
          /\ r \in WholeReads(toClient[c])
      BY <1>2, <1>3
    <2>5. PICK q : q = First(r.packet, m)
      OBVIOUS
    <2>6. TextLen(q) = NumWords - x
      BY <2>3, <2>4, <2>5, ReadsRest
    <2> QED
      BY <1>4, <2>1, <2>2, <2>5, <2>6, ConfigAssumption
  <1>8. phase'[c] = "write"
    BY <1>1 DEF TypeOK, FriendlyClientTypeOK
  <1>9. is_read' = [is_read EXCEPT ![c] = TRUE] /\ offset' = offset
    BY <1>1
  <1> QED
    BY <1>3, <1>7, <1>8, <1>9, <1>10

(* Of the window the client counts some words, and when these are the last *)
(* it asks for the next window.                                            *)
LEMMA StepCounts ==
    ASSUME TypeOK, Cuts = FALSE, NEW c \in Clients, InStep(c), CountWords(c)
    PROVE  /\ phase[c] = "recv" /\ phase' = phase /\ is_read' = is_read
           /\ StepAnswered(c) /\ words_received'[c] \in Nat
           /\ \/ /\ offset' = [offset EXCEPT ![c] = @ + k]
                 /\ offset'[c] % k = 0 /\ words_received'[c] = offset'[c]
                 /\ Requested(word_count'[c], toClient'[c], toServer'[c],
                              offset'[c])
                 /\ Sent(c) = BatchEnd(offset[c]) /\ Sent(c) < NumWords
              \/ /\ offset' = offset /\ toServer'[c] = toServer[c]
                 /\ words_received[c] < words_received'[c]
                 /\ Answered(word_count'[c], toClient'[c], toServer'[c],
                             offset'[c], words_received'[c], Sent(c))
  <1>1. PICK r \in Reads(toClient[c]) :
           /\ Receive(c, r)
           /\ ~HasEnd(r.packet)
           /\ Count(c, r.packet)
           /\ MaybeAsk(c)
           /\ UNCHANGED <<phase, is_read>>
    BY DEF CountWords
  <1>2. /\ phase[c] = "recv" /\ StepAnswered(c)
        /\ r \in WholeReads(toClient[c])
        /\ toClient[c] \in Seq(Text \cup {NL}) /\ toClient'[c] = r.rest
    BY <1>1, StepReads
  <1>3. /\ offset[c] \in Nat /\ words_received[c] \in Nat /\ Sent(c) \in Nat
        /\ k \in Nat \ {0} /\ offset[c] % k = 0
    BY StepTypes, ConfigAssumption DEF InStep
  <1>4. Answered(word_count[c], toClient[c], toServer[c], offset[c],
                 words_received[c], Sent(c))
    BY <1>2 DEF StepAnswered
  <1>5. CountsAll(word_count[c], r.packet, word_count'[c])
    BY <1>1, CountsKeys
  <1>6. PICK e \in Nat :
              /\ offset[c] < e /\ words_received[c] < e /\ e <= offset[c] + k
              /\ TextLen(r.packet) = e - words_received[c]
              /\ e = offset[c] + k =>
                    /\ Requested(word_count'[c], r.rest, <<e>>, e)
                    /\ Sent(c) = BatchEnd(offset[c]) /\ Sent(c) < NumWords
              /\ e # offset[c] + k =>
                    Answered(word_count'[c], r.rest, toServer[c], offset[c], e,
                             Sent(c))
    BY <1>1, <1>2, <1>3, <1>4, <1>5, ReadsWords
  <1>7. words_received'[c] = e
    <2>1. words_received'[c] = words_received[c] + TextLen(r.packet)
      BY <1>1 DEF Count, TypeOK, FriendlyClientTypeOK
    <2> QED
      BY <1>3, <1>6, <2>1
  <1>8. PICK d \in 1 .. k : e = offset[c] + d
    <2>1. e - offset[c] \in 1 .. k /\ e = offset[c] + (e - offset[c])
      BY <1>3, <1>6
    <2> QED
      BY <2>1
  <1>9. e % k = 0 <=> e = offset[c] + k
    <2>1. (offset[c] + d) % k = 0 <=> d = k
      BY <1>3, PastBatches
    <2> QED
      BY <1>3, <1>8, <2>1
  <1>b. /\ offset \in [Clients -> Nat] /\ toServer \in [Clients -> Seq(Nat)]
        /\ toServer[c] = <<>>
    BY <1>4 DEF TypeOK, FriendlyClientTypeOK, SocketsTypeOK, Answered
  <1>10. CASE e = offset[c] + k
    <2>1. /\ offset' = [offset EXCEPT ![c] = @ + k]
          /\ toServer' = [toServer EXCEPT ![c] = Append(@, offset[c] + k)]
      BY <1>1, <1>7, <1>9, <1>10 DEF MaybeAsk
    <2>2. offset'[c] = e /\ toServer'[c] = <<e>>
      BY <1>b, <1>10, <2>1
    <2> QED
      BY <1>1, <1>2, <1>6, <1>7, <1>9, <1>10, <2>1, <2>2
  <1>11. CASE e # offset[c] + k
    <2>1. offset' = offset /\ toServer' = toServer
      BY <1>1, <1>7, <1>9, <1>11 DEF MaybeAsk
    <2> QED
      BY <1>1, <1>2, <1>6, <1>7, <1>11, <2>1
  <1> QED
    BY <1>10, <1>11

LEMMA ClientInStep ==
    ASSUME TypeInv, NumWords # 0, Cuts = FALSE, StepInv,
           NEW c \in Clients, Client(c)
    PROVE  StepInv'
  <1>0. TypeOK /\ \A d \in Clients : InStep(d)
    BY DEF TypeInv, StepInv
  <1>a. /\ spc' = spc /\ cur' = cur /\ req' = req /\ z' = z /\ ClientStep(c)
        /\ \A d \in Clients : Serves(d)' <=> Serves(d)
    BY DEF Client, serverVars, localVars, Serves
  <1>b. /\ toServer \in [Clients -> Seq(Nat)]
        /\ toClient \in [Clients -> Seq(Text \cup {NL})]
        /\ offset \in [Clients -> Nat] /\ words_received \in [Clients -> Nat]
        /\ phase \in [Clients -> {"new", "recv", "write", "done", "killed"}]
        /\ is_read \in [Clients -> BOOLEAN]
    BY <1>0 DEF TypeOK, SocketsTypeOK, FriendlyClientTypeOK
  <1>c. ASSUME NEW d \in Clients, d # c, ~ConnectRefused(c)
        PROVE  InStep(d)'
    <2>1. word_count'[d] = word_count[d]
      BY <1>0, <1>a, <1>c, CountsWords
      DEF ClientStep, Connect, ServerClosed, LastPacket, EndOfFile, CountWords,
          WriteTable
    <2>2. phase'[d] = phase[d]
      BY <1>a, <1>b, <1>c
      DEF ClientStep, Connect, ServerClosed, LastPacket, EndOfFile, CountWords,
          WriteTable, Leave, Finish
    <2>3. toClient'[d] = toClient[d]
      BY <1>a, <1>b, <1>c
      DEF ClientStep, Connect, ServerClosed, LastPacket, EndOfFile, CountWords,
          WriteTable, Receive, wireVars
    <2>4. toServer'[d] = toServer[d] /\ offset'[d] = offset[d]
      BY <1>a, <1>b, <1>c
      DEF ClientStep, Connect, ServerClosed, LastPacket, EndOfFile, CountWords,
          WriteTable, MaybeAsk, wireVars
    <2>5. words_received'[d] = words_received[d]
      BY <1>a, <1>b, <1>c
      DEF ClientStep, Connect, ServerClosed, LastPacket, EndOfFile, CountWords,
          WriteTable, Count
    <2>6. is_read'[d] = is_read[d]
      <3>1. is_read' = is_read \/ is_read' = [is_read EXCEPT ![c] = TRUE]
        BY <1>a, <1>c
        DEF ClientStep, Connect, ServerClosed, LastPacket, EndOfFile,
            CountWords, WriteTable
      <3> QED
        BY <1>b, <1>c, <3>1, Zenon
    <2> QED
      BY <1>0, <1>a, <2>1, <2>2, <2>3, <2>4, <2>5, <2>6, StepFrame
  <1>1. CASE Connect(c)
    <2>1. /\ phase[c] = "new" /\ phase'[c] = "recv"
          /\ toServer'[c] = Append(toServer[c], offset[c])
          /\ toClient'[c] = toClient[c] /\ offset'[c] = offset[c]
          /\ words_received'[c] = words_received[c]
          /\ word_count'[c] = word_count[c] /\ is_read' = is_read
      BY <1>1, <1>b DEF Connect
    <2>2. StepNew(c) /\ ~is_read[c]
      BY <1>0, <2>1 DEF InStep
    <2>3. Requested(word_count'[c], toClient'[c], toServer'[c], offset'[c])
      <3>1. 0 < NumWords /\ toServer'[c] = <<0>>
        BY <2>1, <2>2, ConfigAssumption DEF StepNew
      <3> QED
        BY <2>1, <2>2, <3>1 DEF StepNew, Requested
    <2>4. StepAsked(c)'
      BY <1>a, <2>1, <2>2, <2>3 DEF StepNew, StepAsked
    <2>5. InStep(c)'
      BY <1>0, <2>1, <2>2, <2>4 DEF InStep, StepKept
    <2>6. ~ConnectRefused(c)
      BY <1>1 DEF Connect, ConnectRefused
    <2> QED
      BY <1>c, <2>5, <2>6 DEF StepInv
  <1>2. CASE ConnectRefused(c)
    <2>1. /\ word_count' = word_count /\ offset' = offset
          /\ toClient' = toClient /\ toServer' = toServer
          /\ words_received' = words_received /\ is_read' = is_read
          /\ phase' = [d \in Clients |->
                          IF phase[d] = "done" THEN "done" ELSE "killed"]
      BY <1>2 DEF ConnectRefused, wireVars
    <2>2. ASSUME NEW d \in Clients
          PROVE  InStep(d)'
      <3>1. phase'[d] \in {"done", "killed"}
        BY <2>1
      <3> QED
        BY <1>0, <2>1, <3>1, StepStops
    <2> QED
      BY <2>2 DEF StepInv
  <1>3. CASE ServerClosed(c) \/ WriteTable(c)
    <2>1. /\ word_count' = word_count /\ offset' = offset
          /\ is_read' = is_read /\ phase'[c] = "done" /\ phase[c] # "new"
      BY <1>3, <1>b DEF ServerClosed, WriteTable, Leave, Finish
    <2>2. InStep(c)'
      BY <1>0, <2>1, StepStops
    <2>3. ~ConnectRefused(c)
      BY <2>1 DEF ConnectRefused
    <2> QED
      BY <1>c, <2>2, <2>3 DEF StepInv
  <1>4. ASSUME LastPacket(c)
        PROVE  FALSE
    BY <1>0, <1>4, StepReads DEF LastPacket
  <1>5. CASE EndOfFile(c)
    <2>1. /\ phase[c] = "recv" /\ StepAnswered(c) /\ Sent(c) = NumWords
          /\ Tallied(word_count'[c], NumWords)
          /\ phase'[c] = "write" /\ offset' = offset
      BY <1>0, <1>5, StepEnd
    <2>2. offset[c] <= NumWords /\ NumWords \in Nat
      <3>1. /\ offset[c] <= words_received[c] /\ words_received[c] <= NumWords
            /\ offset[c] \in Nat /\ words_received[c] \in Nat
            /\ NumWords \in Nat
        BY <1>0, <2>1, StepTypes DEF StepAnswered, Answered
      <3> QED
        BY <3>1
    <2>3. StepKept(c)'
      BY <2>1, <2>2 DEF StepKept
    <2>4. InStep(c)'
      BY <1>0, <2>1, <2>3 DEF InStep
    <2>5. ~ConnectRefused(c)
      BY <2>1 DEF ConnectRefused
    <2> QED
      BY <1>c, <2>4, <2>5 DEF StepInv
  <1>6. CASE CountWords(c)
    <2>1. /\ phase[c] = "recv" /\ phase' = phase /\ is_read' = is_read
          /\ StepAnswered(c)
      BY <1>0, <1>6, StepCounts
    <2>2. ~is_read[c] /\ offset[c] % k = 0
      BY <1>0, <2>1 DEF InStep
    <2>a. ~is_read'[c] /\ phase'[c] = "recv" /\ phase'[c] # "new"
      <3>1. phase'[c] = "recv"
        BY <2>1
      <3>2. phase'[c] # "new"
        BY <3>1
      <3>3. ~is_read'[c]
        BY <2>1, <2>2, Zenon
      <3> QED
        BY <3>1, <3>2, <3>3, Zenon
    <2>3. ASSUME offset' = [offset EXCEPT ![c] = @ + k],
                 offset'[c] % k = 0, words_received'[c] = offset'[c],
                 Requested(word_count'[c], toClient'[c], toServer'[c],
                           offset'[c]),
                 Sent(c) = BatchEnd(offset[c]), Sent(c) < NumWords
          PROVE  InStep(c)'
      <3>1. Serves(c) => req = z
        BY <2>1, <2>3 DEF Sent, StepAnswered
      <3>2. Serves(c) => req >= z
        BY <1>0, <3>1, StepTypes
      <3>3. StepAsked(c)'
        BY <1>a, <2>3, <3>2 DEF StepAsked
      <3>4. offset'[c] \in Nat
        <4>1. k \in Nat /\ offset[c] \in Nat
          BY <1>b, ConfigAssumption
        <4>2. offset'[c] = offset[c] + k
          BY <1>b, <2>3
        <4> QED
          BY <4>1, <4>2
      <3>5. StepKept(c)'
        BY <2>3, <3>4 DEF StepKept, Requested
      <3> QED
        BY <2>3, <2>a, <3>3, <3>5, Zenon DEF InStep
    <2>4. ASSUME offset' = offset, toServer'[c] = toServer[c],
                 Answered(word_count'[c], toClient'[c], toServer'[c],
                          offset'[c], words_received'[c], Sent(c))
          PROVE  InStep(c)'
      <3>1. Sent(c)' = Sent(c)
        BY <1>a, <2>4 DEF Sent
      <3>2. StepAnswered(c)'
        BY <1>a, <2>1, <2>4, <3>1 DEF StepAnswered
      <3>3. words_received'[c] \in Nat
        BY <1>0, <1>6, StepCounts
      <3>4. StepKept(c)'
        BY <2>4, <3>3 DEF StepKept, Answered
      <3>5. offset'[c] % k = 0
        BY <2>2, <2>4
      <3> QED
        BY <2>a, <3>2, <3>4, <3>5, Zenon DEF InStep
    <2>5. InStep(c)'
      BY <1>0, <1>6, <2>3, <2>4, StepCounts
    <2>6. ~ConnectRefused(c)
      BY <2>1 DEF ConnectRefused
    <2> QED
      BY <1>c, <2>5, <2>6 DEF StepInv
  <1> QED
    BY <1>a, <1>1, <1>2, <1>3, <1>4, <1>5, <1>6 DEF ClientStep

LEMMA StepStep ==
    ASSUME TypeInv, NumWords # 0, Cuts = FALSE, StepInv, [Next]_vars
    PROVE  StepInv'
  <1>1. CASE UNCHANGED vars
    <2>1. /\ toClient' = toClient /\ toServer' = toServer /\ offset' = offset
          /\ word_count' = word_count /\ phase' = phase /\ is_read' = is_read
          /\ words_received' = words_received
          /\ spc' = spc /\ cur' = cur /\ req' = req /\ z' = z
      BY <1>1 DEF vars, wireVars, serverVars, localVars, clientVars
    <2> QED
      BY <2>1, StepFrame DEF StepInv, Serves
  <1> QED
    BY <1>1, OthersStep, SchedulerInStep, ClientInStep DEF Next

-----------------------------------------------------------------------------
(* Where every recv ends where a send ended, each client and the scheduler *)
(* take the windows of the file in step, whomever it answers in between.   *)
THEOREM StepCorrect ==
    ASSUME NumWords # 0, Cuts = FALSE
    PROVE  Spec => []StepInv
  <1>1. Init => StepInv
    BY InitStep
  <1>2. TypeInv /\ StepInv /\ [Next]_vars => StepInv'
    BY StepStep
  <1> QED
    BY <1>1, <1>2, TypeInvariant, PTL DEF Spec

-----------------------------------------------------------------------------
(* An empty file: every request is answered with $$ and the connection     *)
(* closed.                                                                 *)

EmptyClient(c) ==
    /\ offset[c] = 0 /\ words_received[c] = 0 /\ ~is_read[c]
    /\ phase[c] # "write"
    /\ toServer[c] \in {<<>>, <<0>>}
    /\ toClient[c] \in {<<>>, <<DOLLAR, NL>>}
    /\ toServer[c] # <<>> => toClient[c] = <<>>
    /\ phase[c] = "new" => toServer[c] = <<>> /\ toClient[c] = <<>>
    /\ phase[c] = "recv" /\ toClient[c] = <<>> =>
          toServer[c] # <<>> \/ c \in closed

EmptyInv == spc # "serve" /\ \A c \in Clients : EmptyClient(c)

LEMMA InitEmpty == Init => EmptyInv
  BY DEF Init, SocketsInit, WireInit, ServerInit, ClientInit, EmptyInv,
         EmptyClient

(* A recv returns the one thing that was sent.                             *)
LEMMA EmptyReads ==
    ASSUME Cuts = FALSE, NEW s, s \in {<<>>, <<DOLLAR, NL>>},
           NEW r \in Reads(s)
    PROVE  s = <<DOLLAR, NL>> /\ r.packet = <<DOLLAR, NL>> /\ r.rest = <<>>
  <1>1. r \in WholeReads(s)
    BY DEF Reads
  <1>2. PICK m \in DOMAIN s :
           EndsSend(s, m) /\ r = Read(First(s, m), Rest(s, m))
    BY <1>1 DEF WholeReads
  <1>3. s = <<DOLLAR, NL>>
    BY <1>2
  <1>4. m = 2
    BY <1>2, <1>3 DEF EndsSend, DOLLAR, NL
  <1>5. First(s, 2) = <<DOLLAR, NL>> /\ Rest(s, 2) = <<>>
    <2>1. s \in Seq(Int) /\ Len(s) = 2
      BY <1>3 DEF DOLLAR, NL
    <2>2. First(s, 2) = s /\ Rest(s, 2) = <<>>
      BY <2>1 DEF First, Rest
    <2> QED
      BY <1>3, <2>2
  <1> QED
    BY <1>2, <1>3, <1>4, <1>5 DEF Read

LEMMA EmptyFrame ==
    ASSUME NEW c, EmptyClient(c),
           toServer'[c] = toServer[c], toClient'[c] = toClient[c],
           offset'[c] = offset[c], words_received'[c] = words_received[c],
           is_read'[c] = is_read[c],
           phase'[c] = phase[c] \/ phase'[c] \in {"done", "killed"},
           c \in closed => c \in closed'
    PROVE  EmptyClient(c)'
  BY DEF EmptyClient

(* The scheduler takes a request and answers it at once.                   *)
LEMMA EmptyTakes ==
    ASSUME TypeInv, EmptyInv, NumWords = 0, TakeRequest
    PROVE  /\ cur \in Clients /\ spc = "recv"
           /\ toServer[cur] = <<0>> /\ toClient[cur] = <<>>
           /\ Head(toServer[cur]) = 0 /\ toServer'[cur] = <<>>
           /\ \A d \in Clients \ {cur} : toServer'[d] = toServer[d]
  <1>1. cur \in Clients /\ spc = "recv"
    BY DEF TakeRequest, TypeInv, SchedulerInv, TypeOK, FriendlyServerTypeOK
  <1>2. PICK m \in 1 .. Len(toServer[cur]) :
           toServer' = [toServer EXCEPT ![cur] = Rest(@, m)]
    BY DEF TakeRequest
  <1>3. /\ toServer'[cur] = Rest(toServer[cur], m)
        /\ \A d \in Clients \ {cur} : toServer'[d] = toServer[d]
    BY <1>1, <1>2 DEF TypeInv, TypeOK, SocketsTypeOK
  <1>4. EmptyClient(cur)
    BY <1>1 DEF EmptyInv
  <1>5. toServer[cur] = <<0>> /\ toClient[cur] = <<>>
    <2>1. toServer[cur] \in {<<>>, <<0>>} /\ toServer[cur] # <<>>
      BY <1>2, <1>4 DEF EmptyClient
    <2>2. toClient[cur] = <<>>
      BY <1>4, <2>1 DEF EmptyClient
    <2> QED
      BY <2>1, <2>2
  <1>6. m = 1
    BY <1>2, <1>5
  <1>7. toServer'[cur] = <<>> /\ Head(toServer[cur]) = 0
    BY <1>3, <1>5, <1>6 DEF Rest
  <1> QED
    BY <1>1, <1>3, <1>5, <1>7

LEMMA EmptyScheduler ==
    ASSUME TypeInv, EmptyInv, NumWords = 0, Scheduler
    PROVE  /\ Schedule \/ HungUp \/ OutOfRange \/ SchedulerJoins
           /\ EmptyInv'
  <1>1. Schedule \/ HungUp \/ OutOfRange \/ SchedulerJoins
    <2>1. ~SendPacket /\ ~Requeue /\ ~Served
      BY DEF EmptyInv, SendPacket, Requeue, Served
    <2>2. ~BeginAnswer
      BY EmptyTakes DEF BeginAnswer
    <2> QED
      BY <2>1, <2>2 DEF Scheduler, SchedulerStep
  <1>2. UNCHANGED clientVars /\ closed \subseteq closed'
    BY <1>1 DEF Scheduler, Schedule, HungUp, OutOfRange, SchedulerJoins,
                CloseConnection, StopListening, socketVars
  <1>3. \A c \in Clients : /\ offset'[c] = offset[c]
                           /\ words_received'[c] = words_received[c]
                           /\ is_read'[c] = is_read[c]
                           /\ phase'[c] = phase[c] /\ EmptyClient(c)
    BY <1>2 DEF clientVars, EmptyInv
  <1>4. spc' # "serve"
    BY <1>1 DEF Schedule, HungUp, OutOfRange, SchedulerJoins, Ready
  <1>5. CASE Schedule \/ HungUp \/ SchedulerJoins
    <2>1. toServer' = toServer /\ toClient' = toClient
      BY <1>5 DEF Schedule, HungUp, SchedulerJoins, wireVars
    <2> QED
      BY <1>1, <1>2, <1>3, <1>4, <2>1, EmptyFrame DEF EmptyInv
  <1>6. CASE OutOfRange
    <2>1. PICK c \in Clients : c = cur
      BY <1>6, EmptyTakes DEF OutOfRange
    <2>2. /\ toClient[c] = <<>> /\ toServer'[c] = <<>>
          /\ toServer[c] = <<0>>
          /\ \A d \in Clients \ {c} : toServer'[d] = toServer[d]
      BY <1>6, <2>1, EmptyTakes DEF OutOfRange
    <2>3. /\ toClient'[c] = toClient[c] \o <<DOLLAR, NL>>
          /\ \A d \in Clients \ {c} : toClient'[d] = toClient[d]
      BY <1>6, <2>1 DEF OutOfRange, Answer, TypeInv, TypeOK, SocketsTypeOK
    <2>4. toClient'[c] = <<DOLLAR, NL>>
      BY <2>2, <2>3
    <2>5. toClient'[c] # <<>> /\ toServer[c] # <<>>
      BY <2>2, <2>4
    <2>6. EmptyClient(c)'
      BY <1>3, <2>2, <2>4, <2>5 DEF EmptyClient
    <2>7. \A d \in Clients \ {c} : EmptyClient(d)'
      BY <1>2, <1>3, <2>2, <2>3, EmptyFrame
    <2> QED
      BY <1>1, <1>4, <2>6, <2>7 DEF EmptyInv
  <1> QED
    BY <1>1, <1>5, <1>6

(* A client connects, or leaves with nothing counted.                      *)
LEMMA EmptyClients ==
    ASSUME TypeInv, EmptyInv, Cuts = FALSE, NEW c \in Clients, Client(c)
    PROVE  /\ \/ Connect(c) \/ ConnectRefused(c)
              \/ ServerClosed(c) \/ LastPacket(c)
           /\ EmptyInv'
  <1>0. TypeOK /\ EmptyClient(c)
    BY DEF TypeInv, EmptyInv
  <1>1. Connect(c) \/ ConnectRefused(c) \/ ServerClosed(c) \/ LastPacket(c)
    <2>1. \A r \in Reads(toClient[c]) : IsLast(r.packet)
      BY <1>0, EmptyReads DEF EmptyClient, IsLast
    <2>2. ~WriteTable(c)
      BY <1>0 DEF EmptyClient, WriteTable
    <2> QED
      BY <2>1, <2>2 DEF Client, ClientStep, EndOfFile, CountWords
  <1>2. /\ closed' = closed /\ spc' = spc
        /\ offset' = offset /\ words_received' = words_received
        /\ is_read' = is_read
    BY <1>1 DEF Client, serverVars, Connect, ConnectRefused, ServerClosed,
                LastPacket, Receive
  <1>3. ASSUME NEW d \in Clients,
               toServer'[d] = toServer[d], toClient'[d] = toClient[d],
               phase'[d] = phase[d] \/ phase'[d] \in {"done", "killed"}
        PROVE  EmptyClient(d)'
    BY <1>2, <1>3, EmptyFrame DEF EmptyInv
  <1>4. \A d \in Clients : EmptyClient(d)'
    <2>1. CASE Connect(c)
      <3>1. /\ phase[c] = "new" /\ phase'[c] = "recv"
            /\ toServer'[c] = Append(toServer[c], offset[c])
            /\ toClient' = toClient
            /\ \A d \in Clients \ {c} :
                  toServer'[d] = toServer[d] /\ phase'[d] = phase[d]
        BY <1>0, <2>1
        DEF Connect, TypeOK, SocketsTypeOK, FriendlyClientTypeOK
      <3>2. toServer[c] = <<>> /\ toClient[c] = <<>> /\ offset[c] = 0
        BY <1>0, <3>1 DEF EmptyClient
      <3>3. toServer'[c] = <<0>>
        BY <3>1, <3>2
      <3>4. toServer'[c] # <<>>
        BY <3>3
      <3>5. EmptyClient(c)'
        BY <1>0, <1>2, <3>1, <3>2, <3>3, <3>4 DEF EmptyClient
      <3> QED
        BY <1>3, <3>1, <3>5
    <2>2. CASE ConnectRefused(c)
      <3>1. /\ toServer' = toServer /\ toClient' = toClient
            /\ \A d \in Clients : phase'[d] \in {"done", "killed"}
        BY <2>2 DEF ConnectRefused, wireVars
      <3> QED
        BY <1>3, <3>1
    <2>3. CASE ServerClosed(c)
      <3>1. /\ toServer' = toServer /\ toClient' = toClient
            /\ phase' = [phase EXCEPT ![c] = "done"]
        BY <2>3 DEF ServerClosed, Leave, Finish, wireVars
      <3>2. \A d \in Clients : phase'[d] = phase[d] \/ phase'[d] = "done"
        BY <1>0, <3>1 DEF TypeOK, FriendlyClientTypeOK
      <3> QED
        BY <1>3, <3>1, <3>2
    <2>4. CASE LastPacket(c)
      <3>1. PICK r \in Reads(toClient[c]) :
               /\ toClient' = [toClient EXCEPT ![c] = r.rest]
               /\ phase' = [phase EXCEPT ![c] = "done"]
               /\ toServer' = toServer
        BY <2>4 DEF LastPacket, Receive, Leave, Finish
      <3>2. /\ toClient[c] = <<DOLLAR, NL>> /\ r.rest = <<>>
        BY <1>0, EmptyReads DEF EmptyClient
      <3>3. /\ toClient'[c] = <<>> /\ phase'[c] = "done"
            /\ \A d \in Clients \ {c} :
                  toClient'[d] = toClient[d] /\ phase'[d] = phase[d]
        BY <1>0, <3>1, <3>2
        DEF TypeOK, SocketsTypeOK, FriendlyClientTypeOK
      <3>4. EmptyClient(c)'
        BY <1>0, <1>2, <3>1, <3>3 DEF EmptyClient
      <3> QED
        BY <1>3, <3>1, <3>3, <3>4
    <2> QED
      BY <1>1, <2>1, <2>2, <2>3, <2>4
  <1> QED
    BY <1>1, <1>2, <1>4 DEF EmptyInv

(* With an empty file all a client is ever sent is the answer $$ to its    *)
(* only request.                                                           *)
THEOREM EmptyCorrect ==
    ASSUME NumWords = 0, Cuts = FALSE
    PROVE  Spec => []EmptyInv
  <1>1. TypeInv /\ EmptyInv /\ [Next]_vars => EmptyInv'
    <2> SUFFICES ASSUME TypeInv, EmptyInv, [Next]_vars
                 PROVE  EmptyInv'
      OBVIOUS
    <2>1. ASSUME \/ Main \/ WokenUp
                 \/ \E c \in Clients : Handler(c)
                 \/ UNCHANGED vars
          PROVE  EmptyInv'
      <3>1. /\ UNCHANGED clientVars /\ UNCHANGED wireVars /\ spc' = spc
        BY <2>1
        DEF Main, MainStep, AcceptMore, StopAccepting, Accept, PushBack,
            JoinHandlers, Return, WokenUp, AcceptFails, Handler, HandleClient,
            vars, serverVars, socketVars, wireVars
      <3>2. \A c \in Clients : c \in closed => c \in closed'
        BY <2>1
        DEF Main, MainStep, AcceptMore, StopAccepting, Accept, PushBack,
            JoinHandlers, Return, WokenUp, AcceptFails, Handler, HandleClient,
            AddToQueue, CloseConnection, StopListening, vars, socketVars
      <3> QED
        BY <3>1, <3>2, EmptyFrame DEF EmptyInv, clientVars, wireVars
    <2> QED
      BY <2>1, EmptyScheduler, EmptyClients DEF Next
  <1> QED
    BY <1>1, InitEmpty, TypeInvariant, PTL DEF Spec

-----------------------------------------------------------------------------
(* The output files.                                                       *)

(* A table is being written, or was, only with the end of the file read;   *)
(* and only exit(1) keeps one from being written to its last line.         *)
OutputState(c) ==
    /\ phase[c] = "write" => is_read[c]
    /\ output[c] # "none" => is_read[c]
    /\ is_read[c] => output[c] = "written" \/ phase[c] \in {"write", "killed"}

OutputInv == \A c \in Clients : OutputState(c)

LEMMA ClientOutput ==
    ASSUME TypeOK, OutputInv, NEW c \in Clients, ClientStep(c)
    PROVE  OutputInv'
  <1>0. /\ phase \in [Clients -> {"new", "recv", "write", "done", "killed"}]
        /\ is_read \in [Clients -> BOOLEAN]
        /\ output \in [Clients -> {"none", "cut", "written"}]
        /\ \A d \in Clients : OutputState(d)
    BY DEF TypeOK, FriendlyClientTypeOK, OutputInv
  <1> SUFFICES ASSUME NEW d \in Clients
               PROVE  OutputState(d)'
    BY DEF OutputInv
  <1>1. CASE ConnectRefused(c)
    <2>1. /\ phase'[d] = IF phase[d] = "done" THEN "done" ELSE "killed"
          /\ output'[d] \in CutOutput(d) /\ is_read'[d] = is_read[d]
      BY <1>1 DEF ConnectRefused
    <2>2. phase'[d] # "write" /\ (is_read'[d] <=> is_read[d])
      BY <2>1, Zenon
    <2>3. CASE phase[d] = "done"
      <3>1. phase'[d] = "done" /\ output'[d] = output[d]
        BY <2>1, <2>3 DEF CutOutput
      <3> QED
        BY <1>0, <2>2, <2>3, <3>1, Zenon DEF OutputState
    <2>4. CASE phase[d] # "done"
      <3>1. /\ phase'[d] = "killed"
            /\ phase[d] = "write" \/ output'[d] = output[d]
        BY <2>1, <2>4 DEF CutOutput
      <3> QED
        BY <1>0, <2>2, <3>1, Zenon DEF OutputState
    <2> QED
      BY <2>3, <2>4
  <1>2. CASE Connect(c) \/ CountWords(c)
    <2>1. /\ \/ phase'[d] = phase[d]
             \/ phase'[d] = "recv" /\ phase[d] = "new"
          /\ output' = output /\ is_read' = is_read
      BY <1>0, <1>2 DEF Connect, CountWords
    <2> QED
      BY <1>0, <2>1, Zenon DEF OutputState
  <1>3. CASE ServerClosed(c) \/ LastPacket(c)
    <2>1. /\ phase[c] = "recv" /\ phase' = [phase EXCEPT ![c] = "done"]
          /\ output' = output /\ is_read' = is_read
      BY <1>3 DEF ServerClosed, LastPacket, Receive, Leave, Finish
    <2>2. \/ phase'[d] = phase[d]
          \/ phase[d] = "recv" /\ phase'[d] = "done"
      BY <1>0, <2>1
    <2> QED
      BY <1>0, <2>1, <2>2, Zenon DEF OutputState
  <1>4. CASE EndOfFile(c)
    <2>1. /\ is_read' = [is_read EXCEPT ![c] = TRUE]
          /\ phase' = [phase EXCEPT ![c] = "write"] /\ output' = output
      BY <1>4 DEF EndOfFile
    <2>2. \/ d = c /\ is_read'[d] /\ phase'[d] = "write"
          \/ (is_read'[d] <=> is_read[d]) /\ phase'[d] = phase[d]
      BY <1>0, <2>1, Zenon
    <2> QED
      BY <1>0, <2>1, <2>2, Zenon DEF OutputState
  <1>5. CASE WriteTable(c)
    <2>1. /\ phase[c] = "write" /\ phase' = [phase EXCEPT ![c] = "done"]
          /\ output' = [output EXCEPT ![c] = "written"] /\ is_read' = is_read
      BY <1>5 DEF WriteTable, Finish
    <2>2. \/ d = c /\ phase'[d] = "done" /\ output'[d] = "written"
          \/ phase'[d] = phase[d] /\ output'[d] = output[d]
      BY <1>0, <2>1
    <2> QED
      BY <1>0, <2>1, <2>2, Zenon DEF OutputState
  <1> QED
    BY <1>1, <1>2, <1>3, <1>4, <1>5 DEF ClientStep

LEMMA OutputCorrect == Spec => []OutputInv
  <1>1. Init => OutputInv
    <2> SUFFICES ASSUME Init, NEW c \in Clients
                 PROVE  OutputState(c)
      BY DEF OutputInv
    <2>1. phase[c] = "new" /\ is_read[c] = FALSE /\ output[c] = "none"
      BY DEF Init, ClientInit
    <2> QED
      BY <2>1 DEF OutputState
  <1>2. TypeInv /\ OutputInv /\ [Next]_vars => OutputInv'
    <2> SUFFICES ASSUME TypeInv, OutputInv, [Next]_vars
                 PROVE  OutputInv'
      OBVIOUS
    <2>1. ASSUME UNCHANGED clientVars
          PROVE  OutputInv'
      BY <2>1 DEF clientVars, OutputInv, OutputState
    <2> QED
      BY <2>1, ClientOutput
      DEF TypeInv, Next, Main, WokenUp, Scheduler, Handler, Client, vars
  <1> QED
    BY <1>1, <1>2, TypeInvariant, PTL DEF Spec

(* No recv cuts behind a word, so that none has an empty word.             *)
NoEmptyWord(c) == word_count[c][COMMA] = 0

EmptyWordInv == \A c \in Clients : NoEmptyWord(c)

LEMMA PendingHasNone ==
    ASSUME NEW s \in Seq(Text \cup {NL}), NEW r \in WholeReads(s),
           NEW x, NEW y, Pending(s, x, y)
    PROVE  /\ Occurrences(r.packet, COMMA) = 0
           /\ \A m \in 0 .. Len(r.packet) - 1 :
                 Occurrences(First(r.packet, m), COMMA) = 0
  <1>1. PICK n \in DOMAIN s :
           /\ r.packet \in Seq(Text \cup {NL}) /\ DOMAIN r.packet = 1 .. n
           /\ Len(r.packet) = n
           /\ \A j \in 1 .. n : r.packet[j] = s[j]
    BY WholeReadParts
  <1>2. DOMAIN s = 1 .. Len(s) /\ Len(s) \in Nat
    BY LenProperties
  <1>3. \A j \in DOMAIN s : s[j] # COMMA
    BY MarksAreNoWords DEF Pending, COMMA, NL, END
  <1>4. \A j \in DOMAIN r.packet : r.packet[j] # COMMA
    BY <1>1, <1>2, <1>3
  <1>5. ASSUME NEW m \in 0 .. Len(r.packet) - 1
        PROVE  \A j \in DOMAIN First(r.packet, m) :
                  First(r.packet, m)[j] # COMMA
    <2>1. /\ DOMAIN First(r.packet, m) = 1 .. m
          /\ \A j \in 1 .. m : First(r.packet, m)[j] = r.packet[j]
      BY <1>1 DEF First
    <2>2. \A j \in 1 .. m : j \in DOMAIN r.packet
      BY <1>1, <1>2
    <2> QED
      BY <1>4, <2>1, <2>2
  <1> QED
    BY <1>4, <1>5, OccursNowhere

LEMMA EmptyWordStep ==
    ASSUME TypeOK, Cuts = FALSE, StepInv, EmptyWordInv,
           NEW c \in Clients, ClientStep(c)
    PROVE  EmptyWordInv'
  <1>0. word_count \in [Clients -> [Key -> Nat]] /\ COMMA \in Key
    BY DEF TypeOK, FriendlyClientTypeOK, Key
  <1>1. ASSUME NEW q, Count(c, q), Occurrences(q, COMMA) = 0
        PROVE  EmptyWordInv'
    <2>1. ASSUME NEW d \in Clients \ {c}
          PROVE  word_count'[d] = word_count[d]
      BY <1>0, <1>1 DEF Count
    <2>2. word_count'[c][COMMA] = word_count[c][COMMA] + 0
      BY <1>0, <1>1 DEF Count
    <2> QED
      BY <2>1, <2>2 DEF EmptyWordInv, NoEmptyWord
  <1>2. ASSUME NEW r \in Reads(toClient[c]), Receive(c, r)
        PROVE  /\ Occurrences(r.packet, COMMA) = 0
               /\ \A m \in 0 .. Len(r.packet) - 1 :
                     Occurrences(First(r.packet, m), COMMA) = 0
    BY <1>2, StepReads, PendingHasNone DEF StepInv, StepAnswered, Answered
  <1>3. CASE EndOfFile(c) \/ CountWords(c)
    BY <1>1, <1>2, <1>3 DEF EndOfFile, CountWords
  <1>4. CASE ~EndOfFile(c) /\ ~CountWords(c)
    <2>1. word_count' = word_count
      BY <1>4 DEF ClientStep, Connect, ConnectRefused, ServerClosed,
                  LastPacket, WriteTable
    <2> QED
      BY <2>1 DEF EmptyWordInv, NoEmptyWord
  <1> QED
    BY <1>3, <1>4

LEMMA EmptyWordCorrect ==
    ASSUME NumWords # 0, Cuts = FALSE
    PROVE  Spec => []EmptyWordInv
  <1>1. Init => EmptyWordInv
    BY DEF Init, ClientInit, EmptyWordInv, NoEmptyWord, Key
  <1>2. TypeInv /\ StepInv /\ EmptyWordInv /\ [Next]_vars => EmptyWordInv'
    <2> SUFFICES ASSUME TypeInv, StepInv, EmptyWordInv, [Next]_vars
                 PROVE  EmptyWordInv'
      OBVIOUS
    <2>1. ASSUME UNCHANGED clientVars
          PROVE  EmptyWordInv'
      BY <2>1 DEF clientVars, EmptyWordInv, NoEmptyWord
    <2> QED
      BY <2>1, EmptyWordStep
      DEF TypeInv, Next, Main, WokenUp, Scheduler, Handler, Client, vars
  <1> QED
    BY <1>1, <1>2, TypeInvariant, StepCorrect, PTL DEF Spec

(* An output file has lines of the exact table of the file, every word     *)
(* once and no other entry, and it has all of them when its client comes   *)
(* to its own end.                                                         *)
THEOREM OutputCompleteCorrect ==
    ASSUME Cuts = FALSE
    PROVE  Spec => []OutputComplete
  <1>1. CASE NumWords = 0
    <2>1. EmptyInv /\ OutputInv => OutputComplete
      BY DEF EmptyInv, EmptyClient, OutputInv, OutputState, OutputComplete
    <2> QED
      BY <1>1, <2>1, EmptyCorrect, OutputCorrect, PTL
  <1>2. CASE NumWords # 0
    <2>1. ASSUME TypeInv, StepInv, OutputInv, EmptyWordInv,
                 NEW c \in Clients, output[c] # "none"
          PROVE  word_count[c] = [w \in Key |-> IF w \in Words THEN 1 ELSE 0]
      <3>1. is_read[c] /\ word_count[c][COMMA] = 0
        BY <2>1, Zenon
        DEF OutputInv, OutputState, EmptyWordInv, NoEmptyWord
      <3>2. Tallied(word_count[c], NumWords)
        BY <2>1, <3>1 DEF StepInv, InStep
      <3>3. \A w \in Words : w < NumWords
        BY ConfigAssumption DEF Words
      <3>4. ASSUME NEW w \in Key
            PROVE  word_count[c][w] = IF w \in Words THEN 1 ELSE 0
        <4>1. CASE w \in Words \cup {DOLLAR, PIECE}
          BY <3>2, <3>3, <4>1 DEF Tallied
        <4>2. CASE w \notin Words \cup {DOLLAR, PIECE}
          BY <3>1, <4>2 DEF Key
        <4> QED
          BY <4>1, <4>2
      <3>5. word_count[c] \in [Key -> Nat]
        BY <2>1 DEF TypeInv, TypeOK, FriendlyClientTypeOK
      <3> QED
        BY <3>4, <3>5
    <2>2. TypeInv /\ StepInv /\ OutputInv /\ EmptyWordInv => OutputComplete
      BY <2>1 DEF OutputInv, OutputState, OutputComplete
    <2> QED
      BY <1>2, <2>2, TypeInvariant, StepCorrect, OutputCorrect,
         EmptyWordCorrect, PTL
  <1> QED
    BY <1>1, <1>2

-----------------------------------------------------------------------------
(* Nobody is forgotten, and server and clients never all wait.             *)

(* What is in a stream ends where a send ended, so that it can be read.    *)
StreamsEnd == \A c \in Clients : EndsInNewline(toClient[c])

LEMMA PacketEnds ==
    ASSUME NEW a \in Nat, NEW b \in Nat, b <= NumWords
    PROVE  /\ Packet(a, b) \in Seq(Text \cup {NL})
           /\ Packet(a, b) # <<>> /\ EndsInNewline(Packet(a, b))
  <1>1. Run(a, b) \in Seq(Text \cup {NL})
    <2>1. Run(a, b) \in Seq(Words)
      BY RunInFile
    <2> QED
      BY <2>1, SeqMonotonic, Zenon DEF Text
  <1>2. PICK q \in {<<END, NL>>, <<NL>>} : Packet(a, b) = Run(a, b) \o q
    BY DEF Packet
  <1>3. q \in Seq(Text \cup {NL}) /\ q # <<>> /\ EndsInNewline(q)
    <2>1. <<END, NL>> \in Seq(Text \cup {NL}) /\ <<NL>> \in Seq(Text \cup {NL})
      BY DEF Text
    <2>2. /\ <<END, NL>> # <<>> /\ EndsInNewline(<<END, NL>>)
          /\ <<NL>> # <<>> /\ EndsInNewline(<<NL>>)
      BY DEF EndsInNewline
    <2> QED
      BY <2>1, <2>2, Zenon
  <1>4. Packet(a, b) \in Seq(Text \cup {NL})
    BY <1>1, <1>2, <1>3, ConcatProperties
  <1> QED
    BY <1>1, <1>2, <1>3, <1>4, EndedConcat

LEMMA AnswerEnds ==
    ASSUME TypeOK, cur \in Clients, NEW tokens \in Seq(Text \cup {NL}),
           tokens # <<>>, EndsInNewline(tokens), Answer(cur, tokens),
           NEW d \in Clients, EndsInNewline(toClient[d])
    PROVE  EndsInNewline(toClient'[d])
  <1>1. /\ toClient[d] \in Seq(Text \cup {NL})
        /\ toClient \in [Clients -> Seq(Text \cup {NL})]
    BY DEF TypeOK, SocketsTypeOK
  <1>2. CASE d = cur
    <2>1. toClient'[d] = toClient[d] \o tokens
      BY <1>1, <1>2 DEF Answer
    <2> QED
      BY <1>1, <2>1, EndedConcat
  <1>3. CASE d # cur
    BY <1>1, <1>3 DEF Answer
  <1> QED
    BY <1>2, <1>3

(* What a packet goes up to.                                               *)
LEMMA SendsUpTo ==
    ASSUME TypeOK, SendPacket
    PROVE  \E b \in Nat : /\ req < b /\ b <= z /\ Answer(cur, Packet(req, b))
                          /\ req' = b
  <1> DEFINE b == IF req + p < z THEN req + p ELSE z
  <1>1. req < z /\ Answer(cur, Packet(req, b)) /\ req' = b
    BY DEF SendPacket
  <1>2. req \in Nat /\ z \in Nat /\ p \in Nat \ {0}
    BY ConfigAssumption DEF TypeOK, FriendlyServerTypeOK
  <1>3. b \in Nat /\ req < b /\ b <= z
    BY <1>1, <1>2
  <1> QED
    BY <1>1, <1>3

LEMMA SchedulerEnds ==
    ASSUME TypeInv, Scheduler, NEW d \in Clients, EndsInNewline(toClient[d])
    PROVE  EndsInNewline(toClient'[d])
  <1>0. TypeOK /\ (spc # "next" => cur \in Clients)
    BY DEF TypeInv, SchedulerInv, TypeOK, FriendlyServerTypeOK
  <1>1. CASE OutOfRange
    <2>1. /\ <<DOLLAR, NL>> \in Seq(Text \cup {NL}) /\ <<DOLLAR, NL>> # <<>>
          /\ EndsInNewline(<<DOLLAR, NL>>)
      BY DEF Text, EndsInNewline
    <2> QED
      BY <1>0, <1>1, <2>1, AnswerEnds DEF OutOfRange, TakeRequest
  <1>2. CASE SendPacket
    <2>1. PICK b \in Nat : b <= z /\ Answer(cur, Packet(req, b))
      BY <1>0, <1>2, SendsUpTo
    <2>2. req \in Nat /\ z \in Nat /\ z <= NumWords /\ NumWords \in Nat
      BY <1>0, ConfigAssumption DEF TypeOK, FriendlyServerTypeOK
    <2>3. cur \in Clients /\ b <= NumWords
      BY <1>0, <1>2, <2>1, <2>2 DEF SendPacket
    <2> QED
      BY <1>0, <2>1, <2>2, <2>3, PacketEnds, AnswerEnds
  <1>3. CASE Schedule \/ HungUp \/ BeginAnswer \/ Requeue \/ Served
                \/ SchedulerJoins
    BY <1>3 DEF Schedule, HungUp, BeginAnswer, Requeue, Served,
                SchedulerJoins, wireVars
  <1> QED
    BY <1>1, <1>2, <1>3 DEF Scheduler, SchedulerStep

LEMMA ClientEnds ==
    ASSUME TypeOK, Cuts = FALSE, NEW c \in Clients, Client(c),
           NEW d \in Clients, EndsInNewline(toClient[d])
    PROVE  EndsInNewline(toClient'[d])
  <1>0. /\ toClient[d] \in Seq(Text \cup {NL})
        /\ toClient \in [Clients -> Seq(Text \cup {NL})]
    BY DEF TypeOK, SocketsTypeOK
  <1>1. ASSUME NEW r \in Reads(toClient[c]), Receive(c, r)
        PROVE  EndsInNewline(toClient'[d])
    <2>1. CASE d = c
      <3>1. r \in WholeReads(toClient[d]) /\ toClient'[d] = r.rest
        BY <1>0, <1>1, <2>1 DEF Reads, Receive
      <3> QED
        BY <1>0, <3>1, EndedReads
    <2>2. CASE d # c
      BY <1>0, <1>1, <2>2 DEF Receive
    <2> QED
      BY <2>1, <2>2
  <1>2. CASE \/ Connect(c) \/ ConnectRefused(c)
             \/ ServerClosed(c) \/ WriteTable(c)
    BY <1>2 DEF Connect, ConnectRefused, ServerClosed, WriteTable, wireVars
  <1>3. CASE LastPacket(c) \/ EndOfFile(c) \/ CountWords(c)
    BY <1>1, <1>3 DEF LastPacket, EndOfFile, CountWords
  <1> QED
    BY <1>2, <1>3 DEF Client, ClientStep

THEOREM StreamsEndCorrect ==
    ASSUME Cuts = FALSE
    PROVE  Spec => []StreamsEnd
  <1>1. Init => StreamsEnd
    BY DEF Init, SocketsInit, WireInit, StreamsEnd, EndsInNewline
  <1>2. TypeInv /\ StreamsEnd /\ [Next]_vars => StreamsEnd'
    <2> SUFFICES ASSUME TypeInv, StreamsEnd, [Next]_vars, NEW d \in Clients
                 PROVE  EndsInNewline(toClient'[d])
      BY DEF StreamsEnd
    <2>1. TypeOK /\ EndsInNewline(toClient[d])
      BY DEF TypeInv, StreamsEnd
    <2>2. CASE Main \/ WokenUp \/ (\E c \in Clients : Handler(c))
                  \/ UNCHANGED vars
      BY <2>1, <2>2
      DEF Main, MainStep, AcceptMore, StopAccepting, Accept, PushBack,
          JoinHandlers, Return, WokenUp, AcceptFails, Handler, HandleClient,
          vars, wireVars
    <2> QED
      BY <2>1, <2>2, SchedulerEnds, ClientEnds DEF Next
  <1> QED
    BY <1>1, <1>2, TypeInvariant, PTL DEF Spec

-----------------------------------------------------------------------------
(* A client that reads on, was not sent EOF and whose connection is open.  *)
Wants(c) == phase[c] = "recv" /\ c \notin closed /\ ~HasEnd(toClient[c])

(* Some thread of the server will come across the connection.              *)
Reached(c) ==
    \/ \E j \in DOMAIN backlog : backlog[j] = c
    \/ hpc[c] = "add" \/ InQueue(c)
    \/ cur = c /\ spc # "join"

(* The client that the scheduler is about to count as served, or has, was  *)
(* sent EOF.                                                               *)
EndSent(c) ==
    /\ cur = c /\ phase[c] = "recv"
    /\ spc = "join" \/ (spc = "serve" /\ req >= NumWords)
    => HasEnd(toClient[c])

EndSentInv == \A c \in Clients : EndSent(c)

ForgetInv == Running => \A c \in Clients : Wants(c) => Reached(c)

LEMMA EndConcat ==
    ASSUME NEW s \in Seq(Text \cup {NL}), NEW u \in Seq(Text \cup {NL}),
           HasEnd(s) \/ HasEnd(u)
    PROVE  HasEnd(s \o u)
  <1>1. /\ DOMAIN s = 1 .. Len(s) /\ DOMAIN u = 1 .. Len(u)
        /\ Len(s) \in Nat /\ Len(u) \in Nat
        /\ DOMAIN (s \o u) = 1 .. Len(s) + Len(u)
        /\ \A j \in 1 .. Len(s) : (s \o u)[j] = s[j]
        /\ \A j \in 1 .. Len(u) : (s \o u)[Len(s) + j] = u[j]
    BY ConcatParts, LenProperties
  <1>2. ASSUME NEW j \in DOMAIN s, s[j] = END
        PROVE  j \in DOMAIN (s \o u) /\ (s \o u)[j] = END
    BY <1>1, <1>2
  <1>3. ASSUME NEW j \in DOMAIN u, u[j] = END
        PROVE  /\ Len(s) + j \in DOMAIN (s \o u)
               /\ (s \o u)[Len(s) + j] = END
    BY <1>1, <1>3
  <1> QED
    BY <1>2, <1>3 DEF HasEnd

LEMMA EndLeft ==
    ASSUME NEW s \in Seq(Text \cup {NL}), HasEnd(s),
           NEW r \in WholeReads(s), ~HasEnd(r.packet)
    PROVE  HasEnd(r.rest)
  <1>1. PICK n \in DOMAIN s :
           /\ DOMAIN r.packet = 1 .. n /\ \A j \in 1 .. n : r.packet[j] = s[j]
           /\ DOMAIN r.rest = 1 .. Len(s) - n
           /\ \A j \in 1 .. Len(s) - n : r.rest[j] = s[n + j]
    BY WholeReadParts
  <1>2. PICK m \in DOMAIN s : s[m] = END
    BY DEF HasEnd
  <1>3. /\ m \in 1 .. Len(s) /\ n \in 1 .. Len(s) /\ Len(s) \in Nat
    BY LenProperties
  <1>4. ~(m <= n)
    BY <1>1, <1>2, <1>3 DEF HasEnd
  <1>5. m - n \in 1 .. Len(s) - n /\ n + (m - n) = m
    BY <1>3, <1>4
  <1>6. m - n \in DOMAIN r.rest /\ r.rest[m - n] = END
    BY <1>1, <1>2, <1>5
  <1> QED
    BY <1>6 DEF HasEnd

LEMMA LastPacketEnds ==
    ASSUME NEW a \in Nat
    PROVE  HasEnd(Packet(a, NumWords))
  <1>1. /\ Run(a, NumWords) \in Seq(Text \cup {NL})
        /\ <<END, NL>> \in Seq(Text \cup {NL})
    <2>1. Run(a, NumWords) \in Seq(Words)
      BY RunInFile, ConfigAssumption
    <2>2. Run(a, NumWords) \in Seq(Text \cup {NL})
      BY <2>1, SeqMonotonic, Zenon DEF Text
    <2> QED
      BY <2>2 DEF Text
  <1>2. HasEnd(<<END, NL>>)
    <2>1. 1 \in DOMAIN <<END, NL>> /\ <<END, NL>>[1] = END
      OBVIOUS
    <2> QED
      BY <2>1 DEF HasEnd
  <1>3. Packet(a, NumWords) = Run(a, NumWords) \o <<END, NL>>
    BY ConfigAssumption DEF Packet
  <1> QED
    BY <1>1, <1>2, <1>3, EndConcat

(* What was sent is kept until it is read.                                 *)
LEMMA EndKept ==
    ASSUME TypeInv, Cuts = FALSE, Next, NEW c \in Clients,
           phase'[c] = "recv", HasEnd(toClient[c])
    PROVE  HasEnd(toClient'[c])
  <1>0. /\ TypeOK /\ toClient[c] \in Seq(Text \cup {NL})
        /\ toClient \in [Clients -> Seq(Text \cup {NL})]
        /\ phase \in [Clients -> {"new", "recv", "write", "done", "killed"}]
    BY DEF TypeInv, TypeOK, SocketsTypeOK, FriendlyClientTypeOK
  <1>1. CASE Main \/ WokenUp \/ \E d \in Clients : Handler(d)
    BY <1>1 DEF Main, MainStep, AcceptMore, StopAccepting, Accept, PushBack,
                JoinHandlers, Return, WokenUp, AcceptFails, Handler,
                HandleClient, wireVars
  <1>2. ASSUME NEW tokens \in Seq(Text \cup {NL}), Answer(cur, tokens)
        PROVE  HasEnd(toClient'[c])
    <2>1. CASE c = cur
      <3>1. toClient'[c] = toClient[c] \o tokens
        BY <1>0, <1>2, <2>1 DEF Answer
      <3> QED
        BY <1>0, <3>1, EndConcat
    <2>2. CASE c # cur
      BY <1>0, <1>2, <2>2 DEF Answer
    <2> QED
      BY <2>1, <2>2
  <1>3. CASE Scheduler
    <2>1. CASE OutOfRange
      <3>1. <<DOLLAR, NL>> \in Seq(Text \cup {NL})
        BY DEF Text
      <3> QED
        BY <1>2, <2>1, <3>1 DEF OutOfRange
    <2>2. CASE SendPacket
      <3>1. PICK b \in Nat : b <= z /\ Answer(cur, Packet(req, b))
        BY <1>0, <2>2, SendsUpTo
      <3>2. req \in Nat /\ z \in Nat /\ z <= NumWords /\ NumWords \in Nat
        BY <1>0, ConfigAssumption DEF TypeOK, FriendlyServerTypeOK
      <3>3. b <= NumWords
        BY <3>1, <3>2
      <3>4. Packet(req, b) \in Seq(Text \cup {NL})
        BY <3>1, <3>2, <3>3, PacketEnds
      <3> QED
        BY <1>2, <3>1, <3>4
    <2>3. CASE Schedule \/ HungUp \/ BeginAnswer \/ Requeue \/ Served
                  \/ SchedulerJoins
      BY <2>3 DEF Schedule, HungUp, BeginAnswer, Requeue, Served,
                  SchedulerJoins, wireVars
    <2> QED
      BY <1>3, <2>1, <2>2, <2>3 DEF Scheduler, SchedulerStep
  <1>4. ASSUME NEW d \in Clients, Client(d)
        PROVE  HasEnd(toClient'[c])
    <2>1. CASE \/ Connect(d) \/ ConnectRefused(d)
               \/ ServerClosed(d) \/ WriteTable(d)
      BY <2>1 DEF Connect, ConnectRefused, ServerClosed, WriteTable, wireVars
    <2>2. CASE LastPacket(d) \/ EndOfFile(d)
      BY <1>0, <2>2 DEF LastPacket, EndOfFile, Leave, Finish, Receive
    <2>3. CASE CountWords(d)
      <3>1. PICK r \in Reads(toClient[d]) : Receive(d, r) /\ ~HasEnd(r.packet)
        BY <2>3 DEF CountWords
      <3>2. CASE d = c
        <4>1. r \in WholeReads(toClient[c]) /\ toClient'[c] = r.rest
          BY <1>0, <3>1, <3>2 DEF Reads, Receive
        <4> QED
          BY <1>0, <3>1, <4>1, EndLeft
      <3>3. CASE d # c
        BY <1>0, <3>1, <3>3 DEF Receive
      <3> QED
        BY <3>2, <3>3
    <2> QED
      BY <1>4, <2>1, <2>2, <2>3 DEF Client, ClientStep
  <1> QED
    BY <1>1, <1>3, <1>4 DEF Next

(* The scheduler is with a connection that has connected.                  *)
LEMMA HeldHasConnected ==
    ASSUME PlaceInv, NEW c \in Clients, cur = c
    PROVE  phase[c] # "new" /\ hpc[c] = "end"
  BY DEF PlaceInv, BacklogInv, QueuedOnce

LEMMA EndSentStep ==
    ASSUME TypeInv, PlaceInv, Cuts = FALSE, Next,
           NEW c \in Clients, EndSent(c)
    PROVE  EndSent(c)'
  <1> SUFFICES ASSUME cur' = c, phase'[c] = "recv",
                      spc' = "join" \/ (spc' = "serve" /\ req' >= NumWords)
               PROVE  HasEnd(toClient'[c])
    BY DEF EndSent
  <1>0. /\ TypeOK /\ SchedulerInv
        /\ phase \in [Clients -> {"new", "recv", "write", "done", "killed"}]
        /\ req \in Nat /\ z \in Nat /\ z <= NumWords /\ NumWords \in Nat
    BY ConfigAssumption
    DEF TypeInv, TypeOK, FriendlyClientTypeOK, FriendlyServerTypeOK
  <1>1. CASE SendPacket
    <2>1. /\ cur = c /\ spc' = spc /\ spc = "serve"
          /\ toClient \in [Clients -> Seq(Text \cup {NL})]
          /\ toClient[c] \in Seq(Text \cup {NL})
      BY <1>0, <1>1 DEF SendPacket, TypeOK, SocketsTypeOK
    <2>2. PICK b \in Nat : b <= z /\ Answer(cur, Packet(req, b)) /\ req' = b
      BY <1>0, <1>1, SendsUpTo
    <2>3. b = NumWords
      BY <1>0, <2>1, <2>2
    <2>4. HasEnd(Packet(req, NumWords))
      BY <1>0, LastPacketEnds
    <2>5. Packet(req, NumWords) \in Seq(Text \cup {NL})
      BY <1>0, PacketEnds
    <2>6. toClient'[c] = toClient[c] \o Packet(req, NumWords)
      BY <2>1, <2>2, <2>3 DEF Answer
    <2> QED
      BY <2>1, <2>4, <2>5, <2>6, EndConcat
  <1>2. ASSUME ~SendPacket
        PROVE  HasEnd(toClient'[c])
    <2> DEFINE Before == /\ cur = c /\ phase[c] = "recv"
                         /\ spc = "join" \/ (spc = "serve" /\ req >= NumWords)
    <2> SUFFICES Before
      <3>1. Before => HasEnd(toClient[c])
        BY DEF EndSent
      <3> QED
        BY <3>1, EndKept
    <2>1. CASE Main \/ WokenUp \/ \E d \in Clients : Handler(d)
      BY <2>1 DEF Main, MainStep, AcceptMore, StopAccepting, Accept, PushBack,
                  JoinHandlers, Return, WokenUp, AcceptFails, Handler,
                  HandleClient, localVars, clientVars
    <2>2. CASE Scheduler
      <3>1. CASE BeginAnswer
        <4>1. /\ toServer[cur] \in Seq(Nat) /\ toServer[cur] # <<>>
              /\ req' = Head(toServer[cur]) /\ Head(toServer[cur]) < NumWords
              /\ spc' = "serve"
          <5>1. cur \in Clients
            BY <1>0, <3>1 DEF BeginAnswer, TakeRequest, SchedulerInv, TypeOK,
                              FriendlyServerTypeOK
          <5> QED
            BY <1>0, <3>1, <5>1
            DEF BeginAnswer, TakeRequest, TypeOK, SocketsTypeOK
        <4>2. Head(toServer[cur]) \in Nat
          BY <4>1
        <4> QED
          BY <1>0, <4>1, <4>2
      <3>2. CASE Schedule \/ HungUp \/ OutOfRange \/ Requeue \/ SchedulerJoins
        BY <3>2 DEF Schedule, HungUp, OutOfRange, Requeue, SchedulerJoins, Ready
      <3>3. CASE Served
        BY <2>2, <3>3 DEF Served, Ready, localVars, Scheduler, clientVars
      <3> QED
        BY <1>2, <2>2, <3>1, <3>2, <3>3 DEF Scheduler, SchedulerStep
    <2>3. ASSUME NEW d \in Clients, Client(d)
          PROVE  Before
      <3>1. cur = c /\ spc' = spc /\ req' = req
        BY <2>3 DEF Client, serverVars, localVars
      <3>2. phase[c] # "new"
        BY <3>1, HeldHasConnected
      <3>3. phase[c] = "recv"
        BY <1>0, <2>3, <3>2
        DEF Client, ClientStep, Connect, ConnectRefused, ServerClosed,
            LastPacket, EndOfFile, CountWords, WriteTable, Leave, Finish
      <3> QED
        BY <3>1, <3>3
    <2> QED
      BY <2>1, <2>2, <2>3 DEF Next
  <1> QED
    BY <1>1, <1>2

LEMMA ForgetStep ==
    ASSUME TypeInv, PlaceInv, Cuts = FALSE, EndSentInv, ForgetInv, Next,
           Running', NEW c \in Clients, Wants(c)'
    PROVE  Reached(c)'
  <1>0. /\ TypeOK /\ QueueInv /\ PlacesInv /\ SchedulerInv
        /\ phase \in [Clients -> {"new", "recv", "write", "done", "killed"}]
        /\ hpc \in [Clients -> {"none", "add", "end"}]
        /\ backlog \in Seq(Clients)
    BY PlaceParts
    DEF TypeInv, TypeOK, FriendlyClientTypeOK, FriendlyServerTypeOK,
        SocketsTypeOK
  <1>1. phase'[c] = "recv" /\ c \notin closed' /\ ~HasEnd(toClient'[c])
    BY DEF Wants
  <1>2. ~HasEnd(toClient[c])
    BY <1>1, EndKept
  <1>3. ASSUME phase[c] = "recv", c \notin closed, Running
        PROVE  Reached(c)
    BY <1>2, <1>3 DEF ForgetInv, Wants
  <1>4. CASE Main \/ WokenUp
    <2>1. /\ UNCHANGED <<policy, fifo_queue, rr_queue, phase, cur, spc>>
          /\ c \notin closed
      BY <1>1, <1>4
      DEF Main, WokenUp, MainStep, AcceptMore, StopAccepting, Accept, PushBack,
          JoinHandlers, Return, AcceptFails, queueVars, localVars, clientVars,
          socketVars, StopListening
    <2>2. InQueue(c)' <=> InQueue(c)
      BY <1>0, <2>1, QueuesKept
    <2>3. Reached(c)
      <3>1. Running
        BY <1>4
        DEF Main, WokenUp, MainStep, AcceptMore, StopAccepting, Accept,
            PushBack, JoinHandlers, Return, AcceptFails, Running
      <3> QED
        BY <1>1, <1>3, <2>1, <3>1
    <2>4. CASE AcceptMore \/ StopAccepting \/ PushBack \/ AcceptFails
      BY <2>1, <2>2, <2>3, <2>4
      DEF AcceptMore, StopAccepting, PushBack, AcceptFails, socketVars, Reached
    <2>5. CASE Accept
      <3>1. /\ backlog' = Tail(backlog)
            /\ hpc' = [hpc EXCEPT ![Head(backlog)] = "add"]
            /\ Head(backlog) \in Clients /\ Head(backlog) = backlog[1]
            /\ DOMAIN backlog = 1 .. Len(backlog) /\ Len(backlog) \in Nat
            /\ DOMAIN backlog' = 1 .. Len(backlog) - 1
            /\ \A j \in 1 .. Len(backlog) - 1 : backlog'[j] = backlog[j + 1]
        BY <1>0, <2>5, TailParts, LenProperties DEF Accept
      <3>2. ASSUME NEW j \in DOMAIN backlog, backlog[j] = c
            PROVE  Reached(c)'
        <4>1. CASE j = 1
          BY <1>0, <3>1, <3>2, <4>1 DEF Reached
        <4>2. CASE j # 1
          <5>1. j - 1 \in DOMAIN backlog' /\ (j - 1) + 1 = j
            BY <3>1, <4>2
          <5>2. backlog'[j - 1] = c
            BY <3>1, <3>2, <5>1
          <5> QED
            BY <5>1, <5>2 DEF Reached
        <4> QED
          BY <4>1, <4>2
      <3>3. hpc[c] = "add" => hpc'[c] = "add"
        BY <1>0, <3>1
      <3> QED
        BY <2>1, <2>2, <2>3, <3>2, <3>3 DEF Reached
    <2>6. CASE JoinHandlers
      <3>1. UNCHANGED hpc /\ ~(\E j \in DOMAIN backlog : backlog[j] = c)
        BY <1>1, <2>6 DEF JoinHandlers, StopListening
      <3> QED
        BY <2>1, <2>2, <2>3, <3>1 DEF Reached
    <2>7. CASE Return
      BY <2>7 DEF Return, Running
    <2> QED
      BY <1>4, <2>4, <2>5, <2>6, <2>7 DEF Main, WokenUp, MainStep
  <1>5. ASSUME NEW d \in Clients, Handler(d)
        PROVE  Reached(c)'
    <2>1. /\ Running /\ hpc[d] = "add" /\ AddToQueue(d)
          /\ hpc' = [hpc EXCEPT ![d] = "end"]
          /\ UNCHANGED <<backlog, policy, cur, spc, phase>>
      BY <1>5 DEF Handler, HandleClient, localVars, clientVars
    <2>2. ~InQueue(d)
      BY <1>0, <2>1 DEF PlacesInv, OnePlace
    <2>3. /\ \/ closed' = closed /\ InQueue(d)'
             \/ closed' = closed \cup {d} /\ ~InQueue(d)'
          /\ \A e \in Clients \ {d} : InQueue(e)' <=> InQueue(e)
      BY <1>0, <2>1, <2>2, AddToQueueEffect
    <2>4. CASE d = c
      BY <1>1, <2>3, <2>4 DEF Reached
    <2>5. CASE d # c
      <3>1. Reached(c)
        BY <1>1, <1>3, <2>1, <2>3, <2>5
      <3> QED
        BY <1>0, <2>1, <2>3, <2>5, <3>1 DEF Reached
    <2> QED
      BY <2>4, <2>5
  <1>6. CASE Scheduler
    <2>0. /\ UNCHANGED <<policy, phase, hpc, mpc>> /\ Running
          /\ spc # "next" => cur \in Clients
      BY <1>0, <1>6, SchedulerFrame
      DEF SchedulerInv, TypeOK, FriendlyServerTypeOK
    <2>1. c \notin closed /\ Reached(c)
      <3>1. c \notin closed
        BY <1>1, <1>6
        DEF Scheduler, SchedulerStep, Schedule, HungUp, OutOfRange, BeginAnswer,
            SendPacket, Requeue, Served, SchedulerJoins, socketVars,
            CloseConnection, AddToQueue, StopListening
      <3> QED
        BY <1>1, <1>3, <2>0, <3>1
    <2>2. CASE Schedule
      <3>1. PICK d \in Clients : GetNextRequest(d) /\ cur' = d
        BY <2>2 DEF Schedule
      <3>2. \A e \in Clients \ {d} : InQueue(e)' <=> InQueue(e)
        BY <1>0, <2>0, <3>1, GetNextRequestEffect
      <3>3. UNCHANGED backlog /\ spc' = "recv" /\ cur = NoClient
        BY <1>0, <2>2 DEF Schedule, socketVars, SchedulerInv
      <3>4. cur # c
        BY <3>3, ServerAssumption
      <3>5. CASE d = c
        BY <3>1, <3>3, <3>5 DEF Reached
      <3>6. CASE d # c
        BY <2>0, <2>1, <3>2, <3>3, <3>4, <3>6 DEF Reached
      <3> QED
        BY <3>5, <3>6
    <2>3. CASE HungUp \/ OutOfRange
      <3>1. /\ UNCHANGED <<fifo_queue, rr_queue, backlog>>
            /\ closed' = closed \cup {cur}
        BY <2>3 DEF HungUp, OutOfRange, CloseConnection, queueVars
      <3>2. cur # c /\ (InQueue(c)' <=> InQueue(c))
        BY <1>0, <1>1, <2>0, <3>1, QueuesKept
      <3> QED
        BY <2>0, <2>1, <3>1, <3>2 DEF Reached
    <2>4. CASE BeginAnswer \/ SendPacket
      <3>1. /\ UNCHANGED <<fifo_queue, rr_queue, backlog, cur>>
            /\ spc' = "serve"
        BY <2>4 DEF BeginAnswer, SendPacket, queueVars, socketVars
      <3>2. InQueue(c)' <=> InQueue(c)
        BY <1>0, <2>0, <3>1, QueuesKept
      <3> QED
        BY <2>0, <2>1, <3>1, <3>2 DEF Reached
    <2>5. CASE Requeue
      <3>1. PICK d \in Clients : d = cur
        BY <2>0, <2>5 DEF Requeue
      <3>2. AddToQueue(d) /\ UNCHANGED backlog
        BY <2>5, <3>1 DEF Requeue
      <3>3. ~InQueue(d)
        BY <1>0, <3>1 DEF PlacesInv, OnePlace
      <3>4. /\ \/ closed' = closed /\ InQueue(d)'
               \/ closed' = closed \cup {d} /\ ~InQueue(d)'
            /\ \A e \in Clients \ {d} : InQueue(e)' <=> InQueue(e)
        BY <1>0, <2>0, <3>2, <3>3, AddToQueueEffect
      <3>5. CASE d = c
        BY <1>1, <3>4, <3>5 DEF Reached
      <3>6. CASE d # c
        BY <2>0, <2>1, <3>1, <3>2, <3>4, <3>6 DEF Reached
      <3> QED
        BY <3>5, <3>6
    <2>6. CASE Served
      <3>1. /\ spc = "serve" /\ req >= NumWords
            /\ UNCHANGED <<fifo_queue, rr_queue, backlog>>
        BY <2>6 DEF Served, queueVars, socketVars
      <3>2. InQueue(c)' <=> InQueue(c)
        BY <1>0, <2>0, <3>1, QueuesKept
      <3>3. cur # c
        BY <1>1, <1>2, <2>0, <3>1 DEF EndSentInv, EndSent
      <3> QED
        BY <2>0, <2>1, <3>1, <3>2, <3>3 DEF Reached
    <2>7. CASE SchedulerJoins
      <3>1. /\ spc = "join" /\ UNCHANGED <<fifo_queue, rr_queue>>
            /\ ~(\E j \in DOMAIN backlog : backlog[j] = c)
        BY <1>1, <2>7 DEF SchedulerJoins, queueVars, StopListening
      <3>2. InQueue(c)' <=> InQueue(c)
        BY <1>0, <2>0, <3>1, QueuesKept
      <3> QED
        BY <2>0, <2>1, <3>1, <3>2 DEF Reached
    <2> QED
      BY <1>6, <2>2, <2>3, <2>4, <2>5, <2>6, <2>7 DEF Scheduler, SchedulerStep
  <1>7. ASSUME NEW d \in Clients, Client(d)
        PROVE  Reached(c)'
    <2>1. /\ UNCHANGED <<policy, fifo_queue, rr_queue, hpc, mpc, cur, spc>>
          /\ closed' = closed
      BY <1>7 DEF Client, serverVars, queueVars, localVars, ClientStep,
         Connect, ConnectRefused, ServerClosed, LastPacket, EndOfFile,
         CountWords, WriteTable, Receive
    <2>2. InQueue(c)' <=> InQueue(c)
      BY <1>0, <2>1, QueuesKept
    <2>3. CASE Connect(d)
      <3>1. /\ phase' = [phase EXCEPT ![d] = "recv"]
            /\ DOMAIN backlog = 1 .. Len(backlog) /\ Len(backlog) \in Nat
            /\ DOMAIN backlog' = 1 .. Len(backlog) + 1
            /\ \A j \in 1 .. Len(backlog) : backlog'[j] = backlog[j]
            /\ backlog'[Len(backlog) + 1] = d
        BY <1>0, <2>3, AppendParts, LenProperties DEF Connect
      <3>2. CASE d = c
        <4>1. Len(backlog) + 1 \in DOMAIN backlog'
          BY <3>1
        <4> QED
          BY <3>1, <3>2, <4>1 DEF Reached
      <3>3. CASE d # c
        <4>1. Reached(c)
          BY <1>0, <1>1, <1>3, <2>1, <3>1, <3>3 DEF Running
        <4>2. ASSUME NEW j \in DOMAIN backlog
              PROVE  j \in DOMAIN backlog' /\ backlog'[j] = backlog[j]
          BY <3>1
        <4> QED
          BY <2>1, <2>2, <4>1, <4>2 DEF Reached
      <3> QED
        BY <3>2, <3>3
    <2>4. CASE ~Connect(d)
      <3>1. backlog' = backlog /\ phase[c] = "recv"
        BY <1>0, <1>1, <1>7, <2>4
        DEF Client, ClientStep, ConnectRefused, ServerClosed, LastPacket,
            EndOfFile, CountWords, WriteTable, Receive, Leave, Finish
      <3>2. Reached(c)
        BY <1>1, <1>3, <2>1, <3>1 DEF Running
      <3> QED
        BY <2>1, <2>2, <3>1, <3>2 DEF Reached
    <2> QED
      BY <2>3, <2>4
  <1> QED
    BY <1>4, <1>5, <1>6, <1>7 DEF Next

LEMMA ForgetFrame ==
    ASSUME EndSentInv, ForgetInv, UNCHANGED vars
    PROVE  EndSentInv' /\ ForgetInv'
  BY DEF vars, wireVars, socketVars, serverVars, queueVars, localVars,
     clientVars, EndSentInv, EndSent, ForgetInv, Wants, Reached, Running,
     InQueue

LEMMA ForgetCorrect ==
    ASSUME Cuts = FALSE
    PROVE  Spec => [](EndSentInv /\ ForgetInv)
  <1>1. Init => EndSentInv /\ ForgetInv
    <2> SUFFICES ASSUME Init PROVE EndSentInv /\ ForgetInv
      OBVIOUS
    <2>1. cur = NoClient /\ \A c \in Clients : phase[c] = "new"
      BY DEF Init, ServerInit, ClientInit
    <2> QED
      BY <2>1, ServerAssumption DEF EndSentInv, EndSent, ForgetInv, Wants
  <1>2. TypeInv /\ PlaceInv /\ EndSentInv /\ ForgetInv /\ [Next]_vars
           => EndSentInv' /\ ForgetInv'
    <2> SUFFICES ASSUME TypeInv, PlaceInv, EndSentInv, ForgetInv, Next
                 PROVE  EndSentInv' /\ ForgetInv'
      BY ForgetFrame
    <2>1. EndSentInv'
      BY EndSentStep DEF EndSentInv
    <2>2. ForgetInv'
      BY ForgetStep DEF ForgetInv
    <2> QED
      BY <2>1, <2>2
  <1> QED
    BY <1>1, <1>2, TypeInvariant, PlaceCorrect, PTL DEF Spec

(* However accept loop, handlers and scheduler interleave, a client that   *)
(* waits for words is in the backlog, with its handler, in the queue or    *)
(* with the scheduler until it was sent EOF or its connection is closed.   *)
THEOREM NotForgottenCorrect == Spec => []NotForgotten
  <1>1. CASE Cuts = FALSE
    <2>1. ForgetInv => NotForgotten
      BY DEF ForgetInv, NotForgotten, Wants, Reached
    <2> QED
      BY <1>1, <2>1, ForgetCorrect, PTL
  <1>2. CASE Cuts = TRUE
    <2>1. NotForgotten
      BY <1>2 DEF NotForgotten
    <2> QED
      BY <2>1, PTL
  <1> QED
    BY <1>1, <1>2, CutsAssumption

-----------------------------------------------------------------------------
(* A client thread that ended closed its socket, the vector has handlers   *)
(* of accepted connections, and the process that ended has no connection.  *)
EndsInv ==
    /\ \A c \in Clients : Ended(c) => c \in hungup
    /\ \A c \in threads : hpc[c] # "none"
    /\ ~Running => closed = Clients

LEMMA EndsStep ==
    ASSUME TypeOK, EndsInv, [Next]_vars
    PROVE  EndsInv'
  <1>0. /\ phase \in [Clients -> {"new", "recv", "write", "done", "killed"}]
        /\ hpc \in [Clients -> {"none", "add", "end"}]
        /\ closed \in SUBSET Clients /\ threads \in SUBSET Clients
    BY DEF TypeOK, SocketsTypeOK, FriendlyServerTypeOK, FriendlyClientTypeOK
  <1> USE DEF EndsInv, Ended, Running
  <1>1. CASE Main \/ WokenUp
    <2>1. UNCHANGED <<phase, hungup>>
      BY <1>1
      DEF Main, WokenUp, MainStep, AcceptMore, StopAccepting, Accept, PushBack,
          JoinHandlers, Return, AcceptFails, clientVars, socketVars
    <2>2. CASE AcceptMore \/ StopAccepting \/ AcceptFails \/ JoinHandlers
               \/ Return
      BY <1>0, <2>1, <2>2
      DEF AcceptMore, StopAccepting, AcceptFails, JoinHandlers, Return
    <2>3. CASE Accept
      <3>1. /\ threads' = threads /\ mpc = "accept" /\ mpc' = "push"
            /\ \A c \in Clients : hpc'[c] = hpc[c] \/ hpc'[c] = "add"
        BY <1>0, <2>3 DEF Accept
      <3> QED
        BY <1>0, <2>1, <3>1
    <2>4. CASE PushBack
      BY <1>0, <2>1, <2>4 DEF PushBack
    <2> QED
      BY <1>1, <2>2, <2>3, <2>4 DEF Main, WokenUp, MainStep
  <1>2. ASSUME NEW d \in Clients, Handler(d)
        PROVE  EndsInv'
    <2>1. /\ UNCHANGED <<phase, hungup, threads, mpc>> /\ mpc # "exit"
          /\ \A c \in Clients : hpc'[c] = hpc[c] \/ hpc'[c] = "end"
      BY <1>0, <1>2 DEF Handler, HandleClient, clientVars
    <2> QED
      BY <1>0, <2>1
  <1>3. CASE Scheduler
    <2>1. /\ UNCHANGED <<phase, hungup, threads, mpc, hpc>> /\ mpc # "exit"
      BY <1>3
      DEF Scheduler, SchedulerStep, Schedule, HungUp, OutOfRange, BeginAnswer,
          TakeRequest, SendPacket, Requeue, Served, SchedulerJoins, socketVars,
          clientVars
    <2> QED
      BY <2>1
  <1>4. ASSUME NEW d \in Clients, Client(d)
        PROVE  EndsInv'
    <2>1. /\ UNCHANGED <<threads, mpc, hpc, closed>>
      BY <1>4 DEF Client, serverVars, ClientStep, Connect, ConnectRefused,
         ServerClosed, LastPacket, EndOfFile, CountWords, WriteTable, Receive
    <2>2. ASSUME NEW c \in Clients, Ended(c)'
          PROVE  c \in hungup'
      <3>1. CASE ConnectRefused(d)
        BY <3>1 DEF ConnectRefused
      <3>2. CASE ~ConnectRefused(d)
        BY <1>0, <1>4, <2>2, <3>2
        DEF Client, ClientStep, Connect, ServerClosed, LastPacket, EndOfFile,
            CountWords, WriteTable, Leave, Finish
      <3> QED
        BY <3>1, <3>2
    <2> QED
      BY <2>1, <2>2
  <1>5. CASE UNCHANGED vars
    BY <1>5 DEF vars, socketVars, serverVars, clientVars
  <1> QED
    BY <1>1, <1>2, <1>3, <1>4, <1>5 DEF Next

LEMMA EndsCorrect == Spec => []EndsInv
  <1>1. Init => EndsInv
    BY DEF Init, ServerInit, ClientInit, EndsInv, Ended, Running
  <1>2. TypeInv /\ EndsInv /\ [Next]_vars => EndsInv'
    BY EndsStep DEF TypeInv
  <1> QED
    BY <1>1, <1>2, TypeInvariant, PTL DEF Spec

(* A client that has words to wait for and none to read has asked.         *)
LEMMA WaitsForAnswer ==
    ASSUME TypeOK, StepInv, StreamsEnd, Cuts = FALSE, NEW c \in Clients,
           phase[c] = "recv", Reads(toClient[c]) = {}
    PROVE  toClient[c] = <<>> /\ (~Serves(c) => toServer[c] # <<>>)
  <1>1. InStep(c) /\ EndsInNewline(toClient[c])
    BY DEF StepInv, StreamsEnd
  <1>2. toClient[c] = <<>>
    <2>1. toClient[c] \in Seq(Text \cup {NL}) /\ WholeReads(toClient[c]) = {}
      BY StepTypes DEF Reads
    <2> QED
      BY <1>1, <2>1, EndedReadable
  <1>3. ASSUME ~Serves(c), toServer[c] = <<>>
        PROVE  FALSE
    <2>1. StepAnswered(c)
      BY <1>1, <1>3 DEF InStep, StepAsked, Requested
    <2>2. Sent(c) = BatchEnd(offset[c]) /\ BatchEnd(offset[c]) \in Nat
      BY <1>3, StepTypes DEF Sent
    <2>3. words_received[c] \in Nat
      BY StepTypes
    <2>4. /\ words_received[c] <= BatchEnd(offset[c])
          /\ words_received[c] < BatchEnd(offset[c])
          /\ Pending(<<>>, words_received[c], BatchEnd(offset[c]))
      BY <1>2, <2>1, <2>2 DEF StepAnswered, Answered
    <2> HIDE DEF BatchEnd
    <2>5. words_received[c] = BatchEnd(offset[c])
      BY <2>2, <2>3, <2>4, PendingEmpty, EmptySeq
    <2> QED
      BY <2>2, <2>4, <2>5
  <1> QED
    BY <1>2, <1>3

WaitsInv ==
    \A c \in Clients :
        phase[c] = "recv" /\ Reads(toClient[c]) = {} =>
            /\ toClient[c] = <<>>
            /\ Serves(c) \/ toServer[c] # <<>> \/ c \in closed

(* So it is with an empty file.                                            *)
LEMMA EmptyWaits ==
    ASSUME EmptyInv, Cuts = FALSE
    PROVE  WaitsInv
  <1> SUFFICES ASSUME NEW c \in Clients,
                      phase[c] = "recv", Reads(toClient[c]) = {}
               PROVE  /\ toClient[c] = <<>>
                      /\ Serves(c) \/ toServer[c] # <<>> \/ c \in closed
    BY DEF WaitsInv
  <1>1. EmptyClient(c)
    BY DEF EmptyInv
  <1>2. toClient[c] = <<>>
    <2>1. ASSUME toClient[c] = <<DOLLAR, NL>>
          PROVE  FALSE
      <3>1. 2 \in DOMAIN toClient[c] /\ EndsSend(toClient[c], 2)
        BY <2>1 DEF EndsSend
      <3>2. WholeReads(toClient[c]) # {}
        BY <3>1 DEF WholeReads
      <3> QED
        BY <3>2 DEF Reads
    <2> QED
      BY <1>1, <2>1 DEF EmptyClient
  <1> QED
    BY <1>1, <1>2 DEF EmptyClient

LEMMA WaitsCorrect ==
    ASSUME Cuts = FALSE
    PROVE  Spec => []WaitsInv
  <1>1. CASE NumWords = 0
    BY <1>1, EmptyWaits, EmptyCorrect, PTL
  <1>2. CASE NumWords # 0
    <2>1. TypeInv /\ StepInv /\ StreamsEnd => WaitsInv
      BY WaitsForAnswer DEF WaitsInv, TypeInv
    <2> QED
      BY <1>2, <2>1, TypeInvariant, StepCorrect, StreamsEndCorrect, PTL
  <1> QED
    BY <1>1, <1>2

(* The scheduler, which waits for one connection at a time and with no     *)
(* timeout, never waits for a client that waits as well: neither for one   *)
(* that it has to answer first nor for one that has ended.                 *)
LEMMA SomeoneAnswers ==
    ASSUME TypeInv, PlaceInv, WaitsInv, EndsInv, Cuts = FALSE
    PROVE  RecvReturns
  <1> SUFFICES ASSUME Running, spc = "recv", SchedulerIdle, ClientIdle(cur)
               PROVE  FALSE
    BY DEF RecvReturns
  <1>1. /\ cur \in Clients /\ ~Serves(cur)
        /\ toServer[cur] = <<>> /\ cur \notin hungup /\ cur \notin closed
    BY DEF TypeInv, TypeOK, FriendlyServerTypeOK, SchedulerInv, SchedulerIdle,
           Serves, PlaceInv, ClosedInv
  <1>2. ~Ended(cur)
    BY <1>1 DEF EndsInv
  <1>3. phase[cur] = "recv" /\ Reads(toClient[cur]) = {}
    BY <1>2 DEF ClientIdle
  <1> QED
    BY <1>1, <1>3 DEF WaitsInv

LEMMA SomeoneGoesOn ==
    ASSUME TypeInv, PlaceInv, WaitsInv, EndsInv, ForgetInv, Cuts = FALSE
    PROVE  NeverAllWait
  <1> SUFFICES ASSUME MainIdle, SchedulerIdle,
                      \A d \in Clients : HandlerIdle(d) /\ ClientIdle(d),
                      NEW c \in Clients, ~Ended(c)
               PROVE  FALSE
    BY DEF NeverAllWait
  <1>1. phase[c] = "recv" /\ Reads(toClient[c]) = {}
    BY DEF ClientIdle
  <1>2. toClient[c] = <<>> /\ ~HasEnd(toClient[c])
    <2>1. toClient[c] = <<>>
      BY <1>1 DEF WaitsInv
    <2> QED
      BY <2>1 DEF HasEnd
  <1>3. c \notin closed
    BY <1>2 DEF ClientIdle
  <1>4. Running
    BY <1>3 DEF EndsInv
  <1>5. Reached(c)
    BY <1>1, <1>2, <1>3, <1>4 DEF ForgetInv, Wants
  <1>6. HandlersEnded
    <2>1. ASSUME NEW d \in threads
          PROVE  hpc[d] = "end"
      <3>1. d \in Clients /\ hpc[d] \in {"none", "add", "end"}
        BY DEF TypeInv, TypeOK, FriendlyServerTypeOK
      <3> QED
        BY <1>4, <3>1 DEF EndsInv, HandlerIdle
    <2> QED
      BY <2>1 DEF HandlersEnded
  <1>7. backlog = <<>>
    BY <1>4, <1>6 DEF MainIdle, Running
  <1>8. spc # "recv"
    <2>1. RecvReturns
      BY SomeoneAnswers
    <2>2. spc = "recv" => cur \in Clients
      BY DEF TypeInv, TypeOK, FriendlyServerTypeOK, SchedulerInv
    <2> QED
      BY <1>4, <2>1, <2>2 DEF RecvReturns
  <1>9. spc = "next" /\ cur # c /\ ~InQueue(c)
    <2>1. spc = "next" /\ ~InQueue(c)
      BY <1>4, <1>6, <1>8 DEF SchedulerIdle
    <2>2. cur = NoClient
      BY <2>1 DEF TypeInv, SchedulerInv
    <2> QED
      BY <2>1, <2>2, ServerAssumption
  <1>10. hpc[c] # "add" /\ DOMAIN backlog = {}
    BY <1>4, <1>7 DEF HandlerIdle
  <1> QED
    BY <1>5, <1>9, <1>10 DEF Reached

THEOREM RecvReturnsCorrect == Spec => []RecvReturns
  <1>1. CASE Cuts = FALSE
    <2>1. TypeInv /\ PlaceInv /\ WaitsInv /\ EndsInv => RecvReturns
      BY <1>1, SomeoneAnswers
    <2> QED
      BY <1>1, <2>1, TypeInvariant, PlaceCorrect, WaitsCorrect, EndsCorrect,
         PTL
  <1>2. CASE Cuts = TRUE
    <2>1. RecvReturns
      BY <1>2 DEF RecvReturns
    <2> QED
      BY <2>1, PTL
  <1> QED
    BY <1>1, <1>2, CutsAssumption

(* Some thread always goes on until every client thread has ended: no      *)
(* interleaving of accept loop, handlers, scheduler and clients leaves all *)
(* of them waiting.                                                        *)
THEOREM NeverAllWaitCorrect == Spec => []NeverAllWait
  <1>1. CASE Cuts = FALSE
    <2>1. TypeInv /\ PlaceInv /\ WaitsInv /\ EndsInv /\ ForgetInv
             => NeverAllWait
      BY <1>1, SomeoneGoesOn
    <2> QED
      BY <1>1, <2>1, TypeInvariant, PlaceCorrect, WaitsCorrect, EndsCorrect,
         ForgetCorrect, PTL
  <1>2. CASE Cuts = TRUE
    <2>1. NeverAllWait
      BY <1>2 DEF NeverAllWait
    <2> QED
      BY <2>1, PTL
  <1> QED
    BY <1>1, <1>2, CutsAssumption

-----------------------------------------------------------------------------
(* No step is in vain.                                                     *)

(* Nobody reads or sends words behind the file, a client has asked for no  *)
(* more than one window, and the batch the scheduler sends is the window   *)
(* that was asked for last, or the one before it.                          *)
Bounded(c) ==
    /\ offset[c] < NumWords /\ words_received[c] <= NumWords
    /\ toServer[c] \in {<<>>, <<offset[c]>>}
    /\ phase[c] = "new" => toServer[c] = <<>>
    /\ Serves(c) =>
          /\ req <= z
          /\ z = IF toServer[c] = <<>> THEN BatchEnd(offset[c]) ELSE offset[c]

WorkInv == \A c \in Clients : Bounded(c)

(* Of these, what is true of a client that has not begun also with an      *)
(* empty file.                                                             *)
Fresh(c) == phase[c] = "new" => toServer[c] = <<>> /\ offset[c] <= NumWords

FreshInv == \A c \in Clients : Fresh(c)

LEMMA FreshCases ==
    ASSUME TypeOK, WorkInv \/ (NumWords = 0 /\ EmptyInv)
    PROVE  FreshInv
  <1> SUFFICES ASSUME NEW c \in Clients
               PROVE  Fresh(c)
    BY DEF FreshInv
  <1>1. offset[c] \in Nat /\ NumWords \in Nat
    BY StepTypes, ConfigAssumption
  <1>2. Bounded(c) \/ (NumWords = 0 /\ EmptyClient(c))
    BY DEF WorkInv, EmptyInv
  <1> QED
    BY <1>1, <1>2 DEF Bounded, EmptyClient, Fresh

LEMMA BoundedFrame ==
    ASSUME NEW c, Bounded(c),
           toServer'[c] = toServer[c], offset'[c] = offset[c],
           words_received'[c] = words_received[c],
           phase'[c] = phase[c] \/ phase'[c] # "new",
           ~Serves(c)' \/ (Serves(c) /\ req' = req /\ z' = z)
    PROVE  Bounded(c)'
  BY DEF Bounded

(* What the main thread and the handlers leave alone.                      *)
LEMMA OthersLeave ==
    ASSUME Main \/ WokenUp \/ (\E c \in Clients : Handler(c))
    PROVE  /\ toServer' = toServer /\ offset' = offset /\ phase' = phase
           /\ words_received' = words_received
           /\ spc' = spc /\ cur' = cur /\ req' = req /\ z' = z
  BY DEF Main, MainStep, AcceptMore, StopAccepting, Accept, PushBack,
         JoinHandlers, Return, WokenUp, AcceptFails, Handler, HandleClient,
         wireVars, localVars, clientVars

(* Taking a request leaves none, and it is one for words of the file.      *)
LEMMA TakesAsked ==
    ASSUME TypeInv, WorkInv, TakeRequest
    PROVE  /\ cur \in Clients /\ spc = "recv" /\ ~Serves(cur)
           /\ Head(toServer[cur]) = offset[cur] /\ offset[cur] < NumWords
           /\ toServer[cur] = <<offset[cur]>> /\ toServer'[cur] = <<>>
           /\ \A d \in Clients \ {cur} : toServer'[d] = toServer[d]
  <1>1. cur \in Clients /\ spc = "recv" /\ ~Serves(cur)
    BY DEF TakeRequest, TypeInv, SchedulerInv, TypeOK, FriendlyServerTypeOK,
           Serves
  <1>2. PICK m \in 1 .. Len(toServer[cur]) :
           toServer' = [toServer EXCEPT ![cur] = Rest(@, m)]
    BY DEF TakeRequest
  <1>3. /\ toServer'[cur] = Rest(toServer[cur], m)
        /\ \A d \in Clients \ {cur} : toServer'[d] = toServer[d]
    BY <1>1, <1>2 DEF TypeInv, TypeOK, SocketsTypeOK
  <1>4. toServer[cur] = <<offset[cur]>> /\ offset[cur] < NumWords
    <2>1. toServer[cur] \in {<<>>, <<offset[cur]>>} /\ offset[cur] < NumWords
      BY <1>1 DEF WorkInv, Bounded
    <2>2. toServer[cur] # <<>>
      BY <1>2
    <2> QED
      BY <2>1, <2>2
  <1>5. m = 1 /\ Len(toServer[cur]) = 1
    BY <1>4
  <1>6. toServer'[cur] = <<>>
    BY <1>3, <1>4, <1>5 DEF Rest
  <1> QED
    BY <1>1, <1>3, <1>4, <1>6

(* What the scheduler's steps do to what Work counts.                      *)
LEMMA SchedulerLeaves ==
    ASSUME Scheduler
    PROVE  /\ offset' = offset /\ phase' = phase
           /\ words_received' = words_received
  BY DEF Scheduler, clientVars

LEMMA SchedulerBounded ==
    ASSUME TypeInv, WorkInv, Scheduler
    PROVE  WorkInv'
  <1> SUFFICES ASSUME NEW c \in Clients
               PROVE  Bounded(c)'
    BY DEF WorkInv
  <1>0. /\ Bounded(c) /\ offset'[c] = offset[c] /\ phase'[c] = phase[c]
        /\ words_received'[c] = words_received[c]
        /\ TypeOK
    BY SchedulerLeaves DEF WorkInv, TypeInv
  <1>a. /\ offset[c] \in Nat /\ NumWords \in Nat /\ req \in Nat /\ z \in Nat
        /\ z <= NumWords /\ BatchEnd(offset[c]) \in Nat
    BY <1>0, StepTypes
  <1>1. CASE Schedule \/ HungUp \/ SchedulerJoins \/ Requeue \/ Served
    <2>1. toServer' = toServer /\ ~Serves(c)'
      BY <1>1 DEF Schedule, HungUp, SchedulerJoins, Requeue, Served, Ready,
                  wireVars, Serves
    <2> QED
      BY <1>0, <2>1, BoundedFrame
  <1>2. ASSUME OutOfRange
        PROVE  FALSE
    <2>1. /\ cur \in Clients /\ Head(toServer[cur]) = offset[cur]
          /\ offset[cur] < NumWords /\ Head(toServer[cur]) >= NumWords
      BY <1>2, TakesAsked DEF OutOfRange
    <2> QED
      BY <1>0, <2>1, StepTypes
  <1>3. CASE BeginAnswer
    <2>1. /\ toServer'[cur] = <<>> /\ Head(toServer[cur]) = offset[cur]
          /\ offset[cur] < NumWords /\ cur \in Clients
          /\ \A d \in Clients \ {cur} : toServer'[d] = toServer[d]
      BY <1>3, TakesAsked DEF BeginAnswer
    <2>2. req' = offset[cur] /\ z' = BatchEnd(offset[cur]) /\ cur' = cur
      BY <1>3, <2>1 DEF BeginAnswer
    <2>3. CASE cur = c
      <3>1. offset[c] <= BatchEnd(offset[c])
        BY <1>a, <2>1, <2>3, ConfigAssumption DEF BatchEnd
      <3> HIDE DEF BatchEnd
      <3> QED
        BY <1>0, <2>1, <2>2, <2>3, <3>1 DEF Bounded
    <2>4. CASE cur # c
      BY <1>0, <2>1, <2>2, <2>4, BoundedFrame DEF Serves
    <2> QED
      BY <2>3, <2>4
  <1>4. CASE SendPacket
    <2>1. PICK b \in Nat : b <= z /\ req' = b
      BY <1>0, <1>4, SendsUpTo
    <2>2. /\ toServer' = toServer /\ spc' = spc /\ cur' = cur /\ z' = z
      BY <1>4 DEF SendPacket
    <2>3. Serves(c)' => Serves(c)
      BY <2>2 DEF Serves
    <2> HIDE DEF BatchEnd
    <2> QED
      BY <1>0, <2>1, <2>2, <2>3 DEF Bounded
  <1> QED
    BY <1>1, <1>2, <1>3, <1>4 DEF Scheduler, SchedulerStep

(* The two ways to count: all of the window and the next request, or not   *)
(* all of it.                                                              *)
AsksNext(c) ==
    /\ offset'[c] = offset[c] + k
    /\ toServer[c] = <<>> /\ toServer'[c] = <<offset'[c]>>
    /\ words_received[c] < words_received'[c]
    /\ words_received'[c] = offset'[c]
    /\ offset'[c] < NumWords /\ BatchEnd(offset[c]) = offset'[c]
    /\ Serves(c) => req = offset'[c] /\ z = offset'[c]

ReadsOn(c) ==
    /\ offset'[c] = offset[c] /\ toServer'[c] = toServer[c]
    /\ words_received[c] < words_received'[c]
    /\ words_received'[c] <= NumWords

LEMMA CountsOrAsks ==
    ASSUME TypeOK, Cuts = FALSE, NEW c \in Clients, InStep(c), CountWords(c)
    PROVE  /\ phase[c] = "recv" /\ phase' = phase
           /\ words_received'[c] \in Nat
           /\ AsksNext(c) \/ ReadsOn(c)
  <1>0. /\ offset[c] \in Nat /\ words_received[c] \in Nat
        /\ BatchEnd(offset[c]) \in Nat /\ Sent(c) \in Nat
        /\ NumWords \in Nat /\ k \in Nat /\ z \in Nat /\ req \in Nat
    BY StepTypes, ConfigAssumption
  <1>1. /\ phase[c] = "recv" /\ phase' = phase /\ StepAnswered(c)
        /\ words_received'[c] \in Nat
    BY StepCounts
  <1>2. /\ toServer[c] = <<>> /\ words_received[c] < BatchEnd(offset[c])
        /\ words_received[c] <= Sent(c) /\ Sent(c) <= BatchEnd(offset[c])
        /\ Serves(c) => z = BatchEnd(offset[c]) /\ req = Sent(c)
    BY <1>1 DEF StepAnswered, Answered, Sent
  <1>3. /\ BatchEnd(offset[c]) <= offset[c] + k
        /\ BatchEnd(offset[c]) <= NumWords
        /\ BatchEnd(offset[c]) # NumWords => BatchEnd(offset[c]) = offset[c] + k
    BY <1>0 DEF BatchEnd
  <1> HIDE DEF BatchEnd
  <1>4. ASSUME offset' = [offset EXCEPT ![c] = @ + k],
               words_received'[c] = offset'[c],
               Requested(word_count'[c], toClient'[c], toServer'[c],
                         offset'[c]),
               Sent(c) = BatchEnd(offset[c]), Sent(c) < NumWords
        PROVE  AsksNext(c)
    <2>1. offset'[c] = offset[c] + k
      BY <1>4 DEF TypeOK, FriendlyClientTypeOK
    <2>2. BatchEnd(offset[c]) = offset'[c]
      BY <1>0, <1>3, <1>4, <2>1
    <2>3. toServer'[c] = <<offset'[c]>>
      BY <1>4 DEF Requested
    <2> QED
      BY <1>0, <1>2, <1>4, <2>1, <2>2, <2>3 DEF AsksNext
  <1>5. ASSUME offset' = offset, toServer'[c] = toServer[c],
               words_received[c] < words_received'[c],
               Answered(word_count'[c], toClient'[c], toServer'[c],
                        offset'[c], words_received'[c], Sent(c))
        PROVE  ReadsOn(c)
    <2>1. words_received'[c] <= Sent(c)
      BY <1>5 DEF Answered
    <2>2. words_received'[c] <= NumWords
      BY <1>0, <1>1, <1>2, <1>3, <2>1
    <2> QED
      BY <1>5, <2>2 DEF ReadsOn
  <1> QED
    BY <1>1, <1>4, <1>5, StepCounts

(* What a client's step leaves alone of the server's and of the others.    *)
LEMMA ClientLeaves ==
    ASSUME TypeOK, NEW c \in Clients, Client(c)
    PROVE  /\ spc' = spc /\ cur' = cur /\ req' = req /\ z' = z /\ hpc' = hpc
           /\ mpc' = mpc
           /\ fifo_queue' = fifo_queue /\ rr_queue' = rr_queue
           /\ \A d \in Clients : Serves(d)' <=> Serves(d)
           /\ \A d \in Clients \ {c} :
                 /\ toServer'[d] = toServer[d] /\ offset'[d] = offset[d]
                 /\ words_received'[d] = words_received[d]
                 /\ phase'[d] = phase[d]
                       \/ (ConnectRefused(c) /\ phase'[d] = "killed")
  <1>1. /\ spc' = spc /\ cur' = cur /\ req' = req /\ z' = z /\ hpc' = hpc
        /\ mpc' = mpc /\ fifo_queue' = fifo_queue /\ rr_queue' = rr_queue
        /\ ClientStep(c)
    BY DEF Client, serverVars, queueVars, localVars
  <1>2. \A d \in Clients \ {c} :
           toServer'[d] = toServer[d] /\ offset'[d] = offset[d]
    BY <1>1 DEF TypeOK, SocketsTypeOK, FriendlyClientTypeOK, ClientStep,
                Connect, ConnectRefused, ServerClosed, LastPacket, EndOfFile,
                CountWords, WriteTable, MaybeAsk, wireVars
  <1>3. \A d \in Clients \ {c} : words_received'[d] = words_received[d]
    BY <1>1 DEF TypeOK, FriendlyClientTypeOK, ClientStep,
                Connect, ConnectRefused, ServerClosed, LastPacket, EndOfFile,
                CountWords, WriteTable, Count
  <1>4. ASSUME NEW d \in Clients \ {c}
        PROVE  \/ phase'[d] = phase[d]
               \/ ConnectRefused(c) /\ phase'[d] = "killed"
    <2>1. CASE ConnectRefused(c)
      BY <2>1 DEF ConnectRefused, TypeOK, FriendlyClientTypeOK
    <2>2. CASE ~ConnectRefused(c)
      BY <1>1, <1>4, <2>2
      DEF TypeOK, FriendlyClientTypeOK, ClientStep, Connect, ServerClosed,
          LastPacket, EndOfFile, CountWords, WriteTable, Leave, Finish
    <2> QED
      BY <2>1, <2>2
  <1> QED
    BY <1>1, <1>2, <1>3, <1>4 DEF Serves

LEMMA ClientBounded ==
    ASSUME TypeInv, PlaceInv, Cuts = FALSE, NEW c \in Clients, InStep(c),
           Bounded(c), Client(c)
    PROVE  Bounded(c)'
  <1>a. /\ req' = req /\ z' = z /\ (Serves(c)' <=> Serves(c))
        /\ ClientStep(c) /\ TypeOK
    BY ClientLeaves DEF Client, TypeInv
  <1>b. /\ toServer \in [Clients -> Seq(Nat)]
        /\ offset \in [Clients -> Nat] /\ words_received \in [Clients -> Nat]
        /\ phase \in [Clients -> {"new", "recv", "write", "done", "killed"}]
    BY <1>a DEF TypeOK, SocketsTypeOK, FriendlyClientTypeOK
  <1>1. CASE Connect(c)
    <2>1. /\ phase[c] = "new" /\ phase'[c] = "recv"
          /\ toServer'[c] = Append(toServer[c], offset[c])
          /\ offset'[c] = offset[c] /\ words_received'[c] = words_received[c]
      BY <1>1, <1>b DEF Connect
    <2>0. toServer[c] = <<>>
      BY <2>1 DEF Bounded
    <2>2. toServer'[c] = <<offset[c]>>
      BY <2>0, <2>1
    <2>3. ~Serves(c)
      BY <2>1, HeldHasConnected DEF Serves
    <2> QED
      BY <1>a, <2>1, <2>2, <2>3 DEF Bounded
  <1>2. CASE ConnectRefused(c) \/ ServerClosed(c) \/ WriteTable(c)
    <2>1. /\ toServer' = toServer /\ offset' = offset /\ phase'[c] # "new"
          /\ words_received' = words_received
      BY <1>2, <1>b DEF ConnectRefused, ServerClosed, WriteTable, Leave,
                        Finish, wireVars
    <2> QED
      BY <1>a, <2>1, BoundedFrame
  <1>3. ASSUME LastPacket(c)
        PROVE  FALSE
    BY <1>a, <1>3, StepReads DEF LastPacket
  <1>4. CASE EndOfFile(c)
    <2>1. /\ phase'[c] = "write" /\ offset' = offset
          /\ words_received'[c] = NumWords
      BY <1>a, <1>4, StepEnd
    <2>2. toServer' = toServer
      BY <1>4 DEF EndOfFile
    <2>3. NumWords \in Nat
      BY ConfigAssumption
    <2> HIDE DEF BatchEnd
    <2> QED
      BY <1>a, <2>1, <2>2, <2>3 DEF Bounded
  <1>5. CASE CountWords(c)
    <2>1. phase'[c] # "new" /\ (AsksNext(c) \/ ReadsOn(c))
      BY <1>a, <1>5, CountsOrAsks
    <2>2. CASE AsksNext(c)
      <3>1. toServer'[c] = <<offset'[c]>> /\ toServer'[c] # <<>>
        BY <2>2 DEF AsksNext
      <3>2. offset'[c] < NumWords /\ words_received'[c] <= NumWords
        <4>1. NumWords \in Nat /\ k \in Nat /\ offset[c] \in Nat
          BY <1>a, StepTypes, ConfigAssumption
        <4>2. /\ offset'[c] = offset[c] + k /\ offset'[c] < NumWords
              /\ words_received'[c] = offset'[c]
          BY <2>2 DEF AsksNext
        <4> QED
          BY <4>1, <4>2
      <3>3. Serves(c) => req <= z /\ z = offset'[c]
        <4>1. z \in Nat /\ req \in Nat
          BY <1>a, StepTypes
        <4> QED
          BY <2>2, <4>1 DEF AsksNext
      <3> HIDE DEF BatchEnd
      <3> QED
        BY <1>a, <2>1, <3>1, <3>2, <3>3 DEF Bounded
    <2>3. CASE ReadsOn(c)
      <3> HIDE DEF BatchEnd
      <3> QED
        BY <1>a, <2>1, <2>3 DEF ReadsOn, Bounded
    <2> QED
      BY <2>1, <2>2, <2>3
  <1> QED
    BY <1>a, <1>1, <1>2, <1>3, <1>4, <1>5 DEF ClientStep

LEMMA WorkStep ==
    ASSUME TypeInv, PlaceInv, StepInv, WorkInv, Cuts = FALSE, [Next]_vars
    PROVE  WorkInv'
  <1>1. CASE Main \/ WokenUp \/ (\E c \in Clients : Handler(c))
    BY <1>1, OthersLeave, BoundedFrame DEF WorkInv, Serves
  <1>2. ASSUME NEW c \in Clients, Client(c)
        PROVE  WorkInv'
    <2>1. ASSUME NEW d \in Clients
          PROVE  Bounded(d)'
      <3>1. CASE d = c
        BY <1>2, <3>1, ClientBounded DEF StepInv, WorkInv
      <3>2. CASE d # c
        BY <1>2, <3>2, ClientLeaves, BoundedFrame DEF TypeInv, WorkInv
      <3> QED
        BY <3>1, <3>2
    <2> QED
      BY <2>1 DEF WorkInv
  <1>3. CASE UNCHANGED vars
    <2>1. /\ toServer' = toServer /\ offset' = offset /\ phase' = phase
          /\ words_received' = words_received
          /\ spc' = spc /\ cur' = cur /\ req' = req /\ z' = z
      BY <1>3 DEF vars, wireVars, serverVars, localVars, clientVars
    <2> QED
      BY <2>1, BoundedFrame DEF WorkInv, Serves
  <1> QED
    BY <1>1, <1>2, <1>3, SchedulerBounded DEF Next

(* Clients and scheduler stay inside the file.                             *)
THEOREM WorkCorrect ==
    ASSUME NumWords # 0, Cuts = FALSE
    PROVE  Spec => []WorkInv
  <1>1. Init => WorkInv
    <2> SUFFICES ASSUME Init, NEW c \in Clients
                 PROVE  Bounded(c)
      BY DEF WorkInv
    <2>1. /\ offset[c] = 0 /\ words_received[c] = 0 /\ spc = "next"
          /\ toServer[c] = <<>>
      BY DEF Init, ServerInit, ClientInit, SocketsInit, WireInit
    <2> QED
      BY <2>1, ConfigAssumption DEF Bounded, Serves
  <1>2. TypeInv /\ PlaceInv /\ StepInv /\ WorkInv /\ [Next]_vars => WorkInv'
    BY WorkStep
  <1> QED
    BY <1>1, <1>2, TypeInvariant, PlaceCorrect, StepCorrect, PTL DEF Spec

-----------------------------------------------------------------------------
(* Work, as a sum of the numbers it depends on.                            *)

Here(c) == CASE phase[c] = "new" -> 6 [] phase[c] = "recv" -> 2
             [] phase[c] = "write" -> 1 [] OTHER -> 0

Total(s, w, o, l, d, f) ==
    (NumWords - s) + (NumWords - w) + 3 * (NumWords - o) + 3 * l + d + f

LEMMA WorkIs ==
    ASSUME NEW c
    PROVE  /\ Work(c) = Total(SentTo(c), words_received[c], offset[c],
                              Len(toServer[c]), Distance(c), Here(c))
           /\ Work(c)' = Total(SentTo(c)', words_received'[c], offset'[c],
                               Len(toServer'[c]), Distance(c)', Here(c)')
  BY DEF Work, Total, Here

(* The numbers, each of its kind.                                          *)
Numbers(c) ==
    /\ SentTo(c) \in Nat /\ words_received[c] \in Nat /\ offset[c] \in Nat
    /\ Len(toServer[c]) \in Nat /\ Distance(c) \in Nat /\ Here(c) \in Nat
    /\ Work(c) \in Nat

NumbersInv == \A c \in Clients : Numbers(c)

LEMMA TotalIsNat ==
    ASSUME NEW n \in Nat, NEW s \in Nat, NEW w \in Nat, NEW o \in Nat,
           NEW l \in Nat, NEW d \in Nat, NEW f \in Nat,
           s <= n, w <= n, o <= n
    PROVE  (n - s) + (n - w) + 3 * (n - o) + 3 * l + d + f \in Nat
  OBVIOUS

LEMMA NumbersHold ==
    ASSUME TypeOK, NEW c \in Clients,
           offset[c] <= NumWords, words_received[c] <= NumWords,
           Serves(c) => req <= z
    PROVE  Numbers(c) /\ SentTo(c) <= NumWords
  <1>1. /\ offset[c] \in Nat /\ words_received[c] \in Nat /\ NumWords \in Nat
        /\ req \in Nat /\ z \in Nat /\ z <= NumWords
        /\ BatchEnd(offset[c]) \in Nat /\ BatchEnd(offset[c]) <= NumWords
        /\ Len(toServer[c]) \in Nat
    <2>1. /\ offset[c] \in Nat /\ words_received[c] \in Nat
          /\ req \in Nat /\ z \in Nat /\ z <= NumWords
          /\ toServer[c] \in Seq(Nat)
      BY StepTypes
    <2>2. Len(toServer[c]) \in Nat
      BY <2>1, LenProperties
    <2>3. BatchEnd(offset[c]) \in 0 .. NumWords
      BY <2>1, BatchEndRange
    <2> QED
      BY <2>1, <2>2, <2>3, ConfigAssumption
  <1>3. Distance(c) \in Nat /\ Here(c) \in Nat
    BY DEF Distance, Here
  <1> HIDE DEF BatchEnd
  <1>4. SentTo(c) \in Nat /\ SentTo(c) <= NumWords
    BY <1>1 DEF SentTo, Serves
  <1>5. PICK s \in Nat, w \in Nat, o \in Nat, l \in Nat, d \in Nat, f \in Nat :
           /\ s = SentTo(c) /\ w = words_received[c] /\ o = offset[c]
           /\ l = Len(toServer[c]) /\ d = Distance(c) /\ f = Here(c)
    BY <1>1, <1>3, <1>4
  <1>6. Work(c) = (NumWords - s) + (NumWords - w) + 3 * (NumWords - o)
                  + 3 * l + d + f
    BY <1>5, WorkIs DEF Total
  <1>7. s <= NumWords /\ w <= NumWords /\ o <= NumWords
    BY <1>1, <1>4, <1>5
  <1>8. Work(c) \in Nat
    BY <1>1, <1>6, <1>7, TotalIsNat
  <1> QED
    BY <1>1, <1>3, <1>4, <1>8 DEF Numbers

LEMMA WorkNumbers ==
    ASSUME TypeOK, WorkInv
    PROVE  NumbersInv
  <1> SUFFICES ASSUME NEW c \in Clients
               PROVE  Numbers(c)
    BY DEF NumbersInv
  <1>1. /\ offset[c] < NumWords /\ words_received[c] <= NumWords
        /\ Serves(c) => req <= z
    BY DEF WorkInv, Bounded
  <1>2. offset[c] <= NumWords
    BY <1>1, StepTypes, ConfigAssumption
  <1> QED
    BY <1>1, <1>2, NumbersHold

(* With an empty file there is nothing to send.                            *)
Unsent == \A c \in Clients : SentTo(c) = 0

LEMMA EmptyNumbers ==
    ASSUME TypeOK, EmptyInv, NumWords = 0
    PROVE  NumbersInv /\ Unsent
  <1> SUFFICES ASSUME NEW c \in Clients
               PROVE  Numbers(c) /\ SentTo(c) = 0
    BY DEF NumbersInv, Unsent
  <1>1. /\ offset[c] <= NumWords /\ words_received[c] <= NumWords
        /\ ~Serves(c)
    BY DEF EmptyInv, EmptyClient, Serves
  <1>2. Numbers(c) /\ SentTo(c) <= NumWords
    BY <1>1, NumbersHold
  <1> QED
    BY <1>2 DEF Numbers

(* What makes it less.                                                     *)
LEMMA TotalFalls ==
    ASSUME NEW s \in Nat, NEW w \in Nat, NEW o \in Nat,
           NEW l \in Nat, NEW d \in Nat, NEW f \in Nat,
           NEW s2 \in Nat, NEW w2 \in Nat, NEW o2 \in Nat,
           NEW l2 \in Nat, NEW d2 \in Nat, NEW f2 \in Nat,
           s <= s2, w <= w2,
           3 * l2 + d2 + f2 + 3 * o <= 3 * l + d + f + 3 * o2
    PROVE  /\ Total(s2, w2, o2, l2, d2, f2) <= Total(s, w, o, l, d, f)
           /\ \/ s < s2 \/ w < w2
              \/ 3 * l2 + d2 + f2 + 3 * o < 3 * l + d + f + 3 * o2
              => Total(s2, w2, o2, l2, d2, f2) < Total(s, w, o, l, d, f)
  BY ConfigAssumption DEF Total

(* Nothing was given back, and something was done.                         *)
Left(c) == 3 * Len(toServer[c]) + Distance(c) + Here(c)

Gains(c) ==
    /\ SentTo(c) <= SentTo(c)' /\ words_received[c] <= words_received'[c]
    /\ Left(c)' + 3 * offset[c] <= Left(c) + 3 * offset'[c]

GainsMore(c) ==
    /\ Gains(c)
    /\ \/ SentTo(c) < SentTo(c)' \/ words_received[c] < words_received'[c]
       \/ Left(c)' + 3 * offset[c] < Left(c) + 3 * offset'[c]

LEMMA LeftIs ==
    ASSUME NEW c
    PROVE  /\ Left(c) = 3 * Len(toServer[c]) + Distance(c) + Here(c)
           /\ Left(c)' = 3 * Len(toServer'[c]) + Distance(c)' + Here(c)'
  BY DEF Left

LEMMA LeftFalls ==
    ASSUME NEW c, Numbers(c), Numbers(c)',
           SentTo(c) <= SentTo(c)', words_received[c] <= words_received'[c],
           Left(c)' + 3 * offset[c] < Left(c) + 3 * offset'[c]
    PROVE  Gains(c) /\ GainsMore(c)
  <1>1. PICK a \in Int, b \in Int :
           /\ a = Left(c)' + 3 * offset[c] /\ b = Left(c) + 3 * offset'[c]
    <2>1. PICK o \in Nat, l \in Nat, d \in Nat, f \in Nat :
             /\ o = offset[c]
             /\ l = Len(toServer[c]) /\ d = Distance(c) /\ f = Here(c)
      BY DEF Numbers
    <2>2. PICK o2 \in Nat, l2 \in Nat, d2 \in Nat, f2 \in Nat :
             /\ o2 = offset'[c] /\ l2 = Len(toServer'[c])
             /\ d2 = Distance(c)' /\ f2 = Here(c)'
      BY DEF Numbers
    <2>3. Left(c) \in Int
      BY <2>1, LeftIs
    <2>4. Left(c)' \in Int
      BY <2>2, LeftIs
    <2>5. offset[c] \in Int /\ offset'[c] \in Int
      BY <2>1, <2>2
    <2> QED
      BY <2>3, <2>4, <2>5
  <1>2. a < b /\ a <= b
    BY <1>1
  <1> QED
    BY <1>1, <1>2 DEF Gains, GainsMore

LEMMA WorkFalls ==
    ASSUME NEW c, Numbers(c), Numbers(c)', Gains(c)
    PROVE  Work(c)' <= Work(c) /\ (GainsMore(c) => Work(c)' < Work(c))
  <1>1. PICK s \in Nat, w \in Nat, o \in Nat, l \in Nat, d \in Nat, f \in Nat :
           /\ s = SentTo(c) /\ w = words_received[c] /\ o = offset[c]
           /\ l = Len(toServer[c]) /\ d = Distance(c) /\ f = Here(c)
    BY DEF Numbers
  <1>2. PICK s2 \in Nat, w2 \in Nat, o2 \in Nat,
             l2 \in Nat, d2 \in Nat, f2 \in Nat :
           /\ s2 = SentTo(c)' /\ w2 = words_received'[c] /\ o2 = offset'[c]
           /\ l2 = Len(toServer'[c]) /\ d2 = Distance(c)' /\ f2 = Here(c)'
    BY DEF Numbers
  <1>3. /\ Work(c) = Total(s, w, o, l, d, f)
        /\ Work(c)' = Total(s2, w2, o2, l2, d2, f2)
    BY <1>1, <1>2, WorkIs
  <1>0. Left(c) = 3 * l + d + f /\ Left(c)' = 3 * l2 + d2 + f2
    BY <1>1, <1>2, LeftIs
  <1>4. /\ s <= s2 /\ w <= w2
        /\ 3 * l2 + d2 + f2 + 3 * o <= 3 * l + d + f + 3 * o2
    BY <1>0, <1>1, <1>2 DEF Gains
  <1>5. GainsMore(c) =>
           \/ s < s2 \/ w < w2
           \/ 3 * l2 + d2 + f2 + 3 * o < 3 * l + d + f + 3 * o2
    BY <1>0, <1>1, <1>2 DEF GainsMore
  <1>6. /\ Total(s2, w2, o2, l2, d2, f2) <= Total(s, w, o, l, d, f)
        /\ \/ s < s2 \/ w < w2
           \/ 3 * l2 + d2 + f2 + 3 * o < 3 * l + d + f + 3 * o2
           => Total(s2, w2, o2, l2, d2, f2) < Total(s, w, o, l, d, f)
    BY <1>4, TotalFalls
  <1> QED
    BY <1>3, <1>5, <1>6

-----------------------------------------------------------------------------
(* What leaves it alone.                                                   *)

Untouched(c) ==
    /\ toServer'[c] = toServer[c] /\ offset'[c] = offset[c]
    /\ words_received'[c] = words_received[c] /\ phase'[c] = phase[c]

LEMMA SentStays ==
    ASSUME NEW c, Untouched(c), Serves(c)' <=> Serves(c),
           Serves(c) => req' = req
    PROVE  SentTo(c)' = SentTo(c)
  BY DEF Untouched, SentTo, Serves

LEMMA DistanceStays ==
    ASSUME NEW c, hpc'[c] = hpc[c], InQueue(c)' <=> InQueue(c),
           cur' = c <=> cur = c, cur = c => spc' = spc
    PROVE  Distance(c)' = Distance(c)
  BY DEF Distance

LEMMA WorkStays ==
    ASSUME NEW c, Untouched(c), SentTo(c)' = SentTo(c),
           Distance(c)' = Distance(c)
    PROVE  Work(c)' = Work(c)
  BY DEF Untouched, Work

(* Neither the scheduler nor a queue has to do with d, before and after.   *)
Elsewhere(d) ==
    /\ Untouched(d) /\ hpc'[d] = hpc[d] /\ (InQueue(d)' <=> InQueue(d))
    /\ cur # d /\ cur' # d

LEMMA ElsewhereStays ==
    ASSUME NEW d, Elsewhere(d)
    PROVE  Work(d)' = Work(d)
  <1>1. SentTo(d)' = SentTo(d)
    BY SentStays DEF Elsewhere, Serves
  <1>2. Distance(d)' = Distance(d)
    BY DistanceStays DEF Elsewhere
  <1> QED
    BY <1>1, <1>2, WorkStays DEF Elsewhere

(* A connection on its way.                                                *)
LEMMA Nearer ==
    ASSUME NEW c, Numbers(c), Numbers(c)', Untouched(c),
           SentTo(c)' = SentTo(c), Distance(c)' < Distance(c)
    PROVE  Work(c)' < Work(c)
  <1>1. /\ Here(c)' = Here(c) /\ Len(toServer'[c]) = Len(toServer[c])
        /\ offset'[c] = offset[c] /\ words_received'[c] = words_received[c]
    BY DEF Untouched, Here
  <1>2. PICK s \in Nat, w \in Nat, o \in Nat, l \in Nat, f \in Nat :
           /\ s = SentTo(c) /\ w = words_received[c] /\ o = offset[c]
           /\ l = Len(toServer[c]) /\ f = Here(c)
    BY DEF Numbers
  <1>3. PICK d \in Nat, d2 \in Nat : d = Distance(c) /\ d2 = Distance(c)'
    BY DEF Numbers
  <1>4. s <= s /\ w <= w /\ 3 * l + d2 + f + 3 * o < 3 * l + d + f + 3 * o
    BY <1>3
  <1>6. Left(c) = 3 * l + d + f /\ Left(c)' = 3 * l + d2 + f
    BY <1>1, <1>2, <1>3, LeftIs
  <1>7. Left(c)' + 3 * offset[c] < Left(c) + 3 * offset'[c]
    BY <1>1, <1>2, <1>4, <1>6
  <1>8. SentTo(c) <= SentTo(c)' /\ words_received[c] <= words_received'[c]
    BY <1>1, <1>2
  <1>5. Gains(c) /\ GainsMore(c)
    BY <1>7, <1>8, LeftFalls
  <1> QED
    BY <1>5, WorkFalls

(* c is brought closer to its end, and nobody away from it.                *)
Advances(c) ==
    /\ Work(c)' < Work(c)
    /\ \A d \in Clients \ {c} : Work(d)' = Work(d) \/ Work(d)' < Work(d)

-----------------------------------------------------------------------------
(* The steps of the server.                                                *)

LEMMA QueueParts ==
    ASSUME PlaceInv, NEW c \in Clients
    PROVE  /\ QueueInv
           /\ hpc[c] # "end" \/ cur = c => ~InQueue(c)
           /\ hpc[c] # "end" => cur # c
  BY PlaceParts DEF PlaceInv, QueuedOnce

LEMMA AcceptAdvances ==
    ASSUME TypeInv, PlaceInv, NumbersInv, NumbersInv',
           Accept, UNCHANGED clientVars
    PROVE  \E c \in Clients : Advances(c)
  <1>1. PICK c \in Clients :
           /\ hpc[c] = "none" /\ hpc'[c] = "add"
           /\ \A d \in Clients \ {c} : hpc'[d] = hpc[d]
    <2>1. /\ backlog # <<>> /\ backlog \in Seq(Clients)
          /\ hpc' = [hpc EXCEPT ![Head(backlog)] = "add"]
          /\ hpc \in [Clients -> {"none", "add", "end"}]
      BY DEF Accept, TypeInv, TypeOK, SocketsTypeOK, FriendlyServerTypeOK
    <2>2. PICK c \in Clients : c = Head(backlog)
      BY <2>1
    <2>3. c = backlog[1] /\ 1 \in DOMAIN backlog
      BY <2>1, <2>2
    <2>4. hpc[c] = "none"
      BY <2>3 DEF PlaceInv, BacklogInv
    <2> QED
      BY <2>1, <2>2, <2>4
  <1>2. /\ cur' = cur /\ spc' = spc /\ req' = req
        /\ \A d \in Clients : /\ Untouched(d) /\ (Serves(d)' <=> Serves(d))
                              /\ InQueue(d)' <=> InQueue(d)
    BY DEF Accept, clientVars, wireVars, queueVars, localVars, Untouched,
           Serves, InQueue
  <1>3. \A d \in Clients : SentTo(d)' = SentTo(d)
    BY <1>2, SentStays
  <1>4. Work(c)' < Work(c)
    <2>1. Distance(c) = 4 /\ Distance(c)' = 3
      BY <1>1 DEF Distance
    <2>2. Numbers(c) /\ Numbers(c)'
      BY <1>1 DEF NumbersInv
    <2> QED
      BY <1>1, <1>2, <1>3, <2>1, <2>2, Nearer
  <1>5. ASSUME NEW d \in Clients \ {c}
        PROVE  Work(d)' = Work(d)
    <2>1. Distance(d)' = Distance(d)
      BY <1>1, <1>2, DistanceStays
    <2> QED
      BY <1>2, <1>3, <2>1, WorkStays
  <1> QED
    BY <1>1, <1>4, <1>5 DEF Advances

(* The main thread, but for accept.                                        *)
LEMMA MainAdvances ==
    ASSUME (Main /\ ~Accept) \/ WokenUp
    PROVE  /\ \A c \in Clients : Work(c)' = Work(c)
           /\ MainWork' < MainWork
  <1>1. /\ cur' = cur /\ spc' = spc /\ req' = req /\ hpc' = hpc
        /\ \A d \in Clients : /\ Untouched(d) /\ (Serves(d)' <=> Serves(d))
                              /\ InQueue(d)' <=> InQueue(d)
    BY DEF Main, MainStep, AcceptMore, StopAccepting, PushBack, JoinHandlers,
           Return, WokenUp, AcceptFails, clientVars, wireVars, queueVars,
           localVars, Untouched, Serves, InQueue
  <1>2. ASSUME NEW d \in Clients
        PROVE  Work(d)' = Work(d)
    BY <1>1, SentStays, DistanceStays, WorkStays
  <1>3. MainWork' < MainWork
    BY DEF Main, MainStep, AcceptMore, StopAccepting, PushBack, JoinHandlers,
           Return, WokenUp, AcceptFails, MainWork
  <1> QED
    BY <1>2, <1>3

LEMMA HandlerAdvances ==
    ASSUME TypeInv, PlaceInv, NumbersInv, NumbersInv',
           NEW c \in Clients, Handler(c)
    PROVE  Advances(c)
  <1>1. /\ hpc[c] = "add" /\ hpc'[c] = "end"
        /\ \A d \in Clients \ {c} : hpc'[d] = hpc[d]
        /\ AddToQueue(c) /\ policy' = policy
        /\ cur' = cur /\ spc' = spc /\ req' = req
        /\ \A d \in Clients : Untouched(d) /\ (Serves(d)' <=> Serves(d))
    BY DEF Handler, HandleClient, TypeInv, TypeOK, FriendlyServerTypeOK,
           clientVars, wireVars, localVars, Untouched, Serves
  <1>2. QueueInv /\ ~InQueue(c) /\ cur # c
    BY <1>1, QueueParts
  <1>3. \A d \in Clients \ {c} : InQueue(d)' <=> InQueue(d)
    BY <1>1, <1>2, AddToQueueEffect DEF TypeInv
  <1>4. \A d \in Clients : SentTo(d)' = SentTo(d)
    BY <1>1, SentStays
  <1>5. Work(c)' < Work(c)
    <2>1. Distance(c) = 3 /\ Distance(c)' \in {0, 2}
      BY <1>1, <1>2 DEF Distance
    <2>2. Numbers(c) /\ Numbers(c)' /\ Distance(c)' < Distance(c)
      BY <2>1 DEF NumbersInv
    <2> QED
      BY <1>1, <1>4, <2>2, Nearer
  <1>6. ASSUME NEW d \in Clients \ {c}
        PROVE  Work(d)' = Work(d)
    <2>1. Distance(d)' = Distance(d)
      BY <1>1, <1>3, DistanceStays
    <2> QED
      BY <1>1, <1>4, <2>1, WorkStays
  <1> QED
    BY <1>5, <1>6 DEF Advances

LEMMA ScheduleAdvances ==
    ASSUME TypeInv, PlaceInv, NumbersInv, NumbersInv',
           Schedule, UNCHANGED clientVars
    PROVE  \E c \in Clients : Advances(c)
  <1>1. PICK c \in Clients : GetNextRequest(c) /\ cur' = c
    BY DEF Schedule
  <1>2. /\ hpc' = hpc /\ policy' = policy /\ spc = "next" /\ spc' = "recv"
        /\ cur = NoClient /\ cur \notin Clients
        /\ \A d \in Clients : Untouched(d) /\ ~Serves(d) /\ ~Serves(d)'
    BY ServerAssumption
    DEF Schedule, TypeInv, SchedulerInv, clientVars, wireVars, Untouched,
        Serves
  <1>3. /\ InQueue(c) /\ ~InQueue(c)'
        /\ \A d \in Clients \ {c} : InQueue(d)' <=> InQueue(d)
    BY <1>1, <1>2, QueueParts, GetNextRequestEffect DEF TypeInv
  <1>4. Work(c)' < Work(c)
    <2>1. hpc[c] = "end"
      BY <1>3, QueueParts
    <2>2. Distance(c) = 2 /\ Distance(c)' = 1
      BY <1>1, <1>2, <1>3, <2>1 DEF Distance
    <2>3. Numbers(c) /\ Numbers(c)' /\ Distance(c)' < Distance(c)
      BY <2>2 DEF NumbersInv
    <2>4. SentTo(c)' = SentTo(c)
      BY <1>2, SentStays
    <2> QED
      BY <1>2, <2>3, <2>4, Nearer
  <1>5. ASSUME NEW d \in Clients \ {c}
        PROVE  Work(d)' = Work(d)
    BY <1>1, <1>2, <1>3, ElsewhereStays DEF Elsewhere
  <1> QED
    BY <1>4, <1>5 DEF Advances

(* The scheduler lets go of the connection it holds.                       *)
LEMMA HungUpAdvances ==
    ASSUME TypeInv, PlaceInv, NumbersInv, NumbersInv',
           HungUp \/ SchedulerJoins, UNCHANGED clientVars
    PROVE  \E c \in Clients : Advances(c)
  <1>1. /\ cur \in Clients /\ spc \in {"recv", "join"}
        /\ cur' = NoClient /\ spc' = "next" /\ NoClient \notin Clients
        /\ hpc' = hpc
    BY ServerAssumption
    DEF HungUp, SchedulerJoins, Ready, TypeInv, SchedulerInv, TypeOK,
        FriendlyServerTypeOK
  <1>2. \A d \in Clients : /\ Untouched(d) /\ ~Serves(d) /\ ~Serves(d)'
                           /\ InQueue(d)' <=> InQueue(d)
    BY <1>1
    DEF HungUp, SchedulerJoins, clientVars, wireVars, queueVars, Untouched,
        Serves, InQueue
  <1>3. PICK c \in Clients : c = cur
    BY <1>1
  <1>4. Work(c)' < Work(c)
    <2>1. hpc[c] = "end" /\ ~InQueue(c)
      BY <1>3, QueueParts
    <2>2. Distance(c) = 1 /\ Distance(c)' = 0
      BY <1>1, <1>2, <1>3, <2>1 DEF Distance
    <2>3. Numbers(c) /\ Numbers(c)' /\ Distance(c)' < Distance(c)
      BY <2>2 DEF NumbersInv
    <2>4. SentTo(c)' = SentTo(c)
      BY <1>2, SentStays
    <2> QED
      BY <1>2, <2>3, <2>4, Nearer
  <1>5. ASSUME NEW d \in Clients \ {c}
        PROVE  Work(d)' = Work(d)
    BY <1>1, <1>2, <1>3, ElsewhereStays DEF Elsewhere
  <1> QED
    BY <1>4, <1>5 DEF Advances

(* A request begins to be answered.                                        *)
LEMMA AnswerAdvances ==
    ASSUME TypeInv, PlaceInv, WorkInv, NumbersInv, NumbersInv',
           BeginAnswer, UNCHANGED clientVars
    PROVE  \E c \in Clients : Advances(c)
  <1>1. /\ cur \in Clients /\ spc = "recv" /\ ~Serves(cur)
        /\ Head(toServer[cur]) = offset[cur]
        /\ toServer[cur] = <<offset[cur]>> /\ toServer'[cur] = <<>>
        /\ \A d \in Clients \ {cur} : toServer'[d] = toServer[d]
    BY TakesAsked DEF BeginAnswer
  <1>2. /\ cur' = cur /\ spc' = "serve" /\ hpc' = hpc /\ req' = offset[cur]
        /\ offset' = offset /\ phase' = phase
        /\ words_received' = words_received
        /\ \A d \in Clients : InQueue(d)' <=> InQueue(d)
    BY <1>1 DEF BeginAnswer, clientVars, queueVars, InQueue
  <1>3. PICK c \in Clients : c = cur
    BY <1>1
  <1>4. Work(c)' < Work(c)
    <2>1. hpc[c] = "end" /\ ~InQueue(c)
      BY <1>3, QueueParts, HeldHasConnected
    <2>2. Distance(c) = 1 /\ Distance(c)' = 3 /\ Here(c)' = Here(c)
      BY <1>1, <1>2, <1>3, <2>1 DEF Distance, Here
    <2>0. toServer[c] = <<offset[c]>> /\ toServer'[c] = <<>>
      BY <1>1, <1>3
    <2>3. Len(toServer[c]) = 1 /\ Len(toServer'[c]) = 0 /\ toServer[c] # <<>>
      BY <2>0
    <2>4. SentTo(c) = offset[c] /\ SentTo(c)' = offset[c]
      BY <1>1, <1>2, <1>3, <2>3 DEF SentTo
    <2>5. Numbers(c) /\ Numbers(c)'
      BY DEF NumbersInv
    <2>6. PICK w \in Nat, o \in Nat, f \in Nat :
             w = words_received[c] /\ o = offset[c] /\ f = Here(c)
      BY <2>5 DEF Numbers
    <2>7. /\ SentTo(c) = o /\ SentTo(c)' = o /\ offset'[c] = o
          /\ words_received'[c] = w /\ Here(c)' = f
      BY <1>2, <2>2, <2>4, <2>6
    <2>9. Left(c) = 3 * 1 + 1 + f /\ Left(c)' = 3 * 0 + 3 + f
      BY <2>2, <2>3, <2>6, <2>7, LeftIs
    <2>8. Gains(c) /\ GainsMore(c)
      BY <2>6, <2>7, <2>9 DEF Gains, GainsMore
    <2> QED
      BY <2>5, <2>8, WorkFalls
  <1>5. ASSUME NEW d \in Clients \ {c}
        PROVE  Work(d)' = Work(d)
    BY <1>1, <1>2, <1>3, ElsewhereStays DEF Elsewhere, Untouched
  <1> QED
    BY <1>4, <1>5 DEF Advances

(* A packet is sent.                                                       *)
LEMMA PacketAdvances ==
    ASSUME TypeInv, PlaceInv, NumbersInv, NumbersInv',
           SendPacket, UNCHANGED clientVars
    PROVE  \E c \in Clients : Advances(c)
  <1>1. PICK b \in Nat : req < b /\ req' = b
    BY SendsUpTo DEF TypeInv
  <1>2. /\ cur' = cur /\ spc = "serve" /\ spc' = "serve" /\ hpc' = hpc
        /\ cur \in Clients
        /\ \A d \in Clients : Untouched(d) /\ (InQueue(d)' <=> InQueue(d))
    BY DEF SendPacket, clientVars, queueVars, InQueue, Untouched,
           TypeInv, TypeOK, FriendlyServerTypeOK, SchedulerInv
  <1>3. PICK c \in Clients : c = cur
    BY <1>2
  <1>4. Work(c)' < Work(c)
    <2>1. SentTo(c) = req /\ SentTo(c)' = b
      BY <1>1, <1>2, <1>3 DEF SentTo
    <2>2. Distance(c)' = Distance(c)
      BY <1>2, DistanceStays
    <2>3. Numbers(c) /\ Numbers(c)'
      BY DEF NumbersInv
    <2>4. PICK s \in Nat, w \in Nat, o \in Nat,
               l \in Nat, d \in Nat, f \in Nat :
             /\ s = SentTo(c) /\ w = words_received[c] /\ o = offset[c]
             /\ l = Len(toServer[c]) /\ d = Distance(c) /\ f = Here(c)
      BY <2>3 DEF Numbers
    <2>5. /\ s < b /\ SentTo(c)' = b /\ words_received'[c] = w
          /\ offset'[c] = o /\ Len(toServer'[c]) = l /\ Distance(c)' = d
          /\ Here(c)' = f
      BY <1>1, <1>2, <2>1, <2>2, <2>4 DEF Untouched, Here
    <2>6. /\ s <= b /\ w <= w
          /\ 3 * l + d + f + 3 * o <= 3 * l + d + f + 3 * o
      BY <2>5
    <2>8. Left(c) = 3 * l + d + f /\ Left(c)' = 3 * l + d + f
      BY <2>4, <2>5, LeftIs
    <2>7. Gains(c) /\ GainsMore(c)
      BY <2>4, <2>5, <2>6, <2>8 DEF Gains, GainsMore
    <2> QED
      BY <2>3, <2>7, WorkFalls
  <1>5. ASSUME NEW d \in Clients \ {c}
        PROVE  Work(d)' = Work(d)
    BY <1>2, <1>3, ElsewhereStays DEF Elsewhere
  <1> QED
    BY <1>4, <1>5 DEF Advances

(* The batch is sent.                                                      *)
LEMMA BatchAdvances ==
    ASSUME TypeInv, PlaceInv, WorkInv, NumbersInv, NumbersInv',
           Requeue \/ Served, UNCHANGED clientVars
    PROVE  \E c \in Clients : Advances(c)
  <1>1. /\ spc = "serve" /\ req >= z /\ cur \in Clients /\ hpc' = hpc
        /\ cur \in Clients /\ policy' = policy
        /\ \A d \in Clients : Untouched(d)
    BY DEF Requeue, Served, clientVars, wireVars, Untouched,
           TypeInv, TypeOK, FriendlyServerTypeOK, SchedulerInv
  <1>2. PICK c \in Clients : c = cur
    BY <1>1
  <1>3. /\ hpc[c] = "end" /\ ~InQueue(c) /\ phase[c] # "new" /\ QueueInv
    BY <1>2, QueueParts, HeldHasConnected
  <1>4. /\ \/ cur' = NoClient /\ spc' = "next"
           \/ cur' = c /\ spc' = "join" /\ ~InQueue(c)'
        /\ \A d \in Clients \ {c} : InQueue(d)' <=> InQueue(d)
    <2>1. CASE Requeue
      <3>1. AddToQueue(c) /\ cur' = NoClient /\ spc' = "next"
        BY <1>2, <2>1 DEF Requeue, Ready
      <3> QED
        BY <1>1, <1>3, <3>1, AddToQueueEffect DEF TypeInv
    <2>2. CASE Served
      <3>1. \A d \in Clients : InQueue(d)' <=> InQueue(d)
        BY <2>2 DEF Served, queueVars, InQueue
      <3>2. \/ cur' = NoClient /\ spc' = "next"
            \/ cur' = c /\ spc' = "join"
        BY <1>2, <2>2 DEF Served, Ready, localVars
      <3> QED
        BY <1>3, <3>1, <3>2
    <2> QED
      BY <2>1, <2>2
  <1>5. Work(c)' < Work(c)
    <2>1. Distance(c) = 3
      BY <1>1, <1>2, <1>3 DEF Distance
    <2>2. Distance(c)' \in {0, 1, 2}
      <3>1. c # NoClient
        BY ServerAssumption
      <3> QED
        BY <1>1, <1>3, <1>4, <3>1 DEF Distance
    <2>3. Numbers(c) /\ Numbers(c)' /\ Distance(c)' < Distance(c)
      BY <2>1, <2>2 DEF NumbersInv
    <2>4. SentTo(c) = req
      BY <1>1, <1>2 DEF SentTo
    <2>5. SentTo(c)' = req
      <3>1. req \in Nat /\ z \in Nat
        BY StepTypes DEF TypeInv
      <3>2. /\ req <= z
            /\ z = IF toServer[c] = <<>> THEN BatchEnd(offset[c])
                                         ELSE offset[c]
        BY <1>1, <1>2 DEF WorkInv, Bounded, Serves
      <3>3. req = z
        BY <1>1, <3>1, <3>2
      <3>4. /\ toServer'[c] = toServer[c] /\ offset'[c] = offset[c]
            /\ phase'[c] # "new" /\ spc' # "serve"
        BY <1>1, <1>3, <1>4 DEF Untouched
      <3> HIDE DEF BatchEnd
      <3> QED
        BY <3>2, <3>3, <3>4 DEF SentTo
    <2> QED
      BY <1>1, <2>3, <2>4, <2>5, Nearer
  <1>6. ASSUME NEW d \in Clients \ {c}
        PROVE  Work(d)' = Work(d)
    BY <1>1, <1>2, <1>4, ElsewhereStays, ServerAssumption DEF Elsewhere
  <1> QED
    BY <1>5, <1>6 DEF Advances

LEMMA SchedulerAdvances ==
    ASSUME TypeInv, PlaceInv, WorkInv, NumbersInv, NumbersInv', Scheduler
    PROVE  \E c \in Clients : Advances(c)
  <1>1. ASSUME OutOfRange
        PROVE  FALSE
    <2>1. /\ cur \in Clients /\ Head(toServer[cur]) = offset[cur]
          /\ offset[cur] < NumWords /\ Head(toServer[cur]) >= NumWords
      BY <1>1, TakesAsked DEF OutOfRange
    <2> QED
      BY <2>1, StepTypes DEF TypeInv
  <1> QED
    BY <1>1, ScheduleAdvances, HungUpAdvances, AnswerAdvances, PacketAdvances,
       BatchAdvances DEF Scheduler, SchedulerStep

-----------------------------------------------------------------------------
(* The steps of the clients.                                               *)

LEMMA ClientDistance ==
    ASSUME TypeOK, NEW c \in Clients, Client(c), NEW d \in Clients
    PROVE  /\ Distance(d)' = Distance(d)
           /\ (Serves(d)' <=> Serves(d)) /\ req' = req
           /\ d # c /\ ~ConnectRefused(c) => Work(d)' = Work(d)
  <1>1. /\ hpc' = hpc /\ cur' = cur /\ spc' = spc /\ req' = req
        /\ InQueue(d)' <=> InQueue(d)
    BY ClientLeaves DEF InQueue
  <1>2. Distance(d)' = Distance(d)
    BY <1>1, DistanceStays
  <1>3. Serves(d)' <=> Serves(d)
    BY <1>1 DEF Serves
  <1>4. ASSUME d # c, ~ConnectRefused(c)
        PROVE  Work(d)' = Work(d)
    <2>1. Untouched(d)
      BY <1>4, ClientLeaves DEF Untouched
    <2>2. SentTo(d)' = SentTo(d)
      BY <1>1, <1>3, <2>1, SentStays
    <2> QED
      BY <1>2, <2>1, <2>2, WorkStays
  <1> QED
    BY <1>1, <1>2, <1>3, <1>4

(* A client leaves, or is killed.                                          *)
LEMMA LeavingGains ==
    ASSUME PlaceInv, NEW d \in Clients, Fresh(d), Numbers(d), Numbers(d)',
           toServer'[d] = toServer[d], offset'[d] = offset[d],
           words_received'[d] = words_received[d],
           Distance(d)' = Distance(d), req' = req, Serves(d)' <=> Serves(d),
           phase'[d] \in {"done", "killed"}
    PROVE  /\ Gains(d)
           /\ phase[d] \in {"new", "recv", "write"} => GainsMore(d)
  <1>1. SentTo(d) <= SentTo(d)'
    <2>1. CASE phase[d] = "new"
      <3>1. ~Serves(d) /\ ~Serves(d)'
        BY <2>1, HeldHasConnected DEF Serves
      <3>2. /\ toServer[d] = <<>> /\ offset[d] <= NumWords
        BY <2>1 DEF Fresh
      <3>3. offset[d] <= BatchEnd(offset[d])
        BY <3>2, ConfigAssumption DEF BatchEnd, Numbers
      <3> HIDE DEF BatchEnd
      <3>4. SentTo(d) = offset[d] /\ SentTo(d)' = BatchEnd(offset[d])
        BY <2>1, <3>1, <3>2 DEF SentTo, Serves
      <3> QED
        BY <3>3, <3>4
    <2>2. CASE phase[d] # "new"
      <3> HIDE DEF BatchEnd
      <3>1. SentTo(d)' = SentTo(d)
        BY <2>2 DEF SentTo, Serves
      <3> QED
        BY <3>1 DEF Numbers
    <2> QED
      BY <2>1, <2>2
  <1>2. /\ Here(d)' = 0 /\ Here(d) \in Nat
        /\ phase[d] \in {"new", "recv", "write"} => Here(d) > 0
    BY DEF Here
  <1>3. PICK w \in Nat, o \in Nat, l \in Nat, h \in Nat, f \in Nat :
           /\ w = words_received[d] /\ o = offset[d]
           /\ l = Len(toServer[d]) /\ h = Distance(d) /\ f = Here(d)
    BY DEF Numbers
  <1>4. /\ words_received'[d] = w /\ offset'[d] = o /\ Len(toServer'[d]) = l
        /\ Distance(d)' = h
    BY <1>3
  <1>5. w <= w /\ 3 * l + h + 0 + 3 * o <= 3 * l + h + f + 3 * o
    OBVIOUS
  <1>8. Left(d) = 3 * l + h + f /\ Left(d)' = 3 * l + h + 0
    BY <1>2, <1>3, <1>4, LeftIs
  <1>6. Gains(d)
    BY <1>1, <1>3, <1>4, <1>5, <1>8 DEF Gains
  <1>7. ASSUME phase[d] \in {"new", "recv", "write"}
        PROVE  GainsMore(d)
    <2>1. f > 0
      BY <1>2, <1>3, <1>7
    <2>2. 3 * l + h + 0 + 3 * o < 3 * l + h + f + 3 * o
      BY <2>1
    <2> QED
      BY <1>3, <1>4, <1>6, <1>8, <2>2 DEF GainsMore
  <1> QED
    BY <1>6, <1>7

(* The whole process ends.                                                 *)
LEMMA RefusedAdvances ==
    ASSUME TypeOK, PlaceInv, FreshInv, NumbersInv, NumbersInv',
           NEW c \in Clients, Client(c), ConnectRefused(c)
    PROVE  Advances(c)
  <1>1. ASSUME NEW d \in Clients
        PROVE  /\ Work(d)' = Work(d) \/ Work(d)' < Work(d)
               /\ d = c => Work(d)' < Work(d)
    <2>1. /\ toServer'[d] = toServer[d] /\ offset'[d] = offset[d]
          /\ words_received'[d] = words_received[d]
          /\ phase'[d] \in {"done", "killed"}
          /\ d = c => phase[d] = "new"
      BY DEF ConnectRefused, TypeOK, FriendlyClientTypeOK, wireVars
    <2>2. /\ Distance(d)' = Distance(d)
          /\ (Serves(d)' <=> Serves(d)) /\ req' = req
      BY ClientDistance
    <2>3. Fresh(d) /\ Numbers(d) /\ Numbers(d)'
      BY DEF FreshInv, NumbersInv
    <2>4. Gains(d) /\ (phase[d] = "new" => GainsMore(d))
      BY <2>1, <2>2, <2>3, LeavingGains
    <2>5. Work(d)' <= Work(d) /\ (d = c => Work(d)' < Work(d))
      BY <2>1, <2>3, <2>4, WorkFalls
    <2>6. Work(d) \in Nat /\ Work(d)' \in Nat
      BY <2>3 DEF Numbers
    <2> QED
      BY <2>5, <2>6
  <1> QED
    BY <1>1 DEF Advances

LEMMA ConnectAdvances ==
    ASSUME TypeOK, PlaceInv, FreshInv, NumbersInv, NumbersInv',
           NEW c \in Clients, Client(c), Connect(c)
    PROVE  Advances(c)
  <1>1. /\ phase[c] = "new" /\ phase'[c] = "recv"
        /\ toServer'[c] = Append(toServer[c], offset[c])
        /\ offset'[c] = offset[c] /\ words_received'[c] = words_received[c]
        /\ ~ConnectRefused(c)
    BY DEF Connect, ConnectRefused, TypeOK, SocketsTypeOK, FriendlyClientTypeOK
  <1>2. toServer[c] = <<>>
    BY <1>1 DEF FreshInv, Fresh
  <1>3. toServer'[c] = <<offset[c]>>
    BY <1>1, <1>2
  <1>4. Len(toServer[c]) = 0 /\ Len(toServer'[c]) = 1 /\ toServer'[c] # <<>>
    BY <1>2, <1>3
  <1>5. Distance(c)' = Distance(c) /\ (Serves(c)' <=> Serves(c))
    BY ClientDistance
  <1>6. ~Serves(c)
    BY <1>1, HeldHasConnected DEF Serves
  <1>7. SentTo(c) = offset[c] /\ SentTo(c)' = offset[c]
    BY <1>1, <1>4, <1>5, <1>6 DEF SentTo, Serves
  <1>8. Here(c) = 6 /\ Here(c)' = 2
    BY <1>1 DEF Here
  <1>9. Numbers(c) /\ Numbers(c)'
    BY DEF NumbersInv
  <1>10. PICK w \in Nat, o \in Nat, h \in Nat :
            w = words_received[c] /\ o = offset[c] /\ h = Distance(c)
    BY <1>9 DEF Numbers
  <1>11. /\ SentTo(c) = o /\ SentTo(c)' = o /\ offset'[c] = o
         /\ words_received'[c] = w /\ Distance(c)' = h
    BY <1>1, <1>5, <1>7, <1>10
  <1>12. Left(c) = 3 * 0 + h + 6 /\ Left(c)' = 3 * 1 + h + 2
    BY <1>4, <1>8, <1>10, <1>11, LeftIs
  <1>13. Gains(c) /\ GainsMore(c)
    BY <1>10, <1>11, <1>12 DEF Gains, GainsMore
  <1> QED
    BY <1>1, <1>9, <1>13, WorkFalls, ClientDistance DEF Advances

LEMMA LeaveAdvances ==
    ASSUME TypeOK, PlaceInv, WorkInv, NumbersInv, NumbersInv',
           NEW c \in Clients, Client(c), ServerClosed(c) \/ WriteTable(c)
    PROVE  Advances(c)
  <1>1. /\ phase[c] \in {"recv", "write"} /\ phase'[c] = "done"
        /\ toServer' = toServer /\ offset' = offset
        /\ words_received' = words_received /\ ~ConnectRefused(c)
    <2>1. /\ phase[c] \in {"recv", "write"} /\ toServer' = toServer
          /\ offset' = offset /\ words_received' = words_received
          /\ phase' = [phase EXCEPT ![c] = "done"]
      BY DEF ServerClosed, WriteTable, Leave, Finish, wireVars
    <2>2. phase'[c] = "done"
      BY <2>1 DEF TypeOK, FriendlyClientTypeOK
    <2> QED
      BY <2>1, <2>2 DEF ConnectRefused
  <1>2. Distance(c)' = Distance(c) /\ (Serves(c)' <=> Serves(c)) /\ req' = req
    BY ClientDistance
  <1>3. Fresh(c) /\ Numbers(c) /\ Numbers(c)'
    BY FreshCases DEF FreshInv, NumbersInv
  <1>4. GainsMore(c) /\ Gains(c)
    BY <1>1, <1>2, <1>3, LeavingGains
  <1> QED
    BY <1>1, <1>3, <1>4, WorkFalls, ClientDistance DEF Advances

LEMMA EndAdvances ==
    ASSUME TypeOK, StepInv, WorkInv, NumbersInv, NumbersInv', Cuts = FALSE,
           NEW c \in Clients, Client(c), EndOfFile(c)
    PROVE  Advances(c)
  <1>1. Bounded(c) /\ InStep(c) /\ Numbers(c) /\ Numbers(c)'
    BY DEF WorkInv, NumbersInv, StepInv
  <1>2. /\ phase[c] = "recv" /\ phase'[c] = "write" /\ toServer' = toServer
        /\ offset' = offset /\ ~ConnectRefused(c)
    <2>1. phase[c] = "recv" /\ toServer' = toServer
      BY DEF EndOfFile, Receive
    <2> QED
      BY <1>1, <2>1, StepEnd DEF ConnectRefused
  <1>3. Distance(c)' = Distance(c) /\ (Serves(c)' <=> Serves(c)) /\ req' = req
    BY ClientDistance
  <1>4. /\ words_received'[c] = NumWords
        /\ words_received[c] <= words_received'[c]
    BY <1>1, StepEnd DEF Bounded
  <1>5. SentTo(c)' = SentTo(c)
    BY <1>2, <1>3 DEF SentTo, Serves
  <1>6. Here(c) = 2 /\ Here(c)' = 1
    BY <1>2 DEF Here
  <1>7. PICK s \in Nat, o \in Nat, l \in Nat, h \in Nat :
           /\ s = SentTo(c) /\ o = offset[c] /\ l = Len(toServer[c])
           /\ h = Distance(c)
    BY <1>1 DEF Numbers
  <1>8. /\ SentTo(c)' = s /\ offset'[c] = o /\ Len(toServer'[c]) = l
        /\ Distance(c)' = h
    BY <1>2, <1>3, <1>5, <1>7
  <1>9. Left(c) = 3 * l + h + 2 /\ Left(c)' = 3 * l + h + 1
    BY <1>6, <1>7, <1>8, LeftIs
  <1>10. Left(c)' + 3 * offset[c] < Left(c) + 3 * offset'[c]
    BY <1>7, <1>8, <1>9
  <1>11. SentTo(c) <= SentTo(c)' /\ words_received[c] <= words_received'[c]
    BY <1>4, <1>7, <1>8
  <1>12. Gains(c) /\ GainsMore(c)
    BY <1>1, <1>10, <1>11, LeftFalls
  <1> QED
    BY <1>1, <1>2, <1>12, WorkFalls, ClientDistance DEF Advances

LEMMA CountAdvances ==
    ASSUME TypeOK, PlaceInv, StepInv, WorkInv, NumbersInv, NumbersInv',
           Cuts = FALSE, NEW c \in Clients, Client(c), CountWords(c)
    PROVE  Advances(c)
  <1>1. /\ phase[c] = "recv" /\ phase' = phase
        /\ AsksNext(c) \/ ReadsOn(c)
    BY CountsOrAsks DEF StepInv
  <1>2. Distance(c)' = Distance(c) /\ (Serves(c)' <=> Serves(c)) /\ req' = req
    BY ClientDistance
  <1>3. Numbers(c) /\ Numbers(c)' /\ ~ConnectRefused(c)
    BY <1>1 DEF NumbersInv, ConnectRefused
  <1>4. Here(c)' = Here(c)
    BY <1>1 DEF Here
  <1>5. PICK s \in Nat, w \in Nat, o \in Nat,
             l \in Nat, h \in Nat, f \in Nat :
           /\ s = SentTo(c) /\ w = words_received[c] /\ o = offset[c]
           /\ l = Len(toServer[c]) /\ h = Distance(c) /\ f = Here(c)
    BY <1>3 DEF Numbers
  <1>6. PICK w2 \in Nat : w2 = words_received'[c]
    BY <1>3 DEF Numbers
  <1>7. CASE AsksNext(c)
    <2>1. /\ offset'[c] = offset[c] + k /\ toServer[c] = <<>>
          /\ toServer'[c] = <<offset'[c]>>
          /\ words_received[c] < words_received'[c]
          /\ BatchEnd(offset[c]) = offset'[c]
          /\ Serves(c) => req = offset'[c]
      BY <1>7 DEF AsksNext
    <2>2. Len(toServer[c]) = 0 /\ Len(toServer'[c]) = 1 /\ toServer'[c] # <<>>
      BY <2>1
    <2> HIDE DEF BatchEnd
    <2>3. SentTo(c) = offset'[c] /\ SentTo(c)' = offset'[c]
      BY <1>1, <1>2, <2>1, <2>2 DEF SentTo, Serves
    <2>4. /\ SentTo(c)' = s /\ offset'[c] = o + k /\ w < w2
          /\ Distance(c)' = h /\ Here(c)' = f /\ l = 0
      BY <1>2, <1>4, <1>5, <1>6, <2>1, <2>2, <2>3
    <2>5. s <= s /\ 3 * 1 + h + f + 3 * o <= 3 * 0 + h + f + 3 * (o + k)
      BY ConfigAssumption
    <2>7. Left(c) = 3 * 0 + h + f /\ Left(c)' = 3 * 1 + h + f
      BY <1>5, <2>2, <2>4, LeftIs
    <2>8. Left(c)' + 3 * offset[c] <= Left(c) + 3 * offset'[c]
      BY <1>5, <2>4, <2>5, <2>7
    <2>6. Gains(c) /\ GainsMore(c)
      BY <1>5, <1>6, <2>4, <2>5, <2>8 DEF Gains, GainsMore
    <2> QED
      BY <1>3, <2>6, WorkFalls, ClientDistance DEF Advances
  <1>8. CASE ReadsOn(c)
    <2>1. /\ offset'[c] = offset[c] /\ toServer'[c] = toServer[c]
          /\ words_received[c] < words_received'[c]
      BY <1>8 DEF ReadsOn
    <2>2. SentTo(c)' = SentTo(c)
      BY <1>1, <1>2, <2>1 DEF SentTo, Serves
    <2>3. /\ SentTo(c)' = s /\ offset'[c] = o /\ w < w2
          /\ Len(toServer'[c]) = l /\ Distance(c)' = h /\ Here(c)' = f
      BY <1>2, <1>4, <1>5, <1>6, <2>1, <2>2
    <2>4. /\ s <= s /\ w <= w2
          /\ 3 * l + h + f + 3 * o <= 3 * l + h + f + 3 * o
      BY <2>3
    <2>6. Left(c) = 3 * l + h + f /\ Left(c)' = 3 * l + h + f
      BY <1>5, <2>3, LeftIs
    <2>5. Gains(c) /\ GainsMore(c)
      BY <1>5, <1>6, <2>3, <2>4, <2>6 DEF Gains, GainsMore
    <2> QED
      BY <1>3, <2>5, WorkFalls, ClientDistance DEF Advances
  <1> QED
    BY <1>1, <1>7, <1>8

LEMMA ClientAdvances ==
    ASSUME TypeOK, PlaceInv, StepInv, WorkInv, NumbersInv, NumbersInv',
           Cuts = FALSE, NEW c \in Clients, Client(c)
    PROVE  Advances(c)
  <1>1. ASSUME LastPacket(c)
        PROVE  FALSE
    BY <1>1, StepReads DEF LastPacket, StepInv
  <1> QED
    BY <1>1, FreshCases, ConnectAdvances, RefusedAdvances, LeaveAdvances,
       EndAdvances, CountAdvances DEF Client, ClientStep

-----------------------------------------------------------------------------
(* The steps with an empty file.                                           *)

LEMMA EmptyAnswerAdvances ==
    ASSUME TypeInv, PlaceInv, EmptyInv, NumWords = 0, Unsent, Unsent',
           NumbersInv, NumbersInv', OutOfRange, UNCHANGED clientVars
    PROVE  \E c \in Clients : Advances(c)
  <1>1. PICK c \in Clients : c = cur
    BY EmptyTakes DEF OutOfRange
  <1>2. /\ spc = "recv" /\ Len(toServer[c]) = 1 /\ toServer'[c] = <<>>
        /\ \A d \in Clients \ {c} : toServer'[d] = toServer[d]
    <2>1. /\ spc = "recv" /\ toServer[c] = <<0>> /\ toServer'[c] = <<>>
          /\ \A d \in Clients \ {c} : toServer'[d] = toServer[d]
      BY <1>1, EmptyTakes DEF OutOfRange
    <2> QED
      BY <2>1
  <1>3. /\ hpc' = hpc /\ cur' = NoClient /\ cur' \notin Clients
        /\ offset' = offset /\ phase' = phase
        /\ words_received' = words_received
        /\ \A d \in Clients : InQueue(d)' <=> InQueue(d)
    BY ServerAssumption
    DEF OutOfRange, Ready, clientVars, queueVars, InQueue
  <1>4. Work(c)' < Work(c)
    <2>1. Distance(c) = 1 /\ Distance(c)' = 0
      <3>1. hpc[c] = "end" /\ ~InQueue(c)
        BY <1>1, QueueParts DEF TypeInv, TypeOK, FriendlyServerTypeOK
      <3> QED
        BY <1>1, <1>2, <1>3, <3>1 DEF Distance
    <2>2. /\ Numbers(c) /\ Numbers(c)'
          /\ Here(c)' = Here(c) /\ Len(toServer'[c]) = 0
      BY <1>2, <1>3 DEF NumbersInv, Here
    <2>3. SentTo(c) = 0 /\ SentTo(c)' = 0
      BY DEF Unsent
    <2>4. PICK w \in Nat, o \in Nat, f \in Nat :
             w = words_received[c] /\ o = offset[c] /\ f = Here(c)
      BY <2>2 DEF Numbers
    <2>5. /\ words_received'[c] = w /\ offset'[c] = o /\ Here(c)' = f
      BY <1>3, <2>2, <2>4
    <2>6. 3 * 0 + 0 + f + 3 * o < 3 * 1 + 1 + f + 3 * o
      OBVIOUS
    <2>8. Left(c) = 3 * 1 + 1 + f /\ Left(c)' = 3 * 0 + 0 + f
      BY <1>2, <2>1, <2>2, <2>4, <2>5, LeftIs
    <2>7. Gains(c) /\ GainsMore(c)
      BY <2>3, <2>4, <2>5, <2>6, <2>8 DEF Gains, GainsMore
    <2> QED
      BY <2>2, <2>7, WorkFalls
  <1>5. ASSUME NEW d \in Clients \ {c}
        PROVE  Work(d)' = Work(d)
    BY <1>1, <1>2, <1>3, <1>5, ElsewhereStays DEF Elsewhere, Untouched
  <1> QED
    BY <1>4, <1>5 DEF Advances

LEMMA EmptySchedulerAdvances ==
    ASSUME TypeInv, PlaceInv, EmptyInv, NumWords = 0, Unsent, Unsent',
           NumbersInv, NumbersInv', Scheduler
    PROVE  \E c \in Clients : Advances(c)
  BY EmptyScheduler, ScheduleAdvances, HungUpAdvances, EmptyAnswerAdvances
  DEF Scheduler

LEMMA EmptyClientAdvances ==
    ASSUME TypeInv, PlaceInv, EmptyInv, NumWords = 0, Cuts = FALSE,
           NumbersInv, NumbersInv', NEW c \in Clients, Client(c)
    PROVE  Advances(c)
  <1>1. FreshInv /\ TypeOK
    BY FreshCases DEF TypeInv
  <1>2. ASSUME ServerClosed(c) \/ LastPacket(c)
        PROVE  Advances(c)
    <2>1. /\ phase[c] = "recv" /\ phase'[c] = "done" /\ toServer' = toServer
          /\ offset' = offset /\ words_received' = words_received
          /\ ~ConnectRefused(c)
      <3>1. /\ phase[c] = "recv" /\ toServer' = toServer /\ offset' = offset
            /\ words_received' = words_received
            /\ phase' = [phase EXCEPT ![c] = "done"]
        BY <1>2 DEF ServerClosed, LastPacket, Receive, Leave, Finish, wireVars
      <3> QED
        BY <1>1, <3>1 DEF ConnectRefused, TypeOK, FriendlyClientTypeOK
    <2>2. /\ Distance(c)' = Distance(c) /\ (Serves(c)' <=> Serves(c))
          /\ req' = req
      BY <1>1, ClientDistance
    <2>3. Fresh(c) /\ Numbers(c) /\ Numbers(c)'
      BY <1>1 DEF FreshInv, NumbersInv
    <2>4. Gains(c) /\ GainsMore(c)
      BY <2>1, <2>2, <2>3, LeavingGains
    <2> QED
      BY <1>1, <2>1, <2>3, <2>4, WorkFalls, ClientDistance DEF Advances
  <1> QED
    BY <1>1, <1>2, EmptyClients, ConnectAdvances, RefusedAdvances

-----------------------------------------------------------------------------
LEMMA StepWorks ==
    ASSUME TypeInv, PlaceInv, NumbersInv, NumbersInv', [Next]_vars,
           Scheduler => \E c \in Clients : Advances(c),
           \A c \in Clients : Client(c) => Advances(c)
    PROVE  [~Cuts =>
              /\ \A c \in Clients : Work(c)' \in 0 .. Work(c)
              /\ \/ \E c \in Clients : Work(c)' # Work(c)
                 \/ MainWork' < MainWork]_vars
  <1> SUFFICES ASSUME Next
               PROVE  /\ \A c \in Clients : Work(c)' \in 0 .. Work(c)
                      /\ \/ \E c \in Clients : Work(c)' # Work(c)
                         \/ MainWork' < MainWork
    OBVIOUS
  <1>1. \A c \in Clients : Work(c) \in Nat /\ Work(c)' \in Nat
    BY DEF NumbersInv, Numbers
  <1>2. ASSUME NEW d \in Clients, Work(d)' = Work(d) \/ Work(d)' < Work(d)
        PROVE  Work(d)' \in 0 .. Work(d)
    <2>1. PICK m \in Nat, n \in Nat : m = Work(d)' /\ n = Work(d)
      BY <1>1
    <2>2. m \in 0 .. n
      BY <1>2, <2>1
    <2> QED
      BY <2>1, <2>2
  <1>3. ASSUME NEW c \in Clients, Advances(c)
        PROVE  /\ \A d \in Clients : Work(d)' \in 0 .. Work(d)
               /\ \E d \in Clients : Work(d)' # Work(d)
    <2>1. Work(c)' # Work(c)
      BY <1>1, <1>3 DEF Advances
    <2>2. \A d \in Clients : Work(d)' = Work(d) \/ Work(d)' < Work(d)
      BY <1>3 DEF Advances
    <2> QED
      BY <1>2, <2>1, <2>2
  <1>4. CASE (Main /\ ~Accept) \/ WokenUp
    BY <1>2, <1>4, MainAdvances
  <1>5. CASE Main /\ Accept
    BY <1>3, <1>5, AcceptAdvances DEF Main
  <1>6. CASE Scheduler
    BY <1>3, <1>6
  <1>7. ASSUME NEW c \in Clients, Handler(c) \/ Client(c)
        PROVE  Advances(c)
    BY <1>7, HandlerAdvances DEF TypeInv
  <1> QED
    BY <1>3, <1>4, <1>5, <1>6, <1>7 DEF Next

(* No thread of the server or of the clients takes a step for nothing: no  *)
(* connection is accepted, queued, taken or served without getting closer  *)
(* to its end.  With the theorem before, only a thread that is never run   *)
(* can keep the client threads from ending.                                *)
THEOREM StepsRunOutCorrect == Spec => StepsRunOut
  <1>1. CASE Cuts = FALSE /\ NumWords # 0
    <2>1. TypeInv /\ WorkInv => NumbersInv
      BY WorkNumbers DEF TypeInv
    <2>2. TypeInv /\ PlaceInv /\ StepInv /\ WorkInv /\ NumbersInv /\ NumbersInv'
             /\ [Next]_vars
             => [~Cuts =>
                   /\ \A c \in Clients : Work(c)' \in 0 .. Work(c)
                   /\ \/ \E c \in Clients : Work(c)' # Work(c)
                      \/ MainWork' < MainWork]_vars
      BY <1>1, StepWorks, SchedulerAdvances, ClientAdvances DEF TypeInv
    <2> QED
      BY <1>1, <2>1, <2>2, TypeInvariant, PlaceCorrect, StepCorrect,
         WorkCorrect, PTL DEF Spec, StepsRunOut
  <1>2. CASE Cuts = FALSE /\ NumWords = 0
    <2>1. TypeInv /\ EmptyInv => NumbersInv /\ Unsent
      BY <1>2, EmptyNumbers DEF TypeInv
    <2>2. TypeInv /\ PlaceInv /\ EmptyInv /\ NumbersInv /\ NumbersInv'
             /\ Unsent /\ Unsent' /\ [Next]_vars
             => [~Cuts =>
                   /\ \A c \in Clients : Work(c)' \in 0 .. Work(c)
                   /\ \/ \E c \in Clients : Work(c)' # Work(c)
                      \/ MainWork' < MainWork]_vars
      BY <1>2, StepWorks, EmptySchedulerAdvances, EmptyClientAdvances
    <2> QED
      BY <1>2, <2>1, <2>2, TypeInvariant, PlaceCorrect, EmptyCorrect, PTL
      DEF Spec, StepsRunOut
  <1>3. CASE Cuts = TRUE
    <2>1. [Next]_vars
             => [~Cuts =>
                   /\ \A c \in Clients : Work(c)' \in 0 .. Work(c)
                   /\ \/ \E c \in Clients : Work(c)' # Work(c)
                      \/ MainWork' < MainWork]_vars
      BY <1>3
    <2> QED
      BY <2>1, PTL DEF Spec, StepsRunOut
  <1> QED
    BY <1>1, <1>2, <1>3, CutsAssumption

-----------------------------------------------------------------------------
(* Part 4 implements WordCount.                                            *)

Taken(c) == IF is_read[c] THEN NumWords ELSE offset[c]

(* What the finished windows of a client hold.                             *)
LEMMA FinishedIs ==
    ASSUME TypeOK, NEW c \in Clients, InStep(c)
    PROVE  Finished(c) = Full(Taken(c))
  <1> SUFFICES ASSUME NEW e \in Words, e < offset[c] \/ is_read[c]
               PROVE  word_count[c][e] = 1 /\ e < Taken(c)
    <2>1. \A e \in Words : e < NumWords
      BY ConfigAssumption DEF Words
    <2> QED
      BY <2>1 DEF Finished, Full, Taken
  <1>1. /\ offset[c] \in Nat /\ e \in Nat /\ e < NumWords
    BY StepTypes, ConfigAssumption DEF Words
  <1>2. e < Taken(c)
    BY <1>1 DEF Taken
  <1>3. CASE is_read[c]
    <2>1. Tallied(word_count[c], NumWords)
      BY <1>3 DEF InStep
    <2> QED
      BY <1>1, <1>2, <2>1 DEF Tallied
  <1>4. CASE ~is_read[c]
    <2>1. e < offset[c]
      BY <1>4
    <2>2. PICK x \in Nat : offset[c] <= x /\ Tallied(word_count[c], x)
      BY DEF InStep, StepKept
    <2>3. e < x
      BY <1>1, <2>1, <2>2
    <2> QED
      BY <1>2, <2>2, <2>3 DEF Tallied
  <1> QED
    BY <1>3, <1>4

TakesBatch(c) ==
    /\ ~is_read[c]
    /\ offset[c] + k <= NumWords
    /\ offset' = [offset EXCEPT ![c] = @ + k]
    /\ is_read' = is_read

TakesLast(c) ==
    /\ ~is_read[c]
    /\ offset[c] <= NumWords /\ offset[c] + k >= NumWords
    /\ is_read' = [is_read EXCEPT ![c] = TRUE]
    /\ offset' = offset

TakesNothing == offset' = offset /\ is_read' = is_read

LEMMA ClientTakes ==
    ASSUME TypeOK, Cuts = FALSE, NEW c \in Clients, InStep(c), ClientStep(c)
    PROVE  TakesBatch(c) \/ TakesLast(c) \/ TakesNothing
  <1>0. /\ offset \in [Clients -> Nat] /\ offset[c] \in Nat
        /\ k \in Nat \ {0} /\ NumWords \in Nat
    BY ConfigAssumption DEF TypeOK, FriendlyClientTypeOK
  <1>1. CASE \/ Connect(c) \/ ConnectRefused(c)
             \/ ServerClosed(c) \/ LastPacket(c) \/ WriteTable(c)
    BY <1>1 DEF Connect, ConnectRefused, ServerClosed, LastPacket, WriteTable,
                TakesNothing
  <1>2. CASE EndOfFile(c)
    <2>1. /\ phase[c] = "recv" /\ StepAnswered(c) /\ Sent(c) = NumWords
          /\ offset' = offset /\ is_read' = [is_read EXCEPT ![c] = TRUE]
      BY <1>2, StepEnd
    <2>2. ~is_read[c]
      BY <2>1 DEF InStep
    <2>3. \E x \in Nat : /\ offset[c] <= x /\ x <= NumWords
                         /\ NumWords <= BatchEnd(offset[c])
      BY <2>1, StepTypes DEF StepAnswered, Answered
    <2>4. offset[c] <= NumWords /\ offset[c] + k >= NumWords
      <3>1. BatchEnd(offset[c]) \in Nat /\ BatchEnd(offset[c]) <= offset[c] + k
        BY <1>0, BatchEndProperties
      <3> HIDE DEF BatchEnd
      <3> QED
        BY <1>0, <2>3, <3>1
    <2> QED
      BY <2>1, <2>2, <2>4 DEF TakesLast
  <1>3. CASE CountWords(c)
    <2>1. phase[c] = "recv" /\ is_read' = is_read
      BY <1>3, StepCounts
    <2>2. ~is_read[c]
      BY <2>1 DEF InStep
    <2>3. \/ offset' = offset
          \/ /\ offset' = [offset EXCEPT ![c] = @ + k]
             /\ offset'[c] < NumWords
      BY <1>3, StepCounts DEF Requested
    <2>4. ASSUME offset' = [offset EXCEPT ![c] = @ + k],
                 offset'[c] < NumWords
          PROVE  offset[c] + k <= NumWords
      <3>1. offset'[c] = offset[c] + k
        BY <1>0, <2>4
      <3> QED
        BY <1>0, <2>4, <3>1
    <2> QED
      BY <2>1, <2>2, <2>3, <2>4 DEF TakesBatch, TakesNothing
  <1> QED
    BY <1>1, <1>2, <1>3 DEF ClientStep

LEMMA NextTakes ==
    ASSUME TypeInv, Cuts = FALSE, StepInv, [Next]_vars
    PROVE  \/ \E c \in Clients : TakesBatch(c) \/ TakesLast(c)
           \/ TakesNothing
  <1>1. ASSUME UNCHANGED clientVars
        PROVE  TakesNothing
    BY <1>1 DEF clientVars, TakesNothing
  <1>2. ASSUME NEW c \in Clients, Client(c)
        PROVE  TakesBatch(c) \/ TakesLast(c) \/ TakesNothing
    BY <1>2, ClientTakes DEF Client, TypeInv, StepInv
  <1> QED
    BY <1>1, <1>2 DEF Next, Main, WokenUp, Scheduler, Handler, vars

(* The operators of WordFile mean the same in the instance.                *)
LEMMA SameOperators ==
    /\ \A a, b : Abs!Run(a, b) = Run(a, b)
    /\ \A table, s : Abs!CountAll(table, s) = CountAll(table, s)
    /\ Abs!EmptyTable = Full(0)
  <1>1. Abs!HUH = HUH /\ Abs!Words = Words
    BY DEF Abs!HUH, HUH, Abs!Words, Words
  <1>2. Abs!Entry = Entry
    BY <1>1 DEF Abs!Entry, Entry
  <1>3. \A a, b : Abs!Run(a, b) = Run(a, b)
    BY DEF Abs!Run, Run
  <1>4. \A table, s : Abs!CountAll(table, s) = CountAll(table, s)
    BY <1>2
    DEF Abs!CountAll, CountAll, Abs!Occurrences, Occurrences,
        Abs!Cardinality, Cardinality
  <1>5. Full(0) = [e \in Entry |-> 0]
    BY WordsAreNumbers DEF Full
  <1>6. Abs!EmptyTable = Full(0)
    BY <1>2, <1>5 DEF Abs!EmptyTable
  <1> QED
    BY <1>3, <1>4, <1>6

(* The tables of the abstract readers.                                     *)
AbsTally == [c \in Clients |-> Finished(c)]

Tallies == AbsTally = [c \in Clients |-> Full(Taken(c))]

LEMMA TalliesAre ==
    ASSUME TypeOK, StepInv
    PROVE  Tallies
  <1>1. \A c \in Clients : Finished(c) = Full(Taken(c))
    BY FinishedIs DEF StepInv
  <1> QED
    BY <1>1 DEF Tallies, AbsTally

LEMMA InitRefines == Init => Abs!Init
  <1> SUFFICES ASSUME Init
               PROVE  Abs!Init
    OBVIOUS
  <1>1. /\ offset = [c \in Clients |-> 0]
        /\ is_read = [c \in Clients |-> FALSE]
    BY DEF Init, ClientInit
  <1>2. \A c \in Clients : Finished(c) = Full(0)
    <2>1. \A e \in Words : ~(e < 0)
      BY WordsAreNumbers
    <2>2. \A c \in Clients : ~is_read[c] /\ offset[c] = 0
      BY <1>1
    <2> QED
      BY <2>1, <2>2 DEF Finished, Full
  <1>3. AbsTally = [c \in Clients |-> Full(0)]
    BY <1>2 DEF AbsTally
  <1> QED
    BY <1>1, <1>3, SameOperators DEF Abs!Init, AbsTally

(* With an empty file nothing is ever counted.                             *)
LEMMA EmptyTallies ==
    ASSUME EmptyInv, NumWords = 0
    PROVE  Tallies
  <1>1. \A c \in Clients : Finished(c) = Full(Taken(c))
    <2>1. Words = {} /\ \A c \in Clients : Taken(c) = 0
      BY DEF Words, EmptyInv, EmptyClient, Taken
    <2>2. \A e \in Entry : e \notin Words
      BY <2>1
    <2> QED
      BY <2>1, <2>2 DEF Finished, Full
  <1> QED
    BY <1>1 DEF Tallies, AbsTally

LEMMA EmptyTakesNothing ==
    ASSUME TypeInv, TypeInv', EmptyInv, EmptyInv'
    PROVE  TakesNothing
  <1>1. \A c \in Clients : /\ offset[c] = 0 /\ offset'[c] = 0
                           /\ ~is_read[c] /\ ~is_read'[c]
    BY DEF EmptyInv, EmptyClient
  <1>2. /\ offset \in [Clients -> Nat] /\ offset' \in [Clients -> Nat]
        /\ is_read \in [Clients -> BOOLEAN] /\ is_read' \in [Clients -> BOOLEAN]
    BY DEF TypeInv, TypeOK, FriendlyClientTypeOK
  <1>3. offset' = offset
    BY <1>1, <1>2
  <1>4. is_read' = is_read
    <2>1. \A c \in Clients : is_read'[c] = is_read[c]
      BY <1>1, <1>2, Zenon
    <2> QED
      BY <1>2, <2>1
  <1> QED
    BY <1>3, <1>4 DEF TakesNothing

LEMMA StepRefines ==
    ASSUME TypeInv, Tallies, Tallies',
           \/ \E c \in Clients : TakesBatch(c) \/ TakesLast(c)
           \/ TakesNothing
    PROVE  [Abs!Next]_(Abs!absVars)
  <1>1. /\ AbsTally = [c \in Clients |-> Full(Taken(c))]
        /\ AbsTally' = [c \in Clients |-> Full(Taken(c)')]
    BY DEF Tallies
  <1>2. /\ offset \in [Clients -> Nat] /\ k \in Nat /\ NumWords \in Nat
        /\ is_read \in [Clients -> BOOLEAN]
    BY ConfigAssumption DEF TypeInv, TypeOK, FriendlyClientTypeOK
  <1>3. \A c \in Clients :
           /\ Taken(c) = IF is_read[c] THEN NumWords ELSE offset[c]
           /\ Taken(c)' = IF is_read'[c] THEN NumWords ELSE offset'[c]
    BY DEF Taken
  <1>4. ASSUME TakesNothing
        PROVE  UNCHANGED Abs!absVars
    <2>1. AbsTally' = AbsTally
      BY <1>1, <1>3, <1>4 DEF TakesNothing
    <2> QED
      BY <1>4, <2>1 DEF Abs!absVars, AbsTally, TakesNothing
  <1>5. ASSUME NEW c \in Clients, TakesBatch(c)
        PROVE  Abs!CountBatch(c)
    <2>1. /\ offset'[c] = offset[c] + k
          /\ \A d \in Clients \ {c} : offset'[d] = offset[d]
      BY <1>2, <1>5 DEF TakesBatch
    <2>2. ~is_read[c] /\ is_read' = is_read
      BY <1>5 DEF TakesBatch
    <2>3. Full(Taken(c)')
             = CountAll(Full(Taken(c)), Run(offset[c], offset[c] + k))
      BY <1>2, <1>3, <2>1, <2>2, FullCounts
    <2>4. \A d \in Clients \ {c} : Taken(d)' = Taken(d)
      BY <1>3, <2>1, <2>2
    <2>5. AbsTally' = [AbsTally EXCEPT
             ![c] = CountAll(@, Run(offset[c], offset[c] + k))]
      BY <1>1, <2>3, <2>4
    <2>6. Run(offset[c], offset[c] + k) \in Abs!Windows(offset[c])
      BY SameOperators DEF Abs!Windows
    <2> QED
      BY <1>5, <2>5, <2>6, SameOperators
      DEF Abs!CountBatch, AbsTally, TakesBatch
  <1>6. ASSUME NEW c \in Clients, TakesLast(c)
        PROVE  Abs!CountLast(c)
    <2>1. /\ ~is_read[c] /\ is_read'[c] /\ offset' = offset
          /\ \A d \in Clients \ {c} : is_read'[d] = is_read[d]
      BY <1>2, <1>6, Zenon DEF TakesLast
    <2>2. Full(Taken(c)') = CountAll(Full(Taken(c)), Run(offset[c], NumWords))
      <3>1. offset[c] <= NumWords /\ offset[c] \in Nat
        BY <1>2, <1>6 DEF TakesLast
      <3> QED
        BY <1>2, <1>3, <2>1, <3>1, FullCounts
    <2>3. \A d \in Clients \ {c} : Taken(d)' = Taken(d)
      BY <1>3, <2>1
    <2>4. AbsTally' = [AbsTally EXCEPT
             ![c] = CountAll(@, Run(offset[c], NumWords))]
      BY <1>1, <2>2, <2>3
    <2> QED
      BY <1>6, <2>4, SameOperators DEF Abs!CountLast, AbsTally, TakesLast
  <1> QED
    BY <1>4, <1>5, <1>6 DEF Abs!Next

(* Each client and the scheduler count the file window by window, as       *)
(* WordCount describes, and lose no word, whichever policy chooses whom    *)
(* to answer and whenever the server ends.                                 *)
THEOREM Refinement ==
    ASSUME Cuts = FALSE
    PROVE  Spec => AbsSpec
  <1>1. CASE NumWords # 0
    <2>1. TypeInv /\ StepInv => Tallies
      BY TalliesAre DEF TypeInv
    <2>2. TypeInv /\ StepInv /\ Tallies /\ Tallies' /\ [Next]_vars
             => [Abs!Next]_(Abs!absVars)
      BY StepRefines, NextTakes
    <2> QED
      BY <1>1, <2>1, <2>2, InitRefines, TypeInvariant, StepCorrect, PTL
      DEF Spec, AbsSpec, Abs!Spec
  <1>2. CASE NumWords = 0
    <2>1. EmptyInv => Tallies
      BY <1>2, EmptyTallies
    <2>2. TypeInv /\ TypeInv' /\ EmptyInv /\ EmptyInv' /\ Tallies /\ Tallies'
             => [Abs!Next]_(Abs!absVars)
      BY StepRefines, EmptyTakesNothing
    <2> QED
      BY <1>2, <2>1, <2>2, InitRefines, TypeInvariant, EmptyCorrect, PTL
      DEF Spec, AbsSpec, Abs!Spec
  <1> QED
    BY <1>1, <1>2
=============================================================================
