--------------------------- MODULE Sessions_proofs ---------------------------
(***************************************************************************)
(* Theorems about parts 1 and 2, for every number of sessions, every file, *)
(* every k and p, and streams that recv cuts or not: types, and no         *)
(* word counted twice.  Where every recv ends where a send ended, also     *)
(* that the tables are right, that what is asked for is answered, that     *)
(* handler and client never wait for each other, that no step is in vain,  *)
(* and that parts 1 and 2 implement WordCount.                             *)
(***************************************************************************)
EXTENDS Sessions, Stream_proofs

-----------------------------------------------------------------------------
(* Type correctness.                                                       *)

LEMMA ReadParts ==
    ASSUME NEW s \in Seq(Text \cup {NL}), NEW r \in Reads(s)
    PROVE  StreamRead(s, r)
  BY WholeReadsDivide, CutReadsDivide DEF Reads

(* A packet is a run of words and what ends it, in which there is no word. *)
LEMMA PacketParts ==
    ASSUME NEW a \in Nat, NEW b \in Nat, b <= NumWords
    PROVE  \E q \in Seq(Text \cup {NL}) :
              /\ NoWord(q)
              /\ Packet(a, b) = Run(a, b) \o q
              /\ Packet(a, b) \in Seq(Text \cup {NL})
  <1>1. Run(a, b) \in Seq(Words)
    BY RunInFile
  <1>2. Run(a, b) \in Seq(Text \cup {NL})
    BY <1>1, SeqMonotonic, Zenon DEF Text
  <1>3. /\ <<NL, END, NL>> \in Seq(Text \cup {NL})
        /\ <<NL>> \in Seq(Text \cup {NL})
    BY DEF Text
  <1>4. \A q \in {<<NL, END, NL>>, <<NL>>} : NoWord(q)
    BY DEF NoWord, Words, NL, END
  <1>5. PICK q \in {<<NL, END, NL>>, <<NL>>} : Packet(a, b) = Run(a, b) \o q
    BY DEF Packet
  <1>6. Run(a, b) \o q \in Seq(Text \cup {NL})
    BY <1>2, <1>3, ConcatProperties
  <1> QED
    BY <1>3, <1>4, <1>5, <1>6

LEMMA BatchEndRange ==
    ASSUME NEW o \in Nat
    PROVE  BatchEnd(o) \in 0 .. NumWords
  <1>1. BatchEnd(o) \in Nat /\ BatchEnd(o) <= NumWords /\ NumWords \in Nat
    BY BatchEndProperties, ConfigAssumption
  <1> HIDE DEF BatchEnd
  <1> QED
    BY <1>1

LEMMA AnswerType ==
    ASSUME TypeOK, NEW c \in Clients,
           NEW tokens \in Seq(Text \cup {NL}), Answer(c, tokens)
    PROVE  toClient' \in [Clients -> Seq(Text \cup {NL})]
  <1>1. toClient[c] \o tokens \in Seq(Text \cup {NL})
    BY ConcatProperties DEF TypeOK
  <1> QED
    BY <1>1 DEF TypeOK, Answer

LEMMA TakeRequestType ==
    ASSUME TypeOK, NEW c \in Clients, TakeRequest(c)
    PROVE  /\ toServer' \in [Clients -> Seq(Nat)]
           /\ Head(toServer[c]) \in Nat
  <1>1. PICK m \in 1 .. Len(toServer[c]) :
           toServer' = [toServer EXCEPT ![c] = Rest(@, m)]
    BY DEF TakeRequest
  <1>2. toServer[c] \in Seq(Nat) /\ toServer[c] # <<>>
    BY <1>1 DEF TypeOK
  <1>3. Rest(toServer[c], m) \in Seq(Nat)
    BY <1>1, <1>2, TakeProperties, Zenon DEF Rest
  <1> QED
    BY <1>1, <1>2, <1>3, TailParts DEF TypeOK

LEMMA MainType ==
    ASSUME TypeOK, Main
    PROVE  TypeOK'
  BY DEF Main, Accepting, Accept, Exit, TypeOK, setup, clientVars, wireVars,
         handlerVars

(* The packet SendPacket sends ends at b.                                  *)
LEMMA SendPacketParts ==
    ASSUME TypeOK, NEW c \in Clients, SendPacket(c)
    PROVE  \E b \in Nat :
              /\ req[c] < b /\ b <= z[c] /\ b <= NumWords
              /\ Answer(c, Packet(req[c], b))
              /\ req' = [req EXCEPT ![c] = b]
              /\ is_sent' = [is_sent EXCEPT ![c] = HasEnd(Packet(req[c], b))]
  <1> DEFINE b == IF req[c] + p < z[c] THEN req[c] + p ELSE z[c]
  <1>1. /\ req[c] \in Nat /\ z[c] \in 0 .. NumWords /\ req[c] < z[c]
        /\ p \in Nat \ {0} /\ NumWords \in Nat
    BY ConfigAssumption DEF TypeOK, SendPacket
  <1>2. b \in Nat /\ req[c] < b /\ b <= z[c] /\ b <= NumWords
    BY <1>1
  <1>3. /\ Answer(c, Packet(req[c], b))
        /\ req' = [req EXCEPT ![c] = b]
        /\ is_sent' = [is_sent EXCEPT ![c] = HasEnd(Packet(req[c], b))]
    BY DEF SendPacket
  <1> QED
    BY <1>2, <1>3

LEMMA HandlerType ==
    ASSUME TypeOK, NEW c \in Clients, Handler(c)
    PROVE  TypeOK'
  <1>0. UNCHANGED <<setup, clientVars>> /\ HandlerStep(c)
    BY DEF Handler
  <1> USE DEF TypeOK, setup, clientVars, wireVars
  <1>1. CASE OutOfRange(c)
    <2>1. toServer' \in [Clients -> Seq(Nat)]
      BY <1>1, TakeRequestType DEF OutOfRange
    <2>2. <<DOLLAR, NL>> \in Seq(Text \cup {NL})
      BY DEF Text
    <2>3. toClient' \in [Clients -> Seq(Text \cup {NL})]
      BY <1>1, <2>2, AnswerType DEF OutOfRange
    <2> QED
      BY <1>0, <1>1, <2>1, <2>3 DEF OutOfRange
  <1>2. CASE BeginAnswer(c)
    <2>1. toServer' \in [Clients -> Seq(Nat)] /\ Head(toServer[c]) \in Nat
      BY <1>2, TakeRequestType DEF BeginAnswer
    <2>2. BatchEnd(Head(toServer[c])) \in 0 .. NumWords
      BY <2>1, BatchEndRange
    <2> QED
      BY <1>0, <1>2, <2>1, <2>2 DEF BeginAnswer
  <1>3. CASE SendPacket(c)
    <2>1. PICK b \in Nat :
             /\ b <= NumWords
             /\ Answer(c, Packet(req[c], b))
             /\ req' = [req EXCEPT ![c] = b]
             /\ is_sent' = [is_sent EXCEPT ![c] = HasEnd(Packet(req[c], b))]
      BY <1>3, SendPacketParts
    <2>2. Packet(req[c], b) \in Seq(Text \cup {NL})
      <3>1. req[c] \in Nat
        OBVIOUS
      <3> QED
        BY <2>1, <3>1, PacketParts
    <2>3. toClient' \in [Clients -> Seq(Text \cup {NL})]
      BY <2>1, <2>2, AnswerType
    <2>4. is_sent' \in [Clients -> BOOLEAN]
      <3>1. HasEnd(Packet(req[c], b)) \in BOOLEAN
        BY DEF HasEnd
      <3>2. is_sent \in [Clients -> BOOLEAN]
        OBVIOUS
      <3> QED
        BY <2>1, <3>1, <3>2, Zenon
    <2>5. /\ toServer' = toServer /\ running' = running /\ closed' = closed
          /\ hpc' = hpc /\ z' = z
      BY <1>3 DEF SendPacket
    <2>6. req' \in [Clients -> Nat]
      BY <2>1
    <2> QED
      BY <1>0, <2>3, <2>4, <2>5, <2>6
  <1>4. CASE EndAnswer(c)
    <2>1. \E h \in {"end", "recv"} : hpc' = [hpc EXCEPT ![c] = h]
      BY <1>4, Zenon DEF EndAnswer
    <2>2. /\ req' = [req EXCEPT ![c] = 0] /\ z' = [z EXCEPT ![c] = 0]
          /\ UNCHANGED <<wireVars, running, closed, is_sent>>
      BY <1>4, Zenon DEF EndAnswer
    <2>3. 0 \in 0 .. NumWords
      BY ConfigAssumption
    <2>4. hpc' \in [Clients -> {"none", "recv", "serve", "end"}]
      BY <2>1
    <2>5. req' \in [Clients -> Nat] /\ z' \in [Clients -> 0 .. NumWords]
      BY <2>2, <2>3
    <2> QED
      BY <1>0, <2>2, <2>4, <2>5
  <1> QED
    BY <1>0, <1>1, <1>2, <1>3, <1>4 DEF HandlerStep

LEMMA CountType ==
    ASSUME TypeOK, NEW c \in Clients, NEW packet \in Seq(Text \cup {NL}),
           Count(c, packet)
    PROVE  word_count' \in [Clients -> [Key -> Nat]]
  <1>1. \A w \in Key : Occurrences(packet, w) \in Nat
    BY OccurrencesType, Zenon
  <1>2. [w \in Key |-> word_count[c][w] + Occurrences(packet, w)]
           \in [Key -> Nat]
    BY <1>1 DEF TypeOK
  <1> QED
    BY <1>2 DEF TypeOK, Count

LEMMA AskType ==
    ASSUME TypeOK, NEW c \in Clients, NEW n \in Nat, MaybeAsk(c, n)
    PROVE  /\ offset' \in [Clients -> Nat]
           /\ total_words' \in [Clients -> Nat]
           /\ toServer' \in [Clients -> Seq(Nat)]
  <1>1. NextOffset(c, n) \in Nat
    BY ConfigAssumption DEF TypeOK, NextOffset
  <1>2. Append(toServer[c], NextOffset(c, n)) \in Seq(Nat)
    BY <1>1, AppendProperties DEF TypeOK
  <1>3. \/ /\ offset' = [offset EXCEPT ![c] = NextOffset(c, n)]
           /\ toServer' = [toServer EXCEPT
                              ![c] = Append(toServer[c], NextOffset(c, n))]
           /\ total_words' = [total_words EXCEPT ![c] = 0]
        \/ /\ total_words' = [total_words EXCEPT ![c] = n]
           /\ UNCHANGED <<offset, toServer>>
    BY DEF MaybeAsk
  <1>4. /\ offset \in [Clients -> Nat] /\ total_words \in [Clients -> Nat]
        /\ toServer \in [Clients -> Seq(Nat)]
    BY DEF TypeOK
  <1>5. \A o \in Nat : [offset EXCEPT ![c] = o] \in [Clients -> Nat]
    BY <1>4
  <1>6. \A t \in Nat : [total_words EXCEPT ![c] = t] \in [Clients -> Nat]
    BY <1>4
  <1>7. \A q \in Seq(Nat) : [toServer EXCEPT ![c] = q] \in [Clients -> Seq(Nat)]
    BY <1>4
  <1>8. offset' = offset \/ \E o \in Nat : offset' = [offset EXCEPT ![c] = o]
    BY <1>1, <1>3
  <1>9. \/ toServer' = toServer
        \/ \E q \in Seq(Nat) : toServer' = [toServer EXCEPT ![c] = q]
    BY <1>2, <1>3
  <1>10. \E t \in Nat : total_words' = [total_words EXCEPT ![c] = t]
    BY <1>3
  <1>11. offset' \in [Clients -> Nat]
    BY <1>4, <1>5, <1>8
  <1>12. toServer' \in [Clients -> Seq(Nat)]
    BY <1>4, <1>7, <1>9
  <1>13. total_words' \in [Clients -> Nat]
    BY <1>6, <1>10
  <1> QED
    BY <1>11, <1>12, <1>13

LEMMA ReceiveType ==
    ASSUME TypeOK, NEW c \in Clients, NEW r \in Reads(toClient[c]),
           Receive(c, r)
    PROVE  /\ StreamRead(toClient[c], r)
           /\ r.packet \in Seq(Text \cup {NL})
           /\ toClient' \in [Clients -> Seq(Text \cup {NL})]
  <1>1. toClient[c] \in Seq(Text \cup {NL})
    BY DEF TypeOK
  <1>2. StreamRead(toClient[c], r)
    BY <1>1, ReadParts
  <1>3. r.packet \in Seq(Text \cup {NL}) /\ r.rest \in Seq(Text \cup {NL})
    BY <1>2 DEF StreamRead
  <1> QED
    BY <1>2, <1>3 DEF Receive, TypeOK

LEMMA ClientType ==
    ASSUME TypeOK, NEW c \in Clients, Client(c)
    PROVE  TypeOK'
  <1>0. UNCHANGED <<setup, serverVars>> /\ ClientStep(c)
    BY DEF Client
  <1> USE DEF TypeOK, setup, serverVars, handlerVars, wireVars
  <1>1. CASE Connect(c)
    <2>1. Append(toServer[c], offset[c]) \in Seq(Nat)
      BY AppendProperties
    <2> QED
      BY <1>0, <1>1, <2>1 DEF Connect
  <1>2. CASE ServerClosed(c)
    BY <1>0, <1>2 DEF ServerClosed, Finish
  <1>3. CASE Refused(c)
    <2>1. PICK r \in Reads(toClient[c]) :
             /\ Receive(c, r) /\ Finish(c)
             /\ UNCHANGED <<toServer, offset, total_words, word_count>>
      BY <1>3 DEF Refused
    <2> QED
      BY <1>0, <2>1, ReceiveType DEF Finish
  <1>4. CASE EndOfFile(c)
    <2>1. PICK r \in Reads(toClient[c]) :
             /\ Receive(c, r)
             /\ \E m \in 0 .. Len(r.packet) - 1 :
                   BeforeEnd(r.packet, m) /\ Count(c, First(r.packet, m))
             /\ Finish(c)
             /\ UNCHANGED <<toServer, offset, total_words>>
      BY <1>4 DEF EndOfFile
    <2>2. PICK m \in 0 .. Len(r.packet) - 1 : Count(c, First(r.packet, m))
      BY <2>1
    <2>3. r.packet \in Seq(Text \cup {NL})
      BY <2>1, ReceiveType
    <2>4. m \in 0 .. Len(r.packet)
      BY <2>3, LenProperties
    <2>5. First(r.packet, m) \in Seq(Text \cup {NL})
      BY <2>3, <2>4, PrefixType
    <2> QED
      BY <1>0, <2>1, <2>2, <2>5, ReceiveType, CountType DEF Finish
  <1>5. CASE CountWords(c)
    <2>1. PICK r \in Reads(toClient[c]) :
             /\ Receive(c, r)
             /\ Count(c, r.packet)
             /\ MaybeAsk(c, total_words[c] + TextLen(r.packet)
                                           - Occurrences(r.packet, COMMA))
             /\ UNCHANGED phase
      BY <1>5 DEF CountWords
    <2>2. r.packet \in Seq(Text \cup {NL})
      BY <2>1, ReceiveType
    <2>3. /\ TextLen(r.packet) \in Nat
          /\ Occurrences(r.packet, COMMA) \in Nat
          /\ Occurrences(r.packet, COMMA) <= TextLen(r.packet)
      BY <2>2, TextLenType, OccurrencesType
    <2>4. total_words[c] + TextLen(r.packet) - Occurrences(r.packet, COMMA)
             \in Nat
      BY <2>3
    <2> QED
      BY <1>0, <2>1, <2>2, <2>4, ReceiveType, CountType, AskType
  <1> QED
    BY <1>0, <1>1, <1>2, <1>3, <1>4, <1>5 DEF ClientStep

LEMMA InitType == Init => TypeOK
  <1>1. <<>> \in Seq(Nat) /\ <<>> \in Seq(Text \cup {NL})
    BY EmptySeq
  <1> QED
    BY <1>1, ConfigAssumption DEF Init, WireInit, ServerInit, TypeOK

LEMMA TypeStep ==
    ASSUME TypeOK, [Next]_vars
    PROVE  TypeOK'
  <1>1. CASE UNCHANGED vars
    BY <1>1 DEF vars, wireVars, setup, serverVars, handlerVars, clientVars,
                TypeOK
  <1> QED
    BY <1>1, MainType, HandlerType, ClientType DEF Next

(* Every variable of parts 1 and 2 keeps its type.                         *)
THEOREM TypeCorrect == Spec => []TypeOK
  BY InitType, TypeStep, PTL DEF Spec

-----------------------------------------------------------------------------
(* No word is counted twice by part 1.                                     *)

(* A client, its stream and its handler, see Stream_proofs.  A client that *)
(* has not connected has nothing.                                          *)
ClientWindow(c) ==
    /\ Idle(word_count[c], toClient[c], toServer[c], offset[c])
    /\ hpc[c] = "serve" =>
          /\ phase[c] # "new"
          /\ Serving(word_count[c], toClient[c], toServer[c], offset[c],
                     req[c], z[c])
    /\ phase[c] = "new" =>
          /\ toServer[c] = <<>> /\ offset[c] = 0
          /\ \A w \in Words : ~Appears(word_count[c], toClient[c], w)

WindowInv == part = 1 => \A c \in Clients : ClientWindow(c)

LEMMA InitWindow == Init => WindowInv
  <1> SUFFICES ASSUME Init, NEW c \in Clients
               PROVE  ClientWindow(c)
    BY DEF WindowInv
  <1>1. /\ toServer[c] = <<>> /\ toClient[c] = <<>> /\ offset[c] = 0
        /\ hpc[c] = "none"
    BY DEF Init, WireInit, ServerInit
  <1>2. \A w \in Words : word_count[c][w] = 0
    BY DEF Init, Key
  <1>3. \A j \in DOMAIN <<>> : FALSE
    OBVIOUS
  <1>4. \A w \in Words : ~Appears(word_count[c], toClient[c], w)
    BY <1>1, <1>2, <1>3 DEF Appears
  <1>5. Idle(word_count[c], toClient[c], toServer[c], offset[c])
    BY <1>1, <1>2, <1>3, <1>4
    DEF Idle, CountedOnce, OnceIn, Asked, Ahead
  <1> QED
    BY <1>1, <1>4, <1>5 DEF ClientWindow

(* What concerns one client concerns no other.                             *)
LEMMA WindowFrame ==
    ASSUME NEW c, ClientWindow(c),
           word_count'[c] = word_count[c], toClient'[c] = toClient[c],
           toServer'[c] = toServer[c], offset'[c] = offset[c],
           hpc'[c] = hpc[c] \/ hpc'[c] # "serve",
           phase'[c] = phase[c] \/ phase'[c] # "new",
           req'[c] = req[c], z'[c] = z[c]
    PROVE  ClientWindow(c)'
  BY DEF ClientWindow

(* The types of one client's variables.                                    *)
LEMMA ClientTypes ==
    ASSUME TypeOK, NEW c \in Clients
    PROVE  /\ toServer[c] \in Seq(Nat)
           /\ toClient[c] \in Seq(Text \cup {NL})
           /\ offset[c] \in Nat /\ req[c] \in Nat
           /\ z[c] \in Nat /\ z[c] <= NumWords
  BY ConfigAssumption DEF TypeOK

LEMMA HandlerWindow ==
    ASSUME TypeOK, NEW c \in Clients, ClientWindow(c), HandlerStep(c),
           UNCHANGED clientVars
    PROVE  /\ ClientWindow(c)'
           /\ \A d \in Clients \ {c} : ClientWindow(d) => ClientWindow(d)'
  <1>0. /\ toServer[c] \in Seq(Nat) /\ toClient[c] \in Seq(Text \cup {NL})
        /\ offset[c] \in Nat /\ req[c] \in Nat
        /\ z[c] \in Nat /\ z[c] <= NumWords
    BY ClientTypes
  <1>a. /\ word_count' = word_count /\ offset' = offset /\ phase' = phase
    BY DEF clientVars
  <1>b. \A d \in Clients \ {c} :
           /\ toClient'[d] = toClient[d] /\ toServer'[d] = toServer[d]
           /\ hpc'[d] = hpc[d] /\ req'[d] = req[d] /\ z'[d] = z[d]
    BY DEF TypeOK, HandlerStep, OutOfRange, BeginAnswer, SendPacket, EndAnswer,
           TakeRequest, Answer, wireVars
  <1>c. \A d \in Clients \ {c} : ClientWindow(d) => ClientWindow(d)'
    BY <1>a, <1>b, WindowFrame
  <1>d. ASSUME TakeRequest(c)
        PROVE  /\ phase[c] # "new"
               /\ Head(toServer[c]) \in Nat
               /\ Idle(word_count[c], toClient[c], toServer'[c], offset[c])
               /\ Serving(word_count[c], toClient[c], toServer'[c], offset[c],
                          Head(toServer[c]), BatchEnd(Head(toServer[c])))
    <2>1. PICK m \in 1 .. Len(toServer[c]) :
             toServer' = [toServer EXCEPT ![c] = Rest(@, m)]
      BY <1>d DEF TakeRequest
    <2>2. toServer'[c] = Rest(toServer[c], m)
      BY <2>1 DEF TypeOK
    <2>3. Idle(word_count[c], toClient[c], toServer[c], offset[c])
      BY DEF ClientWindow
    <2>4. phase[c] # "new"
      BY <2>1 DEF ClientWindow
    <2>5. Head(toServer[c]) \in Nat
      BY <1>0, <2>1, TailParts
    <2> QED
      BY <1>0, <2>2, <2>3, <2>4, <2>5, TakeWindow
  <1>1. CASE OutOfRange(c)
    <2>1. /\ toClient'[c] = toClient[c] \o <<DOLLAR, NL>> /\ hpc'[c] = "end"
      BY <1>1 DEF OutOfRange, Answer, TypeOK
    <2>2. /\ <<DOLLAR, NL>> \in Seq(Text \cup {NL})
          /\ NoWord(<<DOLLAR, NL>>)
      BY DEF NoWord, Text, Words, DOLLAR, NL
    <2>3. phase[c] # "new" /\ Idle(word_count[c], toClient[c], toServer'[c], offset[c])
      BY <1>1, <1>d DEF OutOfRange
    <2>4. Idle(word_count[c], toClient'[c], toServer'[c], offset[c])
      BY <1>0, <2>1, <2>2, <2>3, SendMark
    <2> QED
      BY <1>a, <1>c, <2>1, <2>3, <2>4 DEF ClientWindow
  <1>2. CASE BeginAnswer(c)
    <2>1. /\ toClient'[c] = toClient[c]
          /\ req'[c] = Head(toServer[c]) /\ z'[c] = BatchEnd(Head(toServer[c]))
      BY <1>2 DEF BeginAnswer, TypeOK
    <2> QED
      BY <1>2, <1>a, <1>c, <1>d, <2>1 DEF BeginAnswer, ClientWindow
  <1>3. CASE SendPacket(c)
    <2>1. PICK b \in Nat :
             /\ req[c] < b /\ b <= z[c] /\ b <= NumWords
             /\ Answer(c, Packet(req[c], b))
             /\ req' = [req EXCEPT ![c] = b]
      BY <1>3, SendPacketParts
    <2>2. PICK q \in Seq(Text \cup {NL}) :
             /\ NoWord(q)
             /\ Packet(req[c], b) = Run(req[c], b) \o q
      BY <1>0, <2>1, PacketParts
    <2>3. /\ toClient'[c] = toClient[c] \o (Run(req[c], b) \o q)
          /\ req'[c] = b /\ z'[c] = z[c] /\ hpc'[c] = hpc[c]
          /\ toServer'[c] = toServer[c] /\ hpc[c] = "serve"
      BY <1>3, <2>1, <2>2 DEF SendPacket, Answer, TypeOK
    <2>4. /\ phase[c] # "new"
          /\ Serving(word_count[c], toClient[c], toServer[c], offset[c],
                     req[c], z[c])
      BY <2>3 DEF ClientWindow
    <2>5. req[c] <= b
      BY <1>0, <2>1
    <2>6. Serving(word_count[c], toClient'[c], toServer[c], offset[c], b, z[c])
      <3>1. Serving(word_count[c], toClient[c] \o (Run(req[c], b) \o q),
                    toServer[c], offset[c], b, z[c])
        BY <1>0, <2>1, <2>2, <2>4, <2>5, SendWindow, Zenon
      <3> QED
        BY <2>3, <3>1
    <2>7. Idle(word_count[c], toClient'[c], toServer[c], offset[c])
      BY <2>6 DEF Serving
    <2> QED
      BY <1>a, <1>c, <2>3, <2>4, <2>6, <2>7 DEF ClientWindow
  <1>4. CASE EndAnswer(c)
    <2>1. /\ toClient'[c] = toClient[c] /\ toServer'[c] = toServer[c]
          /\ hpc'[c] # "serve"
      BY <1>4 DEF EndAnswer, wireVars, TypeOK
    <2> QED
      BY <1>a, <1>c, <2>1 DEF ClientWindow
  <1> QED
    BY <1>1, <1>2, <1>3, <1>4 DEF HandlerStep

(* The client counts the words of q, read with r, and asks or does not.    *)
LEMMA CountWindow ==
    ASSUME TypeOK, NEW c \in Clients, ClientWindow(c),
           NEW r \in Reads(toClient[c]), Receive(c, r),
           NEW q \in Seq(Text \cup {NL}),
           Begins(q, r.packet), Counts(word_count[c], q, word_count'[c]),
           phase'[c] # "new", hpc'[c] = hpc[c], req'[c] = req[c], z'[c] = z[c],
           \/ toServer'[c] = toServer[c] /\ offset'[c] = offset[c]
           \/ /\ toServer'[c] = Append(toServer[c], offset[c] + k)
              /\ offset'[c] = offset[c] + k
    PROVE  ClientWindow(c)'
  <1>0. /\ toServer[c] \in Seq(Nat) /\ toClient[c] \in Seq(Text \cup {NL})
        /\ offset[c] \in Nat /\ req[c] \in Nat /\ z[c] \in Nat
    BY ClientTypes
  <1>1. StreamRead(toClient[c], r) /\ toClient'[c] = r.rest
    BY ReceiveType DEF Receive, TypeOK
  <1>2. phase[c] = "recv"
    BY DEF Receive
  <1>3. Idle(word_count[c], toClient[c], toServer[c], offset[c])
    BY DEF ClientWindow
  <1>4. /\ Idle(word_count'[c], r.rest, toServer[c], offset[c])
        /\ \A a, b \in Nat :
              Serving(word_count[c], toClient[c], toServer[c], offset[c], a, b)
              => Serving(word_count'[c], r.rest, toServer[c], offset[c], a, b)
    BY <1>0, <1>1, <1>3, ReadWindow
  <1>5. /\ Idle(word_count'[c], r.rest, toServer'[c], offset'[c])
        /\ \A a, b \in Nat :
              Serving(word_count'[c], r.rest, toServer[c], offset[c], a, b)
              => Serving(word_count'[c], r.rest, toServer'[c], offset'[c], a, b)
    <2>1. CASE toServer'[c] = toServer[c] /\ offset'[c] = offset[c]
      BY <1>4, <2>1
    <2>2. CASE /\ toServer'[c] = Append(toServer[c], offset[c] + k)
               /\ offset'[c] = offset[c] + k
      <3>1. PICK table, s, reqs, o : /\ table = word_count'[c] /\ s = r.rest
                                     /\ reqs = toServer[c] /\ o = offset[c]
        OBVIOUS
      <3>2. Idle(table, s, Append(reqs, o + k), o + k)
        BY <1>0, <1>4, <3>1, AskWindow
      <3>3. \A a, b \in Nat : Serving(table, s, reqs, o, a, b)
               => Serving(table, s, Append(reqs, o + k), o + k, a, b)
        BY <1>0, <1>4, <3>1, AskWindow
      <3> QED
        BY <2>2, <3>1, <3>2, <3>3
    <2> QED
      BY <2>1, <2>2
  <1>6. hpc[c] = "serve" =>
           Serving(word_count'[c], toClient'[c], toServer'[c], offset'[c],
                   req[c], z[c])
    BY <1>0, <1>1, <1>4, <1>5 DEF ClientWindow
  <1> QED
    BY <1>1, <1>5, <1>6 DEF ClientWindow

LEMMA CountsWords ==
    ASSUME TypeOK, NEW c \in Clients, NEW q, Count(c, q)
    PROVE  /\ Counts(word_count[c], q, word_count'[c])
           /\ \A d \in Clients \ {c} : word_count'[d] = word_count[d]
  <1>1. word_count'[c] = [w \in Key |-> word_count[c][w] + Occurrences(q, w)]
    BY DEF Count, TypeOK
  <1>2. \A w \in Words : w \in Key
    BY DEF Key
  <1>3. Counts(word_count[c], q, word_count'[c])
    BY <1>1, <1>2, Zenon DEF Counts
  <1>4. \A d \in Clients \ {c} : word_count'[d] = word_count[d]
    BY DEF Count, TypeOK
  <1> QED
    BY <1>3, <1>4

(* The table stays as it is.                                              *)
LEMMA NothingCounted ==
    ASSUME TypeOK, NEW c \in Clients, UNCHANGED word_count
    PROVE  Counts(word_count[c], <<>>, word_count'[c])
  <1>1. \A w \in Words : Occurrences(<<>>, w) = 0
    BY OccursNowhere
  <1>2. \A w \in Words : word_count[c][w] \in Nat
    BY DEF TypeOK, Key
  <1> QED
    BY <1>1, <1>2 DEF Counts

LEMMA ClientStepWindow ==
    ASSUME TypeOK, part = 1, NEW c \in Clients, ClientWindow(c), Client(c)
    PROVE  /\ ClientWindow(c)'
           /\ \A d \in Clients \ {c} : ClientWindow(d) => ClientWindow(d)'
  <1>0. /\ toServer[c] \in Seq(Nat) /\ toClient[c] \in Seq(Text \cup {NL})
        /\ offset[c] \in Nat
    BY ClientTypes
  <1>a. hpc' = hpc /\ req' = req /\ z' = z /\ ClientStep(c)
    BY DEF Client, serverVars, handlerVars
  <1>b. \A d \in Clients \ {c} :
           /\ toClient'[d] = toClient[d] /\ toServer'[d] = toServer[d]
           /\ offset'[d] = offset[d] /\ phase'[d] = phase[d]
           /\ word_count'[d] = word_count[d]
    <2>1. \A d \in Clients \ {c} : word_count'[d] = word_count[d]
      BY <1>a, CountsWords
      DEF ClientStep, Connect, ServerClosed, Refused, EndOfFile, CountWords
    <2>2. \A d \in Clients \ {c} : phase'[d] = phase[d]
      BY <1>a DEF TypeOK, ClientStep, Connect, ServerClosed, Refused, EndOfFile,
                  CountWords, Finish
    <2>3. \A d \in Clients \ {c} : toClient'[d] = toClient[d]
      BY <1>a DEF TypeOK, ClientStep, Connect, ServerClosed, Refused, EndOfFile,
                  CountWords, Receive, wireVars
    <2>4. \A d \in Clients \ {c} :
             toServer'[d] = toServer[d] /\ offset'[d] = offset[d]
      BY <1>a DEF TypeOK, ClientStep, Connect, ServerClosed, Refused, EndOfFile,
                  CountWords, MaybeAsk, wireVars
    <2> QED
      BY <2>1, <2>2, <2>3, <2>4
  <1>c. \A d \in Clients \ {c} : ClientWindow(d) => ClientWindow(d)'
    BY <1>a, <1>b, WindowFrame
  <1>1. CASE Connect(c)
    <2>1. /\ phase[c] = "new" /\ phase'[c] = "recv"
          /\ toServer'[c] = Append(toServer[c], offset[c])
          /\ toClient'[c] = toClient[c] /\ offset'[c] = offset[c]
          /\ word_count'[c] = word_count[c]
      BY <1>1 DEF Connect, TypeOK
    <2>2. /\ hpc[c] # "serve" /\ toServer[c] = <<>> /\ offset[c] = 0
          /\ \A w \in Words : ~Appears(word_count[c], toClient[c], w)
          /\ Idle(word_count[c], toClient[c], toServer[c], offset[c])
      BY <2>1 DEF ClientWindow
    <2>3. toServer'[c] = <<0>>
      BY <2>1, <2>2
    <2>4. /\ DOMAIN <<0>> = {1} /\ <<0>>[1] = 0
      OBVIOUS
    <2>5. Asked(toServer'[c], offset'[c])
      BY <2>1, <2>2, <2>3, <2>4 DEF Asked
    <2>6. Idle(word_count'[c], toClient'[c], toServer'[c], offset'[c])
      BY <2>1, <2>2, <2>5 DEF Idle, Ahead
    <2> QED
      BY <1>a, <1>c, <2>1, <2>2, <2>6 DEF ClientWindow
  <1>2. CASE ServerClosed(c)
    <2>1. /\ toClient'[c] = toClient[c] /\ toServer'[c] = toServer[c]
          /\ offset'[c] = offset[c] /\ word_count'[c] = word_count[c]
          /\ phase'[c] = "done" /\ phase[c] = "recv"
      BY <1>2 DEF ServerClosed, Finish, wireVars, TypeOK
    <2> QED
      BY <1>a, <1>c, <2>1, WindowFrame
  <1>3. CASE Refused(c)
    <2>1. PICK r \in Reads(toClient[c]) :
             /\ Receive(c, r) /\ Finish(c)
             /\ UNCHANGED <<toServer, offset, total_words, word_count>>
      BY <1>3 DEF Refused
    <2>2. Counts(word_count[c], <<>>, word_count'[c])
      BY <2>1, NothingCounted
    <2>3. <<>> \in Seq(Text \cup {NL}) /\ Begins(<<>>, r.packet)
      BY EmptySeq DEF Begins
    <2>4. phase'[c] = "done"
      BY <2>1 DEF Finish, TypeOK
    <2>5. ClientWindow(c)'
      BY <1>a, <2>1, <2>2, <2>3, <2>4, CountWindow
    <2> QED
      BY <1>c, <2>5
  <1>4. CASE EndOfFile(c)
    <2>1. PICK r \in Reads(toClient[c]) :
             /\ Receive(c, r)
             /\ \E m \in 0 .. Len(r.packet) - 1 :
                   BeforeEnd(r.packet, m) /\ Count(c, First(r.packet, m))
             /\ Finish(c)
             /\ UNCHANGED <<toServer, offset, total_words>>
      BY <1>4 DEF EndOfFile
    <2>2. PICK m \in 0 .. Len(r.packet) - 1 : Count(c, First(r.packet, m))
      BY <2>1
    <2>3. r.packet \in Seq(Text \cup {NL})
      BY <2>1, ReceiveType
    <2>4. m \in 0 .. Len(r.packet)
      BY <2>3, LenProperties
    <2>5. /\ First(r.packet, m) \in Seq(Text \cup {NL})
          /\ Begins(First(r.packet, m), r.packet)
      BY <2>3, <2>4, FirstBegins
    <2>6. Counts(word_count[c], First(r.packet, m), word_count'[c])
      BY <2>2, CountsWords
    <2>7. phase'[c] = "done"
      BY <2>1 DEF Finish, TypeOK
    <2>8. ClientWindow(c)'
      BY <1>a, <2>1, <2>5, <2>6, <2>7, CountWindow
    <2> QED
      BY <1>c, <2>8
  <1>5. CASE CountWords(c)
    <2>1. PICK r \in Reads(toClient[c]) :
             /\ Receive(c, r)
             /\ Count(c, r.packet)
             /\ MaybeAsk(c, total_words[c] + TextLen(r.packet)
                                           - Occurrences(r.packet, COMMA))
             /\ UNCHANGED phase
      BY <1>5 DEF CountWords
    <2>2. r.packet \in Seq(Text \cup {NL}) /\ Begins(r.packet, r.packet)
      BY <2>1, ReceiveType DEF Begins
    <2>3. Counts(word_count[c], r.packet, word_count'[c])
      BY <2>1, CountsWords
    <2>4. phase'[c] # "new"
      BY <2>1 DEF Receive
    <2>5. ASSUME NEW n, MaybeAsk(c, n)
          PROVE  \/ toServer'[c] = toServer[c] /\ offset'[c] = offset[c]
                 \/ /\ toServer'[c] = Append(toServer[c], offset[c] + k)
                    /\ offset'[c] = offset[c] + k
      BY <2>5 DEF MaybeAsk, NextOffset, TypeOK
    <2>6. ClientWindow(c)'
      <3>1. \/ toServer'[c] = toServer[c] /\ offset'[c] = offset[c]
            \/ /\ toServer'[c] = Append(toServer[c], offset[c] + k)
               /\ offset'[c] = offset[c] + k
        BY <2>1, <2>5
      <3> QED
        BY <1>a, <2>1, <2>2, <2>3, <2>4, <3>1, CountWindow
    <2> QED
      BY <1>c, <2>6
  <1> QED
    BY <1>a, <1>1, <1>2, <1>3, <1>4, <1>5 DEF ClientStep

LEMMA MainWindow ==
    ASSUME TypeOK, Main, NEW c \in Clients, ClientWindow(c)
    PROVE  ClientWindow(c)'
  <1>1. /\ toClient' = toClient /\ toServer' = toServer /\ offset' = offset
        /\ word_count' = word_count /\ phase' = phase /\ req' = req /\ z' = z
        /\ hpc'[c] = hpc[c] \/ hpc'[c] # "serve"
    BY DEF Main, Accepting, Accept, Exit, TypeOK, clientVars, handlerVars,
           wireVars
  <1> QED
    BY <1>1, WindowFrame

LEMMA WindowStep ==
    ASSUME TypeOK, WindowInv, [Next]_vars
    PROVE  WindowInv'
  <1> SUFFICES ASSUME part' = 1, NEW d \in Clients
               PROVE  ClientWindow(d)'
    BY DEF WindowInv
  <1>1. part = 1
    BY DEF Next, Main, Handler, Client, vars, setup
  <1>2. \A c \in Clients : ClientWindow(c)
    BY <1>1 DEF WindowInv
  <1>3. CASE Main
    BY <1>2, <1>3, MainWindow
  <1>4. ASSUME NEW c \in Clients, Handler(c)
        PROVE  ClientWindow(d)'
    <2>1. HandlerStep(c) /\ UNCHANGED clientVars
      BY <1>4 DEF Handler
    <2> QED
      BY <1>2, <2>1, HandlerWindow
  <1>5. ASSUME NEW c \in Clients, Client(c)
        PROVE  ClientWindow(d)'
    BY <1>1, <1>2, <1>5, ClientStepWindow
  <1>6. CASE UNCHANGED vars
    <2>1. /\ toClient' = toClient /\ toServer' = toServer /\ offset' = offset
          /\ word_count' = word_count /\ phase' = phase /\ req' = req /\ z' = z
          /\ hpc' = hpc
      BY <1>6 DEF vars, wireVars, serverVars, handlerVars, clientVars
    <2> QED
      BY <1>2, <2>1, WindowFrame
  <1> QED
    BY <1>3, <1>4, <1>5, <1>6 DEF Next

(* The requests of part 1 and what was sent for them keep apart.           *)
THEOREM WindowCorrect == Spec => []WindowInv
  <1>1. Init => WindowInv
    BY InitWindow
  <1>2. TypeOK /\ WindowInv /\ [Next]_vars => WindowInv'
    BY WindowStep
  <1> QED
    BY <1>1, <1>2, TypeCorrect, PTL DEF Spec

(* No word of the file is counted twice by part 1, wherever its stream is  *)
(* cut and however many requests that makes the client send early.         *)
THEOREM CountedAtMostOnceCorrect == Spec => []CountedAtMostOnce
  <1>1. WindowInv => CountedAtMostOnce
    <2> SUFFICES ASSUME WindowInv, part = 1, NEW c \in Clients, NEW w \in Words
                 PROVE  word_count[c][w] <= 1
      BY DEF CountedAtMostOnce
    <2>1. word_count[c][w] \in {0, 1}
      BY DEF WindowInv, ClientWindow, Idle, CountedOnce
    <2> QED
      BY <2>1
  <1> QED
    BY <1>1, WindowCorrect, PTL

-----------------------------------------------------------------------------
(* Parts 1 and 2 where every recv ends where a send ended.                 *)

(* The end of what was sent of the window the client last asked for.       *)
Sent(c) == IF hpc[c] = "serve" THEN req[c] ELSE BatchEnd(offset[c])

(* The client has nothing, and has not connected.                          *)
StepNew(c) ==
    /\ toServer[c] = <<>> /\ toClient[c] = <<>> /\ offset[c] = 0
    /\ total_words[c] = 0 /\ Tallied(word_count[c], 0) /\ hpc[c] = "none"

(* Its request is on the way.                                              *)
StepAsked(c) ==
    /\ Requested(word_count[c], toClient[c], toServer[c], offset[c])
    /\ total_words[c] = 0 /\ hpc[c] # "end" /\ ~is_sent[c]
    /\ hpc[c] = "serve" => req[c] >= z[c]

(* Its request was taken.                                                  *)
StepAnswered(c) ==
    /\ Answered(word_count[c], toClient[c], toServer[c], offset[c],
                offset[c] + total_words[c], Sent(c))
    /\ hpc[c] # "none"
    /\ is_sent[c] <=> Sent(c) = NumWords
    /\ hpc[c] = "end" <=> (hpc[c] # "serve" /\ Sent(c) = NumWords)
    /\ hpc[c] = "serve" => z[c] = BatchEnd(offset[c])

(* It has read the whole file.                                             *)
StepDone(c) ==
    /\ Tallied(word_count[c], NumWords) /\ toServer[c] = <<>>
    /\ \/ hpc[c] = "end"
       \/ hpc[c] = "serve" /\ is_sent[c] /\ req[c] >= z[c]

InStep(c) ==
    /\ hpc[c] = "none" => ~is_sent[c]
    /\ phase[c] = "new" => StepNew(c)
    /\ phase[c] = "recv" => StepAsked(c) \/ StepAnswered(c)
    /\ phase[c] = "done" => StepDone(c)

(* The server runs until every handler has sent the end of the file.       *)
StepInv == ~cuts =>
    /\ \A c \in Clients : InStep(c)
    /\ running => closed = {}
    /\ ~running => \A c \in sessions : hpc[c] = "end"
    /\ \A c \in Clients : phase[c] # "new" => c \in sessions

LEMMA TalliedNone ==
    ASSUME NEW table, \A w \in Words \cup {DOLLAR, PIECE} : table[w] = 0
    PROVE  Tallied(table, 0)
  BY WordsAreNumbers DEF Tallied

LEMMA InitStep == Init => StepInv
  <1> SUFFICES ASSUME Init
               PROVE  StepInv
    OBVIOUS
  <1>1. ASSUME NEW c \in Clients
        PROVE  InStep(c)
    <2>1. /\ toServer[c] = <<>> /\ toClient[c] = <<>> /\ offset[c] = 0
          /\ total_words[c] = 0 /\ hpc[c] = "none" /\ ~is_sent[c]
          /\ phase[c] = "new"
      BY DEF Init, WireInit, ServerInit
    <2>2. Tallied(word_count[c], 0)
      <3>1. \A w \in Words \cup {DOLLAR, PIECE} : word_count[c][w] = 0
        BY DEF Init, Key
      <3> QED
        BY <3>1, TalliedNone
    <2> QED
      BY <2>1, <2>2 DEF InStep, StepNew
  <1>2. running /\ closed = {} /\ \A c \in Clients : phase[c] = "new"
    BY DEF Init, ServerInit
  <1> QED
    BY <1>1, <1>2 DEF StepInv

LEMMA StepFrame ==
    ASSUME NEW c, InStep(c),
           word_count'[c] = word_count[c], toClient'[c] = toClient[c],
           toServer'[c] = toServer[c], offset'[c] = offset[c],
           total_words'[c] = total_words[c], hpc'[c] = hpc[c],
           phase'[c] = phase[c], is_sent'[c] = is_sent[c],
           req'[c] = req[c], z'[c] = z[c]
    PROVE  InStep(c)'
  BY DEF InStep, StepNew, StepAsked, StepAnswered, StepDone, Sent

(* A handler takes a request only of a client that has one on the way.     *)
LEMMA StepTakes ==
    ASSUME TypeOK, NEW c \in Clients, InStep(c), TakeRequest(c)
    PROVE  /\ phase[c] = "recv" /\ StepAsked(c)
           /\ Head(toServer[c]) = offset[c] /\ offset[c] < NumWords
           /\ Answered(word_count[c], toClient[c], toServer'[c], offset[c],
                       offset[c], offset[c])
  <1>1. PICK m \in 1 .. Len(toServer[c]) :
           toServer' = [toServer EXCEPT ![c] = Rest(@, m)]
    BY DEF TakeRequest
  <1>2. toServer[c] # <<>> /\ phase[c] \in {"new", "recv", "done"}
    BY <1>1 DEF TypeOK
  <1>3. phase[c] = "recv" /\ StepAsked(c)
    BY <1>2 DEF InStep, StepNew, StepDone, StepAnswered, Answered
  <1>4. toServer'[c] = Rest(toServer[c], m) /\ offset[c] \in Nat
    BY <1>1 DEF TypeOK
  <1>5. Requested(word_count[c], toClient[c], toServer[c], offset[c])
    BY <1>3 DEF StepAsked
  <1> QED
    BY <1>3, <1>4, <1>5, TakesRequest

LEMMA PacketPending ==
    ASSUME NEW a \in Nat, NEW b \in Nat, a < b, b <= NumWords
    PROVE  /\ Packet(a, b) \in Seq(Text \cup {NL}) /\ Packet(a, b) # <<>>
           /\ Pending(Packet(a, b), a, b)
           /\ HasEnd(Packet(a, b)) <=> b = NumWords
  <1>1. CASE b = NumWords
    <2>1. Packet(a, b) = Run(a, b) \o <<NL, END, NL>>
      BY <1>1 DEF Packet
    <2>2. <<NL, END, NL>> \in Seq(Text \cup {NL})
      BY DEF Text
    <2>3. Closes(<<NL, END, NL>>, b)
      BY <1>1 DEF Closes, NL, END
    <2>4. /\ Packet(a, b) \in Seq(Text \cup {NL}) /\ Packet(a, b) # <<>>
          /\ Pending(Packet(a, b), a, b)
      BY <2>1, <2>2, <2>3, RunPending
    <2> QED
      BY <2>4 DEF Pending, HasEnd
  <1>2. CASE b # NumWords
    <2>1. Packet(a, b) = Run(a, b) \o <<NL>>
      BY <1>2 DEF Packet
    <2>2. <<NL>> \in Seq(Text \cup {NL})
      BY DEF Text
    <2>3. Closes(<<NL>>, b)
      BY <1>2 DEF Closes, NL, END
    <2>4. /\ Packet(a, b) \in Seq(Text \cup {NL}) /\ Packet(a, b) # <<>>
          /\ Pending(Packet(a, b), a, b)
      BY <2>1, <2>2, <2>3, RunPending
    <2> QED
      BY <2>4 DEF Pending, HasEnd
  <1> QED
    BY <1>1, <1>2

LEMMA HandlerInStep ==
    ASSUME TypeOK, NEW c \in Clients, InStep(c), HandlerStep(c),
           UNCHANGED clientVars
    PROVE  /\ InStep(c)'
           /\ \A d \in Clients \ {c} : InStep(d) => InStep(d)'
           /\ hpc[c] = "end" => hpc'[c] = "end"
           /\ closed' = closed /\ running' = running
  <1>0. /\ toServer[c] \in Seq(Nat) /\ toClient[c] \in Seq(Text \cup {NL})
        /\ offset[c] \in Nat /\ req[c] \in Nat
        /\ z[c] \in Nat /\ z[c] <= NumWords
        /\ BatchEnd(offset[c]) \in Nat /\ NumWords \in Nat
        /\ total_words[c] \in Nat
    <2>1. total_words[c] \in Nat /\ offset[c] \in Nat
      BY DEF TypeOK
    <2> QED
      BY <2>1, ClientTypes, BatchEndProperties, ConfigAssumption
  <1>a. /\ word_count' = word_count /\ offset' = offset /\ phase' = phase
        /\ total_words' = total_words
    BY DEF clientVars
  <1>b. \A d \in Clients \ {c} :
           /\ toClient'[d] = toClient[d] /\ toServer'[d] = toServer[d]
           /\ hpc'[d] = hpc[d] /\ req'[d] = req[d] /\ z'[d] = z[d]
    BY DEF TypeOK, HandlerStep, OutOfRange, BeginAnswer, SendPacket, EndAnswer,
           TakeRequest, Answer, wireVars
  <1>c. \A d \in Clients \ {c} : is_sent'[d] = is_sent[d]
    <2>1. is_sent' = is_sent \/ \E x : is_sent' = [is_sent EXCEPT ![c] = x]
      BY DEF HandlerStep, OutOfRange, BeginAnswer, SendPacket, EndAnswer
    <2> QED
      BY <2>1, Zenon DEF TypeOK
  <1>d. \A d \in Clients \ {c} : InStep(d) => InStep(d)'
    BY <1>a, <1>b, <1>c, StepFrame
  <1>1. ASSUME OutOfRange(c)
        PROVE  FALSE
    BY <1>0, <1>1, StepTakes DEF OutOfRange
  <1>2. CASE BeginAnswer(c)
    <2>1. /\ phase[c] = "recv" /\ StepAsked(c)
          /\ Head(toServer[c]) = offset[c] /\ offset[c] < NumWords
          /\ Answered(word_count[c], toClient[c], toServer'[c], offset[c],
                      offset[c], offset[c])
      BY <1>2, StepTakes DEF BeginAnswer
    <2>2. /\ toClient'[c] = toClient[c] /\ is_sent'[c] = is_sent[c]
          /\ hpc'[c] = "serve" /\ hpc[c] = "recv"
          /\ req'[c] = offset[c] /\ z'[c] = BatchEnd(offset[c])
          /\ closed' = closed /\ running' = running
      BY <1>2, <2>1 DEF BeginAnswer, TakeRequest, TypeOK
    <2>3. ~is_sent[c] /\ total_words[c] = 0
      BY <2>1 DEF StepAsked
    <2>4. Sent(c)' = offset[c] /\ offset[c] + total_words[c] = offset[c]
      BY <1>0, <2>2, <2>3 DEF Sent
    <2>5. StepAnswered(c)'
      <3>1. /\ is_sent'[c] = is_sent[c] /\ offset[c] # NumWords
            /\ is_sent'[c] <=> Sent(c)' = NumWords
        BY <1>0, <2>1, <2>2, <2>3, <2>4
      <3> HIDE DEF BatchEnd
      <3> QED
        BY <1>a, <2>1, <2>2, <2>4, <3>1 DEF StepAnswered
    <2> QED
      BY <1>a, <1>d, <2>1, <2>2, <2>5 DEF InStep
  <1>3. CASE SendPacket(c)
    <2>1. PICK b \in Nat :
             /\ req[c] < b /\ b <= z[c] /\ b <= NumWords
             /\ Answer(c, Packet(req[c], b))
             /\ req' = [req EXCEPT ![c] = b]
             /\ is_sent' = [is_sent EXCEPT ![c] = HasEnd(Packet(req[c], b))]
      BY <1>3, SendPacketParts
    <2> DEFINE u == Packet(req[c], b)
    <2>2. /\ u \in Seq(Text \cup {NL}) /\ u # <<>>
          /\ Pending(u, req[c], b)
          /\ HasEnd(u) <=> b = NumWords
      BY <1>0, <2>1, PacketPending
    <2>3. /\ toClient'[c] = toClient[c] \o u
          /\ req'[c] = b /\ z'[c] = z[c] /\ hpc'[c] = hpc[c]
          /\ toServer'[c] = toServer[c] /\ hpc[c] = "serve"
          /\ req[c] < z[c] /\ closed' = closed /\ running' = running
      BY <1>3, <2>1 DEF SendPacket, Answer, TypeOK
    <2>4. is_sent'[c] = HasEnd(u)
      BY <2>1, Zenon DEF TypeOK
    <2> HIDE DEF u
    <2>5. phase[c] = "recv" /\ StepAnswered(c)
      <3>1. ~(req[c] >= z[c]) /\ phase[c] \in {"new", "recv", "done"}
        BY <1>0, <2>3 DEF TypeOK
      <3> QED
        BY <2>3, <3>1 DEF InStep, StepNew, StepAsked, StepDone
    <2>6. Sent(c) = req[c] /\ Sent(c)' = b /\ z[c] = BatchEnd(offset[c])
      BY <2>3, <2>5 DEF Sent, StepAnswered
    <2>7. Answered(word_count[c], toClient[c] \o u, toServer[c], offset[c],
                   offset[c] + total_words[c], b)
      <3>1. PICK x \in Nat : x = offset[c] + total_words[c]
        BY <1>0
      <3>2. Answered(word_count[c], toClient[c], toServer[c], offset[c], x,
                     req[c])
        BY <2>5, <2>6, <3>1 DEF StepAnswered
      <3>3. b <= BatchEnd(offset[c])
        BY <1>0, <2>1, <2>6
      <3>4. Answered(word_count[c], toClient[c] \o u, toServer[c], offset[c],
                     x, b)
        BY <1>0, <2>1, <2>2, <3>2, <3>3, SendsWords
      <3> QED
        BY <3>1, <3>4
    <2>8. StepAnswered(c)'
      <3> HIDE DEF BatchEnd
      <3>1. is_sent'[c] <=> Sent(c)' = NumWords
        BY <2>2, <2>4, <2>6, Zenon
      <3> QED
        BY <1>a, <2>3, <2>6, <2>7, <3>1 DEF StepAnswered
    <2> QED
      BY <1>a, <1>d, <2>3, <2>5, <2>8 DEF InStep
  <1>4. CASE EndAnswer(c)
    <2>1. /\ toClient'[c] = toClient[c] /\ toServer'[c] = toServer[c]
          /\ hpc[c] = "serve" /\ req[c] >= z[c] /\ is_sent' = is_sent
          /\ closed' = closed /\ running' = running
          /\ is_sent[c] => hpc'[c] = "end"
          /\ ~is_sent[c] => hpc'[c] = "recv"
      BY <1>4 DEF EndAnswer, wireVars, TypeOK
    <2>2. phase[c] \in {"recv", "done"}
      BY <2>1 DEF InStep, StepNew, TypeOK
    <2>3. CASE phase[c] = "done"
      <3>0. StepDone(c) /\ hpc[c] # "end"
        BY <2>1, <2>3 DEF InStep
      <3>1. StepDone(c)'
        BY <1>a, <2>1, <3>0, Zenon DEF StepDone
      <3> QED
        BY <1>a, <1>d, <2>1, <2>3, <3>1 DEF InStep, StepDone
    <2>4. CASE phase[c] = "recv" /\ StepAsked(c)
      <3>1. StepAsked(c)'
        BY <1>a, <2>1, <2>4 DEF StepAsked
      <3> QED
        BY <1>a, <1>d, <2>1, <2>4, <3>1 DEF InStep
    <2>5. CASE phase[c] = "recv" /\ StepAnswered(c)
      <3>1. Sent(c) = req[c] /\ z[c] = BatchEnd(offset[c])
        BY <2>1, <2>5 DEF Sent, StepAnswered
      <3>2. req[c] <= BatchEnd(offset[c])
        BY <2>5, <3>1 DEF StepAnswered, Answered
      <3>3. req[c] = BatchEnd(offset[c])
        BY <1>0, <2>1, <3>1, <3>2
      <3>4. hpc'[c] # "serve" /\ Sent(c)' = Sent(c)
        BY <1>a, <2>1, <3>1, <3>3 DEF Sent
      <3>5. is_sent[c] <=> Sent(c) = NumWords
        BY <2>5 DEF StepAnswered
      <3>6. Answered(word_count[c], toClient[c], toServer[c], offset[c],
                     offset[c] + total_words[c], Sent(c))
        BY <2>5 DEF StepAnswered
      <3>7. /\ is_sent'[c] <=> Sent(c)' = NumWords
            /\ hpc'[c] = "end" <=> (hpc'[c] # "serve" /\ Sent(c)' = NumWords)
            /\ hpc'[c] # "none"
        BY <2>1, <3>4, <3>5
      <3>8. StepAnswered(c)'
        BY <1>a, <2>1, <3>4, <3>6, <3>7 DEF StepAnswered
      <3> QED
        BY <1>a, <1>d, <2>1, <2>5, <3>7, <3>8 DEF InStep
    <2> QED
      BY <2>2, <2>3, <2>4, <2>5 DEF InStep
  <1> QED
    BY <1>1, <1>2, <1>3, <1>4 DEF HandlerStep

(* The server's end of a connection is open as long as the client reads.   *)
LEMMA StepOpen ==
    ASSUME TypeOK, NEW c \in Clients, InStep(c), ~cuts,
           running => closed = {},
           ~running => \A d \in sessions : hpc[d] = "end",
           phase[c] # "new" => c \in sessions
    PROVE  ~ServerClosed(c)
  <1> SUFFICES ASSUME ServerClosed(c)
               PROVE  FALSE
    OBVIOUS
  <1>1. phase[c] = "recv" /\ toClient[c] = <<>> /\ hpc[c] = "end"
    BY DEF ServerClosed
  <1>2. StepAnswered(c)
    BY <1>1 DEF InStep, StepAsked
  <1>3. Sent(c) = NumWords
    BY <1>1, <1>2 DEF StepAnswered
  <1>4. PICK x \in Nat : x = offset[c] + total_words[c]
    BY DEF TypeOK
  <1>5. x <= NumWords /\ Pending(<<>>, x, NumWords)
    BY <1>1, <1>2, <1>3, <1>4 DEF StepAnswered, Answered
  <1>6. <<>> \in Seq(Text \cup {NL}) /\ NumWords \in Nat
    BY EmptySeq, ConfigAssumption
  <1> QED
    BY <1>5, <1>6, PendingEmpty

(* What a client reads was sent for the request it waits for.              *)
LEMMA StepReads ==
    ASSUME TypeOK, NEW c \in Clients, InStep(c), ~cuts,
           NEW r \in Reads(toClient[c]), Receive(c, r)
    PROVE  /\ phase[c] = "recv" /\ StepAnswered(c)
           /\ r \in WholeReads(toClient[c])
           /\ toClient[c] \in Seq(Text \cup {NL})
           /\ toClient'[c] = r.rest
           /\ ~IsRefusal(r.packet)
  <1>1. phase[c] = "recv" /\ toClient'[c] = r.rest
    BY DEF Receive, TypeOK
  <1>2. r \in WholeReads(toClient[c])
    BY DEF Reads
  <1>3. StepAnswered(c)
    BY <1>1, <1>2, NothingToRead DEF InStep, StepAsked, Requested
  <1>4. toClient[c] \in Seq(Text \cup {NL})
    BY DEF TypeOK
  <1>5. PICK x, y : Pending(toClient[c], x, y)
    BY <1>3 DEF StepAnswered, Answered
  <1>6. r.packet # <<DOLLAR, NL>>
    BY <1>2, <1>4, <1>5, PendingBegins
  <1> QED
    BY <1>1, <1>2, <1>3, <1>4, <1>6 DEF IsRefusal

LEMMA CountsKeys ==
    ASSUME TypeOK, NEW c \in Clients, NEW q, Count(c, q)
    PROVE  CountsAll(word_count[c], q, word_count'[c])
  <1>1. word_count'[c] = [w \in Key |-> word_count[c][w] + Occurrences(q, w)]
    BY DEF Count, TypeOK
  <1> QED
    BY <1>1, Zenon DEF CountsAll, Key

(* The end of the file is read when all before it was.                     *)
LEMMA StepEnd ==
    ASSUME TypeOK, NEW c \in Clients, InStep(c), ~cuts, EndOfFile(c)
    PROVE  /\ phase[c] = "recv" /\ StepAnswered(c) /\ Sent(c) = NumWords
           /\ Tallied(word_count'[c], NumWords)
           /\ phase'[c] = "done"
           /\ toServer' = toServer /\ offset' = offset
           /\ total_words' = total_words
  <1>1. PICK r \in Reads(toClient[c]) :
           /\ Receive(c, r)
           /\ \E m \in 0 .. Len(r.packet) - 1 :
                 BeforeEnd(r.packet, m) /\ Count(c, First(r.packet, m))
           /\ Finish(c)
           /\ UNCHANGED <<toServer, offset, total_words>>
    BY DEF EndOfFile
  <1>2. PICK m \in 0 .. Len(r.packet) - 1 :
           BeforeEnd(r.packet, m) /\ Count(c, First(r.packet, m))
    BY <1>1
  <1>3. /\ phase[c] = "recv" /\ StepAnswered(c)
        /\ r \in WholeReads(toClient[c])
        /\ toClient[c] \in Seq(Text \cup {NL})
    BY <1>1, StepReads
  <1>4. PICK x \in Nat : x = offset[c] + total_words[c]
    BY DEF TypeOK
  <1>5. Sent(c) \in Nat /\ offset[c] \in Nat
    BY BatchEndProperties DEF Sent, TypeOK
  <1>6. Answered(word_count[c], toClient[c], toServer[c], offset[c], x, Sent(c))
    BY <1>3, <1>4 DEF StepAnswered
  <1>7. CountsAll(word_count[c], First(r.packet, m), word_count'[c])
    BY <1>2, CountsKeys
  <1>8. Sent(c) = NumWords /\ Tallied(word_count'[c], NumWords)
    BY <1>2, <1>3, <1>5, <1>6, <1>7, ReadsEnd
  <1>9. phase'[c] = "done"
    BY <1>1 DEF Finish, TypeOK
  <1> QED
    BY <1>1, <1>3, <1>8, <1>9

(* Of the window the client counts e - offset words, and when these are    *)
(* all it asks for the next.                                               *)
LEMMA StepCounts ==
    ASSUME TypeOK, NEW c \in Clients, InStep(c), ~cuts, CountWords(c)
    PROVE  /\ phase[c] = "recv" /\ phase'[c] = "recv" /\ StepAnswered(c)
           /\ \/ /\ offset'[c] = offset[c] + k
                 /\ toServer'[c] = <<offset'[c]>>
                 /\ total_words'[c] = 0
                 /\ Requested(word_count'[c], toClient'[c], toServer'[c],
                              offset'[c])
                 /\ Sent(c) = BatchEnd(offset[c]) /\ Sent(c) < NumWords
              \/ /\ offset'[c] = offset[c] /\ toServer'[c] = toServer[c]
                 /\ total_words[c] < total_words'[c]
                 /\ Answered(word_count'[c], toClient'[c], toServer'[c],
                             offset'[c], offset'[c] + total_words'[c], Sent(c))
  <1>1. PICK r \in Reads(toClient[c]) :
           /\ Receive(c, r)
           /\ ~HasEnd(r.packet)
           /\ Count(c, r.packet)
           /\ MaybeAsk(c, total_words[c] + TextLen(r.packet)
                                         - Occurrences(r.packet, COMMA))
           /\ UNCHANGED phase
    BY DEF CountWords
  <1>2. /\ phase[c] = "recv" /\ StepAnswered(c)
        /\ r \in WholeReads(toClient[c])
        /\ toClient[c] \in Seq(Text \cup {NL}) /\ toClient'[c] = r.rest
    BY <1>1, StepReads
  <1>3. /\ offset[c] \in Nat /\ total_words[c] \in Nat /\ k \in Nat \ {0}
        /\ offset \in [Clients -> Nat] /\ total_words \in [Clients -> Nat]
        /\ toServer \in [Clients -> Seq(Nat)]
    BY ConfigAssumption DEF TypeOK
  <1>4. PICK x \in Nat : x = offset[c] + total_words[c]
    BY <1>3
  <1>5. Sent(c) \in Nat
    BY BatchEndProperties DEF Sent, TypeOK
  <1>6. Answered(word_count[c], toClient[c], toServer[c], offset[c], x, Sent(c))
    BY <1>2, <1>4 DEF StepAnswered
  <1>7. CountsAll(word_count[c], r.packet, word_count'[c])
    BY <1>1, CountsKeys
  <1>8. PICK e \in Nat :
              /\ offset[c] < e /\ x < e /\ e <= offset[c] + k
              /\ TextLen(r.packet) = e - x /\ Occurrences(r.packet, COMMA) = 0
              /\ e = offset[c] + k =>
                    /\ Requested(word_count'[c], r.rest, <<e>>, e)
                    /\ Sent(c) = BatchEnd(offset[c]) /\ Sent(c) < NumWords
              /\ e # offset[c] + k =>
                    Answered(word_count'[c], r.rest, toServer[c], offset[c], e,
                             Sent(c))
    BY <1>1, <1>2, <1>3, <1>5, <1>6, <1>7, ReadsWords
  <1> DEFINE n == total_words[c] + TextLen(r.packet)
                                 - Occurrences(r.packet, COMMA)
  <1>9. n \in 1 .. k /\ offset[c] + n = e /\ (n = k <=> e = offset[c] + k)
    <2>1. n = e - offset[c]
      <3>1. TextLen(r.packet) - Occurrences(r.packet, COMMA) = e - x
        BY <1>8
      <3>2. n = total_words[c] + (e - x)
        BY <1>3, <1>8
      <3> QED
        BY <1>3, <1>4, <3>2
    <2> HIDE DEF n
    <2> QED
      BY <1>3, <1>8, <2>1
  <1>10. n % k = 0 <=> n = k
    BY <1>9, UpToBatch
  <1>11. MaybeAsk(c, n)
    BY <1>1
  <1> HIDE DEF n
  <1>12. CASE n = k
    <2>1. NextOffset(c, n) = e
      BY <1>9, <1>12 DEF NextOffset
    <2>2. /\ offset' = [offset EXCEPT ![c] = e]
          /\ toServer' = [toServer EXCEPT ![c] = Append(@, e)]
          /\ total_words' = [total_words EXCEPT ![c] = 0]
      BY <1>10, <1>11, <1>12, <2>1 DEF MaybeAsk
    <2>3. toServer[c] = <<>>
      BY <1>6 DEF Answered
    <2>4. offset'[c] = e /\ toServer'[c] = <<e>> /\ total_words'[c] = 0
      BY <1>3, <2>2, <2>3
    <2> QED
      BY <1>1, <1>2, <1>8, <1>9, <1>12, <2>4
  <1>13. CASE n # k
    <2>1. /\ total_words' = [total_words EXCEPT ![c] = n]
          /\ offset' = offset /\ toServer' = toServer
      BY <1>10, <1>11, <1>13 DEF MaybeAsk
    <2>2. total_words'[c] = n
      BY <1>3, <2>1
    <2>3. offset'[c] + total_words'[c] = e
      BY <1>9, <2>1, <2>2
    <2>4. total_words[c] < total_words'[c]
      BY <1>3, <1>4, <1>8, <1>9, <2>2
    <2> QED
      BY <1>1, <1>2, <1>8, <1>9, <1>13, <2>1, <2>3, <2>4
  <1> QED
    BY <1>12, <1>13

(* What a client's step leaves alone.                                      *)
LEMMA OthersStep ==
    ASSUME TypeOK, NEW c \in Clients, Client(c)
    PROVE  /\ hpc' = hpc /\ req' = req /\ z' = z /\ is_sent' = is_sent
           /\ closed' = closed /\ running' = running
           /\ \A d \in Clients \ {c} : InStep(d) => InStep(d)'
  <1>a. /\ hpc' = hpc /\ req' = req /\ z' = z /\ is_sent' = is_sent
        /\ closed' = closed /\ running' = running /\ ClientStep(c)
    BY DEF Client, serverVars, handlerVars
  <1>1. \A d \in Clients \ {c} : word_count'[d] = word_count[d]
    BY <1>a, CountsWords
    DEF ClientStep, Connect, ServerClosed, Refused, EndOfFile, CountWords
  <1>2. \A d \in Clients \ {c} : phase'[d] = phase[d]
    BY <1>a DEF TypeOK, ClientStep, Connect, ServerClosed, Refused, EndOfFile,
                CountWords, Finish
  <1>3. \A d \in Clients \ {c} : toClient'[d] = toClient[d]
    BY <1>a DEF TypeOK, ClientStep, Connect, ServerClosed, Refused, EndOfFile,
                CountWords, Receive, wireVars
  <1>4. \A d \in Clients \ {c} :
           /\ toServer'[d] = toServer[d] /\ offset'[d] = offset[d]
           /\ total_words'[d] = total_words[d]
    BY <1>a DEF TypeOK, ClientStep, Connect, ServerClosed, Refused, EndOfFile,
                CountWords, MaybeAsk, wireVars
  <1> QED
    BY <1>a, <1>1, <1>2, <1>3, <1>4, StepFrame

LEMMA ClientInStep ==
    ASSUME TypeOK, NumWords # 0, NEW c \in Clients, InStep(c), ~cuts,
           ~ServerClosed(c), Client(c)
    PROVE  /\ InStep(c)'
           /\ phase[c] = "new" => phase'[c] = "new" \/ c \in sessions
  <1>a. /\ hpc' = hpc /\ req' = req /\ z' = z /\ is_sent' = is_sent
        /\ ClientStep(c)
    BY OthersStep DEF Client
  <1>1. CASE Connect(c)
    <2>1. /\ phase[c] = "new" /\ phase'[c] = "recv" /\ c \in sessions
          /\ toServer'[c] = Append(toServer[c], offset[c])
          /\ toClient'[c] = toClient[c] /\ offset'[c] = offset[c]
          /\ word_count'[c] = word_count[c] /\ total_words'[c] = total_words[c]
      BY <1>1 DEF Connect, TypeOK
    <2>2. StepNew(c) /\ ~is_sent[c]
      BY <2>1 DEF InStep, StepNew
    <2>3. Requested(word_count'[c], toClient'[c], toServer'[c], offset'[c])
      <3>1. 0 < NumWords /\ toServer'[c] = <<0>>
        BY <2>1, <2>2, ConfigAssumption DEF StepNew
      <3> QED
        BY <2>1, <2>2, <3>1 DEF StepNew, Requested
    <2>4. StepAsked(c)'
      BY <1>a, <2>1, <2>2, <2>3 DEF StepNew, StepAsked
    <2> QED
      BY <1>a, <2>1, <2>2, <2>4 DEF InStep
  <1>2. ASSUME Refused(c)
        PROVE  FALSE
    BY <1>2, StepReads DEF Refused
  <1>3. CASE EndOfFile(c)
    <2>1. /\ phase[c] = "recv" /\ StepAnswered(c) /\ Sent(c) = NumWords
          /\ Tallied(word_count'[c], NumWords)
          /\ phase'[c] = "done" /\ toServer' = toServer
      BY <1>3, StepEnd
    <2>2. toServer[c] = <<>> /\ hpc[c] # "none" /\ is_sent[c]
      BY <2>1 DEF StepAnswered, Answered
    <2>3. hpc[c] = "serve" => req[c] >= z[c]
      <3>1. z[c] \in Nat /\ z[c] <= NumWords /\ NumWords \in Nat
        BY ClientTypes, ConfigAssumption
      <3> QED
        BY <2>1, <3>1 DEF Sent
    <2>4. hpc[c] = "end" \/ hpc[c] = "serve"
      BY <2>1 DEF StepAnswered
    <2>5. StepDone(c)'
      BY <1>a, <2>1, <2>2, <2>3, <2>4, Zenon DEF StepDone
    <2> QED
      BY <1>a, <2>1, <2>2, <2>5 DEF InStep
  <1>4. CASE CountWords(c)
    <2>1. phase[c] = "recv" /\ phase'[c] = "recv" /\ StepAnswered(c)
      BY <1>4, StepCounts
    <2>2. CASE /\ offset'[c] = offset[c] + k
               /\ total_words'[c] = 0
               /\ Requested(word_count'[c], toClient'[c], toServer'[c],
                            offset'[c])
               /\ Sent(c) = BatchEnd(offset[c]) /\ Sent(c) < NumWords
      <3>1. Sent(c) # NumWords
        BY <2>2, BatchEndProperties, ConfigAssumption DEF TypeOK
      <3>2. ~is_sent[c] /\ hpc[c] # "end"
        BY <2>1, <3>1 DEF StepAnswered
      <3>3. hpc[c] = "serve" => req[c] = z[c]
        BY <2>1, <2>2 DEF Sent, StepAnswered
      <3>4. hpc[c] = "serve" => req[c] >= z[c]
        BY <3>3, ClientTypes
      <3>5. StepAsked(c)'
        BY <1>a, <2>2, <3>2, <3>4 DEF StepAsked
      <3> QED
        BY <1>a, <2>1, <3>2, <3>5 DEF InStep
    <2>3. CASE /\ offset'[c] = offset[c] /\ toServer'[c] = toServer[c]
               /\ Answered(word_count'[c], toClient'[c], toServer'[c],
                           offset'[c], offset'[c] + total_words'[c], Sent(c))
      <3>1. Sent(c)' = Sent(c)
        BY <1>a, <2>3 DEF Sent
      <3>2. StepAnswered(c)'
        BY <1>a, <2>1, <2>3, <3>1 DEF StepAnswered
      <3> QED
        BY <1>a, <2>1, <3>2 DEF InStep, StepAnswered
    <2> QED
      BY <1>4, <2>2, <2>3, StepCounts
  <1> QED
    BY <1>a, <1>1, <1>2, <1>3, <1>4 DEF ClientStep

LEMMA MainInStep ==
    ASSUME TypeOK, StepInv, ~cuts, Main
    PROVE  /\ \A c \in Clients : InStep(c)'
           /\ running' => closed' = {}
           /\ ~running' => \A c \in sessions : hpc'[c] = "end"
  <1>0. /\ \A c \in Clients : InStep(c)
        /\ running => closed = {}
        /\ ~running => \A c \in sessions : hpc[c] = "end"
    BY DEF StepInv
  <1>a. /\ word_count' = word_count /\ offset' = offset /\ phase' = phase
        /\ total_words' = total_words
    BY DEF Main, clientVars
  <1>1. ASSUME NEW c \in Clients, Accept(c)
        PROVE  /\ \A d \in Clients : InStep(d)'
               /\ running' => closed' = {}
               /\ ~running' => \A d \in sessions : hpc'[d] = "end"
    <2>1. /\ hpc[c] = "none" /\ phase[c] # "new" /\ hpc'[c] = "recv"
          /\ \A d \in Clients \ {c} : hpc'[d] = hpc[d]
          /\ toClient' = toClient /\ toServer' = toServer /\ req' = req
          /\ z' = z /\ is_sent' = is_sent
          /\ running' = running /\ closed' = closed
      BY <1>1 DEF Accept, TypeOK, wireVars
    <2>2. \A d \in Clients \ {c} : InStep(d)'
      BY <1>0, <1>a, <2>1, StepFrame
    <2>3. phase[c] = "recv" /\ StepAsked(c)
      BY <1>0, <2>1 DEF InStep, StepAnswered, StepDone, TypeOK
    <2>4. StepAsked(c)'
      BY <1>a, <2>1, <2>3 DEF StepAsked
    <2>5. InStep(c)'
      BY <1>a, <2>1, <2>3, <2>4 DEF InStep
    <2>6. sessions \in SUBSET Clients
      BY DEF TypeOK
    <2> QED
      BY <1>0, <2>1, <2>2, <2>5, <2>6
  <1>2. CASE Exit
    <2>1. /\ hpc' = hpc /\ toClient' = toClient /\ toServer' = toServer
          /\ req' = req /\ z' = z /\ is_sent' = is_sent
          /\ ~running' /\ \A c \in sessions : hpc[c] = "end"
      BY <1>2 DEF Exit, wireVars, handlerVars
    <2> QED
      BY <1>0, <1>a, <2>1, StepFrame
  <1> QED
    BY <1>1, <1>2 DEF Main, Accepting

LEMMA StepStep ==
    ASSUME TypeOK, NumWords # 0, StepInv, [Next]_vars
    PROVE  StepInv'
  <1> SUFFICES ASSUME ~cuts'
               PROVE  /\ \A d \in Clients : InStep(d)'
                      /\ running' => closed' = {}
                      /\ ~running' => \A d \in sessions' : hpc'[d] = "end"
                      /\ \A d \in Clients :
                            phase'[d] # "new" => d \in sessions'
    BY DEF StepInv
  <1>1. cuts' = cuts /\ sessions' = sessions
    BY DEF Next, Main, Handler, Client, vars, setup
  <1>2. /\ \A c \in Clients : InStep(c)
        /\ running => closed = {}
        /\ ~running => \A c \in sessions : hpc[c] = "end"
        /\ \A c \in Clients : phase[c] # "new" => c \in sessions
        /\ ~cuts /\ sessions \in SUBSET Clients
    BY <1>1 DEF StepInv, TypeOK
  <1>3. CASE Main
    <2>1. phase' = phase
      BY <1>3 DEF Main, clientVars
    <2> QED
      BY <1>1, <1>2, <1>3, <2>1, MainInStep
  <1>4. ASSUME NEW c \in Clients, Handler(c)
        PROVE  /\ \A d \in Clients : InStep(d)'
               /\ running' => closed' = {}
               /\ ~running' => \A d \in sessions' : hpc'[d] = "end"
               /\ \A d \in Clients : phase'[d] # "new" => d \in sessions'
    <2>1. HandlerStep(c) /\ UNCHANGED clientVars /\ running
      BY <1>4 DEF Handler
    <2>2. phase' = phase
      BY <2>1 DEF clientVars
    <2> QED
      BY <1>1, <1>2, <2>1, <2>2, HandlerInStep
  <1>5. ASSUME NEW c \in Clients, Client(c)
        PROVE  /\ \A d \in Clients : InStep(d)'
               /\ running' => closed' = {}
               /\ ~running' => \A d \in sessions' : hpc'[d] = "end"
               /\ \A d \in Clients : phase'[d] # "new" => d \in sessions'
    <2>1. ~ServerClosed(c)
      BY <1>2, StepOpen
    <2>2. /\ hpc' = hpc /\ closed' = closed /\ running' = running
          /\ \A d \in Clients : InStep(d)'
          /\ phase[c] = "new" => phase'[c] = "new" \/ c \in sessions
      BY <1>2, <1>5, <2>1, OthersStep, ClientInStep
    <2>3. \A d \in Clients \ {c} : phase'[d] = phase[d]
      BY <1>5 DEF TypeOK, Client, ClientStep, Connect, ServerClosed, Refused,
                  EndOfFile, CountWords, Finish
    <2> QED
      BY <1>1, <1>2, <2>2, <2>3
  <1>6. CASE UNCHANGED vars
    <2>1. /\ toClient' = toClient /\ toServer' = toServer /\ offset' = offset
          /\ word_count' = word_count /\ phase' = phase /\ req' = req /\ z' = z
          /\ hpc' = hpc /\ is_sent' = is_sent /\ total_words' = total_words
          /\ closed' = closed /\ running' = running
      BY <1>6 DEF vars, wireVars, serverVars, handlerVars, clientVars
    <2> QED
      BY <1>1, <1>2, <2>1, StepFrame
  <1> QED
    BY <1>3, <1>4, <1>5, <1>6 DEF Next

(* Where every recv ends where a send ended, client and handler take the   *)
(* windows of the file in step.                                            *)
THEOREM StepCorrect ==
    ASSUME NumWords # 0
    PROVE  Spec => []StepInv
  <1>1. Init => StepInv
    BY InitStep
  <1>2. TypeOK /\ StepInv /\ [Next]_vars => StepInv'
    BY StepStep
  <1> QED
    BY <1>1, <1>2, TypeCorrect, PTL DEF Spec

(* A table that is written has every word of the file once.                *)
THEOREM TableCompleteCorrect ==
    ASSUME NumWords # 0
    PROVE  Spec => []TableComplete
  <1>1. TypeOK /\ StepInv => TableComplete
    <2> SUFFICES ASSUME TypeOK, StepInv, ~cuts, NEW c \in Clients, Done(c)
                 PROVE  word_count[c] =
                           [w \in Key |-> IF w \in Words THEN 1 ELSE 0]
      BY DEF TableComplete
    <2>1. Tallied(word_count[c], NumWords)
      BY DEF StepInv, InStep, StepDone, Done
    <2>2. \A w \in Words : w < NumWords
      BY ConfigAssumption DEF Words
    <2>3. \A w \in Key : word_count[c][w] = IF w \in Words THEN 1 ELSE 0
      BY <2>1, <2>2 DEF Tallied, Key
    <2>4. word_count[c] \in [Key -> Nat]
      BY DEF TypeOK
    <2> QED
      BY <2>3, <2>4
  <1> QED
    BY <1>1, TypeCorrect, StepCorrect, PTL

(* No request is ever on its way for an offset that is not answered.       *)
THEOREM AskedInFileCorrect ==
    ASSUME NumWords # 0
    PROVE  Spec => []AskedInFile
  <1>1. TypeOK /\ StepInv => AskedInFile
    <2> SUFFICES ASSUME TypeOK, StepInv, ~cuts, NEW c \in Clients,
                        NEW j \in DOMAIN toServer[c]
                 PROVE  toServer[c][j] < NumWords
      BY DEF AskedInFile
    <2>1. InStep(c) /\ phase[c] \in {"new", "recv", "done"}
      BY DEF StepInv, TypeOK
    <2>2. toServer[c] # <<>>
      OBVIOUS
    <2>3. toServer[c] = <<offset[c]>> /\ offset[c] < NumWords
      BY <2>1, <2>2 DEF InStep, StepNew, StepAsked, StepAnswered, StepDone,
                        Requested, Answered
    <2> QED
      BY <2>3
  <1> QED
    BY <1>1, TypeCorrect, StepCorrect, PTL

-----------------------------------------------------------------------------
(* Client and handler never wait for each other.                           *)

(* What is in a stream ends where a send ended, so that it can be read.    *)
StreamsEnd == ~cuts => \A c \in Clients : EndsInNewline(toClient[c])

LEMMA PacketEnds ==
    ASSUME NEW a \in Nat, NEW b \in Nat, b <= NumWords
    PROVE  /\ Packet(a, b) \in Seq(Text \cup {NL})
           /\ Packet(a, b) # <<>> /\ EndsInNewline(Packet(a, b))
  <1>1. Run(a, b) \in Seq(Text \cup {NL})
    <2>1. Run(a, b) \in Seq(Words)
      BY RunInFile
    <2> QED
      BY <2>1, SeqMonotonic, Zenon DEF Text
  <1>2. PICK q \in {<<NL, END, NL>>, <<NL>>} : Packet(a, b) = Run(a, b) \o q
    BY DEF Packet
  <1>3. q \in Seq(Text \cup {NL}) /\ q # <<>> /\ EndsInNewline(q)
    <2>1. /\ <<NL, END, NL>> \in Seq(Text \cup {NL})
          /\ <<NL>> \in Seq(Text \cup {NL})
      BY DEF Text
    <2>2. /\ <<NL, END, NL>> # <<>> /\ EndsInNewline(<<NL, END, NL>>)
          /\ <<NL>> # <<>> /\ EndsInNewline(<<NL>>)
      BY DEF EndsInNewline
    <2> QED
      BY <2>1, <2>2, Zenon
  <1>4. Packet(a, b) \in Seq(Text \cup {NL})
    BY PacketParts
  <1> QED
    BY <1>1, <1>2, <1>3, <1>4, EndedConcat

LEMMA AnswerEnds ==
    ASSUME TypeOK, NEW c \in Clients, NEW tokens \in Seq(Text \cup {NL}),
           tokens # <<>>, EndsInNewline(tokens), Answer(c, tokens),
           NEW d \in Clients, EndsInNewline(toClient[d])
    PROVE  EndsInNewline(toClient'[d])
  <1>1. toClient[d] \in Seq(Text \cup {NL})
    BY DEF TypeOK
  <1>2. CASE d = c
    <2>1. toClient'[d] = toClient[d] \o tokens
      BY <1>2 DEF Answer, TypeOK
    <2> QED
      BY <1>1, <2>1, EndedConcat
  <1>3. CASE d # c
    BY <1>3 DEF Answer, TypeOK
  <1> QED
    BY <1>2, <1>3

LEMMA HandlerEnds ==
    ASSUME TypeOK, NEW c \in Clients, HandlerStep(c),
           NEW d \in Clients, EndsInNewline(toClient[d])
    PROVE  EndsInNewline(toClient'[d])
  <1>1. CASE OutOfRange(c)
    <2>1. /\ <<DOLLAR, NL>> \in Seq(Text \cup {NL}) /\ <<DOLLAR, NL>> # <<>>
          /\ EndsInNewline(<<DOLLAR, NL>>)
      BY DEF Text, EndsInNewline
    <2> QED
      BY <1>1, <2>1, AnswerEnds DEF OutOfRange
  <1>2. CASE SendPacket(c)
    <2>1. PICK b \in Nat : b <= NumWords /\ Answer(c, Packet(req[c], b))
      BY <1>2, SendPacketParts
    <2>2. req[c] \in Nat
      BY DEF TypeOK
    <2> QED
      BY <2>1, <2>2, PacketEnds, AnswerEnds
  <1>3. CASE BeginAnswer(c) \/ EndAnswer(c)
    BY <1>3 DEF BeginAnswer, EndAnswer, wireVars
  <1> QED
    BY <1>1, <1>2, <1>3 DEF HandlerStep

LEMMA ClientEnds ==
    ASSUME TypeOK, ~cuts, NEW c \in Clients, ClientStep(c),
           NEW d \in Clients, EndsInNewline(toClient[d])
    PROVE  EndsInNewline(toClient'[d])
  <1>1. ASSUME NEW r \in Reads(toClient[c]), Receive(c, r)
        PROVE  EndsInNewline(toClient'[d])
    <2>1. toClient[d] \in Seq(Text \cup {NL})
      BY DEF TypeOK
    <2>2. CASE d = c
      <3>1. r \in WholeReads(toClient[d]) /\ toClient'[d] = r.rest
        BY <1>1, <2>2 DEF Reads, Receive, TypeOK
      <3> QED
        BY <2>1, <3>1, EndedReads
    <2>3. CASE d # c
      BY <1>1, <2>3 DEF Receive, TypeOK
    <2> QED
      BY <2>2, <2>3
  <1>2. CASE Connect(c) \/ ServerClosed(c)
    BY <1>2 DEF Connect, ServerClosed, wireVars
  <1>3. CASE Refused(c) \/ EndOfFile(c) \/ CountWords(c)
    BY <1>1, <1>3 DEF Refused, EndOfFile, CountWords
  <1> QED
    BY <1>2, <1>3 DEF ClientStep

THEOREM StreamsEndCorrect == Spec => []StreamsEnd
  <1>1. Init => StreamsEnd
    BY DEF Init, WireInit, StreamsEnd, EndsInNewline
  <1>2. TypeOK /\ StreamsEnd /\ [Next]_vars => StreamsEnd'
    <2> SUFFICES ASSUME TypeOK, StreamsEnd, [Next]_vars, ~cuts',
                        NEW d \in Clients
                 PROVE  EndsInNewline(toClient'[d])
      BY DEF StreamsEnd
    <2>1. ~cuts /\ EndsInNewline(toClient[d])
      BY DEF Next, Main, Handler, Client, vars, setup, StreamsEnd
    <2>2. CASE Main \/ UNCHANGED vars
      BY <2>1, <2>2 DEF Main, Accepting, Accept, Exit, vars, wireVars
    <2>3. ASSUME NEW c \in Clients, Handler(c)
          PROVE  EndsInNewline(toClient'[d])
      BY <2>1, <2>3, HandlerEnds DEF Handler
    <2>4. ASSUME NEW c \in Clients, Client(c)
          PROVE  EndsInNewline(toClient'[d])
      BY <2>1, <2>4, ClientEnds DEF Client
    <2> QED
      BY <2>2, <2>3, <2>4 DEF Next
  <1> QED
    BY <1>1, <1>2, TypeCorrect, PTL DEF Spec

(* Of two ends of a connection that both wait, both have ended: a client   *)
(* whose request was taken has words to read until it asks again, and EOF  *)
(* with the last of them.                                                  *)
THEOREM NeverBothWaitCorrect ==
    ASSUME NumWords # 0
    PROVE  Spec => []NeverBothWait
  <1>1. TypeOK /\ StepInv /\ StreamsEnd => NeverBothWait
    <2> SUFFICES ASSUME TypeOK, StepInv, StreamsEnd, ~cuts, NEW c \in Clients,
                        HandlerIdle(c), ClientIdle(c)
                 PROVE  hpc[c] = "end" /\ Done(c)
      BY DEF NeverBothWait
    <2>1. InStep(c) /\ EndsInNewline(toClient[c])
      BY DEF StepInv, StreamsEnd
    <2>2. hpc[c] = "end" \/ (hpc[c] = "recv" /\ toServer[c] = <<>>)
      BY DEF HandlerIdle
    <2>3. CASE Done(c)
      BY <2>1, <2>2, <2>3 DEF InStep, StepDone, Done
    <2>4. ASSUME phase[c] = "recv", Reads(toClient[c]) = {}
          PROVE  FALSE
      <3>1. toClient[c] = <<>>
        <4>1. toClient[c] \in Seq(Text \cup {NL})
          BY DEF TypeOK
        <4>2. WholeReads(toClient[c]) = {}
          BY <2>4 DEF Reads
        <4> QED
          BY <2>1, <4>1, <4>2, EndedReadable
      <3>2. StepAnswered(c)
        <4>1. ASSUME StepAsked(c)
              PROVE  FALSE
          <5>1. hpc[c] # "end" /\ toServer[c] = <<offset[c]>>
            BY <4>1, Zenon DEF StepAsked, Requested
          <5> QED
            BY <2>2, <5>1
        <4>2. StepAsked(c) \/ StepAnswered(c)
          BY <2>1, <2>4, Zenon DEF InStep
        <4> QED
          BY <4>1, <4>2
      <3>3. PICK x \in Nat : x = offset[c] + total_words[c]
        BY DEF TypeOK
      <3>4. Sent(c) = BatchEnd(offset[c]) /\ BatchEnd(offset[c]) \in Nat
        BY <2>2, BatchEndProperties DEF Sent, TypeOK
      <3>5. /\ x <= BatchEnd(offset[c]) /\ x < BatchEnd(offset[c])
            /\ Pending(<<>>, x, BatchEnd(offset[c]))
        BY <3>1, <3>2, <3>3, <3>4 DEF StepAnswered, Answered
      <3>6. x = BatchEnd(offset[c])
        BY <3>4, <3>5, PendingEmpty, EmptySeq
      <3> HIDE DEF BatchEnd
      <3> QED
        BY <3>4, <3>5, <3>6
    <2> QED
      BY <2>3, <2>4 DEF ClientIdle
  <1> QED
    BY <1>1, TypeCorrect, StepCorrect, StreamsEndCorrect, PTL

-----------------------------------------------------------------------------
(* No step is in vain.                                                     *)

(* Nobody reads or sends words behind the file, and the handler's batch is *)
(* the window that was asked for last, or the one before it.               *)
Bounded(c) ==
    /\ offset[c] + total_words[c] <= NumWords
    /\ hpc[c] = "serve" =>
          /\ req[c] <= z[c]
          /\ z[c] = IF toServer[c] = <<>> THEN BatchEnd(offset[c])
                                          ELSE offset[c]

WorkInv == ~cuts => \A c \in Clients : Bounded(c)

LEMMA BoundedFrame ==
    ASSUME NEW c, Bounded(c),
           toServer'[c] = toServer[c], offset'[c] = offset[c],
           total_words'[c] = total_words[c],
           hpc'[c] = hpc[c] \/ hpc'[c] # "serve",
           req'[c] = req[c], z'[c] = z[c]
    PROVE  Bounded(c)'
  BY DEF Bounded

LEMMA NumberTypes ==
    ASSUME TypeOK, NEW c \in Clients
    PROVE  /\ offset[c] \in Nat /\ total_words[c] \in Nat
           /\ req[c] \in Nat /\ z[c] \in Nat /\ z[c] <= NumWords
           /\ toServer[c] \in Seq(Nat)
           /\ BatchEnd(offset[c]) \in Nat /\ BatchEnd(offset[c]) <= NumWords
           /\ NumWords \in Nat /\ k \in Nat /\ k > 0
           /\ hpc[c] \in {"none", "recv", "serve", "end"}
           /\ phase[c] \in {"new", "recv", "done"}
  <1>1. /\ offset[c] \in Nat /\ total_words[c] \in Nat
        /\ hpc[c] \in {"none", "recv", "serve", "end"}
        /\ phase[c] \in {"new", "recv", "done"}
    BY DEF TypeOK
  <1>2. BatchEnd(offset[c]) \in Nat /\ BatchEnd(offset[c]) <= NumWords
    BY <1>1, BatchEndProperties
  <1>3. NumWords \in Nat /\ k \in Nat /\ k > 0
    BY ConfigAssumption
  <1> QED
    BY <1>1, <1>2, <1>3, ClientTypes

(* Taking a request leaves none.                                           *)
LEMMA TakesLastRequest ==
    ASSUME TypeOK, NEW c \in Clients, InStep(c), BeginAnswer(c)
    PROVE  /\ phase[c] = "recv" /\ hpc[c] = "recv" /\ hpc'[c] = "serve"
           /\ toServer[c] = <<offset[c]>> /\ toServer'[c] = <<>>
           /\ req'[c] = offset[c] /\ z'[c] = BatchEnd(offset[c])
           /\ offset[c] < BatchEnd(offset[c])
  <1>1. TakeRequest(c)
    BY DEF BeginAnswer
  <1>2. /\ phase[c] = "recv" /\ StepAsked(c) /\ Head(toServer[c]) = offset[c]
        /\ Answered(word_count[c], toClient[c], toServer'[c], offset[c],
                    offset[c], offset[c])
    BY <1>1, StepTakes
  <1>3. toServer[c] = <<offset[c]>>
    BY <1>2 DEF StepAsked, Requested
  <1>4. toServer'[c] = <<>> /\ offset[c] < BatchEnd(offset[c])
    BY <1>2 DEF Answered
  <1>5. /\ hpc[c] = "recv" /\ hpc'[c] = "serve"
        /\ req'[c] = offset[c] /\ z'[c] = BatchEnd(offset[c])
    BY <1>2 DEF BeginAnswer, TakeRequest, TypeOK
  <1> QED
    BY <1>2, <1>3, <1>4, <1>5

(* What a handler's step leaves alone.                                     *)
LEMMA HandlerOthers ==
    ASSUME TypeOK, NEW c \in Clients, HandlerStep(c), UNCHANGED clientVars
    PROVE  /\ \A d \in Clients \ {c} :
                 /\ toServer'[d] = toServer[d] /\ hpc'[d] = hpc[d]
                 /\ req'[d] = req[d] /\ z'[d] = z[d]
           /\ phase' = phase /\ offset' = offset /\ total_words' = total_words
  <1>1. phase' = phase /\ offset' = offset /\ total_words' = total_words
    BY DEF clientVars
  <1>2. \A d \in Clients \ {c} :
           /\ toServer'[d] = toServer[d] /\ hpc'[d] = hpc[d]
           /\ req'[d] = req[d] /\ z'[d] = z[d]
    BY DEF TypeOK, HandlerStep, OutOfRange, BeginAnswer, SendPacket, EndAnswer,
           TakeRequest, Answer, wireVars
  <1> QED
    BY <1>1, <1>2

LEMMA HandlerBounded ==
    ASSUME TypeOK, NEW c \in Clients, InStep(c), Bounded(c), HandlerStep(c),
           UNCHANGED clientVars
    PROVE  Bounded(c)'
  <1>0. /\ offset[c] \in Nat /\ req[c] \in Nat /\ z[c] \in Nat
        /\ BatchEnd(offset[c]) \in Nat
    BY NumberTypes
  <1>a. offset'[c] = offset[c] /\ total_words'[c] = total_words[c]
    BY HandlerOthers
  <1>1. ASSUME OutOfRange(c)
        PROVE  FALSE
    BY <1>1, NumberTypes, StepTakes DEF OutOfRange
  <1>2. CASE BeginAnswer(c)
    <2>1. /\ toServer'[c] = <<>> /\ req'[c] = offset[c]
          /\ z'[c] = BatchEnd(offset[c]) /\ offset[c] < BatchEnd(offset[c])
      BY <1>2, TakesLastRequest
    <2> HIDE DEF BatchEnd
    <2> QED
      BY <1>0, <1>a, <2>1 DEF Bounded
  <1>3. CASE SendPacket(c)
    <2>1. PICK b \in Nat : b <= z[c] /\ req' = [req EXCEPT ![c] = b]
      BY <1>3, SendPacketParts
    <2>2. /\ req'[c] = b /\ z'[c] = z[c] /\ hpc[c] = "serve"
          /\ toServer'[c] = toServer[c]
      BY <1>3, <2>1 DEF SendPacket, TypeOK
    <2> HIDE DEF BatchEnd
    <2> QED
      BY <1>a, <2>1, <2>2 DEF Bounded
  <1>4. CASE EndAnswer(c)
    <2>1. hpc'[c] # "serve"
      BY <1>4 DEF EndAnswer, TypeOK
    <2> QED
      BY <1>a, <2>1 DEF Bounded
  <1> QED
    BY <1>1, <1>2, <1>3, <1>4 DEF HandlerStep

(* What a client's step leaves alone of the others.                        *)
LEMMA ClientOthers ==
    ASSUME TypeOK, NEW c \in Clients, Client(c)
    PROVE  /\ hpc' = hpc /\ req' = req /\ z' = z /\ running' = running
           /\ \A d \in Clients \ {c} :
                 /\ toServer'[d] = toServer[d] /\ offset'[d] = offset[d]
                 /\ total_words'[d] = total_words[d] /\ phase'[d] = phase[d]
  <1>1. ClientStep(c) /\ hpc' = hpc /\ req' = req /\ z' = z
        /\ running' = running
    BY DEF Client, serverVars, handlerVars
  <1>2. \A d \in Clients \ {c} : phase'[d] = phase[d]
    BY <1>1 DEF TypeOK, ClientStep, Connect, ServerClosed, Refused, EndOfFile,
                CountWords, Finish
  <1>3. \A d \in Clients \ {c} :
           /\ toServer'[d] = toServer[d] /\ offset'[d] = offset[d]
           /\ total_words'[d] = total_words[d]
    BY <1>1 DEF TypeOK, ClientStep, Connect, ServerClosed, Refused, EndOfFile,
                CountWords, MaybeAsk, wireVars
  <1> QED
    BY <1>1, <1>2, <1>3

(* The two ways to count: all of the window and the next request, or not   *)
(* all of it.                                                              *)
AsksNext(c) ==
    /\ offset'[c] = offset[c] + k /\ total_words'[c] = 0
    /\ toServer[c] = <<>> /\ toServer'[c] = <<offset'[c]>>
    /\ total_words[c] < k /\ offset'[c] < NumWords
    /\ BatchEnd(offset[c]) = offset'[c]
    /\ hpc[c] = "serve" => z[c] = offset'[c]

ReadsOn(c) ==
    /\ offset'[c] = offset[c] /\ toServer'[c] = toServer[c]
    /\ total_words[c] < total_words'[c]
    /\ offset'[c] + total_words'[c] <= NumWords

LEMMA CountsOrAsks ==
    ASSUME TypeOK, NEW c \in Clients, InStep(c), ~cuts, CountWords(c),
           Client(c)
    PROVE  /\ phase[c] = "recv" /\ phase'[c] = "recv"
           /\ toServer[c] = <<>> /\ hpc[c] # "none"
           /\ AsksNext(c) \/ ReadsOn(c)
  <1>0. /\ offset[c] \in Nat /\ total_words[c] \in Nat
        /\ BatchEnd(offset[c]) \in Nat /\ BatchEnd(offset[c]) <= NumWords
        /\ NumWords \in Nat /\ k \in Nat /\ z[c] \in Nat
    BY NumberTypes
  <1>1. phase[c] = "recv" /\ phase'[c] = "recv" /\ StepAnswered(c)
    BY StepCounts
  <1>2. /\ toServer[c] = <<>> /\ offset[c] + total_words[c] < BatchEnd(offset[c])
        /\ hpc[c] # "none" /\ Sent(c) <= BatchEnd(offset[c])
        /\ hpc[c] = "serve" => z[c] = BatchEnd(offset[c])
    BY <1>1 DEF StepAnswered, Answered
  <1>3. /\ BatchEnd(offset[c]) <= offset[c] + k
        /\ BatchEnd(offset[c]) # NumWords => BatchEnd(offset[c]) = offset[c] + k
    BY <1>0 DEF BatchEnd
  <1>4. Sent(c) \in Nat
    BY NumberTypes DEF Sent
  <1> HIDE DEF BatchEnd
  <1>5. CASE /\ offset'[c] = offset[c] + k
             /\ toServer'[c] = <<offset'[c]>>
             /\ total_words'[c] = 0
             /\ Requested(word_count'[c], toClient'[c], toServer'[c],
                          offset'[c])
             /\ Sent(c) = BatchEnd(offset[c]) /\ Sent(c) < NumWords
    <2>1. BatchEnd(offset[c]) = offset'[c] /\ offset'[c] < NumWords
      BY <1>0, <1>3, <1>5
    <2>2. total_words[c] < k
      BY <1>0, <1>2, <1>5, <2>1
    <2> QED
      BY <1>1, <1>2, <1>5, <2>1, <2>2 DEF AsksNext
  <1>6. CASE /\ offset'[c] = offset[c] /\ toServer'[c] = toServer[c]
             /\ total_words[c] < total_words'[c]
             /\ Answered(word_count'[c], toClient'[c], toServer'[c],
                         offset'[c], offset'[c] + total_words'[c], Sent(c))
    <2>1. offset'[c] + total_words'[c] < BatchEnd(offset[c])
      BY <1>6 DEF Answered
    <2>2. offset'[c] + total_words'[c] <= NumWords
      <3>1. TypeOK'
        BY ClientType
      <3>2. offset'[c] + total_words'[c] \in Nat
        BY <3>1 DEF TypeOK
      <3> QED
        BY <1>0, <2>1, <3>2
    <2> QED
      BY <1>1, <1>2, <1>6, <2>2 DEF ReadsOn
  <1> QED
    BY <1>1, <1>5, <1>6, StepCounts

LEMMA ClientBounded ==
    ASSUME TypeOK, NEW c \in Clients, InStep(c), ~cuts, Bounded(c),
           ~ServerClosed(c), Client(c)
    PROVE  Bounded(c)'
  <1>a. /\ hpc'[c] = hpc[c] /\ req'[c] = req[c] /\ z'[c] = z[c]
        /\ ClientStep(c)
    BY ClientOthers DEF Client
  <1>1. CASE Connect(c)
    <2>1. hpc[c] # "serve"
      BY <1>1 DEF Connect, InStep, StepNew
    <2>2. offset'[c] = offset[c] /\ total_words'[c] = total_words[c]
      BY <1>1 DEF Connect
    <2> QED
      BY <1>a, <2>1, <2>2 DEF Bounded
  <1>2. ASSUME Refused(c)
        PROVE  FALSE
    BY <1>2, StepReads DEF Refused
  <1>3. CASE EndOfFile(c)
    BY <1>a, <1>3, StepEnd, BoundedFrame
  <1>4. CASE CountWords(c)
    <2>1. CASE AsksNext(c)
      <3>1. /\ offset[c] \in Nat /\ NumWords \in Nat /\ k \in Nat
        BY NumberTypes
      <3>2. offset'[c] + total_words'[c] <= NumWords
        BY <2>1, <3>1 DEF AsksNext
      <3>3. toServer'[c] # <<>> /\ (hpc[c] = "serve" => z[c] = offset'[c])
        BY <2>1 DEF AsksNext
      <3> HIDE DEF BatchEnd
      <3> QED
        BY <1>a, <3>2, <3>3 DEF Bounded
    <2>2. CASE ReadsOn(c)
      <3> HIDE DEF BatchEnd
      <3> QED
        BY <1>a, <2>2 DEF ReadsOn, Bounded
    <2> QED
      BY <1>4, <2>1, <2>2, CountsOrAsks
  <1> QED
    BY <1>a, <1>1, <1>2, <1>3, <1>4 DEF ClientStep

LEMMA WorkStep ==
    ASSUME TypeOK, StepInv, WorkInv, [Next]_vars
    PROVE  WorkInv'
  <1> SUFFICES ASSUME ~cuts', NEW d \in Clients
               PROVE  Bounded(d)'
    BY DEF WorkInv
  <1>1. ~cuts /\ cuts' = cuts
    BY DEF Next, Main, Handler, Client, vars, setup
  <1>2. Bounded(d) /\ \A c \in Clients : InStep(c) /\ ~ServerClosed(c)
    BY <1>1, StepOpen DEF WorkInv, StepInv
  <1>3. CASE Main
    <2>1. /\ toServer' = toServer /\ offset' = offset /\ req' = req /\ z' = z
          /\ total_words' = total_words
          /\ hpc'[d] = hpc[d] \/ hpc'[d] # "serve"
      BY <1>3 DEF Main, Accepting, Accept, Exit, TypeOK, clientVars,
                  handlerVars, wireVars
    <2> QED
      BY <1>2, <2>1, BoundedFrame
  <1>4. ASSUME NEW c \in Clients, Handler(c)
        PROVE  Bounded(d)'
    <2>1. HandlerStep(c) /\ UNCHANGED clientVars
      BY <1>4 DEF Handler
    <2>2. CASE d = c
      BY <1>2, <2>1, <2>2, HandlerBounded
    <2>3. CASE d # c
      BY <1>2, <2>1, <2>3, HandlerOthers, BoundedFrame
    <2> QED
      BY <2>2, <2>3
  <1>5. ASSUME NEW c \in Clients, Client(c)
        PROVE  Bounded(d)'
    <2>1. CASE d = c
      BY <1>1, <1>2, <1>5, <2>1, ClientBounded
    <2>2. CASE d # c
      BY <1>2, <1>5, <2>2, ClientOthers, BoundedFrame
    <2> QED
      BY <2>1, <2>2
  <1>6. CASE UNCHANGED vars
    <2>1. /\ toServer' = toServer /\ offset' = offset /\ hpc' = hpc
          /\ req' = req /\ z' = z /\ total_words' = total_words
      BY <1>6 DEF vars, wireVars, serverVars, handlerVars, clientVars
    <2> QED
      BY <1>2, <2>1, BoundedFrame
  <1> QED
    BY <1>3, <1>4, <1>5, <1>6 DEF Next

THEOREM WorkCorrect ==
    ASSUME NumWords # 0
    PROVE  Spec => []WorkInv
  <1>1. Init => WorkInv
    <2> SUFFICES ASSUME Init, NEW c \in Clients
                 PROVE  Bounded(c)
      BY DEF WorkInv
    <2>1. offset[c] = 0 /\ total_words[c] = 0 /\ hpc[c] = "none"
      BY DEF Init, ServerInit
    <2> QED
      BY <2>1, ConfigAssumption DEF Bounded
  <1>2. TypeOK /\ StepInv /\ WorkInv /\ [Next]_vars => WorkInv'
    BY WorkStep
  <1> QED
    BY <1>1, <1>2, TypeCorrect, StepCorrect, PTL DEF Spec

-----------------------------------------------------------------------------
LEMMA WorkSum ==
    ASSUME NEW n \in Nat, NEW s \in Nat, NEW o \in Nat, NEW t \in Nat,
           NEW l \in Nat, NEW h \in Nat, NEW f \in Nat,
           s <= n, o + t <= n
    PROVE  (n - s) + (n - o - t) + 2 * (n - o) + 2 * l + h + f \in Nat
  OBVIOUS

(* There is never less than no work left.                                  *)
LEMMA WorkIsNat ==
    ASSUME TypeOK, NEW c \in Clients, Bounded(c)
    PROVE  Work(c) \in Nat /\ SentTo(c) \in Nat
  <1>0. /\ offset[c] \in Nat /\ total_words[c] \in Nat
        /\ req[c] \in Nat /\ z[c] \in Nat /\ z[c] <= NumWords
        /\ BatchEnd(offset[c]) \in Nat /\ BatchEnd(offset[c]) <= NumWords
        /\ NumWords \in Nat
    BY NumberTypes
  <1>1. Len(toServer[c]) \in Nat
    BY NumberTypes, LenProperties
  <1>2. /\ offset[c] + total_words[c] <= NumWords
        /\ hpc[c] = "serve" => req[c] <= z[c]
    BY DEF Bounded
  <1> HIDE DEF BatchEnd
  <1>3. SentTo(c) \in Nat /\ SentTo(c) <= NumWords
    BY <1>0, <1>2 DEF SentTo
  <1> DEFINE h == IF hpc[c] \in {"none", "serve"} THEN 1 ELSE 0
             f == IF phase[c] = "new" THEN 4
                  ELSE IF phase[c] = "recv" THEN 1 ELSE 0
  <1>4. h \in Nat /\ f \in Nat
    OBVIOUS
  <1>5. PICK s \in Nat, o \in Nat, t \in Nat, l \in Nat :
           /\ s = SentTo(c) /\ o = offset[c] /\ t = total_words[c]
           /\ l = Len(toServer[c])
    BY <1>0, <1>1, <1>3
  <1>6. Work(c) = (NumWords - s) + (NumWords - o - t) + 2 * (NumWords - o)
                  + 2 * l + h + f
    BY <1>5 DEF Work
  <1> HIDE DEF h, f
  <1>7. s <= NumWords /\ o + t <= NumWords
    BY <1>2, <1>3, <1>5
  <1>8. (NumWords - s) + (NumWords - o - t) + 2 * (NumWords - o)
        + 2 * l + h + f \in Nat
    BY <1>0, <1>4, <1>7, WorkSum
  <1> QED
    BY <1>3, <1>6, <1>8

SomeWork == ~cuts => \A c \in Clients : Work(c) \in Nat /\ SentTo(c) \in Nat

LEMMA WorkFrame ==
    ASSUME NEW c, toServer'[c] = toServer[c], offset'[c] = offset[c],
           total_words'[c] = total_words[c], hpc'[c] = hpc[c],
           phase'[c] = phase[c], req'[c] = req[c]
    PROVE  Work(c)' = Work(c)
  BY DEF Work, SentTo

(* Work, as a sum of the numbers it depends on.                            *)
Total(s, o, t, l, h, f) ==
    (NumWords - s) + (NumWords - o - t) + 2 * (NumWords - o) + 2 * l + h + f

Busy(c) == IF hpc[c] \in {"none", "serve"} THEN 1 ELSE 0
Here(c) == IF phase[c] = "new" THEN 4 ELSE IF phase[c] = "recv" THEN 1 ELSE 0

LEMMA WorkIs ==
    ASSUME NEW c
    PROVE  /\ Work(c) = Total(SentTo(c), offset[c], total_words[c],
                              Len(toServer[c]), Busy(c), Here(c))
           /\ Work(c)' = Total(SentTo(c)', offset'[c], total_words'[c],
                               Len(toServer'[c]), Busy(c)', Here(c)')
  BY DEF Work, Total, Busy, Here

LEMMA WorkNumbers ==
    ASSUME TypeOK, NEW c \in Clients, SentTo(c) \in Nat
    PROVE  \E s, o, t, l \in Nat :
              /\ s = SentTo(c) /\ o = offset[c] /\ t = total_words[c]
              /\ l = Len(toServer[c])
              /\ Work(c) = Total(s, o, t, l, Busy(c), Here(c))
  <1>1. offset[c] \in Nat /\ total_words[c] \in Nat /\ Len(toServer[c]) \in Nat
    BY NumberTypes, LenProperties
  <1> QED
    BY <1>1, WorkIs

(* What makes it less.                                                     *)
LEMMA TotalFalls ==
    ASSUME NEW s \in Nat, NEW o \in Nat, NEW t \in Nat, NEW l \in Nat,
           NEW h \in Nat, NEW f \in Nat
    PROVE  /\ Total(s, o, t, l, 0, f) < Total(s, o, t, l, 1, f)
           /\ Total(s, o, t, l, h, 0) < Total(s, o, t, l, h, 1)
           /\ Total(s, o, t, 1, h, 1) < Total(s, o, t, 0, h, 4)
           /\ Total(s, o, t, 0, 1, f) < Total(s, o, t, 1, 0, f)
           /\ \A y \in Nat : s < y =>
                 Total(y, o, t, l, h, f) < Total(s, o, t, l, h, f)
           /\ \A u \in Nat : t < u =>
                 Total(s, o, u, l, h, f) < Total(s, o, t, l, h, f)
           /\ t < k => Total(s, o + k, 0, 1, h, f) < Total(s, o, t, 0, h, f)
  BY ConfigAssumption DEF Total

LEMMA AcceptWork ==
    ASSUME TypeOK, NEW c \in Clients, InStep(c), Accept(c), UNCHANGED clientVars,
           Work(c) \in Nat, SentTo(c) \in Nat
    PROVE  /\ Work(c)' < Work(c)
           /\ \A d \in Clients \ {c} : Work(d)' = Work(d)
  <1>0. /\ offset[c] \in Nat /\ total_words[c] \in Nat /\ NumWords \in Nat
        /\ Len(toServer[c]) \in Nat
    BY NumberTypes, LenProperties
  <1>1. /\ toServer' = toServer /\ offset' = offset /\ req' = req
        /\ total_words' = total_words /\ phase' = phase
        /\ hpc[c] = "none" /\ hpc'[c] = "recv" /\ phase[c] # "new"
        /\ \A d \in Clients \ {c} : hpc'[d] = hpc[d]
    BY DEF Accept, TypeOK, clientVars, wireVars
  <1>2. StepAsked(c)
    BY <1>1 DEF InStep, StepAnswered, StepDone, TypeOK
  <1>3. toServer[c] # <<>>
    BY <1>2 DEF StepAsked, Requested
  <1>4. SentTo(c)' = SentTo(c)
    BY <1>1, <1>3 DEF SentTo
  <1>5. Work(c)' < Work(c)
    <2>1. PICK s, o, t, l \in Nat :
             /\ s = SentTo(c) /\ o = offset[c] /\ t = total_words[c]
             /\ l = Len(toServer[c])
             /\ Work(c) = Total(s, o, t, l, Busy(c), Here(c))
      BY WorkNumbers
    <2>2. /\ Busy(c) = 1 /\ Busy(c)' = 0
          /\ Here(c) \in Nat /\ Here(c)' = Here(c)
      BY <1>1 DEF Busy, Here
    <2>3. Total(s, o, t, l, 0, Here(c)) < Total(s, o, t, l, 1, Here(c))
      BY <2>1, <2>2, TotalFalls
    <2> QED
      BY <1>1, <1>4, <2>1, <2>2, <2>3, WorkIs
  <1> QED
    BY <1>1, <1>5, WorkFrame

LEMMA HandlerWork ==
    ASSUME TypeOK, NEW c \in Clients, InStep(c), Bounded(c), HandlerStep(c),
           UNCHANGED clientVars, Work(c) \in Nat, SentTo(c) \in Nat
    PROVE  /\ Work(c)' < Work(c)
           /\ \A d \in Clients \ {c} : Work(d)' = Work(d)
  <1>0. /\ offset[c] \in Nat /\ total_words[c] \in Nat /\ NumWords \in Nat
        /\ Len(toServer[c]) \in Nat /\ req[c] \in Nat /\ z[c] \in Nat
        /\ BatchEnd(offset[c]) \in Nat
    BY NumberTypes, LenProperties
  <1>a. /\ offset'[c] = offset[c] /\ total_words'[c] = total_words[c]
        /\ phase'[c] = phase[c]
    BY HandlerOthers
  <1> HIDE DEF BatchEnd
  <1>1. ASSUME OutOfRange(c)
        PROVE  FALSE
    BY <1>1, NumberTypes, StepTakes DEF OutOfRange
  <1>2. ASSUME BeginAnswer(c)
        PROVE  Work(c)' < Work(c)
    <2>1. /\ hpc[c] = "recv" /\ hpc'[c] = "serve"
          /\ toServer[c] = <<offset[c]>> /\ toServer'[c] = <<>>
          /\ req'[c] = offset[c]
      BY <1>2, TakesLastRequest
    <2>2. Len(toServer[c]) = 1 /\ Len(toServer'[c]) = 0 /\ toServer[c] # <<>>
      BY <2>1
    <2>3. SentTo(c) = offset[c] /\ SentTo(c)' = offset[c]
      BY <2>1, <2>2 DEF SentTo
    <2>4. PICK s, o, t, l \in Nat :
             /\ s = SentTo(c) /\ o = offset[c] /\ t = total_words[c]
             /\ l = Len(toServer[c])
             /\ Work(c) = Total(s, o, t, l, Busy(c), Here(c))
      BY WorkNumbers
    <2>5. /\ Busy(c) = 0 /\ Busy(c)' = 1
          /\ Here(c) \in Nat /\ Here(c)' = Here(c)
      BY <1>a, <2>1, <2>2, <2>3 DEF Busy, Here
    <2>6. Total(s, o, t, 0, 1, Here(c)) < Total(s, o, t, 1, 0, Here(c))
      BY <2>4, <2>5, TotalFalls
    <2> QED
      BY <1>0, <1>a, <2>1, <2>2, <2>3, <2>4, <2>5, <2>6, WorkIs
  <1>3. ASSUME SendPacket(c)
        PROVE  Work(c)' < Work(c)
    <2>1. PICK b \in Nat : req[c] < b /\ req' = [req EXCEPT ![c] = b]
      BY <1>3, SendPacketParts
    <2>2. /\ hpc[c] = "serve" /\ hpc'[c] = "serve" /\ toServer'[c] = toServer[c]
          /\ req'[c] = b
      BY <1>3, <2>1 DEF SendPacket, TypeOK
    <2>3. SentTo(c) = req[c] /\ SentTo(c)' = b
      BY <2>2 DEF SentTo
    <2>4. PICK s, o, t, l \in Nat :
             /\ s = SentTo(c) /\ o = offset[c] /\ t = total_words[c]
             /\ l = Len(toServer[c])
             /\ Work(c) = Total(s, o, t, l, Busy(c), Here(c))
      BY WorkNumbers
    <2>5. /\ Busy(c) \in Nat /\ Busy(c)' = Busy(c)
          /\ Here(c) \in Nat /\ Here(c)' = Here(c)
      BY <1>a, <2>1, <2>2, <2>3 DEF Busy, Here
    <2>7. PICK h \in Nat, f \in Nat : h = Busy(c) /\ f = Here(c)
      BY <2>5
    <2>8. s < b
      BY <2>1, <2>3, <2>4
    <2>6. Total(b, o, t, l, Busy(c), Here(c))
           < Total(s, o, t, l, Busy(c), Here(c))
      BY <2>7, <2>8, TotalFalls
    <2> QED
      BY <1>0, <1>a, <2>1, <2>2, <2>3, <2>4, <2>5, <2>6, WorkIs
  <1>4. ASSUME EndAnswer(c)
        PROVE  Work(c)' < Work(c)
    <2>1. /\ hpc[c] = "serve" /\ hpc'[c] \in {"recv", "end"}
          /\ toServer'[c] = toServer[c] /\ req[c] >= z[c]
      BY <1>4 DEF EndAnswer, TypeOK, wireVars
    <2>2. /\ req[c] = z[c]
          /\ z[c] = IF toServer[c] = <<>> THEN BatchEnd(offset[c])
                                          ELSE offset[c]
      BY <1>0, <2>1 DEF Bounded
    <2>3. SentTo(c) = req[c] /\ SentTo(c)' = req[c]
      BY <1>a, <2>1, <2>2 DEF SentTo
    <2>4. PICK s, o, t, l \in Nat :
             /\ s = SentTo(c) /\ o = offset[c] /\ t = total_words[c]
             /\ l = Len(toServer[c])
             /\ Work(c) = Total(s, o, t, l, Busy(c), Here(c))
      BY WorkNumbers
    <2>5. /\ Busy(c) = 1 /\ Busy(c)' = 0
          /\ Here(c) \in Nat /\ Here(c)' = Here(c)
      BY <1>a, <2>1, <2>3 DEF Busy, Here
    <2>6. Total(s, o, t, l, 0, Here(c)) < Total(s, o, t, l, 1, Here(c))
      BY <2>4, <2>5, TotalFalls
    <2> QED
      BY <1>0, <1>a, <2>1, <2>3, <2>4, <2>5, <2>6, WorkIs
  <1>5. \A d \in Clients \ {c} : Work(d)' = Work(d)
    BY HandlerOthers, WorkFrame
  <1> QED
    BY <1>1, <1>2, <1>3, <1>4, <1>5 DEF HandlerStep

LEMMA ClientWork ==
    ASSUME TypeOK, NEW c \in Clients, InStep(c), Bounded(c), Client(c),
           ~cuts, ~ServerClosed(c), Work(c) \in Nat, SentTo(c) \in Nat
    PROVE  /\ Work(c)' < Work(c)
           /\ \A d \in Clients \ {c} : Work(d)' = Work(d)
  <1>0. /\ offset[c] \in Nat /\ total_words[c] \in Nat /\ NumWords \in Nat
        /\ Len(toServer[c]) \in Nat /\ BatchEnd(offset[c]) \in Nat
        /\ k \in Nat /\ k > 0
    BY NumberTypes, LenProperties
  <1>a. hpc' = hpc /\ req' = req /\ ClientStep(c)
    BY ClientOthers DEF Client
  <1> HIDE DEF BatchEnd
  <1>1. ASSUME Connect(c)
        PROVE  Work(c)' < Work(c)
    <2>1. /\ phase[c] = "new" /\ phase'[c] = "recv"
          /\ toServer'[c] = Append(toServer[c], offset[c])
          /\ offset'[c] = offset[c] /\ total_words'[c] = total_words[c]
      BY <1>1 DEF Connect, TypeOK
    <2>2. hpc[c] = "none" /\ toServer[c] = <<>>
      BY <2>1 DEF InStep, StepNew
    <2>3. Len(toServer'[c]) = 1 /\ Len(toServer[c]) = 0
      BY <2>1, <2>2
    <2>4. SentTo(c)' = SentTo(c)
      BY <1>a, <2>1, <2>2 DEF SentTo
    <2>5. PICK s, o, t, l \in Nat :
             /\ s = SentTo(c) /\ o = offset[c] /\ t = total_words[c]
             /\ l = Len(toServer[c])
             /\ Work(c) = Total(s, o, t, l, Busy(c), Here(c))
      BY WorkNumbers
    <2>6. /\ Here(c) = 4 /\ Here(c)' = 1
          /\ Busy(c) \in Nat /\ Busy(c)' = Busy(c)
      BY <1>a, <2>1, <2>3, <2>4 DEF Busy, Here
    <2>7. Total(s, o, t, 1, Busy(c), 1) < Total(s, o, t, 0, Busy(c), 4)
      BY <2>5, <2>6, TotalFalls
    <2> QED
      BY <1>0, <1>a, <2>1, <2>3, <2>4, <2>5, <2>6, <2>7, WorkIs
  <1>2. ASSUME Refused(c)
        PROVE  FALSE
    BY <1>2, StepReads DEF Refused
  <1>3. ASSUME EndOfFile(c)
        PROVE  Work(c)' < Work(c)
    <2>1. /\ phase[c] = "recv" /\ phase'[c] = "done" /\ toServer' = toServer
          /\ offset' = offset /\ total_words' = total_words
      BY <1>3, StepEnd
    <2>2. SentTo(c)' = SentTo(c)
      BY <1>a, <2>1 DEF SentTo
    <2>3. PICK s, o, t, l \in Nat :
             /\ s = SentTo(c) /\ o = offset[c] /\ t = total_words[c]
             /\ l = Len(toServer[c])
             /\ Work(c) = Total(s, o, t, l, Busy(c), Here(c))
      BY WorkNumbers
    <2>4. /\ Here(c) = 1 /\ Here(c)' = 0
          /\ Busy(c) \in Nat /\ Busy(c)' = Busy(c)
      BY <1>a, <2>1, <2>2 DEF Busy, Here
    <2>5. Total(s, o, t, l, Busy(c), 0) < Total(s, o, t, l, Busy(c), 1)
      BY <2>3, <2>4, TotalFalls
    <2> QED
      BY <1>0, <1>a, <2>1, <2>2, <2>3, <2>4, <2>5, WorkIs
  <1>4. ASSUME CountWords(c)
        PROVE  Work(c)' < Work(c)
    <2>1. /\ phase[c] = "recv" /\ phase'[c] = "recv"
          /\ toServer[c] = <<>> /\ hpc[c] # "none"
      BY <1>4, CountsOrAsks
    <2>2. ASSUME AsksNext(c)
          PROVE  Work(c)' < Work(c)
      <3>1. /\ offset'[c] = offset[c] + k /\ total_words'[c] = 0
            /\ toServer'[c] = <<offset'[c]>>
            /\ total_words[c] < k /\ BatchEnd(offset[c]) = offset'[c]
        BY <2>2 DEF AsksNext
      <3>2. /\ Len(toServer'[c]) = 1 /\ toServer'[c] # <<>>
            /\ Len(toServer[c]) = 0
        BY <2>1, <3>1
      <3>3. SentTo(c)' = SentTo(c)
        BY <1>a, <2>1, <3>1, <3>2 DEF SentTo
      <3>4. PICK s, o, t, l \in Nat :
               /\ s = SentTo(c) /\ o = offset[c] /\ t = total_words[c]
               /\ l = Len(toServer[c])
               /\ Work(c) = Total(s, o, t, l, Busy(c), Here(c))
        BY WorkNumbers
      <3>5. /\ Here(c) \in Nat /\ Here(c)' = Here(c)
            /\ Busy(c) \in Nat /\ Busy(c)' = Busy(c)
        BY <1>a, <2>1, <3>1, <3>2, <3>3 DEF Busy, Here
      <3>6. Total(s, o + k, 0, 1, Busy(c), Here(c))
           < Total(s, o, t, 0, Busy(c), Here(c))
        BY <3>4, <3>1, <3>5, TotalFalls
      <3> QED
        BY <1>0, <1>a, <2>1, <3>1, <3>2, <3>3, <3>4, <3>5, <3>6, WorkIs
    <2>3. ASSUME ReadsOn(c)
          PROVE  Work(c)' < Work(c)
      <3>1. /\ offset'[c] = offset[c] /\ toServer'[c] = toServer[c]
            /\ total_words[c] < total_words'[c]
        BY <2>3 DEF ReadsOn
      <3>2. SentTo(c)' = SentTo(c)
        BY <1>a, <3>1 DEF SentTo
      <3>3. total_words'[c] \in Nat
        BY ClientType DEF TypeOK
      <3>4. PICK s, o, t, l \in Nat :
               /\ s = SentTo(c) /\ o = offset[c] /\ t = total_words[c]
               /\ l = Len(toServer[c])
               /\ Work(c) = Total(s, o, t, l, Busy(c), Here(c))
        BY WorkNumbers
      <3>5. /\ Here(c) \in Nat /\ Here(c)' = Here(c)
            /\ Busy(c) \in Nat /\ Busy(c)' = Busy(c)
        BY <1>a, <2>1, <3>1, <3>2, <3>3 DEF Busy, Here
      <3>6. Total(s, o, total_words'[c], l, Busy(c), Here(c))
           < Total(s, o, t, l, Busy(c), Here(c))
        BY <3>4, <3>1, <3>3, <3>5, TotalFalls
      <3> QED
        BY <1>0, <1>a, <2>1, <3>1, <3>2, <3>3, <3>4, <3>5, <3>6, WorkIs
    <2> QED
      BY <1>4, <2>2, <2>3, CountsOrAsks
  <1>5. \A d \in Clients \ {c} : Work(d)' = Work(d)
    BY ClientOthers, WorkFrame
  <1> QED
    BY <1>a, <1>1, <1>2, <1>3, <1>4, <1>5 DEF ClientStep

LEMMA StepWorks ==
    ASSUME TypeOK, StepInv, WorkInv, SomeWork, SomeWork', [Next]_vars
    PROVE  [~cuts =>
              /\ \A c \in Clients : Work(c)' \in 0 .. Work(c)
              /\ \/ \E c \in Clients : Work(c)' # Work(c)
                 \/ running /\ ~running']_vars
  <1> SUFFICES ASSUME Next, ~cuts
               PROVE  /\ \A c \in Clients : Work(c)' \in 0 .. Work(c)
                      /\ \/ \E c \in Clients : Work(c)' # Work(c)
                         \/ running /\ ~running'
    OBVIOUS
  <1>1. ~cuts'
    BY DEF Next, Main, Handler, Client, setup
  <1>2. \A c \in Clients :
           Work(c) \in Nat /\ SentTo(c) \in Nat /\ Work(c)' \in Nat
    BY <1>1 DEF SomeWork
  <1>3. \A c \in Clients : InStep(c) /\ Bounded(c) /\ ~ServerClosed(c)
    BY StepOpen DEF StepInv, WorkInv
  <1>4. ASSUME NEW c \in Clients, Work(c)' < Work(c),
               \A d \in Clients \ {c} : Work(d)' = Work(d)
        PROVE  /\ \A d \in Clients : Work(d)' \in 0 .. Work(d)
               /\ \E d \in Clients : Work(d)' # Work(d)
    <2>1. ASSUME NEW d \in Clients
          PROVE  Work(d)' \in 0 .. Work(d)
      <3>1. PICK m \in Nat, n \in Nat : m = Work(d)' /\ n = Work(d)
        BY <1>2
      <3>2. m <= n
        BY <1>4, <3>1
      <3>3. m \in 0 .. n
        BY <3>2
      <3> QED
        BY <3>1, <3>3
    <2>2. Work(c)' # Work(c)
      BY <1>2, <1>4
    <2> QED
      BY <2>1, <2>2
  <1>5. ASSUME NEW c \in Clients, Handler(c)
        PROVE  /\ Work(c)' < Work(c)
               /\ \A d \in Clients \ {c} : Work(d)' = Work(d)
    BY <1>2, <1>3, <1>5, HandlerWork DEF Handler
  <1>6. ASSUME NEW c \in Clients, Client(c)
        PROVE  /\ Work(c)' < Work(c)
               /\ \A d \in Clients \ {c} : Work(d)' = Work(d)
    BY <1>2, <1>3, <1>6, ClientWork
  <1>7. ASSUME NEW c \in Clients, Accept(c), UNCHANGED clientVars
        PROVE  /\ Work(c)' < Work(c)
               /\ \A d \in Clients \ {c} : Work(d)' = Work(d)
    BY <1>2, <1>3, <1>7, AcceptWork
  <1>8. ASSUME Exit, UNCHANGED clientVars
        PROVE  /\ \A c \in Clients : Work(c)' \in 0 .. Work(c)
               /\ running /\ ~running'
    <2>1. /\ toServer' = toServer /\ offset' = offset /\ req' = req
          /\ total_words' = total_words /\ phase' = phase /\ hpc' = hpc
          /\ running /\ ~running'
      BY <1>8 DEF Exit, clientVars, wireVars, handlerVars
    <2>2. ASSUME NEW c \in Clients
          PROVE  Work(c)' \in 0 .. Work(c)
      <3>1. Work(c)' = Work(c)
        BY <2>1, WorkFrame
      <3>2. PICK n \in Nat : n = Work(c)
        BY <1>2
      <3> QED
        BY <3>1, <3>2
    <2> QED
      BY <2>1, <2>2
  <1>9. CASE Main
    <2>1. UNCHANGED clientVars /\ (Exit \/ \E c \in Clients : Accept(c))
      BY <1>9 DEF Main, Accepting
    <2> QED
      BY <1>4, <1>7, <1>8, <2>1
  <1> QED
    BY <1>4, <1>5, <1>6, <1>9 DEF Next

(* Every step of a session brings it closer to its end.  With the theorem  *)
(* before, only a thread that is never run can keep a session from ending. *)
THEOREM StepsRunOutCorrect ==
    ASSUME NumWords # 0
    PROVE  Spec => StepsRunOut
  <1>1. TypeOK /\ WorkInv => SomeWork
    BY WorkIsNat DEF WorkInv, SomeWork
  <1>2. TypeOK /\ StepInv /\ WorkInv /\ SomeWork /\ SomeWork' /\ [Next]_vars
           => [~cuts =>
                 /\ \A c \in Clients : Work(c)' \in 0 .. Work(c)
                 /\ \/ \E c \in Clients : Work(c)' # Work(c)
                    \/ running /\ ~running']_vars
    BY StepWorks
  <1> QED
    BY <1>1, <1>2, TypeCorrect, StepCorrect, WorkCorrect, PTL
    DEF Spec, StepsRunOut

-----------------------------------------------------------------------------
(* Parts 1 and 2 implement WordCount.                                      *)

DoneMap == [c \in Clients |-> Done(c)]

Taken(c) == IF Done(c) THEN NumWords ELSE offset[c]

(* What the finished windows of a client hold.                             *)
LEMMA FinishedIs ==
    ASSUME TypeOK, NEW c \in Clients, InStep(c), ~cuts
    PROVE  Finished(c) = Full(Taken(c))
  <1> SUFFICES ASSUME NEW e \in Words, e < offset[c] \/ Done(c)
               PROVE  word_count[c][e] = 1 /\ e < Taken(c)
    <2>1. \A e \in Words : e < NumWords
      BY ConfigAssumption DEF Words
    <2> QED
      BY <2>1 DEF Finished, Full, Taken
  <1>1. /\ offset[c] \in Nat /\ total_words[c] \in Nat /\ e \in Nat
        /\ e < NumWords /\ phase[c] \in {"new", "recv", "done"}
    BY ConfigAssumption DEF TypeOK, Words
  <1>2. e < Taken(c)
    BY <1>1 DEF Taken
  <1>3. CASE Done(c)
    <2>1. Tallied(word_count[c], NumWords)
      BY <1>3 DEF InStep, StepDone, Done
    <2> QED
      BY <1>1, <1>2, <2>1 DEF Tallied
  <1>4. CASE ~Done(c)
    <2>1. e < offset[c]
      BY <1>4
    <2>2. PICK x \in Nat : offset[c] <= x /\ Tallied(word_count[c], x)
      <3>1. CASE phase[c] = "new"
        BY <1>1, <3>1 DEF InStep, StepNew
      <3>2. CASE phase[c] = "recv" /\ StepAsked(c)
        BY <1>1, <3>2 DEF StepAsked, Requested
      <3>3. CASE phase[c] = "recv" /\ StepAnswered(c)
        BY <1>1, <3>3 DEF StepAnswered, Answered
      <3> QED
        BY <1>1, <1>4, <3>1, <3>2, <3>3 DEF InStep, Done
    <2>3. e < x
      BY <1>1, <2>1, <2>2
    <2> QED
      BY <1>2, <2>2, <2>3 DEF Tallied
  <1> QED
    BY <1>3, <1>4

TakesBatch(c) ==
    /\ ~Done(c)
    /\ offset[c] + k <= NumWords
    /\ offset' = [offset EXCEPT ![c] = @ + k]
    /\ DoneMap' = DoneMap

TakesLast(c) ==
    /\ ~Done(c)
    /\ offset[c] <= NumWords /\ offset[c] + k >= NumWords
    /\ DoneMap' = [DoneMap EXCEPT ![c] = TRUE]
    /\ offset' = offset

TakesNothing == offset' = offset /\ DoneMap' = DoneMap

LEMMA ClientTakes ==
    ASSUME TypeOK, NEW c \in Clients, InStep(c), ~cuts,
           ~ServerClosed(c), Client(c)
    PROVE  TakesBatch(c) \/ TakesLast(c) \/ TakesNothing
  <1>0. /\ offset \in [Clients -> Nat] /\ offset[c] \in Nat /\ k \in Nat
        /\ phase \in [Clients -> {"new", "recv", "done"}] /\ NumWords \in Nat
    BY ConfigAssumption DEF TypeOK
  <1>1. CASE Connect(c)
    <2>1. /\ phase[c] = "new" /\ phase' = [phase EXCEPT ![c] = "recv"]
          /\ offset' = offset
      BY <1>1 DEF Connect
    <2> QED
      BY <1>0, <2>1 DEF TakesNothing, DoneMap, Done
  <1>2. ASSUME Refused(c)
        PROVE  FALSE
    BY <1>2, StepReads DEF Refused
  <1>3. CASE EndOfFile(c)
    <2>1. phase[c] = "recv" /\ StepAnswered(c) /\ Sent(c) = NumWords
      BY <1>3, StepEnd
    <2>2. phase' = [phase EXCEPT ![c] = "done"] /\ offset' = offset
      BY <1>3 DEF EndOfFile, Finish
    <2>3. \E x \in Nat : /\ offset[c] <= x /\ x <= NumWords
                         /\ NumWords <= BatchEnd(offset[c])
      BY <2>1 DEF StepAnswered, Answered, TypeOK
    <2>4. offset[c] <= NumWords /\ offset[c] + k >= NumWords
      <3>1. BatchEnd(offset[c]) \in Nat /\ BatchEnd(offset[c]) <= offset[c] + k
        BY <1>0, BatchEndProperties
      <3> HIDE DEF BatchEnd
      <3> QED
        BY <1>0, <2>3, <3>1
    <2>5. DoneMap' = [DoneMap EXCEPT ![c] = TRUE]
      BY <1>0, <2>2 DEF DoneMap, Done
    <2> QED
      BY <2>1, <2>2, <2>4, <2>5 DEF TakesLast, Done
  <1>4. CASE CountWords(c)
    <2>1. phase[c] = "recv" /\ phase' = phase
      BY <1>4, StepCounts DEF CountWords
    <2>2. DoneMap' = DoneMap
      BY <2>1 DEF DoneMap, Done
    <2>3. \/ offset' = offset
          \/ \E o : offset' = [offset EXCEPT ![c] = o]
      BY <1>4 DEF CountWords, MaybeAsk
    <2>4. CASE /\ offset'[c] = offset[c] + k
               /\ Requested(word_count'[c], toClient'[c], toServer'[c],
                            offset'[c])
      <3>1. offset' = [offset EXCEPT ![c] = offset[c] + k]
        BY <1>0, <2>3, <2>4
      <3>2. offset[c] + k <= NumWords
        BY <1>0, <2>4 DEF Requested
      <3> QED
        BY <2>1, <2>2, <3>1, <3>2 DEF TakesBatch, Done
    <2>5. CASE offset'[c] = offset[c]
      <3>1. offset' = offset
        BY <1>0, <2>3, <2>5
      <3> QED
        BY <2>2, <3>1 DEF TakesNothing
    <2> QED
      BY <1>4, <2>4, <2>5, StepCounts
  <1> QED
    BY <1>1, <1>2, <1>3, <1>4 DEF Client, ClientStep

LEMMA NextTakes ==
    ASSUME TypeOK, StepInv, ~cuts, [Next]_vars
    PROVE  \/ \E c \in Clients : TakesBatch(c) \/ TakesLast(c)
           \/ TakesNothing
  <1>1. ASSUME UNCHANGED clientVars
        PROVE  TakesNothing
    BY <1>1 DEF clientVars, TakesNothing, DoneMap, Done
  <1>2. ASSUME NEW c \in Clients, Client(c)
        PROVE  TakesBatch(c) \/ TakesLast(c) \/ TakesNothing
    <2>1. InStep(c) /\ ~ServerClosed(c)
      BY StepOpen DEF StepInv
    <2> QED
      BY <1>2, <2>1, ClientTakes
  <1> QED
    BY <1>1, <1>2 DEF Next, Main, Handler, vars

(* The operators of WordFile mean the same in the instance.                *)
LEMMA SameOperators ==
    /\ \A a, b : Abs!Run(a, b) = Run(a, b)
    /\ \A table, s : Abs!CountAll(table, s) = CountAll(table, s)
    /\ Abs!EmptyTable = Full(0)
  <1>1. Abs!HUH = HUH /\ Abs!Words = Words
    BY DEF Abs!HUH, HUH, Abs!Words, Words
  <1>2. Abs!Entry = Entry
    BY <1>1 DEF Abs!Entry, Entry
  <1>3. \A a, b : Abs!Run(a, b) = Run(a, b)
    BY DEF Abs!Run, Run
  <1>4. \A table, s : Abs!CountAll(table, s) = CountAll(table, s)
    BY <1>2
    DEF Abs!CountAll, CountAll, Abs!Occurrences, Occurrences,
        Abs!Cardinality, Cardinality
  <1>5. Full(0) = [e \in Entry |-> 0]
    BY WordsAreNumbers DEF Full
  <1>6. Abs!EmptyTable = Full(0)
    BY <1>2, <1>5 DEF Abs!EmptyTable
  <1> QED
    BY <1>3, <1>4, <1>6

(* The state of the abstract readers.                                      *)
AbsNext == [c \in Clients |-> IF cuts THEN 0 ELSE offset[c]]
AbsTally == [c \in Clients |-> Finished(c)]
AbsFinished == [c \in Clients |-> ~cuts /\ Done(c)]

(* Streams that are cut are not the abstract readers' concern.             *)
Tallies ==
    /\ cuts => /\ AbsNext = [c \in Clients |-> 0]
               /\ AbsTally = [c \in Clients |-> Full(0)]
               /\ AbsFinished = [c \in Clients |-> FALSE]
    /\ ~cuts => /\ AbsNext = offset
                /\ AbsTally = [c \in Clients |-> Full(Taken(c))]
                /\ AbsFinished = DoneMap

LEMMA TalliesAre ==
    ASSUME TypeOK, StepInv
    PROVE  Tallies
  <1>1. CASE cuts
    <2>1. ASSUME NEW c
          PROVE  Finished(c) = Full(0)
      BY <1>1, WordsAreNumbers DEF Finished, Full
    <2> QED
      BY <1>1, <2>1 DEF Tallies, AbsNext, AbsTally, AbsFinished
  <1>2. CASE ~cuts
    <2>1. \A c \in Clients : Finished(c) = Full(Taken(c))
      BY <1>2, FinishedIs DEF StepInv
    <2>2. AbsTally = [c \in Clients |-> Full(Taken(c))]
      BY <2>1 DEF AbsTally
    <2>3. AbsNext = offset
      BY <1>2 DEF AbsNext, TypeOK
    <2>4. AbsFinished = DoneMap
      BY <1>2 DEF AbsFinished, DoneMap, Done
    <2> QED
      BY <1>2, <2>2, <2>3, <2>4 DEF Tallies
  <1> QED
    BY <1>1, <1>2

LEMMA InitRefines == Init => Abs!Init
  <1> SUFFICES ASSUME Init
               PROVE  Abs!Init
    OBVIOUS
  <1>1. \A c \in Clients : offset[c] = 0 /\ phase[c] = "new"
    BY DEF Init
  <1>2. \A c \in Clients : Finished(c) = Full(0)
    <2>1. \A e \in Words : ~(e < 0)
      BY WordsAreNumbers
    <2> QED
      BY <1>1, <2>1 DEF Finished, Full, Done
  <1>3. /\ AbsNext = [c \in Clients |-> 0]
        /\ AbsTally = [c \in Clients |-> Full(0)]
        /\ AbsFinished = [c \in Clients |-> FALSE]
    BY <1>1, <1>2 DEF AbsNext, AbsTally, AbsFinished, Done
  <1> QED
    BY <1>3, SameOperators DEF Abs!Init, AbsNext, AbsTally, AbsFinished

LEMMA TakesRefines ==
    ASSUME TypeOK, StepInv, ~cuts, ~cuts', Tallies, Tallies', [Next]_vars
    PROVE  [Abs!Next]_(Abs!absVars)
  <1>1. /\ AbsNext = offset
        /\ AbsTally = [c \in Clients |-> Full(Taken(c))]
        /\ AbsFinished = DoneMap
    BY DEF Tallies
  <1>2. /\ AbsNext' = offset'
        /\ AbsTally' = [c \in Clients |-> Full(Taken(c)')]
        /\ AbsFinished' = DoneMap'
    BY DEF Tallies
  <1>3. /\ offset \in [Clients -> Nat] /\ k \in Nat /\ NumWords \in Nat
        /\ DoneMap \in [Clients -> BOOLEAN]
    BY ConfigAssumption DEF TypeOK, DoneMap, Done
  <1>4. \A c \in Clients :
           /\ Taken(c) = IF DoneMap[c] THEN NumWords ELSE offset[c]
           /\ Taken(c)' = IF DoneMap'[c] THEN NumWords ELSE offset'[c]
    BY DEF Taken, DoneMap
  <1>5. ASSUME TakesNothing
        PROVE  UNCHANGED Abs!absVars
    <2>1. AbsNext' = AbsNext /\ AbsFinished' = AbsFinished
      BY <1>1, <1>2, <1>5 DEF TakesNothing
    <2>2. AbsTally' = AbsTally
      BY <1>1, <1>2, <1>4, <1>5 DEF TakesNothing
    <2> QED
      BY <2>1, <2>2 DEF Abs!absVars, AbsNext, AbsTally, AbsFinished
  <1>6. ASSUME NEW c \in Clients, TakesBatch(c)
        PROVE  Abs!CountBatch(c)
    <2>1. ~DoneMap[c] /\ DoneMap' = DoneMap
      BY <1>6 DEF TakesBatch, DoneMap
    <2>2. /\ offset'[c] = offset[c] + k
          /\ \A d \in Clients \ {c} : offset'[d] = offset[d]
      BY <1>3, <1>6 DEF TakesBatch
    <2>3. Full(Taken(c)')
             = CountAll(Full(Taken(c)), Run(offset[c], offset[c] + k))
      BY <1>3, <1>4, <2>1, <2>2, FullCounts
    <2>4. \A d \in Clients \ {c} : Taken(d)' = Taken(d)
      BY <1>4, <2>1, <2>2
    <2>5. AbsTally' = [AbsTally EXCEPT
             ![c] = CountAll(@, Run(offset[c], offset[c] + k))]
      BY <1>1, <1>2, <2>3, <2>4
    <2>6. /\ ~AbsFinished[c] /\ AbsNext[c] + k <= NumWords
          /\ AbsNext' = [AbsNext EXCEPT ![c] = @ + k]
          /\ AbsFinished' = AbsFinished
      BY <1>1, <1>2, <1>6, <2>1 DEF TakesBatch
    <2>7. Run(offset[c], offset[c] + k) \in Abs!Windows(AbsNext[c])
      BY <1>1, SameOperators DEF Abs!Windows
    <2> QED
      BY <2>5, <2>6, <2>7, SameOperators
      DEF Abs!CountBatch, AbsNext, AbsTally, AbsFinished
  <1>7. ASSUME NEW c \in Clients, TakesLast(c)
        PROVE  Abs!CountLast(c)
    <2>1. /\ ~DoneMap[c] /\ DoneMap'[c] /\ offset' = offset
          /\ \A d \in Clients \ {c} : DoneMap'[d] = DoneMap[d]
      BY <1>3, <1>7 DEF TakesLast, DoneMap
    <2>2. Full(Taken(c)') = CountAll(Full(Taken(c)), Run(offset[c], NumWords))
      <3>1. offset[c] <= NumWords /\ offset[c] \in Nat
        BY <1>3, <1>7 DEF TakesLast
      <3> QED
        BY <1>3, <1>4, <2>1, <3>1, FullCounts
    <2>3. \A d \in Clients \ {c} : Taken(d)' = Taken(d)
      BY <1>4, <2>1
    <2>4. AbsTally' = [AbsTally EXCEPT
             ![c] = CountAll(@, Run(offset[c], NumWords))]
      BY <1>1, <1>2, <2>2, <2>3
    <2>5. /\ ~AbsFinished[c] /\ AbsNext[c] + k >= NumWords
          /\ AbsNext' = AbsNext
          /\ AbsFinished' = [AbsFinished EXCEPT ![c] = TRUE]
      BY <1>1, <1>2, <1>7, <2>1 DEF TakesLast
    <2> QED
      BY <1>1, <2>4, <2>5, SameOperators
      DEF Abs!CountLast, AbsNext, AbsTally, AbsFinished
  <1> QED
    BY <1>5, <1>6, <1>7, NextTakes DEF Abs!Next

LEMMA StepRefines ==
    ASSUME TypeOK, StepInv, Tallies, Tallies', [Next]_vars
    PROVE  [Abs!Next]_(Abs!absVars)
  <1>1. cuts' = cuts
    BY DEF Next, Main, Handler, Client, vars, setup
  <1>2. CASE cuts
    <2>1. /\ AbsNext' = AbsNext /\ AbsTally' = AbsTally
          /\ AbsFinished' = AbsFinished
      BY <1>1, <1>2 DEF Tallies
    <2> QED
      BY <2>1 DEF Abs!absVars, AbsNext, AbsTally, AbsFinished
  <1>3. CASE ~cuts
    BY <1>1, <1>3, TakesRefines
  <1> QED
    BY <1>2, <1>3

(* Client and handler of each session count the file window by window, as  *)
(* WordCount describes, and lose no word to a HUH!.                        *)
THEOREM Refinement ==
    ASSUME NumWords # 0
    PROVE  Spec => AbsSpec
  <1>1. TypeOK /\ StepInv => Tallies
    BY TalliesAre
  <1>2. TypeOK /\ StepInv /\ Tallies /\ Tallies' /\ [Next]_vars
           => [Abs!Next]_(Abs!absVars)
    BY StepRefines
  <1> QED
    BY <1>1, <1>2, InitRefines, TypeCorrect, StepCorrect, PTL
    DEF Spec, AbsSpec, Abs!Spec
=============================================================================
