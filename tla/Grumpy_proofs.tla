---------------------------- MODULE Grumpy_proofs ----------------------------
(***************************************************************************)
(* Theorems about part 3, for every set of clients, every file and every k *)
(* and p.                                                                  *)
(***************************************************************************)
EXTENDS Grumpy, WordFile_proofs

-----------------------------------------------------------------------------
(* Type correctness.                                                       *)

(* What a packet is made of.                                               *)
LEMMA PacketType ==
    ASSUME TypeOK, NEW c \in Clients
    PROVE  Packet(c) \in Seq(Token)
  <1>1. req[c] \in Nat /\ i[c] \in Nat /\ i[c] <= NumWords
    BY ConfigAssumption DEF TypeOK, ServerTypeOK
  <1>2. Run(req[c], i[c]) \in Seq(Words)
    BY <1>1, RunInFile
  <1>3. Run(req[c], i[c]) \in Seq(Token)
    BY <1>2, SeqMonotonic, Zenon DEF Token
  <1>4. <<END>> \in Seq(Token) /\ <<>> \in Seq(Token)
    BY DEF Token
  <1> QED
    BY <1>3, <1>4 DEF Packet

(* An answer of tokens leaves tokens on the connection.                    *)
LEMMA AnswerType ==
    ASSUME WireTypeOK, NEW c \in Clients, NEW tokens \in Seq(Token),
           Answer(c, tokens)
    PROVE  toClient' \in [Clients -> Seq(Token)]
  BY DEF WireTypeOK, Answer

(* The empty attempt.                                                      *)
LEMMA NoTokens == <<>> \in Seq(Token)
  BY EmptySeq

(* The single-token answers.                                               *)
LEMMA ControlAnswers ==
    <<HUH>> \in Seq(Token) /\ <<DOLLAR>> \in Seq(Token)
  BY DEF Token

(* No step of a handler leaves the types.                                  *)
LEMMA HandlerType ==
    ASSUME TypeOK, NEW c \in Clients, HandlerNext(c)
    PROVE  TypeOK'
  <1> USE DEF TypeOK, WireTypeOK, ServerTypeOK, Jump, At, Goto, Label,
              wireVars, shared, locals
  <1>0. ClientTypeOK'
    BY DEF HandlerNext, ClientTypeOK, clientVars
  <1>a. ASSUME Leave(c)
        PROVE  /\ req' \in [Clients -> Nat]
               /\ z' \in [Clients -> 0 .. NumWords]
               /\ i' \in [Clients -> 0 .. NumWords]
    BY <1>a, ConfigAssumption DEF Leave
  <1>1. CASE Accept(c)
    BY <1>0, <1>1 DEF Accept
  <1>2. CASE Receive(c)
    <2>1. PICK m \in 1 .. Len(toServer[c]) :
              toServer' = [toServer EXCEPT ![c] = Rest(@, m)]
      BY <1>2 DEF Receive
    <2>2. toServer[c] \in Seq(Nat) /\ toServer[c] # <<>>
      BY <2>1
    <2>3. Rest(toServer[c], m) \in Seq(Nat)
      BY <2>1, <2>2, TakeProperties, Zenon DEF Rest
    <2>4. Head(toServer[c]) \in Nat
      BY <2>2, HeadTailProperties
    <2>5. /\ toServer' \in [Clients -> Seq(Nat)]
          /\ req' \in [Clients -> Nat] /\ pc' \in [Clients -> Label]
      BY <1>2, <2>1, <2>3, <2>4 DEF Receive
    <2>6. UNCHANGED <<toClient, shared, z, i, is_sent, back>>
      BY <1>2 DEF Receive
    <2> QED
      BY <1>0, <2>5, <2>6
  <1>3. CASE Refuse(c)
    <2>1. toClient' \in [Clients -> Seq(Token)]
      BY <1>3, AnswerType, ControlAnswers DEF Refuse
    <2> QED
      BY <1>0, <1>3, <1>a, <2>1 DEF Refuse, Answer
  <1>4. CASE Admit(c)
    BY <1>0, <1>4 DEF Admit
  <1>5. CASE Claim(c)
    BY <1>0, <1>5 DEF Claim
  <1>6. CASE Own(c)
    BY <1>0, <1>6 DEF Own
  <1>7. CASE Late(c)
    <2>1. toClient' \in [Clients -> Seq(Token)]
      BY <1>7, AnswerType, ControlAnswers DEF Late
    <2> QED
      BY <1>0, <1>7, <1>a, <2>1 DEF Late, Answer
  <1>8. CASE OutOfRange(c)
    <2>1. toClient' \in [Clients -> Seq(Token)]
      BY <1>8, AnswerType, ControlAnswers DEF OutOfRange
    <2> QED
      BY <1>0, <1>8, <1>a, <2>1 DEF OutOfRange, Answer
  <1>9. CASE Begin(c)
    <2>1. BatchEnd(req[c]) \in 0 .. NumWords
      BY BatchEndProperties, ConfigAssumption
    <2> QED
      BY <1>0, <1>9, <2>1 DEF Begin
  <1>10. CASE NextPacket(c)
    <2>1. req[c] \in 0 .. NumWords
      BY <1>10, ConfigAssumption DEF NextPacket
    <2> QED
      BY <1>0, <1>10, <2>1 DEF NextPacket
  <1>11. CASE EndBatch(c)
    BY <1>0, <1>11, <1>a DEF EndBatch
  <1>12. CASE AddWord(c)
    <2>2. /\ i[c] \in 0 .. NumWords /\ z[c] \in 0 .. NumWords
          /\ NumWords \in Nat
      BY ConfigAssumption
    <2>3. i[c] < z[c]
      BY <1>12 DEF AddWord, PacketFull
    <2>1. i[c] + 1 \in 0 .. NumWords
      BY <2>2, <2>3
    <2> QED
      BY <1>0, <1>12, <2>1 DEF AddWord
  <1>13. CASE EndPacket(c)
    BY <1>0, <1>13 DEF EndPacket
  <1>14. CASE Emit(c)
    <2>1. toClient' \in [Clients -> Seq(Token)]
      BY <1>14, AnswerType, PacketType DEF Emit
    <2>2. (is_sent[c] \/ i[c] >= NumWords) \in BOOLEAN
      OBVIOUS
    <2>3. is_sent' \in [Clients -> BOOLEAN]
      BY <1>14, <2>2, Zenon DEF Emit
    <2> QED
      BY <1>0, <1>14, <2>1, <2>3 DEF Emit
  <1>15. CASE Abandon(c)
    <2>1. toClient' \in [Clients -> Seq(Token)]
      BY <1>15, AnswerType, ControlAnswers DEF Abandon
    <2> QED
      BY <1>0, <1>15, <1>a, <2>1 DEF Abandon, Answer
  <1>16. CASE ResetRunning(c)
    BY <1>0, <1>16 DEF ResetRunning
  <1>17. CASE ResetOwner(c)
    BY <1>0, <1>17 DEF ResetOwner
  <1>18. CASE ResetStamp(c)
    BY <1>0, <1>18 DEF ResetStamp
  <1>19. CASE Release(c)
    BY <1>0, <1>19 DEF Release
  <1> QED
    BY <1>1, <1>2, <1>3, <1>4, <1>5, <1>6, <1>7, <1>8, <1>9, <1>10, <1>11,
       <1>12, <1>13, <1>14, <1>15, <1>16, <1>17, <1>18, <1>19, Zenon
    DEF HandlerNext, HandlerStep

(* A recv takes a line of tokens and leaves tokens.                        *)
LEMMA TakesType ==
    ASSUME TypeOK, NEW c \in Clients, NEW line \in Prefixes(toClient[c]),
           Takes(c, line)
    PROVE  /\ line \in Seq(Token)
           /\ Len(line) \in 1 .. Len(toClient[c])
           /\ line = First(toClient[c], Len(line))
           /\ First(line, Len(line) - 1) \in Seq(Token)
           /\ toClient' \in [Clients -> Seq(Token)]
  <1>1. toClient[c] \in Seq(Token)
    BY DEF TypeOK, WireTypeOK
  <1>2. PICK m \in 1 .. Len(toClient[c]) : line = First(toClient[c], m)
    BY DEF Prefixes
  <1>3. /\ SubSeq(toClient[c], 1, m) \in Seq(Token)
        /\ Len(SubSeq(toClient[c], 1, m)) = m
        /\ SubSeq(toClient[c], m + 1, Len(toClient[c])) \in Seq(Token)
    BY <1>1, <1>2, TakeProperties
  <1>4. line \in Seq(Token) /\ Len(line) = m
    BY <1>2, <1>3 DEF First
  <1>5. First(line, Len(line) - 1) \in Seq(Token)
    <2>1. \A j \in 1 .. Len(line) - 1 : line[j] \in Token
      BY <1>4, ElementOfSeq
    <2>2. 1 \in Int /\ Len(line) - 1 \in Int
      BY <1>4
    <2> QED
      BY <2>1, <2>2, SubSeqProperties DEF First
  <1>6. toClient' \in [Clients -> Seq(Token)]
    BY <1>3, <1>4 DEF TypeOK, WireTypeOK, Takes, Rest
  <1> QED
    BY <1>2, <1>4, <1>5, <1>6

(* No step of a client leaves the types.                                   *)
LEMMA ClientType ==
    ASSUME TypeOK, NEW c \in Clients, ClientNext(c)
    PROVE  TypeOK'
  <1>0. ServerTypeOK'
    BY DEF ClientNext, ServerTypeOK, serverVars, shared, locals, TypeOK
  <1>1. CASE Request(c)
    BY <1>0, <1>1
    DEF Request, TypeOK, WireTypeOK, ClientTypeOK, Phase
  <1>2. CASE Refused(c)
    <2>1. PICK line \in Prefixes(toClient[c]) :
              /\ Takes(c, line)
              /\ phase' = [phase EXCEPT ![c] = "wait"]
              /\ words' = [words EXCEPT ![c] = <<>>]
              /\ UNCHANGED <<offset, wordcount>>
      BY <1>2 DEF Refused
    <2>2. toClient' \in [Clients -> Seq(Token)] /\ toServer' = toServer
      BY <2>1, TakesType DEF Takes
    <2>3. ClientTypeOK'
      BY <2>1 DEF TypeOK, ClientTypeOK, Phase
    <2> QED
      BY <1>0, <2>2, <2>3 DEF TypeOK, WireTypeOK
  <1>3. CASE Finish(c)
    <2>1. PICK line \in Prefixes(toClient[c]) :
              /\ Takes(c, line)
              /\ phase' = [phase EXCEPT ![c] = "done"]
              /\ words' = [words EXCEPT ![c] = <<>>]
              /\ wordcount' = [wordcount EXCEPT ![c] =
                    CountAll(@, words[c] \o First(line, Len(line) - 1))]
              /\ UNCHANGED offset
      BY <1>3 DEF Finish
    <2>2. /\ toClient' \in [Clients -> Seq(Token)] /\ toServer' = toServer
          /\ First(line, Len(line) - 1) \in Seq(Token)
      BY <2>1, TakesType DEF Takes
    <2>3. words[c] \o First(line, Len(line) - 1) \in Seq(Token)
      BY <2>2, ConcatProperties DEF TypeOK, ClientTypeOK
    <2>4. CountAll(wordcount[c], words[c] \o First(line, Len(line) - 1))
             \in [Entry -> Nat]
      BY <2>3, CountAllType DEF TypeOK, ClientTypeOK
    <2>5. ClientTypeOK'
      BY <2>1, <2>4 DEF TypeOK, ClientTypeOK, Phase
    <2> QED
      BY <1>0, <2>2, <2>5 DEF TypeOK, WireTypeOK
  <1>4. CASE Collect(c)
    <2>1. PICK line \in Prefixes(toClient[c]) :
              /\ Takes(c, line)
              /\ ~ IsRefusal(line) /\ ~ IsFinal(line)
              /\ Absorb(c, words[c] \o line)
      BY <1>4 DEF Collect
    <2> DEFINE got == words[c] \o line
    <2>2. /\ toClient' \in [Clients -> Seq(Token)] /\ toServer' = toServer
          /\ line \in Seq(Token)
      BY <2>1, TakesType DEF Takes
    <2>3. got \in Seq(Token)
      BY <2>2, ConcatProperties DEF TypeOK, ClientTypeOK
    <2>4. CountAll(wordcount[c], got) \in [Entry -> Nat]
      BY <2>3, CountAllType DEF TypeOK, ClientTypeOK
    <2>5. ClientTypeOK'
      <3> HIDE DEF got
      <3>1. Absorb(c, got)
        BY <2>1 DEF got
      <3>2. CASE Len(got) = k
        <4>1. offset[c] + k \in Nat
          BY ConfigAssumption DEF TypeOK, ClientTypeOK
        <4>2. offset' \in [Clients -> Nat]
          BY <3>1, <3>2, <4>1 DEF Absorb, TypeOK, ClientTypeOK
        <4>3. wordcount' \in [Clients -> [Entry -> Nat]]
          BY <3>1, <3>2, <2>4 DEF Absorb, TypeOK, ClientTypeOK
        <4>4. words' \in [Clients -> Seq(Token)]
          BY <3>1, <3>2, NoTokens DEF Absorb, TypeOK, ClientTypeOK
        <4>5. phase' \in [Clients -> Phase]
          BY <3>1, <3>2 DEF Absorb, TypeOK, ClientTypeOK, Phase
        <4> QED
          BY <4>2, <4>3, <4>4, <4>5 DEF ClientTypeOK
      <3>3. CASE Len(got) # k
        BY <3>1, <3>3, <2>3 DEF Absorb, TypeOK, ClientTypeOK
      <3> QED
        BY <3>2, <3>3
    <2> QED
      BY <1>0, <2>2, <2>5 DEF TypeOK, WireTypeOK
  <1> QED
    BY <1>1, <1>2, <1>3, <1>4, Zenon DEF ClientNext, ClientStep

(* A step that changes nothing.                                            *)
LEMMA StutterType ==
    ASSUME TypeOK, UNCHANGED vars
    PROVE  TypeOK'
  BY DEF TypeOK, WireTypeOK, ServerTypeOK, ClientTypeOK, vars, wireVars,
         serverVars, shared, locals, clientVars

LEMMA InitType == Init => TypeOK
  <1>1. EmptyTable \in [Entry -> Nat]
    BY DEF EmptyTable
  <1>2. WireInit => WireTypeOK
    BY DEF WireInit, WireTypeOK
  <1>3. ASSUME ServerInit PROVE ServerTypeOK
    <2>1. /\ isRunning \in BOOLEAN
          /\ is_sent \in [Clients -> BOOLEAN]
      BY <1>3, Zenon DEF ServerInit
    <2>2. /\ clientID \in Clients \cup {NoClient}
          /\ late \in SUBSET Clients
          /\ pc \in [Clients -> Label]
          /\ back \in [Clients -> {"recv", "release"}]
      BY <1>3 DEF ServerInit, Label
    <2>3. /\ req \in [Clients -> Nat]
          /\ z \in [Clients -> 0 .. NumWords]
          /\ i \in [Clients -> 0 .. NumWords]
      BY <1>3, ConfigAssumption DEF ServerInit
    <2> QED
      BY <2>1, <2>2, <2>3, Zenon DEF ServerTypeOK
  <1>4. ASSUME ClientInit PROVE ClientTypeOK
    <2>1. wordcount \in [Clients -> [Entry -> Nat]]
      BY <1>1, <1>4 DEF ClientInit
    <2>2. words \in [Clients -> Seq(Token)]
      BY <1>4, NoTokens DEF ClientInit
    <2>3. phase \in [Clients -> Phase] /\ offset \in [Clients -> Nat]
      BY <1>4 DEF ClientInit, Phase
    <2> QED
      BY <2>1, <2>2, <2>3 DEF ClientTypeOK
  <1> QED
    BY <1>2, <1>3, <1>4 DEF Init, TypeOK

(* The variables of handlers, clients and connections hold values of their *)
(* kind in every execution: in particular a packet is built from words of  *)
(* the file only, never from words[i] past its end.                        *)
THEOREM TypeCorrect == Spec => []TypeOK
  <1>1. TypeOK /\ [Next]_vars => TypeOK'
    BY HandlerType, ClientType, StutterType DEF Next
  <1> QED
    BY <1>1, InitType, PTL DEF Spec

-----------------------------------------------------------------------------
(* The connection invariant.                                               *)

Inv == TypeOK /\ ConnectionInv

(* All that ConnectionOK(d) speaks of.                                     *)
Local(d) == <<toServer[d], toClient[d], pc[d], req[d], z[d], i[d], is_sent[d],
              phase[d], offset[d], words[d]>>

LEMMA LocalFrame ==
    ASSUME NEW d \in Clients, ConnectionOK(d), UNCHANGED Local(d)
    PROVE  ConnectionOK(d)'
  <1>1. /\ toServer[d]' = toServer[d] /\ toClient[d]' = toClient[d]
        /\ pc[d]' = pc[d] /\ req[d]' = req[d] /\ z[d]' = z[d]
        /\ i[d]' = i[d] /\ is_sent[d]' = is_sent[d]
        /\ phase[d]' = phase[d] /\ offset[d]' = offset[d]
        /\ words[d]' = words[d]
    BY DEF Local
  <1>2. Attempt(d)' = Attempt(d)
    BY <1>1 DEF Attempt
  <1>3. Quiet(d)' = Quiet(d)
    BY <1>1 DEF Quiet, At
  <1>4. HandlerInv(d)'
    BY <1>1, <1>3 DEF ConnectionOK, HandlerInv
  <1>5. AttemptInv(d)'
    BY <1>1, <1>2 DEF ConnectionOK, AttemptInv, Fits
  <1>6. PhaseInv(d)'
    BY <1>1, <1>3 DEF ConnectionOK, PhaseInv, Asked, Fresh, Done
  <1>7. ServeInv(d)'
    BY <1>1, <1>2, <1>3 DEF ConnectionOK, ServeInv
  <1> QED
    BY <1>4, <1>5, <1>6, <1>7 DEF ConnectionOK

(* A handler step touches no other connection, and a client step neither.  *)
LEMMA HandlerFrame ==
    ASSUME TypeOK, NEW c \in Clients, HandlerNext(c),
           NEW d \in Clients, d # c
    PROVE  UNCHANGED Local(d)
  BY DEF TypeOK, WireTypeOK, ServerTypeOK, HandlerNext, HandlerStep, Accept,
         Receive, Refuse, Admit, Claim, Own, Late, OutOfRange, Begin,
         NextPacket, EndBatch, AddWord, EndPacket, Emit, Abandon,
         ResetRunning, ResetOwner, ResetStamp, Release, Jump, At, Goto, Leave,
         Answer, wireVars, shared, locals, clientVars, Local

LEMMA ClientFrame ==
    ASSUME TypeOK, NEW c \in Clients, ClientNext(c),
           NEW d \in Clients, d # c
    PROVE  UNCHANGED Local(d)
  BY DEF TypeOK, WireTypeOK, ClientTypeOK, ClientNext, ClientStep, Request,
         Refused, Finish, Collect, Absorb, Takes, serverVars, shared, locals,
         Local

(* A client's attempt is a sequence of tokens.                             *)
LEMMA AttemptType ==
    ASSUME TypeOK, NEW c \in Clients
    PROVE  /\ Attempt(c) \in Seq(Token)
           /\ Len(Attempt(c)) \in Nat
           /\ Len(Attempt(c)) = Len(words[c]) + Len(toClient[c])
  <1>1. words[c] \in Seq(Token) /\ toClient[c] \in Seq(Token)
    BY DEF TypeOK, WireTypeOK, ClientTypeOK
  <1> QED
    BY <1>1, ConcatProperties, LenProperties DEF Attempt

(* The steps by which a handler c neither sends nor reads.                 *)
Silent(c) ==
    \/ Accept(c)    \/ Admit(c)   \/ Claim(c)      \/ Own(c)
    \/ Begin(c)     \/ NextPacket(c) \/ EndBatch(c) \/ AddWord(c)
    \/ EndPacket(c) \/ ResetRunning(c) \/ ResetOwner(c)
    \/ ResetStamp(c) \/ Release(c)

LEMMA SilentConnection ==
    ASSUME Inv, NEW c \in Clients, HandlerNext(c), Silent(c)
    PROVE  ConnectionOK(c)'
  <1> USE DEF Inv, TypeOK, ServerTypeOK
  <1>1. /\ toServer' = toServer /\ toClient' = toClient
        /\ phase' = phase /\ offset' = offset /\ words' = words
    BY DEF HandlerNext, Silent, Accept, Admit, Claim, Own, Begin, NextPacket,
           EndBatch, AddWord, EndPacket, ResetRunning, ResetOwner, ResetStamp,
           Release, wireVars, clientVars
  <1>2. Attempt(c)' = Attempt(c) /\ Len(Attempt(c)) \in Nat
    BY <1>1, AttemptType DEF Attempt
  <1>3. offset[c] \in Nat /\ req[c] \in Nat /\ i[c] \in Nat /\ z[c] \in Nat
    BY ConfigAssumption DEF ClientTypeOK
  <1>4. ConnectionOK(c)
    BY DEF ConnectionInv
  <1>5. is_sent' = is_sent
    BY DEF Silent, Accept, Admit, Claim, Own, Begin, NextPacket,
           EndBatch, AddWord, EndPacket, ResetRunning, ResetOwner, ResetStamp,
           Release, locals, Leave
  <1>6. AttemptInv(c)'
    BY <1>1, <1>2, <1>4, <1>5 DEF ConnectionOK, AttemptInv, Fits
  <1>7. /\ Quiet(c) => Quiet(c)'
        /\ ~ Quiet(c)' =>
              /\ req'[c] = req[c]
              /\ pc'[c] \in {"check", "claim", "own", "late"} =>
                    pc[c] \in {"check", "claim", "own", "late"}
              /\ pc'[c] \in {"outer", "inner", "emit"} =>
                    \/ pc[c] \in {"outer", "inner", "emit"} /\ z'[c] = z[c]
                    \/ At(c, "late") /\ z'[c] = BatchEnd(req[c])
    BY <1>3
    DEF Silent, Accept, Admit, Claim, Own, Begin, NextPacket, EndBatch,
        AddWord, EndPacket, ResetRunning, ResetOwner, ResetStamp, Release,
        Jump, At, Goto, Leave, Quiet, locals
  <1>8. PhaseInv(c)'
    BY <1>1, <1>4, <1>5, <1>7 DEF ConnectionOK, PhaseInv, Asked, Fresh, Done
  <1>9. HandlerInv(c)'
    BY <1>3, <1>4, <1>5, ConfigAssumption
    DEF Silent, Accept, Admit, Claim, Own, Begin, NextPacket, EndBatch,
        AddWord, EndPacket, ResetRunning, ResetOwner, ResetStamp, Release,
        Jump, At, Goto, Leave, Quiet, locals, PacketFull, ConnectionOK,
        HandlerInv
  <1>10. ServeInv(c)'
    <2>1. SUFFICES ASSUME ~ Quiet(c)'
                   PROVE  ServeInv(c)'
      BY DEF ServeInv
    <2>2. ~ Quiet(c)
      BY <1>7, <2>1
    <2>3. At(c, "late") => Len(Attempt(c)) = 0
      BY <1>4, <2>2 DEF ConnectionOK, ServeInv, At
    <2> QED
      BY <1>1, <1>2, <1>3, <1>4, <1>7, <2>1, <2>2, <2>3
      DEF ConnectionOK, ServeInv, At
  <1> QED
    BY <1>6, <1>8, <1>9, <1>10 DEF ConnectionOK

(* Reading a request starts an attempt whose next word due is its offset.  *)
LEMMA ReceiveConnection ==
    ASSUME Inv, NEW c \in Clients, HandlerNext(c), Receive(c)
    PROVE  ConnectionOK(c)'
  <1> USE DEF Inv, TypeOK, ServerTypeOK
  <1>1. ConnectionOK(c)
    BY DEF ConnectionInv
  <1>2. PICK m \in 1 .. Len(toServer[c]) :
            toServer' = [toServer EXCEPT ![c] = Rest(@, m)]
    BY DEF Receive
  <1>3. toServer[c] \in Seq(Nat) /\ Len(toServer[c]) \in Nat
        /\ toServer[c] # <<>>
    BY <1>2 DEF WireTypeOK
  <1>4. At(c, "recv") /\ ~ is_sent[c] /\ At(c, "check")'
    BY <1>1 DEF Receive, Jump, At, Goto, ConnectionOK, HandlerInv
  <1>5. /\ phase[c] = "recv" /\ toServer[c] = <<offset[c]>> /\ Fresh(c)
    BY <1>1, <1>3, <1>4 DEF ConnectionOK, PhaseInv, Asked
  <1>6. toServer'[c] = <<>>
    <2>1. m = 1
      BY <1>2, <1>5
    <2>2. Rest(toServer[c], m) = <<>>
      BY <1>5, <2>1, SubSeqEmpty DEF Rest
    <2> QED
      BY <1>2, <2>2 DEF WireTypeOK
  <1>7. /\ toClient' = toClient /\ phase' = phase /\ offset' = offset
        /\ words' = words /\ is_sent' = is_sent /\ z' = z /\ i' = i
        /\ req'[c] = offset[c]
    BY <1>5 DEF Receive, HandlerNext, clientVars
  <1>8. Attempt(c)' = Attempt(c) /\ Len(Attempt(c)) \in Nat
    BY <1>7, AttemptType DEF Attempt
  <1>9. Attempt(c) = <<>> /\ Len(Attempt(c)) = 0
    <2>1. toClient[c] = <<>>
      <3>1. SUFFICES ASSUME toClient[c] = <<END>>
                     PROVE  FALSE
        BY <1>5 DEF Fresh
      <3>2. Attempt(c) = <<END>>
        BY <1>5, <3>1, ConcatEmptySeq DEF Fresh, Attempt, WireTypeOK
      <3>3. Fits(c, 1, END)
        BY <1>1, <3>2 DEF ConnectionOK, AttemptInv
      <3> QED
        BY <1>4, <3>3 DEF Fits
    <2> QED
      BY <1>5, <2>1, ConcatEmptySeq DEF Fresh, Attempt, WireTypeOK
  <1>10. HandlerInv(c)'
    BY <1>4, <1>7 DEF HandlerInv, At
  <1>11. AttemptInv(c)'
    BY <1>8, <1>9 DEF AttemptInv
  <1>12. PhaseInv(c)'
    BY <1>5, <1>6, <1>7 DEF PhaseInv, Asked
  <1>13. ServeInv(c)'
    BY <1>4, <1>7, <1>8, <1>9 DEF ServeInv, At, ClientTypeOK
  <1> QED
    BY <1>10, <1>11, <1>12, <1>13 DEF ConnectionOK

(* Joining streams of tokens, which every send does, is associative. *)
LEMMA TokensAssociative ==
    \A s, t, u \in Seq(Token) : (s \o t) \o u = s \o (t \o u)
  BY Associative

(* What an answer does to the attempt.                                     *)
LEMMA AnswerAttempt ==
    ASSUME TypeOK, NEW c \in Clients, NEW tokens \in Seq(Token),
           Answer(c, tokens), words' = words
    PROVE  /\ Attempt(c)' = Attempt(c) \o tokens
           /\ Len(Attempt(c)') = Len(Attempt(c)) + Len(tokens)
           /\ \A j \in 1 .. Len(Attempt(c)) : Attempt(c)'[j] = Attempt(c)[j]
           /\ \A j \in 1 .. Len(tokens) :
                  Attempt(c)'[Len(Attempt(c)) + j] = tokens[j]
  <1>1. /\ words[c] \in Seq(Token) /\ toClient[c] \in Seq(Token)
        /\ toClient'[c] = toClient[c] \o tokens
    BY DEF TypeOK, WireTypeOK, ClientTypeOK, Answer
  <1>2. Attempt(c)' = Attempt(c) \o tokens
    <2>1. \A s, t, u \in Seq(Token) : (s \o t) \o u = s \o (t \o u)
      BY TokensAssociative, Zenon
    <2>2. Attempt(c)' = words[c] \o (toClient[c] \o tokens)
      BY <1>1 DEF Attempt
    <2> QED
      BY <1>1, <2>1, <2>2, Zenon DEF Attempt
  <1>3. Attempt(c) \in Seq(Token)
    BY AttemptType
  <1>4. \A s, t \in Seq(Token) :
            /\ Len(s \o t) = Len(s) + Len(t)
            /\ \A j \in 1 .. Len(s) : (s \o t)[j] = s[j]
            /\ \A j \in 1 .. Len(t) : (s \o t)[Len(s) + j] = t[j]
    BY ConcatParts
  <1>5. /\ Len(Attempt(c) \o tokens) = Len(Attempt(c)) + Len(tokens)
        /\ \A j \in 1 .. Len(Attempt(c)) :
              (Attempt(c) \o tokens)[j] = Attempt(c)[j]
        /\ \A j \in 1 .. Len(tokens) :
              (Attempt(c) \o tokens)[Len(Attempt(c)) + j] = tokens[j]
    BY <1>3, <1>4, Zenon
  <1> QED
    BY <1>2, <1>5, Zenon

(* The tokens are four different kinds of thing.                           *)
LEMMA Kinds ==
    /\ HUH \notin Words /\ END \notin Words /\ DOLLAR \notin Words
    /\ HUH # END /\ HUH # DOLLAR /\ END # DOLLAR
  BY ConfigAssumption DEF HUH, END, DOLLAR, Words

(* A handler that is serving, and only such a handler, has an attempt of   *)
(* words before it, and its client asks for nothing else meanwhile.        *)
LEMMA Serving ==
    ASSUME Inv, NEW c \in Clients, ~ Quiet(c)
    PROVE  /\ phase[c] = "recv" /\ ~ Asked(c) /\ ~ is_sent[c]
           /\ req[c] = offset[c] + Len(Attempt(c))
           /\ \A j \in 1 .. Len(Attempt(c)) : Attempt(c)[j] \in Words
           /\ \A j \in 1 .. Len(Attempt(c)) :
                 Attempt(c)[j] = offset[c] + j - 1
                 /\ Attempt(c)[j] < BatchEnd(offset[c])
           /\ pc[c] \in {"check", "claim", "own", "late"} => Attempt(c) = <<>>
           /\ pc[c] \in {"outer", "inner", "emit"} => z[c] = BatchEnd(offset[c])
  BY DEF Inv, ConnectionInv, ConnectionOK, HandlerInv, AttemptInv, Fits,
         PhaseInv, ServeInv

(* A handler that was serving sends one control token and stops.           *)
LEMMA ControlSent ==
    ASSUME Inv, NEW c \in Clients, ~ Quiet(c), NEW t \in {HUH, DOLLAR},
           Answer(c, <<t>>), UNCHANGED <<toServer, phase, offset, words>>,
           Quiet(c)', pc'[c] \notin {"inner", "emit"}, ~ is_sent'[c],
           t = HUH => \/ Len(Attempt(c)) = 0
                      \/ offset[c] + Len(Attempt(c)) < BatchEnd(offset[c]),
           t = DOLLAR => Len(Attempt(c)) = 0 /\ offset[c] >= NumWords
    PROVE  ConnectionOK(c)'
  <1> DEFINE n == Len(Attempt(c))
  <1>1. TypeOK
    BY DEF Inv
  <1>2. <<t>> \in Seq(Token) /\ Len(<<t>>) = 1 /\ <<t>>[1] = t
    BY DEF Token
  <1>3. words' = words /\ offset' = offset /\ phase' = phase
        /\ toServer' = toServer
    OBVIOUS
  <1>4. /\ Len(Attempt(c)') = n + 1
        /\ \A j \in 1 .. n : Attempt(c)'[j] = Attempt(c)[j]
        /\ Attempt(c)'[n + 1] = t
    <2> DEFINE tokens == <<t>>
    <2>1. tokens \in Seq(Token) /\ Len(tokens) = 1 /\ tokens[1] = t
      BY <1>2
    <2>2. Answer(c, tokens)
      OBVIOUS
    <2> HIDE DEF tokens
    <2>3. /\ Len(Attempt(c)') = n + Len(tokens)
          /\ \A j \in 1 .. n : Attempt(c)'[j] = Attempt(c)[j]
          /\ \A j \in 1 .. Len(tokens) : Attempt(c)'[n + j] = tokens[j]
      BY <1>1, <1>3, <2>1, <2>2, AnswerAttempt
    <2>4. 1 \in 1 .. Len(tokens)
      BY <2>1
    <2> QED
      BY <2>1, <2>3, <2>4
  <1>5. n \in Nat /\ offset[c] \in Nat
    BY <1>1, AttemptType DEF TypeOK, ClientTypeOK
  <1>6. /\ phase[c] = "recv" /\ ~ Asked(c)
        /\ \A j \in 1 .. n : /\ Attempt(c)[j] \in Words
                            /\ Attempt(c)[j] = offset[c] + j - 1
                            /\ Attempt(c)[j] < BatchEnd(offset[c])
    BY Serving
  <1>7. ASSUME NEW j \in 1 .. n + 1
        PROVE  Fits(c, j, Attempt(c)[j])'
    <2>1. CASE j \in 1 .. n
      <3>1. Attempt(c)'[j] = Attempt(c)[j]
        BY <1>4, <2>1
      <3>2. Attempt(c)'[j] \notin Control
        BY <1>6, <2>1, <3>1, Kinds DEF Control
      <3> QED
        BY <1>3, <1>6, <2>1, <3>1, <3>2 DEF Fits, Control
    <2>2. CASE j = n + 1
      <3>1. Attempt(c)'[j] = t
        BY <1>4, <2>2
      <3>2. t \notin Words /\ t # END
        BY Kinds
      <3>3. t = HUH => t # DOLLAR
        BY Kinds
      <3> QED
        BY <1>3, <1>4, <1>5, <2>2, <3>1, <3>2, <3>3 DEF Fits
    <2> QED
      BY <1>5, <2>1, <2>2
  <1>8. AttemptInv(c)'
    BY <1>4, <1>7 DEF AttemptInv
  <1>9. HandlerInv(c)'
    BY DEF HandlerInv
  <1>10. PhaseInv(c)'
    BY <1>3, <1>6 DEF PhaseInv, Asked
  <1>11. ServeInv(c)'
    BY DEF ServeInv
  <1> QED
    BY <1>8, <1>9, <1>10, <1>11 DEF ConnectionOK

(* The three ways a handler sends a control token alone.                   *)
LEMMA ControlConnection ==
    ASSUME Inv, NEW c \in Clients, HandlerNext(c),
           Refuse(c) \/ Late(c) \/ OutOfRange(c) \/ Abandon(c)
    PROVE  ConnectionOK(c)'
  <1>1. /\ pc \in [Clients -> Label]
        /\ is_sent \in [Clients -> BOOLEAN]
        /\ offset[c] \in Nat /\ req[c] \in Nat
    BY DEF Inv, TypeOK, ServerTypeOK, ClientTypeOK
  <1>2. UNCHANGED <<toServer, phase, offset, words>>
    BY DEF HandlerNext, clientVars, Refuse, Late, OutOfRange, Abandon
  <1>3. ~ Quiet(c)
    <2>1. CASE Abandon(c)
      <3>1. pc[c] = "emit"
        BY <2>1 DEF Abandon, Jump, At
      <3> QED
        BY <3>1 DEF Quiet, At
    <2>2. CASE ~ Abandon(c)
      <3>1. pc[c] \in {"check", "late"}
        BY <2>2 DEF Refuse, Late, OutOfRange, Jump, At
      <3> QED
        BY <3>1 DEF Quiet, At
    <2> QED
      BY <2>1, <2>2
  <1>4. ~ is_sent[c] /\ req[c] = offset[c] + Len(Attempt(c))
    BY <1>3, Serving
  <1>5. CASE Refuse(c)
    <2>1. Len(Attempt(c)) = 0
      BY <1>3, <1>5, Serving DEF Refuse, Jump, At
    <2>2. pc'[c] = "recv" /\ ~ is_sent'[c]
      BY <1>1, <1>4, <1>5 DEF Refuse, Jump, At, Goto
    <2>3. Quiet(c)'
      BY <2>2 DEF Quiet
    <2>4. Answer(c, <<HUH>>)
      BY <1>5 DEF Refuse
    <2> QED
      BY <1>2, <1>3, <2>1, <2>2, <2>3, <2>4, Kinds, ControlSent
  <1>6. CASE Late(c)
    <2>1. Len(Attempt(c)) = 0
      BY <1>3, <1>6, Serving DEF Late, Jump, At
    <2>2. pc'[c] = "reset" /\ ~ is_sent'[c]
      BY <1>1, <1>4, <1>6 DEF Late, Jump, At, Goto
    <2>3. Quiet(c)'
      BY <2>2 DEF Quiet
    <2>4. Answer(c, <<HUH>>)
      BY <1>6 DEF Late
    <2> QED
      BY <1>2, <1>3, <2>1, <2>2, <2>3, <2>4, Kinds, ControlSent
  <1>7. CASE OutOfRange(c)
    <2>1. Len(Attempt(c)) = 0
      BY <1>3, <1>7, Serving DEF OutOfRange, Jump, At
    <2>2. pc'[c] = "exit" /\ ~ is_sent'[c]
      BY <1>1, <1>4, <1>7 DEF OutOfRange, Jump, At, Goto
    <2>3. Quiet(c)'
      BY <2>2 DEF Quiet
    <2>4. Answer(c, <<DOLLAR>>)
      BY <1>7 DEF OutOfRange
    <2>5. offset[c] >= NumWords
      BY <1>1, <1>4, <1>7, <2>1 DEF OutOfRange
    <2> QED
      BY <1>2, <1>3, <2>1, <2>2, <2>3, <2>4, <2>5, Kinds, ControlSent
  <1>8. CASE Abandon(c)
    <2>1. req[c] < z[c] /\ z[c] = BatchEnd(offset[c])
      <3>1. pc[c] = "emit"
        BY <1>8 DEF Abandon, Jump, At
      <3> QED
        BY <1>3, <3>1, Serving DEF Inv, ConnectionInv, ConnectionOK, HandlerInv
    <2>2. pc'[c] = "reset" /\ ~ is_sent'[c]
      BY <1>1, <1>8 DEF Abandon, Jump, At, Goto
    <2>3. Quiet(c)'
      BY <2>2 DEF Quiet
    <2>4. Answer(c, <<HUH>>)
      BY <1>8 DEF Abandon
    <2>5. offset[c] + Len(Attempt(c)) < BatchEnd(offset[c])
      BY <1>4, <2>1
    <2> QED
      BY <1>2, <1>3, <2>2, <2>3, <2>4, <2>5, Kinds, ControlSent
  <1> QED
    BY <1>5, <1>6, <1>7, <1>8

(* What a packet holds.                                                    *)
LEMMA PacketParts ==
    ASSUME TypeOK, NEW c \in Clients, req[c] <= i[c]
    PROVE  /\ Packet(c) \in Seq(Token)
           /\ Len(Packet(c)) = i[c] - req[c] + (IF i[c] >= NumWords THEN 1 ELSE 0)
           /\ \A j \in 1 .. i[c] - req[c] : Packet(c)[j] = req[c] + j - 1
           /\ i[c] >= NumWords => Packet(c)[i[c] - req[c] + 1] = END
  <1>1. req[c] \in Nat /\ i[c] \in Nat /\ i[c] <= NumWords
    BY ConfigAssumption DEF TypeOK, ServerTypeOK
  <1> DEFINE words_ == Run(req[c], i[c])
  <1>2. /\ Len(words_) = i[c] - req[c]
        /\ \A j \in 1 .. Len(words_) : words_[j] = req[c] + j - 1
    <2>1. \A a, b \in Nat :
             /\ Len(Run(a, b)) = IF a < b THEN b - a ELSE 0
             /\ \A j \in 1 .. Len(Run(a, b)) : Run(a, b)[j] = a + j - 1
      BY RunProperties
    <2>2. /\ Len(words_) = IF req[c] < i[c] THEN i[c] - req[c] ELSE 0
          /\ \A j \in 1 .. Len(words_) : words_[j] = req[c] + j - 1
      BY <1>1, <2>1, Zenon
    <2>3. Len(words_) = i[c] - req[c]
      BY <1>1, <2>2
    <2> HIDE DEF words_
    <2> QED
      BY <2>2, <2>3, Zenon
  <1>3. words_ \in Seq(Token)
    <2>1. words_ \in Seq(Words)
      BY <1>1, RunInFile
    <2> QED
      BY <2>1, SeqMonotonic, Zenon DEF Token
  <1>4. CASE i[c] >= NumWords
    <2> DEFINE mark == <<END>>
    <2>1. mark \in Seq(Token) /\ Len(mark) = 1 /\ mark[1] = END
      BY DEF Token
    <2>2. Packet(c) = words_ \o mark
      BY <1>4 DEF Packet
    <2> HIDE DEF words_, mark
    <2>3. /\ Len(words_ \o mark) = Len(words_) + Len(mark)
          /\ \A j \in 1 .. Len(words_) : (words_ \o mark)[j] = words_[j]
          /\ \A j \in 1 .. Len(mark) :
                 (words_ \o mark)[Len(words_) + j] = mark[j]
      <3>1. \A s, t \in Seq(Token) :
               /\ Len(s \o t) = Len(s) + Len(t)
               /\ \A j \in 1 .. Len(s) : (s \o t)[j] = s[j]
               /\ \A j \in 1 .. Len(t) : (s \o t)[Len(s) + j] = t[j]
        BY ConcatParts
      <3> QED
        BY <1>3, <2>1, <3>1, Zenon
    <2>4. 1 \in 1 .. Len(mark)
      BY <2>1
    <2> QED
      BY <1>1, <1>2, <1>4, <2>1, <2>2, <2>3, <2>4, PacketType
  <1>5. CASE ~ (i[c] >= NumWords)
    <2>1. Packet(c) = words_
      BY <1>3, <1>5, ConcatEmptySeq DEF Packet
    <2> QED
      BY <1>1, <1>2, <1>3, <1>5, <2>1
  <1> QED
    BY <1>4, <1>5

(* A packet continues the attempt, and the EOF mark ends it.               *)
LEMMA EmitConnection ==
    ASSUME Inv, NEW c \in Clients, HandlerNext(c), Emit(c)
    PROVE  ConnectionOK(c)'
  <1> DEFINE n == Len(Attempt(c))
             m == i[c] - req[c]
             o == offset[c]
  <1>1. TypeOK /\ ConnectionOK(c)
    BY DEF Inv, ConnectionInv
  <1>2. /\ req[c] \in Nat /\ i[c] \in Nat /\ z[c] \in Nat /\ o \in Nat
        /\ z[c] <= NumWords
    BY <1>1, ConfigAssumption DEF TypeOK, ServerTypeOK, ClientTypeOK
  <1>3. At(c, "emit") /\ ~ Quiet(c)
    BY DEF Emit, Jump, At, Quiet
  <1>4. req[c] < z[c] /\ req[c] <= i[c] /\ i[c] <= z[c]
    BY <1>1, <1>3 DEF ConnectionOK, HandlerInv, At
  <1>5. /\ phase[c] = "recv" /\ ~ Asked(c) /\ ~ is_sent[c]
        /\ req[c] = o + n /\ z[c] = BatchEnd(o)
        /\ \A j \in 1 .. n : /\ Attempt(c)[j] \in Words
                            /\ Attempt(c)[j] = o + j - 1
                            /\ Attempt(c)[j] < BatchEnd(o)
    BY <1>3, Serving DEF At
  <1>6. /\ UNCHANGED <<toServer, phase, offset, words>>
        /\ z' = z /\ req'[c] = i[c] /\ At(c, "outer")'
        /\ is_sent'[c] <=> i[c] >= NumWords
    <2>1. is_sent'[c] = (is_sent[c] \/ i[c] >= NumWords)
      BY <1>1, Zenon DEF TypeOK, ServerTypeOK, Emit
    <2> QED
      BY <1>1, <1>5, <2>1
      DEF Emit, HandlerNext, clientVars, Jump, Goto, At, TypeOK, ServerTypeOK
  <1>7. n \in Nat /\ m \in Nat
    BY <1>1, <1>2, <1>4, AttemptType
  <1>8. /\ Packet(c) \in Seq(Token)
        /\ Len(Packet(c)) = m + (IF i[c] >= NumWords THEN 1 ELSE 0)
        /\ \A j \in 1 .. m : Packet(c)[j] = req[c] + j - 1
        /\ i[c] >= NumWords => Packet(c)[m + 1] = END
    BY <1>1, <1>4, PacketParts
  <1>9. /\ Len(Attempt(c)') = n + Len(Packet(c))
        /\ \A j \in 1 .. n : Attempt(c)'[j] = Attempt(c)[j]
        /\ \A j \in 1 .. Len(Packet(c)) : Attempt(c)'[n + j] = Packet(c)[j]
    <2>1. Answer(c, Packet(c))
      BY DEF Emit
    <2> QED
      BY <1>1, <1>6, <1>8, <2>1, AnswerAttempt
  <1> HIDE DEF n, m, o
  <1>10. \A j \in 1 .. n + m : /\ Attempt(c)'[j] \in Words
                               /\ Attempt(c)'[j] = o + j - 1
                               /\ Attempt(c)'[j] < BatchEnd(o)
    <2> SUFFICES ASSUME NEW j \in 1 .. n + m
                 PROVE  /\ Attempt(c)'[j] \in Words
                        /\ Attempt(c)'[j] = o + j - 1
                        /\ Attempt(c)'[j] < BatchEnd(o)
      OBVIOUS
    <2>1. CASE j \in 1 .. n
      BY <1>5, <1>9, <2>1
    <2>2. CASE j \notin 1 .. n
      <3>1. j - n \in 1 .. m /\ j - n \in 1 .. Len(Packet(c))
            /\ n + (j - n) = j
        BY <1>7, <1>8, <2>2
      <3>2. Attempt(c)'[n + (j - n)] = req[c] + (j - n) - 1
        BY <1>8, <1>9, <3>1, Zenon
      <3>3. Attempt(c)'[j] = o + j - 1 /\ Attempt(c)'[j] < i[c]
        BY <1>2, <1>5, <1>7, <3>1, <3>2 DEF m
      <3>4. o + j - 1 \in Nat /\ o + j - 1 < NumWords
        BY <1>2, <1>4, <1>7, <3>3, ConfigAssumption
      <3>5. o + j - 1 \in Words
        BY <3>4, ConfigAssumption DEF Words
      <3>6. o + j - 1 < z[c]
        BY <1>2, <1>4, <1>7, <3>3
      <3> QED
        BY <1>5, <3>3, <3>5, <3>6
    <2> QED
      BY <2>1, <2>2
  <1>11. CASE i[c] >= NumWords
    <2>1. Len(Attempt(c)') = n + m + 1 /\ Attempt(c)'[n + m + 1] = END
      <3>1. m + 1 \in 1 .. Len(Packet(c)) /\ n + (m + 1) = n + m + 1
        BY <1>7, <1>8, <1>11
      <3>2. Attempt(c)'[n + (m + 1)] = END
        BY <1>8, <1>9, <1>11, <3>1, Zenon
      <3> QED
        BY <1>7, <1>8, <1>9, <1>11, <3>1, <3>2
    <2>2. o + (n + m + 1) - 1 = NumWords
      BY <1>2, <1>4, <1>5, <1>7, <1>11, ConfigAssumption DEF m
    <2>3. AttemptInv(c)'
      <3>1. ASSUME NEW j \in 1 .. n + m + 1
            PROVE  Fits(c, j, Attempt(c)[j])'
        <4>1. CASE j \in 1 .. n + m
          <5>1. Attempt(c)'[j] \notin Control
            BY <1>10, <4>1, Kinds DEF Control
          <5> QED
            BY <1>6, <1>10, <4>1, <5>1 DEF Fits, Control, o
        <4>2. CASE j = n + m + 1
          <5>1. END \notin Words /\ END # HUH /\ END # DOLLAR
            BY Kinds
          <5> QED
            BY <1>6, <1>11, <2>1, <2>2, <4>2, <5>1 DEF Fits, o
        <4> QED
          BY <1>7, <4>1, <4>2
      <3> QED
        BY <2>1, <3>1 DEF AttemptInv
    <2>4. Quiet(c)'
      <3>1. req'[c] >= z'[c]
        BY <1>2, <1>6, <1>11, ConfigAssumption
      <3> QED
        BY <1>6, <3>1 DEF Quiet
    <2>5. HandlerInv(c)'
      BY <1>6, <2>4 DEF HandlerInv, At
    <2>6. PhaseInv(c)'
      BY <1>5, <1>6 DEF PhaseInv, Asked
    <2> QED
      BY <2>3, <2>4, <2>5, <2>6 DEF ConnectionOK, ServeInv
  <1>12. CASE ~ (i[c] >= NumWords)
    <2>1. Len(Attempt(c)') = n + m
      BY <1>7, <1>8, <1>9, <1>12
    <2>2. AttemptInv(c)'
      <3>1. ASSUME NEW j \in 1 .. n + m
            PROVE  Fits(c, j, Attempt(c)[j])'
        <4>1. Attempt(c)'[j] \notin Control
          BY <1>10, Kinds DEF Control
        <4>2. offset'[c] = o
          BY <1>6 DEF o
        <4>3. /\ Attempt(c)'[j] = offset'[c] + j - 1
              /\ Attempt(c)'[j] < BatchEnd(offset'[c])
          BY <1>10, <4>2
        <4> QED
          BY <4>1, <4>3 DEF Fits, Control
      <3> QED
        BY <2>1, <3>1 DEF AttemptInv
    <2>3. HandlerInv(c)'
      BY <1>6, <1>12 DEF HandlerInv, At
    <2>4. PhaseInv(c)'
      BY <1>5, <1>6 DEF PhaseInv, Asked
    <2>5. ServeInv(c)'
      <3>1. req'[c] = offset'[c] + Len(Attempt(c)')
        <4>1. req'[c] = i[c] /\ offset'[c] = o
          BY <1>6 DEF o
        <4>2. req[c] = o + n /\ m = i[c] - req[c]
          BY <1>5 DEF m
        <4>3. i[c] = o + (n + m)
          BY <1>2, <1>7, <4>2
        <4> QED
          BY <2>1, <4>1, <4>3
      <3>2. \A j \in 1 .. Len(Attempt(c)') : Attempt(c)'[j] \in Words
        BY <1>10, <2>1
      <3> QED
        BY <1>5, <1>6, <3>1, <3>2 DEF ServeInv, At, o
    <2> QED
      BY <2>2, <2>3, <2>4, <2>5 DEF ConnectionOK
  <1> QED
    BY <1>11, <1>12

LEMMA HandlerConnection ==
    ASSUME Inv, NEW c \in Clients, HandlerNext(c)
    PROVE  ConnectionOK(c)'
  <1>1. \/ Silent(c) \/ Receive(c) \/ Emit(c)
        \/ Refuse(c) \/ Late(c) \/ OutOfRange(c) \/ Abandon(c)
    BY Zenon DEF HandlerNext, HandlerStep, Silent
  <1> QED
    BY <1>1, SilentConnection, ReceiveConnection, EmitConnection,
       ControlConnection

(* What a recv does to the attempt: the words so far and the line are its  *)
(* head, what stays on the connection its tail.                            *)
Got(c, line) == words[c] \o line

LEMMA TakeAttempt ==
    ASSUME TypeOK, NEW c \in Clients, NEW line \in Prefixes(toClient[c]),
           Takes(c, line)
    PROVE  /\ line \in Seq(Token) /\ Got(c, line) \in Seq(Token)
           /\ toClient'[c] \in Seq(Token)
           /\ Len(line) \in Nat \ {0} /\ Len(line) <= Len(toClient[c])
           /\ Len(Got(c, line)) = Len(words[c]) + Len(line)
           /\ Len(Attempt(c)) = Len(Got(c, line)) + Len(toClient'[c])
           /\ Attempt(c) = Got(c, line) \o toClient'[c]
           /\ \A j \in 1 .. Len(Got(c, line)) : Got(c, line)[j] = Attempt(c)[j]
           /\ \A j \in 1 .. Len(line) : line[j] = Attempt(c)[Len(words[c]) + j]
           /\ \A j \in 1 .. Len(toClient'[c]) :
                  toClient'[c][j] = Attempt(c)[Len(Got(c, line)) + j]
  <1> DEFINE rest == toClient'[c]
             got == words[c] \o line
  <1>1. /\ words[c] \in Seq(Token) /\ toClient[c] \in Seq(Token)
        /\ line \in Seq(Token) /\ Len(line) \in 1 .. Len(toClient[c])
        /\ line = First(toClient[c], Len(line))
    BY TakesType DEF TypeOK, WireTypeOK, ClientTypeOK
  <1>2. rest = Rest(toClient[c], Len(line))
    BY DEF Takes, TypeOK, WireTypeOK
  <1>3. rest \in Seq(Token)
    BY <1>1, <1>2, TakeProperties DEF Rest
  <1>4. toClient[c] = line \o rest
    <2>1. /\ Len(rest) = Len(toClient[c]) - Len(line)
          /\ \A j \in 1 .. Len(line) : line[j] = toClient[c][j]
          /\ \A j \in 1 .. Len(toClient[c]) - Len(line) :
                rest[j] = toClient[c][Len(line) + j]
      BY <1>1, <1>2, TakeProperties DEF First, Rest
    <2> HIDE DEF rest
    <2>2. /\ line \o rest \in Seq(Token)
          /\ Len(line \o rest) = Len(line) + Len(rest)
          /\ \A j \in 1 .. Len(line) + Len(rest) :
                (line \o rest)[j] = IF j <= Len(line) THEN line[j]
                                    ELSE rest[j - Len(line)]
      BY <1>1, <1>3, ConcatProperties
    <2>3. Len(line) \in Nat /\ Len(rest) \in Nat /\ Len(toClient[c]) \in Nat
      BY <1>1, <1>3, LenProperties
    <2>4. Len(line \o rest) = Len(toClient[c])
      BY <2>1, <2>2, <2>3
    <2>5. ASSUME NEW j \in 1 .. Len(toClient[c])
          PROVE  (line \o rest)[j] = toClient[c][j]
      <3>1. CASE j <= Len(line)
        <4>1. j \in 1 .. Len(line) /\ j \in 1 .. Len(line) + Len(rest)
          BY <2>3, <3>1
        <4>2. (line \o rest)[j] = line[j]
          BY <2>2, <3>1, <4>1, Zenon
        <4> QED
          BY <2>1, <4>1, <4>2, Zenon
      <3>2. CASE ~ (j <= Len(line))
        <4>1. /\ j - Len(line) \in 1 .. Len(toClient[c]) - Len(line)
              /\ Len(line) + (j - Len(line)) = j
              /\ j \in 1 .. Len(line) + Len(rest)
          BY <2>1, <2>3, <3>2
        <4>2. (line \o rest)[j] = rest[j - Len(line)]
          BY <2>2, <3>2, <4>1, Zenon
        <4>3. rest[j - Len(line)] = toClient[c][Len(line) + (j - Len(line))]
          BY <2>1, <4>1, Zenon
        <4> QED
          BY <4>1, <4>2, <4>3
      <3> QED
        BY <3>1, <3>2
    <2> QED
      BY <1>1, <2>2, <2>4, <2>5, SeqEqual
  <1> HIDE DEF rest, got
  <1>5. \A s, t \in Seq(Token) :
           /\ s \o t \in Seq(Token)
           /\ Len(s \o t) = Len(s) + Len(t)
           /\ \A j \in 1 .. Len(s) : (s \o t)[j] = s[j]
           /\ \A j \in 1 .. Len(t) : (s \o t)[Len(s) + j] = t[j]
    BY ConcatParts
  <1>6. got \in Seq(Token) /\ Len(got) = Len(words[c]) + Len(line)
    BY <1>1, <1>5, Zenon DEF got
  <1>7. Attempt(c) = got \o rest
    <2>1. \A s, t, u \in Seq(Token) : (s \o t) \o u = s \o (t \o u)
      BY TokensAssociative, Zenon
    <2>2. Attempt(c) = words[c] \o (line \o rest)
      BY <1>4, Zenon DEF Attempt
    <2> QED
      BY <1>1, <1>3, <2>1, <2>2, Zenon DEF got
  <1>8. /\ Len(Attempt(c)) = Len(got) + Len(rest)
        /\ \A j \in 1 .. Len(got) : got[j] = Attempt(c)[j]
        /\ \A j \in 1 .. Len(rest) : rest[j] = Attempt(c)[Len(got) + j]
    <2>1. /\ Len(got \o rest) = Len(got) + Len(rest)
          /\ \A j \in 1 .. Len(got) : (got \o rest)[j] = got[j]
          /\ \A j \in 1 .. Len(rest) : (got \o rest)[Len(got) + j] = rest[j]
      BY <1>3, <1>5, <1>6, Zenon
    <2>2. \A j \in 1 .. Len(got) : got[j] = Attempt(c)[j]
      BY <1>7, <2>1, Zenon
    <2>3. \A j \in 1 .. Len(rest) : rest[j] = Attempt(c)[Len(got) + j]
      BY <1>7, <2>1, Zenon
    <2> QED
      BY <1>7, <2>1, <2>2, <2>3, Zenon
  <1>9. ASSUME NEW j \in 1 .. Len(line)
        PROVE  line[j] = Attempt(c)[Len(words[c]) + j]
    <2>1. Len(words[c]) + j \in 1 .. Len(got)
      BY <1>1, <1>6, LenProperties
    <2>2. got[Len(words[c]) + j] = line[j]
      BY <1>1, <1>5, Zenon DEF got
    <2> QED
      BY <1>8, <2>1, <2>2, Zenon
  <1>10. Len(line) \in Nat \ {0} /\ Len(line) <= Len(toClient[c])
    BY <1>1, LenProperties
  <1>11. line \in Seq(Token) /\ got \in Seq(Token) /\ toClient'[c] \in Seq(Token)
    BY <1>1, <1>3, <1>6 DEF rest
  <1>12. /\ Len(Attempt(c)) = Len(got) + Len(toClient'[c])
         /\ Attempt(c) = got \o toClient'[c]
         /\ \A j \in 1 .. Len(toClient'[c]) :
               toClient'[c][j] = Attempt(c)[Len(got) + j]
    BY <1>7, <1>8, Zenon DEF rest
  <1> QED
    BY <1>6, <1>8, <1>9, <1>10, <1>11, <1>12, Zenon DEF Got, got

(* A line that ends in a control token is all there is left of the         *)
(* attempt, and its handler has stopped.                                   *)
LEMMA ControlLine ==
    ASSUME Inv, NEW c \in Clients, NEW line \in Prefixes(toClient[c]),
           Takes(c, line), Last(line) \in Control
    PROVE  /\ toClient'[c] = <<>>
           /\ Quiet(c)
           /\ Len(words[c]) + Len(line) = Len(Attempt(c))
           /\ Len(Attempt(c)) \in Nat \ {0}
           /\ Fits(c, Len(Attempt(c)), Last(line))
  <1> DEFINE n == Len(Got(c, line))
  <1>1. TypeOK /\ ConnectionOK(c)
    BY DEF Inv, ConnectionInv
  <1>2. /\ toClient'[c] \in Seq(Token)
        /\ Len(line) \in Nat \ {0}
        /\ n = Len(words[c]) + Len(line)
        /\ Len(Attempt(c)) = n + Len(toClient'[c])
        /\ \A j \in 1 .. Len(line) : line[j] = Attempt(c)[Len(words[c]) + j]
    BY <1>1, TakeAttempt, Zenon
  <1>3. Len(words[c]) \in Nat /\ Len(toClient'[c]) \in Nat
    <2>1. words[c] \in Seq(Token)
      BY <1>1 DEF TypeOK, ClientTypeOK
    <2> QED
      BY <1>2, <2>1, LenProperties
  <1>4. Last(line) = Attempt(c)[n]
    <2>1. Len(line) \in 1 .. Len(line)
      BY <1>2
    <2>2. line[Len(line)] = Attempt(c)[Len(words[c]) + Len(line)]
      BY <1>2, <2>1, Zenon
    <2> QED
      BY <1>2, <2>2 DEF Last
  <1>5. n \in 1 .. Len(Attempt(c)) /\ Len(Attempt(c)) = n + Len(toClient'[c])
    <2>1. /\ Len(line) \in Nat \ {0}
          /\ n = Len(words[c]) + Len(line)
          /\ Len(Attempt(c)) = n + Len(toClient'[c])
      BY <1>2
    <2> HIDE DEF n
    <2>2. Len(words[c]) + Len(line)
            \in 1 .. Len(words[c]) + Len(line) + Len(toClient'[c])
      BY <1>3, <2>1, PartEnds, Zenon
    <2> QED
      BY <2>1, <2>2, Zenon
  <1> HIDE DEF n
  <1>6. Fits(c, n, Last(line))
    BY <1>1, <1>4, <1>5, Zenon DEF ConnectionOK, AttemptInv
  <1>7. n = Len(Attempt(c))
    BY <1>6 DEF Fits
  <1>8. toClient'[c] = <<>>
    <2>1. Len(toClient'[c]) = 0
      <3>1. Len(Attempt(c)) \in Nat
        BY <1>1, AttemptType
      <3> QED
        BY <1>3, <1>5, <1>7, <3>1
    <2> QED
      BY <1>2, <2>1, NoLength, Zenon
  <1>9. Quiet(c)
    <2>1. Last(line) \notin Words
      BY Kinds DEF Control
    <2> QED
      BY <1>4, <1>5, <2>1, Serving
  <1> QED
    BY <1>2, <1>3, <1>5, <1>6, <1>7, <1>8, <1>9

(* An attempt that ends leaves nothing that could contradict the next one. *)
LEMMA ClearedConnection ==
    ASSUME Inv, NEW c \in Clients, Quiet(c),
           UNCHANGED <<toServer, pc, req, z, i, is_sent>>,
           toClient'[c] = <<>>, words'[c] = <<>>,
           Asked(c) => phase'[c] = "done" /\ Len(toServer[c]) = 1 /\ is_sent[c]
    PROVE  ConnectionOK(c)'
  <1>1. Quiet(c)'
    BY DEF Quiet, At
  <1>2. Attempt(c)' = <<>> /\ Len(Attempt(c)') = 0
    <2>1. Attempt(c)' = <<>> \o <<>>
      BY DEF Attempt
    <2>2. <<>> \o <<>> = <<>>
      BY NoTokens, ConcatEmptySeq
    <2> QED
      BY <2>1, <2>2
  <1>3. HandlerInv(c)'
    BY <1>1 DEF Inv, ConnectionInv, ConnectionOK, HandlerInv
  <1>4. AttemptInv(c)'
    BY <1>2 DEF AttemptInv
  <1>5. PhaseInv(c)'
    BY <1>1 DEF PhaseInv, Asked, Done, Fresh
  <1>6. ServeInv(c)'
    BY <1>1 DEF ServeInv
  <1> QED
    BY <1>3, <1>4, <1>5, <1>6 DEF ConnectionOK

LEMMA RequestConnection ==
    ASSUME Inv, NEW c \in Clients, ClientNext(c), Request(c)
    PROVE  ConnectionOK(c)'
  <1>1. TypeOK /\ ConnectionOK(c)
    BY DEF Inv, ConnectionInv
  <1>2. Fresh(c) /\ Quiet(c) /\ toServer[c] = <<>>
    BY <1>1 DEF ConnectionOK, PhaseInv, Asked, Request, Done
  <1>3. /\ UNCHANGED <<toClient, pc, req, z, i, is_sent, offset, words>>
        /\ phase'[c] = "recv"
    BY <1>1
    DEF ClientNext, Request, serverVars, locals, TypeOK, ClientTypeOK
  <1>4. toServer'[c] = <<offset[c]>>
    BY <1>1, <1>2 DEF Request, TypeOK, WireTypeOK, ClientTypeOK
  <1>5. Attempt(c)' = Attempt(c)
    BY <1>3 DEF Attempt
  <1>6. Quiet(c)'
    BY <1>2, <1>3 DEF Quiet, At
  <1>7. HandlerInv(c)'
    BY <1>1, <1>3, <1>6 DEF ConnectionOK, HandlerInv
  <1>8. AttemptInv(c)'
    BY <1>1, <1>3, <1>5 DEF ConnectionOK, AttemptInv, Fits
  <1>9. PhaseInv(c)'
    BY <1>2, <1>3, <1>4, <1>6 DEF PhaseInv, Fresh
  <1>10. ServeInv(c)'
    BY <1>6 DEF ServeInv
  <1> QED
    BY <1>7, <1>8, <1>9, <1>10 DEF ConnectionOK

LEMMA RefusedConnection ==
    ASSUME Inv, NEW c \in Clients, ClientNext(c), Refused(c)
    PROVE  ConnectionOK(c)'
  <1>1. TypeOK /\ ConnectionOK(c)
    BY DEF Inv, ConnectionInv
  <1>2. PICK line \in Prefixes(toClient[c]) :
            /\ Takes(c, line) /\ IsRefusal(line)
            /\ words' = [words EXCEPT ![c] = <<>>]
    BY DEF Refused
  <1>3. Last(line) = HUH
    BY <1>2 DEF IsRefusal, Last
  <1>4. toClient'[c] = <<>> /\ Quiet(c) /\ toClient[c] # <<>>
    BY <1>2, <1>3, ControlLine DEF Control, Prefixes
  <1>5. ~ Asked(c)
    <2>1. SUFFICES ASSUME toClient[c] = <<END>>
                   PROVE  FALSE
      BY <1>1, <1>4 DEF ConnectionOK, PhaseInv, Fresh
    <2>2. line[1] = toClient[c][1]
      BY <1>1, <1>2, <2>1, TakeProperties
      DEF Prefixes, First, TypeOK, WireTypeOK
    <2> QED
      BY <1>2, <2>1, <2>2, Kinds DEF IsRefusal
  <1>6. /\ UNCHANGED <<toServer, pc, req, z, i, is_sent>>
        /\ words'[c] = <<>>
    BY <1>1, <1>2
    DEF ClientNext, Takes, serverVars, locals, TypeOK, ClientTypeOK
  <1> QED
    BY <1>4, <1>5, <1>6, ClearedConnection

(* A client that has asked again can have only a stray EOF mark before it. *)
LEMMA AskedMark ==
    ASSUME Inv, NEW c \in Clients, Asked(c), toClient[c] # <<>>
    PROVE  /\ toClient[c] = <<END>> /\ words[c] = <<>>
           /\ is_sent[c] /\ Len(toServer[c]) = 1
  <1>1. TypeOK /\ ConnectionOK(c)
    BY DEF Inv, ConnectionInv
  <1>2. toClient[c] = <<END>> /\ words[c] = <<>> /\ Len(toServer[c]) = 1
    BY <1>1 DEF ConnectionOK, PhaseInv, Fresh
  <1>3. Attempt(c) = <<END>>
    BY <1>1, <1>2, ConcatEmptySeq DEF Attempt, TypeOK, WireTypeOK
  <1>4. Fits(c, 1, END)
    BY <1>1, <1>3 DEF ConnectionOK, AttemptInv
  <1> QED
    BY <1>2, <1>4 DEF Fits

LEMMA FinishConnection ==
    ASSUME Inv, NEW c \in Clients, ClientNext(c), Finish(c)
    PROVE  ConnectionOK(c)'
  <1>1. TypeOK
    BY DEF Inv
  <1>2. PICK line \in Prefixes(toClient[c]) :
            /\ Takes(c, line) /\ IsFinal(line)
            /\ phase' = [phase EXCEPT ![c] = "done"]
            /\ words' = [words EXCEPT ![c] = <<>>]
    BY DEF Finish
  <1>3. Last(line) \in Control
    <2>1. CASE Last(line) = END
      BY <2>1 DEF Control
    <2>2. CASE line = <<DOLLAR>>
      BY <2>2 DEF Last, Control
    <2> QED
      BY <1>2, <2>1, <2>2 DEF IsFinal
  <1>4. toClient'[c] = <<>> /\ Quiet(c) /\ toClient[c] # <<>>
    BY <1>2, <1>3, ControlLine DEF Prefixes
  <1>5. Asked(c) => Len(toServer[c]) = 1 /\ is_sent[c]
    BY <1>4, AskedMark
  <1>6. /\ UNCHANGED <<toServer, pc, req, z, i, is_sent>>
        /\ words'[c] = <<>> /\ phase'[c] = "done"
    BY <1>1, <1>2
    DEF ClientNext, Takes, serverVars, locals, TypeOK, ClientTypeOK
  <1> QED
    BY <1>4, <1>5, <1>6, ClearedConnection

(* What a client takes for words: words of the file in order, the last of  *)
(* which may be a HUH!.                                                    *)
LEMMA CollectedWords ==
    ASSUME Inv, NEW c \in Clients, NEW line \in Prefixes(toClient[c]),
           Takes(c, line), ~ IsRefusal(line), ~ IsFinal(line)
    PROVE  /\ ~ Asked(c)
           /\ \A j \in 1 .. Len(Got(c, line)) :
                 LET t == Got(c, line)[j]
                 IN  /\ t \in Words \cup {HUH}
                     /\ t \in Words => t = offset[c] + j - 1
                     /\ t = HUH => j = Len(Got(c, line)) /\ toClient'[c] = <<>>
                     /\ offset[c] + j - 1 < BatchEnd(offset[c])
  <1> DEFINE got == Got(c, line)
             n == Len(got)
  <1>1. TypeOK /\ ConnectionOK(c)
    BY DEF Inv, ConnectionInv
  <1>2. /\ line \in Seq(Token) /\ toClient'[c] \in Seq(Token)
        /\ Len(line) \in Nat \ {0}
        /\ n = Len(words[c]) + Len(line)
        /\ Len(Attempt(c)) = n + Len(toClient'[c])
        /\ \A j \in 1 .. n : got[j] = Attempt(c)[j]
        /\ \A j \in 1 .. Len(line) : line[j] = Attempt(c)[Len(words[c]) + j]
    BY <1>1, TakeAttempt, Zenon
  <1> DEFINE w == Len(words[c])
             l == Len(line)
             r == Len(toClient'[c])
             a == Len(Attempt(c))
  <1>3. w \in Nat /\ r \in Nat /\ l \in Nat \ {0} /\ n = w + l /\ a = n + r
    <2>1. words[c] \in Seq(Token)
      BY <1>1 DEF TypeOK, ClientTypeOK
    <2>2. w \in Nat /\ r \in Nat
      BY <1>2, <2>1, LenProperties
    <2> QED
      BY <1>2, <2>2, Zenon
  <1>4. Last(line) = Attempt(c)[n]
    <2>1. l \in 1 .. l
      BY <1>3
    <2>2. line[l] = Attempt(c)[w + l]
      BY <1>2, <2>1, Zenon
    <2> QED
      BY <1>3, <2>2, Zenon DEF Last
  <1>5. ASSUME n = 1
        PROVE  line = <<Attempt(c)[1]>>
    <2>1. l = 1
      <3> HIDE DEF n, w, l
      <3> QED
        BY <1>3, <1>5
    <2>2. line = <<line[1]>>
      BY <1>2, <2>1
    <2>3. line[1] = Attempt(c)[1]
      BY <1>4, <1>5, <2>1 DEF Last
    <2> QED
      BY <2>2, <2>3, Zenon
  <1>6. ~ Asked(c)
    <2>1. SUFFICES ASSUME Asked(c)
                   PROVE  FALSE
      OBVIOUS
    <2>2. toClient[c] # <<>>
      BY DEF Prefixes
    <2>3. toClient[c] = <<END>> /\ words[c] = <<>>
      BY <2>1, <2>2, AskedMark
    <2>4. Attempt(c) = <<END>>
      BY <1>1, <2>3, ConcatEmptySeq DEF Attempt, TypeOK, WireTypeOK
    <2>5. n = 1
      <3>1. a = 1
        BY <2>4
      <3> HIDE DEF n, w, l, r, a
      <3> QED
        BY <1>3, <3>1
    <2>6. Last(line) = END
      BY <1>4, <2>4, <2>5
    <2> QED
      BY <2>6 DEF IsFinal
  <1>7. \A j \in 1 .. n : j \in 1 .. a /\ got[j] = Attempt(c)[j]
    <2>1. \A j \in 1 .. n : j \in 1 .. a
      <3> HIDE DEF n, w, l, r, a
      <3> QED
        BY <1>3
    <2> QED
      BY <1>2, <2>1, Zenon
  <1> SUFFICES ASSUME NEW j \in 1 .. n
               PROVE  /\ got[j] \in Words \cup {HUH}
                      /\ got[j] \in Words => got[j] = offset[c] + j - 1
                      /\ got[j] = HUH => j = n /\ toClient'[c] = <<>>
                      /\ offset[c] + j - 1 < BatchEnd(offset[c])
    BY <1>6
  <1> DEFINE t == got[j]
  <1>8. t = Attempt(c)[j] /\ j \in 1 .. a /\ Fits(c, j, t)
    <2>1. t = Attempt(c)[j] /\ j \in 1 .. a
      BY <1>7, Zenon
    <2> QED
      BY <1>1, <2>1, Zenon DEF ConnectionOK, AttemptInv
  <1>9. t \in Token
    <2>1. Attempt(c) \in Seq(Token)
      BY <1>1, AttemptType
    <2> QED
      BY <1>8, <2>1, ElementOfSeq, Zenon
  <1> HIDE DEF n, w, l, r, a, t
  <1>10. t \in Control => j = a /\ j = n /\ r = 0
    <2>1. t \in Control => j = a
      BY <1>8 DEF Fits, a
    <2> QED
      BY <1>3, <2>1
  <1>11. t # END
    BY <1>4, <1>8, <1>10 DEF IsFinal, Control
  <1>12. j = 1 /\ t \in Control => line = <<t>>
    BY <1>5, <1>8, <1>10, Zenon
  <1>13. t # DOLLAR
    <2>1. t = DOLLAR => j = 1
      BY <1>8 DEF Fits
    <2> QED
      BY <1>12, <2>1 DEF IsFinal, Control
  <1>14. t = HUH => offset[c] + j - 1 < BatchEnd(offset[c])
    <2>1. t = HUH => j # 1
      BY <1>12 DEF IsRefusal, Control
    <2> QED
      BY <1>8, <2>1 DEF Fits
  <1>15. t \in Words => /\ t = offset[c] + j - 1
                        /\ offset[c] + j - 1 < BatchEnd(offset[c])
    BY <1>8 DEF Fits
  <1>16. t = HUH => j = n /\ toClient'[c] = <<>>
    BY <1>2, <1>10, NoLength DEF Control, r
  <1>17. t \in Words \/ t = HUH
    BY <1>9, <1>11, <1>13 DEF Token
  <1> QED
    BY <1>14, <1>15, <1>16, <1>17 DEF t

LEMMA CollectConnection ==
    ASSUME Inv, NEW c \in Clients, ClientNext(c), Collect(c)
    PROVE  ConnectionOK(c)'
  <1>1. TypeOK /\ ConnectionOK(c)
    BY DEF Inv, ConnectionInv
  <1>2. PICK line \in Prefixes(toClient[c]) :
            /\ Takes(c, line) /\ ~ IsRefusal(line) /\ ~ IsFinal(line)
            /\ Absorb(c, Got(c, line))
    BY DEF Collect, Got
  <1> DEFINE got == Got(c, line)
             rest == toClient'[c]
             o == offset[c]
  <1>3. /\ got \in Seq(Token) /\ rest \in Seq(Token)
        /\ Len(Attempt(c)) = Len(got) + Len(rest)
        /\ Attempt(c) = got \o rest
        /\ \A j \in 1 .. Len(rest) : rest[j] = Attempt(c)[Len(got) + j]
    BY <1>1, <1>2, TakeAttempt, Zenon
  <1>4. /\ ~ Asked(c)
        /\ \A j \in 1 .. Len(got) :
              /\ got[j] \in Words \cup {HUH}
              /\ got[j] = HUH => rest = <<>>
              /\ o + j - 1 < BatchEnd(o)
    BY <1>2, CollectedWords
  <1>5. UNCHANGED <<toServer, pc, req, z, i, is_sent>>
    BY <1>2 DEF ClientNext, Takes, serverVars, locals
  <1>6. CASE Len(got) = k
    <2>1. /\ phase'[c] = "wait" /\ words'[c] = <<>> /\ offset'[c] = o + k
      BY <1>1, <1>2, <1>6 DEF Absorb, TypeOK, ClientTypeOK
    <2>2. /\ o \in Nat /\ k \in Nat \ {0} /\ Len(rest) \in Nat
          /\ BatchEnd(o) \in Nat /\ BatchEnd(o) <= o + k
          /\ req[c] \in Nat /\ z[c] \in Nat /\ pc[c] \in Label
          /\ Len(Attempt(c)) = k + Len(rest)
      <3>1. Len(rest) \in Nat
        BY <1>3, LenProperties
      <3>2. Len(Attempt(c)) = k + Len(rest)
        BY <1>3, <1>6, Zenon
      <3>3. o \in Nat /\ req[c] \in Nat /\ z[c] \in Nat /\ pc[c] \in Label
        BY <1>1, ConfigAssumption DEF TypeOK, ServerTypeOK, ClientTypeOK
      <3> QED
        BY <3>1, <3>2, <3>3, BatchEndProperties, ConfigAssumption
    <2>3. Quiet(c)
      <3>1. SUFFICES ASSUME ~ Quiet(c)
                     PROVE  FALSE
        OBVIOUS
      <3>2. req[c] = o + Len(Attempt(c)) /\ Len(Attempt(c)) # 0
        BY <2>2, <3>1, Serving
      <3>3. Attempt(c) # <<>>
        BY <3>2
      <3>4. pc[c] \in {"outer", "inner", "emit"} /\ z[c] = BatchEnd(o)
        BY <2>2, <3>1, <3>3, Serving DEF Label, Quiet
      <3>5. req[c] < z[c]
        BY <1>1, <2>2, <3>1, <3>4 DEF Quiet, At, ConnectionOK, HandlerInv
      <3> HIDE DEF o, rest
      <3> QED
        BY <2>2, <3>2, <3>4, <3>5
    <2>4. rest # <<>> => rest = <<END>> /\ o + k = NumWords /\ is_sent[c]
      <3>1. SUFFICES ASSUME rest # <<>>
                     PROVE  rest = <<END>> /\ o + k = NumWords /\ is_sent[c]
        OBVIOUS
      <3>2. Len(rest) # 0
        BY <1>3, <3>1, NoLength
      <3>3. 1 \in 1 .. Len(rest) /\ k + 1 \in 1 .. Len(Attempt(c))
        <4> HIDE DEF rest, o
        <4> QED
          BY <2>2, <3>2
      <3>4. rest[1] = Attempt(c)[k + 1]
        BY <1>3, <1>6, <3>3, Zenon
      <3>5. Fits(c, k + 1, rest[1])
        BY <1>1, <3>3, <3>4, Zenon DEF ConnectionOK, AttemptInv
      <3>6. rest[1] \in Token
        BY <1>3, <3>3, ElementOfSeq, Zenon
      <3> DEFINE t == rest[1]
      <3> HIDE DEF t
      <3>7. t \notin Words /\ t # HUH /\ t # DOLLAR
        <4>1. Fits(c, k + 1, t)
          BY <3>5 DEF t
        <4> QED
          BY <2>2, <4>1 DEF Fits
      <3>8. t = END
        BY <3>6, <3>7 DEF Token, t
      <3>9. k + 1 = Len(Attempt(c)) /\ o + k = NumWords /\ is_sent[c]
        <4>1. Fits(c, k + 1, END)
          BY <3>5, <3>8 DEF t
        <4> QED
          BY <2>2, <4>1 DEF Fits, Control
      <3>10. Len(rest) = 1
        <4> DEFINE l == Len(rest)
        <4>1. k + 1 = k + l /\ l \in Nat /\ k \in Nat
          BY <2>2, <3>9
        <4> HIDE DEF l
        <4>2. l = 1
          BY <4>1
        <4> QED
          BY <4>2 DEF l
      <3>11. rest = <<END>>
        <4>1. \A s \in Seq(Token) : Len(s) = 1 => s = <<s[1]>>
          OBVIOUS
        <4> QED
          BY <1>3, <3>8, <3>10, <4>1, Zenon DEF t
      <3> QED
        BY <3>9, <3>11
    <2>5. Attempt(c)' = rest
      <3>1. Attempt(c)' = <<>> \o rest
        BY <2>1 DEF Attempt
      <3> QED
        BY <1>3, <3>1, ConcatEmptySeq
    <2>6. Quiet(c)'
      BY <1>5, <2>3 DEF Quiet, At
    <2>7. HandlerInv(c)'
      BY <1>1, <1>5, <2>6 DEF ConnectionOK, HandlerInv
    <2>8. AttemptInv(c)'
      <3>1. SUFFICES ASSUME NEW j \in 1 .. Len(Attempt(c)')
                     PROVE  Fits(c, j, Attempt(c)[j])'
        BY DEF AttemptInv
      <3>2. rest = <<END>> /\ o + k = NumWords /\ is_sent[c]
        BY <2>4, <2>5, <3>1
      <3>3. j = 1 /\ Attempt(c)'[j] = END /\ Len(Attempt(c)') = 1
        BY <2>5, <3>1, <3>2
      <3>4. END \notin Words /\ END # HUH /\ END # DOLLAR
        BY Kinds
      <3>5. is_sent'[c] /\ offset'[c] + j - 1 = NumWords
        BY <1>5, <2>1, <2>2, <3>2, <3>3
      <3> QED
        BY <3>3, <3>4, <3>5, Zenon DEF Fits
    <2>9. PhaseInv(c)'
      <3>1. ~ Asked(c)'
        BY <1>4, <1>5 DEF Asked
      <3>2. Fresh(c)'
        BY <2>1, <2>4 DEF Fresh
      <3> QED
        BY <2>6, <3>1, <3>2 DEF PhaseInv
    <2>10. ServeInv(c)'
      BY <2>6 DEF ServeInv
    <2> QED
      BY <2>7, <2>8, <2>9, <2>10 DEF ConnectionOK
  <1>7. CASE Len(got) # k
    <2>1. /\ phase' = phase /\ offset' = offset /\ words'[c] = got
      BY <1>1, <1>2, <1>7 DEF Absorb, TypeOK, ClientTypeOK
    <2>2. Attempt(c)' = Attempt(c)
      BY <1>3, <2>1, Zenon DEF Attempt
    <2>3. phase[c] = "recv"
      BY <1>2 DEF Takes
    <2>4. Quiet(c)' = Quiet(c)
      BY <1>5 DEF Quiet, At
    <2>5. HandlerInv(c)'
      BY <1>1, <1>5, <2>4 DEF ConnectionOK, HandlerInv
    <2>6. AttemptInv(c)'
      BY <1>1, <1>5, <2>1, <2>2 DEF ConnectionOK, AttemptInv, Fits
    <2>7. PhaseInv(c)'
      BY <1>4, <1>5, <2>1, <2>3 DEF PhaseInv, Asked
    <2>8. ServeInv(c)'
      BY <1>1, <1>5, <2>1, <2>2, <2>4 DEF ConnectionOK, ServeInv
    <2> QED
      BY <2>5, <2>6, <2>7, <2>8 DEF ConnectionOK
  <1> QED
    BY <1>6, <1>7

LEMMA ClientConnection ==
    ASSUME Inv, NEW c \in Clients, ClientNext(c)
    PROVE  ConnectionOK(c)'
  BY RequestConnection, RefusedConnection, FinishConnection,
     CollectConnection, Zenon DEF ClientNext, ClientStep

LEMMA InitConnection == Init => ConnectionInv
  <1> SUFFICES ASSUME Init, NEW c \in Clients
               PROVE  ConnectionOK(c)
    BY DEF ConnectionInv
  <1>1. /\ toServer[c] = <<>> /\ toClient[c] = <<>> /\ words[c] = <<>>
        /\ pc[c] = "accept" /\ phase[c] = "wait" /\ ~ is_sent[c]
    BY DEF Init, WireInit, ServerInit, ClientInit
  <1>2. Attempt(c) = <<>> /\ Len(Attempt(c)) = 0
    <2>1. <<>> \o <<>> = <<>>
      BY NoTokens, ConcatEmptySeq
    <2> QED
      BY <1>1, <2>1 DEF Attempt
  <1>3. Quiet(c)
    BY <1>1 DEF Quiet
  <1>4. HandlerInv(c)
    BY <1>1 DEF HandlerInv
  <1>5. AttemptInv(c)
    BY <1>2 DEF AttemptInv
  <1>6. PhaseInv(c)
    BY <1>1, <1>3 DEF PhaseInv, Fresh, Asked
  <1> QED
    BY <1>3, <1>4, <1>5, <1>6 DEF ConnectionOK, ServeInv

LEMMA NextInv == Inv /\ [Next]_vars => Inv'
  <1> SUFFICES ASSUME Inv, [Next]_vars
               PROVE  Inv'
    OBVIOUS
  <1>1. TypeOK /\ \A d \in Clients : ConnectionOK(d)
    BY DEF Inv, ConnectionInv
  <1>2. TypeOK'
    BY <1>1, HandlerType, ClientType, StutterType DEF Next
  <1>3. ASSUME NEW d \in Clients
        PROVE  ConnectionOK(d)'
    <2>1. CASE UNCHANGED vars
      <3>1. UNCHANGED Local(d)
        BY <2>1 DEF vars, wireVars, serverVars, shared, locals, clientVars, Local
      <3> QED
        BY <1>1, <3>1, LocalFrame
    <2>2. ASSUME NEW c \in Clients, HandlerNext(c)
          PROVE  ConnectionOK(d)'
      <3>1. CASE c = d
        BY <2>2, <3>1, HandlerConnection
      <3>2. CASE c # d
        BY <1>1, <2>2, <3>2, HandlerFrame, LocalFrame
      <3> QED
        BY <3>1, <3>2
    <2>3. ASSUME NEW c \in Clients, ClientNext(c)
          PROVE  ConnectionOK(d)'
      <3>1. CASE c = d
        BY <2>3, <3>1, ClientConnection
      <3>2. CASE c # d
        BY <1>1, <2>3, <3>2, ClientFrame, LocalFrame
      <3> QED
        BY <3>1, <3>2
    <2> QED
      BY <2>1, <2>2, <2>3 DEF Next
  <1> QED
    BY <1>2, <1>3 DEF Inv, ConnectionInv

(* In every execution, for any number of clients contending, each client,  *)
(* its connection and its handler agree on the attempt under way: which    *)
(* word is due next, what is still to be sent and who has stopped.         *)
THEOREM ConnectionCorrect == Spec => [](TypeOK /\ ConnectionInv)
  <1>1. Init => Inv
    BY InitType, InitConnection DEF Inv
  <1>2. Spec => []Inv
    BY <1>1, NextInv, PTL DEF Spec
  <1> QED
    BY <1>2, PTL DEF Inv

(* A client has at most one request under way and the connection carries   *)
(* nothing of an old attempt into the next one.                            *)
THEOREM StopAndWaitCorrect == Spec => []StopAndWait
  <1>1. Inv => StopAndWait
    <2> SUFFICES ASSUME Inv, NEW c \in Clients
                 PROVE  /\ Len(toServer[c]) <= 1
                        /\ phase[c] # "recv" => toClient[c] \in {<<>>, <<END>>}
                        /\ Asked(c) => \/ phase[c] = "recv"
                                       \/ Done(c) /\ is_sent[c]
      BY DEF StopAndWait
    <2>1. PhaseInv(c)
      BY DEF Inv, ConnectionInv, ConnectionOK
    <2>2. CASE Asked(c)
      <3>1. toClient[c] \in {<<>>, <<END>>}
        BY <2>1, <2>2, Zenon DEF PhaseInv, Fresh
      <3>2. \/ phase[c] = "recv" /\ toServer[c] = <<offset[c]>>
            \/ Done(c) /\ Len(toServer[c]) = 1 /\ is_sent[c]
        BY <2>1, <2>2, Zenon DEF PhaseInv
      <3>3. Len(toServer[c]) <= 1
        <4>1. ASSUME NEW o
              PROVE  Len(<<o>>) <= 1
          OBVIOUS
        <4>2. CASE toServer[c] = <<offset[c]>>
          BY <4>1, <4>2
        <4>3. CASE Len(toServer[c]) = 1
          BY <4>3
        <4> QED
          BY <3>2, <4>2, <4>3, Zenon
      <3> QED
        BY <3>1, <3>2, <3>3, Zenon
    <2>3. CASE ~ Asked(c)
      BY <2>1, <2>3 DEF PhaseInv, Fresh, Asked
    <2> QED
      BY <2>2, <2>3
  <1> QED
    BY <1>1, ConnectionCorrect, PTL DEF Inv

(* What is on its way to a client continues what it has read.              *)
THEOREM AttemptContinuesCorrect == Spec => []AttemptContinues
  <1>1. Inv => AttemptContinues
    <2> SUFFICES ASSUME Inv, NEW c \in Clients, NEW j \in DOMAIN Attempt(c)
                 PROVE  /\ Attempt(c)[j] \in Words =>
                              Attempt(c)[j] = offset[c] + j - 1
                        /\ Attempt(c)[j] \in Control => j = Len(Attempt(c))
                        /\ Attempt(c)[j] = END => offset[c] + j - 1 = NumWords
      BY DEF AttemptContinues
    <2>1. j \in 1 .. Len(Attempt(c))
      BY AttemptType, LenProperties DEF Inv
    <2>2. Fits(c, j, Attempt(c)[j])
      BY <2>1 DEF Inv, ConnectionInv, ConnectionOK, AttemptInv
    <2> QED
      BY <2>2 DEF Fits
  <1> QED
    BY <1>1, ConnectionCorrect, PTL DEF Inv

-----------------------------------------------------------------------------
(* isRunning is never left TRUE for nobody.                                *)

LEMMA BusyStep ==
    ASSUME Inv, BusyMeansServed, NEW c \in Clients, HandlerNext(c)
    PROVE  BusyMeansServed'
  <1> SUFFICES ASSUME isRunning'
               PROVE  \E d \in Clients : (Holding(d) \/ (Exited(d) /\ ~is_sent[d]))'
    BY DEF BusyMeansServed
  <1>1. pc \in [Clients -> Label] /\ is_sent \in [Clients -> BOOLEAN]
    BY DEF Inv, TypeOK, ServerTypeOK
  <1>2. CASE Claim(c)
    BY <1>1, <1>2 DEF Claim, Jump, Goto, Holding
  <1>3. CASE ~ Claim(c)
    <2>1. isRunning
      BY <1>3
      DEF HandlerNext, HandlerStep, Accept, Receive, Refuse, Admit, Own, Late,
          OutOfRange, Begin, NextPacket, EndBatch, AddWord, EndPacket, Emit,
          Abandon, ResetRunning, ResetOwner, ResetStamp, Release, shared
    <2>2. PICK d \in Clients : Holding(d) \/ (Exited(d) /\ ~is_sent[d])
      BY <2>1 DEF BusyMeansServed
    <2>3. CASE d # c
      <3>1. pc'[d] = pc[d] /\ is_sent'[d] = is_sent[d]
        BY <2>3, HandlerFrame DEF Local, Inv
      <3> QED
        BY <2>2, <3>1 DEF Holding, Exited, At
    <2>4. CASE d = c
      <3>1. pc[c] \in {"own", "late", "reset"} => ~ is_sent[c]
        BY DEF Inv, ConnectionInv, ConnectionOK, HandlerInv
      <3>2. pc[c] \in {"own", "late", "outer", "inner", "emit", "reset",
                       "release", "exit"}
        BY <2>2, <2>4 DEF Holding, Exited, At
      <3>3. /\ ~ Accept(c) /\ ~ Receive(c) /\ ~ Refuse(c) /\ ~ Admit(c)
            /\ ~ ResetOwner(c) /\ ~ ResetStamp(c)
        BY <3>2
        DEF Accept, Receive, Refuse, Admit, ResetOwner, ResetStamp, Jump, At
      <3>4. ~ ResetRunning(c) /\ ~ Release(c)
        BY DEF ResetRunning, Release
      <3>5. CASE OutOfRange(c)
        <4>1. pc'[c] = "exit"
          BY <1>1, <3>5 DEF OutOfRange, Jump, Goto
        <4>2. ~ is_sent'[c]
          <5>1. is_sent' = is_sent /\ pc[c] = "late"
            BY <3>5 DEF OutOfRange, Jump, At
          <5> QED
            BY <3>1, <5>1
        <4> QED
          BY <4>1, <4>2 DEF Exited, At
      <3>6. CASE Own(c) \/ Late(c) \/ Begin(c) \/ NextPacket(c) \/ EndBatch(c)
                   \/ EndPacket(c) \/ Emit(c) \/ Abandon(c)
        <4>1. pc'[c] \in {"late", "reset", "outer", "inner", "release", "emit"}
          BY <1>1, <3>6
          DEF Own, Late, Begin, NextPacket, EndBatch, EndPacket, Emit,
              Abandon, Jump, Goto
        <4> QED
          BY <4>1 DEF Holding
      <3>7. CASE AddWord(c)
        <4>1. pc'[c] = "inner"
          BY <3>7 DEF AddWord, At
        <4> QED
          BY <4>1 DEF Holding
      <3> QED
        BY <1>3, <3>3, <3>4, <3>5, <3>6, <3>7 DEF HandlerNext, HandlerStep
    <2> QED
      BY <2>3, <2>4
  <1> QED
    BY <1>2, <1>3

(* The server looks busy only while some handler is between its claim and  *)
(* its store of FALSE, or once one has answered "$$".                      *)
THEOREM BusyCorrect == Spec => []BusyMeansServed
  <1>1. Init => BusyMeansServed
    BY DEF Init, ServerInit, BusyMeansServed
  <1>2. Inv /\ BusyMeansServed /\ [Next]_vars => BusyMeansServed'
    <2> SUFFICES ASSUME Inv, BusyMeansServed, [Next]_vars
                 PROVE  BusyMeansServed'
      OBVIOUS
    <2>1. CASE UNCHANGED vars
      BY <2>1 DEF vars, serverVars, shared, locals, BusyMeansServed, Holding,
                  Exited, At
    <2>2. ASSUME NEW c \in Clients, ClientNext(c)
          PROVE  BusyMeansServed'
      BY <2>2 DEF ClientNext, serverVars, shared, locals, BusyMeansServed,
                  Holding, Exited, At
    <2> QED
      BY <2>1, <2>2, BusyStep DEF Next
  <1>3. Spec => []Inv
    BY ConnectionCorrect, PTL DEF Inv
  <1> QED
    BY <1>1, <1>2, <1>3, PTL DEF Spec

-----------------------------------------------------------------------------
(* Why a request leaves service.                                           *)

Serves(c) == pc[c] \in {"outer", "inner", "emit"}

(* How far the serving loop of c has still to go: req, then i, then z.     *)
LoopInv ==
    \A c \in Clients :
        /\ At(c, "outer") => req[c] <= z[c]
        /\ pc[c] \in {"inner", "emit"} =>
              req[c] < z[c] /\ req[c] <= i[c] /\ i[c] <= z[c]

LEMMA InitLoop == Init => LoopInv
  BY DEF Init, ServerInit, LoopInv, At

(* One handler's locals.                                                   *)
LEMMA LoopStep ==
    ASSUME Inv, LoopInv, NEW c \in Clients, HandlerNext(c)
    PROVE  /\ At(c, "outer")' => req[c]' <= z[c]'
           /\ pc[c]' \in {"inner", "emit"} =>
                 req[c]' < z[c]' /\ req[c]' <= i[c]' /\ i[c]' <= z[c]'
  <1>1. /\ pc \in [Clients -> Label] /\ req \in [Clients -> Nat]
        /\ z \in [Clients -> 0 .. NumWords] /\ i \in [Clients -> 0 .. NumWords]
        /\ back[c] \in {"recv", "release"}
    BY DEF Inv, TypeOK, ServerTypeOK
  <1>2. NumWords \in Nat /\ p \in Nat
    BY ConfigAssumption
  <1> USE DEF Jump, At, Goto, locals
  <1>3. CASE Begin(c)
    <2>1. pc[c]' = "outer" /\ z[c]' = BatchEnd(req[c]) /\ req[c]' = req[c]
      BY <1>1, <1>3 DEF Begin
    <2>2. req[c] < BatchEnd(req[c]) /\ BatchEnd(req[c]) \in Nat
      BY <1>1, <1>3, BatchEndProperties DEF Begin
    <2> QED
      BY <1>1, <2>1, <2>2
  <1>4. CASE NextPacket(c)
    BY <1>1, <1>2, <1>4 DEF NextPacket
  <1>5. CASE AddWord(c)
    BY <1>1, <1>2, <1>5 DEF AddWord, PacketFull, LoopInv
  <1>6. CASE EndPacket(c)
    BY <1>1, <1>2, <1>6 DEF EndPacket, LoopInv
  <1>7. CASE Emit(c)
    BY <1>1, <1>2, <1>7 DEF Emit, LoopInv
  <1>8. ASSUME pc[c]' \notin {"outer", "inner", "emit"}
        PROVE  /\ pc[c]' # "outer"
               /\ pc[c]' \notin {"inner", "emit"}
    BY <1>8
  <1>9. \/ Begin(c) \/ NextPacket(c) \/ AddWord(c) \/ EndPacket(c) \/ Emit(c)
        \/ pc[c]' \notin {"outer", "inner", "emit"}
    BY <1>1 DEF HandlerNext, HandlerStep, Accept, Receive, Refuse, Admit,
                Claim, Own, Late, OutOfRange, EndBatch, Abandon, ResetRunning,
                ResetOwner, ResetStamp, Release
  <1> QED
    BY <1>3, <1>4, <1>5, <1>6, <1>7, <1>8, <1>9

LEMMA NextLoop == Inv /\ LoopInv /\ [Next]_vars => LoopInv'
  <1> SUFFICES ASSUME Inv, LoopInv, [Next]_vars, NEW d \in Clients
               PROVE  /\ At(d, "outer")' => req[d]' <= z[d]'
                      /\ pc[d]' \in {"inner", "emit"} =>
                            /\ req[d]' < z[d]'
                            /\ req[d]' <= i[d]' /\ i[d]' <= z[d]'
    BY DEF LoopInv
  <1>1. TypeOK
    BY DEF Inv
  <1>2. ASSUME UNCHANGED <<pc[d], req[d], z[d], i[d]>>
        PROVE  /\ At(d, "outer")' => req[d]' <= z[d]'
               /\ pc[d]' \in {"inner", "emit"} =>
                     /\ req[d]' < z[d]'
                     /\ req[d]' <= i[d]' /\ i[d]' <= z[d]'
    BY <1>2 DEF LoopInv, At
  <1>3. CASE UNCHANGED vars
    BY <1>2, <1>3 DEF vars, serverVars, locals
  <1>4. ASSUME NEW c \in Clients, ClientNext(c)
        PROVE  UNCHANGED <<pc[d], req[d], z[d], i[d]>>
    BY <1>4 DEF ClientNext, serverVars, locals
  <1>5. ASSUME NEW c \in Clients, HandlerNext(c), c # d
        PROVE  UNCHANGED <<pc[d], req[d], z[d], i[d]>>
    BY <1>1, <1>5, HandlerFrame DEF Local
  <1> QED
    BY <1>2, <1>3, <1>4, <1>5, LoopStep DEF Next

(* The chances of c are no more than there are handlers.                   *)
LEMMA RaisersCount ==
    ASSUME NEW c \in Clients, NEW R \in SUBSET (Clients \ {c})
    PROVE  /\ IsFiniteSet(R)
           /\ Cardinality(R) \in Nat
           /\ Cardinality(Clients) \in Nat
           /\ Cardinality(R) + 1 <= Cardinality(Clients)
  <1>1. /\ IsFiniteSet(Clients \ {c})
        /\ Cardinality(Clients \ {c}) = Cardinality(Clients) - 1
    BY ClientsAssumption, FS_RemoveElement
  <1>2. IsFiniteSet(R) /\ Cardinality(R) <= Cardinality(Clients \ {c})
    BY <1>1, FS_Subset
  <1>3. Cardinality(R) \in Nat /\ Cardinality(Clients) \in Nat
    BY <1>2, ClientsAssumption, FS_CardinalityType
  <1> QED
    BY <1>1, <1>2, <1>3

LEMMA ChancesBound ==
    ASSUME NEW c \in Clients
    PROVE  /\ Cardinality(Clients) \in Nat
           /\ Chances(c) \in Nat /\ Chances(c) <= Cardinality(Clients)
           /\ Chances(c)' \in Nat /\ Chances(c)' <= Cardinality(Clients)
  <1>1. /\ Raisers(c) \in SUBSET (Clients \ {c})
        /\ Raisers(c)' \in SUBSET (Clients \ {c})
    BY DEF Raisers
  <1>2. /\ Cardinality(Raisers(c)) \in Nat
        /\ Cardinality(Raisers(c)) + 1 <= Cardinality(Clients)
        /\ Cardinality(Raisers(c)') \in Nat
        /\ Cardinality(Raisers(c)') + 1 <= Cardinality(Clients)
        /\ Cardinality(Clients) \in Nat
    BY <1>1, RaisersCount
  <1> QED
    BY <1>2 DEF Chances

(* The steps of c itself keep its chances while it serves.                 *)
LEMMA OwnChances ==
    ASSUME Inv, NEW c \in Clients, HandlerNext(c), isRunning' = isRunning
    PROVE  Chances(c)' = Chances(c)
  <1>1. \A d \in Clients \ {c} : pc[d]' = pc[d]
    BY HandlerFrame DEF Inv, Local
  <1>2. Raisers(c)' = Raisers(c)
    BY <1>1 DEF Raisers, At
  <1> QED
    BY <1>2 DEF Chances

(* While c owns the server, another handler can only use up a chance.      *)
LEMMA OtherChances ==
    ASSUME Inv, NEW c \in Clients, NEW d \in Clients, c # d, HandlerNext(d),
           clientID = c, clientID' = c
    PROVE  /\ Chances(c)' <= Chances(c)
           /\ ~isRunning' /\ isRunning => Chances(c)' < Chances(c)
  <1>1. /\ pc \in [Clients -> Label]
        /\ \A e \in Clients \ {d} : pc[e]' = pc[e]
    BY HandlerFrame DEF Inv, TypeOK, ServerTypeOK, Local
  <1>2. NoClient # c
    BY NoClientAssumption
  <1>3. back[d] \in {"recv", "release"}
    BY DEF Inv, TypeOK, ServerTypeOK
  <1>4. ~ At(d, "own")
    BY <1>1 DEF HandlerNext, HandlerStep, Accept, Receive, Refuse, Admit,
                Claim, Own, Late, OutOfRange, Begin, NextPacket, EndBatch,
                AddWord, EndPacket, Emit, Abandon, ResetRunning, ResetOwner,
                ResetStamp, Release, Jump, At
  <1>5. d \in Raisers(c) /\ IsFiniteSet(Raisers(c))
    BY <1>4, RaisersCount DEF Raisers
  <1>6. Cardinality(Raisers(c)) \in Nat
    BY <1>5, FS_CardinalityType
  <1>7. CASE Claim(d)
    <2>1. pc[d]' = "own" /\ isRunning' = TRUE
      BY <1>1, <1>7 DEF Claim, Jump, Goto
    <2>2. Raisers(c)' = Raisers(c) \ {d}
      BY <1>1, <2>1 DEF Raisers, At
    <2>3. Cardinality(Raisers(c)') = Cardinality(Raisers(c)) - 1
      BY <1>5, <2>2, FS_RemoveElement
    <2> QED
      BY <1>6, <2>1, <2>3 DEF Chances
  <1>8. CASE ~ Claim(d)
    <2>1. pc[d]' # "own" /\ (isRunning' = isRunning \/ ~isRunning')
      BY <1>1, <1>2, <1>3, <1>4, <1>8
      DEF HandlerNext, HandlerStep, Accept, Receive, Refuse, Admit,
          Own, Late, OutOfRange, Begin, NextPacket, EndBatch,
          AddWord, EndPacket, Emit, Abandon, ResetRunning, ResetOwner,
          ResetStamp, Release, Jump, At, Goto, shared
    <2>2. Raisers(c)' = Raisers(c)
      BY <1>1, <1>4, <2>1 DEF Raisers, At
    <2> QED
      BY <1>6, <2>1, <2>2 DEF Chances
  <1> QED
    BY <1>7, <1>8

(* The work left in a serving loop is a number.                            *)
LEMMA LoopWorkType ==
    ASSUME Inv, LoopInv, NEW c \in Clients, Serves(c)
    PROVE  LoopWork(c) \in Nat
  <1>1. /\ pc[c] \in {"outer", "inner", "emit"}
        /\ req[c] \in Nat /\ z[c] \in Nat /\ i[c] \in Nat
        /\ Chances(c) \in Nat
    BY ConfigAssumption, ChancesBound DEF Inv, TypeOK, ServerTypeOK, Serves
  <1>2. CASE pc[c] = "outer"
    BY <1>1, <1>2 DEF LoopWork, LoopInv, At
  <1>3. CASE pc[c] = "inner"
    <2>1. z[c] - i[c] \in Nat
      BY <1>1, <1>3 DEF LoopInv
    <2>2. (IF i[c] = req[c] /\ isRunning THEN 2 ELSE 5) \in Nat
      OBVIOUS
    <2> QED
      BY <1>1, <1>3, <2>1, <2>2 DEF LoopWork, At
  <1>4. CASE pc[c] = "emit"
    BY <1>1, <1>4 DEF LoopWork, LoopInv, At
  <1> QED
    BY <1>1, <1>2, <1>3, <1>4

LEMMA ServiceWorkType ==
    ASSUME Inv, LoopInv, NEW c \in Clients
    PROVE  ServiceWork(c) \in Nat
  <1>1. pc[c] \in Label /\ k \in Nat /\ Cardinality(Clients) \in Nat
    BY ConfigAssumption, ChancesBound DEF Inv, TypeOK, ServerTypeOK
  <1>2. CASE Serves(c)
    <2>1. LoopWork(c) \in Nat
      BY <1>2, LoopWorkType
    <2>2. pc[c] \in {"outer", "inner", "emit"}
      BY <1>2 DEF Serves
    <2> QED
      BY <1>1, <2>1, <2>2 DEF ServiceWork, At
  <1>3. CASE ~ Serves(c)
    BY <1>1, <1>3 DEF ServiceWork, Serves, At, Label
  <1> QED
    BY <1>2, <1>3

WorkNat == \A c \in Clients : ServiceWork(c) \in Nat

LEMMA WorkType == Inv /\ LoopInv => WorkNat
  BY ServiceWorkType DEF WorkNat

(* What another handler does leaves c no more to do in its loops.          *)
LEMMA OtherLoopWork ==
    ASSUME Inv, LoopInv, NEW c \in Clients, Serves(c),
           UNCHANGED <<pc[c], req[c], z[c], i[c]>>,
           Chances(c)' <= Chances(c),
           ~isRunning' /\ isRunning => Chances(c)' < Chances(c)
    PROVE  LoopWork(c)' \in Int /\ LoopWork(c)' <= LoopWork(c)
  <1>1. /\ pc[c] \in {"outer", "inner", "emit"} /\ pc[c]' = pc[c]
        /\ req[c] \in Nat /\ z[c] \in Nat /\ i[c] \in Nat
        /\ req[c]' = req[c] /\ z[c]' = z[c] /\ i[c]' = i[c]
        /\ Chances(c) \in Nat /\ Chances(c)' \in Nat
    BY ConfigAssumption, ChancesBound DEF Inv, TypeOK, ServerTypeOK, Serves
  <1>2. CASE pc[c] = "outer"
    BY <1>1, <1>2 DEF LoopWork, At
  <1>3. CASE pc[c] = "inner"
    <2> DEFINE extra == IF i[c] = req[c] /\ isRunning THEN 2 ELSE 5
    <2>1. /\ LoopWork(c) = 4 * Chances(c) + (4 * (z[c] - i[c]) + extra)
          /\ LoopWork(c)' = 4 * Chances(c)' + (4 * (z[c] - i[c]) + extra')
      BY <1>1, <1>3 DEF LoopWork, At
    <2>2. extra \in {2, 5} /\ extra' \in {2, 5}
      OBVIOUS
    <2>3. extra' <= extra \/ (~isRunning' /\ isRunning)
      BY <1>1
    <2> HIDE DEF extra
    <2> QED
      BY <1>1, <2>1, <2>2, <2>3
  <1>4. CASE pc[c] = "emit"
    BY <1>1, <1>4 DEF LoopWork, At
  <1> QED
    BY <1>1, <1>2, <1>3, <1>4

(* Nor does it give c more to do elsewhere.                                *)
LEMMA OtherServiceWork ==
    ASSUME Inv, LoopInv, NEW c \in Clients,
           UNCHANGED <<pc[c], req[c], z[c], i[c]>>,
           clientID' = c => clientID = c,
           clientID' = c => Chances(c)' <= Chances(c),
           clientID' = c /\ ~isRunning' /\ isRunning =>
               Chances(c)' < Chances(c)
    PROVE  ServiceWork(c)' <= ServiceWork(c)
  <1>1. /\ pc[c] \in Label /\ k \in Nat /\ Cardinality(Clients) \in Nat
        /\ pc[c]' = pc[c]
    BY ConfigAssumption, ChancesBound DEF Inv, TypeOK, ServerTypeOK
  <1>2. CASE Serves(c)
    <2>1. LoopWork(c) \in Nat
      BY <1>2, LoopWorkType
    <2>2. clientID' = c =>
            LoopWork(c)' \in Int /\ LoopWork(c)' <= LoopWork(c)
      BY <1>2, OtherLoopWork
    <2>3. pc[c] \in {"outer", "inner", "emit"}
      BY <1>2 DEF Serves
    <2> HIDE DEF LoopWork
    <2>4. CASE clientID' = c
      <3>1. /\ ServiceWork(c) = 8 + LoopWork(c)
            /\ ServiceWork(c)' = 8 + LoopWork(c)'
        BY <1>1, <2>3, <2>4 DEF ServiceWork, At
      <3>2. LoopWork(c)' \in Int /\ LoopWork(c)' <= LoopWork(c)
        BY <2>2, <2>4
      <3> QED
        BY <2>1, <3>1, <3>2
    <2>5. CASE clientID' # c
      BY <1>1, <2>1, <2>3, <2>5 DEF ServiceWork, At
    <2> QED
      BY <2>4, <2>5
  <1>3. CASE ~ Serves(c)
    BY <1>1, <1>3 DEF ServiceWork, Serves, At, Label
  <1> QED
    BY <1>2, <1>3

(* Every step of c itself, from the test of isRunning on, leaves it less.  *)
LEMMA OwnServiceWork ==
    ASSUME Inv, LoopInv, NEW c \in Clients, HandlerNext(c),
           pc[c] \notin {"accept", "recv", "exit"}
    PROVE  ServiceWork(c)' < ServiceWork(c)
  <1>1. /\ pc \in [Clients -> Label] /\ req \in [Clients -> Nat]
        /\ z \in [Clients -> 0 .. NumWords] /\ i \in [Clients -> 0 .. NumWords]
        /\ back[c] \in {"recv", "release"}
    BY DEF Inv, TypeOK, ServerTypeOK
  <1>2. NumWords \in Nat /\ p \in Nat \ {0} /\ k \in Nat
    BY ConfigAssumption
  <1>3. /\ Cardinality(Clients) \in Nat
        /\ Chances(c) \in Nat /\ Chances(c)' \in Nat
        /\ Chances(c)' <= Cardinality(Clients)
    BY ChancesBound
  <1>4. Serves(c) => LoopWork(c) \in Nat
    BY LoopWorkType
  <1> USE DEF Jump, At, Goto, locals, shared, ServiceWork
  <1>5. CASE Refuse(c) \/ Admit(c) \/ Claim(c) \/ Own(c)
    BY <1>1, <1>2, <1>3, <1>5 DEF Refuse, Admit, Claim, Own
  <1>6. CASE Late(c) \/ OutOfRange(c)
    BY <1>1, <1>2, <1>3, <1>6 DEF Late, OutOfRange
  <1>7. CASE Begin(c)
    <2>1. /\ pc[c] = "late" /\ pc[c]' = "outer"
          /\ z[c]' = BatchEnd(req[c]) /\ req[c]' = req[c]
      BY <1>1, <1>7 DEF Begin
    <2>2. BatchEnd(req[c]) \in Nat /\ BatchEnd(req[c]) <= req[c] + k
      BY <1>1, BatchEndProperties
    <2>3. LoopWork(c)' =
              4 * Chances(c)' + (4 * (BatchEnd(req[c]) - req[c]) + 3)
      BY <2>1 DEF LoopWork
    <2> QED
      BY <1>1, <1>2, <1>3, <2>1, <2>2, <2>3
  <1>8. CASE NextPacket(c)
    <2>1. /\ pc[c] = "outer" /\ pc[c]' = "inner" /\ clientID = c
          /\ clientID' = c /\ isRunning' = isRunning /\ isRunning'
          /\ req[c]' = req[c] /\ z[c]' = z[c] /\ i[c]' = req[c]
      BY <1>1, <1>8 DEF NextPacket, MayServe
    <2>2. Chances(c)' = Chances(c)
      BY <2>1, OwnChances
    <2>3. /\ LoopWork(c) = 4 * Chances(c) + (4 * (z[c] - req[c]) + 3)
          /\ LoopWork(c)' = 4 * Chances(c)' + (4 * (z[c] - req[c]) + 2)
      BY <2>1 DEF LoopWork
    <2> QED
      BY <1>1, <1>3, <2>1, <2>2, <2>3
  <1>9. CASE EndBatch(c)
    <2>1. LoopWork(c) \in Nat
      BY <1>4, <1>9 DEF EndBatch, Serves
    <2> QED
      BY <1>1, <1>9, <2>1 DEF EndBatch
  <1>10. CASE AddWord(c)
    <2>1. /\ pc[c] = "inner" /\ pc[c]' = "inner" /\ clientID = c
          /\ clientID' = c /\ isRunning' = isRunning /\ isRunning'
          /\ req[c]' = req[c] /\ z[c]' = z[c] /\ i[c]' = i[c] + 1
          /\ req[c] <= i[c]
      BY <1>1, <1>10 DEF AddWord, MayServe, LoopInv
    <2>2. Chances(c)' = Chances(c)
      BY <2>1, OwnChances
    <2>3. LoopWork(c)' = 4 * Chances(c)' + (4 * (z[c] - (i[c] + 1)) + 5)
      BY <1>1, <2>1 DEF LoopWork
    <2>4. \/ LoopWork(c) = 4 * Chances(c) + (4 * (z[c] - i[c]) + 2)
          \/ LoopWork(c) = 4 * Chances(c) + (4 * (z[c] - i[c]) + 5)
      BY <2>1 DEF LoopWork
    <2> QED
      BY <1>1, <1>2, <1>3, <2>1, <2>2, <2>3, <2>4
  <1>11. CASE EndPacket(c)
    <2>1. /\ pc[c] = "inner" /\ pc[c]' = "emit"
          /\ clientID' = clientID /\ isRunning' = isRunning
          /\ req[c]' = req[c] /\ z[c]' = z[c] /\ i[c]' = i[c]
          /\ req[c] < z[c]
      BY <1>1, <1>11 DEF EndPacket, LoopInv
    <2>2. CASE clientID = c
      <3>1. ~ (i[c] = req[c] /\ isRunning)
        BY <1>1, <1>2, <1>11, <2>1, <2>2 DEF EndPacket, PacketFull, MayServe
      <3>2. Chances(c)' = Chances(c)
        BY <2>1, OwnChances
      <3>3. /\ LoopWork(c) = 4 * Chances(c) + (4 * (z[c] - i[c]) + 5)
            /\ LoopWork(c)' = 4 * Chances(c)' + (4 * (z[c] - i[c]) + 4)
        BY <2>1, <3>1 DEF LoopWork
      <3> QED
        BY <1>1, <1>2, <1>3, <2>1, <2>2, <3>2, <3>3
    <2>3. CASE clientID # c
      BY <2>1, <2>3
    <2> QED
      BY <2>2, <2>3
  <1>12. CASE Emit(c)
    <2>1. /\ pc[c] = "emit" /\ pc[c]' = "outer"
          /\ clientID = c /\ clientID' = c /\ isRunning' = isRunning
          /\ req[c]' = i[c] /\ z[c]' = z[c]
      BY <1>1, <1>12 DEF Emit
    <2>2. Chances(c)' = Chances(c)
      BY <2>1, OwnChances
    <2>3. /\ LoopWork(c) = 4 * Chances(c) + (4 * (z[c] - i[c]) + 4)
          /\ LoopWork(c)' = 4 * Chances(c)' + (4 * (z[c] - i[c]) + 3)
      BY <2>1 DEF LoopWork
    <2> QED
      BY <1>1, <1>2, <1>3, <2>1, <2>2, <2>3
  <1>13. CASE Abandon(c)
    BY <1>1, <1>13 DEF Abandon
  <1>14. CASE ResetRunning(c) \/ ResetOwner(c) \/ ResetStamp(c) \/ Release(c)
    BY <1>1, <1>14 DEF ResetRunning, ResetOwner, ResetStamp, Release
  <1>15. ~ Accept(c) /\ ~ Receive(c)
    BY DEF Accept, Receive
  <1> QED
    BY <1>5, <1>6, <1>7, <1>8, <1>9, <1>10, <1>11, <1>12, <1>13, <1>14, <1>15,
       Zenon DEF HandlerNext, HandlerStep

(* No step of another thread gives the handler of c more to do before it   *)
(* waits in recv again or ends, and each step of its own leaves it less:   *)
(* however the handlers of the others raise isRunning, store clientID and  *)
(* reset both, a request leaves service after boundedly many steps.        *)
THEOREM ServiceRunsOutCorrect == Spec => ServiceRunsOut
  <1>1. ASSUME Inv, LoopInv, WorkNat, WorkNat', [Next]_vars, NEW c \in Clients,
               pc[c] \notin {"accept", "recv", "exit"}
        PROVE  /\ ServiceWork(c)' \in 0 .. ServiceWork(c)
               /\ HandlerNext(c) => ServiceWork(c)' # ServiceWork(c)
    <2>1. ServiceWork(c) \in Nat /\ ServiceWork(c)' \in Nat
      BY <1>1 DEF WorkNat
    <2>2. HandlerNext(c) => ServiceWork(c)' < ServiceWork(c)
      BY <1>1, OwnServiceWork
    <2>3. ASSUME UNCHANGED <<pc, req, z, i, isRunning, clientID>>
          PROVE  ServiceWork(c)' <= ServiceWork(c)
      <3>1. Chances(c)' = Chances(c)
        BY <2>3 DEF Chances, Raisers, At
      <3>2. Chances(c) \in Nat
        BY ChancesBound
      <3> QED
        BY <1>1, <2>3, <3>1, <3>2, OtherServiceWork
    <2>4. ASSUME NEW d \in Clients, ClientNext(d)
          PROVE  ServiceWork(c)' <= ServiceWork(c)
      BY <2>3, <2>4 DEF ClientNext, serverVars, shared, locals
    <2>5. ASSUME UNCHANGED vars
          PROVE  ServiceWork(c)' <= ServiceWork(c)
      BY <2>3, <2>5 DEF vars, serverVars, shared, locals
    <2>6. ASSUME NEW d \in Clients, HandlerNext(d), d # c
          PROVE  ServiceWork(c)' <= ServiceWork(c)
      <3>1. UNCHANGED <<pc[c], req[c], z[c], i[c]>>
        BY <1>1, <2>6, HandlerFrame DEF Inv, Local
      <3>2. NoClient # c
        BY NoClientAssumption
      <3>3. clientID' = c => clientID = c
        BY <2>6, <3>2
        DEF HandlerNext, HandlerStep, Accept, Receive, Refuse, Admit, Claim,
            Own, Late, OutOfRange, Begin, NextPacket, EndBatch, AddWord,
            EndPacket, Emit, Abandon, ResetRunning, ResetOwner, ResetStamp,
            Release, shared
      <3>4. clientID' = c =>
              /\ Chances(c)' <= Chances(c)
              /\ ~isRunning' /\ isRunning => Chances(c)' < Chances(c)
        BY <1>1, <2>6, <3>3, OtherChances
      <3> QED
        BY <1>1, <3>1, <3>3, <3>4, OtherServiceWork
    <2>7. ServiceWork(c)' <= ServiceWork(c)
      BY <1>1, <2>1, <2>2, <2>4, <2>5, <2>6 DEF Next
    <2> QED
      BY <2>1, <2>2, <2>7
  <1>2. Inv /\ LoopInv /\ WorkNat /\ WorkNat' /\ [Next]_vars =>
          [\A c \in Clients : pc[c] \notin {"accept", "recv", "exit"} =>
              /\ ServiceWork(c)' \in 0 .. ServiceWork(c)
              /\ HandlerNext(c) => ServiceWork(c)' # ServiceWork(c)]_vars
    BY <1>1
  <1>3. Spec => []Inv
    BY ConnectionCorrect, PTL DEF Inv
  <1>4. Spec => []LoopInv
    BY <1>3, InitLoop, NextLoop, PTL DEF Spec
  <1>5. Spec => []WorkNat
    BY <1>3, <1>4, WorkType, PTL
  <1> QED
    BY <1>2, <1>3, <1>4, <1>5, PTL DEF Spec, ServiceRunsOut
=============================================================================
