----------------------- MODULE GrumpyRefinement_proofs -----------------------
(***************************************************************************)
(* Part 3 implements WordCount, and what that means for the tables.        *)
(***************************************************************************)
EXTENDS Grumpy_proofs

-----------------------------------------------------------------------------
(* The windows a client counts.                                            *)

LEMMA TokensAreNumbers == \A s \in Seq(Token) : s \in Seq(Int)
  <1>1. Token \subseteq Int
    BY ConfigAssumption DEF Words, Token, HUH, END, DOLLAR
  <1> QED
    BY <1>1, SeqMonotonic

(* k words that continue one another, the last of which may be a HUH!, are *)
(* a window of the abstract reader.                                        *)
LEMMA BatchWindow ==
    ASSUME NEW got \in Seq(Token), NEW o \in Nat, Len(got) = k,
           \A j \in 1 .. k : /\ got[j] \in Words => got[j] = o + j - 1
                             /\ got[j] \notin Words => got[j] = HUH /\ j = k
    PROVE  got = Run(o, o + k) \/ got = Append(Run(o, o + k - 1), HUH)
  <1>1. k \in Nat \ {0}
    BY ConfigAssumption
  <1>2. got \in Seq(Int)
    BY TokensAreNumbers, Zenon
  <1>3. /\ o + k \in Nat /\ o + k - 1 \in Nat
        /\ \A j \in 1 .. k - 1 : j \in 1 .. k /\ j # k
        /\ \A j \in 1 .. k : j # k => j \in 1 .. k - 1
        /\ k \in 1 .. k /\ k - 1 + 1 = k
    BY <1>1
  <1>4. CASE got[k] \in Words
    <2> DEFINE r == Run(o, o + k)
    <2>1. r \in Seq(Int)
      BY <1>3, RunOfNumbers, Zenon
    <2>2. Len(r) = k /\ \A j \in 1 .. k : r[j] = o + j - 1
      BY <1>1, <1>3 DEF Run
    <2> HIDE DEF r
    <2>3. \A j \in 1 .. k : got[j] = o + j - 1
      BY <1>4
    <2>4. \A j \in 1 .. Len(got) : got[j] = r[j]
      BY <2>2, <2>3
    <2>5. got = r
      BY <1>2, <2>1, <2>2, <2>4, SeqEqual
    <2> QED
      BY <2>5 DEF r
  <1>5. CASE got[k] \notin Words
    <2> DEFINE r == Run(o, o + k - 1)
    <2>1. r \in Seq(Int)
      BY <1>3, RunOfNumbers, Zenon
    <2>2. Len(r) = k - 1 /\ \A j \in 1 .. k - 1 : r[j] = o + j - 1
      BY <1>1, <1>3 DEF Run
    <2> HIDE DEF r
    <2>3. /\ Append(r, HUH) \in Seq(Int)
          /\ Len(Append(r, HUH)) = k
          /\ \A j \in 1 .. k - 1 : Append(r, HUH)[j] = r[j]
          /\ Append(r, HUH)[k] = HUH
      <3>1. HUH \in Int
        BY DEF HUH
      <3>2. /\ Append(r, HUH) \in Seq(Int)
            /\ Len(Append(r, HUH)) = Len(r) + 1
            /\ \A j \in 1 .. Len(r) : Append(r, HUH)[j] = r[j]
            /\ Append(r, HUH)[Len(r) + 1] = HUH
        BY <2>1, <3>1, AppendProperties
      <3> QED
        BY <1>3, <2>2, <3>2
    <2>4. got[k] = HUH
      BY <1>3, <1>5
    <2>5. \A j \in 1 .. k - 1 : got[j] = o + j - 1
      BY <1>3
    <2>6. ASSUME NEW j \in 1 .. Len(got)
          PROVE  got[j] = Append(r, HUH)[j]
      <3>1. CASE j = k
        BY <2>3, <2>4, <3>1
      <3>2. CASE j # k
        <4>1. j \in 1 .. k - 1
          BY <1>3, <3>2
        <4> QED
          BY <2>2, <2>3, <2>5, <4>1
      <3> QED
        BY <3>1, <3>2
    <2>7. got = Append(r, HUH)
      BY <1>2, <2>3, <2>6, SeqEqual
    <2> QED
      BY <2>7 DEF r
  <1> QED
    BY <1>4, <1>5

(* A sequence that continues from o to the end of the file is the last     *)
(* window.                                                                 *)
LEMMA LastWindow ==
    ASSUME NEW got \in Seq(Token), NEW o \in Nat,
           \/ o <= NumWords /\ Len(got) = NumWords - o
           \/ o >= NumWords /\ Len(got) = 0,
           \A j \in 1 .. Len(got) : got[j] = o + j - 1
    PROVE  got = Run(o, NumWords)
  <1> DEFINE r == Run(o, NumWords)
  <1>1. NumWords \in Nat
    BY ConfigAssumption
  <1>2. got \in Seq(Int)
    BY TokensAreNumbers, Zenon
  <1>3. r \in Seq(Int)
    BY <1>1, RunOfNumbers, Zenon
  <1>4. /\ Len(r) = IF o < NumWords THEN NumWords - o ELSE 0
        /\ \A j \in 1 .. Len(r) : r[j] = o + j - 1
    BY <1>1 DEF Run
  <1> HIDE DEF r
  <1>5. Len(got) = Len(r)
    BY <1>1, <1>4
  <1>6. \A j \in 1 .. Len(got) : got[j] = r[j]
    BY <1>4, <1>5
  <1>7. got = r
    BY <1>2, <1>3, <1>5, <1>6, SeqEqual
  <1> QED
    BY <1>7 DEF r

-----------------------------------------------------------------------------
(* What the steps of a client do to the tables.                            *)

DoneMap == [d \in Clients |-> Done(d)]

Window(o) == {Run(o, o + k), Append(Run(o, o + k - 1), HUH)}

BatchCounted(c) ==
    /\ ~ Done(c)
    /\ offset[c] + k <= NumWords
    /\ offset' = [offset EXCEPT ![c] = @ + k]
    /\ \E window \in Window(offset[c]) :
          wordcount' = [wordcount EXCEPT ![c] = CountAll(@, window)]
    /\ DoneMap' = DoneMap

LastCounted(c) ==
    /\ ~ Done(c)
    /\ offset[c] + k >= NumWords
    /\ DoneMap' = [DoneMap EXCEPT ![c] = TRUE]
    /\ wordcount' = [wordcount EXCEPT
          ![c] = CountAll(@, Run(offset[c], NumWords))]
    /\ offset' = offset

NothingCounted ==
    offset' = offset /\ wordcount' = wordcount /\ DoneMap' = DoneMap

LEMMA CollectCounts ==
    ASSUME Inv, NEW c \in Clients, Collect(c)
    PROVE  BatchCounted(c) \/ NothingCounted
  <1>1. TypeOK /\ ConnectionOK(c)
    BY DEF Inv, ConnectionInv
  <1>2. PICK line \in Prefixes(toClient[c]) :
            /\ Takes(c, line) /\ ~ IsRefusal(line) /\ ~ IsFinal(line)
            /\ Absorb(c, Got(c, line))
    BY DEF Collect, Got
  <1> DEFINE got == Got(c, line)
             o == offset[c]
  <1>3. got \in Seq(Token)
    BY <1>1, <1>2, TakeAttempt, Zenon
  <1>4. \A j \in 1 .. Len(got) :
            /\ got[j] \in Words \cup {HUH}
            /\ got[j] \in Words => got[j] = o + j - 1
            /\ got[j] = HUH => j = Len(got)
            /\ o + j - 1 < BatchEnd(o)
    BY <1>2, CollectedWords
  <1> HIDE DEF got
  <1>5. phase[c] = "recv" /\ o \in Nat /\ k \in Nat \ {0} /\ NumWords \in Nat
    BY <1>1, <1>2, ConfigAssumption DEF Takes, TypeOK, ClientTypeOK
  <1>6. CASE Len(got) = k
    <2>1. /\ phase' = [phase EXCEPT ![c] = "wait"]
          /\ offset' = [offset EXCEPT ![c] = @ + k]
          /\ wordcount' = [wordcount EXCEPT ![c] = CountAll(@, got)]
      BY <1>2, <1>6 DEF Absorb, got
    <2>2. o + k <= NumWords
      <3>1. o + k - 1 < BatchEnd(o)
        BY <1>4, <1>5, <1>6
      <3>2. BatchEnd(o) \in Nat /\ BatchEnd(o) <= NumWords
        BY <1>5, BatchEndProperties
      <3> QED
        BY <1>5, <3>1, <3>2
    <2>3. got \in Window(o)
      <3>1. \A j \in 1 .. k : /\ got[j] \in Words => got[j] = o + j - 1
                              /\ got[j] \notin Words => got[j] = HUH /\ j = k
        BY <1>4, <1>6
      <3> QED
        BY <1>3, <1>5, <1>6, <3>1, BatchWindow, Zenon DEF Window
    <2>4. DoneMap' = DoneMap
      BY <1>1, <1>5, <2>1 DEF DoneMap, Done, TypeOK, ClientTypeOK
    <2>5. ~ Done(c)
      BY <1>5 DEF Done
    <2> QED
      BY <2>1, <2>2, <2>3, <2>4, <2>5 DEF BatchCounted
  <1>7. CASE Len(got) # k
    BY <1>2, <1>7 DEF Absorb, NothingCounted, DoneMap, Done, got
  <1> QED
    BY <1>6, <1>7

LEMMA FinishCounts ==
    ASSUME Inv, NEW c \in Clients, Finish(c)
    PROVE  LastCounted(c)
  <1>1. TypeOK /\ ConnectionOK(c)
    BY DEF Inv, ConnectionInv
  <1>2. PICK line \in Prefixes(toClient[c]) :
            /\ Takes(c, line) /\ IsFinal(line)
            /\ phase' = [phase EXCEPT ![c] = "done"]
            /\ wordcount' = [wordcount EXCEPT
                  ![c] = CountAll(@, words[c] \o First(line, Len(line) - 1))]
            /\ offset' = offset
    BY DEF Finish
  <1> DEFINE o == offset[c]
             w == Len(words[c])
             l == Len(line)
             n == Len(Attempt(c))
             f == First(line, l - 1)
             got == words[c] \o f
  <1>3. Last(line) \in Control /\ Last(line) \in {END, DOLLAR}
    <2>1. CASE Last(line) = END
      BY <2>1 DEF Control
    <2>2. CASE line = <<DOLLAR>>
      BY <2>2 DEF Last, Control
    <2> QED
      BY <1>2, <2>1, <2>2 DEF IsFinal
  <1>4. w + l = n /\ n \in Nat \ {0} /\ Fits(c, n, Last(line))
    BY <1>2, <1>3, ControlLine
  <1>5. /\ line \in Seq(Token) /\ l \in Nat \ {0}
        /\ \A j \in 1 .. l : line[j] = Attempt(c)[w + j]
    BY <1>1, <1>2, TakeAttempt, Zenon
  <1>6. /\ words[c] \in Seq(Token) /\ toClient[c] \in Seq(Token) /\ w \in Nat
        /\ \A j \in 1 .. w : words[c][j] = Attempt(c)[j]
    <2>1. words[c] \in Seq(Token) /\ toClient[c] \in Seq(Token)
      BY <1>1 DEF TypeOK, ClientTypeOK, WireTypeOK
    <2>2. \A s, t \in Seq(Token) : \A j \in 1 .. Len(s) : (s \o t)[j] = s[j]
      BY ConcatParts
    <2>3. \A j \in 1 .. w : words[c][j] = Attempt(c)[j]
      BY <2>1, <2>2, Zenon DEF Attempt
    <2> QED
      BY <2>1, <2>3, LenProperties
  <1>7. /\ f \in Seq(Token) /\ Len(f) = l - 1
        /\ \A j \in 1 .. l - 1 : f[j] = line[j]
    <2>1. l - 1 \in Int /\ 1 \in Int /\ \A j \in 1 .. l - 1 : j \in 1 .. l
      BY <1>5
    <2>2. \A j \in 1 .. l - 1 : line[j] \in Token
      BY <1>5, <2>1, ElementOfSeq
    <2>3. /\ SubSeq(line, 1, l - 1) \in Seq(Token)
          /\ Len(SubSeq(line, 1, l - 1)) = IF 1 <= l - 1 THEN l - 1 - 1 + 1 ELSE 0
          /\ \A j \in 1 .. l - 1 - 1 + 1 :
                SubSeq(line, 1, l - 1)[j] = line[1 + j - 1]
      BY <2>1, <2>2, SubSeqProperties
    <2>4. f = SubSeq(line, 1, l - 1)
      BY DEF First
    <2> HIDE DEF f, l
    <2>5. IF 1 <= l - 1 THEN l - 1 - 1 + 1 = l - 1 ELSE l - 1 = 0
      BY <1>5
    <2>6. /\ l - 1 - 1 + 1 = l - 1
          /\ \A j \in 1 .. l - 1 : 1 + j - 1 = j
      BY <1>5
    <2> QED
      BY <2>3, <2>4, <2>5, <2>6
  <1> HIDE DEF f
  <1>8. /\ got \in Seq(Token) /\ Len(got) = w + Len(f)
        /\ \A j \in 1 .. w : got[j] = words[c][j]
        /\ \A j \in 1 .. Len(f) : got[w + j] = f[j]
    <2>1. \A s, t \in Seq(Token) :
             /\ s \o t \in Seq(Token)
             /\ Len(s \o t) = Len(s) + Len(t)
             /\ \A j \in 1 .. Len(s) : (s \o t)[j] = s[j]
             /\ \A j \in 1 .. Len(t) : (s \o t)[Len(s) + j] = t[j]
      BY ConcatParts
    <2> QED
      BY <1>6, <1>7, <2>1, Zenon
  <1> HIDE DEF got
  <1>9. ASSUME NEW j \in 1 .. n - 1
        PROVE  got[j] = Attempt(c)[j]
    <2>1. CASE j <= w
      <3>1. j \in 1 .. w
        BY <1>4, <1>6, <2>1
      <3> QED
        BY <1>6, <1>8, <3>1, Zenon
    <2>2. CASE ~ (j <= w)
      <3> DEFINE h == j - w
      <3>1. h \in 1 .. l - 1 /\ h \in 1 .. l /\ w + h = j
        BY <1>4, <1>5, <1>6, <2>2
      <3> HIDE DEF h
      <3>2. got[w + h] = f[h] /\ f[h] = line[h] /\ line[h] = Attempt(c)[w + h]
        BY <1>5, <1>7, <1>8, <3>1, Zenon
      <3> QED
        BY <3>1, <3>2
    <2> QED
      BY <2>1, <2>2
  <1>10. o \in Nat /\ k \in Nat \ {0} /\ NumWords \in Nat /\ phase[c] = "recv"
    BY <1>1, <1>2, ConfigAssumption DEF Takes, TypeOK, ClientTypeOK
  <1>11. Len(got) = n - 1
    BY <1>4, <1>5, <1>6, <1>7, <1>8
  <1> HIDE DEF w, l
  <1>12. ASSUME NEW j \in 1 .. n - 1
         PROVE  /\ got[j] = o + j - 1
                /\ o + j - 1 < BatchEnd(o)
    <2>1. j \in 1 .. n /\ j # n
      BY <1>4
    <2>2. Fits(c, j, Attempt(c)[j])
      BY <1>1, <2>1, Zenon DEF ConnectionOK, AttemptInv
    <2>3. Attempt(c)[j] \in Token
      <3>1. Attempt(c) \in Seq(Token)
        BY <1>1, AttemptType
      <3> QED
        BY <2>1, <3>1, ElementOfSeq, Zenon
    <2>4. Attempt(c)[j] \notin Control
      BY <2>1, <2>2 DEF Fits
    <2>5. Attempt(c)[j] \in Words
      BY <2>3, <2>4 DEF Token, Control
    <2> QED
      BY <1>9, <2>2, <2>5 DEF Fits
  <1>13. /\ \/ o <= NumWords /\ Len(got) = NumWords - o
            \/ o >= NumWords /\ Len(got) = 0
         /\ o + k >= NumWords
    <2>1. CASE Last(line) = END
      <3>1. o + n - 1 = NumWords
        BY <1>4, <2>1 DEF Fits
      <3>2. o <= NumWords /\ n - 1 = NumWords - o
        <4> HIDE DEF n, o
        <4> QED
          BY <1>4, <1>10, <3>1
      <3>3. CASE n = 1
        BY <1>10, <1>11, <3>2, <3>3
      <3>4. CASE n # 1
        <4>1. n - 1 \in 1 .. n - 1
          BY <1>4, <3>4
        <4>2. o + (n - 1) - 1 < BatchEnd(o)
          BY <1>12, <4>1
        <4>3. BatchEnd(o) \in Nat /\ BatchEnd(o) <= o + k
          BY <1>10, BatchEndProperties
        <4> HIDE DEF n, o
        <4>4. o + k >= NumWords
          BY <1>4, <1>10, <3>1, <4>2, <4>3
        <4> QED
          BY <1>11, <3>2, <4>4
      <3> QED
        BY <3>3, <3>4
    <2>2. CASE Last(line) = DOLLAR
      <3>1. n = 1 /\ o >= NumWords
        BY <1>4, <2>2 DEF Fits
      <3> QED
        BY <1>10, <1>11, <3>1
    <2> QED
      BY <1>3, <2>1, <2>2
  <1>14. got = Run(o, NumWords)
    <2>1. \A j \in 1 .. Len(got) : got[j] = o + j - 1
      BY <1>11, <1>12
    <2> QED
      BY <1>8, <1>10, <1>13, <2>1, LastWindow
  <1>15. DoneMap' = [DoneMap EXCEPT ![c] = TRUE]
    BY <1>1, <1>2 DEF DoneMap, Done, TypeOK, ClientTypeOK
  <1>16. ~ Done(c)
    BY <1>10 DEF Done
  <1>17. wordcount' = [wordcount EXCEPT ![c] = CountAll(@, got)]
    BY <1>2 DEF got, f, l
  <1> QED
    BY <1>2, <1>13, <1>14, <1>15, <1>16, <1>17 DEF LastCounted

(* Every step counts a window of one client, or nothing.                   *)
LEMMA StepCounts ==
    ASSUME Inv, [Next]_vars
    PROVE  \/ \E c \in Clients : BatchCounted(c) \/ LastCounted(c)
           \/ NothingCounted
  <1>1. phase \in [Clients -> Phase]
    BY DEF Inv, TypeOK, ClientTypeOK
  <1>2. CASE UNCHANGED clientVars
    BY <1>2 DEF clientVars, NothingCounted, DoneMap, Done
  <1>3. ASSUME NEW c \in Clients, Request(c) \/ Refused(c)
        PROVE  NothingCounted
    <2>1. /\ phase[c] # "done" /\ offset' = offset /\ wordcount' = wordcount
          /\ \/ phase' = [phase EXCEPT ![c] = "recv"]
             \/ phase' = [phase EXCEPT ![c] = "wait"]
      BY <1>3 DEF Request, Refused, Takes
    <2> QED
      BY <1>1, <2>1 DEF NothingCounted, DoneMap, Done
  <1>4. CASE UNCHANGED vars
    BY <1>2, <1>4 DEF vars, clientVars
  <1>5. CASE Next
    BY <1>2, <1>3, <1>5, CollectCounts, FinishCounts
    DEF Next, HandlerNext, ClientNext, ClientStep
  <1> QED
    BY <1>4, <1>5

-----------------------------------------------------------------------------
(* The refinement.                                                         *)

(* The operators of WordFile mean the same in the instance.                *)
LEMMA SameOperators ==
    /\ \A a, b : Abs!Run(a, b) = Run(a, b)
    /\ \A table, s : Abs!CountAll(table, s) = CountAll(table, s)
    /\ Abs!EmptyTable = EmptyTable
    /\ Abs!HUH = HUH
  <1>1. Abs!HUH = HUH /\ Abs!Words = Words
    BY DEF Abs!HUH, HUH, Abs!Words, Words
  <1>2. Abs!Entry = Entry
    BY <1>1 DEF Abs!Entry, Entry
  <1>3. \A a, b : Abs!Run(a, b) = Run(a, b)
    BY DEF Abs!Run, Run
  <1>4. \A table, s : Abs!CountAll(table, s) = CountAll(table, s)
    BY <1>2
    DEF Abs!CountAll, CountAll, Abs!Occurrences, Occurrences,
        Abs!Cardinality, Cardinality
  <1>5. Abs!EmptyTable = EmptyTable
    BY <1>2 DEF Abs!EmptyTable, EmptyTable
  <1> QED
    BY <1>1, <1>3, <1>4, <1>5

LEMMA InitRefines == Init => Abs!Init
  <1> SUFFICES ASSUME Init
               PROVE  Abs!Init
    OBVIOUS
  <1>1. /\ offset = [c \in Clients |-> 0]
        /\ wordcount = [c \in Clients |-> EmptyTable]
        /\ phase = [c \in Clients |-> "wait"]
    BY DEF Init, ClientInit
  <1>2. [c \in Clients |-> Done(c)] = [c \in Clients |-> FALSE]
    BY <1>1 DEF Done
  <1> QED
    BY <1>1, <1>2, SameOperators DEF Abs!Init

LEMMA StepRefines ==
    ASSUME Inv, [Next]_vars
    PROVE  [Abs!Next]_(Abs!absVars)
  <1>1. ASSUME NothingCounted
        PROVE  UNCHANGED Abs!absVars
    BY <1>1 DEF NothingCounted, DoneMap, Abs!absVars
  <1>2. ASSUME NEW c \in Clients, BatchCounted(c)
        PROVE  Abs!CountBatch(c)
    <2>1. DoneMap[c] = FALSE /\ DoneMap = [d \in Clients |-> Done(d)]
      BY <1>2 DEF BatchCounted, DoneMap, Done
    <2>2. Abs!Windows(offset[c]) = Window(offset[c])
      BY SameOperators DEF Abs!Windows, Window
    <2> QED
      BY <1>2, <2>1, <2>2, SameOperators DEF BatchCounted, Abs!CountBatch, DoneMap
  <1>3. ASSUME NEW c \in Clients, LastCounted(c)
        PROVE  Abs!CountLast(c)
    <2>1. DoneMap[c] = FALSE /\ DoneMap = [d \in Clients |-> Done(d)]
      BY <1>3 DEF LastCounted, DoneMap, Done
    <2> QED
      BY <1>3, <2>1, SameOperators DEF LastCounted, Abs!CountLast, DoneMap
  <1> QED
    BY <1>1, <1>2, <1>3, StepCounts DEF Abs!Next

(* Server, connections and clients together count the file window by       *)
(* window, as WordCount describes: refusals, retries, contending handlers  *)
(* and the cuts of recv add nothing but a HUH! for a lost word.            *)
THEOREM Refinement == Spec => AbsSpec
  <1>1. Inv /\ [Next]_vars => [Abs!Next]_(Abs!absVars)
    BY StepRefines
  <1>2. Spec => []Inv
    BY ConnectionCorrect, PTL DEF Inv
  <1> QED
    BY <1>1, <1>2, InitRefines, PTL DEF Spec, AbsSpec, Abs!Spec

-----------------------------------------------------------------------------
(* What the tables can contain.                                            *)

Taken(c) == IF DoneMap[c] THEN NumWords ELSE offset[c]

TableInv ==
    \A c \in Clients :
        /\ ~ Done(c) => offset[c] <= NumWords
        /\ Accounts(wordcount[c], Taken(c))

LEMMA InitTable == Init => TableInv
  <1> SUFFICES ASSUME Init, NEW c \in Clients
               PROVE  /\ offset[c] <= NumWords
                      /\ Accounts(wordcount[c], Taken(c))
    BY DEF TableInv
  <1>1. /\ offset[c] = 0 /\ wordcount[c] = EmptyTable /\ ~ Done(c)
        /\ NumWords \in Nat
    BY ConfigAssumption DEF Init, ClientInit, Done
  <1>2. Taken(c) = 0
    BY <1>1 DEF Taken, DoneMap
  <1> QED
    BY <1>1, <1>2, AccountsNone

LEMMA StepTable ==
    ASSUME Inv, TableInv, [Next]_vars
    PROVE  TableInv'
  <1>1. /\ offset \in [Clients -> Nat] /\ wordcount \in [Clients -> [Entry -> Nat]]
        /\ NumWords \in Nat /\ k \in Nat \ {0}
    BY ConfigAssumption DEF Inv, TypeOK, ClientTypeOK
  <1>2. \A d \in Clients : DoneMap[d] = Done(d) /\ (DoneMap[d])' = Done(d)'
    BY DEF DoneMap
  <1>3. CASE NothingCounted
    BY <1>2, <1>3 DEF NothingCounted, TableInv, Taken
  <1>4. ASSUME NEW c \in Clients, BatchCounted(c)
        PROVE  TableInv'
    <2>1. /\ ~ Done(c) /\ offset[c] + k <= NumWords /\ DoneMap' = DoneMap
          /\ offset' = [offset EXCEPT ![c] = @ + k]
      BY <1>4 DEF BatchCounted
    <2>2. PICK window \in Window(offset[c]) :
              wordcount' = [wordcount EXCEPT ![c] = CountAll(@, window)]
      BY <1>4 DEF BatchCounted
    <2>3. ASSUME NEW d \in Clients, d # c
          PROVE  /\ ~ Done(d)' => offset'[d] <= NumWords
                 /\ Accounts(wordcount'[d], Taken(d)')
      <3>1. /\ offset'[d] = offset[d] /\ wordcount'[d] = wordcount[d]
            /\ Done(d)' = Done(d) /\ Taken(d)' = Taken(d)
        BY <1>1, <1>2, <2>1, <2>2, <2>3 DEF Taken
      <3> QED
        BY <3>1 DEF TableInv
    <2>4. offset'[c] = offset[c] + k /\ offset'[c] <= NumWords
      BY <1>1, <2>1
    <2>5. Taken(c)' = offset[c] + k /\ Taken(c) = offset[c]
      BY <1>2, <2>1, <2>4 DEF Taken
    <2>6. Accounts(wordcount[c], offset[c])
      BY <2>5 DEF TableInv
    <2>7. wordcount'[c] = CountAll(wordcount[c], window)
      BY <1>1, <2>2
    <2>8. Accounts(wordcount'[c], offset[c] + k)
      <3> DEFINE o == offset[c]
      <3>1. o \in Nat /\ wordcount[c] \in [Entry -> Nat] /\ o + k <= NumWords
        BY <1>1, <2>1
      <3>2. CASE window = Run(o, o + k)
        <4>1. o + k \in Nat /\ o <= o + k
          BY <1>1, <3>1
        <4> QED
          BY <2>6, <2>7, <3>1, <3>2, <4>1, AccountsRun
      <3>3. CASE window = Append(Run(o, o + k - 1), HUH)
        <4> DEFINE b == o + k - 1
        <4>1. b \in Nat /\ o <= b /\ b < NumWords /\ b + 1 = o + k
          BY <1>1, <3>1
        <4>2. window = Append(Run(o, b), HUH)
          BY <3>3
        <4> HIDE DEF b
        <4>3. Accounts(CountAll(wordcount[c], window), b + 1)
          BY <2>6, <3>1, <4>1, <4>2, AccountsLoss
        <4> QED
          BY <2>7, <4>1, <4>3
      <3> QED
        BY <2>2, <3>2, <3>3 DEF Window
    <2> QED
      BY <2>3, <2>4, <2>5, <2>8 DEF TableInv
  <1>5. ASSUME NEW c \in Clients, LastCounted(c)
        PROVE  TableInv'
    <2>1. /\ ~ Done(c) /\ offset' = offset
          /\ DoneMap' = [DoneMap EXCEPT ![c] = TRUE]
          /\ wordcount' = [wordcount EXCEPT
                ![c] = CountAll(@, Run(offset[c], NumWords))]
      BY <1>5 DEF LastCounted
    <2>2. ASSUME NEW d \in Clients, d # c
          PROVE  /\ ~ Done(d)' => offset'[d] <= NumWords
                 /\ Accounts(wordcount'[d], Taken(d)')
      <3>1. /\ offset'[d] = offset[d] /\ wordcount'[d] = wordcount[d]
            /\ DoneMap'[d] = DoneMap[d]
        BY <1>1, <2>1, <2>2 DEF DoneMap
      <3>2. Done(d)' = Done(d) /\ Taken(d)' = Taken(d)
        BY <1>2, <3>1 DEF Taken
      <3> QED
        BY <3>1, <3>2 DEF TableInv
    <2>3. DoneMap'[c] = TRUE
      BY <2>1 DEF DoneMap
    <2>4. Done(c)' /\ Taken(c)' = NumWords
      BY <1>2, <2>3 DEF Taken
    <2>5. Accounts(wordcount[c], offset[c]) /\ offset[c] <= NumWords
      BY <1>2, <2>1 DEF TableInv, Taken
    <2>6. wordcount'[c] = CountAll(wordcount[c], Run(offset[c], NumWords))
      BY <1>1, <2>1
    <2>7. Accounts(wordcount'[c], NumWords)
      BY <1>1, <2>5, <2>6, AccountsRun
    <2> QED
      BY <2>2, <2>4, <2>7 DEF TableInv
  <1> QED
    BY <1>3, <1>4, <1>5, StepCounts

(* At any time a client's table accounts for the words taken so far.       *)
THEOREM TableCorrect == Spec => []TableInv
  <1>1. Inv /\ TableInv /\ [Next]_vars => TableInv'
    BY StepTable
  <1>2. Spec => []Inv
    BY ConnectionCorrect, PTL DEF Inv
  <1> QED
    BY <1>1, <1>2, InitTable, PTL DEF Spec

(* No client ever counts a word of the file twice.                         *)
THEOREM WordCountedOnceCorrect == Spec => []WordCountedOnce
  <1>1. TableInv => WordCountedOnce
    BY DEF TableInv, Accounts, WordCountedOnce
  <1> QED
    BY <1>1, TableCorrect, PTL

(* A finished table lacks as many words as it lists HUH!s.                 *)
THEOREM LossReportedCorrect == Spec => []LossReported
  <1>1. TableInv => LossReported
    <2> SUFFICES ASSUME TableInv, NEW c \in Clients, Done(c)
                 PROVE  Cardinality({w \in Words : wordcount[c][w] = 0})
                          = wordcount[c][HUH]
      BY DEF LossReported
    <2>1. Accounts(wordcount[c], NumWords)
      BY DEF TableInv, Taken, DoneMap
    <2>2. {w \in Words : wordcount[c][w] = 0}
            = Uncounted(wordcount[c], NumWords)
      BY ConfigAssumption DEF Uncounted, Words
    <2> QED
      BY <2>1, <2>2 DEF Accounts
  <1> QED
    BY <1>1, TableCorrect, PTL
=============================================================================
