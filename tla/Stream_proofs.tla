---------------------------- MODULE Stream_proofs ----------------------------
(***************************************************************************)
(* Lemmas about the streams of parts 1, 2 and 4: what a recv that cuts     *)
(* texts in two returns and leaves, and how a client, its connection, its  *)
(* handler keep from counting a word twice; and, where every recv ends     *)
(* where a send ended, how they take the windows of the file in step, and  *)
(* that what is in flight can be read.                                     *)
(***************************************************************************)
EXTENDS Stream, WordFile_proofs

-----------------------------------------------------------------------------
(* Sequences.                                                              *)

LEMMA AppendParts ==
    ASSUME NEW S, NEW s \in Seq(S), NEW x \in S
    PROVE  /\ Append(s, x) \in Seq(S)
           /\ Len(Append(s, x)) = Len(s) + 1
           /\ \A j \in 1 .. Len(s) : Append(s, x)[j] = s[j]
           /\ Append(s, x)[Len(s) + 1] = x
  BY AppendProperties

LEMMA TailParts ==
    ASSUME NEW S, NEW s \in Seq(S), s # <<>>
    PROVE  /\ Head(s) \in S /\ Head(s) = s[1]
           /\ Tail(s) \in Seq(S)
           /\ Len(s) \in Nat /\ Len(s) >= 1 /\ Len(Tail(s)) = Len(s) - 1
           /\ \A j \in 1 .. Len(s) - 1 : Tail(s)[j] = s[j + 1]
  BY HeadTailProperties, LenProperties, EmptySeq

LEMMA PrefixType ==
    ASSUME NEW S, NEW s \in Seq(S), NEW m \in 0 .. Len(s)
    PROVE  /\ First(s, m) \in Seq(S)
           /\ Len(First(s, m)) = m
           /\ \A j \in 1 .. m : First(s, m)[j] = s[j]
  <1>1. Len(s) \in Nat
    BY LenProperties
  <1>2. \A j \in 1 .. m : s[j] \in S
    BY <1>1, ElementOfSeq
  <1>3. 1 \in Int /\ m \in Int
    BY <1>1
  <1>4. /\ SubSeq(s, 1, m) \in Seq(S)
        /\ Len(SubSeq(s, 1, m)) = IF 1 <= m THEN m - 1 + 1 ELSE 0
        /\ \A j \in 1 .. m - 1 + 1 : SubSeq(s, 1, m)[j] = s[1 + j - 1]
    BY <1>2, <1>3, SubSeqProperties
  <1> QED
    BY <1>1, <1>4 DEF First

(* The texts of a packet are as many as some number, and the commas among  *)
(* them no more.                                                           *)
LEMMA TextLenType ==
    ASSUME NEW S, NEW s \in Seq(S)
    PROVE  /\ TextLen(s) \in Nat
           /\ Occurrences(s, COMMA) <= TextLen(s)
  <1> DEFINE texts == {m \in DOMAIN s : s[m] # NL}
             commas == {m \in DOMAIN s : s[m] = COMMA}
  <1>1. DOMAIN s = 1 .. Len(s) /\ Len(s) \in Nat
    BY LenProperties
  <1>2. IsFiniteSet(DOMAIN s)
    BY <1>1, FS_Interval
  <1>3. texts \in SUBSET (DOMAIN s)
    OBVIOUS
  <1>4. IsFiniteSet(texts)
    BY <1>2, <1>3, FS_Subset
  <1>5. commas \in SUBSET texts
    BY DEF COMMA, NL
  <1>6. Cardinality(texts) \in Nat
    BY <1>4, FS_CardinalityType
  <1>7. Cardinality(commas) <= Cardinality(texts)
    BY <1>4, <1>5, FS_Subset
  <1> QED
    BY <1>6, <1>7 DEF TextLen, Occurrences

-----------------------------------------------------------------------------
(* What a recv returns and leaves.                                         *)

(* The words it returns are those that stood at the same places before,    *)
(* the words it leaves stood behind them.                                  *)
Divides(s, r) == \E d \in Nat :
    /\ \A j \in DOMAIN r.packet :
          r.packet[j] \in Words => j \in DOMAIN s /\ s[j] = r.packet[j]
    /\ \A j \in DOMAIN r.rest : r.rest[j] \in Words =>
          /\ j + d \in DOMAIN s /\ s[j + d] = r.rest[j]
          /\ \A i \in DOMAIN r.packet : i < j + d

StreamRead(s, r) ==
    /\ r.packet \in Seq(Text \cup {NL})
    /\ r.rest \in Seq(Text \cup {NL})
    /\ Divides(s, r)

(* A recv that cuts nothing in two.                                        *)
LEMMA PrefixRead ==
    ASSUME NEW s \in Seq(Text \cup {NL}), NEW m \in DOMAIN s
    PROVE  StreamRead(s, Read(First(s, m), Rest(s, m)))
  <1> DEFINE r == Read(First(s, m), Rest(s, m))
             T == Text \cup {NL}
  <1>1. DOMAIN s = 1 .. Len(s) /\ Len(s) \in Nat /\ m \in 1 .. Len(s)
    BY LenProperties
  <1>2. r.packet = SubSeq(s, 1, m) /\ r.rest = SubSeq(s, m + 1, Len(s))
    BY DEF Read, First, Rest
  <1>3. /\ SubSeq(s, 1, m) \in Seq(T)
        /\ Len(SubSeq(s, 1, m)) = m
        /\ \A j \in 1 .. m : SubSeq(s, 1, m)[j] = s[j]
        /\ SubSeq(s, m + 1, Len(s)) \in Seq(T)
        /\ Len(SubSeq(s, m + 1, Len(s))) = Len(s) - m
        /\ \A j \in 1 .. Len(s) - m : SubSeq(s, m + 1, Len(s))[j] = s[m + j]
    BY <1>1, TakeProperties, Zenon
  <1> HIDE DEF r, T
  <1>4. /\ r.packet \in Seq(T) /\ DOMAIN r.packet = 1 .. m
        /\ \A j \in 1 .. m : r.packet[j] = s[j]
        /\ r.rest \in Seq(T) /\ DOMAIN r.rest = 1 .. Len(s) - m
        /\ \A j \in 1 .. Len(s) - m : r.rest[j] = s[m + j]
    BY <1>2, <1>3, LenProperties
  <1>5. Divides(s, r)
    <2>1. \A j \in DOMAIN r.rest :
             /\ j + m \in DOMAIN s /\ s[j + m] = r.rest[j]
             /\ \A i \in DOMAIN r.packet : i < j + m
      BY <1>1, <1>4
    <2>2. \A j \in DOMAIN r.packet : j \in DOMAIN s /\ s[j] = r.packet[j]
      BY <1>1, <1>4
    <2>3. m \in Nat
      BY <1>1
    <2> QED
      BY <2>1, <2>2, <2>3 DEF Divides
  <1> QED
    BY <1>4, <1>5 DEF StreamRead, r, T

(* A recv that cuts the m-th text in two.                                  *)
LEMMA HalfRead ==
    ASSUME NEW s \in Seq(Text \cup {NL}), NEW m \in DOMAIN s,
           NEW h \in Halves(s[m])
    PROVE  StreamRead(s, Read(Append(First(s, m - 1), h[1]),
                              <<h[2]>> \o Rest(s, m)))
  <1> DEFINE T == Text \cup {NL}
             a == First(s, m - 1)
             b == Rest(s, m)
             r == Read(Append(a, h[1]), <<h[2]>> \o b)
  <1>1. DOMAIN s = 1 .. Len(s) /\ Len(s) \in Nat /\ m \in 1 .. Len(s)
    BY LenProperties
  <1>2. /\ h[1] \in T /\ h[2] \in T
        /\ h[1] \in Words => h[1] = s[m]
        /\ h[2] \notin Words
    BY DEF Halves, Text, Words, PIECE, COMMA
  <1>3. a \in Seq(T) /\ Len(a) = m - 1 /\ \A j \in 1 .. m - 1 : a[j] = s[j]
    <2>1. m - 1 \in 0 .. Len(s)
      BY <1>1
    <2> QED
      BY <2>1, PrefixType, Zenon
  <1>4. /\ b \in Seq(T) /\ Len(b) = Len(s) - m
        /\ \A j \in 1 .. Len(s) - m : b[j] = s[m + j]
    BY <1>1, TakeProperties, Zenon DEF Rest
  <1> HIDE DEF a, b, T
  <1>5. /\ Append(a, h[1]) \in Seq(T) /\ Len(Append(a, h[1])) = m
        /\ \A j \in 1 .. m - 1 : Append(a, h[1])[j] = s[j]
        /\ Append(a, h[1])[m] = h[1]
    BY <1>1, <1>2, <1>3, AppendParts
  <1>6. <<h[2]>> \in Seq(T) /\ Len(<<h[2]>>) = 1 /\ <<h[2]>>[1] = h[2]
    BY <1>2
  <1>7. /\ <<h[2]>> \o b \in Seq(T)
        /\ Len(<<h[2]>> \o b) = Len(s) - m + 1
        /\ (<<h[2]>> \o b)[1] = h[2]
        /\ \A j \in 1 .. Len(s) - m : (<<h[2]>> \o b)[1 + j] = s[m + j]
    <2>1. /\ <<h[2]>> \o b \in Seq(T)
          /\ Len(<<h[2]>> \o b) = 1 + Len(b)
          /\ \A j \in 1 .. 1 : (<<h[2]>> \o b)[j] = <<h[2]>>[j]
          /\ \A j \in 1 .. Len(b) : (<<h[2]>> \o b)[1 + j] = b[j]
      BY <1>4, <1>6, ConcatParts
    <2> QED
      BY <1>1, <1>4, <1>6, <2>1
  <1>8. r.packet = Append(a, h[1]) /\ r.rest = <<h[2]>> \o b
    BY DEF Read
  <1> HIDE DEF r
  <1>9. /\ r.packet \in Seq(T) /\ DOMAIN r.packet = 1 .. m
        /\ \A j \in 1 .. m - 1 : r.packet[j] = s[j]
        /\ r.packet[m] = h[1]
        /\ r.rest \in Seq(T) /\ DOMAIN r.rest = 1 .. Len(s) - m + 1
        /\ r.rest[1] = h[2]
        /\ \A j \in 1 .. Len(s) - m : r.rest[1 + j] = s[m + j]
    BY <1>5, <1>7, <1>8, LenProperties
  <1>10. Divides(s, r)
    <2>1. ASSUME NEW j \in DOMAIN r.packet, r.packet[j] \in Words
          PROVE  j \in DOMAIN s /\ s[j] = r.packet[j]
      <3>1. j \in 1 .. m /\ j \in 1 .. Len(s)
        BY <1>1, <1>9
      <3>2. CASE j = m
        BY <1>1, <1>2, <1>9, <2>1, <3>2
      <3>3. CASE j # m
        <4>1. j \in 1 .. m - 1
          BY <1>1, <3>1, <3>3
        <4> QED
          BY <1>1, <1>9, <3>1, <4>1
      <3> QED
        BY <3>2, <3>3
    <2>2. ASSUME NEW j \in DOMAIN r.rest, r.rest[j] \in Words
          PROVE  /\ j + (m - 1) \in DOMAIN s /\ s[j + (m - 1)] = r.rest[j]
                 /\ \A i \in DOMAIN r.packet : i < j + (m - 1)
      <3>1. j # 1
        BY <1>2, <1>9, <2>2
      <3>2. j - 1 \in 1 .. Len(s) - m
        BY <1>1, <1>9, <3>1
      <3>3. r.rest[1 + (j - 1)] = s[m + (j - 1)]
        BY <1>9, <3>2
      <3>4. 1 + (j - 1) = j /\ m + (j - 1) = j + (m - 1)
        BY <1>1, <1>9
      <3>5. \A i \in DOMAIN r.packet : i < j + (m - 1)
        BY <1>1, <1>9, <3>2
      <3>6. j + (m - 1) \in DOMAIN s
        <4>1. j \in Nat /\ m \in Nat
          BY <1>1, <1>9
        <4>2. j + (m - 1) \in 1 .. Len(s)
          BY <1>1, <3>2, <4>1
        <4> QED
          BY <1>1, <4>2
      <3> QED
        BY <3>3, <3>4, <3>5, <3>6
    <2>3. m - 1 \in Nat
      BY <1>1
    <2> QED
      BY <2>1, <2>2, <2>3 DEF Divides
  <1> QED
    BY <1>9, <1>10 DEF StreamRead, r, a, b, T

LEMMA WholeReadsDivide ==
    ASSUME NEW s \in Seq(Text \cup {NL}), NEW r \in WholeReads(s)
    PROVE  StreamRead(s, r)
  BY PrefixRead DEF WholeReads

LEMMA CutReadsDivide ==
    ASSUME NEW s \in Seq(Text \cup {NL}), NEW texts, NEW r \in CutReads(s, texts)
    PROVE  StreamRead(s, r)
  <1>1. CASE r \in {Read(First(s, m), Rest(s, m)) : m \in DOMAIN s}
    BY <1>1, PrefixRead
  <1>2. CASE \E m \in DOMAIN s : \E h \in Halves(s[m]) :
                r = Read(Append(First(s, m - 1), h[1]), <<h[2]>> \o Rest(s, m))
    BY <1>2, HalfRead
  <1> QED
    BY <1>1, <1>2 DEF CutReads

-----------------------------------------------------------------------------
(* A client of which no request is answered twice: its table and the       *)
(* stream it has not read, its requests and its offset, and the words      *)
(* from a to b - 1 that its handler will send.                             *)

NoWord(q) == \A j \in DOMAIN q : q[j] \notin Words

(* q is the beginning of a packet; counted is table with its words.        *)
Begins(q, packet) == \A j \in DOMAIN q : j \in DOMAIN packet /\ q[j] = packet[j]

Counts(table, q, counted) ==
    \A w \in Words : counted[w] = table[w] + Occurrences(q, w)

Appears(table, s, w) == table[w] # 0 \/ \E j \in DOMAIN s : s[j] = w

OnceIn(s) == \A i, j \in DOMAIN s : s[i] \in Words /\ s[i] = s[j] => i = j

(* No word stands twice in table and stream.                               *)
CountedOnce(table, s) ==
    /\ OnceIn(s)
    /\ \A w \in Words :
          /\ table[w] \in {0, 1}
          /\ table[w] = 1 => \A j \in DOMAIN s : s[j] # w

(* The requests are for different windows, the last for the one at off.    *)
Asked(reqs, off) ==
    /\ \A j \in DOMAIN reqs : reqs[j] <= off
    /\ \A i, j \in DOMAIN reqs : i < j => reqs[i] + k <= reqs[j]

(* What was sent stands before all that is or will be asked for.           *)
Ahead(table, s, reqs, off) ==
    \A w \in Words : Appears(table, s, w) =>
        w < off + k /\ \A j \in DOMAIN reqs : w < reqs[j]

Idle(table, s, reqs, off) ==
    CountedOnce(table, s) /\ Asked(reqs, off) /\ Ahead(table, s, reqs, off)

Serving(table, s, reqs, off, a, b) ==
    /\ Idle(table, s, reqs, off)
    /\ \A w \in Words : Appears(table, s, w) => w < a
    /\ b <= off + k
    /\ \A j \in DOMAIN reqs : b <= reqs[j]

(* The handler takes the first of the requests that one recv returns.      *)
LEMMA TakeWindow ==
    ASSUME NEW table, NEW s, NEW reqs \in Seq(Nat), NEW off \in Nat,
           NEW m \in 1 .. Len(reqs), Idle(table, s, reqs, off)
    PROVE  /\ Idle(table, s, Rest(reqs, m), off)
           /\ Serving(table, s, Rest(reqs, m), off,
                      Head(reqs), BatchEnd(Head(reqs)))
  <1> DEFINE left == Rest(reqs, m)
             o == Head(reqs)
  <1>1. Len(reqs) \in Nat /\ DOMAIN reqs = 1 .. Len(reqs) /\ k \in Nat \ {0}
    BY LenProperties, ConfigAssumption
  <1>2. /\ left \in Seq(Nat) /\ Len(left) = Len(reqs) - m
        /\ \A j \in 1 .. Len(reqs) - m : left[j] = reqs[m + j]
    BY TakeProperties, Zenon DEF Rest
  <1>3. DOMAIN left = 1 .. Len(reqs) - m
    BY <1>2, LenProperties
  <1>4. o = reqs[1] /\ o \in Nat /\ 1 \in DOMAIN reqs
    BY <1>1, TailParts
  <1>5. \A j \in DOMAIN reqs : reqs[j] \in Nat
    BY ElementOfSeq
  <1>6. \A j \in DOMAIN left :
           m + j \in DOMAIN reqs /\ left[j] = reqs[m + j] /\ 1 < m + j
    <2> SUFFICES ASSUME NEW j \in 1 .. Len(reqs) - m
                 PROVE  m + j \in 1 .. Len(reqs) /\ 1 < m + j
      BY <1>1, <1>2, <1>3
    <2> QED
      BY <1>1
  <1> HIDE DEF left, o
  <1>7. Asked(reqs, off) /\ Ahead(table, s, reqs, off) /\ CountedOnce(table, s)
    BY DEF Idle
  <1>8. Asked(left, off)
    <2>1. \A j \in DOMAIN left : left[j] <= off
      BY <1>6, <1>7 DEF Asked
    <2>2. ASSUME NEW i \in DOMAIN left, NEW j \in DOMAIN left, i < j
          PROVE  left[i] + k <= left[j]
      <3>1. m + i < m + j
        BY <1>3, <2>2
      <3> QED
        BY <1>6, <1>7, <3>1 DEF Asked
    <2> QED
      BY <2>1, <2>2 DEF Asked
  <1>9. Ahead(table, s, left, off)
    BY <1>6, <1>7 DEF Ahead
  <1>10. Idle(table, s, left, off)
    BY <1>7, <1>8, <1>9 DEF Idle
  <1>11. /\ BatchEnd(o) \in Nat /\ BatchEnd(o) <= o + k
    BY <1>4, BatchEndProperties, Zenon
  <1>12. BatchEnd(o) <= off + k
    <2>1. o <= off
      BY <1>4, <1>7 DEF Asked
    <2> QED
      BY <1>1, <1>4, <1>11, <2>1
  <1>13. \A j \in DOMAIN left : BatchEnd(o) <= left[j]
    <2>1. \A j \in DOMAIN left : o + k <= left[j] /\ left[j] \in Nat
      BY <1>4, <1>5, <1>6, <1>7 DEF Asked
    <2> HIDE DEF BatchEnd
    <2> QED
      BY <1>1, <1>4, <1>11, <2>1
  <1>14. \A w \in Words : Appears(table, s, w) => w < o
    BY <1>4, <1>7 DEF Ahead
  <1> QED
    BY <1>10, <1>12, <1>13, <1>14 DEF Serving, left, o

(* The client asks for the next k words.                                   *)
LEMMA AskWindow ==
    ASSUME NEW table, NEW s, NEW reqs \in Seq(Nat), NEW off \in Nat,
           Idle(table, s, reqs, off)
    PROVE  /\ Idle(table, s, Append(reqs, off + k), off + k)
           /\ \A a, b \in Nat : Serving(table, s, reqs, off, a, b) =>
                 Serving(table, s, Append(reqs, off + k), off + k, a, b)
  <1> DEFINE more == Append(reqs, off + k)
  <1>1. /\ Len(reqs) \in Nat /\ DOMAIN reqs = 1 .. Len(reqs)
        /\ k \in Nat \ {0} /\ off + k \in Nat
    BY LenProperties, ConfigAssumption
  <1>2. /\ more \in Seq(Nat) /\ Len(more) = Len(reqs) + 1
        /\ \A j \in 1 .. Len(reqs) : more[j] = reqs[j]
        /\ more[Len(reqs) + 1] = off + k
    BY <1>1, AppendParts
  <1>3. DOMAIN more = 1 .. Len(reqs) + 1
    BY <1>2, LenProperties
  <1>4. \A j \in DOMAIN more :
           \/ j = Len(reqs) + 1 /\ more[j] = off + k
           \/ j \in DOMAIN reqs /\ j < Len(reqs) + 1 /\ more[j] = reqs[j]
    BY <1>1, <1>2, <1>3
  <1>5. \A j \in DOMAIN reqs : reqs[j] \in Nat
    BY ElementOfSeq
  <1>6. \A j \in DOMAIN more : j \in Nat
    BY <1>1, <1>3
  <1> HIDE DEF more
  <1>7. Asked(reqs, off) /\ Ahead(table, s, reqs, off) /\ CountedOnce(table, s)
    BY DEF Idle
  <1>8. Asked(more, off + k)
    <2>1. \A j \in DOMAIN more : more[j] <= off + k
      BY <1>1, <1>4, <1>5, <1>7 DEF Asked
    <2>2. ASSUME NEW i \in DOMAIN more, NEW j \in DOMAIN more, i < j
          PROVE  more[i] + k <= more[j]
      <3>1. i \in DOMAIN reqs /\ more[i] = reqs[i]
        BY <1>1, <1>4, <1>6, <2>2
      <3> QED
        BY <1>1, <1>4, <1>5, <1>7, <2>2, <3>1 DEF Asked
    <2> QED
      BY <2>1, <2>2 DEF Asked
  <1>9. Ahead(table, s, more, off + k)
    <2> SUFFICES ASSUME NEW w \in Words, Appears(table, s, w)
                 PROVE  w < off + k + k /\ \A j \in DOMAIN more : w < more[j]
      BY DEF Ahead
    <2>1. w < off + k /\ \A j \in DOMAIN reqs : w < reqs[j]
      BY <1>7 DEF Ahead
    <2>2. w \in Int
      BY ConfigAssumption DEF Words
    <2> QED
      BY <1>1, <1>4, <2>1, <2>2
  <1>10. Idle(table, s, more, off + k)
    BY <1>7, <1>8, <1>9 DEF Idle
  <1>11. ASSUME NEW a \in Nat, NEW b \in Nat,
                Serving(table, s, reqs, off, a, b)
         PROVE  Serving(table, s, more, off + k, a, b)
    <2>1. b <= off + k + k
      BY <1>1, <1>11 DEF Serving
    <2>2. \A j \in DOMAIN more : b <= more[j]
      BY <1>4, <1>11 DEF Serving
    <2> QED
      BY <1>10, <1>11, <2>1, <2>2 DEF Serving
  <1> QED
    BY <1>10, <1>11 DEF more

LEMMA WordsAreNumbers == \A w \in Words : w \in Nat
  BY ConfigAssumption DEF Words

(* The handler sends q behind what it sent.                                *)
LEMMA SendOnce ==
    ASSUME NEW table, NEW s \in Seq(Text \cup {NL}),
           NEW q \in Seq(Text \cup {NL}),
           CountedOnce(table, s), OnceIn(q),
           \A j \in DOMAIN q : q[j] \in Words => ~Appears(table, s, q[j])
    PROVE  /\ CountedOnce(table, s \o q)
           /\ \A w \in Words : Appears(table, s \o q, w) =>
                 Appears(table, s, w) \/ \E j \in DOMAIN q : q[j] = w
  <1> DEFINE T == Text \cup {NL}
             u == s \o q
  <1>1. /\ Len(s) \in Nat /\ DOMAIN s = 1 .. Len(s)
        /\ Len(q) \in Nat /\ DOMAIN q = 1 .. Len(q)
    BY LenProperties
  <1>2. /\ u \in Seq(T)
        /\ Len(u) = Len(s) + Len(q)
        /\ \A j \in 1 .. Len(s) : u[j] = s[j]
        /\ \A j \in 1 .. Len(q) : u[Len(s) + j] = q[j]
    BY ConcatParts
  <1>3. DOMAIN u = 1 .. Len(s) + Len(q)
    BY <1>2, LenProperties
  <1> HIDE DEF u, T
  <1>4. ASSUME NEW j \in DOMAIN u
        PROVE  \/ j \in DOMAIN s /\ u[j] = s[j]
               \/ j - Len(s) \in DOMAIN q /\ u[j] = q[j - Len(s)]
    <2>1. CASE j \in 1 .. Len(s)
      BY <1>1, <1>2, <2>1
    <2>2. CASE j \notin 1 .. Len(s)
      <3>1. j - Len(s) \in 1 .. Len(q) /\ Len(s) + (j - Len(s)) = j
        BY <1>1, <1>3, <2>2
      <3> QED
        BY <1>1, <1>2, <3>1
    <2> QED
      BY <2>1, <2>2
  <1>5. ASSUME NEW i \in DOMAIN u, NEW j \in DOMAIN u,
               u[i] \in Words, u[i] = u[j]
        PROVE  i = j
    <2>1. CASE i \in DOMAIN s /\ u[i] = s[i] /\ j \in DOMAIN s /\ u[j] = s[j]
      BY <1>5, <2>1 DEF CountedOnce, OnceIn
    <2>2. CASE /\ i - Len(s) \in DOMAIN q /\ u[i] = q[i - Len(s)]
               /\ j - Len(s) \in DOMAIN q /\ u[j] = q[j - Len(s)]
      <3>1. i - Len(s) = j - Len(s)
        BY <1>5, <2>2 DEF OnceIn
      <3> QED
        BY <1>1, <1>3, <3>1
    <2>3. CASE /\ i \in DOMAIN s /\ u[i] = s[i]
               /\ j - Len(s) \in DOMAIN q /\ u[j] = q[j - Len(s)]
      BY <1>5, <2>3 DEF Appears
    <2>4. CASE /\ j \in DOMAIN s /\ u[j] = s[j]
               /\ i - Len(s) \in DOMAIN q /\ u[i] = q[i - Len(s)]
      BY <1>5, <2>4 DEF Appears
    <2> QED
      BY <1>4, <2>1, <2>2, <2>3, <2>4
  <1>6. ASSUME NEW w \in Words, table[w] = 1, NEW j \in DOMAIN u
        PROVE  u[j] # w
    <2>1. CASE j \in DOMAIN s /\ u[j] = s[j]
      BY <1>6, <2>1 DEF CountedOnce
    <2>2. CASE j - Len(s) \in DOMAIN q /\ u[j] = q[j - Len(s)]
      BY <1>6, <2>2 DEF Appears
    <2> QED
      BY <1>4, <2>1, <2>2
  <1>7. CountedOnce(table, u)
    BY <1>5, <1>6 DEF CountedOnce, OnceIn
  <1>8. ASSUME NEW w \in Words, Appears(table, u, w)
        PROVE  Appears(table, s, w) \/ \E j \in DOMAIN q : q[j] = w
    BY <1>4, <1>8 DEF Appears
  <1> QED
    BY <1>7, <1>8 DEF u

(* It sends the words from a to c - 1, and behind them no word.            *)
LEMMA SendWindow ==
    ASSUME NEW table, NEW s \in Seq(Text \cup {NL}),
           NEW reqs \in Seq(Nat), NEW off \in Nat,
           NEW a \in Nat, NEW b \in Nat, NEW c \in Nat,
           a <= c, c <= b, b <= NumWords,
           NEW q \in Seq(Text \cup {NL}),
           NoWord(q),
           Serving(table, s, reqs, off, a, b)
    PROVE  Serving(table, s \o (Run(a, c) \o q), reqs, off, c, b)
  <1> DEFINE T == Text \cup {NL}
             g == Run(a, c)
             u == g \o q
  <1>1. /\ g \in Seq(T) /\ Len(g) \in Nat
        /\ \A j \in 1 .. Len(g) : g[j] = a + j - 1 /\ g[j] < c
    <2>1. /\ Run(a, c) \in Seq(Nat)
          /\ Len(Run(a, c)) = IF a < c THEN c - a ELSE 0
          /\ \A j \in 1 .. Len(Run(a, c)) : Run(a, c)[j] = a + j - 1
      BY RunProperties
    <2>2. c <= NumWords
      BY ConfigAssumption
    <2>3. Run(a, c) \in Seq(Words)
      BY <2>2, RunInFile
    <2>4. g \in Seq(T)
      BY <2>3, SeqMonotonic, Zenon DEF Text
    <2> HIDE DEF g
    <2> QED
      BY <2>1, <2>4 DEF g
  <1>2. /\ Len(q) \in Nat /\ DOMAIN q = 1 .. Len(q)
    BY LenProperties
  <1> HIDE DEF g
  <1>3. /\ u \in Seq(T)
        /\ Len(u) = Len(g) + Len(q)
        /\ \A j \in 1 .. Len(g) : u[j] = g[j]
        /\ \A j \in 1 .. Len(q) : u[Len(g) + j] = q[j]
    BY <1>1, ConcatParts
  <1>4. DOMAIN u = 1 .. Len(g) + Len(q)
    BY <1>3, LenProperties
  <1> HIDE DEF u, T
  <1>5. ASSUME NEW j \in DOMAIN u, u[j] \in Words
        PROVE  u[j] = a + j - 1 /\ a <= u[j] /\ u[j] < c
    <2>1. j \in 1 .. Len(g)
      <3> SUFFICES ASSUME j \notin 1 .. Len(g)
                   PROVE  FALSE
        OBVIOUS
      <3>1. j - Len(g) \in 1 .. Len(q) /\ Len(g) + (j - Len(g)) = j
        BY <1>1, <1>2, <1>4
      <3> QED
        BY <1>2, <1>3, <1>5, <3>1 DEF NoWord
    <2>2. u[j] = g[j] /\ g[j] = a + j - 1 /\ g[j] < c /\ j \in Nat /\ j >= 1
      BY <1>1, <1>3, <2>1
    <2> QED
      BY <2>2
  <1>6. OnceIn(u)
    <2>1. \A j \in DOMAIN u : j \in Nat
      BY <1>1, <1>2, <1>4
    <2> QED
      BY <1>5, <2>1 DEF OnceIn
  <1>7. /\ CountedOnce(table, s) /\ Asked(reqs, off)
        /\ \A w \in Words : Appears(table, s, w) => w < a
        /\ b <= off + k /\ \A j \in DOMAIN reqs : b <= reqs[j]
    BY DEF Serving, Idle
  <1>8. \A j \in DOMAIN u : u[j] \in Words => ~Appears(table, s, u[j])
    BY <1>5, <1>7, WordsAreNumbers
  <1>9. /\ CountedOnce(table, s \o u)
        /\ \A w \in Words : Appears(table, s \o u, w) =>
              Appears(table, s, w) \/ \E j \in DOMAIN u : u[j] = w
    BY <1>3, <1>6, <1>7, <1>8, SendOnce DEF T
  <1>10. \A w \in Words : Appears(table, s \o u, w) => w < c
    BY <1>5, <1>7, <1>9, WordsAreNumbers
  <1>11. Ahead(table, s \o u, reqs, off)
    <2> SUFFICES ASSUME NEW w \in Words, w < c
                 PROVE  w < off + k /\ \A j \in DOMAIN reqs : w < reqs[j]
      BY <1>10 DEF Ahead
    <2>1. w \in Nat /\ off + k \in Nat /\ \A j \in DOMAIN reqs : reqs[j] \in Nat
      BY ElementOfSeq, WordsAreNumbers, ConfigAssumption
    <2> QED
      BY <1>7, <2>1
  <1> QED
    BY <1>7, <1>9, <1>10, <1>11 DEF Serving, Idle, u, g

(* It sends q, in which there is no word.                                  *)
LEMMA SendMark ==
    ASSUME NEW table, NEW s \in Seq(Text \cup {NL}), NEW reqs, NEW off,
           NEW q \in Seq(Text \cup {NL}),
           NoWord(q),
           Idle(table, s, reqs, off)
    PROVE  Idle(table, s \o q, reqs, off)
  <1>1. CountedOnce(table, s) /\ Asked(reqs, off) /\ Ahead(table, s, reqs, off)
    BY DEF Idle
  <1>2. OnceIn(q)
    BY DEF OnceIn, NoWord
  <1>3. /\ CountedOnce(table, s \o q)
        /\ \A w \in Words : Appears(table, s \o q, w) =>
              Appears(table, s, w) \/ \E j \in DOMAIN q : q[j] = w
    BY <1>1, <1>2, SendOnce DEF NoWord
  <1>4. \A w \in Words : Appears(table, s \o q, w) => Appears(table, s, w)
    BY <1>3 DEF NoWord
  <1> QED
    BY <1>1, <1>3, <1>4 DEF Idle, Ahead

(* The client reads, and counts the words of q, the first so many of what  *)
(* recv returned.                                                          *)
LEMMA ReadOnce ==
    ASSUME NEW table, NEW s \in Seq(Text \cup {NL}), NEW r, StreamRead(s, r),
           NEW q \in Seq(Text \cup {NL}),
           Begins(q, r.packet), NEW counted, Counts(table, q, counted),
           CountedOnce(table, s)
    PROVE  /\ CountedOnce(counted, r.rest)
           /\ \A w \in Words :
                 Appears(counted, r.rest, w) => Appears(table, s, w)
  <1>1. PICK d \in Nat :
           /\ \A j \in DOMAIN r.packet :
                 r.packet[j] \in Words => j \in DOMAIN s /\ s[j] = r.packet[j]
           /\ \A j \in DOMAIN r.rest : r.rest[j] \in Words =>
                 /\ j + d \in DOMAIN s /\ s[j + d] = r.rest[j]
                 /\ \A i \in DOMAIN r.packet : i < j + d
    BY DEF StreamRead, Divides
  <1>2. /\ DOMAIN s = 1 .. Len(s) /\ Len(s) \in Nat
        /\ DOMAIN r.rest = 1 .. Len(r.rest) /\ Len(r.rest) \in Nat
    BY LenProperties DEF StreamRead
  <1>3. \A j \in DOMAIN q : q[j] \in Words => j \in DOMAIN s /\ s[j] = q[j]
    BY <1>1 DEF Begins
  <1>4. OnceIn(r.rest)
    <2> SUFFICES ASSUME NEW i \in DOMAIN r.rest, NEW j \in DOMAIN r.rest,
                        r.rest[i] \in Words, r.rest[i] = r.rest[j]
                 PROVE  i = j
      BY DEF OnceIn
    <2>1. /\ i + d \in DOMAIN s /\ j + d \in DOMAIN s
          /\ s[i + d] = r.rest[i] /\ s[j + d] = r.rest[j]
      BY <1>1
    <2>2. i + d = j + d
      BY <2>1 DEF CountedOnce, OnceIn
    <2> QED
      BY <1>2, <2>2
  <1>5. ASSUME NEW w \in Words
        PROVE  /\ counted[w] \in {0, 1}
               /\ counted[w] = 1 => \A j \in DOMAIN r.rest : r.rest[j] # w
               /\ Appears(counted, r.rest, w) => Appears(table, s, w)
    <2>1. table[w] \in {0, 1} /\ counted[w] = table[w] + Occurrences(q, w)
      BY DEF CountedOnce, Counts
    <2>2. CASE \A j \in DOMAIN q : q[j] # w
      <3>1. Occurrences(q, w) = 0
        BY <2>2, OccursNowhere
      <3>2. counted[w] = table[w]
        BY <2>1, <3>1
      <3>3. \A j \in DOMAIN r.rest : r.rest[j] = w => \E i \in DOMAIN s : s[i] = w
        BY <1>1
      <3> QED
        BY <2>1, <3>2, <3>3 DEF CountedOnce, Appears
    <2>3. CASE \E j \in DOMAIN q : q[j] = w
      <3>1. PICK j \in DOMAIN q : q[j] = w
        BY <2>3
      <3>2. j \in DOMAIN s /\ s[j] = w /\ j \in DOMAIN r.packet
        BY <1>3, <3>1 DEF Begins
      <3>3. \A h \in DOMAIN q : q[h] = w => h = j
        BY <1>3, <3>2 DEF CountedOnce, OnceIn
      <3>4. Occurrences(q, w) = 1
        BY <3>1, <3>3, OccursOnce
      <3>5. table[w] = 0
        BY <2>1, <3>2 DEF CountedOnce
      <3>6. counted[w] = 1
        BY <2>1, <3>4, <3>5
      <3>7. ASSUME NEW i \in DOMAIN r.rest, r.rest[i] = w
            PROVE  FALSE
        <4>1. i + d \in DOMAIN s /\ s[i + d] = w /\ j < i + d
          BY <1>1, <3>2, <3>7
        <4>2. j = i + d
          BY <3>2, <4>1 DEF CountedOnce, OnceIn
        <4> QED
          BY <1>2, <3>2, <4>1, <4>2
      <3> QED
        BY <3>2, <3>6, <3>7 DEF Appears
    <2> QED
      BY <2>2, <2>3
  <1> QED
    BY <1>4, <1>5 DEF CountedOnce

(* The first m elements of a packet are a beginning of it.                 *)
LEMMA FirstBegins ==
    ASSUME NEW packet \in Seq(Text \cup {NL}), NEW m \in 0 .. Len(packet)
    PROVE  /\ First(packet, m) \in Seq(Text \cup {NL})
           /\ Begins(First(packet, m), packet)
  <1>1. /\ First(packet, m) \in Seq(Text \cup {NL})
        /\ Len(First(packet, m)) = m
        /\ \A j \in 1 .. m : First(packet, m)[j] = packet[j]
    BY PrefixType
  <1>2. /\ DOMAIN First(packet, m) = 1 .. m
        /\ DOMAIN packet = 1 .. Len(packet) /\ Len(packet) \in Nat
    BY <1>1, LenProperties
  <1> QED
    BY <1>1, <1>2 DEF Begins

LEMMA ReadWindow ==
    ASSUME NEW table, NEW s \in Seq(Text \cup {NL}), NEW r, StreamRead(s, r),
           NEW q \in Seq(Text \cup {NL}),
           Begins(q, r.packet), NEW counted, Counts(table, q, counted),
           NEW reqs, NEW off, Idle(table, s, reqs, off)
    PROVE  /\ Idle(counted, r.rest, reqs, off)
           /\ \A a, b \in Nat : Serving(table, s, reqs, off, a, b) =>
                 Serving(counted, r.rest, reqs, off, a, b)
  <1>1. CountedOnce(table, s) /\ Asked(reqs, off) /\ Ahead(table, s, reqs, off)
    BY DEF Idle
  <1>2. /\ CountedOnce(counted, r.rest)
        /\ \A w \in Words :
              Appears(counted, r.rest, w) => Appears(table, s, w)
    BY <1>1, ReadOnce
  <1>3. Idle(counted, r.rest, reqs, off)
    BY <1>1, <1>2 DEF Idle, Ahead
  <1> QED
    BY <1>2, <1>3 DEF Serving

-----------------------------------------------------------------------------
(* Whole sends.                                                            *)

(* The stream s holds the words from x to y - 1 in order, cut into sends   *)
(* that begin with a word, and ends with EOF if y is the end of the file.  *)
Pending(s, x, y) ==
    /\ \A j \in DOMAIN s : s[j] \in Words \cup {NL, END}
    /\ \A j \in DOMAIN s : s[j] \in Words => x <= s[j] /\ s[j] < y
    /\ \A w \in x .. y - 1 : \E j \in DOMAIN s : s[j] = w
    /\ \A i, j \in DOMAIN s :
          i < j /\ s[i] \in Words /\ s[j] \in Words => s[i] < s[j]
    /\ (\E j \in DOMAIN s : s[j] = END) <=> y = NumWords
    /\ \A i, j \in DOMAIN s : s[i] = END /\ s[j] \in Words => j < i
    /\ s # <<>> => s[1] \in Words
    /\ \A n \in DOMAIN s : EndsSend(s, n) /\ n # Len(s) => s[n + 1] \in Words

(* The table has the words before x once and nothing else.                 *)
Tallied(table, x) ==
    \A w \in Words \cup {DOLLAR, PIECE} :
        table[w] = IF w \in Words /\ w < x THEN 1 ELSE 0

(* counted is table with the words and pieces of q.                        *)
CountsAll(table, q, counted) ==
    \A w \in Words \cup {DOLLAR, PIECE} :
        counted[w] = table[w] + Occurrences(q, w)

(* The client has asked for the window at off, and nothing is under way.   *)
Requested(table, s, reqs, off) ==
    s = <<>> /\ reqs = <<off>> /\ off < NumWords /\ Tallied(table, off)

(* Of this window the words before y were sent, those before x were read,  *)
(* and not all of it was.                                                  *)
Answered(table, s, reqs, off, x, y) ==
    /\ reqs = <<>>
    /\ off <= x /\ x <= y /\ y <= BatchEnd(off) /\ x < BatchEnd(off)
    /\ Tallied(table, x) /\ Pending(s, x, y)

(* The marks are no words.                                                 *)
LEMMA MarksAreNoWords ==
    /\ NL \notin Words /\ END \notin Words /\ DOLLAR \notin Words
    /\ PIECE \notin Words /\ COMMA \notin Words
    /\ END # NL
  BY ConfigAssumption DEF Words, NL, END, DOLLAR, PIECE, COMMA

LEMMA PendingNone ==
    ASSUME NEW x \in Nat, x # NumWords
    PROVE  Pending(<<>>, x, x)
  <1>1. x .. x - 1 = {}
    OBVIOUS
  <1>2. DOMAIN <<>> = {}
    OBVIOUS
  <1> QED
    BY <1>1, <1>2 DEF Pending

(* What is sent behind continues what was sent.                            *)
LEMMA PendingConcat ==
    ASSUME NEW s \in Seq(Text \cup {NL}), NEW u \in Seq(Text \cup {NL}),
           NEW x \in Nat, NEW a \in Nat, NEW b \in Nat,
           x <= a, a <= b, a # NumWords, u # <<>>,
           Pending(s, x, a), Pending(u, a, b)
    PROVE  Pending(s \o u, x, b)
  <1> DEFINE t == s \o u
             n == Len(s)
  <1>1. /\ n \in Nat /\ DOMAIN s = 1 .. n
        /\ Len(u) \in Nat /\ DOMAIN u = 1 .. Len(u)
    BY LenProperties
  <1>2. /\ t \in Seq(Text \cup {NL})
        /\ Len(t) = n + Len(u)
        /\ \A j \in 1 .. n : t[j] = s[j]
        /\ \A j \in 1 .. Len(u) : t[n + j] = u[j]
    BY ConcatParts
  <1>3. DOMAIN t = 1 .. n + Len(u)
    BY <1>2, LenProperties
  <1>4. Len(u) >= 1 /\ 1 \in DOMAIN u /\ u[1] \in Words
    <2>1. Len(u) # 0
      BY NoLength
    <2> QED
      BY <1>1, <2>1 DEF Pending
  <1> HIDE DEF t, n
  <1>5. ASSUME NEW j \in DOMAIN t
        PROVE  \/ j \in DOMAIN s /\ t[j] = s[j]
               \/ j - n \in DOMAIN u /\ t[j] = u[j - n] /\ j > n
    <2>1. CASE j \in 1 .. n
      BY <1>1, <1>2, <2>1
    <2>2. CASE j \notin 1 .. n
      <3>1. j - n \in 1 .. Len(u) /\ n + (j - n) = j /\ j > n
        BY <1>1, <1>3, <2>2
      <3> QED
        BY <1>1, <1>2, <3>1
    <2> QED
      BY <2>1, <2>2
  <1>6. /\ \A j \in DOMAIN s : j \in DOMAIN t /\ t[j] = s[j] /\ j <= n
        /\ \A j \in DOMAIN u : n + j \in DOMAIN t /\ t[n + j] = u[j]
    BY <1>1, <1>2, <1>3
  <1>7. \A j \in DOMAIN s : s[j] # END
    BY DEF Pending
  <1>8. \A w \in Words : w \in Nat
    BY WordsAreNumbers
  <1>9. \A j \in DOMAIN t : j \in Nat
    BY <1>1, <1>3
  <1>10. \A j \in DOMAIN t : t[j] \in Words \cup {NL, END}
    BY <1>5 DEF Pending
  <1>11. \A j \in DOMAIN t : t[j] \in Words => x <= t[j] /\ t[j] < b
    <2> SUFFICES ASSUME NEW j \in DOMAIN t, t[j] \in Words
                 PROVE  x <= t[j] /\ t[j] < b
      OBVIOUS
    <2>1. \/ x <= t[j] /\ t[j] < a
          \/ a <= t[j] /\ t[j] < b
      BY <1>5 DEF Pending
    <2> QED
      BY <1>8, <2>1
  <1>12. \A w \in x .. b - 1 : \E j \in DOMAIN t : t[j] = w
    <2> SUFFICES ASSUME NEW w \in x .. b - 1
                 PROVE  \E j \in DOMAIN t : t[j] = w
      OBVIOUS
    <2>1. w \in x .. a - 1 \/ w \in a .. b - 1
      OBVIOUS
    <2> QED
      BY <1>6, <2>1 DEF Pending
  <1>13. \A i, j \in DOMAIN t :
            i < j /\ t[i] \in Words /\ t[j] \in Words => t[i] < t[j]
    <2> SUFFICES ASSUME NEW i \in DOMAIN t, NEW j \in DOMAIN t, i < j,
                        t[i] \in Words, t[j] \in Words
                 PROVE  t[i] < t[j]
      OBVIOUS
    <2>1. CASE i \in DOMAIN s /\ t[i] = s[i] /\ j \in DOMAIN s /\ t[j] = s[j]
      BY <2>1 DEF Pending
    <2>2. CASE /\ i - n \in DOMAIN u /\ t[i] = u[i - n]
               /\ j - n \in DOMAIN u /\ t[j] = u[j - n]
      <3>1. i - n < j - n
        BY <1>1, <1>9
      <3> QED
        BY <2>2, <3>1 DEF Pending
    <2>3. CASE /\ i \in DOMAIN s /\ t[i] = s[i]
               /\ j - n \in DOMAIN u /\ t[j] = u[j - n]
      <3>1. t[i] < a /\ a <= t[j]
        BY <2>3 DEF Pending
      <3> QED
        BY <1>8, <3>1
    <2>4. CASE j \in DOMAIN s /\ i - n \in DOMAIN u /\ i > n
      BY <1>1, <1>9, <2>4
    <2> QED
      BY <1>5, <2>1, <2>2, <2>3, <2>4
  <1>14. (\E j \in DOMAIN t : t[j] = END) <=> b = NumWords
    <2>1. (\E j \in DOMAIN u : u[j] = END) <=> b = NumWords
      BY DEF Pending
    <2>2. ASSUME NEW j \in DOMAIN t, t[j] = END
          PROVE  \E i \in DOMAIN u : u[i] = END
      BY <1>5, <1>7, <2>2
    <2>3. ASSUME NEW j \in DOMAIN u, u[j] = END
          PROVE  \E i \in DOMAIN t : t[i] = END
      BY <1>6, <2>3
    <2> QED
      BY <2>1, <2>2, <2>3
  <1>15. \A i, j \in DOMAIN t : t[i] = END /\ t[j] \in Words => j < i
    <2> SUFFICES ASSUME NEW i \in DOMAIN t, NEW j \in DOMAIN t,
                        t[i] = END, t[j] \in Words
                 PROVE  j < i
      OBVIOUS
    <2>1. i - n \in DOMAIN u /\ u[i - n] = END /\ i > n
      BY <1>5, <1>7
    <2>2. CASE j \in DOMAIN s
      BY <1>1, <1>9, <2>1, <2>2
    <2>3. CASE j - n \in DOMAIN u /\ t[j] = u[j - n]
      <3>1. j - n < i - n
        BY <2>1, <2>3 DEF Pending
      <3> QED
        BY <1>1, <1>9, <3>1
    <2> QED
      BY <1>5, <2>2, <2>3
  <1>16. t # <<>> => t[1] \in Words
    <2>1. CASE n = 0
      BY <1>1, <1>2, <1>4, <2>1
    <2>2. CASE n # 0
      <3>1. 1 \in DOMAIN s /\ s # <<>>
        BY <1>1, <2>2 DEF n
      <3> QED
        BY <1>6, <3>1 DEF Pending
    <2> QED
      BY <2>1, <2>2
  <1>17. ASSUME NEW m \in DOMAIN t, EndsSend(t, m), m # Len(t)
         PROVE  t[m + 1] \in Words
    <2>1. t[m] = NL /\ t[m + 1] # END /\ m + 1 \in DOMAIN t
      BY <1>1, <1>2, <1>3, <1>17 DEF EndsSend
    <2>2. CASE m \in DOMAIN s /\ m = n
      BY <1>1, <1>2, <1>4, <2>2
    <2>3. CASE m \in DOMAIN s /\ m # n
      <3>1. m + 1 \in DOMAIN s
        BY <1>1, <2>3
      <3>2. s[m] = NL /\ s[m + 1] = t[m + 1]
        BY <1>6, <2>1, <2>3, <3>1
      <3>3. EndsSend(s, m) /\ m # Len(s)
        BY <2>1, <2>3, <3>2 DEF EndsSend, n
      <3> QED
        BY <2>3, <3>2, <3>3 DEF Pending
    <2>4. CASE m - n \in DOMAIN u /\ t[m] = u[m - n] /\ m > n
      <3>1. m - n + 1 \in DOMAIN u /\ m - n # Len(u) /\ n + (m - n + 1) = m + 1
        BY <1>1, <1>2, <1>3, <1>17, <2>4
      <3>2. u[m - n + 1] = t[m + 1]
        BY <1>6, <3>1
      <3>3. EndsSend(u, m - n)
        BY <2>1, <2>4, <3>2 DEF EndsSend
      <3> QED
        BY <2>4, <3>1, <3>2, <3>3 DEF Pending
    <2> QED
      BY <1>5, <2>2, <2>3, <2>4
  <1> QED
    BY <1>10, <1>11, <1>12, <1>13, <1>14, <1>15, <1>16, <1>17 DEF Pending, t

(* What follows the words of a packet that ends at b.                      *)
Closes(q, b) ==
    /\ \A j \in DOMAIN q : q[j] \in {NL, END}
    /\ (\E j \in DOMAIN q : q[j] = END) <=> b = NumWords
    /\ \A j \in DOMAIN q : q[j] = NL /\ j # Len(q) => q[j + 1] = END

LEMMA RunPending ==
    ASSUME NEW a \in Nat, NEW b \in Nat, a < b, b <= NumWords,
           NEW q \in Seq(Text \cup {NL}), Closes(q, b)
    PROVE  /\ Pending(Run(a, b) \o q, a, b)
           /\ Run(a, b) \o q # <<>>
           /\ Run(a, b) \o q \in Seq(Text \cup {NL})
  <1> DEFINE g == Run(a, b)
             n == b - a
             t == g \o q
  <1>1. /\ g \in Seq(Text \cup {NL}) /\ Len(g) = n /\ n \in Nat /\ n >= 1
        /\ \A j \in 1 .. n : g[j] = a + j - 1
    <2>1. /\ Len(Run(a, b)) = IF a < b THEN b - a ELSE 0
          /\ \A j \in 1 .. Len(Run(a, b)) : Run(a, b)[j] = a + j - 1
      BY RunProperties
    <2>2. Run(a, b) \in Seq(Words)
      BY RunInFile
    <2>3. g \in Seq(Text \cup {NL})
      BY <2>2, SeqMonotonic, Zenon DEF Text
    <2> HIDE DEF g
    <2> QED
      BY <2>1, <2>3 DEF g
  <1>2. Len(q) \in Nat /\ DOMAIN q = 1 .. Len(q)
    BY LenProperties
  <1> HIDE DEF g, n
  <1>3. /\ t \in Seq(Text \cup {NL})
        /\ Len(t) = n + Len(q)
        /\ \A j \in 1 .. n : t[j] = g[j]
        /\ \A j \in 1 .. Len(q) : t[n + j] = q[j]
    <2>1. g \in Seq(Text \cup {NL}) /\ q \in Seq(Text \cup {NL})
      BY <1>1
    <2>2. /\ t \in Seq(Text \cup {NL})
          /\ Len(t) = Len(g) + Len(q)
          /\ \A j \in 1 .. Len(g) : t[j] = g[j]
          /\ \A j \in 1 .. Len(q) : t[Len(g) + j] = q[j]
      BY <2>1, ConcatParts
    <2> QED
      BY <1>1, <2>2
  <1>4. DOMAIN t = 1 .. n + Len(q)
    BY <1>3, LenProperties
  <1> HIDE DEF t
  <1>5. ASSUME NEW j \in DOMAIN t
        PROVE  /\ j \in Nat
               /\ \/ j \in 1 .. n /\ t[j] = a + j - 1 /\ t[j] \in Words
                  \/ /\ j - n \in DOMAIN q /\ t[j] = q[j - n] /\ j > n
                     /\ t[j] \in {NL, END} /\ t[j] \notin Words
    <2>1. CASE j \in 1 .. n
      <3>1. t[j] = a + j - 1
        BY <1>1, <1>3, <2>1
      <3>2. a + j - 1 \in Words
        BY <2>1, ConfigAssumption DEF n, Words
      <3> QED
        BY <2>1, <3>1, <3>2
    <2>2. CASE j \notin 1 .. n
      <3>1. j - n \in 1 .. Len(q) /\ n + (j - n) = j /\ j > n /\ j \in Nat
        BY <1>1, <1>2, <1>4, <2>2
      <3>2. t[j] = q[j - n] /\ q[j - n] \in {NL, END}
        BY <1>2, <1>3, <3>1 DEF Closes
      <3> QED
        BY <1>2, <3>1, <3>2, MarksAreNoWords
    <2> QED
      BY <2>1, <2>2
  <1>6. \A j \in DOMAIN t : t[j] \in Words \cup {NL, END}
    BY <1>5
  <1>7. \A j \in DOMAIN t : t[j] \in Words => a <= t[j] /\ t[j] < b
    BY <1>5 DEF n
  <1>8. \A w \in a .. b - 1 : \E j \in DOMAIN t : t[j] = w
    <2> SUFFICES ASSUME NEW w \in a .. b - 1
                 PROVE  \E j \in DOMAIN t : t[j] = w
      OBVIOUS
    <2>1. w - a + 1 \in 1 .. n /\ a + (w - a + 1) - 1 = w
      BY DEF n
    <2>2. w - a + 1 \in DOMAIN t
      BY <1>1, <1>2, <1>4, <2>1
    <2> QED
      BY <1>1, <1>3, <2>1, <2>2
  <1>9. \A i, j \in DOMAIN t :
            i < j /\ t[i] \in Words /\ t[j] \in Words => t[i] < t[j]
    BY <1>5
  <1>10. (\E j \in DOMAIN t : t[j] = END) <=> b = NumWords
    <2>1. ASSUME NEW j \in DOMAIN t, t[j] = END
          PROVE  \E i \in DOMAIN q : q[i] = END
      BY <1>5, <2>1, MarksAreNoWords
    <2>2. ASSUME NEW i \in DOMAIN q, q[i] = END
          PROVE  \E j \in DOMAIN t : t[j] = END
      <3>1. n + i \in DOMAIN t /\ t[n + i] = END
        BY <1>1, <1>2, <1>3, <1>4, <2>2
      <3> QED
        BY <3>1
    <2> QED
      BY <2>1, <2>2 DEF Closes
  <1>11. \A i, j \in DOMAIN t : t[i] = END /\ t[j] \in Words => j < i
    <2> SUFFICES ASSUME NEW i \in DOMAIN t, NEW j \in DOMAIN t,
                        t[i] = END, t[j] \in Words
                 PROVE  j < i
      OBVIOUS
    <2>1. i > n /\ j \in 1 .. n /\ i \in Nat
      BY <1>5, MarksAreNoWords
    <2> QED
      BY <1>1, <2>1
  <1>12. t # <<>> /\ t[1] \in Words
    <2>1. 1 \in DOMAIN t /\ 1 \in 1 .. n
      BY <1>1, <1>2, <1>4
    <2> QED
      BY <1>5, <1>1, <2>1
  <1>13. ASSUME NEW m \in DOMAIN t, EndsSend(t, m), m # Len(t)
         PROVE  t[m + 1] \in Words
    <2>1. t[m] = NL /\ t[m + 1] # END
      BY <1>13 DEF EndsSend
    <2>2. m - n \in DOMAIN q /\ q[m - n] = NL /\ m > n
      BY <1>5, <2>1, MarksAreNoWords
    <2>3. m - n # Len(q)
      <3>1. m # n + Len(q) /\ m \in Nat
        BY <1>3, <1>5, <1>13
      <3>2. n \in Nat /\ Len(q) \in Nat
        BY <1>1, <1>2
      <3> QED
        BY <3>1, <3>2
    <2>4. q[m - n + 1] = END
      BY <2>2, <2>3 DEF Closes
    <2>5. m - n + 1 \in 1 .. Len(q) /\ n + (m - n + 1) = m + 1
      BY <1>1, <1>2, <1>4, <2>2, <2>3
    <2> QED
      BY <1>3, <2>1, <2>4, <2>5
  <1>14. Pending(t, a, b)
    BY <1>6, <1>7, <1>8, <1>9, <1>10, <1>11, <1>12, <1>13 DEF Pending
  <1> QED
    BY <1>3, <1>12, <1>14 DEF t, g

(* A recv that ends where a send ended.                                    *)
LEMMA WholeReadParts ==
    ASSUME NEW s \in Seq(Text \cup {NL}), NEW r \in WholeReads(s)
    PROVE  \E n \in DOMAIN s :
              /\ EndsSend(s, n)
              /\ r.packet \in Seq(Text \cup {NL}) /\ DOMAIN r.packet = 1 .. n
              /\ Len(r.packet) = n
              /\ \A j \in 1 .. n : r.packet[j] = s[j]
              /\ r.rest \in Seq(Text \cup {NL})
              /\ Len(r.rest) = Len(s) - n
              /\ DOMAIN r.rest = 1 .. Len(s) - n
              /\ \A j \in 1 .. Len(s) - n : r.rest[j] = s[n + j]
  <1>1. PICK n \in DOMAIN s :
           EndsSend(s, n) /\ r = Read(First(s, n), Rest(s, n))
    BY DEF WholeReads
  <1>2. n \in 1 .. Len(s)
    BY LenProperties
  <1>3. r.packet = SubSeq(s, 1, n) /\ r.rest = SubSeq(s, n + 1, Len(s))
    BY <1>1 DEF Read, First, Rest
  <1>4. /\ SubSeq(s, 1, n) \in Seq(Text \cup {NL})
        /\ Len(SubSeq(s, 1, n)) = n
        /\ \A j \in 1 .. n : SubSeq(s, 1, n)[j] = s[j]
        /\ SubSeq(s, n + 1, Len(s)) \in Seq(Text \cup {NL})
        /\ Len(SubSeq(s, n + 1, Len(s))) = Len(s) - n
        /\ \A j \in 1 .. Len(s) - n : SubSeq(s, n + 1, Len(s))[j] = s[n + j]
    BY <1>2, TakeProperties, Zenon
  <1>5. /\ DOMAIN SubSeq(s, 1, n) = 1 .. n
        /\ DOMAIN SubSeq(s, n + 1, Len(s)) = 1 .. Len(s) - n
    BY <1>4, LenProperties
  <1> QED
    BY <1>1, <1>3, <1>4, <1>5

(* What a whole recv returns begins with a word: it is no refusal, and no  *)
(* lone mark.                                                              *)
LEMMA PendingBegins ==
    ASSUME NEW s \in Seq(Text \cup {NL}), NEW r \in WholeReads(s),
           NEW x, NEW y, Pending(s, x, y)
    PROVE  /\ r.packet \in Seq(Text \cup {NL}) /\ r.rest \in Seq(Text \cup {NL})
           /\ 1 \in DOMAIN r.packet /\ r.packet[1] \in Words
           /\ r.packet \notin {<<END, NL>>, <<END>>, <<DOLLAR, NL>>}
  <1>1. PICK n \in DOMAIN s :
           /\ r.packet \in Seq(Text \cup {NL}) /\ DOMAIN r.packet = 1 .. n
           /\ \A j \in 1 .. n : r.packet[j] = s[j]
           /\ r.rest \in Seq(Text \cup {NL})
    BY WholeReadParts
  <1>2. DOMAIN s = 1 .. Len(s) /\ Len(s) \in Nat
    BY LenProperties
  <1>3. 1 \in DOMAIN r.packet /\ r.packet[1] = s[1] /\ s # <<>>
    BY <1>1, <1>2
  <1>4. r.packet[1] \in Words
    BY <1>3 DEF Pending
  <1>5. r.packet \notin {<<END, NL>>, <<END>>, <<DOLLAR, NL>>}
    <2>1. /\ <<END, NL>>[1] = END /\ <<END>>[1] = END
          /\ <<DOLLAR, NL>>[1] = DOLLAR
      OBVIOUS
    <2> QED
      BY <1>4, <2>1, MarksAreNoWords
  <1> QED
    BY <1>1, <1>3, <1>4, <1>5

(* How often the words from x to e - 1 stand in a packet that has them.    *)
Holds(packet, x, e) ==
    \A w \in Words \cup {DOLLAR, PIECE} :
        Occurrences(packet, w) =
            IF w \in Words /\ x <= w /\ w < e THEN 1 ELSE 0

LEMMA TalliedCounts ==
    ASSUME NEW table, NEW counted, NEW packet, NEW x \in Nat, NEW e \in Nat,
           x <= e, Tallied(table, x), Holds(packet, x, e),
           CountsAll(table, packet, counted)
    PROVE  Tallied(counted, e)
  <1> SUFFICES ASSUME NEW w \in Words \cup {DOLLAR, PIECE}
               PROVE  counted[w] = IF w \in Words /\ w < e THEN 1 ELSE 0
    BY DEF Tallied
  <1>1. /\ table[w] = IF w \in Words /\ w < x THEN 1 ELSE 0
        /\ Occurrences(packet, w) =
              IF w \in Words /\ x <= w /\ w < e THEN 1 ELSE 0
        /\ counted[w] = table[w] + Occurrences(packet, w)
    BY DEF Tallied, Holds, CountsAll
  <1>2. CASE w \in Words
    <2>1. w \in Nat
      BY <1>2, WordsAreNumbers
    <2> QED
      BY <1>1, <1>2, <2>1
  <1>3. CASE w \notin Words
    BY <1>1, <1>3
  <1> QED
    BY <1>2, <1>3

(* A packet of the words from x to e - 1, each once, and marks.            *)
LEMMA HoldsOnce ==
    ASSUME NEW packet, NEW x, NEW e,
           \A j \in DOMAIN packet : packet[j] \in Words \cup {NL, END},
           \A j \in DOMAIN packet :
               packet[j] \in Words => x <= packet[j] /\ packet[j] < e,
           \A w \in Words : x <= w /\ w < e =>
               \E j \in DOMAIN packet : packet[j] = w,
           OnceIn(packet)
    PROVE  Holds(packet, x, e)
  <1> SUFFICES ASSUME NEW w \in Words \cup {DOLLAR, PIECE}
               PROVE  Occurrences(packet, w) =
                         IF w \in Words /\ x <= w /\ w < e THEN 1 ELSE 0
    BY DEF Holds
  <1>1. CASE w \in Words /\ x <= w /\ w < e
    <2>1. PICK j \in DOMAIN packet : packet[j] = w
      BY <1>1
    <2>2. \A h \in DOMAIN packet : packet[h] = w => h = j
      BY <1>1, <2>1 DEF OnceIn
    <2>3. Occurrences(packet, w) = 1
      BY <2>1, <2>2, OccursOnce
    <2> QED
      BY <1>1, <2>3
  <1>2. CASE ~(w \in Words /\ x <= w /\ w < e)
    <2>1. ASSUME NEW j \in DOMAIN packet, packet[j] = w
          PROVE  FALSE
      <3>1. DOLLAR \notin {NL, END} /\ PIECE \notin {NL, END}
        BY DEF DOLLAR, PIECE, NL, END
      <3> QED
        BY <1>2, <2>1, <3>1
    <2>2. Occurrences(packet, w) = 0
      BY <2>1, OccursNowhere
    <2> QED
      BY <1>2, <2>2
  <1> QED
    BY <1>1, <1>2

(* Such a packet without EOF has e - x texts.                              *)
LEMMA TextsAreWords ==
    ASSUME NEW packet, NEW x \in Nat, NEW e \in Nat, x <= e, e <= NumWords,
           \A j \in DOMAIN packet : packet[j] \in Words \cup {NL},
           \A j \in DOMAIN packet :
               packet[j] \in Words => x <= packet[j] /\ packet[j] < e,
           \A w \in Words : x <= w /\ w < e =>
               \E j \in DOMAIN packet : packet[j] = w,
           OnceIn(packet)
    PROVE  TextLen(packet) = e - x
  <1> DEFINE texts == {m \in DOMAIN packet : packet[m] # NL}
             place == [w \in x .. e - 1 |->
                          CHOOSE j \in DOMAIN packet : packet[j] = w]
  <1>1. \A w \in x .. e - 1 : w \in Words /\ x <= w /\ w < e
    BY ConfigAssumption DEF Words
  <1>2. \A w \in x .. e - 1 :
           place[w] \in DOMAIN packet /\ packet[place[w]] = w
    BY <1>1
  <1>3. texts = {m \in DOMAIN packet : packet[m] \in Words}
    BY MarksAreNoWords
  <1>4. place \in [x .. e - 1 -> texts]
    <2>1. \A w \in x .. e - 1 : place[w] \in texts
      BY <1>1, <1>2, <1>3
    <2> QED
      BY <2>1
  <1> HIDE DEF place
  <1>5. \A v, w \in x .. e - 1 : place[v] = place[w] => v = w
    BY <1>2
  <1>6. \A m \in texts : \E w \in x .. e - 1 : place[w] = m
    <2> SUFFICES ASSUME NEW m \in texts
                 PROVE  \E w \in x .. e - 1 : place[w] = m
      OBVIOUS
    <2>1. m \in DOMAIN packet /\ packet[m] \in Words
      BY <1>3
    <2>2. packet[m] \in x .. e - 1
      BY <2>1, WordsAreNumbers
    <2>3. place[packet[m]] = m
      BY <1>2, <2>1, <2>2 DEF OnceIn
    <2> QED
      BY <2>2, <2>3
  <1>7. ExistsBijection(x .. e - 1, texts)
    <2>1. place \in Injection(x .. e - 1, texts)
      <3>1. DOMAIN place = x .. e - 1
        BY <1>4
      <3> QED
        BY <1>4, <1>5, <3>1 DEF Injection, IsInjective
    <2>2. place \in Surjection(x .. e - 1, texts)
      BY <1>4, <1>6 DEF Surjection
    <2> QED
      BY <2>1, <2>2 DEF ExistsBijection, Bijection
  <1>8. IsFiniteSet(x .. e - 1) /\ Cardinality(x .. e - 1) = e - x
    <2>1. /\ IsFiniteSet(x .. e - 1)
          /\ Cardinality(x .. e - 1) = IF x > e - 1 THEN 0 ELSE e - 1 - x + 1
      BY FS_Interval
    <2> QED
      BY <2>1
  <1>9. Cardinality(texts) = Cardinality(x .. e - 1)
    BY <1>7, <1>8, FS_Bijection
  <1> QED
    BY <1>8, <1>9 DEF TextLen

(* Words in their order stand once.                                        *)
LEMMA RisingOnce ==
    ASSUME NEW s \in Seq(Text \cup {NL}),
           \A i, j \in DOMAIN s :
              i < j /\ s[i] \in Words /\ s[j] \in Words => s[i] < s[j]
    PROVE  OnceIn(s)
  <1> SUFFICES ASSUME NEW i \in DOMAIN s, NEW j \in DOMAIN s,
                      s[i] \in Words, s[i] = s[j]
               PROVE  i = j
    BY DEF OnceIn
  <1>1. i \in Nat /\ j \in Nat
    BY LenProperties
  <1>2. s[i] \in Nat
    BY WordsAreNumbers
  <1> QED
    BY <1>1, <1>2

(* Nothing is pending where all was read, and where nothing is pending all *)
(* was.                                                                    *)
LEMMA PendingEmpty ==
    ASSUME NEW s \in Seq(Text \cup {NL}), NEW x \in Nat, NEW y \in Nat,
           x <= y, Pending(s, x, y)
    PROVE  /\ x = y => s = <<>>
           /\ s = <<>> => x = y /\ y # NumWords
  <1>1. ASSUME x = y, s # <<>>
        PROVE  FALSE
    <2>1. 1 \in DOMAIN s
      <3>1. Len(s) # 0
        BY <1>1, NoLength
      <3> QED
        BY <3>1, LenProperties
    <2>2. s[1] \in Words /\ x <= s[1] /\ s[1] < y
      BY <1>1, <2>1 DEF Pending
    <2> QED
      BY <1>1, <2>2, WordsAreNumbers
  <1>2. ASSUME s = <<>>
        PROVE  x = y /\ y # NumWords
    <2>1. DOMAIN s = {}
      BY <1>2
    <2>2. y # NumWords /\ \A w \in x .. y - 1 : FALSE
      BY <2>1 DEF Pending
    <2>3. x \notin x .. y - 1
      BY <2>2
    <2> QED
      BY <2>2, <2>3
  <1> QED
    BY <1>1, <1>2

(* A whole recv without EOF returns the next words, and what it leaves     *)
(* holds the others.                                                       *)
LEMMA PendingReads ==
    ASSUME NEW s \in Seq(Text \cup {NL}), NEW r \in WholeReads(s),
           NEW x \in Nat, NEW y \in Nat, x <= y, y <= NumWords,
           Pending(s, x, y), ~HasEnd(r.packet)
    PROVE  \E e \in Nat :
              /\ x < e /\ e <= y
              /\ Pending(r.rest, e, y) /\ Holds(r.packet, x, e)
              /\ TextLen(r.packet) = e - x
              /\ Occurrences(r.packet, COMMA) = 0
  <1>1. PICK n \in DOMAIN s :
              /\ EndsSend(s, n)
              /\ r.packet \in Seq(Text \cup {NL}) /\ DOMAIN r.packet = 1 .. n
              /\ \A j \in 1 .. n : r.packet[j] = s[j]
              /\ r.rest \in Seq(Text \cup {NL})
              /\ Len(r.rest) = Len(s) - n
              /\ DOMAIN r.rest = 1 .. Len(s) - n
              /\ \A j \in 1 .. Len(s) - n : r.rest[j] = s[n + j]
    BY WholeReadParts
  <1> DEFINE e == IF n = Len(s) THEN y ELSE s[n + 1]
             L == Len(s)
             q == r.packet
             t == r.rest
  <1>2. L \in Nat /\ DOMAIN s = 1 .. L /\ n \in Nat /\ 1 <= n /\ n <= L
    BY LenProperties
  <1>3. /\ \A j \in DOMAIN s : s[j] \in Words \cup {NL, END}
        /\ \A j \in DOMAIN s : s[j] \in Words => x <= s[j] /\ s[j] < y
        /\ \A w \in x .. y - 1 : \E j \in DOMAIN s : s[j] = w
        /\ \A i, j \in DOMAIN s :
              i < j /\ s[i] \in Words /\ s[j] \in Words => s[i] < s[j]
        /\ (\E j \in DOMAIN s : s[j] = END) <=> y = NumWords
        /\ \A i, j \in DOMAIN s : s[i] = END /\ s[j] \in Words => j < i
        /\ s # <<>> => s[1] \in Words
        /\ \A m \in DOMAIN s : EndsSend(s, m) /\ m # Len(s) => s[m + 1] \in Words
    BY DEF Pending
  <1>4. n # L => n + 1 \in DOMAIN s /\ s[n + 1] \in Words /\ e = s[n + 1]
    BY <1>1, <1>2, <1>3
  <1>5. n = L => e = y
    OBVIOUS
  <1> HIDE DEF e
  <1>6. e \in Nat /\ e <= y
    BY <1>3, <1>4, <1>5, WordsAreNumbers
  <1>7. /\ \A j \in DOMAIN q : j \in DOMAIN s /\ q[j] = s[j] /\ j <= n /\ j \in Nat
        /\ \A j \in DOMAIN t : /\ n + j \in DOMAIN s /\ t[j] = s[n + j]
                               /\ j \in Nat /\ 1 <= j /\ n # L
        /\ \A j \in DOMAIN s :
              \/ j \in DOMAIN q
              \/ j - n \in DOMAIN t /\ t[j - n] = s[j] /\ j > n
    <2>1. \A j \in 1 .. n : j \in 1 .. L /\ j <= n /\ j \in Nat
      BY <1>2
    <2>2. \A j \in 1 .. L - n : n + j \in 1 .. L /\ j \in Nat /\ 1 <= j /\ n # L
      BY <1>2
    <2>3. \A j \in 1 .. L :
             \/ j \in 1 .. n
             \/ j - n \in 1 .. L - n /\ n + (j - n) = j /\ j > n
      BY <1>2
    <2>4. \A j \in DOMAIN s :
             \/ j \in DOMAIN q
             \/ j - n \in DOMAIN t /\ t[j - n] = s[j] /\ j > n
      BY <1>1, <1>2, <2>3
    <2> QED
      BY <1>1, <1>2, <2>1, <2>2, <2>4
  <1>8. \A j \in DOMAIN q : q[j] \in Words => x <= q[j] /\ q[j] < e
    <2> SUFFICES ASSUME NEW j \in DOMAIN q, q[j] \in Words
                 PROVE  x <= q[j] /\ q[j] < e
      OBVIOUS
    <2>1. j \in DOMAIN s /\ q[j] = s[j] /\ j < n + 1
      BY <1>2, <1>7
    <2>2. x <= s[j] /\ s[j] < y
      BY <1>3, <2>1
    <2>3. n # L => s[j] < s[n + 1]
      BY <1>3, <1>4, <2>1
    <2> QED
      BY <1>4, <1>5, <2>1, <2>2, <2>3
  <1>9. \A j \in DOMAIN t : t[j] \in Words => e <= t[j] /\ t[j] < y
    <2> SUFFICES ASSUME NEW j \in DOMAIN t, t[j] \in Words
                 PROVE  e <= t[j] /\ t[j] < y
      OBVIOUS
    <2>1. n + j \in DOMAIN s /\ t[j] = s[n + j] /\ n # L
      BY <1>7
    <2>2. j = 1 \/ n + 1 < n + j
      BY <1>2, <1>7
    <2>3. s[n + 1] = t[j] \/ s[n + 1] < t[j]
      BY <1>3, <1>4, <2>1, <2>2
    <2> QED
      BY <1>3, <1>4, <1>6, <2>1, <2>3, WordsAreNumbers
  <1>10. \A w \in x .. y - 1 :
            (\E j \in DOMAIN q : q[j] = w) \/ (\E j \in DOMAIN t : t[j] = w)
    <2> SUFFICES ASSUME NEW w \in x .. y - 1
                 PROVE  \/ \E j \in DOMAIN q : q[j] = w
                        \/ \E j \in DOMAIN t : t[j] = w
      OBVIOUS
    <2>1. PICK j \in DOMAIN s : s[j] = w
      BY <1>3
    <2> QED
      BY <1>7, <2>1
  <1>11. \A w \in x .. y - 1 : w \in Words
    BY ConfigAssumption DEF Words
  <1>12. \A w \in Words : x <= w /\ w < e => \E j \in DOMAIN q : q[j] = w
    <2> SUFFICES ASSUME NEW w \in Words, x <= w, w < e,
                        \A j \in DOMAIN q : q[j] # w
                 PROVE  FALSE
      OBVIOUS
    <2>1. w \in Nat /\ w \in x .. y - 1
      BY <1>6, WordsAreNumbers
    <2>2. PICK j \in DOMAIN t : t[j] = w
      BY <1>10, <2>1
    <2> QED
      BY <1>6, <1>9, <2>1, <2>2
  <1>13. \A w \in e .. y - 1 : \E j \in DOMAIN t : t[j] = w
    <2> SUFFICES ASSUME NEW w \in e .. y - 1,
                        \A j \in DOMAIN t : t[j] # w
                 PROVE  FALSE
      OBVIOUS
    <2>1. \A j \in DOMAIN q : q[j] \in Words => q[j] < e
      BY <1>8
    <2>2. x <= e
      <3>1. 1 \in DOMAIN q /\ q[1] \in Words
        <4>1. 1 \in 1 .. n /\ 1 \in DOMAIN s /\ s # <<>>
          BY <1>2
        <4> QED
          BY <1>1, <1>3, <4>1
      <3> QED
        BY <1>6, <1>8, <3>1, WordsAreNumbers
    <2>3. w \in x .. y - 1
      BY <1>6, <2>2
    <2>4. PICK j \in DOMAIN q : q[j] = w
      BY <1>10, <2>3
    <2> QED
      BY <1>6, <1>11, <2>1, <2>3, <2>4
  <1>14. x < e
    <2>1. 1 \in DOMAIN q /\ q[1] \in Words
      <3>1. 1 \in 1 .. n /\ 1 \in DOMAIN s /\ s # <<>>
        BY <1>2
      <3> QED
        BY <1>1, <1>3, <3>1
    <2> QED
      BY <1>6, <1>8, <2>1, WordsAreNumbers
  <1>15. \A j \in DOMAIN q : q[j] \in Words \cup {NL}
    BY <1>3, <1>7 DEF HasEnd
  <1>16. \A i, j \in DOMAIN q :
            i < j /\ q[i] \in Words /\ q[j] \in Words => q[i] < q[j]
    BY <1>3, <1>7
  <1>17. OnceIn(q)
    BY <1>1, <1>16, RisingOnce
  <1>18. Holds(q, x, e)
    BY <1>8, <1>12, <1>15, <1>17, HoldsOnce
  <1>19. e <= NumWords
    BY <1>6, ConfigAssumption
  <1>20. TextLen(q) = e - x
    BY <1>6, <1>8, <1>12, <1>14, <1>15, <1>17, <1>19, TextsAreWords
  <1>21. Occurrences(q, COMMA) = 0
    <2>1. COMMA # NL
      BY DEF COMMA, NL
    <2>2. \A j \in DOMAIN q : q[j] # COMMA
      BY <1>15, <2>1, MarksAreNoWords
    <2> QED
      BY <2>2, OccursNowhere
  <1>22. Pending(t, e, y)
    <2>1. \A j \in DOMAIN t : t[j] \in Words \cup {NL, END}
      BY <1>3, <1>7
    <2>2. \A i, j \in DOMAIN t :
             i < j /\ t[i] \in Words /\ t[j] \in Words => t[i] < t[j]
      <3> SUFFICES ASSUME NEW i \in DOMAIN t, NEW j \in DOMAIN t, i < j,
                          t[i] \in Words, t[j] \in Words
                   PROVE  t[i] < t[j]
        OBVIOUS
      <3>1. n + i < n + j
        BY <1>2, <1>7
      <3> QED
        BY <1>3, <1>7, <3>1
    <2>3. (\E j \in DOMAIN t : t[j] = END) <=> y = NumWords
      <3>1. \A j \in DOMAIN q : q[j] # END
        BY DEF HasEnd
      <3>2. ASSUME NEW j \in DOMAIN s, s[j] = END
            PROVE  \E a \in DOMAIN t : t[a] = END
        BY <1>7, <3>1, <3>2
      <3>3. ASSUME NEW j \in DOMAIN t, t[j] = END
            PROVE  \E a \in DOMAIN s : s[a] = END
        BY <1>7, <3>3
      <3> QED
        BY <1>3, <3>2, <3>3
    <2>4. \A i, j \in DOMAIN t : t[i] = END /\ t[j] \in Words => j < i
      <3> SUFFICES ASSUME NEW i \in DOMAIN t, NEW j \in DOMAIN t,
                          t[i] = END, t[j] \in Words
                   PROVE  j < i
        OBVIOUS
      <3>1. n + j < n + i
        BY <1>3, <1>7
      <3> QED
        BY <1>2, <1>7, <3>1
    <2>5. t # <<>> => t[1] \in Words
      <3> SUFFICES ASSUME t # <<>>
                   PROVE  t[1] \in Words
        OBVIOUS
      <3>1. Len(t) # 0 /\ Len(t) = L - n
        BY <1>1, NoLength
      <3>2. 1 \in 1 .. L - n
        BY <1>2, <3>1
      <3>3. n # L /\ t[1] = s[n + 1]
        BY <1>1, <1>7, <3>2
      <3> QED
        BY <1>4, <3>3
    <2>6. \A m \in DOMAIN t : EndsSend(t, m) /\ m # Len(t) => t[m + 1] \in Words
      <3> SUFFICES ASSUME NEW m \in DOMAIN t, EndsSend(t, m), m # Len(t)
                   PROVE  t[m + 1] \in Words
        OBVIOUS
      <3>1. m \in 1 .. L - n /\ m # L - n
        BY <1>1
      <3>2. m + 1 \in DOMAIN t /\ n + m # L /\ n + (m + 1) = (n + m) + 1
        BY <1>1, <1>2, <3>1
      <3>3. s[n + m] = NL /\ s[(n + m) + 1] = t[m + 1] /\ t[m + 1] # END
        BY <1>7, <3>2 DEF EndsSend
      <3>4. n + m \in DOMAIN s /\ EndsSend(s, n + m) /\ n + m # Len(s)
        BY <1>7, <3>2, <3>3 DEF EndsSend
      <3> QED
        BY <1>3, <3>3, <3>4
    <2> QED
      BY <1>9, <1>13, <2>1, <2>2, <2>3, <2>4, <2>5, <2>6 DEF Pending
  <1> QED
    BY <1>6, <1>14, <1>18, <1>20, <1>21, <1>22

(* With EOF it returns all that was left of the file, before EOF.          *)
LEMMA PendingEnd ==
    ASSUME NEW s \in Seq(Text \cup {NL}), NEW r \in WholeReads(s),
           NEW x \in Nat, NEW y \in Nat, x <= y, Pending(s, x, y),
           NEW m \in 0 .. Len(r.packet) - 1, BeforeEnd(r.packet, m)
    PROVE  /\ y = NumWords /\ Holds(First(r.packet, m), x, NumWords)
           /\ TextLen(First(r.packet, m)) = NumWords - x
  <1>1. PICK n \in DOMAIN s :
              /\ r.packet \in Seq(Text \cup {NL}) /\ DOMAIN r.packet = 1 .. n
              /\ Len(r.packet) = n
              /\ \A j \in 1 .. n : r.packet[j] = s[j]
    BY WholeReadParts
  <1> DEFINE q == First(r.packet, m)
  <1>2. n \in Nat /\ DOMAIN s = 1 .. Len(s) /\ Len(s) \in Nat /\ n <= Len(s)
    BY LenProperties
  <1>3. m \in Nat /\ m + 1 \in 1 .. n /\ m \in 0 .. Len(r.packet)
    BY <1>1, <1>2
  <1>4. m + 1 \in DOMAIN s /\ s[m + 1] = END
    BY <1>1, <1>2, <1>3 DEF BeforeEnd
  <1>5. y = NumWords
    BY <1>4 DEF Pending
  <1>6. /\ q \in Seq(Text \cup {NL}) /\ Len(q) = m
        /\ \A j \in 1 .. m : q[j] = r.packet[j]
    BY <1>1, <1>3, PrefixType
  <1>7. DOMAIN q = 1 .. m
    BY <1>6, LenProperties
  <1> HIDE DEF q
  <1>8. \A j \in DOMAIN q : j \in DOMAIN s /\ q[j] = s[j]
    <2>1. \A j \in 1 .. m : j \in 1 .. n /\ j \in 1 .. Len(s)
      BY <1>2, <1>3
    <2> QED
      BY <1>1, <1>2, <1>6, <1>7, <2>1
  <1>9. \A j \in DOMAIN q : q[j] \in Words \cup {NL, END}
    BY <1>8 DEF Pending
  <1>10. \A j \in DOMAIN q : q[j] \in Words => x <= q[j] /\ q[j] < NumWords
    BY <1>5, <1>8 DEF Pending
  <1>11. \A w \in Words : x <= w /\ w < NumWords => \E j \in DOMAIN q : q[j] = w
    <2> SUFFICES ASSUME NEW w \in Words, x <= w
                 PROVE  \E j \in DOMAIN q : q[j] = w
      OBVIOUS
    <2>1. w \in x .. y - 1
      BY <1>5, ConfigAssumption DEF Words
    <2>2. PICK j \in DOMAIN s : s[j] = w
      BY <2>1 DEF Pending
    <2>3. j < m + 1
      BY <1>4, <2>2 DEF Pending
    <2>4. j \in DOMAIN q
      BY <1>2, <1>3, <1>7, <2>3
    <2> QED
      BY <1>8, <2>2, <2>4
  <1>12. \A i, j \in DOMAIN q :
            i < j /\ q[i] \in Words /\ q[j] \in Words => q[i] < q[j]
    BY <1>8 DEF Pending
  <1>13. OnceIn(q)
    BY <1>6, <1>12, RisingOnce
  <1>14. Holds(q, x, NumWords)
    BY <1>9, <1>10, <1>11, <1>13, HoldsOnce
  <1>15. \A j \in DOMAIN q : q[j] \in Words \cup {NL}
    BY <1>6, <1>7, <1>9 DEF BeforeEnd
  <1>16. TextLen(q) = NumWords - x
    BY <1>5, <1>10, <1>11, <1>13, <1>15, TextsAreWords
  <1> QED
    BY <1>5, <1>14, <1>16 DEF q

(* The handler takes the request.                                          *)
LEMMA TakesRequest ==
    ASSUME NEW table, NEW s, NEW reqs, NEW off \in Nat,
           NEW m \in 1 .. Len(reqs), Requested(table, s, reqs, off)
    PROVE  /\ Head(reqs) = off /\ off < NumWords
           /\ Answered(table, s, Rest(reqs, m), off, off, off)
  <1>1. s = <<>> /\ reqs = <<off>> /\ off < NumWords /\ Tallied(table, off)
    BY DEF Requested
  <1>2. Head(reqs) = off
    BY <1>1
  <1>3. Rest(reqs, m) = <<>>
    <2>1. m = 1 /\ Len(reqs) = 1
      BY <1>1
    <2> QED
      BY <1>1, <2>1 DEF Rest
  <1>4. Pending(s, off, off)
    BY <1>1, PendingNone
  <1>5. off <= off /\ off <= BatchEnd(off) /\ off < BatchEnd(off)
    BY <1>1, ConfigAssumption DEF BatchEnd
  <1> HIDE DEF BatchEnd
  <1> QED
    BY <1>1, <1>2, <1>3, <1>4, <1>5 DEF Answered

(* It sends the next words.                                                *)
LEMMA SendsWords ==
    ASSUME NEW table, NEW s \in Seq(Text \cup {NL}),
           NEW u \in Seq(Text \cup {NL}), NEW reqs, NEW off \in Nat,
           NEW x \in Nat, NEW y \in Nat, NEW b \in Nat,
           Answered(table, s, reqs, off, x, y), y < b, b <= BatchEnd(off),
           u # <<>>, Pending(u, y, b)
    PROVE  Answered(table, s \o u, reqs, off, x, b)
  <1>1. BatchEnd(off) \in Nat /\ BatchEnd(off) <= NumWords /\ NumWords \in Nat
    BY BatchEndProperties, ConfigAssumption
  <1>2. x <= y /\ Pending(s, x, y)
    BY DEF Answered
  <1> HIDE DEF BatchEnd
  <1>3. y # NumWords /\ y <= b /\ x <= b
    BY <1>1, <1>2
  <1>4. Pending(s \o u, x, b)
    BY <1>2, <1>3, PendingConcat
  <1> QED
    BY <1>3, <1>4 DEF Answered

(* Where something can be read, something was sent.                        *)
LEMMA NothingToRead == WholeReads(<<>>) = {}
  BY DEF WholeReads

(* The client reads all that was left of the file.                         *)
LEMMA ReadsEnd ==
    ASSUME NEW table, NEW s \in Seq(Text \cup {NL}), NEW r \in WholeReads(s),
           NEW reqs, NEW off \in Nat, NEW x \in Nat, NEW y \in Nat,
           Answered(table, s, reqs, off, x, y),
           NEW m \in 0 .. Len(r.packet) - 1, BeforeEnd(r.packet, m),
           NEW counted, CountsAll(table, First(r.packet, m), counted)
    PROVE  y = NumWords /\ Tallied(counted, NumWords)
  <1>1. Tallied(table, x) /\ Pending(s, x, y) /\ x <= y
    BY DEF Answered
  <1>2. y = NumWords /\ Holds(First(r.packet, m), x, NumWords)
    BY <1>1, PendingEnd
  <1> QED
    BY <1>1, <1>2, ConfigAssumption, TalliedCounts

LEMMA ReadsRest ==
    ASSUME NEW table, NEW s \in Seq(Text \cup {NL}), NEW r \in WholeReads(s),
           NEW reqs, NEW off \in Nat, NEW x \in Nat, NEW y \in Nat,
           Answered(table, s, reqs, off, x, y),
           NEW m \in 0 .. Len(r.packet) - 1, BeforeEnd(r.packet, m),
           NEW q, q = First(r.packet, m)
    PROVE  TextLen(q) = NumWords - x
  BY PendingEnd DEF Answered

(* The client reads some words: the rest of the window, or not all of it.  *)
LEMMA ReadsWords ==
    ASSUME NEW table, NEW s \in Seq(Text \cup {NL}), NEW r \in WholeReads(s),
           NEW reqs, NEW off \in Nat, NEW x \in Nat, NEW y \in Nat,
           Answered(table, s, reqs, off, x, y), ~HasEnd(r.packet),
           NEW counted, CountsAll(table, r.packet, counted)
    PROVE  \E e \in Nat :
              /\ off < e /\ x < e /\ e <= off + k
              /\ TextLen(r.packet) = e - x /\ Occurrences(r.packet, COMMA) = 0
              /\ e = off + k =>
                    /\ Requested(counted, r.rest, <<e>>, e)
                    /\ y = BatchEnd(off) /\ y < NumWords
              /\ e # off + k => Answered(counted, r.rest, reqs, off, e, y)
  <1>1. /\ reqs = <<>> /\ off <= x /\ x <= y /\ y <= BatchEnd(off)
        /\ x < BatchEnd(off) /\ Tallied(table, x) /\ Pending(s, x, y)
    BY DEF Answered
  <1>2. /\ NumWords \in Nat /\ k \in Nat /\ BatchEnd(off) \in Nat
        /\ BatchEnd(off) <= NumWords /\ BatchEnd(off) <= off + k
        /\ BatchEnd(off) # off + k => BatchEnd(off) = NumWords
    BY ConfigAssumption DEF BatchEnd
  <1> HIDE DEF BatchEnd
  <1>3. y <= NumWords /\ y <= off + k
    BY <1>1, <1>2
  <1>4. PICK e \in Nat :
              /\ x < e /\ e <= y
              /\ Pending(r.rest, e, y) /\ Holds(r.packet, x, e)
              /\ TextLen(r.packet) = e - x
              /\ Occurrences(r.packet, COMMA) = 0
    BY <1>1, <1>3, PendingReads
  <1>5. Tallied(counted, e)
    BY <1>1, <1>4, TalliedCounts
  <1>6. r.rest \in Seq(Text \cup {NL})
    BY <1>1, PendingBegins
  <1>7. /\ e = y => r.rest = <<>>
        /\ r.rest = <<>> => e = y /\ y # NumWords
    BY <1>4, <1>6, PendingEmpty
  <1>8. e <= off + k /\ off < e /\ off <= e
    BY <1>1, <1>2, <1>3, <1>4
  <1>9. ASSUME e = off + k
        PROVE  /\ Requested(counted, r.rest, <<e>>, e)
               /\ y = BatchEnd(off) /\ y < NumWords
    <2>1. e = y /\ y = BatchEnd(off) /\ y < NumWords
      BY <1>1, <1>2, <1>3, <1>4, <1>7, <1>9
    <2> QED
      BY <1>5, <1>7, <2>1 DEF Requested
  <1>10. ASSUME e # off + k
         PROVE  Answered(counted, r.rest, reqs, off, e, y)
    <2>1. e < BatchEnd(off)
      BY <1>1, <1>2, <1>3, <1>4, <1>7, <1>10
    <2> QED
      BY <1>1, <1>4, <1>5, <1>8, <2>1 DEF Answered
  <1> QED
    BY <1>4, <1>8, <1>9, <1>10

(* Multiples of k.                                                         *)
LEMMA IsMultiple ==
    ASSUME NEW o \in Nat, o % k = 0
    PROVE  \E a \in Nat : o = a * k
  BY ConfigAssumption

LEMMA MultipleIs ==
    ASSUME NEW a \in Nat, NEW o, o = a * k
    PROVE  o % k = 0
  BY ConfigAssumption

LEMMA Remainder ==
    ASSUME NEW a \in Nat, NEW d \in 1 .. k - 1, NEW o, o = a * k + d
    PROVE  o % k = d
  BY ConfigAssumption

LEMMA NextMultiple ==
    ASSUME NEW a \in Nat
    PROVE  a * k + k = (a + 1) * k
  BY ConfigAssumption

LEMMA UpToBatch == \A n \in 1 .. k : n % k = 0 <=> n = k
  BY ConfigAssumption

LEMMA PastBatches ==
    ASSUME NEW o \in Nat, o % k = 0, NEW d \in 1 .. k
    PROVE  (o + d) % k = 0 <=> d = k
  <1>1. PICK a \in Nat : o = a * k
    BY IsMultiple
  <1>2. CASE d = k
    <2>1. a * k + k = (a + 1) * k
      BY NextMultiple
    <2>2. a + 1 \in Nat /\ o + d = (a + 1) * k
      BY <1>1, <1>2, <2>1
    <2>3. (o + d) % k = 0
      BY <2>2, MultipleIs
    <2> QED
      BY <1>2, <2>3
  <1>3. CASE d # k
    <2>1. d \in 1 .. k - 1
      BY ConfigAssumption, <1>3
    <2>2. (o + d) % k = d
      BY <1>1, <2>1, Remainder
    <2> QED
      BY <2>1, <2>2, <1>3, ConfigAssumption
  <1> QED
    BY <1>2, <1>3

-----------------------------------------------------------------------------
(* Where every recv ends where a send ended, the stream ends there too, so *)
(* that what is there can be read.                                         *)
EndsInNewline(s) == s # <<>> => s[Len(s)] = NL

LEMMA EndedConcat ==
    ASSUME NEW s \in Seq(Text \cup {NL}), NEW u \in Seq(Text \cup {NL}),
           u # <<>>, EndsInNewline(u)
    PROVE  EndsInNewline(s \o u) /\ s \o u # <<>>
  <1>1. /\ Len(s) \in Nat /\ Len(u) \in Nat
        /\ Len(s \o u) = Len(s) + Len(u)
        /\ \A j \in 1 .. Len(s) + Len(u) :
              (s \o u)[j] = IF j <= Len(s) THEN s[j] ELSE u[j - Len(s)]
    BY ConcatProperties, LenProperties
  <1>2. Len(u) # 0 /\ u[Len(u)] = NL
    BY NoLength DEF EndsInNewline
  <1>3. /\ Len(s) + Len(u) \in 1 .. Len(s) + Len(u)
        /\ ~(Len(s) + Len(u) <= Len(s))
        /\ Len(s) + Len(u) - Len(s) = Len(u)
    BY <1>1, <1>2
  <1>4. s \o u # <<>>
    BY <1>1, <1>2
  <1> QED
    BY <1>1, <1>2, <1>3, <1>4 DEF EndsInNewline

LEMMA EndedReads ==
    ASSUME NEW s \in Seq(Text \cup {NL}), EndsInNewline(s),
           NEW r \in WholeReads(s)
    PROVE  EndsInNewline(r.rest)
  <1>1. PICK n \in DOMAIN s :
           /\ r.rest \in Seq(Text \cup {NL})
           /\ Len(r.rest) = Len(s) - n
           /\ \A j \in 1 .. Len(s) - n : r.rest[j] = s[n + j]
    BY WholeReadParts
  <1>2. n \in 1 .. Len(s) /\ Len(s) \in Nat
    BY LenProperties
  <1>3. ASSUME r.rest # <<>>
        PROVE  r.rest[Len(r.rest)] = NL
    <2>1. Len(r.rest) # 0
      BY <1>1, <1>3, NoLength
    <2>2. /\ Len(s) - n \in 1 .. Len(s) - n
          /\ n + (Len(s) - n) = Len(s)
      <3>1. \A i, l \in Nat : i \in 1 .. l /\ l - i # 0 =>
               l - i \in 1 .. l - i /\ i + (l - i) = l
        OBVIOUS
      <3>2. n \in Nat /\ Len(s) - n # 0
        BY <1>1, <1>2, <2>1
      <3> QED
        BY <1>2, <3>1, <3>2, Zenon
    <2>3. s[Len(s)] = NL
      BY <1>2 DEF EndsInNewline
    <2> QED
      BY <1>1, <2>2, <2>3
  <1> QED
    BY <1>3 DEF EndsInNewline

LEMMA EndedReadable ==
    ASSUME NEW s \in Seq(Text \cup {NL}), EndsInNewline(s), s # <<>>
    PROVE  WholeReads(s) # {}
  <1>1. Len(s) \in DOMAIN s
    <2>1. Len(s) \in Nat /\ Len(s) # 0
      BY NoLength, LenProperties
    <2> QED
      BY <2>1, LenProperties
  <1>2. EndsSend(s, Len(s))
    BY DEF EndsSend, EndsInNewline
  <1> QED
    BY <1>1, <1>2 DEF WholeReads

-----------------------------------------------------------------------------
(* The table of the words before b.                                        *)
Full(b) == [e \in Entry |-> IF e \in Words /\ e < b THEN 1 ELSE 0]

LEMMA FullCounts ==
    ASSUME NEW a \in Nat, NEW b \in Nat, a <= b
    PROVE  CountAll(Full(a), Run(a, b)) = Full(b)
  <1> SUFFICES ASSUME NEW e \in Entry
               PROVE  Full(a)[e] + Occurrences(Run(a, b), e) = Full(b)[e]
    BY DEF CountAll, Full
  <1>1. /\ \A w \in Nat : a <= w /\ w < b => Occurrences(Run(a, b), w) = 1
        /\ \A w \in Int : w < a \/ b <= w => Occurrences(Run(a, b), w) = 0
    BY RunOccurrences
  <1>2. /\ Full(a)[e] = IF e \in Words /\ e < a THEN 1 ELSE 0
        /\ Full(b)[e] = IF e \in Words /\ e < b THEN 1 ELSE 0
    BY DEF Full
  <1>3. CASE e \in Words
    <2>1. e \in Nat
      BY <1>3, WordsAreNumbers
    <2> QED
      BY <1>1, <1>2, <1>3, <2>1
  <1>4. CASE e \notin Words
    <2>1. e \in Int /\ e < a
      BY <1>4 DEF Entry, HUH
    <2> QED
      BY <1>1, <1>2, <1>4, <2>1
  <1> QED
    BY <1>3, <1>4
=============================================================================
