--------------------------- MODULE WordFile_proofs ---------------------------
(***************************************************************************)
(* Lemmas about the operators of WordFile and about what a recv takes from *)
(* a sequence, cited by the proofs about the components.                   *)
(***************************************************************************)
EXTENDS WordFile, SequenceTheorems, FiniteSetTheorems, TLAPS

(* A run of words is a sequence, as long as the distance it covers, and    *)
(* its j-th element is the j-th word from its start.                       *)
LEMMA RunProperties ==
    ASSUME NEW a \in Nat, NEW b \in Nat
    PROVE  /\ Run(a, b) \in Seq(Nat)
           /\ Len(Run(a, b)) = IF a < b THEN b - a ELSE 0
           /\ \A j \in 1 .. Len(Run(a, b)) : Run(a, b)[j] = a + j - 1
  BY DEF Run

LEMMA RunOfNumbers == \A a, b \in Nat : Run(a, b) \in Seq(Int)
  BY DEF Run

(* The words of a run that ends inside the file are words of the file.     *)
LEMMA RunInFile ==
    ASSUME NEW a \in Nat, NEW b \in Nat, b <= NumWords
    PROVE  Run(a, b) \in Seq(Words)
  BY ConfigAssumption DEF Run, Words

(* A batch never reaches past the end of the file.                         *)
LEMMA BatchEndProperties ==
    ASSUME NEW o \in Nat
    PROVE  /\ BatchEnd(o) \in Nat
           /\ BatchEnd(o) <= NumWords
           /\ BatchEnd(o) <= o + k
           /\ BatchEnd(o) = o + k \/ BatchEnd(o) = NumWords
           /\ o < NumWords => o < BatchEnd(o)
  BY ConfigAssumption DEF BatchEnd

(* How often a token stands in a finite sequence is a number.              *)
LEMMA OccurrencesType ==
    ASSUME NEW S, NEW s \in Seq(S), NEW t
    PROVE  /\ IsFiniteSet({j \in DOMAIN s : s[j] = t})
           /\ Occurrences(s, t) \in Nat
  <1>1. DOMAIN s = 1 .. Len(s) /\ Len(s) \in Nat
    BY LenProperties
  <1>2. IsFiniteSet(DOMAIN s)
    BY <1>1, FS_Interval
  <1>3. {j \in DOMAIN s : s[j] = t} \in SUBSET (DOMAIN s)
    OBVIOUS
  <1>4. IsFiniteSet({j \in DOMAIN s : s[j] = t})
    BY <1>2, <1>3, FS_Subset
  <1> QED
    BY <1>4, FS_CardinalityType DEF Occurrences

(* Counting leaves a table of numbers.                                     *)
LEMMA CountAllType ==
    ASSUME NEW S, NEW s \in Seq(S), NEW table \in [Entry -> Nat]
    PROVE  CountAll(table, s) \in [Entry -> Nat]
  <1> SUFFICES ASSUME NEW e \in Entry
               PROVE  table[e] + Occurrences(s, e) \in Nat
    BY DEF CountAll
  <1>1. Occurrences(s, e) \in Nat
    BY OccurrencesType, Zenon
  <1> QED
    BY <1>1

(* What one recv takes and what it leaves.                                 *)
LEMMA TakeProperties ==
    ASSUME NEW S, NEW s \in Seq(S), NEW m \in 1 .. Len(s)
    PROVE  /\ SubSeq(s, 1, m) \in Seq(S)
           /\ Len(SubSeq(s, 1, m)) = m
           /\ \A j \in 1 .. m : SubSeq(s, 1, m)[j] = s[j]
           /\ SubSeq(s, m + 1, Len(s)) \in Seq(S)
           /\ Len(SubSeq(s, m + 1, Len(s))) = Len(s) - m
           /\ \A j \in 1 .. Len(s) - m : SubSeq(s, m + 1, Len(s))[j] = s[m + j]
  <1>1. m \in Int /\ 1 \in Int /\ m + 1 \in Int /\ Len(s) \in Nat
    BY LenProperties
  <1>2. \A j \in 1 .. m : s[j] \in S
    BY <1>1, ElementOfSeq
  <1>3. \A j \in m + 1 .. Len(s) : s[j] \in S
    BY <1>1, ElementOfSeq
  <1>4. /\ SubSeq(s, 1, m) \in Seq(S)
        /\ Len(SubSeq(s, 1, m)) = m
        /\ \A j \in 1 .. m : SubSeq(s, 1, m)[j] = s[j]
    <2>1. /\ SubSeq(s, 1, m) \in Seq(S)
          /\ Len(SubSeq(s, 1, m)) = IF 1 <= m THEN m - 1 + 1 ELSE 0
          /\ \A j \in 1 .. m - 1 + 1 : SubSeq(s, 1, m)[j] = s[1 + j - 1]
      BY <1>1, <1>2, SubSeqProperties
    <2> QED
      BY <2>1, <1>1
  <1>5. /\ SubSeq(s, m + 1, Len(s)) \in Seq(S)
        /\ Len(SubSeq(s, m + 1, Len(s))) = Len(s) - m
        /\ \A j \in 1 .. Len(s) - m : SubSeq(s, m + 1, Len(s))[j] = s[m + j]
    <2>1. /\ SubSeq(s, m + 1, Len(s)) \in Seq(S)
          /\ Len(SubSeq(s, m + 1, Len(s)))
               = IF m + 1 <= Len(s) THEN Len(s) - (m + 1) + 1 ELSE 0
          /\ \A j \in 1 .. Len(s) - (m + 1) + 1 :
                SubSeq(s, m + 1, Len(s))[j] = s[m + 1 + j - 1]
      BY <1>1, <1>3, SubSeqProperties
    <2> QED
      BY <2>1, <1>1
  <1> QED
    BY <1>4, <1>5

(* Where the elements of a concatenation come from.                        *)
LEMMA ConcatParts ==
    ASSUME NEW S, NEW s \in Seq(S), NEW t \in Seq(S)
    PROVE  /\ s \o t \in Seq(S)
           /\ Len(s \o t) = Len(s) + Len(t)
           /\ \A j \in 1 .. Len(s) : (s \o t)[j] = s[j]
           /\ \A j \in 1 .. Len(t) : (s \o t)[Len(s) + j] = t[j]
  <1>1. Len(s) \in Nat /\ Len(t) \in Nat
    BY LenProperties
  <1>2. ASSUME NEW j \in 1 .. Len(t)
        PROVE  (s \o t)[Len(s) + j] = t[j]
    BY <1>1, ConcatProperties
  <1>3. ASSUME NEW j \in 1 .. Len(s)
        PROVE  (s \o t)[j] = s[j]
    BY <1>1, ConcatProperties
  <1> QED
    BY <1>2, <1>3, ConcatProperties

LEMMA Associative ==
    ASSUME NEW S, NEW s \in Seq(S), NEW t \in Seq(S), NEW u \in Seq(S)
    PROVE  (s \o t) \o u = s \o (t \o u)
  BY ConcatAssociative

LEMMA NoLength ==
    ASSUME NEW S, NEW s \in Seq(S), Len(s) = 0
    PROVE  s = <<>>
  BY EmptySeq

(* A part that is not empty ends inside the whole.                         *)
LEMMA PartEnds ==
    ASSUME NEW a \in Nat, NEW b \in Nat \ {0}, NEW d \in Nat
    PROVE  a + b \in 1 .. a + b + d
  OBVIOUS

-----------------------------------------------------------------------------
(* Tables of the words before some offset.                                 *)

(* A token stands once where it stands at one place, and not at all where  *)
(* it stands nowhere.                                                      *)
LEMMA OccursOnce ==
    ASSUME NEW s, NEW t, NEW j \in DOMAIN s, s[j] = t,
           \A h \in DOMAIN s : s[h] = t => h = j
    PROVE  Occurrences(s, t) = 1
  <1>1. {h \in DOMAIN s : s[h] = t} = {j}
    OBVIOUS
  <1> QED
    BY <1>1, FS_Singleton DEF Occurrences

LEMMA OccursNowhere ==
    ASSUME NEW s, NEW t, \A h \in DOMAIN s : s[h] # t
    PROVE  Occurrences(s, t) = 0
  <1>1. {h \in DOMAIN s : s[h] = t} = {}
    OBVIOUS
  <1> QED
    BY <1>1, FS_EmptySet DEF Occurrences

(* A run holds each of its words once and nothing else.                    *)
LEMMA RunOccurrences ==
    ASSUME NEW a \in Nat, NEW b \in Nat
    PROVE  /\ \A w \in Nat : a <= w /\ w < b => Occurrences(Run(a, b), w) = 1
           /\ \A w \in Int : w < a \/ b <= w => Occurrences(Run(a, b), w) = 0
  <1> DEFINE r == Run(a, b)
  <1>1. /\ DOMAIN r = 1 .. (IF a < b THEN b - a ELSE 0)
        /\ \A h \in DOMAIN r : r[h] = a + h - 1
    BY DEF Run
  <1> HIDE DEF r
  <1>2. ASSUME NEW w \in Nat, a <= w, w < b
        PROVE  Occurrences(r, w) = 1
    <2>1. w - a + 1 \in DOMAIN r /\ r[w - a + 1] = w
      BY <1>1, <1>2
    <2>2. \A h \in DOMAIN r : r[h] = w => h = w - a + 1
      BY <1>1, <1>2
    <2> QED
      BY <2>1, <2>2, OccursOnce
  <1>3. ASSUME NEW w \in Int, w < a \/ b <= w
        PROVE  Occurrences(r, w) = 0
    <2>1. \A h \in DOMAIN r : r[h] # w
      BY <1>1, <1>3
    <2> QED
      BY <2>1, OccursNowhere
  <1> QED
    BY <1>2, <1>3 DEF r

(* The same with a HUH! behind it.                                         *)
LEMMA LossOccurrences ==
    ASSUME NEW a \in Nat, NEW b \in Nat
    PROVE  LET s == Append(Run(a, b), HUH)
           IN  /\ \A w \in Nat : a <= w /\ w < b => Occurrences(s, w) = 1
               /\ \A w \in Nat : w < a \/ b <= w => Occurrences(s, w) = 0
               /\ Occurrences(s, HUH) = 1
  <1> DEFINE r == Run(a, b)
             s == Append(r, HUH)
             n == IF a < b THEN b - a ELSE 0
  <1>1. /\ n \in Nat /\ DOMAIN s = 1 .. n + 1
        /\ \A h \in 1 .. n : s[h] = a + h - 1
        /\ s[n + 1] = -1
    <2>1. r \in Seq(Int) /\ Len(r) = n
      BY DEF Run
    <2>2. \A h \in 1 .. n : r[h] = a + h - 1
      BY DEF Run
    <2>3. HUH = -1
      BY DEF HUH
    <2> HIDE DEF r
    <2> QED
      BY <2>1, <2>2, <2>3
  <1> HIDE DEF s
  <1>2. ASSUME NEW w \in Nat, a <= w, w < b
        PROVE  Occurrences(s, w) = 1
    <2>1. w - a + 1 \in DOMAIN s /\ s[w - a + 1] = w
      BY <1>1, <1>2
    <2>2. \A h \in DOMAIN s : s[h] = w => h = w - a + 1
      BY <1>1, <1>2
    <2> QED
      BY <2>1, <2>2, OccursOnce
  <1>3. ASSUME NEW w \in Nat, w < a \/ b <= w
        PROVE  Occurrences(s, w) = 0
    <2>1. \A h \in DOMAIN s : s[h] # w
      BY <1>1, <1>3
    <2> QED
      BY <2>1, OccursNowhere
  <1>4. Occurrences(s, HUH) = 1
    <2>1. n + 1 \in DOMAIN s /\ s[n + 1] = -1
      BY <1>1
    <2>2. \A h \in DOMAIN s : s[h] = -1 => h = n + 1
      BY <1>1
    <2> QED
      BY <2>1, <2>2, OccursOnce DEF HUH
  <1> QED
    BY <1>2, <1>3, <1>4 DEF s

LEMMA UncountedFinite ==
    ASSUME NEW table, NEW b
    PROVE  IsFiniteSet(Uncounted(table, b))
  <1>1. IsFiniteSet(Words)
    BY ConfigAssumption, FS_Interval DEF Words
  <1> QED
    BY <1>1, FS_Subset DEF Uncounted

(* An empty table accounts for nothing.                                    *)
LEMMA AccountsNone ==
    /\ EmptyTable \in [Entry -> Nat]
    /\ Accounts(EmptyTable, 0)
  <1>1. HUH \in Entry /\ \A w \in Words : w \in Entry /\ w \in Nat
    BY ConfigAssumption DEF Entry, Words
  <1>2. \A e \in Entry : EmptyTable[e] = 0
    BY DEF EmptyTable
  <1>3. Uncounted(EmptyTable, 0) = {}
    BY <1>1 DEF Uncounted
  <1>4. Cardinality(Uncounted(EmptyTable, 0)) = EmptyTable[HUH]
    BY <1>1, <1>2, <1>3, FS_EmptySet
  <1> QED
    BY <1>1, <1>2, <1>4 DEF Accounts, EmptyTable

(* Counting the run that follows accounts for its words as well.           *)
LEMMA AccountsRun ==
    ASSUME NEW table \in [Entry -> Nat], NEW a \in Nat, NEW b \in Nat,
           a <= b, b <= NumWords, Accounts(table, a)
    PROVE  Accounts(CountAll(table, Run(a, b)), b)
  <1> DEFINE new == CountAll(table, Run(a, b))
  <1>1. HUH \in Entry /\ HUH \in Int /\ HUH < a /\ \A w \in Words : w \in Entry /\ w \in Nat
    BY ConfigAssumption DEF Entry, Words, HUH
  <1>2. \A e \in Entry : new[e] = table[e] + Occurrences(Run(a, b), e)
    BY DEF CountAll
  <1>3. new[HUH] = table[HUH]
    <2>1. Occurrences(Run(a, b), HUH) = 0
      BY <1>1, RunOccurrences
    <2>2. table[HUH] \in Nat
      BY <1>1
    <2> QED
      BY <1>1, <1>2, <2>1, <2>2
  <1>4. ASSUME NEW w \in Words
        PROVE  /\ w < a => new[w] = table[w]
               /\ a <= w /\ w < b => new[w] = 1
               /\ b <= w => new[w] = 0
    <2>1. w \in Nat /\ table[w] \in Nat /\ (w >= a => table[w] = 0)
      BY <1>1 DEF Accounts
    <2>2. new[w] = table[w] + Occurrences(Run(a, b), w)
      BY <1>1, <1>2
    <2>3. /\ a <= w /\ w < b => Occurrences(Run(a, b), w) = 1
          /\ w < a \/ b <= w => Occurrences(Run(a, b), w) = 0
      BY <2>1, RunOccurrences
    <2> QED
      BY <2>1, <2>2, <2>3
  <1> HIDE DEF new
  <1>5. Uncounted(new, b) = Uncounted(table, a)
    BY <1>1, <1>4 DEF Uncounted
  <1>6. \A w \in Words : new[w] <= 1 /\ (w >= b => new[w] = 0)
    BY <1>1, <1>4 DEF Accounts
  <1> QED
    BY <1>3, <1>5, <1>6 DEF Accounts, new

(* So does counting a HUH! instead of the last of them.                    *)
LEMMA AccountsLoss ==
    ASSUME NEW table \in [Entry -> Nat], NEW a \in Nat, NEW b \in Nat,
           a <= b, b < NumWords, Accounts(table, a)
    PROVE  Accounts(CountAll(table, Append(Run(a, b), HUH)), b + 1)
  <1> DEFINE s == Append(Run(a, b), HUH)
             new == CountAll(table, s)
  <1>1. /\ HUH \in Entry /\ b \in Words
        /\ \A w \in Words : w \in Entry /\ w \in Nat
    BY ConfigAssumption DEF Entry, Words
  <1>2. \A e \in Entry : new[e] = table[e] + Occurrences(s, e)
    BY DEF CountAll
  <1>3. new[HUH] = table[HUH] + 1
    BY <1>1, <1>2, LossOccurrences
  <1>4. ASSUME NEW w \in Words
        PROVE  /\ w < a => new[w] = table[w]
               /\ a <= w /\ w < b => new[w] = 1
               /\ b <= w => new[w] = 0
    <2>1. w \in Nat /\ table[w] \in Nat /\ (w >= a => table[w] = 0)
      BY <1>1 DEF Accounts
    <2>2. new[w] = table[w] + Occurrences(s, w)
      BY <1>1, <1>2
    <2>3. /\ a <= w /\ w < b => Occurrences(s, w) = 1
          /\ w < a \/ b <= w => Occurrences(s, w) = 0
      BY <2>1, LossOccurrences
    <2> HIDE DEF s, new
    <2> QED
      BY <2>1, <2>2, <2>3
  <1> HIDE DEF new
  <1>5. Uncounted(new, b + 1) = Uncounted(table, a) \cup {b}
    <2>1. ASSUME NEW w \in Words
          PROVE  w < b + 1 /\ new[w] = 0 <=> (w < a /\ table[w] = 0) \/ w = b
      <3>1. w \in Nat
        BY <1>1
      <3> QED
        BY <1>4, <3>1
    <2> QED
      BY <1>1, <2>1 DEF Uncounted
  <1>6. b \notin Uncounted(table, a)
    BY DEF Uncounted
  <1>7. Cardinality(Uncounted(new, b + 1)) = table[HUH] + 1
    BY <1>5, <1>6, UncountedFinite, FS_AddElement DEF Accounts
  <1>8. \A w \in Words : new[w] <= 1 /\ (w >= b + 1 => new[w] = 0)
    BY <1>1, <1>4 DEF Accounts
  <1> QED
    BY <1>3, <1>7, <1>8 DEF Accounts, new
=============================================================================
