-------------------------- MODULE WordCount_proofs --------------------------
(***************************************************************************)
(* The promises of WordCount hold for every file, every k and all readers. *)
(***************************************************************************)
EXTENDS WordCount, WordFile_proofs

LEMMA InitTally == Init => TypeOK /\ TallyInv
  BY ConfigAssumption, AccountsNone DEF Init, TypeOK, TallyInv, Taken

(* A step of one reader keeps the type of its variables.                   *)
LEMMA StepType ==
    ASSUME TypeOK, NEW r \in Readers, CountBatch(r) \/ CountLast(r)
    PROVE  TypeOK'
  <1>1. /\ next[r] \in 0 .. NumWords /\ tally[r] \in [Entry -> Nat]
        /\ NumWords \in Nat /\ k \in Nat \ {0}
    BY ConfigAssumption DEF TypeOK
  <1>2. CASE CountBatch(r)
    <2>1. next[r] + k <= NumWords
      BY <1>2 DEF CountBatch
    <2>2. ASSUME NEW window \in Windows(next[r])
          PROVE  CountAll(tally[r], window) \in [Entry -> Nat]
      <3>1. window \in Seq(Int)
        <4>1. Run(next[r], next[r] + k) \in Seq(Int)
          <5>1. next[r] \in Nat /\ next[r] + k \in Nat
            BY <1>1
          <5> QED
            BY <5>1, RunOfNumbers, Zenon
        <4>2. Run(next[r], next[r] + k - 1) \in Seq(Int) /\ HUH \in Int
          <5>1. next[r] \in Nat /\ next[r] + k - 1 \in Nat
            BY <1>1
          <5>2. HUH \in Int
            BY DEF HUH
          <5> QED
            BY <5>1, <5>2, RunOfNumbers, Zenon
        <4>3. Append(Run(next[r], next[r] + k - 1), HUH) \in Seq(Int)
          BY <4>2
        <4> QED
          BY <2>2, <4>1, <4>3 DEF Windows
      <3> QED
        BY <1>1, <3>1, CountAllType
    <2>3. next' = [next EXCEPT ![r] = next[r] + k] /\ finished' = finished
      BY <1>2 DEF CountBatch
    <2>4. tally' \in [Readers -> [Entry -> Nat]]
      BY <1>2, <2>2 DEF CountBatch, TypeOK
    <2>5. next' \in [Readers -> 0 .. NumWords]
      BY <1>1, <2>1, <2>3 DEF TypeOK
    <2> QED
      BY <2>3, <2>4, <2>5 DEF TypeOK
  <1>3. CASE CountLast(r)
    <2>1. Run(next[r], NumWords) \in Seq(Int)
      <3>1. next[r] \in Nat
        BY <1>1
      <3> QED
        BY <1>1, <3>1, RunOfNumbers, Zenon
    <2>2. CountAll(tally[r], Run(next[r], NumWords)) \in [Entry -> Nat]
      BY <1>1, <2>1, CountAllType
    <2> QED
      BY <1>3, <2>2 DEF CountLast, TypeOK
  <1> QED
    BY <1>2, <1>3

LEMMA StepTally ==
    ASSUME TypeOK, TallyInv, NEW r \in Readers, CountBatch(r) \/ CountLast(r)
    PROVE  TallyInv'
  <1>1. /\ next[r] \in Nat /\ next[r] <= NumWords /\ tally[r] \in [Entry -> Nat]
        /\ NumWords \in Nat /\ k \in Nat \ {0} /\ ~ finished[r]
    BY ConfigAssumption DEF TypeOK, CountBatch, CountLast
  <1>2. Accounts(tally[r], next[r])
    BY <1>1 DEF TallyInv, Taken
  <1>3. ASSUME NEW d \in Readers, d # r
        PROVE  tally'[d] = tally[d] /\ Taken(d)' = Taken(d)
    BY <1>3 DEF CountBatch, CountLast, TypeOK, Taken
  <1>4. Accounts(tally'[r], Taken(r)')
    <2>1. CASE CountBatch(r)
      <3>1. next[r] + k <= NumWords /\ Taken(r)' = next[r] + k
        BY <1>1, <2>1 DEF CountBatch, TypeOK, Taken
      <3>2. PICK window \in Windows(next[r]) :
                tally' = [tally EXCEPT ![r] = CountAll(tally[r], window)]
        BY <2>1 DEF CountBatch
      <3>3. tally'[r] = CountAll(tally[r], window)
        BY <3>2 DEF TypeOK
      <3>4. CASE window = Run(next[r], next[r] + k)
        <4>1. next[r] + k \in Nat /\ next[r] <= next[r] + k
          BY <1>1
        <4>2. Accounts(CountAll(tally[r], window), next[r] + k)
          BY <1>1, <1>2, <3>1, <3>4, <4>1, AccountsRun
        <4> QED
          BY <3>1, <3>3, <4>2
      <3>5. CASE window = Append(Run(next[r], next[r] + k - 1), HUH)
        <4> DEFINE b == next[r] + k - 1
        <4>1. b \in Nat /\ next[r] <= b /\ b < NumWords /\ b + 1 = next[r] + k
          BY <1>1, <3>1
        <4>2. window = Append(Run(next[r], b), HUH)
          BY <3>5
        <4> HIDE DEF b
        <4>3. Accounts(CountAll(tally[r], window), b + 1)
          BY <1>1, <1>2, <4>1, <4>2, AccountsLoss
        <4> QED
          BY <3>1, <3>3, <4>1, <4>3
      <3> QED
        BY <3>2, <3>4, <3>5 DEF Windows
    <2>2. CASE CountLast(r)
      <3>1. /\ Taken(r)' = NumWords
            /\ tally'[r] = CountAll(tally[r], Run(next[r], NumWords))
        BY <1>1, <2>2 DEF CountLast, TypeOK, Taken
      <3> QED
        BY <1>1, <1>2, <3>1, AccountsRun
    <2> QED
      BY <2>1, <2>2
  <1> QED
    BY <1>3, <1>4 DEF TallyInv

LEMMA NextTally == TypeOK /\ TallyInv /\ [Next]_absVars => (TypeOK /\ TallyInv)'
  <1>1. CASE UNCHANGED absVars
    BY <1>1 DEF absVars, TypeOK, TallyInv, Taken
  <1> QED
    BY <1>1, StepType, StepTally DEF Next

(* Every table accounts for the words taken so far.                        *)
THEOREM TallyCorrect == Spec => [](TypeOK /\ TallyInv)
  BY InitTally, NextTally, PTL DEF Spec

(* No word is ever counted twice.                                          *)
THEOREM CountedOnceCorrect == Spec => []CountedOnce
  <1>1. TallyInv => CountedOnce
    BY DEF TallyInv, Accounts, CountedOnce
  <1> QED
    BY <1>1, TallyCorrect, PTL

(* A finished table lacks as many words as it lists HUH!s.                 *)
THEOREM LossAccountedCorrect == Spec => []LossAccounted
  <1>1. TallyInv => LossAccounted
    <2> SUFFICES ASSUME TallyInv, NEW r \in Readers, finished[r]
                 PROVE  Cardinality(Missing(r)) = tally[r][HUH]
      BY DEF LossAccounted
    <2>1. Accounts(tally[r], NumWords)
      BY DEF TallyInv, Taken
    <2>2. Missing(r) = Uncounted(tally[r], NumWords)
      BY ConfigAssumption DEF Missing, Uncounted, Words
    <2> QED
      BY <2>1, <2>2 DEF Accounts
  <1> QED
    BY <1>1, TallyCorrect, PTL
=============================================================================
