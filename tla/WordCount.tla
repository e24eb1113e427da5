----------------------------- MODULE WordCount -----------------------------
(***************************************************************************)
(* What every part of the project promises a reader of the file, without   *)
(* server, threads or connections: the reader takes the file k words at a  *)
(* time from offset 0 on, counts what it took, and finishes with the       *)
(* window that reaches the end of the file.                                *)
(*                                                                         *)
(* With Lossy the last word of a window may have been replaced by one      *)
(* HUH!, which is then counted as if it were a word: the most that the     *)
(* grumpy server's refusals can do to a count.                             *)
(***************************************************************************)
EXTENDS WordFile

CONSTANTS
    Readers,
    Lossy       \* TRUE where a HUH! may stand for a lost word

VARIABLES
    next,       \* the offset of each reader's next window
    tally,      \* its word counts
    finished    \* its counts are final

absVars == <<next, tally, finished>>

Init ==
    /\ next = [r \in Readers |-> 0]
    /\ tally = [r \in Readers |-> EmptyTable]
    /\ finished = [r \in Readers |-> FALSE]

(* What may be counted for a full window starting at o.                    *)
Windows(o) ==
    {Run(o, o + k)} \cup
    (IF Lossy THEN {Append(Run(o, o + k - 1), HUH)} ELSE {})

CountBatch(r) ==
    /\ ~ finished[r]
    /\ next[r] + k <= NumWords
    /\ next' = [next EXCEPT ![r] = @ + k]
    /\ \E window \in Windows(next[r]) :
          tally' = [tally EXCEPT ![r] = CountAll(@, window)]
    /\ UNCHANGED finished

CountLast(r) ==
    /\ ~ finished[r]
    /\ next[r] + k >= NumWords
    /\ finished' = [finished EXCEPT ![r] = TRUE]
    /\ tally' = [tally EXCEPT ![r] = CountAll(@, Run(next[r], NumWords))]
    /\ UNCHANGED next

Next == \E r \in Readers : CountBatch(r) \/ CountLast(r)

Spec == Init /\ [][Next]_absVars

-----------------------------------------------------------------------------
TypeOK ==
    /\ next \in [Readers -> 0 .. NumWords]
    /\ tally \in [Readers -> [Entry -> Nat]]
    /\ finished \in [Readers -> BOOLEAN]

(* The words of the file that reader r counted not at all.                 *)
Missing(r) == {w \in Words : tally[r][w] = 0}

(* No word of the file is counted twice, however often a request for it    *)
(* was repeated.                                                           *)
CountedOnce ==
    \A r \in Readers : \A w \in Words : tally[r][w] <= 1

(* A finished table lacks as many words as it lists HUH!s.                 *)
LossAccounted ==
    \A r \in Readers :
        finished[r] => Cardinality(Missing(r)) = tally[r][HUH]

-----------------------------------------------------------------------------
(* The inductive invariant: the table accounts for the words taken so far. *)
Taken(r) == IF finished[r] THEN NumWords ELSE next[r]

TallyInv == \A r \in Readers : Accounts(tally[r], Taken(r))
=============================================================================
