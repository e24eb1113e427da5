------------------------------ MODULE WordFile ------------------------------
(***************************************************************************)
(* The word file every server loads, and what travels on a connection.     *)
(* loadFile splits words.txt at commas; nothing in the protocols depends   *)
(* on the spelling of a word, only on which word it is, so the i-th word   *)
(* of the file is its position i.  A real file may repeat a word: counting *)
(* positions tells apart the occurrences that the table would add up.      *)
(***************************************************************************)
EXTENDS Integers, Sequences, FiniteSets

CONSTANTS
    NumWords,   \* words.size()
    k,          \* words per request, config "k"
    p           \* words per packet, config "p"

ASSUME ConfigAssumption ==
    /\ NumWords \in Nat
    /\ k \in Nat \ {0}
    /\ p \in Nat \ {0}

Words == 0 .. NumWords - 1

(* What a server sends beside words: "HUH!\n", the EOF byte with its       *)
(* newline, and "$$\n".                                                    *)
HUH    == -1
END    == -2
DOLLAR == -3

Token == Words \cup {HUH, END, DOLLAR}

(* The keys a wordcount table can have: the words, and "HUH!" when the     *)
(* refusal was read as if it were one.                                     *)
Entry == Words \cup {HUH}

-----------------------------------------------------------------------------
(* z, one past the last word of the answer to a request for offset o.      *)
BatchEnd(o) == IF k + o < NumWords THEN k + o ELSE NumWords

(* The words a, a+1, ..., b-1 of the file, in order.                       *)
Run(a, b) == [j \in 1 .. (IF a < b THEN b - a ELSE 0) |-> a + j - 1]

-----------------------------------------------------------------------------
(* How often t stands in s, and the table after wordcount[w]++ for each w  *)
(* of s.                                                                   *)
Occurrences(s, t) == Cardinality({j \in DOMAIN s : s[j] = t})

CountAll(table, s) == [e \in Entry |-> table[e] + Occurrences(s, e)]

EmptyTable == [e \in Entry |-> 0]

(* A table that accounts for the words before b: none of them was counted  *)
(* twice, none from b on was counted, and those not counted are as many as *)
(* the HUH!s that were.                                                    *)
Uncounted(table, b) == {w \in Words : w < b /\ table[w] = 0}

Accounts(table, b) ==
    /\ \A w \in Words : table[w] <= 1 /\ (w >= b => table[w] = 0)
    /\ Cardinality(Uncounted(table, b)) = table[HUH]
=============================================================================
