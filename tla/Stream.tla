------------------------------- MODULE Stream -------------------------------
(***************************************************************************)
(* The connections of parts 1, 2 and 4 as byte streams: Wire, with the     *)
(* newlines that end each send, and recvs that may cut a send between any  *)
(* two texts, or a text in two.  What recv returned is split at newlines   *)
(* and commas, and nothing of it is kept for the next recv.                *)
(***************************************************************************)
EXTENDS Wire

(* The newline; a piece of a word or of a mark that a recv cut in two; and *)
(* the comma left over when the cut fell behind the word.                  *)
NL    == -4
PIECE == -5
COMMA == -6

Text == Words \cup {END, DOLLAR, PIECE, COMMA}

-----------------------------------------------------------------------------
(* What recv can return of the stream s, and what it leaves there.         *)
Read(packet, rest) == [packet |-> packet, rest |-> rest]

(* A send ends with a newline, and none begins with EOF.                   *)
EndsSend(s, n) == s[n] = NL /\ (n = Len(s) \/ s[n + 1] # END)

(* It ends where a send ended.                                             *)
WholeReads(s) ==
    {Read(First(s, m), Rest(s, m)) : m \in {n \in DOMAIN s : EndsSend(s, n)}}

(* The ways to cut text t in two.                                          *)
Halves(t) ==
    {<<PIECE, PIECE>>} \cup (IF t \in Words THEN {<<t, COMMA>>} ELSE {})

(* It ends anywhere, inside one of the texts included.  Each text is cut   *)
(* once at most: a piece is no word, and cut again gives more pieces.      *)
CutReads(s, texts) ==
    {Read(First(s, m), Rest(s, m)) : m \in DOMAIN s} \cup
    UNION {{Read(Append(First(s, m - 1), h[1]), <<h[2]>> \o Rest(s, m)) :
               h \in Halves(s[m])} :
           m \in {n \in DOMAIN s : s[n] \in texts}}

-----------------------------------------------------------------------------
HasEnd(packet) == \E m \in DOMAIN packet : packet[m] = END

(* The first m elements are the part of the packet before EOF.             *)
BeforeEnd(packet, m) ==
    packet[m + 1] = END /\ \A l \in 1 .. m : packet[l] # END

(* The pieces that splitting at newlines and commas gives.                 *)
TextLen(packet) == Cardinality({m \in DOMAIN packet : packet[m] # NL})
=============================================================================
