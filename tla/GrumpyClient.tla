---------------------------- MODULE GrumpyClient ----------------------------
(***************************************************************************)
(* A client of part 3 (send_request): ask for the words from offset on,    *)
(* read the answer, count it, ask again.  The three protocols differ only  *)
(* in how long they sleep before a request; each sleep ends, and nothing   *)
(* else depends on it, so waiting is a phase without a clock.              *)
(***************************************************************************)
EXTENDS Wire

VARIABLES
    phase,      \* "wait" before a request, "recv" after it, "done"
    offset,     \* member offset
    words,      \* local vector words of the current attempt
    wordcount   \* member wordcount, written to output_<id>.txt when done

clientVars == <<phase, offset, words, wordcount>>

Phase == {"wait", "recv", "done"}

ClientTypeOK ==
    /\ phase \in [Clients -> Phase]
    /\ offset \in [Clients -> Nat]
    /\ words \in [Clients -> Seq(Token)]
    /\ wordcount \in [Clients -> [Entry -> Nat]]

ClientInit ==
    /\ phase = [c \in Clients |-> "wait"]
    /\ offset = [c \in Clients |-> 0]
    /\ words = [c \in Clients |-> <<>>]
    /\ wordcount = [c \in Clients |-> EmptyTable]

-----------------------------------------------------------------------------
(* The sleep of wait_aloha, wait_beb or wait_sensing_beb ends; the request *)
(* is sent and a new, empty vector words is ready.                         *)
Request(c) ==
    /\ phase[c] = "wait"
    /\ phase' = [phase EXCEPT ![c] = "recv"]
    /\ toServer' = [toServer EXCEPT ![c] = Append(@, offset[c])]
    /\ UNCHANGED <<toClient, offset, words, wordcount>>

Last(line) == line[Len(line)]

(* A line that is exactly HUH! discards the attempt.                       *)
IsRefusal(line) == line = <<HUH>>

(* Fault: the "$$" test is missing.                                        *)
IsFinalEofOnly(line) == Last(line) = END

(* The EOF mark at the end of a line, or a line that is exactly "$$".      *)
IsFinal(line) == Last(line) = END \/ line = <<DOLLAR>>

(* What one recv may return.                                               *)
Prefixes(s) == {First(s, m) : m \in 1 .. Len(s)}

(* recv returns the line.                                                  *)
Takes(c, line) ==
    /\ phase[c] = "recv"
    /\ toClient' = [toClient EXCEPT ![c] = Rest(@, Len(line))]
    /\ UNCHANGED toServer

(* Fault: the words of the refused attempt are kept.                       *)
RefusedKeepsWords(c) ==
    \E line \in Prefixes(toClient[c]) :
        /\ Takes(c, line)
        /\ IsRefusal(line)
        /\ phase' = [phase EXCEPT ![c] = "wait"]
        /\ UNCHANGED <<offset, words, wordcount>>

Refused(c) ==
    \E line \in Prefixes(toClient[c]) :
        /\ Takes(c, line)
        /\ IsRefusal(line)
        /\ phase' = [phase EXCEPT ![c] = "wait"]
        /\ words' = [words EXCEPT ![c] = <<>>]
        /\ UNCHANGED <<offset, wordcount>>

(* Fault: only the words of the last recv are counted at EOF.              *)
FinishLastLine(c) ==
    \E line \in Prefixes(toClient[c]) :
        /\ Takes(c, line)
        /\ IsFinal(line)
        /\ phase' = [phase EXCEPT ![c] = "done"]
        /\ words' = [words EXCEPT ![c] = <<>>]
        /\ wordcount' = [wordcount EXCEPT
              ![c] = CountAll(@, First(line, Len(line) - 1))]
        /\ UNCHANGED offset

(* The words before the EOF mark are counted with those read before, and   *)
(* the table is written out.                                               *)
Finish(c) ==
    \E line \in Prefixes(toClient[c]) :
        /\ Takes(c, line)
        /\ IsFinal(line)
        /\ phase' = [phase EXCEPT ![c] = "done"]
        /\ words' = [words EXCEPT ![c] = <<>>]
        /\ wordcount' = [wordcount EXCEPT
              ![c] = CountAll(@, words[c] \o First(line, Len(line) - 1))]
        /\ UNCHANGED offset

(* Fault: the offset advances by the words of the last recv alone.         *)
AbsorbAdvancesLine(c, got) ==
    \/ /\ Len(got) = k
       /\ phase' = [phase EXCEPT ![c] = "wait"]
       /\ words' = [words EXCEPT ![c] = <<>>]
       /\ offset' = [offset EXCEPT ![c] = @ + k - Len(words[c])]
       /\ wordcount' = [wordcount EXCEPT ![c] = CountAll(@, got)]
    \/ /\ Len(got) # k
       /\ words' = [words EXCEPT ![c] = got]
       /\ UNCHANGED <<phase, offset, wordcount>>

(* With k words the batch is complete: they are counted and the next batch *)
(* is due.  Otherwise the client goes on reading.                          *)
Absorb(c, got) ==
    \/ /\ Len(got) = k
       /\ phase' = [phase EXCEPT ![c] = "wait"]
       /\ words' = [words EXCEPT ![c] = <<>>]
       /\ offset' = [offset EXCEPT ![c] = @ + k]
       /\ wordcount' = [wordcount EXCEPT ![c] = CountAll(@, got)]
    \/ /\ Len(got) # k
       /\ words' = [words EXCEPT ![c] = got]
       /\ UNCHANGED <<phase, offset, wordcount>>

(* Anything else is split at its commas and every piece is a word, the     *)
(* text HUH! behind other words included.                                  *)
Collect(c) ==
    \E line \in Prefixes(toClient[c]) :
        /\ Takes(c, line)
        /\ ~ IsRefusal(line) /\ ~ IsFinal(line)
        /\ Absorb(c, words[c] \o line)

ClientStep(c) ==
    \/ Request(c)
    \/ Refused(c)
    \/ Finish(c)
    \/ Collect(c)
=============================================================================
