------------------------------- MODULE Grumpy -------------------------------
(***************************************************************************)
(* Part 3, "Grumpy Server with Decentralized Scheduling": the server's     *)
(* handler threads and the n client threads, joined by the connections.    *)
(***************************************************************************)
EXTENDS GrumpyServer, GrumpyClient

vars == <<wireVars, serverVars, clientVars>>

Init == WireInit /\ ServerInit /\ ClientInit

HandlerNext(c) == HandlerStep(c) /\ UNCHANGED clientVars
ClientNext(c)  == ClientStep(c) /\ UNCHANGED serverVars

Next == \E c \in Clients : HandlerNext(c) \/ ClientNext(c)

(* Every handler and every client is a thread of its own, which the        *)
(* operating system runs again and again while it can go on.               *)
Fairness ==
    \A c \in Clients : WF_vars(HandlerNext(c)) /\ WF_vars(ClientNext(c))

Spec == Init /\ [][Next]_vars /\ Fairness

-----------------------------------------------------------------------------
(* The variables hold values of their kind.                                *)
TypeOK == WireTypeOK /\ ServerTypeOK /\ ClientTypeOK

(* The two sides of one connection.                                        *)
Asked(c)   == toServer[c] # <<>>
Reading(c) == pc[c] \in {"accept", "recv"}
Exited(c)  == At(c, "exit")
Done(c)    == phase[c] = "done"
Control    == {HUH, END, DOLLAR}

(* The attempt so far: what the client has read and what is on its way.    *)
Attempt(c) == words[c] \o toClient[c]

(* Stop and wait: a client has at most one request under way, and between  *)
(* two requests nothing is on its way to it, save an EOF mark that a recv  *)
(* cut off from the last words.  Only a request for offset NumWords, made  *)
(* with that mark still unread, is left unread by a handler that ends.     *)
StopAndWait ==
    \A c \in Clients :
        /\ Len(toServer[c]) <= 1
        /\ phase[c] # "recv" => toClient[c] \in {<<>>, <<END>>}
        /\ Asked(c) => phase[c] = "recv" \/ (Done(c) /\ is_sent[c])

(* What a handler sends continues exactly what its client has read of the  *)
(* current attempt: word j of the attempt is word offset + j - 1 of the    *)
(* file, although the two keep separate offsets, requests are repeated     *)
(* after a HUH!, and other handlers cut batches short.  A control token    *)
(* ends the attempt, and the EOF mark stands where the file ends.          *)
AttemptContinues ==
    \A c \in Clients : \A j \in DOMAIN Attempt(c) :
        LET t == Attempt(c)[j]
        IN  /\ t \in Words => t = offset[c] + j - 1
            /\ t \in Control => j = Len(Attempt(c))
            /\ t = END => offset[c] + j - 1 = NumWords

(* The handlers that have claimed the server and not yet given it back.    *)
Holding(c) ==
    pc[c] \in {"own", "late", "outer", "inner", "emit", "reset", "release"}

(* isRunning is only TRUE while some handler serves, or once a handler has *)
(* answered "$$", whose break skips the store of FALSE.  Stray stores of   *)
(* FALSE by handlers that lost the server never leave it TRUE for nobody.  *)
BusyMeansServed ==
    isRunning => \E c \in Clients : Holding(c) \/ (Exited(c) /\ ~is_sent[c])

(* A request repeated after HUH! never makes the client count a word of    *)
(* the file twice.                                                         *)
WordCountedOnce ==
    \A c \in Clients : \A w \in Words : wordcount[c][w] <= 1

(* Words do get lost (see SameCounts), but never silently: a finished      *)
(* table lists one HUH! for every word of the file it lacks.               *)
LossReported ==
    \A c \in Clients :
        Done(c) => Cardinality({w \in Words : wordcount[c][w] = 0})
                     = wordcount[c][HUH]

(* The client side, with its connection and the server behind it, counts   *)
(* the file window by window as WordCount describes.                       *)
Abs == INSTANCE WordCount
           WITH Readers <- Clients, Lossy <- TRUE,
                next <- offset, tally <- wordcount,
                finished <- [c \in Clients |-> Done(c)]

AbsSpec == Abs!Spec

-----------------------------------------------------------------------------
(* The inductive invariant behind these properties: what one client, its   *)
(* connection and its handler know of each other.                          *)

(* The handler will send nothing more before it has read a request.        *)
Quiet(c) ==
    \/ pc[c] \in {"accept", "recv", "reset", "unset", "stamp", "release",
                  "exit"}
    \/ At(c, "outer") /\ req[c] >= z[c]

(* The handler's locals: the EOF mark ends the serving loop, and a packet  *)
(* grows from req towards z.                                               *)
HandlerInv(c) ==
    /\ is_sent[c] => pc[c] \in {"outer", "release", "exit"} /\ Quiet(c)
    /\ pc[c] \in {"inner", "emit"} =>
          req[c] < z[c] /\ req[c] <= i[c] /\ i[c] <= z[c]

(* Token t may be the j-th of c's attempt.                                 *)
Fits(c, j, t) ==
    /\ t \in Words => t = offset[c] + j - 1 /\ t < BatchEnd(offset[c])
    /\ t \in Control => j = Len(Attempt(c))
    /\ t = END => offset[c] + j - 1 = NumWords /\ is_sent[c]
    /\ t = HUH => j = 1 \/ offset[c] + j - 1 < BatchEnd(offset[c])
    /\ t = DOLLAR => j = 1 /\ offset[c] >= NumWords

AttemptInv(c) ==
    \A j \in 1 .. Len(Attempt(c)) : Fits(c, j, Attempt(c)[j])

(* Nothing of an attempt was read, and only a stray EOF mark is on its way.*)
Fresh(c) == words[c] = <<>> /\ toClient[c] \in {<<>>, <<END>>}

PhaseInv(c) ==
    /\ phase[c] # "recv" \/ Asked(c) => Fresh(c) /\ Quiet(c)
    /\ Asked(c) =>
          \/ phase[c] = "recv" /\ toServer[c] = <<offset[c]>>
          \/ Done(c) /\ Len(toServer[c]) = 1 /\ is_sent[c]

(* While a request is served, offset + Len(Attempt) is the next word due.  *)
ServeInv(c) ==
    ~ Quiet(c) =>
        /\ req[c] = offset[c] + Len(Attempt(c))
        /\ \A j \in 1 .. Len(Attempt(c)) : Attempt(c)[j] \in Words
        /\ pc[c] \in {"check", "claim", "own", "late"} => Attempt(c) = <<>>
        /\ pc[c] \in {"outer", "inner", "emit"} => z[c] = BatchEnd(offset[c])

ConnectionOK(c) ==
    HandlerInv(c) /\ AttemptInv(c) /\ PhaseInv(c) /\ ServeInv(c)

ConnectionInv == \A c \in Clients : ConnectionOK(c)

-----------------------------------------------------------------------------
(* A handler that has read a request comes back for the next one or ends:  *)
(* no other handler's stores keep it in its loops.                         *)
RequestLeavesService ==
    \A c \in Clients : At(c, "check") ~> At(c, "recv") \/ Exited(c)

(* Contention is the only thing that can hold a client up: once every      *)
(* other client's handler has ended after sending EOF, a client between    *)
(* two attempts finishes.                                                  *)
Alone(c) ==
    /\ phase[c] = "wait" /\ Reading(c)
    /\ \A d \in Clients \ {c} : Exited(d) /\ is_sent[d]

LoneClientFinishes ==
    \A c \in Clients : Alone(c) ~> Done(c)

(* The server's main thread joins every handler before it exits: when all  *)
(* clients are done, all handlers end.                                     *)
ServerStops ==
    (\A c \in Clients : Done(c)) ~> (\A c \in Clients : Exited(c))

-----------------------------------------------------------------------------
(* Why a request leaves service.                                           *)

(* The other handlers can store TRUE for c to go on with, once each: what  *)
(* a handler does after that store is to store its own descriptor, which   *)
(* ends the service of c.                                                  *)
Raisers(c) == {d \in Clients \ {c} : ~At(d, "own")}

(* How often isRunning can still be TRUE or become TRUE for c.             *)
Chances(c) == Cardinality(Raisers(c)) + (IF isRunning THEN 1 ELSE 0)

(* The steps of a serving loop whose handler still owns the server.  A     *)
(* packet without words is made only when isRunning was FALSE in between.  *)
LoopWork(c) ==
    4 * Chances(c) +
    CASE At(c, "outer") -> 4 * (z[c] - req[c]) + 3
      [] At(c, "inner") -> 4 * (z[c] - i[c])
                             + IF i[c] = req[c] /\ isRunning THEN 2 ELSE 5
      [] At(c, "emit")  -> 4 * (z[c] - i[c]) + 4

(* A bound on the steps until the handler of c waits in recv again or      *)
(* ends.                                                                   *)
ServiceWork(c) ==
    LET most == 4 * k + 4 * Cardinality(Clients) + 12
    IN  CASE pc[c] \in {"accept", "recv", "exit"} -> 0
          [] At(c, "check") -> most + 4
          [] At(c, "claim") -> most + 3
          [] At(c, "own") -> most + 2
          [] At(c, "late") -> most + 1
          [] At(c, "release") -> 1
          [] At(c, "stamp") -> 2
          [] At(c, "unset") -> 3
          [] At(c, "reset") -> 4
          [] pc[c] \in {"outer", "inner", "emit"} ->
                IF clientID = c THEN 8 + LoopWork(c)
                ELSE IF At(c, "outer") THEN 5
                ELSE IF At(c, "emit") THEN 6 ELSE 7

(* Whatever the other handlers and the clients do, a handler that has read *)
(* a request gets no more to do, and each of its own steps leaves it less. *)
ServiceRunsOut ==
    [][\A c \in Clients : pc[c] \notin {"accept", "recv", "exit"} =>
          /\ ServiceWork(c)' \in 0 .. ServiceWork(c)
          /\ HandlerNext(c) => ServiceWork(c)' # ServiceWork(c)]_vars

-----------------------------------------------------------------------------
(* What the README and the tests say of the program, and it does not do.   *)

(* README.md:41 and :86: a request is answered with words, or with HUH!    *)
(* when it collides.  A client that waits for an answer is never left with *)
(* an idle handler and nothing on its way.                                 *)
EveryRequestAnswered ==
    \A c \in Clients :
        ~ (phase[c] = "recv" /\ At(c, "recv") /\ ~Asked(c)
                             /\ toClient[c] = <<>>)

(* part3/tester.py: the output files of all clients are the same.          *)
SameCounts ==
    \A c, d \in Clients :
        Done(c) /\ Done(d) => wordcount[c] = wordcount[d]

(* README.md:86: HUH! means a collision, so another client's request is    *)
(* being handled when one is refused.                                      *)
HuhOnlyOnCollision ==
    [][\A c \in Clients :
          Refuse(c) => \E d \in Clients \ {c} : Holding(d)]_vars
=============================================================================
