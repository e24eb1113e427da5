# Verification of the socket programming assignments

Four small client/server programs in which clients fetch a word file over TCP,
`k` words per request and `p` words per packet, and count the words:

| part | program | concurrency |
|------|---------|-------------|
| 1 | one client, one server | one connection |
| 2 | n clients, one handler thread each | connections that share only the file |
| 3 | "grumpy" server that serves one request at a time and answers `HUH!` to the others; ALOHA, BEB and sensing-BEB clients | handler threads that share three atomics, without a lock |
| 4 | "friendly" server: one scheduler thread, FIFO or round robin queue, a rogue client with five connections | scheduler, accepting thread, one short thread per connection |

This directory holds TLA+ models of these programs, TLC configurations that
check them on small instances, and TLAPS proofs for all instances. All four parts are
modelled, and there are proofs about all of them.

## Inventory

What each component keeps and does, what is hard about it, and what would make
it correct. `PROJECT.json` lists the hazards with their source lines.

**Part 3 server** (`part3/server.cpp`). State: the words, the atomics
`isRunning`, `clientID`, `lastCollisionTime` (and `currentRequestTime`, written
and never read); per handler thread the locals `offset`, `z`, `i`, `is_sent`.
Operations: accept; per request, test `isRunning`, refuse with `HUH!` or claim
the server, compare `now` with the last collision, serve packets while still
the owner, `resetClient` when not, release, end after EOF or `$$`.
Hard: the test of `isRunning` and the stores that follow are not one step, so
several handlers may be "the one" being served; each `resetClient` and each
release hits whoever is being served at that moment; the `$$` exit skips the
release. Correct if: what one handler sends is never disturbed by the others
other than by being cut short, every request is answered, the server does not
stay busy for nobody, all handlers end.

**Part 3 client** (`part3/client.cpp`). State: `offset`, `wordcount`, the words
of the current attempt. Operations: wait (by protocol), request, receive, and
then refusal, completion of a batch, or end of file; write the table. Hard: TCP has no
message boundaries, so refusals, words and the EOF mark arrive joined or split;
attempts are repeated after words were received. Correct if: the table counts
every word of the file exactly once.

**Contention protocols** (`wait_aloha`, `wait_beb`, `wait_sensing_beb`). Slot and
backoff arithmetic, no shared state. Correct if: waits are finite, backoff grows
with the number of refusals (it does not: `wait_beb` decrements its by-value
parameter), sensing senses (it does not: it sleeps `T`; the server's `BUSY?`
answers are unreachable because `getline` has removed the newline they look for).

**Part 1 and 2 servers and clients.** State: `offset`, `z`, `is_sent` of each
handler; `offset`, `total_words`, `word_count` of each client. A session per
connection; the client counts words as they arrive and asks for the next batch
when the number of words read is a multiple of `k`; the server of part 2 joins
its handlers and ends. Hard: the byte stream (a word cut in two, a newline that
arrives alone, the EOF mark behind the last word), the boundary `offset ==
words.size()`, requests that overtake answers. Correct if: the table counts the
file, both sides end.

**Part 4 server and clients.** State: `fifo_queue` or `rr_queue`, `client_set`
(under `queue_mutex`), `client_unserved` (under nothing), the list of handler
threads. Operations: accept, `addToQueue`, `getNextRequest`, `processRequest`,
shutdown. Hard: the scheduler blocks in `recv` on one client; the accept loop and
the scheduler race on `client_unserved`; the round robin iterates an unordered
map from its beginning each time. Correct if: a connection is queued at most
once, requests are served in queue order, no client starves, the server ends
when, and only when, all connections are served.

**Configuration** (`My_Json.h`), **scripts** (`*.py`, Makefiles), **json.hpp**
(not included by any source): see "Not modelled".

## Modules

| module | models |
|--------|--------|
| `WordFile` | the file as positions, `k`, `p`, what travels on a connection, batches, tables |
| `Wire` | the connections |
| `Stream` | what travels in parts 1, 2 and 4: newlines, recvs that cut words |
| `Sockets` | the connections of part 4: `Stream` with accepting, closing, refusing |
| `Sessions` | parts 1 and 2: handlers and clients, fairness, properties |
| `GrumpyBackoff` | `Grumpy` with what `wait_beb` draws its waits from |
| `GrumpyServer` | the handler threads of part 3, one action per step between two accesses of a shared atomic |
| `GrumpyClient` | `send_request` of part 3 |
| `Grumpy` | server and clients together, fairness, all properties, the inductive invariant |
| `FriendlyServer` | the main, handler and scheduler threads of part 4 |
| `FriendlyClient` | the client threads of part 4 |
| `Friendly` | server and clients of part 4 together, fairness, properties, the inductive invariant |
| `FriendlyTurns` | `Friendly` with a history variable: who was taken from the queue while whom waited |
| `WordCount` | abstract specification: readers that count the file window by window |
| `MCSessions`, `MCGrumpy`, `MCFriendly`, `MCFriendlyTurns` | what TLC needs to instantiate them |
| `WordFile_proofs` | lemmas on runs of words, batches, tables, and cutting and joining answers |
| `WordCount_proofs` | `CountedOnce` and `LossAccounted` for the abstract specification |
| `Grumpy_proofs` | type correctness and the inductive invariant of `Grumpy`; why a request leaves service |
| `GrumpyRefinement_proofs` | `Grumpy` implements `WordCount`; the tables |
| `Stream_proofs` | lemmas on cut and whole recvs, on a window of words asked for, sent and counted, and on the newlines sends end with |
| `Sessions_proofs` | type correctness of `Sessions`; that part 1 counts no word twice; the tables, termination but for fairness, and refinement of `WordCount` with whole sends |
| `Friendly_proofs` | type correctness of `Friendly`, where a connection is, what `client_unserved` counts, and that FIFO takes turns |
| `FriendlyTable_proofs` | that no client of part 4 counts a word twice; the tables, termination but for fairness, and refinement of `WordCount` with whole sends |

`Grumpy` extends `GrumpyServer` and `GrumpyClient`, which share `Wire`;
`Friendly` extends `FriendlyServer` and `FriendlyClient`, which share `Sockets`;
`Sockets` and `Sessions` extend `Stream`, which extends `Wire`. All three
instantiate `WordCount`.

### The words and the wire

Which word it is matters, its spelling does not: word *i* of the file is the
number *i*. A file that repeats a word would have its positions added up in the
table; counting positions keeps them apart. `HUH!`, the EOF byte and `$$` are
three more tokens, and an answer is a sequence of tokens. `recv` returns any
non-empty prefix of the tokens in flight, so sends are joined and split freely,
but never inside a word, a control token or a request: a packet of part 3 is one
`send` of at most `p` words. That is the one thing about delivery that `Wire`
leaves out; `Stream` has it. A line, in the sense of the client's `getline`,
ends with a control token; `AttemptContinues` says that nothing ever follows a
control token, which is why the model of `recv` may treat what it returns as one
line.

### The server of part 3

`pc[c]` is the point in `handleClient` at which the handler of client `c` is:

| `pc` | code (`part3/server.cpp`) | actions that leave it |
|------|------|------|
| accept | 184-205 | `Accept` |
| recv | 65-76 | `Receive` |
| check | 81-89 | `Refuse`, `Admit` |
| claim | 90 | `Claim` |
| own | 91-92 | `Own` |
| late | 93-105 | `Late` (resetClient), `OutOfRange` (`$$`), `Begin` |
| outer | 106-109 | `NextPacket`, `EndBatch` |
| inner | 110-114 | `AddWord`, `EndPacket` |
| emit | 115-127 | `Emit`, `Abandon` (resetClient) |
| reset, unset, stamp | 51, 52, 53 | `ResetRunning`, `ResetOwner`, `ResetStamp` |
| release | 129-135 | `Release` |
| exit | 142-143 | |

Every load and store of an atomic is a step of its own, with these exceptions,
none of which another thread can notice: `isRunning` and `clientID == me` are
loaded together in `MayServe`, because only the handler itself ever stores its
descriptor, and never while it serves: a `clientID` equal to it at the second load
was equal at the first; the load of line 122 and the sends
of lines 123 and 127 are one step, because the send touches only the handler's own
connection; the store of line 91 and the clock reading of line 92 are one step,
because a reading has an effect only through the comparison of line 93. The
clock itself is not modelled: `late` holds the handlers whose `now` a
stored collision time exceeds. A `resetClient` reads the clock before it stores,
and equal readings are possible, so each `ResetStamp` picks any subset of the
handlers that are between their reading and their comparison.
`lastCollisionTime` starts out as the clock's epoch (the default constructor of
`time_point` runs when the atomic member is created), so no handler is late
before the first collision. Locals that have gone out of scope are set to 0.

The two `BUSY?` branches are not modelled: `getline` has removed the newline
that the literals contain, so neither test can succeed. The branch for a closed
connection is not modelled either: no client closes its socket, and the
client process ends only after all its threads were joined. What the operating
system does with connections when a whole process ends is outside the model.

### The client of part 3

`phase[c]` is "wait" (in one of the three waiting functions), "recv" or "done". A
wait is finite in all three protocols, and what happens after it does not depend
on how long it took, so it has no clock. `Collect`, `Refused` and `Finish`
are the outcomes of one `recv`, following lines 126-201: a line that is exactly
`HUH!` discards the attempt, a line that ends with the EOF mark or is `$$`
counts what was read and finishes, anything else is split at its commas and its
pieces become words, `HUH!` included.

`GrumpyBackoff` adds the one thing about waiting that is not time: the member
`max_attempts` and the range from which `wait_beb` draws. `WaitBeb` is the call before
each request, and goes through the by-value parameter as the code does.

### The stream of parts 1, 2 and 4

Here each send ends with a newline, and what `recv` returns is split at
newlines and commas with nothing kept for the next `recv`, so where it cuts
matters. `Reads(s)` is what `recv` can return of the stream `s` and what
it leaves:

* with `Cuts = FALSE`, any number of whole sends, joined. That is what happens
  as long as the client keeps up or what is in flight fits its buffer of 1024
  bytes: a batch of the shipped configurations is at most 798 bytes (part 4, k = 100),
  and a client has one batch in flight. EOF is a line of its own in the send of
  the last words, which `EndsSend` keeps together;
* with `Cuts = TRUE` (in parts 1 and 2 the variable `cuts`), any non-empty
  prefix. A cut inside a word or mark leaves two pieces (`PIECE`), each of which
  the client counts as a word of its own. A text is cut once at most: of a long
  word in a small buffer the code could make three pieces, and the model makes
  two; since a piece is kept apart from the words of the file, however it is
  spelled, `CountedAtMostOnce` cannot tell. A cut between a word and its comma
  leaves the word whole and a `COMMA`, which is an empty word to the client:
  part 4 counts it, parts 1 and 2 skip it. In part 4 the mark is the text "EOF",
  which can be cut, in parts 1 and 2 the byte -1, which cannot.

A request is a few bytes and sent at once: it is never cut, but several may be
joined, of which `stoi` reads the first.

The server's end of a connection is closed when `processRequest` or `addToQueue`
close it, when `server_socket` is closed before the connection was accepted,
and when the server process ends. A client reads what is in flight before it
notices (`ServerClosed`). When a thread's `connect` fails, `exit(1)` ends all
client threads of the process (`ConnectRefused`).

### The sessions of parts 1 and 2

The sessions of a process touch nothing in common but the words, which nobody
writes, so one module has both parts: `part` says which client runs, `sessions` the
connections there are (one in part 1) and `cuts` how its streams are read; none of the
three ever changes. The two servers do the same with a connection:

| `hpc` | code (`part2/server.cpp`; `part1/server.cpp`) | actions |
|------|------|------|
| none | 130-151; 107-114 | `Accept` |
| recv | 49-63; 35-47 | `OutOfRange`, `BeginAnswer` |
| serve | 66-87; 49-69 | `SendPacket`, `EndAnswer` |
| end | 91; 73 | joined by `Exit` (153-158; 114-116, 124) |

The client is in `phase` "new", "recv" or "done". `ServerClosed`, `Refused`,
`EndOfFile` and `CountWords` are the outcomes of one `recv`; the table is
written after each of the first three. The clients differ in one line: for the
next window part 1 adds `k` to `offset` (line 74), part 2 the words read since
the last request (line 85); `NextOffset`.

A recv that brings no word (a newline alone, a comma alone) leaves `total_words`
at a multiple of `k`, if it was one, and the client asks again at once. In part
1 the early request is for the *next* window, so a window is never asked for
twice, and `CountedAtMostOnce` holds however the stream is cut; windows can be
skipped. In part 2 it is for the *same* window, whose words may then be counted
more than once, and nothing bounds how often that happens: cut streams of part 2
are in the module and not in the run. Under cuts early requests may also be read
by one `recv` of the server, which answers the first only, so neither part need
end: `SessionsEnd` is claimed for whole sends.

Not in the model: no client hangs up before its handler has ended, so the server's
`recv` never returns 0; a client that asks a handler that has ended (only under cuts)
may be ended by SIGPIPE or have its answers lost to a reset; the second that the
handler sleeps after EOF only delays it.

### The server of part 4

| thread | at | code (`part4/server.cpp`) | actions |
|------|------|------|------|
| main (`mpc`) | test | 259, 277 | `AcceptMore`, `StopAccepting` |
| | accept | 260-274 | `Accept`, `AcceptFails` |
| | push | 275 | `PushBack` |
| | join | 263-266, 282-286 | `JoinHandlers` |
| | return | 267, 315-317 | `Return` |
| handler (`hpc`) | add | 208-217, 76-101 | `HandleClient` |
| scheduler (`spc`) | next | 127-138, 103-125 | `Schedule` |
| | recv | 145-172 | `HungUp`, `OutOfRange`, `BeginAnswer` |
| | serve | 172-205 | `SendPacket`, `Requeue`, `Served` |
| | join | 194-201 | `SchedulerJoins` |

`addToQueue` and `getNextRequest` hold the mutex and are one step each.
`client_unserved` is read and written in steps of its own, with two exceptions:
the decrement and the tests of the scheduler, its only writer, are one step; and
the test at line 277 is merged with the one at line 259 that follows it, because
the number only decreases. `Places` is the number n + 4 that the code uses three
times: as the initial value of `client_unserved`, as the limit of `client_set`
and as the length of the backlog (which is not modelled: a `connect` beyond it
waits).

`rr_queue` is an `unordered_map` from a descriptor to a queue of the same
descriptor; the function `rr_queue` gives each queue's length. Iteration order is
unspecified and changes with insertions, so the model takes any non-empty queue.

The main thread and the scheduler join the same handlers. A `pthread_join` of a
thread that another thread is joining fails at once, so either may go on
without waiting while the other waits (`JoinHandlers`, `SchedulerJoins`); a join of a
thread that was joined before returns at once in the model. What else these two
undefined operations and the read of `threads` during a `push_back` that moves it may do
(a crash) is left out.

Also left out: the request `DONE`, which no client sends; a descriptor that
`accept` returns again after a close, which would find itself in `client_set`
already and so not be turned away; a client that is killed by SIGPIPE when it
asks a server that is gone (its thread ends either way).

### The client of part 4

`phase[c]` is "new" before `connect`, "recv" in the loop, "write" after a loop
that ended with the end of the file, "done" after `close`, or "killed". The
actions are the outcomes of one `recv`: `ServerClosed` (line 71), `LastPacket`
(74-78), `EndOfFile` (85-95), `CountWords` (80-100, with `MaybeAsk` for lines
96-100); and `WriteTable` (121-136). The table has an entry for each word, for
the text `$$`, for pieces and for the empty word. The rogue client is five of
these threads.

`output[c]` is how much of the table is in the file: "none", "cut" or "written".
The lines are written one after the other, and nobody looks at them while they
are, but the `exit(1)` of another thread whose `connect` fails can come before
any of them, between two, or behind the last. So `WriteTable` writes the file as
a whole, and `ConnectRefused` leaves each client that is at writing with any of
the three (`CutOutput`). That a table in writing is cut is a possible end in the
model, as it is in the code. The line for `log.txt`, and the exits when a file
cannot be opened, are left out.

## Runs

| run | instance | asks |
|-----|----------|------|
| `safety` | 2 clients, 6 words, k = 3, p = 2, symmetric | type invariant, the safety properties, `ServiceRunsOut`, the inductive invariant, refinement of `WordCount` |
| `liveness` | 2 clients, 2 words, k = 2, p = 1 | the liveness properties |
| `every_request_answered` | 2 clients, 3 words, k = 2, p = 1 | counterexample to `EveryRequestAnswered` |
| `same_counts` | the same | counterexample to `SameCounts` |
| `huh_only_on_collision` | 2 clients, 2 words, k = 2, p = 1 | counterexample to `HuhOnlyOnCollision` |
| `friendly_safety` | 3 connections, 3 places, 5 words, k = 2, p = 1, symmetric | type invariant, safety properties, the inductive invariant, refinement of `WordCount`, `FifoTakesTurns`, `StepsRunOut` |
| `friendly_cuts` | 1 connection, 2 places, 5 words, k = 2, p = 1, cut | `CountedAtMostOnce` |
| `friendly_liveness` | 3 connections, 2 places, 2 words, k = p = 1 | `QueuedIsTaken`, `ClientsEnd` |
| `friendly_round_robin` | 2 connections, 2 places, 3 words, k = p = 1 | counterexample to `RoundRobinTakesTurns` |
| `friendly_server_ends` | 2 connections, 2 places, 2 words, k = p = 1 | counterexample to `ServerEnds` |
| `sessions` | part 1: 1 session, cut or whole; part 2: 2 sessions, whole; 9 words, k = 3, p = 2 | type invariant, safety and liveness properties, `StepsRunOut`, refinement of `WordCount` |
| `grumpy_backoff` | 2 clients, 2 words, k = 2, p = 1, protocol beb | counterexample to `BackoffGrows` |

All runs of part 4 start with either policy. Deadlock is not checked where the
processes end. Their variables need no bound: a client sends a request only for
words it has read, so with a finite file it stops by itself.

The safety instance of part 3 has what the behaviours need: two batches, so that
the offsets of client and server have to be carried from one to the next; two
packets per batch, the second shorter than `p`, so that a handler can lose the
server before, between and inside packets; a file that ends exactly with a
batch, so that the EOF mark can be cut off from the last words and so that a lossy
last batch leads to a request beyond the end and to `$$`. No variable needs an
artificial bound: `StopAndWait` keeps the connections finite. The liveness
instance is smaller but keeps k = 2, since only a batch of two packets can lose a
word and so lead to `$$`. Two clients
suffice for each pair of handlers to disturb each other in every way; three clients
(k = p = 1, one word) and files of 0, 1, 4 and 5 words with k = 2 were checked
as well, and the theorems hold for any number.

The instance `friendly_safety` has three connections, so that one can be with
the scheduler, one in the queue and one on its way through accept and its
handler; three batches, so that each is requeued twice and the last is shorter
than `k`; and as many places as connections, so that the main thread can leave
its loop early, late or never. `friendly_liveness` has a place too few: a
connection may be turned away. `friendly_cuts` has one connection, since
connections do not touch each other's streams, and a spare place, so that the
server stays up.

`sessions` has three windows, so that a request lost, repeated or too early has
a window before and one behind it; two packets in each, the second shorter; and
a last window that is full, as in the shipped part 2 (165 words, k = 3), which
is where a client that had not seen EOF with the words would ask for `offset ==
words.size()`. Two sessions show that accepting and joining go with any order of
ends; the sessions themselves do not interact.

`safety`, `liveness`, `sessions` and the first three of part 4 pass. The other
runs check one statement of the repository each and show that the program does
not keep it:

* **A request can go unanswered.** Handlers A and B both find `isRunning` false
  at line 85. A claims the server and comes to its serving loop; then B claims
  it too, and the store of B's descriptor to `clientID` (line 91) takes the
  ownership away. A finds at line 106 that it may not go on, leaves the loop
  without a send, stores false (line 129) and waits for the next request, and
  A's client waits for the answer. Neither moves again. (That store of A then
  ends B's service in the same way. A store of false to `isRunning`, or of 0 to
  `clientID`, by any other handler has the same effect; the run finds the
  shortest way, which needs claims only.)
* **Words are lost.** A loses the ownership after its first packet and sends
  `HUH!` behind it. Packets end without a newline, so if one `recv` returns both,
  the client sees the line `w0,HUH!`, counts `HUH!` as a word, has its `k` words and
  goes on to the next batch: `w1` is never counted. `LossReported` shows that this
  is all that can go wrong with a count, and that it shows in the table.
* **The server refuses although it is idle.** After such a loss the client's
  offset can lie beyond the file. The answer `$$` is followed by a `break` that skips
  `isRunning.store(false)`: from then on every request is refused, and no other
  client ever finishes.
* **The round robin does not go round.** `getNextRequest` starts at the front of
  the map for every request, and the connection just served is back in the map
  by then. With g++'s library it normally comes first again and is served to its
  end.
* **The server may not end.** If the main thread is in `accept` when the last client
  is served, the scheduler's `close` does not wake it.
* **The backoff does not back off.** `wait_beb` decrements its own copy of
  `max_attempts`: every wait is one slot, and "Max attempts reached" is never reached.

Three more things the models show, which the properties state as what is true of
the code:

* The server of part 4 may end too early: with one place left the accept loop's
  condition is false, `main` returns and the process ends under the scheduler.
  `ExitLeavesOne` is the bound on what is lost.
* A cut word spoils a table: it needs a batch larger than the client's buffer,
  or a slow network, and is why `OutputComplete`, `TableComplete` and the
  refinements are stated for whole sends. So does a cut `EOF` in part 4, which
  the client does not recognise and waits for ever: `MCFriendlyCuts.cfg` with
  `OutputComplete` or `ClientsEnd` added shows both.
* A thread of part 4 whose `connect` is refused ends its process, and a table
  that another thread is writing is left without some or all of its lines: the
  exception that `OutputComplete` makes.

### Properties

* `StopAndWait`, `AttemptContinues`: the two sides of a connection stay in step.
* `BusyMeansServed`: a stale TRUE in `isRunning` has one cause only, the `$$` exit.
* `WordCountedOnce`, `LossReported`, `AbsSpec`: what the tables can contain.
* `RequestLeavesService`: the other handlers cannot keep a handler in its loops.
  `ServiceRunsOut`: why. A handler with a request in hand can be sent round its
  loops for nothing (a packet without words) only if `isRunning` became true
  again in between, and each other handler can do that to it once.
* `LoneClientFinishes`: contention is all that can hold a client up. It asks that
  the other handlers have ended with EOF; one that ended with `$$` leaves the
  server busy for ever (see above).
* `ServerStops`: when all clients are done, all handlers end, so the server's
  main thread gets past its joins.

Part 4:

* `QueuedOnce`: a connection is with its handler, in the queue, or with the scheduler.
* `UnservedCounted`: what the unprotected counter counts. `ExitLeavesOne`: what the
  accept loop may conclude from it.
* `OutputComplete`: with whole sends what is written to an output file are lines
  of the exact table of the file (every word once, no `$$`, no piece, no empty
  word), and all of them once the client came to its own end, whatever the
  scheduler does and whenever the server ends. `AbsSpec`: it is counted window
  by window.
* `CountedAtMostOnce`: what is left of that when recv cuts words. It rests on the server
  answering from the offset asked for and on the client adding `k` to it each time.
* `QueuedIsTaken`, `ClientsEnd`: the scheduler waiting in `recv` blocks nobody for
  ever. `FifoTakesTurns`: between two turns of one connection all that wait have theirs.
* `NotForgotten`: a client that waits for words is where a thread of the server
  will come across it, or its connection is closed: no way through the accept
  loop, the handlers and `processRequest` drops one silently.
* `RecvReturns`: the one scheduler thread blocks, without a timeout, on a
  connection whose client has something left to do. `NeverAllWait`: accepting
  thread, handlers, scheduler and clients never all wait before every client has
  ended.
* `StepsRunOut`: no step is in vain. Nobody is requeued, taken or served without
  getting nearer to the end, and nobody is pushed back by somebody else's turn.

Parts 1 and 2:

* `TableComplete`, `AbsSpec`: every table that is written is the file's,
  although it is written whatever ended the loop; it rests on the server closing
  nothing before its handlers are joined.
* `CountedAtMostOnce`: part 1 under cuts and early requests, see above.
* `AskedInFile`: nobody asks for `offset == words.size()`, which the server's
  test lets through and answers with nothing. It rests on EOF being in one send
  with the last words.
* `NeverBothWait`: handler and client are never both in `recv` with nothing on
  the way, nor does one wait for the other when that has ended. `StepsRunOut`:
  no step of a session is in vain.
* `SessionsEnd`: the clients finish and the server ends.

### Fairness

Parts 1 and 2: weak fairness of each client and handler thread and of the main thread.

Part 3: weak fairness of each handler thread and of each client thread
(`HandlerNext(c)`, `ClientNext(c)`): the operating system runs every thread that can
run, waits are finite, and TCP delivers what was sent. No strong
fairness, and no fairness between requests: the code has nothing that
would give a refused client its turn, and indeed "every client finishes" does
not follow (two clients may refuse each other in lockstep for ever).

Part 4: weak fairness of the main thread, the scheduler, each handler and each client
thread, for the same reason. `AcceptFails` has no fairness: nothing promises that a
blocked `accept` returns when another thread closes the socket. The choice of the round
robin has none either; that `QueuedIsTaken` holds all the same is due to the file being
finite: nobody can be taken for ever.

## Proofs

### Part 3

`tlapm Grumpy_proofs.tla` and the like; all theorems hold for every file length,
every `k` and `p` of at least 1 and every finite set of clients
(`ConfigAssumption`, `ClientsAssumption`, `NoClientAssumption`: 0 is not a
client's descriptor).

The properties are not inductive: that a handler's next packet
continues the attempt depends on its `offset`, the client's `offset`, and what is in
flight and read between them. `ConnectionInv` states this per client:

* `HandlerInv`: a packet grows from `offset` towards `z`; EOF sent means nothing
  more will be.
* `AttemptInv`: which token may stand where in what was read and is in flight.
* `PhaseInv`: before an answer starts nothing of the attempt exists, and the
  handler is quiet.
* `ServeInv`: while a handler serves, `offset` of the handler = `offset` of the
  client + the length of the attempt.

Nothing in it mentions `isRunning` or `clientID`: it holds whatever the
handlers do to each other, so a step of one handler or client preserves the
invariant of every other by `LocalFrame`, and the proof has one lemma per action
of the client or handler it concerns. The theorems:

| theorem | establishes |
|---------|-------------|
| `TypeCorrect` | `TypeOK` |
| `ConnectionCorrect` | `ConnectionInv` |
| `StopAndWaitCorrect`, `AttemptContinuesCorrect` | follow from it |
| `BusyCorrect` | `BusyMeansServed`, using that a handler that has sent EOF is not claiming the server |
| `Refinement` | `AbsSpec`: every step is a step of `WordCount` or a stutter |
| `WordCountedOnceCorrect`, `LossReportedCorrect` | what the tables can contain |
| `ServiceRunsOutCorrect` | `ServiceRunsOut`, see "Termination, but for fairness" |
| `CountedOnceCorrect`, `LossAccountedCorrect` (`WordCount_proofs`) | the same of the abstract specification, for `Lossy` and not |

`Refinement` maps `offset`, `wordcount` and "done" to the reader's `next`,
`tally` and `finished`. Only two kinds of client step change them. For a
completed batch `ConnectionInv` gives that its *k* tokens are the words
`offset`, `offset + 1`, ... of which the last may be a `HUH!` (`BatchWindow`), for
the last recv that what was read is the rest of the file (`LastWindow`).
The tables follow from `TableInv`: at any time a table accounts for the words
before `offset`, in the sense of `Accounts` in `WordFile` (none twice, none ahead,
and as many missing as there are `HUH!`s); `AccountsRun` and `AccountsLoss` in
`WordFile_proofs` show that counting a window preserves this, without
induction over the window, from where its words stand.

### Part 4

`Friendly_proofs`, for every finite set of connections, every number of places,
file, `k` and `p`, both policies, streams cut or whole (`ConfigAssumption`,
`ClientsAssumption`, `CutsAssumption`, `ServerAssumption`).

`QueuedOnce` is not inductive: that a handler does not queue a connection that
is queued needs that `accept` returns a connection once, which needs that it
waits in the backlog once and connected once (`BacklogInv`); that taking from
one queue removes the connection needs that the other policy's queue is empty
(`PolicyInv`). `ExitLeavesOne` needs that the listening socket is closed only
with at most one place left (`StopInv`), by either thread, and so that the
scheduler joins only when there is none (`SchedulerInv`). `ClosedInv`, a closed
connection is nowhere any more, is what `UnservedCounted` needs: a connection
that was answered with EOF was not closed. Together they are `PlaceInv`. The
proof has a lemma per thread and a step per action; `AddToQueueEffect` and
`GetNextRequestEffect` say what the two operations on the queues do for either
policy.

| theorem | establishes |
|---------|-------------|
| `TypeCorrect` | `TypeOK` |
| `PlaceCorrect` | `PlaceInv` |
| `QueuedOnceCorrect`, `ExitLeavesOneCorrect` | follow from it |
| `UnservedCountedCorrect` | `UnservedCounted`, by counting: only `Served` changes who is served |
| `FifoTakesTurnsCorrect` | `FifoTakesTurns`, from `TurnInv`: who was taken while a connection waited, and is in the queue again, stands behind it; `QueuedOnce` is what keeps a connection from standing both in front and behind |
| `WindowCorrect`, `CountedAtMostOnceCorrect` (`FriendlyTable_proofs`) | `CountedAtMostOnce`, see below |
| `StepCorrect`, `EmptyCorrect`, `OutputCompleteCorrect`, `Refinement` (`FriendlyTable_proofs`) | `OutputComplete` and `AbsSpec`, see below |
| `NotForgottenCorrect`, `RecvReturnsCorrect`, `NeverAllWaitCorrect`, `StepsRunOutCorrect` (`FriendlyTable_proofs`) | see "Termination, but for fairness" |

### The tables of parts 1 and 4 under cuts

`CountedAtMostOnce` holds wherever `recv` cuts the stream, so nothing can be
said about how much of a window was read when the next one is asked for. What
can be said, about one client's `table`, stream `s`, requests in flight `reqs`
and `offset`, is in `Stream_proofs`:

* `CountedOnce`: no word stands twice in table and stream together.
* `Asked`: the requests in flight are at least `k` apart, in order, and the last
  is for `offset`.
* `Ahead`: every word counted or in flight stands before all requests in flight
  and before `offset + k`.
* `Serving`, while the client is being answered with the words from `a` to `b -
  1`: what was sent stands before `a`, and `b` is no further than the next
  request in flight.

`Idle` is the first three. Each of the four things that can happen has a lemma:
the server takes requests and loses all but the first (`TakeWindow`), sends a
packet (`SendWindow`) or a mark (`SendMark`), the client counts the words of a
recv (`ReadWindow`), and it asks for the next window (`AskWindow`). The lemmas
know of no thread: `WindowInv` of `Sessions_proofs` applies them to the handler
of each session, that of `FriendlyTable_proofs` to the scheduler and the
connection it is with. In part 2 `Asked` is false: the early request is for the
same window.

### The tables of parts 1, 2 and 4 with whole sends

Where every `recv` ends where a send ended (`~cuts`, `Cuts = FALSE`) the client
and whoever answers it go through the file in step. This needs a file with a
word in it: with an empty file the first request already lies behind its end. In
parts 1 and 2 that is an assumption of the theorems (`NumWords # 0`), since
their server then answers with nothing and both sides wait for ever. In part 4,
whose server tests `>=` and answers `$$`, only `StepCorrect` has it; all other
theorems hold without it, by `EmptyInv`: a client makes one request and is sent
one `$$`, nothing is ever counted, and the scheduler is never in its sending
loop. `Stream_proofs`, "Whole sends", has what the parts share:

* `Pending(s, x, y)`: the stream holds the words from `x` to `y - 1` in order,
  with EOF behind them exactly if `y` is the end of the file, and every send
  begins with a word, so that no recv returns a lone mark.
* `Tallied(table, x)`: the table has the words before `x` once, and no `$$` and
  no piece.
* `Requested`: the client has asked for the window at `offset`, nothing is under way.
* `Answered`: of this window the words before `y` were sent, those before `x`
  read, not all of them.

`TakesRequest`, `SendsWords`, `ReadsWords` and `ReadsEnd` lead from one to the
next. The point is in `ReadsWords`: the words read are a multiple of `k` just
when the window is complete, so the client never asks early and never forgets to
ask; there the end of the window has not reached the end of the file, so the
request is for a word that exists. `StepInv` ties this to the threads: `y` is
the handler's (scheduler's) next word while it serves the client, and the end of
the window otherwise, which is why the one that stops serving must have sent all
of it. In part 4 `StepInv` also holds for clients that stopped early because
another thread's `connect` failed and ended the process, or because the server
was gone: their tables are the beginning of the file. `Tallied` speaks of the
keys that parts 1, 2 and 4 share; for `OutputComplete` part 4 adds
`EmptyWordInv` (no recv cuts behind a word, so its client, which counts empty
words, has none) and `OutputInv` (a file is written to only with the end of the
file read, and only `exit(1)` keeps it from its last line), which holds of cut
streams as well.

| theorem | establishes |
|---------|-------------|
| `StepCorrect` (`Sessions_proofs`) | `StepInv` of parts 1 and 2, with that the server runs until every handler has sent EOF |
| `TableCompleteCorrect`, `AskedInFileCorrect` | follow from it |
| `Refinement` (`Sessions_proofs`) | `AbsSpec` of parts 1 and 2 (under cuts it says nothing: the mapping is then constant) |
| `StepCorrect`, `OutputCompleteCorrect`, `Refinement` (`FriendlyTable_proofs`) | the same of part 4, whatever the policy and the order of the turns |

### Termination, but for fairness

That a program under fairness comes to its end is beyond the prover. What such
an argument rests on is not: that as long as not everything has ended some
thread can take a step of its own, and that every step leaves less to do. With
both proved, only a thread that is never run can keep parts 1, 2 and 4 (whole
sends) from ending; this is all that `SessionsEnd` and `ClientsEnd` add, and TLC
checks it.

**Somebody can go on.** In parts 1 and 2 (`NeverBothWait`) this follows from
`StepInv`, which says of each session what is under way, and from `StreamsEnd`:
what is in flight to a client ends with a newline, so that a recv that ends
where a send ended can return. In part 4 it takes the places of the connections
as well:

* `ForgetInv`, the inductive form of `NotForgotten`: a client that wants more is
  in the backlog, with its handler, in the queue or with the scheduler. That a
  connection taken is put back, closed or served to its end is not enough: a
  client served to its end is let go of, and must be one for which
* `EndSentInv` says that EOF is among what it has not read yet.
* `EndsInv`: a client thread that ended has closed its socket, so the
  scheduler's `recv` returns for it too; the vector of threads, which two
  threads join, has handlers of accepted connections only; when the server
  process has ended it has no connection left open.
* `WaitsInv`: a client in `recv` has asked for something or is being sent it
  (`StepInv`, or `EmptyInv` when the file is empty), so the scheduler's `recv`
  returns for whichever connection it took.

**Every step leaves less to do.** `Work(c)` bounds the steps left for a
connection: words not yet sent (`SentTo`) and not yet read, three steps per
window not yet asked for and per request under way (taking it, putting the
connection back, asking again), the way to the scheduler (`Distance`), and what
the client does once. `StepsRunOut` says that no step makes `Work` of any
connection greater and that each step makes that of one less, but for the steps
of the main thread between two accepts (`MainWork`). It is an action property,
so its proof has one lemma per step; `Gains` and `GainsMore` say of each which
terms moved, so that the arithmetic is done once (`TotalFalls`). The inductive
invariant it needs is `WorkInv`: nobody reads or sends words behind the file,
and the batch being sent is the window that was asked for last, or the one
before it; without that a batch sent twice would be words sent twice and `Work`
negative. `Sessions` has the same measure without the queue.

**Part 3** has neither: two clients may refuse each other for ever, and a
request can go unanswered. What does end is each request's time in service, and
`ServiceRunsOut` is the measure. While a handler owns the server each trip
through its loops either advances `i` or `req` or finds `isRunning` false. After
that it is in the loops again only if some other handler has stored true in the
meantime. But that handler's next access is to store its own descriptor to
`clientID`, which ends the service of this one: so each other handler has one
such chance (`Chances`), and the variant is four times that, plus what the loop
has left by its own indices. `LoopInv` (`req <= i <= z`) keeps it a natural
number; the counting is `Cardinality` of the finite set of handlers that still
have their chance.

| theorem | establishes |
|---------|-------------|
| `NeverBothWaitCorrect`, `StepsRunOutCorrect` (`Sessions_proofs`) | parts 1 and 2, for every file with a word |
| `NotForgottenCorrect` (`FriendlyTable_proofs`) | part 4; from `ForgetInv` and `EndSentInv` |
| `RecvReturnsCorrect`, `NeverAllWaitCorrect`, `StepsRunOutCorrect` (`FriendlyTable_proofs`) | part 4, for every file, every number of connections and places, both policies |
| `ServiceRunsOutCorrect` (`Grumpy_proofs`) | part 3 |

### Model-checked only

* The liveness properties themselves (`SessionsEnd`, `ClientsEnd`,
  `QueuedIsTaken`, `RequestLeavesService`, `LoneClientFinishes`, `ServerStops`):
  the prover does not handle fairness. `RequestLeavesService` is what
  `ServiceRunsOut` adds fairness to, `ClientsEnd` and `SessionsEnd` see above.
* The counterexamples.

Every invariant and every action property of the passing runs is proved.

## Not modelled, and why

* The values of waits and timings, `total_time`, `time_served`, the logs and
  their averages: nothing in the protocols depends on them; the unsynchronised
  counters are among the hazards. The slots of ALOHA are arithmetic on the
  clock; sensing is a sleep.
* Runs with an empty file. Parts 1 and 2, whose server tests `offset >
  words.size()`, then wait for ever, since a request for offset 0 is answered
  with nothing. Parts 3 and 4 test `>=` and answer `$$`; in part 3 that leaves
  the server busy and all other clients are refused for ever. The theorems
  include the empty file, but for those of parts 1 and 2 on whole sends and the
  `StepCorrect` of part 4.
* `My_Json.h`: four copies of a parser for a fixed file, run before any thread
  starts; its result is the models' constants.
* `client_single.cpp`: built by no target of the Makefile, and it joins threads it never
  started (`pthread_t`s that were never set), so what its process does is undefined.
* `json.hpp`: vendored, and included by no source file. It is 24,765 of the
  repository's 26,924 lines of code, so a map of everything else covers 8 % of them.
* Plot and test scripts. What they expect of the programs
  is `SameCounts`, `OutputComplete`, `ServerEnds` and `ClientsEnd`.
* Socket set-up and its error exits; a failed `send`; a process that is killed;
  a `recv` that fills the buffer, behind which `string(buffer)` reads on.

## Plan

1. (done) Part 3: `WordFile`, `Wire`, `GrumpyServer`, `GrumpyClient`, `Grumpy`,
   `WordCount`; safety, liveness, refinement, the inductive invariant and its proof.
2. (done) Part 4: `Stream`, `FriendlyServer`, `FriendlyClient`, `Friendly`,
   `FriendlyTurns`; safety, liveness, turns, refinement; the proof of where a
   connection is and what `client_unserved` counts.
3. (done) Parts 1 and 2: `Sessions`; safety under cuts, safety and liveness with
   whole sends, refinement.
4. (done) `GrumpyBackoff`: what the waits of beb are drawn from.
5. (done) Proofs of type correctness of `Sessions` and of `CountedAtMostOnce` in
   parts 1 and 4.
6. (done) Proofs of `TableComplete`, `AskedInFile`, `OutputComplete` and of the
   refinement of `WordCount` by parts 1, 2 and 4 with whole sends.
7. (done) Proof of `FifoTakesTurns`.
8. (done) Termination but for fairness: that parts 1, 2 and 4 never all wait,
   that no client of part 4 is forgotten, that no step is in vain, that a
   request of part 3 leaves service; the theorems of part 4 for an empty file.
9. Open: what stays true of the clients of part 2 when streams are cut, where a
   word may be counted more than once. It needs a bound on early requests before
   TLC can look at it.
10. Not planned: liveness for all constants (out of the prover's reach), the reuse of
   descriptors by `accept`, and the unsynchronised totals of part 3.

Operators whose names end in a fault (`EmitKeepsOffset`, `RefusedKeepsWords`,
...) are not used by any specification: each is a variant of the definition that
follows it with a plausible mistake, and shows which property that mistake would
break (`PROJECT.json`, "mutants").
