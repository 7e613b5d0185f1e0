# Specifications of the APE network framework

This directory holds TLA+ models of the framework in `frame/` (a C++ service
framework over boost::asio), the TLC configurations that check them, and proofs
about them checked by TLAPS. Paths below are relative to `src/`.

## 1. The system

A process has a `CNetThreadHolder` with n+1 `CSessionManager` threads. Each thread
runs one `io_service`, a timer wheel and the business code's `CHandle`; the last one
accepts connections. A manager is two services in one: `CSosSessionManager` for the
sessions the process opens to other servers, and `CSocSessionManager` for those it
accepted. The business code is called through `CHandle::OnEvent` and calls back
through `CNetService` (`DoConnect`, `DoSendTo`, `DoClose`) and `CHttpService`
(`DoSendBack`); these post to the loop from other threads and call directly from
the loop's own thread, so a handler may re-enter the session that is calling it.

| component | state | operations | hard behaviour | what makes it correct |
|---|---|---|---|---|
| `CSession` (`frame/session/session.cc`) | `status_`, `owner_`, `waitinglist_`, `request_history_`, two timers | Connect, DoSendTo, Close, OnRead, OnPeerClose, request time-out, heartbeat, reconnect | re-entrant callbacks; late, repeated or missing answers; close and delete under outstanding work | each request is settled once, with its own answer; no use of what was given away; everything is settled in the end |
| `CConnection` (`frame/net/connection.cc`) | `connected_`, `session_`, `is_dealing_read_`, read and write buffers, `conn_timer_` | AsyncConnect, HandleRead, AsyncWrite, OnPeerClose and the completion handlers | completions queued before the socket was closed; a connect timer already queued; overlapping writes | agrees with its session on whether it is up; no pointer to a deleted session |
| `CHttpSession` (`frame/session/httpsession.cc`) | `request_deque_`, `dwseq` | OnRead, DoSendBack | pipelined requests answered in any order, after close or expiry | responses leave in request order |
| `CSosSessionManager` | short sessions by name; persistent sessions by address, groups of addresses by name | DoConnect, DoSendTo, DoClose, periodic check | shared addresses, round robin over a growing sorted group | a connected name reaches its addresses |
| `CSocSessionManager` | sessions by connection id | OnAccept, DoSendBack, OnPeerClose, periodic check | answers for sessions that are gone; ids taken from an unsynchronised counter | an answer reaches the session that asked, or none |
| `CIoServiceThread`, `CNetThreadHolder`, `CTcpSocketServer` | `isalive_`, `work_`, threads, acceptors | Start, Stop, self check, accept | one flag used by three threads' worth of logic | timers run while the thread runs; Stop ends |
| `CTimerManager`, `CThreadTimer` | five wheels, ready list | AddTimer, RemoveTimer, DetectTimerList, Cascade | timers stopped from a callback; wheel boundaries; clock steps | a timer fires once, not early, not a turn late |
| `MsgQueuePrio`, `MsgTimerThread` | three bounded queues, two kinds of condition, counters of sleepers | PutQ, GetQ, Start, Stop, Run | lost wake-ups, priorities, time-outs, Stop before Run | FIFO per priority; nobody sleeps for ever beside work |
| reading side of `CConnection`, parsers (`frame/protocol`) | read buffer; the parsers keep nothing across calls | HandleRead's decode loop; Decode, Encode, heartbeat of HTTP and thrift | the pointer contract of `Decode`; bytes that arrive in any pieces; old bytes behind the data | messages come out whole and in order, or the connection ends |
| writing side of `CConnection`, `buffer.h`, `handleralloc.h` | `writebuf_`, `close_after_write_`, the allocator's block | AsyncWrite, HandleWrite, close, dial again | overlapping writes, realloc under an outstanding write, errors of old writes | a quiet connection carries each message intact; a new connection is not closed by an old write |
| examples (`example_http`, `example_thrift`) | contexts of open calls, the coh singleton, run() of main | OnEvent, DoTestThriftRequest, reports, commands, start and stop | two threads; answers, time-outs and losses while requests wait | an HTTP request has one owner and is answered once |
| generated thrift code (`student_gen_cpp`) | fields of structs, the client's calls | read and write of structs, send, recv, process | unknown fields, short structs, exceptions, replies out of turn | a call returns its own student or throws |
| `CXmlConfigParser` | `root_` into the parsed tree, the error of the last parse | ParseFile, ParseBuffer, GetParam, GetParams | a pointer into a tree that each parse replaces | a lookup is of the last good parse |
| `tinyxml2` | tree, attributes, pools | parse, print, insert, move, delete, copy, typed values | in-place conversion, lists of four pointers, errors half way | what is saved is what is read again; lists read the same both ways |
| directory reader, library loader, address parsing, session factory, logging | | | | not modelled |

`PROJECT.json` lists every part with its status, and the hazards of the code at
their lines.

## 2. Modules

**`RequestService`** is the abstract service of an outgoing session: a request is
accepted (open) or refused at once, and an open request is settled exactly once, with
an answer, a time-out or a close. A *lossy* service may also delete it silently.

**`Session`** is one outgoing `CSession` with its `CConnection`. `stack` is the call
stack of the running task: an operation that calls the handler pushes the frame of what
it still has to do, then `Handler`. While `Handler` is on top, the business code may
call the session again (`Nested`), or return. Between tasks the stack is empty and the
loop may start any task that is ready: a posted call (`Posted`), a completed dial, read
or write, or a timer. So each action is a handler up to its next callback, and the rest
of the handler is the next action on the stack; nothing else of the loop can come between.

| in the code | in the model |
|---|---|
| `status_`, `owner_ != NULL`, `session_ != NULL`, `connected_`, `is_dealing_read_` | `status`, `owner`, `linked`, `connected`, `dealing` |
| `waitinglist_` | `waitinglist`, a sequence of requests |
| `request_history_` (a multimap by sequence id) | `ticket`: the position at which a request was inserted, 0 when it is not there; `begin()` and `find()` are `IsBegin` and `IsFound` |
| a request's timer in the wheel | `armed` |
| a message's life: sent, given back, deleted | `fate`; using a message whose fate is closed sets `crashed` |
| `timer_reconn_`, `timer_heartbeat_`, `conn_timer_` | `reconn`, `hbTimer`, `connTimer` (`queued`: expired, can no longer be cancelled) |
| outstanding resolve/connect, reads, writes | `dials`, `reads`, `writing` |
| the socket; what the peer was sent; data read but not handled | `sockUp`, `owed`, `arrived` |
| an erased iterator, a destroyed timer, a NULL owner | `crashed` |

`AsyncWrite` models that `writebuf_` is never reset, so the peer sees earlier requests
again and may answer them again: this is what makes late and repeated answers happen.

**`MCSession`** gives `Session` its sequence ids for TLC.

**`OrderedResponses`** is the abstract promise of an HTTP server session: each time a
request is answered, every response that is then in order has been sent.

**`HttpSession`** is one accepted `CHttpSession` with its connection and the manager's
map, from accept to deletion. A deque item's response is `none`, `keep` or `close`.

**`PrioQueue`** is what the priority queue promises the threads that share it: three
bounded first-in-first-out queues, and a reader takes from the most urgent one that has
a message.

**`MsgQueue`** is `MsgQueuePrio`, used by any number of producers and consumers. What a
thread does between taking the mutex and giving it up, by returning or by waiting, is one
action: `PutQ` and `GetQ` from the call, `PutAgain` and `GetAgain` from a wait that ended,
`PutTimesOut` and `GetTimesOut` from one that timed out. The variables are those of the
code (`ppbuf`, `datasize`, `putloc`, `getloc`, `waitingputthreadnum` as `waitingput`,
`waitinggetthreadnum_` as `waitingget`), the arguments of a `PutQ` under way (`call`), the
last result of `GetQ` (`pdata`) and the place of each thread (`pc`: `out`, `asleep` on its
condition variable, `awake` when notified or woken for nothing, `late` when its time ran
out; the last two do not have the mutex back yet). Neither waking nor timing out is
bounded. **`MCMsgQueue`** gives it small capacities.

**`TimerService`** promises of the timer wheel: a timer is called once for each start, and
not after it was stopped. **`TimerWheel`** is `CTimerManager` with `CThreadTimer`: the
spokes and the ready list as sequences, `timernode` the timers that have a node. Times are
kept relative to `checktime_` (`lag` is how far the clock is ahead of it), so that time has
no end. A detection turns the wheels tick by tick, then calls the ready list one by one,
and a callback may start or stop any timer.

**`SessionManager`** is one manager: `short_sessions_`, the persistent sessions by address
with the groups of names and their `current`, the accepted sessions by id, the periodic
check, and `sm_mark_`, which other threads increment without synchronisation (`fetched`
is what a thread has read and not yet written back; `raced` remembers a lost increment).

**`IoThread`** is `CIoServiceThread` between its owner and its own thread: the queue of
posted functions, `work_`, `isalive_`, the deadline timer, the self check.
**`ThreadHolder`** is `CNetThreadHolder` with its `CTcpSocketServer`s: start in order,
accepts and their errors, round robin by `index_`, stop and join.

**`MsgTimerThread`** is the message and timer thread over queues as `PrioQueue` promises
them, owned by the group of the unit tests.

**`Framing`** is the reading side of a connection, with the parser as constants: `Encode`
gives the tokens of a message, `Decode` the set of results it may have for a buffer. The
peer's messages are cut wherever `CutBetween` and `CutInside` allow. **`HttpParser`** and
**`ThriftParser`** are those two operators for the parsers of the framework. The wire is
tokens (a start line, a header line, a byte of a body), cut inside or between; what
`Decode` reads behind the received data is old memory, so its result may be one of several.

**`WriteBuffer`** is the writing side, with asio, the socket and the handler allocator: each
write (`ops`) has the memory it points to, its length when it began and where its handler
was allocated; the wire is what the peer receives.

**`Serv`** is the generated code of the student service, structs as sequences of fields;
**`ServCalls`** is the client, the wire and the processor, for interleaved calls of
handlers that answer or throw.

**`Proxy`** composes the two examples: HTTP connections, the handler's thread, the session
to the thrift example, its answers, time-outs and losses. The result is read with `Serv`,
and what it gives an HTTP connection is checked against `OrderedResponses`. **`Coh`** is
the coh thread of the HTTP example with run() of main.

**`Xml`** is the parser of tinyxml2, from a text to a tree or an error; **`XmlPrinter`** is
`XMLPrinter` to memory; **`XmlConfig`** is `CXmlConfigParser` over them. **`XmlTrees`**
grows every small document and prints, cuts, parses and looks it up; **`XmlTexts`** grows
every text of some pieces. **`XmlNodes`** is the document as pointers: `dom` has the four
links, the parent, the attributes and the pool of every node. A loop over a list is the walk of
its pointers (`Walk`), and a deletion, which the code does node by node and child by child, is
one of all nodes below (`Beneath`, `Freed`). **`XmlChars`** is the reading of character
references and their bytes, with 32-bit numbers as two halves; **`XmlValues`** extends it with the
typed values.

**`Sorting`** is `std::sort` of addresses and the order of a multimap's keys: the elements
of a set of numbers in their order.

**`Threads`** puts side by side what the threads of a process do (`TimerWheel`, `IoThread`,
`ThreadHolder`, `MsgTimerThread`, `Coh`) and what they keep account of (`SessionManager`,
`Proxy`, `ServCalls`); **`Connections`** does so for the reading and the writing side of a
connection and the examples over it. A first variable says which of them runs and the others
stay as they begin, so each is checked by itself and the states add up. `Parts` says which of
`Threads` may be chosen. `Manager(side)` is a `SessionManager` with the constants of `side`:
one side opens sessions under names and addresses (`NamesSide`), the other has those with an
id (`IdsSide`). A property of such a module is the conjunction of its components' properties,
which are defined, with the code they are about, at the end of each component's module.
**`MCThreads`** and **`MCManagers`** give `Threads` its constants for TLC, the first for the
parts that need threads, the second for the timers' times and the accounts; **`MCConnections`**
does so for `Connections`. **`MCDocuments`** is made in the same way of the XML modules; it
extends `XmlNodes` and `XmlValues` and bounds only how `XmlNodes` is used (`Linking` without
attributes, `Naming` with attributes on the elements `Bearers`).

The proofs are in **`Session_proofs`**, **`HttpSession_proofs`**, **`MsgQueue_proofs`**,
**`Threads_proofs`** (the wheel first, then the other parts), **`Sides_proofs`** (the reading
side with any parser, the writing side), **`Connections_proofs`** (the parsers of thrift and of
HTTP, and what follows for connections) and **`Xml_proofs`** (nodes, references and typed
values). **`BasicLemmas`** has what several of them need: lists, division with a remainder,
induction and recursion over the natural numbers, and what `Sorted` makes of a finite set.

Definitions named `Mutant...` are plausible wrong versions of the definition they stand
before; a property of a run is known to fail on each. They take no part in a specification.

## 3. Runs

| run | configuration | what it shows |
|---|---|---|
| `session_persistent` | autoreconnect, heartbeat, `DoConnect`, `DoSendTo` and both together posted, `DoConnect` and both nested; 2 requests, 1 extra connect | each request is in one place and settled once with its own answer; timers match the history; no dead pointer; CONNECTED means usable; implements `RequestService` |
| `session_short` | a short session that may be closed, expired by the check | a deleted session is not reachable from its connection or a timer; implements the lossy service |
| `session_liveness` | autoreconnect, `DoTestThriftRequest`'s calls, fairness | what is on the wire, or waits for a dial in progress, is settled |
| `session_redial` | the same | **violated**: a session that failed to connect never dials again |
| `session_expiry` | a short session | **violated**: an expired session deletes its requests silently |
| `http_session` | 4 pipelined requests | order, agreement of deque and handler, deletion, implements `OrderedResponses` |
| `queue_wakeups` | 3 producers, 2 consumers, capacities 1, 2, 1 | the counters of sleepers are right; nobody sleeps beside a message, or a free place, that nobody has been woken for; no deadlock |
| `queue_order` | 2 producers, 1 consumer, 2 messages that differ | the rings stay inside their bounds and implement `PrioQueue` |
| `threads` | the wheel: one timer that is called once and one periodic, two wheels of two spokes. The loop: 2 connections. The holder: 3 managers and an acceptor, 2 servers, an index of 4 values. `MsgTimerThread`: 2 threads, one of each priority, 3 messages. `Coh`: 3 reports, 1 command. Fairness | `ImplementsService`: the wheel implements `TimerService`. `OnePlaceEach`: nodes, deadline timer, accepts, messages and connections are each in one place. `NothingOutlived`: nothing works for what has ended. `Served`: timers are called, messages dealt with, reports settled. `StopEnds` |
| `connections` | reading: 3 thrift messages cut anywhere, and 2 of 4 HTTP messages cut where the decoder can bear it, over 2 connections; HTTP cut anywhere, with packets over the limit and a handler that closes. Writing: 4 writes and 3 connections without overlap, 3 writes and 2 connections with it. The examples: one connection, 3 requests. Fairness | `BufferSound`: room to read, no bytes of an old connection. `DeliveredWhole`: whole messages in order, none withheld, never closed as illegal. `WrittenWhole`: without overlap each message arrives intact and the close comes behind it. `OldWritesSpare`: a new connection is spared by old writes. `Served`: what is sent is delivered, a close comes, HTTP requests are settled |
| `managers` | the wheel: one timer, every interval, three wheels, a clock that leaps 5 ahead and 2 back. Names: 2 names, 3 addresses, 3 sessions. Ids: accepted and outgoing sessions, 3 threads that count. The examples: 2 connections, 3 requests, 2 dials. Generated code: 2 clients, 2 numbers, 2 calls each, handlers that throw | `OnTime`: no timer behind the wheels, none called early by more than they lagged. `SessionsKept`: the groups of names, round robin, each session under its key, active ones spared by the check. `AnsweredTruly`: one owner per request, true students, one reply each. `FeedsSessions`: `OrderedResponses` is fed in order |
| `documents` | every tree of a root, a declaration or none and up to 4 nodes and attributes; texts of up to 5 tags; texts of up to 5 of 13 pieces; good and bad files, 3 parses; 4 elements, 1 text, a parse that fails; 2 elements, 2 attribute names; references of 7 decimal, 6 hexadecimal digits; an int of 2 bits | `ReadAsWritten`: printed, saved and read again it is the same; tags must match. `ConfigWhole`: no half configuration; lookups and errors are of the last parse. `NodesSound`: lists agree in both directions and with lookups, pools count right, clones are equal. `ValuesKept`: references are their number in UTF-8 and fit, values are read back |

The two runs that are **violated** state what the repository says of the code; see
Findings.

Bounds. Two requests are the least that can be confused with each other (another's
answer, another's timer, one parked and one on the wire) and the invariants relate
requests pairwise at most. One more `DoConnect` or `DoClose` (`MaxConnects`) lets a
connect come at every point of every task; reconnection, the reads and the dials are not
bounded. Four pipelined requests allow an answer kept in the middle of a flush, one
kept behind it and an unanswered head. In the queue, a wake-up can be lost
only if two threads sleep for the same reason: two readers, and two writers on a ring of
two places beside one that fills it. For the order, two messages that differ and a ring of
two places show a swap, a loss and a repetition. The wheels have two to four
spokes, so that a few ticks cross every boundary and turn; the clock leaps further than
a turn of the first wheel. Three addresses and two names let a group grow in front of and
behind `current`. An index of four values comes round within nine accepts (`IndexSize`
stands for 2^32; it is a multiple of three managers plus one, as 2^32 is). `Framing` has
buffers of four and ten tokens, shorter than a message, so that they grow; a thrift message
of five tokens is the largest that fits a `MaxPacket` of 9, and `MaxPacket` is 18 tokens in
the run of any cut, which two messages exceed. Three writes are two that
overlap and one behind them. Four nodes are the least in which an element has two children
and a grandchild; five in `XmlNodes` let one move between two lists of two. Digits in
`XmlChars` are those on both sides of each limit of UTF-8. The proofs remove the bounds from
all safety properties but two, `ReadAsWritten` and `ConfigWhole` (section 4).

`CHECK_DEADLOCK FALSE` where the system may stop: a session with all its requests settled,
no timer armed and no dial in progress (also after a failed connect); a holder, a loop or
a group of threads that was stopped; a peer that has sent all it had; a text or a document
at its bound. The queue must not get stuck, and its runs check deadlock. The four combined
runs contain parts that end; what must not get stuck in them is stated by `Served` and
`StopEnds`.

Fairness (`session_liveness`). `WF(Continue)`: a task runs to its end, the handler
included. `SF` on the expiry of the connect timer, on its handler, on the reconnect
timer and on each request's timer: the loop's queue is FIFO and the wheel calls a timer
that stays armed. Nothing is assumed of the peer, the dial or the business code. Strong
fairness is needed as the actions are disabled while another task runs.

Fairness (`threads`, `connections`). Weak fairness of a thread's next step while it has
one: the loop runs its handlers, the wheel is driven by a clock that goes on, `Run` goes
round, the owner's Stop and Join go on, a dial ends one way or the other, the kernel takes
what a socket has room for, and what has arrived is read. In `StopEnds` the peers are
assumed to close their connections in the end (`<>[](conns = 0)`), as Stop closes none, and
neither a self check that was due nor a Stop before Run is allowed for, as the properties
say. `Closes` needs a peer that reads.

Findings.

* `session_redial`. `ConnectResult` with an error starts `timer_reconn_` and leaves
  `status_` at CONNECTING; three seconds later `DoConnect` (`session.cc:73`) returns
  because the status is CONNECTING. The session never dials again; requests sent from
  then on are parked for ever (`DoSendTo` parks while CONNECTING). `session.cc:11` and
  the timer say it is to reconnect every 3 s.
* `session_expiry`. `sossessionmanager.cc:62` says of `Close` that it "will flush history
  request and notify OnEvent"; `Close` drops `owner_` first, so `OnEvent` is not called
  and the requests are deleted.

Constants outside these runs show what callers must not do; the proofs name these
conditions (`Disciplined`). Equal sequence ids (an HTTP request's is always 0,
`frame/event/httpmessage.h:33`) break `Accounted`, `TimersMatch`, `NoCrash` and
`RepliesMatch`; `DoClose` from inside a time-out's callback breaks `NoCrash`;
`DoSendTo` after `DoClose` without `DoConnect` calls a NULL owner. Without autoreconnect,
`DoConnect` from inside the peer-close event leaves a session that says CONNECTED with
no connection (`ConnectedIsUsable`, proved under `AutoReconnect \/ NoRedial`).

### What else the models show of the code

These are conditions of the properties above, or steps the models take; no run is kept for
them. Each can be seen by weakening the condition that is named here.

* Sessions and managers. Two threads that count a connection at once give it an id that
  is in use (`raced` in `Filed`); an accepted session that expires is deleted without its
  handler being told, though `socsessionmanager.cc:61` speaks of it; a second name for a
  known address is added to no group (`NamesReach`).
* Threads. A self check ends a running thread's timers if the deadline timer runs before it
  (`checked` in `TimersDriven`). A late self check or `StartInThread`, or an open
  connection, keeps Stop from returning (`revived`, `conns`). The holder's Stop deletes
  managers that the acceptor's thread may still use. A Stop before `Run` is lost (`late`).
* Reading. After an illegal packet, or when a handler closes inside the loop, the buffer
  keeps its bytes for the next connection. Three HTTP messages are closed as illegal, which
  `SoundCut` and `SoundInside` keep out: one whose start line comes in two pieces
  (`httpparser.cc:118`; `baseparser.h:18` says "continue to read"); one in chunks that ends
  with a single line end behind the last chunk, or is cut between its chunks
  (`httpparser.cc:187`; `unit_test/src/t_httpresponsedecoder.cc:73` expects such a message
  to be read); and one with an empty body in chunks, whose last chunk is written twice
  (`httpparser.cc:401`). A thrift heartbeat ends the thrift
  example, which handles only calls it knows; its sequence ids arrive with their bytes
  reversed.
* Writing. `writebuf_` is never reset, so each write sends all messages before it again.
  Overlapping writes may lose or mix data, and the close may come too early or, with the
  flag taken back, not at all: `IntactWhenQuiet` and `FullBeforeClose` say "when quiet".
* Coh. A report is lost with a dial that is lost; Stop of the thread waits for the
  monitor's connection; `cohthread.cc:81` reads `message->type` as a direction.
* XML. Layout behind a text becomes text; a stray end tag stops the parser without an
  error; "</b />" is read as "<b />"; a doubled attribute is refused, though
  `tinyxml2.cpp:1451` says it is not detected; an unknown entity leaves a stale character; a failed parse leaves `root_`
  dangling until the next good one (`LookupIsLive` says "that worked") and the pools
  unbalanced; `InsertAfterChild` of a list's last node behind the one it follows already
  follows a NULL pointer (`FollowsNull`); `ShallowEqual` ignores attribute names; a malformed reference gives NULL
  to `GetStr`; references of more than eight hexadecimal digits lose digits; an int read
  from "1e+20" is 1.
* Addresses. A thrift address without a port leaves the port uninitialised
  (`sossessionmanager.cc:246`), and "ftd" ends the process (`connection.cc:21`).

## 4. Proofs

Each theorem below holds for every value of the constants that the named assumptions of the
modules allow: any number of requests, threads, timers, wheels, names, addresses, writes and
connections, any capacities and intervals. The bounds in the guards (`MaxRequests`,
`MaxWrites`, `MaxLag`, ...) are such constants too.

### The outgoing session

`Session_proofs` proves, for any set of requests and any configuration:

* `TypeCorrect`: `Spec => []TypeOK`, with no assumption on the caller.
* Assuming `Disciplined` (distinct sequence ids, no `DoClose` inside a callback, no
  bare `DoSendTo` on a session that may be closed): `Inductive`, and from it `Safe`,
  `RequestsAccounted`, `RequestsHeldAlive`, `TimersAreThoseOfHistory`,
  `RepliesAreTheirOwn`, the invariants `NoCrash`, `Accounted`, `HeldAlive`,
  `TimersMatch` and `RepliesMatch` of the runs; `NoneDangling` (`NoDanglingSession`); and
  `SessionImplementsService`.
* Assuming `AutoReconnect \/ NoRedial` (the handler does not dial from inside `OnEvent`
  unless the session reconnects by itself): `ConnectedUsable` (`ConnectedIsUsable`).

None of these is inductive by itself, since what a step does depends on the frames of
the running task. `IInv` adds: where each request is, as three disjoint places
(`Placed`: waiting list, history, a `SendTo` frame), with the exception of the
entry whose time-out is being delivered; the form of the stack (`Shape`: `Erase` is only
ever the bottom of its task and nothing that cleans the history can be above it; the
handler and `SendTo` only run with an owner); and when the owner can be gone (`Owned`).
Each action is shown to keep the form of the stack (`Continues...`) and the places of
requests (`...Placed`), and `UserInv`, `ContinueInv`, `NetworkInv` and `TimerInv`
put these together, one step per action.

`ConnectedUsable` needs to know what a `Drop` frame may be under: while a connection is
being dropped the session is not CONNECTED, and whatever could dial is above a `Reconnect`
that has moved the status on (`Guarded`). `NoneDangling` needs the form of a deleting task:
only the check puts `Delete` on the stack, at the bottom, of a session it has closed
(`Ending`), and of a deleted session only drops are left (`Ended`).

The refinement: every step does to the fate of the requests nothing, or to one request
what a service action does (`EveryFateStep`), and the requests held are those whose
fate is open. A session loses its owner only where it may be closed or expires
(`KeptInvariant`); only then is the service lossy.

### The HTTP session and the priority queue

`HttpSession_proofs` proves, for any number of requests, `TypeCorrect`, `Inductive` and from
it `ResponsesInOrder`, `DequeMatchesHandler`, `DeletedIsClosed` and the refinement
`Implements`. The strengthening: the deque holds the latest requests numbered without
a gap (`Deque`), so the number of responses written is the number of requests that left
it (`Written`), and the head of the deque is never answered.

`MsgQueue_proofs` proves, for any number of threads and any capacities, all the
properties of the two queue runs: `TypeCorrect`, `CountersAreRight`, `NoReaderForgotten`,
`NoWriterForgotten` and the refinement `Implements`. They are proved together
(`Inductive`): nobody is forgotten because a put and a get notify whenever the counter is
not 0, which needs `Counted`, which needs that exactly the writers inside `PutQ` have a
call under way (`Busy`); the refinement needs that the next free place is the one after
what the ring holds (`Rings`).

### The timer wheel

`Threads_proofs` proves of `TimerWheel`, for any timers and intervals and any number and sizes of wheels,
that every timer is in one list, once, with a node when it should have one
(`WheelInvariant`), that the wheel implements `TimerService` (`WheelImplements`), and
`WheelOnTime`: `AddTimerNode` and the cascades put no timer behind the wheels, and none is
called early by more than the wheels lagged when it was started. `WheelInv` is `TypeOK` with
`Linked`, and ties the running timer to the phase. A bound on time is not inductive from what
the property says, since a cascade moves timers between wheels before they are due. `WheelTimes`
is: the wheels have seen some number k of ticks; wheel v then stands at
`Count(k)[v] % Size(v)`; and a timer that awaits move number e of wheel v is due no earlier
than `GRANULARITY * (e * Ticks(v) - k - 1) - MaxBack` from now, where `Ticks(v)` is how many
ticks one spoke of v is. A cascade is a recursion over the wheels: it is written as a
recursive function, which `BasicLemmas` shows to exist (the proof then goes from one wheel to
the next by induction over the numbers).

### The threads

`Threads_proofs` proves, of `Threads`, all its safety properties. Each part has its invariant;
`Spec` runs one part and leaves the others (`EachPart`).

* `SpecOnePlaceEach`, `SpecNothingOutlived`, from `WheelInv`, `IoInv`, `HolderInv`, `GroupInv`
  and `CohInv`. The loop: there is one deadline, and none while its handler runs (`IoPlaces`), and what
  starts the thread is in the queue before what stops it (`IoQuiet`). The holder: at index i
  of n threads each has had `i \div n` turns, and one more if it is before `i % n`; what two
  threads were given beyond their turns differs by `skew` at most (`HolderEven`), the turns that
  were skipped where the index wraps. The group: a message is in one queue, in the hands of one
  thread, or dealt with (`GroupOnce`), and a joined thread has left `Run` (`GroupOut`). Coh: in
  front of a handler that sends an error there is one that dials, or the session is there
  (`CohFound`).
* `SpecOnTime`, `SpecImplementsService`, from the theorems about the wheel.
* `SpecSessionsKept`, from `ManInv(side)`: what a container holds is of its kind and under its
  own key, and the other way round (`ManKeyed`); unless an increment was lost, an id is given
  once (`ManCounted`); what timed out was idle since the last check (`ManIdle`); a group is the
  sorted addresses that its name was the first to connect to (`ManGroups`); and the last sends
  to a name went to the addresses before its turn, at most once round (`ManTurns`). The hard
  step is an address that is inserted in front of `current`.
* `SpecAnsweredTruly`, for the HTTP example from `ProxyInv` and for the generated code from
  `CallsFor(h)`. `ProxyInv`: of a request that was asked, exactly one of three sets has one
  element, the calls that hold it, the events to come for it, its deletions; and of one that
  was not asked all are empty (`ProxyOwners`). That a call which is done, an event and a result
  agree (`ProxyEvents`, `ProxyResults`) makes this inductive. `CallsFor(h)`: a client that has
  no call open has nothing on its way, one that has has its own request or the reply to it; a
  reply is what the interfaces make of the number, field by field through the writers and
  readers of `Serv`.
* `SpecFeedsSessions`: each step of the example is, for any one connection, a step of
  `OrderedResponses` or a stutter. `sent` is what precedes the first gap in the answered
  numbers, and `ProxyAnswers` (what was answered was deleted) shows that no request is
  answered twice.

### The reading side

`Sides_proofs` proves of `Framing` what holds with any parser, given what it asks of
`Decode`, `Encode` and the cuts:

* `InTurn`: of a buffer that begins with the whole of a message, `Decode` returns that message
  and its end (`Whole`); of a part of a message it returns no message (`Partial`).
* `Patient`: where a read may end inside a message, `Decode` returns its argument, "incomplete"
  (`Waits`), and a read may end in front of each message (`Fronts`).

`InTurnDelivered` needs the first, and allows cuts anywhere, packets over the limit and a
handler that closes in the loop; `PatientDelivered` needs both. Neither `InOrder` nor
`NothingWithheld` is inductive. `Ordered` is what makes them so: the buffer and the wire
together are the encodings of the messages sent and not yet delivered, the last of them
perhaps cut off by a close (`Carries`, the tail of `sent` behind what was delivered). Then what
the parser sees is the first of these messages or a part of it (`FirstOf`), which is where the
contract answers (`Answers`). `SoundInv` adds what a connection that waits has left in its
buffer (`Short`: less than a message) and where the last read ended (`CutInv`); `RoomInv` has
the types and the free place. That no message is closed as too big needs `SmallMessages`: the
buffer doubles, so one that holds all but the end of a message is up to twice as long.

`Connections_proofs` shows that both parsers keep this contract (`ThriftTurn`, `HttpTurn`,
`CutsTurn`), for every message that `MessagesAssumption` allows, and from that, for any
capacity and limit and any number of messages and connections, `SpecBufferSound` and
`SpecDeliveredWhole`. For thrift, the first four tokens give the length. For HTTP no induction
over the headers is needed, because `Decode` is written with the places of a list, not by
walking it: the blank line is the first behind the start line (`HeadFound`), the last line of a
name tells its value (`LatestIs`), and a head is the concatenation of parts of which it is known
which names they say and which they are silent on (`Says`, `Silent`, `RequestTop`,
`ResponseTop`). So the values read are those written (`HttpRead`), the body is the bytes between
two places (`BodyRead`), and of a part the parser misses the blank line, the bytes that the
length asks for, or the last chunk (`HeadAwaited`, `ChunksAwaited`, `HttpPart`). A cookie's
attributes are read back from their places (`NameOf`).

### The writing side

`Sides_proofs` and `Connections_proofs` prove, for any capacity and any number of writes
and connections, `SpecOldWritesSpare` (whether writes overlap or not) and `SpecWrittenWhole`
(when they wait for each other). `SafeInv`: every outstanding write is in one of the reactor's
lists (`Queued`), the allocator's block belongs to one of them (`Owned`), the handlers of old
connections cannot close the new one (`Spared`), and the end that was told is that of the
connection there is (`ToldOnce`). `Turns`: only the last write is under way and it points to
where `writebuf_` is (`OneAtATime`); the wire of the connection is the writes before it, each
with all before it again, and what was sent of it (`WireSound`); the close was asked for by
the last write or not at all (`EndSound`).

### XML

`Xml_proofs` proves `SpecNodesSound`, for any elements, texts, names and values and any calls of
the program: `NodesSound`. What it says of walks is not inductive, since a walk says nothing
of the nodes it misses. `Sound` is: there are places for every list (`Listed`: `at[p][i]` is
the child of `p` at place `i`, `index` where a node stands), of which `prev`, `next`, `first`,
`last` and `parent` say the same; a node without a parent has no neighbours (`Parted`); whatever
is linked is in use, under a node in use, and only what is in use has attributes (`Living`); what
is in use is finite, and the counters are the sizes of what is held (`Counted`); attributes have
distinct names (`Named`). Every call is a few steps on
places: a child is taken out (`Cut`), one is put between two others, or the nodes of a set are
freed with all below them. A walk from the first node then visits the places in their order, one
from the last in the reverse, and there are no more of them than nodes in use.

It also proves `SpecValuesKept`, for an `int` of any width, any texts set as such and any
fractions. `CharsInv` is the form of a reference: its beginning, digits of its base, at
most one semicolon. The product of a digit and of its power of the base loses nothing in 32 bits
(`TimesIs`, `MultIs`) as long as there are at most nine decimal or eight hexadecimal digits, as
`DigitsAssumption` says; so the sum from the right is the number read from the left (`UcsIs`),
and its bytes decode to it (`BytesMean`). `ValuesInv`: the attribute and the first child hold what
was written last. Each of the readers is then a remainder of a number that is less than one turn
out of its range (`Remainder`, `IntRead`, `UnsignedRead`). `Mult`, `Sums` and `FromLeft` are
recursive functions, which `BasicLemmas` shows to exist.

### Assumptions

The constants are only assumed to be what the code has (`SessionAssumption`,
`HttpAssumption`, `QueueAssumption`, `ThreadsAssumption`, `ConnectionsAssumption`, of which
TLC checks the instances). Those that say more than a type: `Conn` is finite
(`ProxyAssumption`); an interface of the generated processor exists and returns a student or
throws (`CallsAssumption`); addresses are numbers, in the order of the strings they stand for
(`ManagerAssumption`); a reference has no more digits than 32 bits hold (`DigitsAssumption`: of a
longer one `mult` and its products lose a part). `MessagesAssumption` says which messages the peers send; each part is
what the parsers need to read what they wrote, and TLC finds `DeliveredWhole` violated by a
message that breaks it:

* An HTTP message has no header in two spellings (`Decode` keeps one of them), none that the
  parser writes by itself ("Set-Cookie", "Transfer-Encoding", "Cookie" or "Date": the last one
  read counts), and none of a default that it spells in lower case: `EncodeRequest` and
  `EncodeResponse` compare names as spelled, add the default behind it, and the reader takes
  the default's value (`httpparser.cc:257`, `message->AddHeader`). Names that were read are in
  lower case, so this happens to a response that is relayed.
* A "Content-Length" among the headers is a number, and for a request without a body it is 0:
  `EncodeRequest` writes the length of a body only if there is one.
* A response of version 1.1 has a body: an empty one in chunks has its last chunk twice.
* No cookie is called "path", "domain" or "expires" (`DecodeCookie` would take it for the
  attribute), none has a value that `UrlEncode` changes, as the reader does not decode it, and
  its time is not negative.
* No message is too big for `MaxPacket` (`SmallMessages`).

Assumptions on the caller are in the theorems that need them, and the
section on findings says what happens without.

### What is only model-checked

* Liveness (`Served`, `StopEnds`, and `session_liveness`): fairness and ENABLED are outside
  what the provers handle.
* `ReadAsWritten` and `ConfigWhole`: they compare what a recursive printer writes of a tree with
  what a recursive parser makes of a text. The parser and the printer are RECURSIVE operators,
  as the code calls itself, and what they compute for every tree is an induction over data.

Induction over numbers is done in `BasicLemmas` by the least number that is in a set
(well-founded sets), as the induction theorems of the library, whose parameter is an operator,
cannot be instantiated here.

## 5. What the models leave out

* Session: the parser is taken to deliver one whole message per read (`Framing` has the
  loop); bytes on the wire; connection ids (`SessionManager`); a message whose direction is
  not a request (`DoSendTo` writes and deletes it).
* HttpSession: the handler answers each request once; a read that completed before a
  write error closed the socket; the bytes of overlapping writes (`WriteBuffer`).
* MsgQueue: destruction, `Dump`, and `IsEmpty` and `GetUsed`, which read a size without
  the mutex and change nothing; which thread a notification wakes is left open.
* SessionManager, IoThread, ThreadHolder: `Dump`, destruction, what a session does inside a
  call, a thread that cannot be created.
* Framing: the bytes of a token; a message is one of a few.
* Xml: a text is a sequence of a few characters; SaveFile, PrintError, XMLHandle, visitors
  other than the printer, floating-point arithmetic, DynArray, the locale of printf. The
  assertions of DEBUG are not built by the Makefile.
* Coh, Proxy: the supervisor that forks and waits is not built when DEBUG is defined.
* Memory exhaustion, exceptions, the contents of messages, logging.

### Not modelled

Address parsing (string handling without state), the session factory (a choice by
protocol, made by the models too), logging, error codes and URL coding (macros, constants,
character coding), the directory reader and the library loader (pure I/O, used by nothing in
the repository), and the unit tests. Apache Thrift's protocol object, asio and the kernel
are external, modelled from how the code uses them.

## 6. Plan

Modelled and checked: all of the components of section 1 but the last row. Proved: every
safety property of every run but two. What is left:

1. `ReadAsWritten`, `ConfigWhole`: the parser and the printer would have to be written as functions
   of a position, as `HttpParser` is with the places of a list, and then a tree's text be
   described without recursion. The converters of text and of references are where to begin.
2. Liveness (`Served`, `StopEnds`) stays with TLC until a prover of ENABLED is there.
