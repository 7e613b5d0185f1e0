---------------------------- MODULE WriteBuffer ----------------------------
(***************************************************************************)
(* The writing side of CConnection (frame/net/connection.cc) over asio and *)
(* the kernel: writebuf_ is encoded into and never reset, a write may start *)
(* while another one is outstanding, one flag says that the connection is   *)
(* to be closed behind a write, and the block of write_alloc_ serves one    *)
(* handler at a time. A message is one token long, so that write number n   *)
(* of a connection is n tokens when each is encoded behind those before.    *)
(***************************************************************************)
EXTENDS Naturals, Sequences, FiniteSets

CONSTANTS
  WriteCapacity,\* of writebuf_ at first
  Overlap,      \* a write may start while one is outstanding
  Fits,         \* a handler fits into the block of write_alloc_
  MaxWrites, MaxConnections  \* bounds

WriteBufferAssumption ==
  WriteCapacity \in Nat /\ {Overlap, Fits} \subseteq BOOLEAN /\ {MaxWrites, MaxConnections} \subseteq Nat

VARIABLES
  writable,           \* connected_
  writebuf, room,     \* writebuf_: messages in it, and its capacity_
  moved,              \* times writebuf_ was moved by realloc
  close_after_write,
  ops,                \* the calls of async_write
  reactor,            \* writes that wait for the socket, in order
  posted,             \* handlers ready to run
  in_use,             \* write_alloc_
  kernel,             \* tokens the kernel took, per connection
  dial,               \* of the next connection: "none", "resolving", "connecting", or a handler is posted
  told,               \* connections whose end the session was told of
  (* History. *)
  requested,          \* the write that asked for the close, or 0
  closedby            \* the write whose completion closed the connection, or 0

encoded == <<writebuf, room, moved>>
io == <<ops, reactor, posted, in_use, kernel>>
history == <<requested, closedby>>
writeVars == <<writable, encoded, close_after_write, io, dial, told, history>>

Conn == Len(kernel)  \* the connections are numbered as they are made
Outstanding == {i \in DOMAIN ops : ops[i].at # "done"}
Freed == 0         \* read from memory that was freed
Resolved == MaxWrites + 1  \* HandleResolve and HandleConnected, among the posted writes
Connected == MaxWrites + 2

WriteInit ==
  /\ writable = TRUE /\ writebuf = <<>> /\ room = WriteCapacity /\ moved = 0
  /\ close_after_write = FALSE /\ ops = <<>> /\ reactor = <<>> /\ posted = <<>> /\ in_use = FALSE
  /\ kernel = <<<<>>>> /\ dial = "none" /\ told = <<>> /\ requested = 0 /\ closedby = 0

-----------------------------------------------------------------------------
(* Boost.Asio: a write sends what the kernel takes, in as many steps as it needs; a step
   is tried at once when none waits. Each step allocates its handler. *)

Tokens(op, k) ==
  [j \in 1..k |-> IF op.moved = moved' THEN writebuf'[op.sent + j] ELSE Freed]

allocate(used) == IF ~used /\ Fits THEN "storage" ELSE "heap"

(* Write step of op i, of the ops, the allocator and the posted handlers given. *)
WriteSome(i, all, used, rest, k) ==
  LET block == allocate(used)
      op == [all[i] EXCEPT !.block = block]
  IN  /\ in_use' = (used \/ block = "storage")
      /\ IF ~writable
         THEN /\ k = 0 /\ posted' = Append(rest, i) /\ UNCHANGED <<reactor, kernel>>
              /\ ops' = [all EXCEPT ![i] = [op EXCEPT !.at = "posted", !.err = TRUE]]
         ELSE IF k = 0 \/ reactor # <<>>
         THEN /\ k = 0 /\ reactor' = Append(reactor, i) /\ posted' = rest /\ UNCHANGED kernel
              /\ ops' = [all EXCEPT ![i] = [op EXCEPT !.at = "waiting"]]
         ELSE /\ k <= op.len - op.sent /\ posted' = Append(rest, i) /\ UNCHANGED reactor
              /\ kernel' = [kernel EXCEPT ![Conn] = @ \o Tokens(op, k)]
              /\ ops' = [all EXCEPT ![i] = [op EXCEPT !.at = "posted", !.sent = @ + k]]

(* The socket takes more, or the connection is broken. *)
Writable(k, err) ==
  /\ reactor # <<>> /\ reactor' = Tail(reactor) /\ posted' = Append(posted, Head(reactor))
  /\ UNCHANGED <<writable, encoded, close_after_write, in_use, dial, told, history>>
  /\ LET i == Head(reactor)
     IN  /\ IF err THEN k = 0 ELSE k \in 1..(ops[i].len - ops[i].sent)
         /\ kernel' = [kernel EXCEPT ![Conn] = @ \o Tokens(ops[i], k)]
         /\ ops' = [ops EXCEPT ![i] = [ops[i] EXCEPT !.at = "posted", !.sent = @ + k, !.err = err]]

deallocate(op) == in_use /\ op.block # "storage"

-----------------------------------------------------------------------------
(* CConnection. *)

(* Encode appends to writebuf_, which may move it. *)
EncodeNext(msg) ==
  /\ writebuf' = Append(writebuf, msg)
  /\ IF Len(writebuf) + 1 > room
     THEN room' = 3 * room + 1 /\ moved' = moved + 1
     ELSE UNCHANGED <<room, moved>>

(* async_write takes the place and the length of writebuf_ as they are now. *)
Start(close, k) ==
  LET op == [moved |-> moved', len |-> Len(writebuf'), sent |-> 0, at |-> "new", err |-> FALSE,
             block |-> "none", conn |-> Conn]
  IN  WriteSome(Len(ops) + 1, Append(ops, op), in_use, posted, k) /\ close_after_write' = close

(* Without a connection the message is dropped. *)
AsyncWrite(close, k) ==
  /\ Len(ops) < MaxWrites /\ writable /\ (Outstanding = {} \/ Overlap)
  /\ EncodeNext(Len(ops) + 1) /\ Start(close, k)
  /\ requested' = IF close THEN Len(ops) + 1 ELSE 0
  /\ UNCHANGED <<writable, dial, told, closedby>>

(* OnPeerClose. Closing the socket ends the writes that wait for it; the session is told once. *)
PeerClosed(all, rest) ==
  /\ writable' = FALSE
  /\ told' = IF writable THEN Append(told, Conn) ELSE told
  /\ IF writable THEN
       /\ reactor' = <<>> /\ posted' = rest \o reactor
       /\ ops' = [i \in DOMAIN all |->
                    IF all[i].at = "waiting" THEN [all[i] EXCEPT !.at = "posted", !.err = TRUE] ELSE all[i]]
     ELSE reactor' = reactor /\ posted' = rest /\ ops' = all

(* Mutant: the flag is not looked at. *)
MutantHandleWrite(i) ==
  LET all == [ops EXCEPT ![i].at = "done"]
  IN  /\ closedby' = IF ~ops[i].err THEN i ELSE closedby
      /\ PeerClosed(all, Tail(posted))

HandleWrite(i) ==
  LET all == [ops EXCEPT ![i].at = "done"]
  IN  IF ops[i].err \/ close_after_write
      THEN PeerClosed(all, Tail(posted)) /\ closedby' = IF ops[i].err \/ ~writable THEN closedby ELSE i
      ELSE ops' = all /\ posted' = Tail(posted) /\ UNCHANGED <<writable, told, reactor, closedby>>

(* asio gives the block back, then goes on with the write or calls HandleWrite. *)
WriteCompletes(k) ==
  /\ posted # <<>> /\ Head(posted) \in DOMAIN ops
  /\ UNCHANGED <<encoded, close_after_write, dial, requested>>
  /\ LET i == Head(posted)
         used == deallocate(ops[i])
     IN  IF ops[i].err \/ ops[i].sent = ops[i].len
         THEN k = 0 /\ HandleWrite(i) /\ in_use' = used /\ UNCHANGED kernel
         ELSE WriteSome(i, ops, used, Tail(posted), k) /\ UNCHANGED <<writable, told, closedby>>

(* HandleRead, when the read failed. *)
ReadErrorCloses ==
  /\ writable /\ PeerClosed(ops, posted)
  /\ UNCHANGED <<encoded, close_after_write, in_use, kernel, dial, history>>

-----------------------------------------------------------------------------
(* The next connection of the same CConnection. *)

DialRest == <<encoded, close_after_write, ops, reactor, in_use, told>>

(* Mutant: the address is not resolved first. *)
MutantAsyncConnect ==
  /\ ~writable /\ dial = "none" /\ Conn < MaxConnections /\ dial' = "connecting"
  /\ UNCHANGED <<writable, DialRest, posted, kernel, history>>

AsyncConnect ==
  /\ ~writable /\ dial = "none" /\ Conn < MaxConnections /\ dial' = "resolving"
  /\ UNCHANGED <<writable, DialRest, posted, kernel, history>>

(* The resolver's thread or the kernel is done, and a handler is posted. *)
DialGoesOn ==
  /\ dial \in {"resolving", "connecting"} /\ dial' = "posted"
  /\ posted' = Append(posted, IF dial = "resolving" THEN Resolved ELSE Connected)
  /\ UNCHANGED <<writable, DialRest, kernel, history>>

HandleResolve ==
  /\ posted # <<>> /\ Head(posted) = Resolved /\ posted' = Tail(posted)
  /\ \E next \in {"connecting", "none"} : dial' = next  \* or the name is not known
  /\ UNCHANGED <<writable, DialRest, kernel, history>>

HandleConnected ==
  /\ posted # <<>> /\ Head(posted) = Connected /\ posted' = Tail(posted) /\ dial' = "none"
  /\ \/ writable' = TRUE /\ kernel' = Append(kernel, <<>>) /\ requested' = 0 /\ closedby' = 0
     \/ UNCHANGED <<writable, kernel, history>>
  /\ UNCHANGED DialRest

-----------------------------------------------------------------------------
Takes == 0..MaxWrites
WriteNext ==
  \/ \E k \in Takes : (\E close \in BOOLEAN : AsyncWrite(close, k)) \/ WriteCompletes(k)
                      \/ \E err \in BOOLEAN : Writable(k, err)
  \/ ReadErrorCloses \/ AsyncConnect \/ DialGoesOn \/ HandleResolve \/ HandleConnected

(* The loop runs what is posted, and the peer reads. *)
WriteFairness ==
  /\ WF_writeVars(\E k \in Takes : WriteCompletes(k)) /\ WF_writeVars(HandleResolve \/ HandleConnected)
  /\ WF_writeVars(\E k \in Takes, err \in BOOLEAN : Writable(k, err))

WriteSpec == WriteInit /\ [][WriteNext]_writeVars /\ WriteFairness

-----------------------------------------------------------------------------
(* Properties. *)

(* What connection c carries of the first n of the writes all, each in full and in turn. *)
Upto(n) == [j \in 1..n |-> j]
Carried(all, c) ==
  LET f[n \in 0..Len(all)] ==
        IF n = 0 THEN <<>>
        ELSE IF all[n].conn = c THEN f[n - 1] \o Upto(all[n].len) ELSE f[n - 1]
  IN  f

PartOf(s, t) == Len(s) <= Len(t) /\ SubSeq(t, 1, Len(s)) = s

(* Of writes that do not overlap a connection carries each in full and in turn, all
   messages before it included, up to the one it ends in (AsyncWrite). *)
IntactWhenQuiet ==
  ~Overlap => \A c \in 1..Conn : PartOf(kernel[c], Carried(ops, c)[Len(ops)])

(* Then a connection is closed behind the write that asked for it, and has carried all of
   it (HandleWrite). *)
FullBeforeClose ==
  ~Overlap /\ closedby # 0 =>
    /\ closedby = requested /\ ops[closedby].sent = ops[closedby].len
    /\ LET carried == kernel[ops[closedby].conn] IN carried[Len(carried)] = closedby

(* No two handlers share the block of the allocator (CHandlerAllocator::allocate). *)
BlockOfOne ==
  LET held == {i \in Outstanding : ops[i].block = "storage"}
  IN  Cardinality(held) <= 1 /\ (held # {} => in_use)

(* What is left of the writes of a connection is over before the next one is up: the
   error of an old write never closes a new connection (HandleWrite, OnPeerClose). *)
NewConnectionSpared == writable => \A i \in Outstanding : ops[i].conn = Conn

(* A session is told of each end once, in order. *)
ToldOnce == told = [c \in DOMAIN told |-> c] /\ Len(told) = IF writable THEN Conn - 1 ELSE Conn

(* A close that was asked for comes, unless a later write takes it back. *)
Closes == requested # 0 ~> ~writable \/ requested = 0
=============================================================================
