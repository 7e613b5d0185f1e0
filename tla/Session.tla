------------------------------ MODULE Session ------------------------------
(***************************************************************************)
(* One outgoing CSession of the framework (frame/session/session.cc) with  *)
(* its CConnection (frame/net/connection.cc), as the event loop of one     *)
(* CSessionManager thread runs them.  The loop runs one task at a time: a  *)
(* posted call, a completed asynchronous operation or a timer.  A task may *)
(* call the business handler, and the handler may call back into the same  *)
(* session before the task is over; `stack' holds what the running task    *)
(* still has to do, its next piece last, and is empty between tasks.       *)
(*                                                                         *)
(* A request is the message object the business code passes to DoSendTo.   *)
(* Whoever holds it last deletes it: the session when `fate' is "freed",   *)
(* the handler when it was given back with a reply.                        *)
(***************************************************************************)
EXTENDS Integers, Sequences

CONSTANTS
  Request,        \* the requests the business code may send
  NoRequest,      \* a value that is not a request
  SeqOf,          \* the sequence id each request carries
  AutoReconnect,  \* autoreconnect_
  Heartbeat,      \* heartbeatinterval_ > 0
  Short,          \* the session lives in the short container, which expires it
  Posted,         \* calls the business code posts to the loop
  Nested,         \* calls the handler makes while it is being called back
  MaxConnects     \* bound: explicit DoConnect and DoClose calls

Calls == {"Connect", "SendTo", "Call", "Close"}

ASSUME SessionAssumption ==
  /\ NoRequest \notin Request
  /\ SeqOf \in [Request -> Nat]
  /\ AutoReconnect \in BOOLEAN /\ Heartbeat \in BOOLEAN /\ Short \in BOOLEAN
  /\ Posted \subseteq Calls
  /\ Nested \subseteq Calls
  /\ MaxConnects \in Nat

VARIABLES
  status, owner, alive,        \* status_, owner_ # NULL, not yet deleted
  reconn, hbTimer,             \* timer_reconn_ and timer_heartbeat_ are armed
  waitinglist,                 \* waitinglist_
  ticket, inserts,             \* request_history_: position of each entry, 0 if absent
  armed,                       \* requests whose timeout timer is in the wheel
  fate,                        \* what became of each request
  connected, linked, dealing,  \* connected_, session_ # NULL, is_dealing_read_
  reads, writing,              \* outstanding async_read_some; some async_write is
  writebuf,                    \* requests whose encoding is in writebuf_
  dials, connTimer,            \* resolve/connect operations in progress; conn_timer_
  sockUp, owed, arrived,       \* the socket; what the peer may answer; data read
  stack, calls, crashed

sessVars  == <<status, owner, alive, reconn, hbTimer>>
reqVars   == <<waitinglist, ticket, inserts, armed, fate>>
writeVars == <<writing, writebuf, owed>>
connVars  == <<connected, linked, dealing, reads, dials, connTimer>>
vars == <<sessVars, reqVars, writeVars, connVars, sockUp, arrived, stack, calls, crashed>>

Statuses == {"WAITING", "CONNECTED", "TIME_OUT", "CONNECTING", "CLOSED"}
Fates == {"unsent", "pending", "answered", "misanswered", "timeout", "closed", "freed"}
Ops == {"Handler", "CleanHistory", "CleanWaiting", "Deal", "Reconnect",
        "Drop", "Shut", "Delete", "ReadOn"}
Frame(op) == [op |-> op, req |-> NoRequest]
FrameOf(op, r) == [op |-> op, req |-> r]
Frames == [op : Ops, req : {NoRequest}] \cup [op : {"SendTo", "Erase"}, req : Request]

(* What the peer may send, and what the parser makes of it. *)
Response(r, ok) == [kind |-> "response", req |-> r, ok |-> ok]
Plain(kind) == [kind |-> kind, req |-> NoRequest, ok |-> FALSE]
NoMessage == Plain("none")
Messages == [kind : {"none", "hbreq", "hbres", "illegal"}, req : {NoRequest}, ok : {FALSE}]
              \cup [kind : {"response"}, req : Request, ok : BOOLEAN]

(* Every variable stays in its range; none of the counters goes below zero. *)
TypeOK ==
  /\ status \in Statuses
  /\ owner \in BOOLEAN /\ alive \in BOOLEAN /\ reconn \in BOOLEAN /\ hbTimer \in BOOLEAN
  /\ connected \in BOOLEAN /\ linked \in BOOLEAN /\ dealing \in BOOLEAN
  /\ writing \in BOOLEAN /\ sockUp \in BOOLEAN /\ crashed \in BOOLEAN
  /\ waitinglist \in Seq(Request)
  /\ ticket \in [Request -> Nat] /\ inserts \in Nat
  /\ armed \subseteq Request /\ writebuf \subseteq Request /\ owed \subseteq Request
  /\ fate \in [Request -> Fates]
  /\ reads \in Nat /\ dials \in Nat /\ calls \in Nat
  /\ connTimer \subseteq {"armed", "queued"}
  /\ arrived \in Messages
  /\ stack \in Seq(Frames)

(* CSosSessionManager::DoConnect has just created the session and called Connect. *)
Init ==
  /\ status = "CONNECTING" /\ owner = TRUE /\ alive = TRUE
  /\ reconn = FALSE /\ hbTimer = FALSE
  /\ waitinglist = <<>> /\ ticket = [r \in Request |-> 0] /\ inserts = 0
  /\ armed = {} /\ fate = [r \in Request |-> "unsent"]
  /\ connected = FALSE /\ linked = TRUE /\ dealing = FALSE
  /\ reads = 0 /\ writing = FALSE /\ writebuf = {}
  /\ dials = 1 /\ connTimer = {"armed"}
  /\ sockUp = FALSE /\ owed = {} /\ arrived = NoMessage
  /\ stack = <<>> /\ calls = 0 /\ crashed = FALSE

-----------------------------------------------------------------------------
(* The event loop and the request history. *)

Idle == stack = <<>> /\ ~crashed
Top == stack[Len(stack)]
Rest == SubSeq(stack, 1, Len(stack) - 1)
Push(rest, op) == Append(rest, Frame(op))

Running(op) == ~crashed /\ stack # <<>> /\ Top.op = op
MayCall(call) ==
  /\ alive /\ ~crashed
  /\ \/ stack = <<>> /\ call \in Posted
     \/ stack # <<>> /\ Top.op = "Handler" /\ call \in Nested

(* The process has touched memory it had given away; nothing is known after. *)
Crash ==
  /\ crashed' = TRUE
  /\ UNCHANGED <<sessVars, reqVars, writeVars, connVars, sockUp, arrived, stack, calls>>

Hist == {r \in Request : ticket[r] > 0}

(* request_history_.begin(): least sequence id, then oldest. *)
IsBegin(r) ==
  /\ r \in Hist
  /\ \A q \in Hist \ {r} : \/ SeqOf[r] < SeqOf[q]
                           \/ SeqOf[r] = SeqOf[q] /\ ticket[r] < ticket[q]

(* Mutant: any response settles the first entry. *)
MutantFound(seqid, r) == IsBegin(r)

(* request_history_.find(seqid): the oldest entry with that sequence id. *)
IsFound(seqid, r) ==
  /\ r \in Hist /\ SeqOf[r] = seqid
  /\ \A q \in Hist \ {r} : SeqOf[q] = seqid => ticket[r] < ticket[q]

(* Mutants: the entry is kept, its timer not stopped, not started, its position
   off by one. *)
MutantForget(r) == ticket' = ticket
MutantStopTimer(r) == armed' = armed
MutantStartTimer(r) == armed' = armed
MutantRemember(r) == inserts' = inserts + 1 /\ ticket' = [ticket EXCEPT ![r] = inserts]

(* A request's entry in the history, and its timeout timer in the wheel. *)
Remember(r) == inserts' = inserts + 1 /\ ticket' = [ticket EXCEPT ![r] = inserts + 1]
Forget(r)   == ticket' = [ticket EXCEPT ![r] = 0]
StartTimer(r) == armed' = armed \cup {r}
StopTimer(r)  == armed' = armed \ {r}

(* The owner's OnRead runs the handler on the message; without an owner the
   session deletes it. *)
Notify(rest) == IF owner THEN Push(rest, "Handler") ELSE rest
Deliver(r, outcome) == fate' = [fate EXCEPT ![r] = IF owner THEN outcome ELSE "freed"]

-----------------------------------------------------------------------------
(* CConnection, as called by the session and by the loop. *)

(* AsyncWrite: writebuf_ is never reset, so every write sends all of it again. *)
AsyncWrite(msgs, isconnected) ==
  IF isconnected
  THEN /\ writing' = TRUE
       /\ writebuf' = writebuf \cup msgs
       /\ owed' = IF sockUp THEN owed \cup writebuf \cup msgs ELSE owed
  ELSE UNCHANGED writeVars

(* Mutant: a failed connect leaves the waiting list alone. *)
MutantConnectResult(ok, rest) ==
  /\ status' = IF ok THEN "CONNECTED" ELSE status
  /\ hbTimer' = (hbTimer \/ (ok /\ Heartbeat))
  /\ reconn' = (~ok /\ (reconn \/ AutoReconnect))
  /\ stack' = IF ok THEN Push(rest, "Deal") ELSE rest

(* CSession::ConnectResult; DealWaitingList follows the OnConnected event. *)
ConnectResult(ok, rest) ==
  /\ status' = IF ok THEN "CONNECTED" ELSE status
  /\ hbTimer' = (hbTimer \/ (ok /\ Heartbeat))
  /\ reconn' = (~ok /\ (reconn \/ AutoReconnect))
  /\ stack' = IF owner' THEN Push(Push(rest, "Deal"), "Handler") ELSE Push(rest, "Deal")

(* ConnectFinish: a cancelled timer whose handler is queued already still runs. *)
ConnectFinish(ok, islinked, rest) ==
  /\ connTimer' = connTimer \ {"armed"}
  /\ connected' = (connected \/ ok)
  /\ reads' = IF ok /\ ~dealing THEN reads + 1 ELSE reads
  /\ IF islinked
     THEN ConnectResult(ok, rest)
     ELSE stack' = rest /\ UNCHANGED <<status, hbTimer, reconn>>

(* Mutant: the connection closes without telling its session. *)
MutantPeerClose(isconnected, rest) ==
  /\ dealing' = FALSE
  /\ stack' = IF isconnected THEN Push(rest, "Drop") ELSE rest
  /\ UNCHANGED status

(* OnPeerClose; "Drop" is what it does after the session's OnPeerClose. *)
ConnPeerClose(isconnected, rest) ==
  /\ dealing' = FALSE
  /\ IF isconnected /\ linked
     THEN /\ status' = "CLOSED"
          /\ stack' = Push(Push(Push(rest, "Drop"), "Reconnect"), "CleanHistory")
     ELSE /\ stack' = IF isconnected THEN Push(rest, "Drop") ELSE rest
          /\ UNCHANGED status

CloseSocket == sockUp' = FALSE /\ owed' = {}

(* Handlers of an earlier use of the socket that are still queued.  The queue is
   FIFO: they run before a dial or a 3 s timer begun after them completes. *)
Stale == arrived # NoMessage \/ (~sockUp /\ (reads > 0 \/ writing))

-----------------------------------------------------------------------------
(* CSession's calls.  owner' is set by the caller. *)

DoConnect(isreconn, rest) ==
  /\ linked' = TRUE
  /\ \/ /\ status \in {"CONNECTED", "CONNECTING"}
        /\ stack' = rest /\ reconn' = isreconn
        /\ UNCHANGED <<status, hbTimer, connected, reads, dials, connTimer>>
     \/ /\ status \notin {"CONNECTED", "CONNECTING"} /\ connected
        /\ ConnectFinish(TRUE, TRUE, rest)
        /\ UNCHANGED dials
     \/ /\ status \notin {"CONNECTED", "CONNECTING"} /\ ~connected
        /\ status' = "CONNECTING"
        /\ dials' = dials + 1
        /\ connTimer' = connTimer \cup {"armed"}
        /\ stack' = rest /\ reconn' = isreconn
        /\ UNCHANGED <<hbTimer, connected, reads>>

(* DoSendTo and DoSendRequest: park the request, send it, or fail it. *)
DoSendTo(r, rest) ==
  \/ /\ status \in {"CONNECTING", "WAITING"}
     /\ waitinglist' = Append(waitinglist, r)
     /\ fate' = [fate EXCEPT ![r] = "pending"]
     /\ stack' = rest
     /\ UNCHANGED <<ticket, inserts, armed, writeVars, crashed>>
  \/ /\ status = "CONNECTED"
     /\ StartTimer(r) /\ Remember(r)
     /\ fate' = [fate EXCEPT ![r] = "pending"]
     /\ AsyncWrite({r}, connected)
     /\ stack' = rest
     /\ UNCHANGED <<waitinglist, crashed>>
  \/ /\ status \in {"TIME_OUT", "CLOSED"}
     /\ fate' = [fate EXCEPT ![r] = "closed"]
     /\ crashed' = ~owner
     /\ stack' = Push(rest, "Handler")
     /\ UNCHANGED <<waitinglist, ticket, inserts, armed, writeVars>>

(* Mutant: the connection keeps its pointer to the closed session. *)
MutantClose(rest) ==
  /\ owner' = FALSE /\ status' = "CLOSED"
  /\ stack' = IF status = "CLOSED" THEN rest
              ELSE Push(Push(rest, "Shut"), "CleanHistory")
  /\ UNCHANGED linked

(* Close: owner_ is dropped first, so nothing it cleans reaches the handler. *)
Close(rest) ==
  /\ linked' = FALSE /\ owner' = FALSE
  /\ IF status = "CLOSED"
     THEN stack' = rest /\ UNCHANGED status
     ELSE /\ status' = "CLOSED"
          /\ stack' = Push(Push(rest, "Shut"), "CleanHistory")

-----------------------------------------------------------------------------
(* The business code: posted to the loop, or from inside the handler. *)

UserConnect ==
  /\ MayCall("Connect") /\ calls < MaxConnects
  /\ calls' = calls + 1
  /\ owner' = TRUE
  /\ DoConnect(reconn, stack)
  /\ UNCHANGED <<alive, reqVars, writeVars, dealing, sockUp, arrived, crashed>>

UserSendTo(r) ==
  /\ MayCall("SendTo") /\ fate[r] = "unsent"
  /\ DoSendTo(r, stack)
  /\ UNCHANGED <<sessVars, connVars, sockUp, arrived, calls>>

(* DoConnect followed by DoSendTo, as DoTestThriftRequest calls them. *)
UserCall(r) ==
  /\ MayCall("Call") /\ fate[r] = "unsent"
  /\ fate' = [fate EXCEPT ![r] = "pending"]
  /\ owner' = TRUE
  /\ DoConnect(reconn, Append(stack, FrameOf("SendTo", r)))
  /\ UNCHANGED <<alive, waitinglist, ticket, inserts, armed, writeVars, dealing,
                 sockUp, arrived, calls, crashed>>

UserClose ==
  /\ MayCall("Close") /\ calls < MaxConnects
  /\ calls' = calls + 1
  /\ Close(stack)
  /\ UNCHANGED <<alive, reconn, hbTimer, reqVars, writeVars, connected, dealing,
                 reads, dials, connTimer, sockUp, arrived, crashed>>

(* OnEvent returns, and the task that called it goes on. *)
HandlerReturn ==
  /\ Running("Handler")
  /\ stack' = Rest
  /\ UNCHANGED <<sessVars, reqVars, writeVars, connVars, sockUp, arrived, calls, crashed>>

-----------------------------------------------------------------------------
(* The rest of a task after a callback. *)

SendStep ==
  /\ Running("SendTo")
  /\ DoSendTo(Top.req, Rest)
  /\ UNCHANGED <<sessVars, connVars, sockUp, arrived, calls>>

(* CleanRequestAndCallBack, first loop: the requests on the wire. *)
CleanHistory ==
  /\ Running("CleanHistory")
  /\ \/ /\ Hist = {}
        /\ stack' = Push(Rest, "CleanWaiting")
        /\ UNCHANGED <<reqVars, crashed>>
     \/ \E r \in Hist :
          /\ IsBegin(r)
          /\ Forget(r) /\ StopTimer(r)
          /\ Deliver(r, "closed")
          /\ crashed' = (fate[r] # "pending")
          /\ stack' = Notify(stack)
          /\ UNCHANGED <<waitinglist, inserts>>
  /\ UNCHANGED <<sessVars, writeVars, connVars, sockUp, arrived, calls>>

(* CleanRequestAndCallBack, second loop: the requests not sent yet. *)
CleanWaiting ==
  /\ Running("CleanWaiting")
  /\ \/ /\ waitinglist = <<>>
        /\ stack' = Rest
        /\ UNCHANGED <<reqVars, crashed>>
     \/ /\ waitinglist # <<>>
        /\ waitinglist' = Tail(waitinglist)
        /\ Deliver(Head(waitinglist), "closed")
        /\ crashed' = (fate[Head(waitinglist)] # "pending")
        /\ stack' = Notify(stack)
        /\ UNCHANGED <<ticket, inserts, armed>>
  /\ UNCHANGED <<sessVars, writeVars, connVars, sockUp, arrived, calls>>

(* DealWaitingList: send what waited, or fail it when the connect failed. *)
DealWaitingList ==
  /\ Running("Deal")
  /\ \/ /\ waitinglist = <<>>
        /\ stack' = Rest
        /\ UNCHANGED <<reqVars, writeVars, crashed>>
     \/ /\ waitinglist # <<>>
        /\ waitinglist' = Tail(waitinglist)
        /\ crashed' = (fate[Head(waitinglist)] # "pending")
        /\ LET r == Head(waitinglist)
           IN  \/ /\ status = "CONNECTED"
                  /\ StartTimer(r) /\ Remember(r)
                  /\ AsyncWrite({r}, connected)
                  /\ UNCHANGED <<stack, fate>>
               \/ /\ status # "CONNECTED"
                  /\ Deliver(r, "closed")
                  /\ stack' = Notify(stack)
                  /\ UNCHANGED <<ticket, inserts, armed, writeVars>>
  /\ UNCHANGED <<sessVars, connVars, sockUp, arrived, calls>>

(* CSession::OnPeerClose after the cleaning.  Without autoreconnect the manager
   marks the session CLOSED again and tells the handler. *)
ReconnectLater ==
  /\ Running("Reconnect")
  /\ \/ /\ AutoReconnect
        /\ status' = "WAITING" /\ reconn' = TRUE
        /\ stack' = Rest
     \/ /\ ~AutoReconnect
        /\ status' = IF owner THEN "CLOSED" ELSE status
        /\ stack' = Notify(Rest)
        /\ UNCHANGED reconn
  /\ UNCHANGED <<owner, alive, hbTimer, reqVars, writeVars, connVars, sockUp, arrived,
                 calls, crashed>>

(* CConnection::OnPeerClose after the session's OnPeerClose. *)
DropConnection ==
  /\ Running("Drop")
  /\ linked' = FALSE
  /\ connected' = FALSE
  /\ IF connected THEN CloseSocket ELSE UNCHANGED <<sockUp, owed>>
  /\ stack' = Rest
  /\ UNCHANGED <<sessVars, reqVars, writing, writebuf, dealing, reads, dials, connTimer,
                 arrived, calls, crashed>>

(* Close after the cleaning: the connection's OnPeerClose. *)
ShutConnection ==
  /\ Running("Shut")
  /\ ConnPeerClose(connected, Rest)
  /\ UNCHANGED <<owner, alive, reconn, hbTimer, reqVars, writeVars, connected, linked,
                 reads, dials, connTimer, sockUp, arrived, calls, crashed>>

(* Mutant: the entry that timed out stays in the history. *)
MutantEraseEntry ==
  /\ Running("Erase")
  /\ stack' = Rest
  /\ UNCHANGED <<sessVars, reqVars, writeVars, connVars, sockUp, arrived, calls, crashed>>

(* DoRequestTimeOut after the callback: erase(itr). *)
EraseEntry ==
  /\ Running("Erase")
  /\ LET e == Top.req
     IN  /\ crashed' = (e \notin Hist)
         /\ Forget(e)
  /\ stack' = Rest
  /\ UNCHANGED <<sessVars, waitinglist, inserts, armed, fate, writeVars, connVars,
                 sockUp, arrived, calls>>

(* HandleRead after the decode loop: the next read. *)
ReadOn ==
  /\ Running("ReadOn")
  /\ dealing' = FALSE
  /\ reads' = IF connected THEN reads + 1 ELSE reads
  /\ stack' = Rest
  /\ UNCHANGED <<sessVars, reqVars, writeVars, connected, linked, dials, connTimer,
                 sockUp, arrived, calls, crashed>>

-----------------------------------------------------------------------------
(* Completed operations of the connection. *)

(* HandleResolve or HandleConnected ends the dial: connected, or no endpoint left. *)
HandleDial ==
  /\ Idle /\ dials > 0
  /\ dials' = dials - 1
  /\ owner' = owner
  /\ \E ok \in BOOLEAN :
       /\ ok => ~sockUp /\ ~Stale
       /\ sockUp' = (sockUp \/ ok)
       /\ ConnectFinish(ok, linked, <<>>)
  /\ UNCHANGED <<alive, reqVars, writeVars, linked, dealing, arrived, calls, crashed>>

(* HandleConnected fails on one endpoint and tries the next on a fresh socket. *)
HandleDialNext ==
  /\ Idle /\ dials > 0 /\ sockUp
  /\ CloseSocket
  /\ UNCHANGED <<sessVars, reqVars, writing, writebuf, connVars, arrived, stack, calls, crashed>>

(* conn_timer_ expires: its handler is queued and can no longer be cancelled. *)
ConnTimerExpires ==
  /\ Idle /\ "armed" \in connTimer
  /\ connTimer' = {"queued"}
  /\ UNCHANGED <<sessVars, reqVars, writeVars, connected, linked, dealing, reads, dials,
                 sockUp, arrived, stack, calls, crashed>>

HandleConnectTimeout ==
  /\ Idle /\ "queued" \in connTimer
  /\ CloseSocket
  /\ connTimer' = {}
  /\ UNCHANGED <<owner, connected, reads>>
  /\ IF linked
     THEN ConnectResult(FALSE, <<>>)
     ELSE UNCHANGED <<status, hbTimer, reconn, stack>>
  /\ UNCHANGED <<alive, reqVars, writing, writebuf, linked, dealing, dials,
                 arrived, calls, crashed>>

(* A read completes with one message; the peer may hold more copies of what it
   answers, having been sent the whole write buffer more than once. *)
ReadCompletes ==
  /\ Idle /\ reads > 0 /\ sockUp /\ arrived = NoMessage
  /\ reads' = reads - 1
  /\ \/ \E r \in owed, ok \in BOOLEAN :
          /\ arrived' = Response(r, ok)
          /\ owed' \in {owed, owed \ {r}}
     \/ \E kind \in {"hbreq", "hbres", "illegal"} :
          /\ arrived' = Plain(kind)
          /\ UNCHANGED owed
  /\ UNCHANGED <<sessVars, reqVars, writing, writebuf, connected, linked, dealing, dials,
                 connTimer, sockUp, stack, calls, crashed>>

(* CSession::OnRead *)
OnReadHeartbeat ==
  /\ status' = "CONNECTED"
  /\ AsyncWrite({}, arrived.kind = "hbreq")
  /\ stack' = <<Frame("ReadOn")>>
  /\ UNCHANGED <<reqVars, crashed>>

OnReadResponse ==
  LET seqid == SeqOf[arrived.req]
  IN  /\ \/ /\ ~\E r \in Hist : IsFound(seqid, r)
            /\ status' = IF arrived.ok THEN "CONNECTED" ELSE status
            /\ stack' = <<Frame("ReadOn")>>
            /\ UNCHANGED <<ticket, armed, fate, crashed>>
         \/ \E r \in Hist :
              /\ IsFound(seqid, r)
              /\ crashed' = (fate[r] # "pending")
              /\ Forget(r) /\ StopTimer(r)
              /\ status' = IF arrived.ok \/ owner THEN "CONNECTED" ELSE status
              /\ Deliver(r, IF r = arrived.req THEN "answered" ELSE "misanswered")
              /\ stack' = Notify(<<Frame("ReadOn")>>)
      /\ UNCHANGED <<waitinglist, inserts, writeVars>>

(* HandleRead with data: connected_ is set whatever happened to the socket. *)
HandleRead ==
  /\ Idle /\ arrived # NoMessage
  /\ arrived' = NoMessage
  /\ connected' = TRUE
  /\ IF linked /\ arrived.kind # "illegal"
     THEN /\ dealing' = TRUE
          /\ IF arrived.kind = "response" THEN OnReadResponse ELSE OnReadHeartbeat
     ELSE /\ ConnPeerClose(TRUE, <<>>)
          /\ UNCHANGED <<reqVars, writeVars, crashed>>
  /\ UNCHANGED <<owner, alive, reconn, hbTimer, linked, reads, dials, connTimer, sockUp, calls>>

(* Mutant: the handler of a read runs without a read outstanding. *)
MutantReadError ==
  /\ Idle
  /\ reads' = reads - 1
  /\ ConnPeerClose(connected, <<>>)
  /\ UNCHANGED <<owner, alive, reconn, hbTimer, reqVars, writeVars, connected, linked,
                 dials, connTimer, sockUp, arrived, calls, crashed>>

(* HandleRead with an error: the peer closed, or the socket is closed here. *)
HandleReadError ==
  /\ Idle /\ reads > 0
  /\ reads' = reads - 1
  /\ ConnPeerClose(connected, <<>>)
  /\ UNCHANGED <<owner, alive, reconn, hbTimer, reqVars, writeVars, connected, linked,
                 dials, connTimer, sockUp, arrived, calls, crashed>>

(* HandleWrite; close_after_write_ is FALSE on every write of this session. *)
HandleWrite ==
  /\ Idle /\ writing
  /\ writing' = FALSE
  /\ \/ /\ sockUp
        /\ UNCHANGED <<status, dealing, stack>>
     \/ ConnPeerClose(connected, <<>>)
  /\ UNCHANGED <<owner, alive, reconn, hbTimer, reqVars, writebuf, owed, connected, linked,
                 reads, dials, connTimer, sockUp, arrived, calls, crashed>>

-----------------------------------------------------------------------------
(* Timers of the thread's timer wheel, and the container's periodic check. *)

(* DoRequestTimeOut(r).  The timer of an erased entry is destroyed: if its node
   is still in the wheel, the wheel calls freed memory. *)
RequestTimer(r) ==
  /\ Idle /\ r \in armed
  /\ IF r \notin Hist
     THEN Crash
     ELSE /\ StopTimer(r)
          /\ \E e \in Hist :
               /\ IsFound(SeqOf[r], e)
               /\ stack' = Notify(<<FrameOf("Erase", e)>>)
          /\ crashed' = (fate[r] # "pending")
          /\ Deliver(r, "timeout")
          /\ UNCHANGED <<sessVars, waitinglist, ticket, inserts, writeVars, connVars,
                         sockUp, arrived, calls>>

ReconnectTimer ==
  /\ Idle /\ reconn /\ ~Stale
  /\ owner' = owner
  /\ DoConnect(FALSE, <<>>)
  /\ UNCHANGED <<alive, reqVars, writeVars, dealing, sockUp, arrived, calls, crashed>>

DoHeartBeat ==
  /\ Idle /\ hbTimer /\ status \in {"CONNECTED", "TIME_OUT"}
  /\ AsyncWrite({}, connected)
  /\ UNCHANGED <<sessVars, reqVars, connVars, sockUp, arrived, stack, calls, crashed>>

(* CShortSessionContainer::CheckSession on this session. *)
CheckSession ==
  /\ Idle /\ Short /\ alive
  /\ \/ /\ status \in {"CONNECTED", "WAITING", "CONNECTING"}
        /\ status' = "TIME_OUT"
        /\ UNCHANGED <<owner, linked, stack>>
     \/ /\ status \in {"TIME_OUT", "CLOSED"}
        /\ Close(<<Frame("Delete"), Frame("CleanHistory")>>)
  /\ UNCHANGED <<alive, reconn, hbTimer, reqVars, writeVars, connected, dealing,
                 reads, dials, connTimer, sockUp, arrived, calls, crashed>>

(* ~CSession stops the session's own timers; the connection lives on as long
   as one of its operations is outstanding. *)
DeleteSession ==
  /\ Running("Delete")
  /\ alive' = FALSE
  /\ reconn' = FALSE /\ hbTimer' = FALSE
  /\ stack' = Rest
  /\ UNCHANGED <<status, owner, reqVars, writeVars, connVars, sockUp, arrived, calls, crashed>>

-----------------------------------------------------------------------------
User == UserConnect \/ UserClose \/ \E r \in Request : UserSendTo(r) \/ UserCall(r)

Continue ==
  \/ HandlerReturn \/ SendStep \/ CleanHistory \/ CleanWaiting \/ DealWaitingList
  \/ ReconnectLater \/ DropConnection \/ ShutConnection \/ EraseEntry \/ ReadOn
  \/ DeleteSession

Network ==
  \/ HandleDial \/ HandleDialNext \/ ConnTimerExpires \/ HandleConnectTimeout
  \/ ReadCompletes \/ HandleRead \/ HandleReadError \/ HandleWrite

Timer == ReconnectTimer \/ DoHeartBeat \/ CheckSession \/ \E r \in Request : RequestTimer(r)

Next == User \/ Continue \/ Network \/ Timer

Spec == Init /\ [][Next]_vars

(* A task runs to its end, the handler included; the io_service queue is FIFO
   and the wheel fires every timer that stays armed.  Nothing is assumed of the
   business code, of the peer, or of how long a dial takes. *)
Fairness ==
  /\ WF_vars(Continue)
  /\ SF_vars(ConnTimerExpires) /\ SF_vars(HandleConnectTimeout)
  /\ SF_vars(ReconnectTimer)
  /\ \A r \in Request : SF_vars(RequestTimer(r))

FairSpec == Spec /\ Fairness

-----------------------------------------------------------------------------
(* Properties. *)

Waiting == {waitinglist[i] : i \in DOMAIN waitinglist}
InStack(op, r) == \E i \in DOMAIN stack : stack[i] = FrameOf(op, r)

(* A request whose fate is open is in exactly one place: parked in waitinglist_,
   in request_history_, or about to be sent by the running task. *)
Accounted ==
  \A r \in Request : fate[r] = "pending" =>
    \/ r \in Waiting /\ r \notin Hist /\ ~InStack("SendTo", r)
    \/ r \notin Waiting /\ r \in Hist /\ ~InStack("SendTo", r)
    \/ r \notin Waiting /\ r \notin Hist /\ InStack("SendTo", r)

(* The session holds no request it has already given back or deleted, except
   the one whose timeout callback is running. *)
HeldAlive ==
  /\ \A r \in Waiting : fate[r] = "pending"
  /\ \A r \in Hist : fate[r] = "pending" \/ InStack("Erase", r)

(* Every request on the wire has its timeout timer armed, and no timer of an
   erased entry is left in the wheel. *)
TimersMatch ==
  /\ armed \subseteq Hist
  /\ \A r \in Hist : r \in armed \/ InStack("Erase", r)

(* No null owner is called, no freed message, timer or iterator is used. *)
NoCrash == ~crashed

(* The handler gets with a request the peer's answer to that request. *)
RepliesMatch == \A r \in Request : fate[r] # "misanswered"

(* Once deleted, the session is not reachable from its connection or a timer. *)
NoDanglingSession == ~alive => ~linked /\ armed = {} /\ ~reconn /\ ~hbTimer

(* Between tasks, a session that says CONNECTED has a connection to write to. *)
ConnectedIsUsable == Idle /\ alive /\ status = "CONNECTED" => connected /\ linked

(* A session nobody closes or expires gives every request back to the handler. *)
NothingDropped == \A r \in Request : fate[r] # "freed"

(* The requests the session holds, wherever it keeps them. *)
Held == Waiting \cup {r \in Request : InStack("SendTo", r)}
          \cup {r \in Hist : ~InStack("Erase", r)}
Service == INSTANCE RequestService WITH
  Lossy   <- Short \/ "Close" \in Posted \cup Nested,
  open    <- Held,
  outcome <- [r \in Request |-> IF fate[r] \in {"unsent", "pending"} THEN "none" ELSE fate[r]]

(* The session implements the service its callers are promised: the requests it
   holds are the open ones, and each is settled once.  It is lossy only where it
   is closed or expired under its requests. *)
ImplementsService == Service!Spec

(* What is on the wire is settled, by its answer, its timer or a close. *)
WireSettled == \A r \in Request : r \in Hist ~> fate[r] # "pending"

(* What waits for a dial in progress is settled when the dial ends. *)
DialSettles ==
  \A r \in Request : (r \in Waiting /\ connTimer # {}) ~> fate[r] # "pending"

(* A session with autoreconnect dials again after a failed connect. *)
RedialsAfterFailure ==
  (AutoReconnect /\ status = "CONNECTING" /\ dials = 0) ~> dials > 0 \/ status = "CONNECTED"

=============================================================================
