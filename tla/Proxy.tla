------------------------------- MODULE Proxy -------------------------------
(***************************************************************************)
(* The two examples together: the business handler of example_http, in the  *)
(* thread that runs it, asks the thrift example for a student for each      *)
(* request of "/testthrift" and answers the others itself. The session to   *)
(* the peer is one of Session's that reconnects, without what happens       *)
(* inside it; what an HTTP session is given must be what OrderedResponses   *)
(* takes from a handler.                                                    *)
(***************************************************************************)
EXTENDS Serv, Sorting

CONSTANTS
  Conn, Watched,  \* accepted HTTP connections, and any one of them
  MaxRequests,  \* requests on all of them
  MaxDials      \* dials of the peer

ProxyAssumption == Watched \in Conn /\ IsFiniteSet(Conn) /\ MaxRequests \in Nat /\ MaxDials \in Nat

VARIABLES
  open,         \* HTTP connections that are up
  received,     \* requests on each of them
  answered,     \* requestno of the responses given to the session, per connection
  response,     \* the student each holds
  deleted,      \* HTTP requests that were deleted, in order
  todo,         \* calls of OnEvent that the task at work has still to make
  smseqid,      \* of the next call
  ctx, call,    \* of each call: the HTTP request; "waiting", "sent", "served", "done"
  args, result, \* bodies on their way to the peer and back
  status,       \* of the session to the peer
  dials, dialling,  \* dials so far; one is outstanding
  peer, link    \* the thrift example runs; and has the connection

http == <<open, received, answered, response, deleted>>
calls == <<smseqid, ctx, args>>
session == <<status, dials, dialling>>
vars == <<http, todo, calls, call, result, session, peer, link>>

Requests == [c : Conn, no : 1..MaxRequests]
Asked == {m \in Requests : m.no <= received[m.c]}
Calls == 0..(smseqid - 1)
In(states) == {s \in Calls : call[s] \in states}
Idle == todo = <<>>

(* The function f with a value at what is in D, which may be new to it. *)
Put(f, D, value) == [x \in DOMAIN f \cup D |-> IF x \in D THEN value ELSE f[x]]

Init ==
  /\ open = Conn /\ received = [c \in Conn |-> 0]
  /\ answered = [c \in Conn |-> <<>>] /\ response = << >> /\ deleted = <<>> /\ todo = <<>>
  /\ smseqid = 0 /\ ctx = << >> /\ call = << >> /\ args = << >> /\ result = << >>
  /\ status = "none" /\ dials = 0 /\ dialling = FALSE /\ peer = TRUE /\ link = FALSE

-----------------------------------------------------------------------------
(* The handler of the HTTP example. *)

(* Mutant: the number of the response is not set. *)
MutantDoSendHttpResponse(m, student) ==
  /\ IF m.c \in open
     THEN answered' = [answered EXCEPT ![m.c] = Append(@, 0)] /\ response' = Put(response, {m}, student)
     ELSE UNCHANGED <<answered, response>>
  /\ deleted' = Append(deleted, m)

(* The response takes its number from the request, which is deleted; a session that
   is gone is not found by the id of its connection. *)
DoSendHttpResponse(m, student) ==
  /\ IF m.c \in open
     THEN answered' = [answered EXCEPT ![m.c] = Append(@, m.no)] /\ response' = Put(response, {m}, student)
     ELSE UNCHANGED <<answered, response>>
  /\ deleted' = Append(deleted, m)

(* Mutant: the context of the latest call is taken. *)
MutantDealThriftResponse(s, body) ==
  DoSendHttpResponse(ctx[smseqid - 1], result_read(body).value)

(* The student of the body, or an empty one when it holds none. *)
DealThriftResponse(s, body) == DoSendHttpResponse(ctx[s], result_read(body).value)

(* DoConnect and DoSendTo: the first call makes the session, a later one dials when it
   is closed; what cannot be sent yet waits. *)
DoTestThriftRequest(m) ==
  /\ smseqid' = smseqid + 1
  /\ ctx' = Put(ctx, {smseqid}, m)
  /\ args' = Put(args, {smseqid}, args_write("0743111245"))
  /\ call' = Put(call, {smseqid}, IF status = "connected" THEN "sent" ELSE "waiting")
  /\ IF status \in {"connected", "connecting"} THEN UNCHANGED session
     ELSE status' = "connecting" /\ dialling' = TRUE /\ dials' = dials + 1

DealHttpRequest(m, url) ==
  IF url = "/testthrift"
  THEN DoTestThriftRequest(m) /\ UNCHANGED <<answered, response, deleted>>
  ELSE DoSendHttpResponse(m, NoStudent) /\ UNCHANGED <<calls, call, session>>

OnEvent ==
  /\ ~Idle /\ todo' = Tail(todo)
  /\ LET e == Head(todo)
     IN  IF e.id = "http" THEN DealHttpRequest(e.m, e.url)
         ELSE DealThriftResponse(e.s, e.body) /\ UNCHANGED <<calls, call, session>>
  /\ UNCHANGED <<open, received, result, peer, link>>

-----------------------------------------------------------------------------
(* The HTTP sessions. *)

OnRead(c, url) ==
  /\ Idle /\ c \in open /\ Cardinality(Asked) < MaxRequests
  /\ received' = [received EXCEPT ![c] = @ + 1]
  /\ todo' = <<[id |-> "http", m |-> [c |-> c, no |-> received[c] + 1], url |-> url]>>
  /\ UNCHANGED <<open, answered, response, deleted, calls, call, result, session, peer, link>>

(* The client closes, or the session expires. *)
HttpClosed(c) ==
  /\ Idle /\ c \in open /\ open' = open \ {c}
  /\ UNCHANGED <<received, answered, response, deleted, todo, calls, call, result, session, peer, link>>

-----------------------------------------------------------------------------
(* The session to the peer. *)

Notify(s, body) == [id |-> "thrift", s |-> s, body |-> body]

(* Mutant: a request that comes back has lost the ones behind it. *)
MutantGiveBack(S) ==
  /\ Idle /\ call' = Put(call, S, "done")
  /\ todo' = IF S = {} THEN <<>> ELSE <<Notify(Min(S), args[Min(S)])>>
  /\ UNCHANGED <<http, calls, result>>

(* Requests come back as their own replies, with their arguments for a body. *)
GiveBack(S) ==
  /\ Idle /\ call' = Put(call, S, "done")
  /\ LET order == Sorted(S)
     IN  todo' = [i \in DOMAIN order |-> Notify(order[i], args[order[i]])]
  /\ UNCHANGED <<http, calls, result>>

OnReply(s) ==
  /\ Idle /\ call[s] = "served"
  /\ call' = [call EXCEPT ![s] = "done"]
  /\ todo' = <<Notify(s, result[s])>>
  /\ UNCHANGED <<http, calls, result, session, peer, link>>

TimesOut(s) ==
  /\ call[s] \in {"sent", "served"}
  /\ GiveBack({s}) /\ UNCHANGED <<session, peer, link>>

Dialled ==
  /\ Idle /\ dialling /\ peer
  /\ status' = "connected" /\ dialling' = FALSE /\ link' = TRUE
  /\ call' = Put(call, In({"waiting"}), "sent")
  /\ UNCHANGED <<http, todo, calls, result, dials, peer>>

(* What waits comes back; the status stays, and with it nothing dials again. *)
DialFails ==
  /\ dialling /\ dialling' = FALSE
  /\ GiveBack(In({"waiting"}))
  /\ UNCHANGED <<status, dials, peer, link>>

OnPeerClose ==
  /\ status = "connected" /\ status' = "waiting" /\ link' = FALSE
  /\ GiveBack(In({"waiting", "sent", "served"}))
  /\ UNCHANGED <<dials, dialling, peer>>

Reconnect ==
  /\ Idle /\ status = "waiting" /\ dials < MaxDials
  /\ status' = "connecting" /\ dialling' = TRUE /\ dials' = dials + 1
  /\ UNCHANGED <<http, todo, calls, call, result, peer, link>>

-----------------------------------------------------------------------------
(* The thrift example. *)

Answer == [no |-> "0743111245", name |-> "test_student_xiaozhai", age |-> 24]

(* Arguments that end early throw, and nothing catches that. *)
DealThriftRequest(s) ==
  /\ link /\ call[s] = "sent" /\ ~Throws(args[s])
  /\ call' = [call EXCEPT ![s] = "served"]
  /\ result' = Put(result, {s}, result_write([isset |-> TRUE, value |-> Answer]))
  /\ UNCHANGED <<http, todo, calls, session, peer, link>>

(* A heartbeat has another name than the one the parser looks for: it is a request like
   any other to the peer, and its body is empty. *)
HeartBeatBody == <<>>
DealHeartBeat ==
  /\ link /\ Throws(HeartBeatBody)
  /\ peer' = FALSE /\ link' = FALSE
  /\ UNCHANGED <<http, todo, calls, call, result, session>>

PeerStarts ==
  /\ ~peer /\ peer' = TRUE
  /\ UNCHANGED <<http, todo, calls, call, result, session, link>>

-----------------------------------------------------------------------------
Next ==
  \/ OnEvent
  \/ \E c \in Conn : HttpClosed(c) \/ \E url \in {"/testthrift", "/"} : OnRead(c, url)
  \/ \E s \in Calls : OnReply(s) \/ TimesOut(s) \/ DealThriftRequest(s)
  \/ Dialled \/ DialFails \/ OnPeerClose \/ Reconnect \/ DealHeartBeat \/ PeerStarts

(* A task ends, the timer of a call is detected, and a dial ends: conn_timer_ sees to it. *)
Fairness ==
  /\ WF_vars(OnEvent) /\ WF_vars(\E s \in Calls : TimesOut(s)) /\ WF_vars(Dialled \/ DialFails)

Spec == Init /\ [][Next]_vars
LiveSpec == Spec /\ Fairness

-----------------------------------------------------------------------------
(* Properties. *)

(* Every HTTP request has one owner: the event, the context of a call that is open or whose
   callback is to come; or it was deleted once (DoSendHttpResponse, SThriftContext). *)
OwnedOnce ==
  \A m \in Asked :
    LET held == {s \in Calls : ctx[s] = m /\ call[s] # "done"}
        coming == {i \in DOMAIN todo : (IF todo[i].id = "http" THEN todo[i].m ELSE ctx[todo[i].s]) = m}
        gone == {i \in DOMAIN deleted : deleted[i] = m}
    IN  Cardinality(held) + Cardinality(coming) + Cardinality(gone) = 1

(* The student of a response is what the peer gave for the call of that request; it is
   empty when the call came back or none was made (DealThriftResponse). *)
TrueStudent ==
  \A m \in DOMAIN response :
    response[m] # NoStudent =>
      \E s \in DOMAIN result : ctx[s] = m /\ response[m] = result_read(result[s]).value

(* A call waits only while a dial is outstanding or was lost (DoConnect, DealWaitingList). *)
WaitsForDial == In({"waiting"}) # {} => status = "connecting"

(* What an HTTP session is given is what OrderedResponses takes from a handler: one
   answer to each request it has received. *)
Sent(c) == CHOOSE k \in 0..MaxRequests :
  (\A i \in 1..k : i \in ToSet(answered[c])) /\ k + 1 \notin ToSet(answered[c])
Ordered == INSTANCE OrderedResponses WITH
  received <- received[Watched], answered <- ToSet(answered[Watched]), sent <- Sent(Watched),
  open <- Watched \in open
FeedsSessions == Ordered!Spec

(* Every request is settled, by time-outs at the latest, unless a dial was lost. *)
Settled ==
  \A m \in Requests :
    m \in Asked ~> m \in ToSet(deleted) \/ (status = "connecting" /\ ~dialling)
=============================================================================
