----------------------------- MODULE ServCalls -----------------------------
(* Clients of the generated code and one processor, over a transport that keeps
   messages in order; a client has one call at a time. *)
EXTENDS Serv

CONSTANTS
  Client, No,
  Handlers,  \* what the interfaces of the server may return: sequences of functions of No
  MaxCalls

(* An interface returns a student or throws; there is at least one. *)
CallsAssumption ==
  /\ "none" \notin No /\ "other" \notin No
  /\ Handlers \subseteq Seq([No -> [throws : BOOLEAN, value : Students]]) \ {<<>>}

VARIABLES
  handler,   \* the interfaces behind ServMultiface
  requests,  \* requests[c]: messages on their way to the server
  replies,   \* replies[c]: on their way back
  pending,   \* the argument of a call that has not returned, or "none"
  returned   \* what the calls of a client returned, with their arguments

vars == <<handler, requests, replies, pending, returned>>

Init ==
  /\ handler \in Handlers
  /\ requests = [c \in Client |-> <<>>] /\ replies = [c \in Client |-> <<>>]
  /\ pending = [c \in Client |-> "none"] /\ returned = [c \in Client |-> <<>>]

Call(c, no) ==
  /\ pending[c] = "none" /\ Len(returned[c]) < MaxCalls
  /\ pending' = [pending EXCEPT ![c] = no]
  /\ requests' = [requests EXCEPT ![c] = Append(@, send_QueryByNo(no))]
  /\ UNCHANGED <<handler, replies, returned>>

(* A caller of a method this service does not have: its recv is like the one of QueryByNo. *)
CallOther(c) ==
  /\ pending[c] = "none" /\ Len(returned[c]) < MaxCalls
  /\ pending' = [pending EXCEPT ![c] = "other"]
  /\ requests' = [requests EXCEPT ![c] = Append(@, T_Message("Other", "call", 0, <<Stop>>))]
  /\ UNCHANGED <<handler, replies, returned>>

Process(c) ==
  /\ requests[c] # <<>>
  /\ requests' = [requests EXCEPT ![c] = Tail(@)]
  /\ replies' = [replies EXCEPT ![c] =
                   Append(@, dispatchCall(Head(requests[c]), [no \in No |-> Multiface(handler, no)]))]
  /\ UNCHANGED <<handler, pending, returned>>

QueryByNo(c) ==
  /\ pending[c] # "none" /\ replies[c] # <<>>
  /\ returned' = [returned EXCEPT ![c] =
                    Append(@, [no |-> pending[c], result |-> recv_QueryByNo(Head(replies[c]), <<>>)])]
  /\ pending' = [pending EXCEPT ![c] = "none"]
  /\ replies' = [replies EXCEPT ![c] = Tail(@)]
  /\ UNCHANGED <<handler, requests>>

Next == \E c \in Client : (\E no \in No : Call(c, no)) \/ CallOther(c) \/ Process(c) \/ QueryByNo(c)

Spec == Init /\ [][Next]_vars

-----------------------------------------------------------------------------
(* A call returns the student of its own number, and throws when the handler throws or
   the server does not know the method (recv_QueryByNo, process_QueryByNo). *)
ReturnsOwn ==
  \A c \in Client : \A i \in DOMAIN returned[c] :
    LET r == returned[c][i]
    IN  r.result = IF r.no = "other" THEN Thrown ELSE Multiface(handler, r.no)

(* One message comes back for each that went out, whatever the handler does. *)
OneReplyEach ==
  \A c \in Client : Len(requests[c]) + Len(replies[c]) = IF pending[c] = "none" THEN 0 ELSE 1
=============================================================================
