---------------------------- MODULE HttpSession ----------------------------
(***************************************************************************)
(* One accepted CHttpSession (frame/session/httpsession.cc) with its       *)
(* CConnection, from OnAccept to its deletion by the manager's periodic    *)
(* check.  Clients pipeline requests; the handler answers them in any      *)
(* order, from inside OnEvent or later; the session keeps the answers that *)
(* are early and writes them in request order.  The answer of a request is *)
(* identified by its requestno.                                            *)
(***************************************************************************)
EXTENDS Naturals, Sequences

CONSTANT MaxRequests    \* bound: requests received on the connection

ASSUME HttpAssumption == MaxRequests \in Nat

VARIABLES
  status, inmap,                \* status_; the session is in sessions_
  connected, linked, sockUp,    \* connected_, session_ # NULL, the socket
  dwseq, requests,              \* dwseq, request_deque_
  asked,                        \* requestno of the requests the handler holds
  out,                          \* requestno of the responses encoded, in order
  writes, closeAfter            \* outstanding async_write; close_after_write_

sessionVars == <<status, inmap>>
socketVars  == <<connected, linked, sockUp>>
vars == <<sessionVars, socketVars, dwseq, requests, asked, out, writes, closeAfter>>

(* SResponseItem: no response yet, or one that closes or keeps the connection. *)
Kinds == {"none", "close", "keep"}
Item(n, kind) == [no |-> n, response |-> kind]
Items == [no : Nat, response : Kinds]

(* Every variable stays in its range, and the handler holds only numbered requests. *)
TypeOK ==
  /\ status \in {"CONNECTED", "TIME_OUT", "CLOSED"}
  /\ inmap \in BOOLEAN /\ connected \in BOOLEAN /\ linked \in BOOLEAN
  /\ sockUp \in BOOLEAN /\ closeAfter \in BOOLEAN
  /\ dwseq \in Nat /\ writes \in Nat
  /\ requests \in Seq(Items)
  /\ asked \subseteq 1..dwseq
  /\ out \in Seq(Nat)

(* CSession::OnAccept has run and the first read is outstanding. *)
Init ==
  /\ status = "CONNECTED" /\ inmap = TRUE
  /\ connected = TRUE /\ linked = TRUE /\ sockUp = TRUE
  /\ dwseq = 0 /\ requests = <<>> /\ asked = {} /\ out = <<>>
  /\ writes = 0 /\ closeAfter = FALSE

-----------------------------------------------------------------------------
(* Mutant: the connection is not marked down. *)
MutantOnPeerClose ==
  /\ status' = IF connected /\ linked THEN "CLOSED" ELSE status
  /\ linked' = (linked /\ ~connected)
  /\ sockUp' = (sockUp /\ ~connected)
  /\ connected' = connected

(* CConnection::OnPeerClose with CSession::OnPeerClose: the deque is kept. *)
OnPeerClose ==
  /\ status' = IF connected /\ linked THEN "CLOSED" ELSE status
  /\ linked' = (linked /\ ~connected)
  /\ sockUp' = (sockUp /\ ~connected)
  /\ connected' = FALSE

(* Mutant: only the first response of a flush is written. *)
MutantWriteAll(items) ==
  IF connected
  THEN /\ out' = Append(out, items[1].no)
       /\ writes' = writes + 1
       /\ closeAfter' = (items[1].response = "close")
  ELSE UNCHANGED <<out, writes, closeAfter>>

(* CSession::DoSendBack for each of a sequence of responses: AsyncWrite encodes
   nothing once the connection is down, and the last write sets the close flag. *)
WriteAll(items) ==
  IF connected
  THEN /\ out' = out \o [i \in 1..Len(items) |-> items[i].no]
       /\ writes' = writes + Len(items)
       /\ closeAfter' = (items[Len(items)].response = "close")
  ELSE UNCHANGED <<out, writes, closeAfter>>

(* Mutant: the number given to a request is not kept. *)
MutantOnRead ==
  /\ connected /\ linked /\ sockUp /\ dwseq < MaxRequests
  /\ requests' = Append(requests, Item(dwseq + 1, "none"))
  /\ asked' = asked \cup {dwseq + 1}
  /\ status' = "CONNECTED"
  /\ UNCHANGED <<inmap, socketVars, dwseq, out, writes, closeAfter>>

(* CHttpSession::OnRead: number the request, then give it to the handler. *)
OnRead ==
  /\ connected /\ linked /\ sockUp /\ dwseq < MaxRequests
  /\ dwseq' = dwseq + 1
  /\ requests' = Append(requests, Item(dwseq + 1, "none"))
  /\ asked' = asked \cup {dwseq + 1}
  /\ status' = "CONNECTED"
  /\ UNCHANGED <<inmap, socketVars, out, writes, closeAfter>>

(* A response nobody asked for is dropped by CSession::OnRead, and counts as
   activity when it is a good one. *)
OnReadStray ==
  /\ connected /\ linked /\ sockUp
  /\ status' = "CONNECTED"
  /\ UNCHANGED <<inmap, socketVars, dwseq, requests, asked, out, writes, closeAfter>>

(* Mutant: the responses kept behind the head are not looked at. *)
MutantFlushes(n, kind) ==
  /\ n = 1
  /\ WriteAll(<<Item(requests[1].no, kind)>>)
  /\ requests' = Tail(requests)

(* The first n items go out: the head with the response given now, and those
   behind it that were answered before, up to the first unanswered one. *)
Flushes(n, kind) ==
  /\ \A i \in 2..n : requests[i].response # "none"
  /\ n < Len(requests) => requests[n + 1].response = "none"
  /\ WriteAll([i \in 1..n |-> IF i = 1 THEN Item(requests[1].no, kind) ELSE requests[i]])
  /\ requests' = SubSeq(requests, n + 1, Len(requests))

(* Mutant: a response is written as soon as it is given. *)
MutantSendBack(n, kind) ==
  /\ \E i \in DOMAIN requests :
       /\ requests[i].no = n
       /\ requests' = SubSeq(requests, 1, i - 1) \o SubSeq(requests, i + 1, Len(requests))
  /\ WriteAll(<<Item(n, kind)>>)

(* CHttpSession::DoSendBack *)
SessionSendBack(n, kind) ==
  \/ /\ requests[1].no = n
     /\ \E k \in 1..Len(requests) : Flushes(k, kind)
  \/ /\ requests[1].no # n
     /\ \E i \in 2..Len(requests) :
          /\ requests[i].no = n
          /\ requests' = [requests EXCEPT ![i].response = kind]
     /\ UNCHANGED <<out, writes, closeAfter>>

(* The handler answers a request it holds, once, through
   CSocSessionManager::DoSendBack, which finds the session by connection id or
   gives up. *)
DoSendBack(n, kind) ==
  /\ n \in asked
  /\ asked' = asked \ {n}
  /\ IF inmap
     THEN SessionSendBack(n, kind)
     ELSE UNCHANGED <<requests, out, writes, closeAfter>>
  /\ UNCHANGED <<sessionVars, socketVars, dwseq>>

(* HandleWrite *)
HandleWrite ==
  /\ writes > 0
  /\ writes' = writes - 1
  /\ \/ /\ sockUp /\ ~closeAfter
        /\ UNCHANGED <<status, socketVars>>
     \/ OnPeerClose
  /\ UNCHANGED <<inmap, dwseq, requests, asked, out, closeAfter>>

(* HandleRead with an error or an illegal packet. *)
HandleReadError ==
  /\ connected
  /\ OnPeerClose
  /\ UNCHANGED <<inmap, dwseq, requests, asked, out, writes, closeAfter>>

(* CSocSessionManager::DoCheckSession on this session; ~CHttpSession deletes the
   responses still kept. *)
CheckSession ==
  /\ inmap
  /\ \/ /\ status = "CONNECTED"
        /\ status' = "TIME_OUT"
        /\ UNCHANGED <<inmap, socketVars, requests>>
     \/ /\ status \in {"TIME_OUT", "CLOSED"}
        /\ status' = "CLOSED"
        /\ linked' = FALSE
        /\ IF status = "CLOSED"
           THEN UNCHANGED <<connected, sockUp>>
           ELSE connected' = FALSE /\ sockUp' = (sockUp /\ ~connected)
        /\ inmap' = FALSE
        /\ requests' = <<>>
  /\ UNCHANGED <<dwseq, asked, out, writes, closeAfter>>

Next ==
  \/ OnRead \/ OnReadStray \/ HandleWrite \/ HandleReadError \/ CheckSession
  \/ \E n \in asked, kind \in {"close", "keep"} : DoSendBack(n, kind)

Spec == Init /\ [][Next]_vars

-----------------------------------------------------------------------------
(* Properties. *)

(* Responses leave in the order of the requests, none skipped, none twice. *)
InOrder == \A i \in DOMAIN out : out[i] = i

(* The requests the handler still holds are exactly the unanswered items of the
   deque, so DoSendBack never looks at the front of an empty deque. *)
AskedMatches ==
  inmap => /\ asked = {requests[i].no : i \in {j \in DOMAIN requests :
                                                 requests[j].response = "none"}}
           /\ asked = {} => requests = <<>>

(* A deleted session is not reachable from its connection, and the connection it
   leaves behind is closed. *)
ClosedWhenDeleted == ~inmap => ~linked /\ ~connected

Promise == INSTANCE OrderedResponses WITH
  received <- dwseq, answered <- (1..dwseq) \ asked, sent <- Len(out), open <- connected

(* The session implements what its client is promised: the responses leave in
   order, each as soon as every earlier request is answered. *)
KeepsPromise == Promise!Spec

=============================================================================
