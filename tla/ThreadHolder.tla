---------------------------- MODULE ThreadHolder ----------------------------
(***************************************************************************)
(* CNetThreadHolder and its CTcpSocketServers (frame/net): the owner's     *)
(* thread starts and stops the managers' threads and starts the servers;   *)
(* the last thread accepts, giving each connection to the next manager.    *)
(***************************************************************************)
EXTENDS Integers, FiniteSetsExt

CONSTANTS
  threadnum,  \* threadnum_: the managers' threads and the acceptor's
  Servers,    \* the servers are 1..Servers
  IndexSize,  \* 2^32 in the code: the values of index_
  MaxAccepts  \* bound: connections accepted

HolderAssumption ==
  threadnum \in Nat \ {0} /\ Servers \in Nat /\ IndexSize \in Nat \ {0} /\ MaxAccepts \in Nat

Thread == 0..(threadnum - 1)
Acceptor == threadnum - 1
Server == 1..Servers

VARIABLES
  owner,    \* the owner's thread: "start", "serve", "accept", "up", "stop", "join", "stopped"
  at,       \* the thread or server it is at
  fetched,  \* the index_ the owner has read in GetSessionCallBack
  threads,  \* of each thread: "none", "running", "deleted"
  running,  \* running_ of each server
  open,     \* its acceptor_ is open
  accept,   \* its async_accept: "none", "waiting", or "done" or "failed" in the queue
  stops,    \* servers whose HandleStop is posted and has not run
  index,    \* index_
  given,    \* the connections made for each thread
  skew      \* history: times index_ came round, or two threads took the same value

vars == <<owner, at, fetched, threads, running, open, accept, stops, index, given, skew>>

Init ==
  /\ owner = "start" /\ at = 0 /\ fetched = 0 /\ threads = [t \in Thread |-> "none"]
  /\ running = [s \in Server |-> FALSE] /\ open = [s \in Server |-> FALSE]
  /\ accept = [s \in Server |-> "none"] /\ stops = {}
  /\ index = 0 /\ given = [t \in Thread |-> 0] /\ skew = 0

(* CNetThreadHolder::GetSessionCallBack, of a caller that read i. *)
GetSessionCallBack(i) ==
  IF threadnum <= 1 THEN UNCHANGED <<index, given, skew>>
  ELSE /\ index' = (i + 1) % IndexSize
       /\ given' = [given EXCEPT ![i % (threadnum - 1)] = @ + 1]
       /\ skew' = skew + (IF i # index THEN 1 ELSE 0) + (IF i + 1 = IndexSize THEN 1 ELSE 0)

-----------------------------------------------------------------------------
(* The owner's thread. *)

Start ==
  /\ owner = "start"
  /\ threads' = [threads EXCEPT ![at] = "running"]
  /\ IF at = Acceptor THEN owner' = "serve" /\ at' = 1 ELSE at' = at + 1 /\ UNCHANGED owner
  /\ UNCHANGED <<fetched, running, open, accept, stops, index, given, skew>>

(* StartServer as far as the first StartAccept, or an address in use. *)
StartServer ==
  /\ owner = "serve" /\ at \in Server
  /\ \/ /\ open' = [open EXCEPT ![at] = TRUE] /\ running' = [running EXCEPT ![at] = TRUE]
        /\ fetched' = index /\ owner' = "accept"
     \/ owner' = "up" /\ UNCHANGED <<open, running, fetched>>
  /\ UNCHANGED <<at, threads, accept, stops, index, given, skew>>

OwnerAccepts ==
  /\ owner = "accept"
  /\ GetSessionCallBack(fetched)
  /\ accept' = [accept EXCEPT ![at] = "waiting"]
  /\ owner' = "serve" /\ at' = at + 1
  /\ UNCHANGED <<fetched, threads, running, open, stops>>

Started == owner = "serve" /\ at \notin Server /\ owner' = "up"
           /\ UNCHANGED <<at, fetched, threads, running, open, accept, stops, index, given, skew>>

Stop ==
  /\ owner = "up"
  /\ owner' = "stop" /\ at' = 0
  /\ stops' = Server
  /\ UNCHANGED <<fetched, threads, running, open, accept, index, given, skew>>

(* run() of the acceptor's thread goes on while an accept or a HandleStop is left;
   the other threads end on their own (IoThread). *)
StopThread ==
  /\ owner = "stop"
  /\ at = Acceptor => stops = {} /\ \A s \in Server : accept[s] = "none"
  /\ threads' = [threads EXCEPT ![at] = "deleted"]
  /\ IF at = Acceptor THEN owner' = "stopped" /\ UNCHANGED at ELSE at' = at + 1 /\ UNCHANGED owner
  /\ UNCHANGED <<fetched, running, open, accept, stops, index, given, skew>>

-----------------------------------------------------------------------------
(* The acceptor's thread. *)

(* Closing the acceptor fails the accept that waits, not one that is done. *)
HandleStop(s) ==
  /\ s \in stops /\ stops' = stops \ {s}
  /\ open' = [open EXCEPT ![s] = FALSE] /\ running' = [running EXCEPT ![s] = FALSE]
  /\ accept' = [accept EXCEPT ![s] = IF @ = "waiting" THEN "failed" ELSE @]
  /\ UNCHANGED <<owner, at, fetched, threads, index, given, skew>>

(* The kernel completes an accept, or it fails (no more descriptors). *)
Accepts(s) ==
  /\ accept[s] = "waiting" /\ FoldSet(LAMBDA t, n : given[t] + n, 0, Thread) < MaxAccepts
  /\ \E result \in {"done", "failed"} : accept' = [accept EXCEPT ![s] = result]
  /\ UNCHANGED <<owner, at, fetched, threads, running, open, stops, index, given, skew>>

Waits(s) == IF open[s] THEN "waiting" ELSE "failed"

(* HandleAccept without an error: StartAccept makes the next session. *)
HandleAccept(s) ==
  /\ accept[s] = "done"
  /\ GetSessionCallBack(index)
  /\ accept' = [accept EXCEPT ![s] = Waits(s)]
  /\ UNCHANGED <<owner, at, fetched, threads, running, open, stops>>

HandleAcceptError(s) ==
  /\ accept[s] = "failed"
  /\ accept' = [accept EXCEPT ![s] = IF running[s] THEN Waits(s) ELSE "none"]
  /\ UNCHANGED <<owner, at, fetched, threads, running, open, stops, index, given, skew>>

OwnerNext == Start \/ StartServer \/ OwnerAccepts \/ Started \/ Stop \/ StopThread
Next == OwnerNext \/ \E s \in Server : HandleStop(s) \/ Accepts(s) \/ HandleAccept(s) \/ HandleAcceptError(s)

Spec == Init /\ [][Next]_vars

(* Both threads run; nothing is assumed of the connections that come. *)
Fairness ==
  /\ WF_vars(StopThread)
  /\ \A s \in Server : WF_vars(HandleStop(s)) /\ WF_vars(HandleAccept(s) \/ HandleAcceptError(s))
LiveSpec == Spec /\ Fairness

-----------------------------------------------------------------------------
(* Properties. *)

(* Every variable has its type, and the owner's loops stay inside the arrays. *)
TypeOK ==
  /\ owner \in {"start", "serve", "accept", "up", "stop", "join", "stopped"}
  /\ at \in 0..(Servers + threadnum) /\ (owner \in {"start", "stop"} => at \in Thread)
  /\ (owner = "accept" => at \in Server) /\ fetched \in 0..(IndexSize - 1) /\ index \in 0..(IndexSize - 1)
  /\ threads \in [Thread -> {"none", "running", "deleted"}]
  /\ running \in [Server -> BOOLEAN] /\ open \in [Server -> BOOLEAN]
  /\ accept \in [Server -> {"none", "waiting", "done", "failed"}]
  /\ stops \subseteq Server /\ given \in [Thread -> Nat] /\ skew \in Nat

(* A running server always has an accept outstanding, also after an accept that
   failed: no error makes a server deaf. *)
AcceptsGoOn ==
  \A s \in Server : running[s] => accept[s] # "none" \/ (owner = "accept" /\ at = s)

(* Connections are spread evenly over the managers, and none is given to the
   acceptor's thread if there is another; index_ coming round, and two threads
   taking the same index_, cost at most one connection each. *)
Balanced ==
  \A t, u \in Thread \ {Acceptor} : given[t] - given[u] <= 1 + skew /\ (threadnum > 1 => given[Acceptor] = 0)

(* Stop ends: closing the acceptors ends the accepts, also one that is done but
   not handled when its acceptor is closed, so that the acceptor's thread ends. *)
StopEnds == owner = "stop" ~> owner = "stopped"
=============================================================================
