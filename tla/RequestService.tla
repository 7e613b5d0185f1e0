--------------------------- MODULE RequestService ---------------------------
(***************************************************************************)
(* What a session promises the business code that sends requests through   *)
(* CNetService::DoSendTo: each request it accepts is open until it is      *)
(* settled, exactly once, by the peer's answer, a timeout or the loss of   *)
(* the connection.  A lossy service may also delete an open request and    *)
(* say nothing.                                                            *)
(***************************************************************************)
CONSTANTS Request, Lossy

VARIABLES open, outcome
vars == <<open, outcome>>

Outcomes == {"answered", "timeout", "closed"} \cup (IF Lossy THEN {"freed"} ELSE {})

Init == open = {} /\ outcome = [r \in Request |-> "none"]

Accept(r) ==
  /\ r \notin open /\ outcome[r] = "none"
  /\ open' = open \cup {r}
  /\ UNCHANGED outcome

(* A request is refused on the spot when there is nothing to send it on. *)
Refuse(r) ==
  /\ r \notin open /\ outcome[r] = "none"
  /\ outcome' = [outcome EXCEPT ![r] = "closed"]
  /\ UNCHANGED open

Settle(r, o) ==
  /\ r \in open
  /\ open' = open \ {r}
  /\ outcome' = [outcome EXCEPT ![r] = o]

Next == \E r \in Request : Accept(r) \/ Refuse(r) \/ \E o \in Outcomes : Settle(r, o)

Spec == Init /\ [][Next]_vars
=============================================================================
