-------------------------- MODULE OrderedResponses --------------------------
(***************************************************************************)
(* What a server-side HTTP session promises its client: pipelined requests *)
(* may be answered in any order, and the responses leave in the order of   *)
(* the requests, each as soon as every earlier request is answered, until  *)
(* the connection is closed.                                               *)
(***************************************************************************)
EXTENDS Naturals

VARIABLES received, answered, sent, open
vars == <<received, answered, sent, open>>

(* k requests are answered without a gap, and no more. *)
Gapless(k, S) == (\A i \in 1..k : i \in S) /\ k + 1 \notin S

Init == received = 0 /\ answered = {} /\ sent = 0 /\ open = TRUE

Receive ==
  /\ open
  /\ received' = received + 1
  /\ UNCHANGED <<answered, sent, open>>

Answer(n) ==
  /\ n \in 1..received /\ n \notin answered
  /\ answered' = answered \cup {n}
  /\ sent' \in Nat
  /\ IF open THEN Gapless(sent', answered') ELSE sent' = sent
  /\ UNCHANGED <<received, open>>

Shut ==
  /\ open /\ open' = FALSE
  /\ UNCHANGED <<received, answered, sent>>

Next == Receive \/ Shut \/ \E n \in 1..received : Answer(n)

Spec == Init /\ [][Next]_vars
=============================================================================
