----------------------------- MODULE MCMsgQueue -----------------------------
(* Small instances of MsgQueue for TLC: threads and messages are alike. *)
EXTENDS MsgQueue, TLC

(* The least capacities with a full ring, a wrap and a ring of several places. *)
SmallCapacity == [p \in Priorities |-> IF p = "medium" THEN 2 ELSE 1]
Alike == Permutations(Producers) \cup Permutations(Consumers) \cup Permutations(Message)
=============================================================================
