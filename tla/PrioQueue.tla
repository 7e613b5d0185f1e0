----------------------------- MODULE PrioQueue -----------------------------
(***************************************************************************)
(* What MsgQueuePrio promises the threads that share it: three bounded     *)
(* queues, each first in first out, and a reader takes the oldest message  *)
(* of the most urgent queue that has one.                                  *)
(***************************************************************************)
EXTENDS Naturals, Sequences

CONSTANTS Reader, Message, NoMessage, Capacity

VARIABLES queue, taken
vars == <<queue, taken>>

Priorities == {"high", "medium", "low"}

MoreUrgent(p) == CASE p = "high"   -> {}
                   [] p = "medium" -> {"high"}
                   [] p = "low"    -> {"high", "medium"}

Init ==
  /\ queue = [p \in Priorities |-> <<>>]
  /\ taken = [r \in Reader |-> NoMessage]

Put(p, m) ==
  /\ Len(queue[p]) < Capacity[p]
  /\ queue' = [queue EXCEPT ![p] = Append(@, m)]
  /\ UNCHANGED taken

Take(r, p) ==
  /\ queue[p] # <<>>
  /\ \A q \in MoreUrgent(p) : queue[q] = <<>>
  /\ queue' = [queue EXCEPT ![p] = Tail(@)]
  /\ taken' = [taken EXCEPT ![r] = Head(queue[p])]

(* A reader gets nothing, or asks again. *)
TakeNothing(r) ==
  /\ taken' = [taken EXCEPT ![r] = NoMessage]
  /\ UNCHANGED queue

Next ==
  \/ \E p \in Priorities, m \in Message : Put(p, m)
  \/ \E r \in Reader : TakeNothing(r) \/ \E p \in Priorities : Take(r, p)

Spec == Init /\ [][Next]_vars
=============================================================================
