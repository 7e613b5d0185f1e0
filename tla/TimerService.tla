---------------------------- MODULE TimerService ----------------------------
(***************************************************************************)
(* What the timer wheel promises its users: a started timer is called once *)
(* for each start, and one that was stopped is not called.                 *)
(***************************************************************************)
CONSTANTS Timer, Circle, NoTimer

VARIABLES armed, running
vars == <<armed, running>>

Init == armed = {} /\ running = NoTimer

Start(t) == armed' = armed \cup {t} /\ UNCHANGED running
Stop(t) == armed' = armed \ {t} /\ UNCHANGED running

(* A periodic timer is armed again before it is called. *)
Call(t) ==
  /\ running = NoTimer
  /\ t \in armed
  /\ running' = t
  /\ armed' = IF t \in Circle THEN armed ELSE armed \ {t}

Return == running # NoTimer /\ running' = NoTimer /\ UNCHANGED armed

Next == Return \/ \E t \in Timer : Start(t) \/ Stop(t) \/ Call(t)

Spec == Init /\ [][Next]_vars
=============================================================================
