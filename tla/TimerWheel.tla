----------------------------- MODULE TimerWheel -----------------------------
(***************************************************************************)
(* CTimerManager and CThreadTimer (frame/common): wheels of spokes, each a *)
(* list of timers, turned to the present by DetectTimerList, which puts    *)
(* the timers that are due in a ready list and calls them.                 *)
(*                                                                         *)
(* Times are relative to checktime_, the time the wheels stand at: lag is  *)
(* now - checktime_ and due[t] is dead_time - checktime_.                  *)
(***************************************************************************)
EXTENDS Integers, Sequences

CONSTANTS
  Timer, Circle, NoTimer,  \* timers; those of type TIMER_CIRCLE; no timer
  Intervals,               \* values of dwinterval_
  GRANULARITY, WHEEL_SIZE1, WHEEL_SIZE2, WHEEL_NUM,
  MaxLag,                  \* bound: the clock is never further ahead of the wheels
  MaxBack                  \* bound: how far a step back takes it behind where they stop

Wheels == 0..(WHEEL_NUM - 1)
Size(w) == IF w = 0 THEN WHEEL_SIZE1 ELSE WHEEL_SIZE2

(* Ticks in a spoke of wheel w, and the least interval that goes in it, w > 0. *)
Threshold[w \in Nat] == IF w <= 1 THEN WHEEL_SIZE1 ELSE WHEEL_SIZE2 * Threshold[w - 1]
Spokes == UNION {{w} \X (0..(Size(w) - 1)) : w \in Wheels}

WheelAssumption ==
  /\ Circle \subseteq Timer /\ NoTimer \notin Timer
  /\ GRANULARITY \in Nat \ {0} /\ WHEEL_SIZE1 \in Nat \ {0}
  /\ WHEEL_SIZE2 \in Nat \ {0} /\ WHEEL_NUM \in Nat \ {0, 1}
  /\ MaxLag \in Nat /\ MaxBack \in Nat
  /\ Intervals \subseteq 0..(GRANULARITY * Threshold[WHEEL_NUM] - 1)

VARIABLES
  lag, due,
  interval,     \* dwinterval_ of each timer
  spokes,       \* the timers in each list, in order
  spokeindex,   \* of each wheel
  readynodes,   \* the timers whose nodes wait to be called
  timernode,    \* timers whose timernode_ is not NULL
  loops,        \* iterations DetectTimerList has left
  phase,        \* "idle", "detecting", or "callback" inside callback_()
  running       \* the timer that is being called

lists == <<spokes, spokeindex, readynodes>>
vars == <<lag, due, interval, lists, timernode, loops, phase, running>>

Init ==
  /\ lag = 0 /\ due = [t \in Timer |-> 0]
  /\ interval \in [Timer -> Intervals]
  /\ spokes = [s \in Spokes |-> <<>>] /\ spokeindex = [w \in Wheels |-> 0]
  /\ readynodes = <<>> /\ timernode = {}
  /\ loops = 0 /\ phase = "idle" /\ running = NoTimer

-----------------------------------------------------------------------------
(* Lists. *)

In(list, t) == \E i \in DOMAIN list : list[i] = t

Drop(list, t) ==
  LET k == CHOOSE i \in DOMAIN list : list[i] = t
  IN  IF In(list, t) THEN SubSeq(list, 1, k - 1) \o SubSeq(list, k + 1, Len(list)) ELSE list

(* Mutant: the wheels are chosen and turned as if each spoke began at its threshold. *)
MutantSpokeFor(ms, index) ==
  LET ticks == ms \div GRANULARITY
      above == {w \in Wheels \ {0} : ticks >= Threshold[w]}
      w == CHOOSE v \in above : \A u \in above : u <= v
  IN  IF above = {} THEN <<0, (ticks + index[0]) % Size(0)>>
      ELSE <<w, (ticks \div Threshold[w] + index[w]) % Size(w)>>

(* The spoke for a timer that is due in ms, when the wheels stand at index. *)
SpokeFor(ms, index) ==
  LET ticks == ms \div GRANULARITY
      above == {w \in Wheels \ {0} : ticks >= Threshold[w]}
      w == CHOOSE v \in above : \A u \in above : u <= v
  IN  IF above = {} THEN <<0, (ticks + index[0]) % Size(0)>>
      ELSE <<w, ((ticks - Threshold[w] + index[w] * Threshold[w]) \div Threshold[w]) % Size(w)>>

(* Mutant: only a timer in a spoke is unlinked. *)
MutantUnlink(t) ==
  /\ spokes' = [s \in Spokes |-> Drop(spokes[s], t)]
  /\ UNCHANGED readynodes

Unlink(t) ==
  /\ spokes' = [s \in Spokes |-> Drop(spokes[s], t)]
  /\ readynodes' = Drop(readynodes, t)

(* A node from wheel w goes to the ready list if it is due by now, or to its spoke. *)
DealOut(t, c) ==
  IF due[t] <= lag THEN [c EXCEPT !.ready = Append(@, t)]
  ELSE [c EXCEPT !.spokes[SpokeFor(due[t] - lag, c.index)] = Append(@, t)]

(* The wheels once wheel w has dealt out the nodes of its spoke, in order. *)
CascadeWheel(w, c) ==
  LET spoke == <<w, c.index[w]>>
      list == c.spokes[spoke]
      dealt[k \in 0..Len(list)] ==
        IF k = 0 THEN [c EXCEPT !.spokes[spoke] = <<>>, !.index[w] = @ + 1]
        ELSE DealOut(list[k], dealt[k - 1])
  IN  dealt[Len(list)]

(* Mutant: wheel 0 starts again and the wheels above it stand still. *)
MutantCascade(turned) == [turned EXCEPT !.index[0] = @ % Size(0)]

(* The wheels as far as wheel w, after a cascade from wheel 1 up. *)
Round(w, c) == c.index[w] >= Size(w)
Zero(w, c) == IF Round(w, c) THEN [c EXCEPT !.index[w] = 0] ELSE c
Cascaded(turned) ==
  LET after[w \in Wheels] ==
        IF w = 0 THEN turned
        ELSE IF Round(w - 1, after[w - 1]) THEN CascadeWheel(w, Zero(w - 1, after[w - 1]))
        ELSE after[w - 1]
  IN  after[WHEEL_NUM - 1]

(* The wheels after a cascade from wheel 1 up, as far as wheels come round. *)
Cascade(turned) == Zero(WHEEL_NUM - 1, Cascaded(turned))

-----------------------------------------------------------------------------
(* CThreadTimer, called by the loop's other work or from a callback. *)

UserRuns == phase \in {"idle", "callback"}

(* AddTimer, for a timer that is in no list of the wheels w. *)
AddTimer(t, w) ==
  /\ spokes' = [w EXCEPT ![SpokeFor(interval[t], spokeindex)] = Append(@, t)]
  /\ due' = [due EXCEPT ![t] = lag + interval[t]]
  /\ timernode' = timernode \cup {t}

Start(t) ==
  /\ UserRuns
  /\ AddTimer(t, [s \in Spokes |-> Drop(spokes[s], t)])
  /\ readynodes' = Drop(readynodes, t)
  /\ UNCHANGED <<lag, interval, spokeindex, loops, phase, running>>

Stop(t) ==
  /\ UserRuns
  /\ IF t \in timernode THEN Unlink(t) ELSE UNCHANGED <<spokes, readynodes>>
  /\ timernode' = timernode \ {t}
  /\ due' = [due EXCEPT ![t] = 0]
  /\ UNCHANGED <<lag, interval, spokeindex, loops, phase, running>>

-----------------------------------------------------------------------------
(* CTimerManager::DetectTimerList, which the loop calls again and again. *)

Detect ==
  /\ phase = "idle"
  /\ phase' = "detecting"
  /\ loops' = IF lag > 0 THEN lag \div GRANULARITY ELSE 0
  /\ UNCHANGED <<lag, due, interval, lists, timernode, running>>

(* How soon a timer is due when checktime_ is a tick later; it is not counted
   beyond what makes a timer due whatever the clock says. *)
Sooner(d) == IF d < -MaxBack THEN d ELSE d - GRANULARITY

(* One iteration: the spoke of wheel 0 is ready and the wheels move a tick. *)
Turn ==
  /\ phase = "detecting" /\ loops > 0
  /\ LET spoke == <<0, spokeindex[0]>>
         c == Cascade([spokes |-> [spokes EXCEPT ![spoke] = <<>>],
                       index  |-> [spokeindex EXCEPT ![0] = @ + 1],
                       ready  |-> readynodes \o spokes[spoke]])
     IN  spokes' = c.spokes /\ spokeindex' = c.index /\ readynodes' = c.ready
  /\ lag' = lag - GRANULARITY
  /\ due' = [t \in Timer |-> IF t \in timernode THEN Sooner(due[t]) ELSE 0]
  /\ loops' = loops - 1
  /\ UNCHANGED <<interval, timernode, phase, running>>

(* CThreadTimer::Callback as far as callback_(). *)
Callback(t) ==
  IF t \in Circle THEN AddTimer(t, spokes)
  ELSE timernode' = timernode \ {t} /\ due' = [due EXCEPT ![t] = 0] /\ UNCHANGED spokes

Call ==
  /\ phase = "detecting" /\ loops = 0 /\ readynodes # <<>>
  /\ Callback(Head(readynodes))
  /\ running' = Head(readynodes)
  /\ readynodes' = Tail(readynodes)
  /\ phase' = "callback"
  /\ UNCHANGED <<lag, interval, spokeindex, loops>>

CallbackReturns ==
  /\ phase = "callback"
  /\ phase' = "detecting" /\ running' = NoTimer
  /\ UNCHANGED <<lag, due, interval, lists, timernode, loops>>

DetectEnds ==
  /\ phase = "detecting" /\ loops = 0 /\ readynodes = <<>>
  /\ phase' = "idle"
  /\ UNCHANGED <<lag, due, interval, lists, timernode, loops, running>>

(* gettimeofday: the clock goes on, also while the wheels turn, or steps back. *)
Tick == lag < MaxLag /\ lag' = lag + 1 /\ UNCHANGED <<due, interval, lists, timernode, loops, phase, running>>
ClockStepsBack ==
  /\ lag' \in (loops * GRANULARITY - MaxBack)..(lag - 1) /\ MaxBack > 0
  /\ UNCHANGED <<due, interval, lists, timernode, loops, phase, running>>

Next ==
  \/ Detect \/ Turn \/ Call \/ CallbackReturns \/ DetectEnds \/ Tick \/ ClockStepsBack
  \/ \E t \in Timer : Start(t) \/ Stop(t)

Spec == Init /\ [][Next]_vars

(* Time passes, the loop calls DetectTimerList again and callbacks return. *)
Fairness ==
  WF_vars(Tick) /\ WF_vars(Detect \/ Turn \/ Call \/ CallbackReturns \/ DetectEnds)
LiveSpec == Spec /\ Fairness

-----------------------------------------------------------------------------
(* Properties. *)

(* Every variable has its type and the wheels stand on spokes they have. *)
TypeOK ==
  /\ lag \in -MaxBack..MaxLag /\ due \in [Timer -> Int]
  /\ interval \in [Timer -> Intervals]
  /\ spokes \in [Spokes -> Seq(Timer)] /\ readynodes \in Seq(Timer)
  /\ spokeindex \in [Wheels -> Nat] /\ \A w \in Wheels : spokeindex[w] < Size(w)
  /\ timernode \subseteq Timer /\ loops \in Nat
  /\ phase \in {"idle", "detecting", "callback"} /\ running \in Timer \cup {NoTimer}

InSpokes(t) == {s \in Spokes : In(spokes[s], t)}
Once(list) == \A i, j \in DOMAIN list : list[i] = list[j] => i = j

(* RemoveTimer can rely on timernode_: a timer that has a node is in exactly one
   list, once, and one that has none is in no list, so no list holds a node that
   its timer cannot stop any more. *)
LinkedAs(inspokes, ready, nodes) ==
  /\ Once(ready) /\ \A s \in Spokes : Once(inspokes[s])
  /\ \A t \in Timer, s \in Spokes : In(inspokes[s], t) =>
       ~In(ready, t) /\ \A r \in Spokes : In(inspokes[r], t) => r = s
  /\ \A t \in Timer : t \in nodes <=> In(ready, t) \/ \E s \in Spokes : In(inspokes[s], t)

Linked == LinkedAs(spokes, readynodes, timernode)

(* AddTimerNode and Cascade never put a timer behind the wheels: a timer that is
   still in a spoke is not due before the time the wheels stand at, but for the
   distance the clock stepped back. *)
NotLate == \A t \in Timer : InSpokes(t) # {} => due[t] >= -MaxBack

(* No timer is called early by more than the wheels were behind the clock when it
   was put in its spoke (the code counts from now, the wheels from checktime_). *)
NotEarly == \A t \in Timer : In(readynodes, t) => due[t] - lag < MaxLag + MaxBack

Service == INSTANCE TimerService WITH armed <- timernode

(* The wheels keep the promise of TimerService: a timer is called only if it was
   started and not stopped since, also when callbacks of the same detection stop
   or start the timers that wait in the ready list. *)
ImplementsService == Service!Spec

(* A started timer is called, unless it is stopped or goes on being started. *)
Fires ==
  \A t \in Timer :
    []<><<Start(t)>>_vars \/ (t \in timernode ~> (running = t \/ t \notin timernode))
=============================================================================
