------------------------------ MODULE IoThread ------------------------------
(***************************************************************************)
(* CIoServiceThread, the loop of a CSessionManager, between the thread     *)
(* that owns it (Start, GetSelfCheck, Stop) and the thread that runs its   *)
(* io_service. isalive_ is shared: it answers the self check and it keeps  *)
(* the deadline timer going that drives the timer wheel.                   *)
(***************************************************************************)
EXTENDS Naturals, Sequences

CONSTANT MaxConns  \* bound: connections open at a time

IoAssumption == MaxConns \in Nat

VARIABLES
  owner,     \* where the owner is: "new", "starting", "up", "checking", "stopping", "joining", "joined"
  io,        \* the io thread: "none", "idle", "timer" inside DoTimer, "returned" from run()
  queue,     \* handlers ready to run
  work,      \* work_ is alive
  deadline,  \* dealline_timer_: "off", "waiting", "queued"
  isalive,
  armed,     \* tm_selfcheck_ and tm_check_session_ are started
  conns,     \* connections with an operation outstanding
  (* History. *)
  checked,   \* GetSelfCheck has cleared isalive_
  revived    \* isalive_ was set after Stop cleared it

vars == <<owner, io, queue, work, deadline, isalive, armed, conns, checked, revived>>

Init ==
  /\ owner = "new" /\ io = "none" /\ queue = <<>> /\ work = FALSE
  /\ deadline = "off" /\ isalive = FALSE /\ armed = FALSE /\ conns = 0
  /\ checked = FALSE /\ revived = FALSE

-----------------------------------------------------------------------------
(* The owner's thread. *)

StartThread ==
  /\ owner = "new"
  /\ owner' = "starting" /\ io' = "idle" /\ work' = TRUE
  /\ queue' = Append(queue, "StartInThread")
  /\ UNCHANGED <<deadline, isalive, armed, conns, checked, revived>>

StartTimer ==
  /\ owner = "starting"
  /\ owner' = "up" /\ isalive' = TRUE /\ deadline' = "waiting"
  /\ UNCHANGED <<io, queue, work, armed, conns, checked, revived>>

(* GetSelfCheck reads the flag, then clears it. *)
SelfCheckReads ==
  /\ owner = "up"
  /\ owner' = "checking"
  /\ UNCHANGED <<io, queue, work, deadline, isalive, armed, conns, checked, revived>>

SelfCheckClears ==
  /\ owner = "checking"
  /\ owner' = "up" /\ isalive' = FALSE /\ checked' = TRUE
  /\ UNCHANGED <<io, queue, work, deadline, armed, conns, revived>>

StopClears ==
  /\ owner = "up"
  /\ owner' = "stopping" /\ isalive' = FALSE
  /\ UNCHANGED <<io, queue, work, deadline, armed, conns, checked, revived>>

(* Mutant: the loop is not told. *)
MutantStopSilently ==
  /\ owner = "stopping"
  /\ owner' = "joining" /\ work' = FALSE
  /\ UNCHANGED <<io, queue, deadline, isalive, armed, conns, checked, revived>>

StopPosts ==
  /\ owner = "stopping"
  /\ owner' = "joining" /\ queue' = Append(queue, "StopInThread") /\ work' = FALSE
  /\ UNCHANGED <<io, deadline, isalive, armed, conns, checked, revived>>

StopJoins ==
  /\ owner = "joining" /\ io = "returned"
  /\ owner' = "joined"
  /\ UNCHANGED <<io, queue, work, deadline, isalive, armed, conns, checked, revived>>

-----------------------------------------------------------------------------
(* The io thread. *)

SetAlive ==
  /\ isalive' = TRUE
  /\ revived' = (revived \/ owner \in {"stopping", "joining"})

Runs(handler) == io = "idle" /\ queue # <<>> /\ Head(queue) = handler /\ queue' = Tail(queue)

StartInThread ==
  /\ Runs("StartInThread")
  /\ SetAlive /\ armed' = TRUE
  /\ UNCHANGED <<owner, io, work, deadline, conns, checked>>

StopInThread ==
  /\ Runs("StopInThread")
  /\ armed' = FALSE
  /\ UNCHANGED <<owner, io, work, deadline, isalive, conns, checked, revived>>

DeadlineExpires ==
  /\ deadline = "waiting" /\ io # "none"
  /\ deadline' = "queued" /\ queue' = Append(queue, "DoTimer")
  /\ UNCHANGED <<owner, io, work, isalive, armed, conns, checked, revived>>

(* DetectTimerList, in which the self check may be due. *)
DoTimer ==
  /\ Runs("DoTimer")
  /\ io' = "timer" /\ deadline' = "off"
  /\ (armed /\ SetAlive) \/ UNCHANGED <<isalive, revived>>
  /\ UNCHANGED <<owner, work, armed, conns, checked>>

(* Mutant: the flag is cleared for the next self check. *)
MutantDoTimerEnds ==
  /\ io = "timer"
  /\ io' = "idle" /\ isalive' = FALSE
  /\ IF isalive THEN deadline' = "waiting" ELSE UNCHANGED deadline
  /\ UNCHANGED <<owner, queue, work, armed, conns, checked, revived>>

DoTimerEnds ==
  /\ io = "timer"
  /\ io' = "idle"
  /\ IF isalive THEN deadline' = "waiting" ELSE UNCHANGED deadline
  /\ UNCHANGED <<owner, queue, work, isalive, armed, conns, checked, revived>>

(* The io_service: run() returns when nothing is outstanding and there is no work. *)
RunReturns ==
  /\ io = "idle" /\ ~work /\ queue = <<>> /\ deadline = "off" /\ conns = 0
  /\ io' = "returned"
  /\ UNCHANGED <<owner, queue, work, deadline, isalive, armed, conns, checked, revived>>

(* A connection has one operation or more outstanding until its socket closes. *)
ConnectionOpens ==
  /\ io = "idle" /\ work /\ conns < MaxConns /\ conns' = conns + 1
  /\ UNCHANGED <<owner, io, queue, work, deadline, isalive, armed, checked, revived>>

ConnectionCloses ==
  /\ io = "idle" /\ conns > 0 /\ conns' = conns - 1
  /\ UNCHANGED <<owner, io, queue, work, deadline, isalive, armed, checked, revived>>

OwnerNext ==
  \/ StartThread \/ StartTimer \/ SelfCheckReads \/ SelfCheckClears
  \/ StopClears \/ StopPosts \/ StopJoins
IoNext == StartInThread \/ StopInThread \/ DoTimer \/ DoTimerEnds \/ RunReturns
Next == OwnerNext \/ IoNext \/ DeadlineExpires \/ ConnectionOpens \/ ConnectionCloses

Spec == Init /\ [][Next]_vars

(* The loop runs what is ready, time passes and a Stop or Start under way goes on. *)
Fairness ==
  /\ WF_vars(IoNext) /\ WF_vars(DeadlineExpires)
  /\ WF_vars(StartTimer) /\ WF_vars(StopPosts \/ StopJoins)
LiveSpec == Spec /\ Fairness

-----------------------------------------------------------------------------
(* Properties. *)

(* Every variable has its type. *)
TypeOK ==
  /\ owner \in {"new", "starting", "up", "checking", "stopping", "joining", "joined"}
  /\ io \in {"none", "idle", "timer", "returned"}
  /\ queue \in Seq({"StartInThread", "StopInThread", "DoTimer"})
  /\ deadline \in {"off", "waiting", "queued"} /\ conns \in 0..MaxConns
  /\ work \in BOOLEAN /\ isalive \in BOOLEAN /\ armed \in BOOLEAN
  /\ checked \in BOOLEAN /\ revived \in BOOLEAN

Driven == deadline # "off" \/ (io = "timer" /\ isalive)

(* The wheel is driven as long as the thread is up and no self check has cleared
   isalive_: a self check is the only thing that can end a running thread's timers
   (and does, when the deadline timer runs before the self check's timer). *)
TimersDriven == owner \in {"up", "checking"} /\ ~checked => Driven

Places(handler) == {i \in DOMAIN queue : queue[i] = handler}

(* The deadline timer's handler is in the queue exactly while it waits there, and
   once: two of them would drive the wheel twice as often. *)
OneDeadline ==
  /\ Places("DoTimer") # {} <=> deadline = "queued"
  /\ \A i, j \in Places("DoTimer") : i = j

(* When Stop has returned the loop has run StopInThread: no timer is left armed
   and no handler is left to run in a thread that is about to be deleted. *)
StoppedIsQuiet == owner = "joined" => queue = <<>> /\ ~armed /\ deadline = "off" /\ conns = 0

(* Stop ends, if the connections are closed by their peers in the end and isalive_
   is not set again, by a self check that was due or by a late StartInThread,
   after Stop cleared it. *)
StopEnds == <>[](conns = 0) => (owner = "joining" ~> owner = "joined" \/ revived)
=============================================================================
