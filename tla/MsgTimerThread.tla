--------------------------- MODULE MsgTimerThread ---------------------------
(***************************************************************************)
(* MsgTimerThread (frame/common): threads that deal with the messages of   *)
(* their own queue and of one they share, and drive a timer wheel between  *)
(* messages. The owner is the group of the unit tests (TestThreadGroup),   *)
(* which starts the threads, puts messages and stops them one by one.      *)
(* Queues are taken as PrioQueue promises them, for one priority.          *)
(***************************************************************************)
EXTENDS Naturals, Sequences, FiniteSets

CONSTANTS
  Thread,         \* 1..n, in the order of threads_
  self_priority,  \* self_priority_ of each thread
  Message, NoMessage

ThreadAssumption ==
  /\ IsFiniteSet(Thread) /\ Thread = 1..Cardinality(Thread)
  /\ self_priority \in [Thread -> BOOLEAN] /\ NoMessage \notin Message

VARIABLES
  owner,       \* thread the owner is stopping; 0 before Stop, beyond the last after it
  joining,     \* it has cleared is_running_ and waits in join
  pc,          \* of each thread: "new", "first", "second", "check", "stopped"
  pdata,       \* the message a thread is dealing with
  is_running,
  queue,       \* queue_ of each thread
  public,      \* public_queue_
  (* History. *)
  dealt,       \* messages dealt with, in order
  late         \* threads whose Run set is_running_ after Stop had cleared it

vars == <<owner, joining, pc, pdata, is_running, queue, public, dealt, late>>

Init ==
  /\ owner = 0 /\ joining = FALSE /\ pc = [t \in Thread |-> "new"]
  /\ pdata = [t \in Thread |-> NoMessage] /\ is_running = [t \in Thread |-> FALSE]
  /\ queue = [t \in Thread |-> <<>>] /\ public = <<>> /\ dealt = <<>> /\ late = {}

Holds(list, msg) == \E i \in DOMAIN list : list[i] = msg
Queued(msg) == Holds(public, msg) \/ \E t \in Thread : Holds(queue[t], msg)
Fresh(msg) == ~Queued(msg) /\ ~Holds(dealt, msg) /\ \A t \in Thread : pdata[t] # msg

-----------------------------------------------------------------------------
(* The owner. *)

OnPublicMsg(msg) ==
  /\ owner = 0 /\ Fresh(msg)
  /\ public' = Append(public, msg)
  /\ UNCHANGED <<owner, joining, pc, pdata, is_running, queue, dealt, late>>

OnPrivateMsg(t, msg) ==
  /\ owner = 0 /\ Fresh(msg)
  /\ queue' = [queue EXCEPT ![t] = Append(@, msg)]
  /\ UNCHANGED <<owner, joining, pc, pdata, is_running, public, dealt, late>>

StopGroup ==
  /\ owner = 0
  /\ owner' = 1
  /\ UNCHANGED <<joining, pc, pdata, is_running, queue, public, dealt, late>>

(* Mutant: the flag is not cleared. *)
MutantStop ==
  /\ owner \in Thread /\ ~joining
  /\ joining' = TRUE
  /\ UNCHANGED <<owner, pc, pdata, is_running, queue, public, dealt, late>>

Stop ==
  /\ owner \in Thread /\ ~joining
  /\ joining' = TRUE /\ is_running' = [is_running EXCEPT ![owner] = FALSE]
  /\ UNCHANGED <<owner, pc, pdata, queue, public, dealt, late>>

Join ==
  /\ owner \in Thread /\ joining /\ pc[owner] = "stopped"
  /\ joining' = FALSE /\ owner' = owner + 1
  /\ UNCHANGED <<pc, pdata, is_running, queue, public, dealt, late>>

-----------------------------------------------------------------------------
(* Run, in a thread. *)

Run(t) ==
  /\ pc[t] = "new"
  /\ pc' = [pc EXCEPT ![t] = "first"] /\ is_running' = [is_running EXCEPT ![t] = TRUE]
  /\ late' = IF owner = t /\ joining THEN late \cup {t} ELSE late
  /\ UNCHANGED <<owner, joining, pdata, queue, public, dealt>>

(* Whether the thread now takes from the queue it shares: with self_priority_ that
   is the first it looks at, without waiting, and its own the second. *)
TakesPublic(t) == (pc[t] = "first") = self_priority[t]

After(t) == IF pc[t] = "first" THEN "second" ELSE "check"

(* GetQ(1) after, on the first turn, IsEmpty; another thread may be faster. *)
GetQ(t) ==
  /\ pc[t] \in {"first", "second"} /\ pdata[t] = NoMessage
  /\ IF TakesPublic(t)
     THEN public # <<>> /\ pdata' = [pdata EXCEPT ![t] = Head(public)]
          /\ public' = Tail(public) /\ UNCHANGED queue
     ELSE queue[t] # <<>> /\ pdata' = [pdata EXCEPT ![t] = Head(queue[t])]
          /\ queue' = [queue EXCEPT ![t] = Tail(@)] /\ UNCHANGED public
  /\ UNCHANGED <<owner, joining, pc, is_running, dealt, late>>

(* IsEmpty, or GetQ returns NULL when its second is over. *)
GetsNothing(t) ==
  /\ pc[t] \in {"first", "second"} /\ pdata[t] = NoMessage
  /\ (IF TakesPublic(t) THEN public ELSE queue[t]) = <<>>
  /\ pc' = [pc EXCEPT ![t] = After(t)]
  /\ UNCHANGED <<owner, joining, pdata, is_running, queue, public, dealt, late>>

Deal(t) ==
  /\ pdata[t] # NoMessage
  /\ dealt' = Append(dealt, pdata[t]) /\ pdata' = [pdata EXCEPT ![t] = NoMessage]
  /\ pc' = [pc EXCEPT ![t] = After(t)]
  /\ UNCHANGED <<owner, joining, is_running, queue, public, late>>

(* The end of an iteration: the thread stops, or drives its timers and goes on. *)
StopInThread(t) ==
  /\ pc[t] = "check" /\ ~is_running[t]
  /\ pc' = [pc EXCEPT ![t] = "stopped"]
  /\ UNCHANGED <<owner, joining, pdata, is_running, queue, public, dealt, late>>

DetectTimerList(t) ==
  /\ pc[t] = "check" /\ is_running[t]
  /\ pc' = [pc EXCEPT ![t] = "first"]
  /\ UNCHANGED <<owner, joining, pdata, is_running, queue, public, dealt, late>>

ThreadNext(t) ==
  Run(t) \/ GetQ(t) \/ GetsNothing(t) \/ Deal(t) \/ StopInThread(t) \/ DetectTimerList(t)
Next ==
  \/ StopGroup \/ Stop \/ Join
  \/ \E msg \in Message : OnPublicMsg(msg) \/ \E t \in Thread : OnPrivateMsg(t, msg)
  \/ \E t \in Thread : ThreadNext(t)

Spec == Init /\ [][Next]_vars

(* The threads run, and a Stop under way goes on. *)
Fairness == WF_vars(Stop \/ Join) /\ \A t \in Thread : WF_vars(ThreadNext(t))
LiveSpec == Spec /\ Fairness

-----------------------------------------------------------------------------
(* Properties. *)

(* Every variable has its type. *)
TypeOK ==
  /\ owner \in 0..(Cardinality(Thread) + 1) /\ joining \in BOOLEAN
  /\ pc \in [Thread -> {"new", "first", "second", "check", "stopped"}]
  /\ pdata \in [Thread -> Message \cup {NoMessage}] /\ is_running \in [Thread -> BOOLEAN]
  /\ queue \in [Thread -> Seq(Message)] /\ public \in Seq(Message)
  /\ dealt \in Seq(Message) /\ late \subseteq Thread

(* A message is dealt with at most once, by one thread, though all threads take
   from the queue they share. *)
DealtOnce ==
  /\ \A i, j \in DOMAIN dealt : dealt[i] = dealt[j] => i = j
  /\ \A t, u \in Thread : pdata[t] # NoMessage => ~Holds(dealt, pdata[t]) /\ (pdata[u] = pdata[t] => u = t)

(* A thread whose Stop has returned is out of its loop and has nothing in hand. *)
JoinedIsOut == \A t \in Thread : owner > t => pc[t] = "stopped" /\ pdata[t] = NoMessage

(* Neither queue starves the other: a message is dealt with, or the group stops. *)
Served == \A msg \in Message : Queued(msg) ~> (Holds(dealt, msg) \/ owner # 0)

(* Stopping the group ends, unless a Stop came before the thread's Run, which sets
   is_running_ itself and so undoes it. *)
StopEnds == owner # 0 ~> (owner = Cardinality(Thread) + 1 \/ late # {})
=============================================================================
