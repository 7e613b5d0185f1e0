------------------------------ MODULE MsgQueue ------------------------------
(***************************************************************************)
(* MsgQueuePrio (frame/common/msgqueueprio.cc): a high, a medium and a low *)
(* ring buffer under one mutex, a condition variable for the readers and   *)
(* one per ring for the writers, and counters of those that wait, which    *)
(* decide whether anybody is notified.  Everything between taking the      *)
(* mutex and giving it up, by returning or by waiting, is one step.        *)
(***************************************************************************)
EXTENDS Integers, FiniteSets

CONSTANTS
  Producers, Consumers,  \* threads while they call PutQ, GetQ
  Message, NoMessage,    \* pointers that may be queued; NULL
  Capacity               \* capacity of each ring

Priorities == {"high", "medium", "low"}
Threads == Producers \cup Consumers
Slots == UNION {{p} \X (0..(Capacity[p] - 1)) : p \in Priorities}

ASSUME QueueAssumption ==
  /\ IsFiniteSet(Producers) /\ IsFiniteSet(Consumers)
  /\ Producers \cap Consumers = {}
  /\ NoMessage \notin Message
  /\ Capacity \in [Priorities -> Nat \ {0}]

VARIABLES
  ppbuf, datasize, putloc, getloc,  \* the rings, by priority
  waitingput, waitingget,           \* waitingputthreadnum, waitinggetthreadnum_
  pc,                               \* where each thread is
  timed,                            \* threads that wait with num_seconds > 0
  call,                             \* pdata and en_prio of each PutQ under way
  pdata                             \* what the last GetQ of each consumer returned

rings == <<ppbuf, datasize, putloc, getloc>>
vars == <<rings, waitingput, waitingget, pc, timed, call, pdata>>

(* "awake": notified, or woken for nothing; "late": timed out; neither has the
   mutex back yet. *)
Places == {"out", "asleep", "awake", "late"}
NoCall == [msg |-> NoMessage, prio |-> "none"]

(* Every variable stays in its range, and the ring positions inside their rings. *)
TypeOK ==
  /\ ppbuf \in [Slots -> Message \cup {NoMessage}]
  /\ datasize \in [Priorities -> Nat]
  /\ putloc \in [Priorities -> Nat] /\ getloc \in [Priorities -> Nat]
  /\ \A p \in Priorities : /\ datasize[p] <= Capacity[p]
                           /\ putloc[p] < Capacity[p] /\ getloc[p] < Capacity[p]
  /\ waitingput \in [Priorities -> Int] /\ waitingget \in Int
  /\ pc \in [Threads -> Places]
  /\ timed \subseteq Threads
  /\ call \in [Producers -> [msg : Message, prio : Priorities] \cup {NoCall}]
  /\ pdata \in [Consumers -> Message \cup {NoMessage}]

Init ==
  /\ ppbuf = [s \in Slots |-> NoMessage]
  /\ datasize = [p \in Priorities |-> 0]
  /\ putloc = [p \in Priorities |-> 0] /\ getloc = [p \in Priorities |-> 0]
  /\ waitingput = [p \in Priorities |-> 0] /\ waitingget = 0
  /\ pc = [t \in Threads |-> "out"] /\ timed = {}
  /\ call = [t \in Producers |-> NoCall]
  /\ pdata = [c \in Consumers |-> NoMessage]

-----------------------------------------------------------------------------
IsFull(p) == datasize[p] = Capacity[p]
IsEmpty(p) == datasize[p] <= 0

(* Mutant: the position is not taken back to the start of the ring. *)
MutantWrap(p, i) == i

Wrap(p, i) == IF i = Capacity[p] THEN 0 ELSE i

Asleep(S) == {t \in S : pc[t] = "asleep"}

(* Thread t leaves, having notified one thread of S if told to. *)
Leave(t, S, notify) ==
  LET left == [pc EXCEPT ![t] = "out"]
  IN  IF notify /\ Asleep(S) # {}
      THEN \E w \in Asleep(S) : pc' = [left EXCEPT ![w] = "awake"]
      ELSE pc' = left

Writers(p) == {t \in Producers : call[t].prio = p}

(* Mutants: a reader is notified only of a message put in an empty ring, and a
   writer only of a place in a full one. *)
MutantNotifyReader(t, p) == Leave(t, Consumers, waitingget # 0 /\ IsEmpty(p))
MutantNotifyWriter(t, p) == Leave(t, Writers(p), waitingput[p] # 0 /\ IsFull(p))

NotifyReader(t, p) == Leave(t, Consumers, waitingget # 0)
NotifyWriter(t, p) == Leave(t, Writers(p), waitingput[p] # 0)

-----------------------------------------------------------------------------
(* PutQ, once it holds the mutex: n writers are counted as waiting for this ring. *)

Insert(t, m, p, n) ==
  /\ ppbuf' = [ppbuf EXCEPT ![<<p, putloc[p]>>] = m]
  /\ putloc' = [putloc EXCEPT ![p] = Wrap(p, @ + 1)]
  /\ datasize' = [datasize EXCEPT ![p] = @ + 1]
  /\ waitingput' = [waitingput EXCEPT ![p] = n]
  /\ NotifyReader(t, p)
  /\ call' = [call EXCEPT ![t] = NoCall]
  /\ timed' = timed \ {t}
  /\ UNCHANGED getloc

WaitForPlace(t, m, p, n, limited) ==
  /\ waitingput' = [waitingput EXCEPT ![p] = n + 1]
  /\ pc' = [pc EXCEPT ![t] = "asleep"]
  /\ call' = [call EXCEPT ![t] = [msg |-> m, prio |-> p]]
  /\ timed' = IF limited THEN timed \cup {t} ELSE timed
  /\ UNCHANGED rings

(* Mutant: a writer that was woken does not look at the ring again. *)
MutantPutLoop(t, m, p, n, limited) ==
  /\ \/ IsFull(p) /\ pc[t] = "out" /\ WaitForPlace(t, m, p, n, limited)
     \/ (~IsFull(p) \/ pc[t] # "out") /\ Insert(t, m, p, n)
  /\ UNCHANGED <<waitingget, pdata>>

PutLoop(t, m, p, n, limited) ==
  /\ \/ IsFull(p) /\ WaitForPlace(t, m, p, n, limited)
     \/ ~IsFull(p) /\ Insert(t, m, p, n)
  /\ UNCHANGED <<waitingget, pdata>>

PutQ(t, m, p, limited) ==
  /\ pc[t] = "out"
  /\ PutLoop(t, m, p, waitingput[p], limited)

PutAgain(t) ==
  /\ pc[t] = "awake"
  /\ PutLoop(t, call[t].msg, call[t].prio, waitingput[call[t].prio] - 1, t \in timed)

(* Mutant: a writer that gives up stays counted. *)
MutantPutTimesOut(t) ==
  /\ pc[t] = "late"
  /\ pc' = [pc EXCEPT ![t] = "out"]
  /\ call' = [call EXCEPT ![t] = NoCall]
  /\ timed' = timed \ {t}
  /\ UNCHANGED <<rings, waitingput, waitingget, pdata>>

(* PutQ returns false. *)
PutTimesOut(t) ==
  /\ pc[t] = "late"
  /\ waitingput' = [waitingput EXCEPT ![call[t].prio] = @ - 1]
  /\ pc' = [pc EXCEPT ![t] = "out"]
  /\ call' = [call EXCEPT ![t] = NoCall]
  /\ timed' = timed \ {t}
  /\ UNCHANGED <<rings, waitingget, pdata>>

-----------------------------------------------------------------------------
(* GetQ, once it holds the mutex: n readers are counted as waiting. *)

FirstWithData(p) ==
  /\ ~IsEmpty(p)
  /\ p # "high" => IsEmpty("high")
  /\ p = "low" => IsEmpty("medium")

Remove(c, p, n) ==
  /\ pdata' = [pdata EXCEPT ![c] = ppbuf[<<p, getloc[p]>>]]
  /\ getloc' = [getloc EXCEPT ![p] = Wrap(p, @ + 1)]
  /\ datasize' = [datasize EXCEPT ![p] = @ - 1]
  /\ waitingget' = n
  /\ NotifyWriter(c, p)
  /\ timed' = timed \ {c}
  /\ UNCHANGED <<ppbuf, putloc>>

WaitForMessage(c, n, limited) ==
  /\ waitingget' = n + 1
  /\ pc' = [pc EXCEPT ![c] = "asleep"]
  /\ pdata' = [pdata EXCEPT ![c] = NoMessage]
  /\ timed' = IF limited THEN timed \cup {c} ELSE timed
  /\ UNCHANGED rings

GetLoop(c, n, limited) ==
  /\ \/ \E p \in Priorities : FirstWithData(p) /\ Remove(c, p, n)
     \/ (\A p \in Priorities : IsEmpty(p)) /\ WaitForMessage(c, n, limited)
  /\ UNCHANGED <<waitingput, call>>

GetQ(c, limited) ==
  /\ pc[c] = "out"
  /\ GetLoop(c, waitingget, limited)

GetAgain(c) ==
  /\ pc[c] = "awake"
  /\ GetLoop(c, waitingget - 1, c \in timed)

(* GetQ returns NULL, whatever has been put since the time ran out. *)
GetTimesOut(c) ==
  /\ pc[c] = "late"
  /\ waitingget' = waitingget - 1
  /\ pc' = [pc EXCEPT ![c] = "out"]
  /\ timed' = timed \ {c}
  /\ UNCHANGED <<rings, waitingput, call, pdata>>

-----------------------------------------------------------------------------
(* The condition variables: a wait ends by time-out, or for no reason. *)

TimeRunsOut(t) ==
  /\ pc[t] = "asleep" /\ t \in timed
  /\ pc' = [pc EXCEPT ![t] = "late"]
  /\ UNCHANGED <<rings, waitingput, waitingget, timed, call, pdata>>

WakesForNothing(t) ==
  /\ pc[t] = "asleep"
  /\ pc' = [pc EXCEPT ![t] = "awake"]
  /\ UNCHANGED <<rings, waitingput, waitingget, timed, call, pdata>>

Next ==
  \/ \E t \in Producers :
       \/ \E m \in Message, p \in Priorities, limited \in BOOLEAN : PutQ(t, m, p, limited)
       \/ PutAgain(t) \/ PutTimesOut(t)
  \/ \E c \in Consumers :
       \/ \E limited \in BOOLEAN : GetQ(c, limited)
       \/ GetAgain(c) \/ GetTimesOut(c)
  \/ \E t \in Threads : TimeRunsOut(t) \/ WakesForNothing(t)

Spec == Init /\ [][Next]_vars

-----------------------------------------------------------------------------
(* Properties. *)

Awake(S) == {t \in S : pc[t] = "awake"}

(* The counters that decide whether anybody is notified count the threads inside
   a wait, those included that are on their way out of it. *)
Counted ==
  /\ waitingget = Cardinality({c \in Consumers : pc[c] # "out"})
  /\ \A p \in Priorities :
       waitingput[p] = Cardinality({t \in Writers(p) : pc[t] # "out"})

(* No reader sleeps beside a message that no other reader has been woken for. *)
ReadersWoken ==
  Asleep(Consumers) # {} =>
    datasize["high"] + datasize["medium"] + datasize["low"] <= Cardinality(Awake(Consumers))

(* No writer sleeps beside a free place of its ring that no other writer has
   been woken for. *)
WritersWoken ==
  \A p \in Priorities : Asleep(Writers(p)) # {} =>
    Capacity[p] - datasize[p] <= Cardinality(Awake(Writers(p)))

(* The place of the i-th message of a ring, from 0; what the ring holds. *)
Place(p, i) == IF getloc[p] + i < Capacity[p] THEN getloc[p] + i
               ELSE getloc[p] + i - Capacity[p]
QueueOf(p) == [i \in 1..datasize[p] |-> ppbuf[<<p, Place(p, i - 1)>>]]

Queue == INSTANCE PrioQueue WITH
  Reader <- Consumers,
  queue  <- [p \in Priorities |-> QueueOf(p)],
  taken  <- pdata

(* The rings implement the queue the threads are promised: bounded, first in
   first out for each priority, the most urgent message first, none lost or
   returned twice. *)
ImplementsQueue == Queue!Spec

=============================================================================
