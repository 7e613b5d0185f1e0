-------------------------- MODULE MsgQueue_proofs ---------------------------
(***************************************************************************)
(* Proofs about MsgQueue, for any number of threads and any capacities: no *)
(* wake-up is lost, and the rings implement PrioQueue.                     *)
(***************************************************************************)
EXTENDS MsgQueue, FiniteSetTheorems, SequenceTheorems, TLAPS

(* The next free place of a ring is the one after what it holds. *)
Rings == \A p \in Priorities : putloc[p] = Place(p, datasize[p])

(* Exactly the writers inside PutQ have a call under way. *)
Busy == \A t \in Producers : pc[t] = "out" <=> call[t] = NoCall

IInv == TypeOK /\ Rings /\ Busy /\ Counted /\ ReadersWoken /\ WritersWoken

Waiting(S) == {t \in S : pc[t] # "out"}

-----------------------------------------------------------------------------
(* Threads, slots and counting. *)

(* The number of elements when one comes. *)
LEMMA OneMore ==
  ASSUME NEW A, NEW B, NEW x, IsFiniteSet(A), x \notin A, B = A \cup {x}
  PROVE  Cardinality(B) = Cardinality(A) + 1
BY FS_AddElement

(* One goes. *)
LEMMA OneLess ==
  ASSUME NEW A, NEW B, NEW x, IsFiniteSet(A), x \in A, B = A \ {x}
  PROVE  Cardinality(B) = Cardinality(A) - 1
BY FS_RemoveElement

(* The sets of threads that are counted are finite. *)
LEMMA Finite ==
  ASSUME NEW S, S \subseteq Producers \/ S \subseteq Consumers
  PROVE  IsFiniteSet(S) /\ Cardinality(S) \in Nat /\ (Cardinality(S) = 0 <=> S = {})
BY QueueAssumption, FS_Subset, FS_CardinalityType, FS_EmptySet

(* What counting a set of producers or consumers of some kind means. *)
LEMMA Subsets ==
  /\ \A p \in Priorities : Writers(p) \subseteq Producers
  /\ \A S : Asleep(S) \subseteq S /\ Awake(S) \subseteq S /\ Waiting(S) \subseteq S
  /\ Producers \subseteq Threads /\ Consumers \subseteq Threads
BY DEF Writers, Asleep, Awake, Waiting, Threads

(* No thread is a producer and a consumer. *)
LEMMA Apart ==
  \A t : ~(t \in Producers /\ t \in Consumers)
BY QueueAssumption

-----------------------------------------------------------------------------
(* What Leave does to the threads of a set. *)

(* A thread leaves: nobody of S or U falls asleep, and if somebody of S slept and
   one was to be notified, one more of them is awake; U, apart from S, loses at
   most the thread that leaves. *)
LEMMA LeaveFacts ==
  ASSUME pc \in [Threads -> Places], NEW t \in Threads, pc[t] # "asleep",
         NEW S \in SUBSET Threads, NEW n \in BOOLEAN, Leave(t, S, n)
  PROVE  /\ pc' \in [Threads -> Places]
         /\ pc'[t] = "out"
         /\ \/ /\ \A u \in Threads : u # t => pc'[u] = pc[u]
               /\ ~n \/ Asleep(S) = {}
            \/ \E w \in Asleep(S) : /\ w # t /\ pc[w] = "asleep" /\ pc'[w] = "awake"
                                    /\ \A u \in Threads : u # t /\ u # w => pc'[u] = pc[u]
<1>1. CASE n /\ Asleep(S) # {}
  <2>1. PICK w \in Asleep(S) : pc' = [[pc EXCEPT ![t] = "out"] EXCEPT ![w] = "awake"]
    BY <1>1 DEF Leave
  <2>2. w \in Threads /\ pc[w] = "asleep" /\ w # t
    BY DEF Asleep
  <2> QED
    BY <2>1, <2>2 DEF Places
<1>2. CASE ~(n /\ Asleep(S) # {})
  BY <1>2 DEF Leave, Places
<1> QED
  BY <1>1, <1>2

(* The rings' sizes and positions, for the arithmetic below. *)
LEMMA RingFacts ==
  ASSUME IInv, NEW p \in Priorities
  PROVE  /\ Capacity[p] \in Nat /\ Capacity[p] > 0
         /\ datasize[p] \in Nat /\ putloc[p] \in Nat /\ getloc[p] \in Nat
         /\ datasize[p] <= Capacity[p]
         /\ putloc[p] < Capacity[p] /\ getloc[p] < Capacity[p]
         /\ waitingput[p] \in Int /\ waitingget \in Int
         /\ \A i \in 0..(Capacity[p] - 1) : <<p, i>> \in Slots
BY QueueAssumption DEF IInv, TypeOK, Slots

(* If the counters say that nobody waits, nobody sleeps. *)
LEMMA NobodySleeps ==
  ASSUME IInv
  PROVE  /\ waitingget = 0 => Asleep(Consumers) = {}
         /\ \A p \in Priorities : waitingput[p] = 0 => Asleep(Writers(p)) = {}
<1>1. waitingget = Cardinality(Waiting(Consumers))
      /\ \A p \in Priorities : waitingput[p] = Cardinality(Waiting(Writers(p)))
  BY DEF IInv, Counted, Waiting
<1>2. \A S : Waiting(S) = {} => Asleep(S) = {}
  BY DEF Waiting, Asleep
<1>3. \A p \in Priorities : Waiting(Writers(p)) \subseteq Producers
  BY Subsets
<1>4. Waiting(Consumers) \subseteq Consumers
  BY Subsets
<1> QED
  BY <1>1, <1>2, <1>3, <1>4, Finite

(* A thread inside PutQ writes to one ring, any other to none. *)
LEMMA WriterFacts ==
  ASSUME IInv, NEW t \in Producers
  PROVE  /\ pc[t] = "out" => \A p \in Priorities : t \notin Writers(p)
         /\ pc[t] # "out" => /\ call[t].prio \in Priorities /\ call[t].msg \in Message
                             /\ t \in Writers(call[t].prio)
                             /\ \A p \in Priorities : p # call[t].prio => t \notin Writers(p)
BY QueueAssumption DEF IInv, TypeOK, Busy, Writers, NoCall, Priorities

-----------------------------------------------------------------------------
(* Puts. *)

(* The message goes in the next free place, and a reader is notified. *)
LEMMA InsertInv ==
  ASSUME IInv, NEW t \in Producers, NEW m \in Message, NEW p \in Priorities, NEW n,
         \/ pc[t] = "out" /\ n = waitingput[p]
         \/ pc[t] = "awake" /\ call[t].prio = p /\ n = waitingput[p] - 1,
         ~IsFull(p), Insert(t, m, p, n), UNCHANGED <<waitingget, pdata>>
  PROVE  IInv'
<1>1. /\ putloc' = [putloc EXCEPT ![p] = Wrap(p, @ + 1)]
      /\ datasize' = [datasize EXCEPT ![p] = @ + 1]
      /\ waitingput' = [waitingput EXCEPT ![p] = n]
      /\ call' = [call EXCEPT ![t] = NoCall]
      /\ ppbuf' = [ppbuf EXCEPT ![<<p, putloc[p]>>] = m]
      /\ timed' = timed \ {t}
      /\ UNCHANGED <<getloc, waitingget, pdata>>
      /\ Leave(t, Consumers, waitingget # 0)
  BY DEF Insert, NotifyReader
<1>2. /\ pc' \in [Threads -> Places]
      /\ pc'[t] = "out" /\ t \in Threads
      /\ \A u \in Producers : u # t => pc'[u] = pc[u]
      /\ \/ /\ \A c \in Consumers : pc'[c] = pc[c]
            /\ Asleep(Consumers) = {}
         \/ \E w \in Consumers : /\ pc[w] = "asleep" /\ pc'[w] = "awake"
                                  /\ \A c \in Consumers : c # w => pc'[c] = pc[c]
  <2>1. pc \in [Threads -> Places] /\ t \in Threads /\ pc[t] # "asleep"
        /\ Consumers \in SUBSET Threads /\ (waitingget # 0) \in BOOLEAN
    BY Subsets DEF IInv, TypeOK
  <2>2. ~(waitingget # 0) => Asleep(Consumers) = {}
    BY NobodySleeps
  <2>3. \A c \in Consumers : c \in Threads /\ c # t
    BY Subsets, Apart
  <2>4. \A w \in Asleep(Consumers) : w \in Consumers /\ w \notin Producers
    BY Apart DEF Asleep
  <2>5. \A u \in Producers : u \in Threads
    BY Subsets
  <2> HIDE DEF IInv
  <2> QED
    BY <1>1, <2>1, <2>2, <2>3, <2>4, <2>5, LeaveFacts, ZenonT(30)
<1>3. datasize[p] < Capacity[p]
  BY RingFacts DEF IsFull
<1>4. \A q \in Priorities :
         /\ datasize'[q] = IF q = p THEN datasize[p] + 1 ELSE datasize[q]
         /\ putloc'[q] = IF q = p THEN Wrap(p, putloc[p] + 1) ELSE putloc[q]
         /\ getloc'[q] = getloc[q]
         /\ waitingput'[q] = IF q = p THEN n ELSE waitingput[q]
  BY <1>1 DEF IInv, TypeOK
<1>5. TypeOK'
  <2>1. ppbuf' \in [Slots -> Message \cup {NoMessage}]
    BY <1>1 DEF IInv, TypeOK
  <2>2. /\ datasize' \in [Priorities -> Nat] /\ putloc' \in [Priorities -> Nat]
        /\ getloc' \in [Priorities -> Nat] /\ waitingput' \in [Priorities -> Int]
    BY <1>1, RingFacts DEF IInv, TypeOK, Wrap
  <2>3. \A q \in Priorities : /\ datasize'[q] <= Capacity[q]
                               /\ putloc'[q] < Capacity[q] /\ getloc'[q] < Capacity[q]
    BY <1>3, <1>4, RingFacts DEF Wrap
  <2>4. call' \in [Producers -> [msg : Message, prio : Priorities] \cup {NoCall}]
    BY <1>1 DEF IInv, TypeOK
  <2> QED
    BY <1>1, <1>2, <2>1, <2>2, <2>3, <2>4 DEF IInv, TypeOK
<1>6. Rings'
  <2> SUFFICES ASSUME NEW q \in Priorities PROVE putloc'[q] = Place(q, datasize[q])'
    BY DEF Rings
  <2>1. putloc[q] = Place(q, datasize[q])
    BY DEF IInv, Rings
  <2>2. /\ Capacity[q] \in Nat /\ datasize[q] \in Nat /\ putloc[q] \in Nat /\ getloc[q] \in Nat
        /\ putloc[q] < Capacity[q] /\ getloc[q] < Capacity[q]
    BY RingFacts
  <2>3. CASE q # p
    BY <1>4, <2>1, <2>3 DEF Place
  <2>4. CASE q = p
    <3>1. /\ putloc'[q] = IF putloc[q] + 1 = Capacity[q] THEN 0 ELSE putloc[q] + 1
          /\ datasize'[q] = datasize[q] + 1 /\ getloc'[q] = getloc[q]
          /\ datasize[q] < Capacity[q]
      BY <1>3, <1>4, <2>4 DEF Wrap
    <3> QED
      BY <2>1, <2>2, <3>1 DEF Place
  <2> QED
    BY <2>3, <2>4
<1>7. /\ call'[t] = NoCall /\ \A u \in Producers : u # t => call'[u] = call[u]
  BY <1>1 DEF IInv, TypeOK
<1>8. Busy'
  BY <1>2, <1>7 DEF IInv, Busy
<1>9. /\ Writers(p)' = Writers(p) \ {t} /\ t \notin Writers(p)'
      /\ \A q \in Priorities : q # p => Writers(q)' = Writers(q) /\ t \notin Writers(q)
      /\ \A q \in Priorities : \A u \in Writers(q)' : pc'[u] = pc[u]
      /\ pc[t] = "out" => t \notin Writers(p)
      /\ pc[t] # "out" => t \in Writers(p)
  <2>1. \A q \in Priorities : t \notin Writers(q)'
    BY <1>7 DEF Writers, NoCall, Priorities
  <2>2. \A q \in Priorities : q # p => t \notin Writers(q)
    BY WriterFacts
  <2>3. \A q \in Priorities : Writers(q)' = Writers(q) \ {t}
    BY <1>7, <2>1 DEF Writers
  <2> QED
    BY <1>2, <2>1, <2>2, <2>3, WriterFacts DEF Writers
<1>10. Counted'
  <2>1. Waiting(Consumers)' = Waiting(Consumers)
    BY <1>2 DEF Waiting
  <2>2. \A q \in Priorities : q # p => Waiting(Writers(q))' = Waiting(Writers(q))
    BY <1>9 DEF Waiting
  <2>3. Waiting(Writers(p))' = Waiting(Writers(p)) \ {t}
    BY <1>9 DEF Waiting
  <2>4. n = Cardinality(Waiting(Writers(p))')
    <3>1. waitingput[p] = Cardinality(Waiting(Writers(p)))
      BY DEF IInv, Counted, Waiting
    <3>2. IsFiniteSet(Waiting(Writers(p)))
      BY Finite, Subsets
    <3>3. CASE pc[t] = "out"
      <4>1. Waiting(Writers(p))' = Waiting(Writers(p))
        BY <2>3, <3>3, <1>9 DEF Waiting
      <4> QED
        BY <3>1, <3>3, <4>1
    <3>4. CASE pc[t] = "awake"
      <4>1. t \in Waiting(Writers(p))
        BY <3>4, <1>9 DEF Waiting
      <4> QED
        BY <2>3, <3>1, <3>2, <3>4, <4>1, OneLess
    <3> QED
      BY <3>3, <3>4
  <2> QED
    BY <1>1, <1>4, <2>1, <2>2, <2>4, ZenonT(30) DEF IInv, Counted, Waiting
<1>11. ReadersWoken'
  <2> DEFINE total == datasize["high"] + datasize["medium"] + datasize["low"]
  <2>1. total' = total + 1 /\ total \in Nat
    BY <1>4, RingFacts DEF Priorities
  <2>2. CASE Asleep(Consumers)' = {}
    BY <2>2 DEF ReadersWoken
  <2>3. CASE Asleep(Consumers)' # {}
    <3>1. PICK w \in Consumers : /\ pc[w] = "asleep" /\ pc'[w] = "awake"
                                 /\ \A c \in Consumers : c # w => pc'[c] = pc[c]
      BY <1>2, <2>3 DEF Asleep
    <3>2. Awake(Consumers)' = Awake(Consumers) \cup {w} /\ w \notin Awake(Consumers)
      BY <3>1 DEF Awake
    <3>3. IsFiniteSet(Awake(Consumers)) /\ Cardinality(Awake(Consumers)) \in Nat
      BY Finite, Subsets
    <3>4. Cardinality(Awake(Consumers)') = Cardinality(Awake(Consumers)) + 1
      BY <3>2, <3>3, OneMore
    <3>5. total <= Cardinality(Awake(Consumers))
      BY <3>1 DEF IInv, ReadersWoken, Asleep
    <3>6. total' <= Cardinality(Awake(Consumers)')
      <4> HIDE DEF total
      <4> QED
        BY <2>1, <3>3, <3>4, <3>5
    <3> QED
      BY <3>6 DEF ReadersWoken
  <2> QED
    BY <2>2, <2>3
<1>12. WritersWoken'
  <2> SUFFICES ASSUME NEW q \in Priorities, Asleep(Writers(q))' # {}
               PROVE  Capacity[q] - datasize'[q] <= Cardinality(Awake(Writers(q))')
    BY DEF WritersWoken
  <2>1. Asleep(Writers(q)) # {}
    BY <1>9 DEF Asleep
  <2>2. Capacity[q] - datasize[q] <= Cardinality(Awake(Writers(q)))
    BY <2>1 DEF IInv, WritersWoken
  <2>3. IsFiniteSet(Awake(Writers(q))) /\ Cardinality(Awake(Writers(q))) \in Nat
    BY Finite, Subsets
  <2>4. CASE q # p
    <3>1. Awake(Writers(q))' = Awake(Writers(q))
      BY <1>9, <2>4 DEF Awake
    <3> QED
      BY <1>4, <2>2, <2>4, <3>1
  <2>5. CASE q = p
    <3>1. Awake(Writers(p))' = Awake(Writers(p)) \ {t}
      BY <1>9 DEF Awake
    <3>2. Cardinality(Awake(Writers(p))') >= Cardinality(Awake(Writers(p))) - 1
      <4>1. CASE t \in Awake(Writers(p))
        BY <2>3, <2>5, <3>1, <4>1, OneLess
      <4>2. CASE t \notin Awake(Writers(p))
        <5>1. Awake(Writers(p))' = Awake(Writers(p))
          BY <3>1, <4>2
        <5> QED
          BY <2>3, <2>5, <5>1
      <4> QED
        BY <4>1, <4>2
    <3>3. Cardinality(Awake(Writers(p))') \in Nat
      <4>1. Awake(Writers(p))' \subseteq Producers
        BY <3>1, Subsets
      <4> QED
        BY <4>1, Finite
    <3> QED
      BY <1>4, <2>2, <2>3, <2>5, <3>2, <3>3, RingFacts
  <2> QED
    BY <2>4, <2>5
<1> QED
  BY <1>5, <1>6, <1>8, <1>10, <1>11, <1>12 DEF IInv

(* A writer finds its ring full, and waits. *)
LEMMA WaitForPlaceInv ==
  ASSUME IInv, NEW t \in Producers, NEW m \in Message, NEW p \in Priorities, NEW n,
         NEW limited \in BOOLEAN,
         \/ pc[t] = "out" /\ n = waitingput[p]
         \/ pc[t] = "awake" /\ call[t].prio = p /\ n = waitingput[p] - 1,
         IsFull(p), WaitForPlace(t, m, p, n, limited), UNCHANGED <<waitingget, pdata>>
  PROVE  IInv'
<1>1. /\ waitingput' = [waitingput EXCEPT ![p] = n + 1]
      /\ pc' = [pc EXCEPT ![t] = "asleep"]
      /\ call' = [call EXCEPT ![t] = [msg |-> m, prio |-> p]]
      /\ timed' = IF limited THEN timed \cup {t} ELSE timed
      /\ UNCHANGED <<ppbuf, datasize, putloc, getloc, waitingget, pdata>>
  BY DEF WaitForPlace, rings
<1>2. /\ t \in Threads /\ pc'[t] = "asleep" /\ \A u \in Threads : u # t => pc'[u] = pc[u]
      /\ call'[t] = [msg |-> m, prio |-> p] /\ \A u \in Producers : u # t => call'[u] = call[u]
      /\ \A q \in Priorities : waitingput'[q] = IF q = p THEN n + 1 ELSE waitingput[q]
  BY <1>1, Subsets DEF IInv, TypeOK
<1>3. \A c \in Consumers : pc'[c] = pc[c]
  BY <1>2, Subsets, Apart
<1>4. TypeOK'
  <2>1. [msg |-> m, prio |-> p] \in [msg : Message, prio : Priorities]
    OBVIOUS
  <2>2. call' \in [Producers -> [msg : Message, prio : Priorities] \cup {NoCall}]
    BY <1>1, <2>1 DEF IInv, TypeOK
  <2>3. n + 1 \in Int
    BY RingFacts
  <2>4. waitingput' \in [Priorities -> Int]
    BY <1>1, <2>3 DEF IInv, TypeOK
  <2>5. pc' \in [Threads -> Places] /\ timed' \subseteq Threads
    BY <1>1, <1>2 DEF IInv, TypeOK, Places
  <2> QED
    BY <1>1, <2>2, <2>4, <2>5 DEF IInv, TypeOK
<1>5. Rings'
  BY <1>1 DEF IInv, Rings, Place
<1>6. Busy'
  <2>1. [msg |-> m, prio |-> p] # NoCall
    BY QueueAssumption DEF NoCall
  <2> QED
    BY <1>2, <2>1, Subsets DEF IInv, Busy
<1>7. /\ Writers(p)' = Writers(p) \cup {t}
      /\ \A q \in Priorities : q # p => Writers(q)' = Writers(q) /\ t \notin Writers(q)
      /\ pc[t] = "out" => t \notin Writers(p)
      /\ pc[t] # "out" => t \in Writers(p)
  <2>1. \A q \in Priorities : q # p => t \notin Writers(q) /\ t \notin Writers(q)'
    BY <1>2, WriterFacts DEF Writers
  <2>2. t \in Writers(p)'
    BY <1>2 DEF Writers
  <2>3. \A q \in Priorities : \A u \in Producers : u # t => (u \in Writers(q)' <=> u \in Writers(q))
    BY <1>2 DEF Writers
  <2> QED
    BY <2>1, <2>2, <2>3, WriterFacts DEF Writers
<1>8. Counted'
  <2>1. Waiting(Consumers)' = Waiting(Consumers)
    BY <1>3 DEF Waiting
  <2>2. \A q \in Priorities : q # p => Waiting(Writers(q))' = Waiting(Writers(q))
    BY <1>2, <1>7, Subsets DEF Waiting
  <2>3. Waiting(Writers(p))' = Waiting(Writers(p)) \cup {t}
    BY <1>2, <1>7, Subsets DEF Waiting
  <2>4. n + 1 = Cardinality(Waiting(Writers(p))')
    <3>1. waitingput[p] = Cardinality(Waiting(Writers(p))) /\ waitingput[p] \in Int
      BY RingFacts DEF IInv, Counted, Waiting
    <3>2. IsFiniteSet(Waiting(Writers(p)))
      BY Finite, Subsets
    <3>3. CASE pc[t] = "out"
      <4>1. t \notin Waiting(Writers(p))
        BY <3>3 DEF Waiting
      <4> QED
        BY <2>3, <3>1, <3>2, <3>3, <4>1, OneMore
    <3>4. CASE pc[t] = "awake"
      <4>1. Waiting(Writers(p))' = Waiting(Writers(p))
        BY <2>3, <3>4, <1>7 DEF Waiting
      <4> QED
        BY <3>1, <3>4, <4>1
    <3> QED
      BY <3>3, <3>4
  <2>5. waitingget' = Cardinality(Waiting(Consumers)')
    BY <1>1, <2>1 DEF IInv, Counted, Waiting
  <2>6. \A q \in Priorities : waitingput'[q] = Cardinality(Waiting(Writers(q))')
    <3> SUFFICES ASSUME NEW q \in Priorities
                 PROVE  waitingput'[q] = Cardinality(Waiting(Writers(q))')
      OBVIOUS
    <3>1. CASE q = p
      BY <1>2, <2>4, <3>1
    <3>2. CASE q # p
      BY <1>2, <2>2, <3>2 DEF IInv, Counted, Waiting
    <3> QED
      BY <3>1, <3>2
  <2> QED
    BY <2>5, <2>6 DEF Counted, Waiting
<1>9. ReadersWoken'
  <2>1. Asleep(Consumers)' = Asleep(Consumers) /\ Awake(Consumers)' = Awake(Consumers)
    BY <1>3 DEF Asleep, Awake
  <2> QED
    BY <1>1, <2>1 DEF IInv, ReadersWoken
<1>10. WritersWoken'
  <2> SUFFICES ASSUME NEW q \in Priorities, Asleep(Writers(q))' # {}
               PROVE  Capacity[q] - datasize'[q] <= Cardinality(Awake(Writers(q))')
    BY DEF WritersWoken
  <2>1. CASE q # p
    <3>1. Asleep(Writers(q))' = Asleep(Writers(q)) /\ Awake(Writers(q))' = Awake(Writers(q))
      BY <1>2, <1>7, <2>1, Subsets DEF Asleep, Awake
    <3> QED
      BY <1>1, <3>1 DEF IInv, WritersWoken
  <2>2. CASE q = p
    <3>1. Awake(Writers(q))' \subseteq Producers
      BY DEF Awake, Writers
    <3> QED
      BY <1>1, <2>2, <3>1, Finite, RingFacts DEF IsFull
  <2> QED
    BY <2>1, <2>2
<1> QED
  BY <1>4, <1>5, <1>6, <1>8, <1>9, <1>10 DEF IInv

-----------------------------------------------------------------------------
(* Gets. *)

(* The first ring with data gives its oldest message. *)
LEMMA RemoveInv ==
  ASSUME IInv, NEW c \in Consumers, NEW p \in Priorities, NEW n,
         \/ pc[c] = "out" /\ n = waitingget
         \/ pc[c] = "awake" /\ n = waitingget - 1,
         ~IsEmpty(p), Remove(c, p, n), UNCHANGED <<waitingput, call>>
  PROVE  IInv'
<1>1. /\ pdata' = [pdata EXCEPT ![c] = ppbuf[<<p, getloc[p]>>]]
      /\ getloc' = [getloc EXCEPT ![p] = Wrap(p, @ + 1)]
      /\ datasize' = [datasize EXCEPT ![p] = @ - 1]
      /\ waitingget' = n
      /\ timed' = timed \ {c}
      /\ UNCHANGED <<ppbuf, putloc, waitingput, call>>
      /\ Leave(c, Writers(p), waitingput[p] # 0)
  BY DEF Remove, NotifyWriter
<1>2. /\ pc' \in [Threads -> Places]
      /\ pc'[c] = "out" /\ c \in Threads
      /\ \A u \in Consumers : u # c => pc'[u] = pc[u]
      /\ \/ /\ \A t \in Producers : pc'[t] = pc[t]
            /\ Asleep(Writers(p)) = {}
         \/ \E w \in Writers(p) : /\ pc[w] = "asleep" /\ pc'[w] = "awake"
                                   /\ \A t \in Producers : t # w => pc'[t] = pc[t]
  <2>1. pc \in [Threads -> Places] /\ c \in Threads /\ pc[c] # "asleep"
        /\ Writers(p) \in SUBSET Threads /\ (waitingput[p] # 0) \in BOOLEAN
    BY Subsets DEF IInv, TypeOK
  <2>2. ~(waitingput[p] # 0) => Asleep(Writers(p)) = {}
    BY NobodySleeps
  <2>3. \A t \in Producers : t \in Threads /\ t # c
    BY Subsets, Apart
  <2>4. \A w \in Asleep(Writers(p)) : w \in Writers(p) /\ w \notin Consumers
    BY Subsets, Apart DEF Asleep
  <2>5. \A u \in Consumers : u \in Threads
    BY Subsets
  <2> HIDE DEF IInv
  <2> QED
    BY <1>1, <2>1, <2>2, <2>3, <2>4, <2>5, LeaveFacts, ZenonT(30)
<1>3. datasize[p] > 0
  BY RingFacts DEF IsEmpty
<1>4. \A q \in Priorities :
         /\ datasize'[q] = IF q = p THEN datasize[p] - 1 ELSE datasize[q]
         /\ getloc'[q] = IF q = p THEN Wrap(p, getloc[p] + 1) ELSE getloc[q]
         /\ putloc'[q] = putloc[q]
         /\ waitingput'[q] = waitingput[q]
         /\ Writers(q)' = Writers(q)
  BY <1>1 DEF IInv, TypeOK, Writers
<1>5. TypeOK'
  <2>1. ppbuf[<<p, getloc[p]>>] \in Message \cup {NoMessage}
    BY RingFacts DEF IInv, TypeOK
  <2>2. pdata' \in [Consumers -> Message \cup {NoMessage}]
    BY <1>1, <2>1 DEF IInv, TypeOK
  <2>3. /\ datasize' \in [Priorities -> Nat] /\ putloc' \in [Priorities -> Nat]
        /\ getloc' \in [Priorities -> Nat] /\ n \in Int
    BY <1>1, <1>3, RingFacts DEF IInv, TypeOK, Wrap
  <2>4. \A q \in Priorities : /\ datasize'[q] <= Capacity[q]
                               /\ putloc'[q] < Capacity[q] /\ getloc'[q] < Capacity[q]
    BY <1>3, <1>4, RingFacts DEF Wrap
  <2> QED
    BY <1>1, <1>2, <2>2, <2>3, <2>4 DEF IInv, TypeOK
<1>6. Rings'
  <2> SUFFICES ASSUME NEW q \in Priorities PROVE putloc'[q] = Place(q, datasize[q])'
    BY DEF Rings
  <2>1. putloc[q] = Place(q, datasize[q])
    BY DEF IInv, Rings
  <2>2. /\ Capacity[q] \in Nat /\ datasize[q] \in Nat /\ putloc[q] \in Nat /\ getloc[q] \in Nat
        /\ putloc[q] < Capacity[q] /\ getloc[q] < Capacity[q] /\ datasize[q] <= Capacity[q]
    BY RingFacts
  <2>3. CASE q # p
    BY <1>4, <2>1, <2>3 DEF Place
  <2>4. CASE q = p
    <3>1. /\ getloc'[q] = IF getloc[q] + 1 = Capacity[q] THEN 0 ELSE getloc[q] + 1
          /\ datasize'[q] = datasize[q] - 1 /\ putloc'[q] = putloc[q]
          /\ datasize[q] > 0
      BY <1>3, <1>4, <2>4 DEF Wrap
    <3> QED
      BY <2>1, <2>2, <3>1 DEF Place
  <2> QED
    BY <2>3, <2>4
<1>7. Busy'
  BY <1>1, <1>2, Subsets DEF IInv, Busy, Writers
<1>8. Counted'
  <2>1. \A q \in Priorities : Waiting(Writers(q))' = Waiting(Writers(q))
    BY <1>2, <1>4, Subsets DEF Waiting
  <2>2. Waiting(Consumers)' = Waiting(Consumers) \ {c}
    BY <1>2 DEF Waiting
  <2>3. n = Cardinality(Waiting(Consumers)')
    <3>1. waitingget = Cardinality(Waiting(Consumers))
      BY DEF IInv, Counted, Waiting
    <3>2. IsFiniteSet(Waiting(Consumers))
      BY Finite, Subsets
    <3>3. CASE pc[c] = "out"
      <4>1. Waiting(Consumers)' = Waiting(Consumers)
        BY <2>2, <3>3 DEF Waiting
      <4> QED
        BY <3>1, <3>3, <4>1
    <3>4. CASE pc[c] = "awake"
      <4>1. c \in Waiting(Consumers)
        BY <3>4 DEF Waiting
      <4> QED
        BY <2>2, <3>1, <3>2, <3>4, <4>1, OneLess
    <3> QED
      BY <3>3, <3>4
  <2> QED
    BY <1>1, <1>4, <2>1, <2>3 DEF IInv, Counted, Waiting
<1>9. ReadersWoken'
  <2> DEFINE total == datasize["high"] + datasize["medium"] + datasize["low"]
  <2> SUFFICES ASSUME Asleep(Consumers)' # {} PROVE total' <= Cardinality(Awake(Consumers)')
    BY DEF ReadersWoken
  <2>1. total' = total - 1 /\ total \in Nat
    BY <1>4, RingFacts DEF Priorities
  <2>2. Asleep(Consumers) # {}
    BY <1>2 DEF Asleep
  <2>3. total <= Cardinality(Awake(Consumers))
    BY <2>2 DEF IInv, ReadersWoken
  <2>4. Awake(Consumers)' = Awake(Consumers) \ {c}
    BY <1>2 DEF Awake
  <2>5. IsFiniteSet(Awake(Consumers)) /\ Cardinality(Awake(Consumers)) \in Nat
    BY Finite, Subsets
  <2>6. Cardinality(Awake(Consumers)') >= Cardinality(Awake(Consumers)) - 1
        /\ Cardinality(Awake(Consumers)') \in Nat
    <3>1. CASE c \in Awake(Consumers)
      <4>1. Cardinality(Awake(Consumers)') = Cardinality(Awake(Consumers)) - 1
        BY <2>4, <2>5, <3>1, OneLess
      <4>2. Awake(Consumers)' \subseteq Consumers
        BY DEF Awake
      <4> QED
        BY <2>5, <4>1, <4>2, Finite
    <3>2. CASE c \notin Awake(Consumers)
      <4>1. Awake(Consumers)' = Awake(Consumers)
        BY <2>4, <3>2
      <4> QED
        BY <2>5, <4>1
    <3> QED
      BY <3>1, <3>2
  <2> HIDE DEF total
  <2> QED
    BY <2>1, <2>3, <2>5, <2>6
<1>10. WritersWoken'
  <2> SUFFICES ASSUME NEW q \in Priorities, Asleep(Writers(q))' # {}
               PROVE  Capacity[q] - datasize'[q] <= Cardinality(Awake(Writers(q))')
    BY DEF WritersWoken
  <2>1. Asleep(Writers(q)) # {}
    BY <1>2, <1>4, Subsets DEF Asleep
  <2>2. Capacity[q] - datasize[q] <= Cardinality(Awake(Writers(q)))
    BY <2>1 DEF IInv, WritersWoken
  <2>3. IsFiniteSet(Awake(Writers(q))) /\ Cardinality(Awake(Writers(q))) \in Nat
    BY Finite, Subsets
  <2>4. CASE q # p
    <3>1. Awake(Writers(q))' = Awake(Writers(q))
      BY <1>2, <1>4, <2>4, Subsets DEF Awake, Writers
    <3> QED
      BY <1>4, <2>2, <2>4, <3>1
  <2>5. CASE q = p
    <3>1. PICK w \in Writers(p) : /\ pc[w] = "asleep" /\ pc'[w] = "awake"
                                  /\ \A t \in Producers : t # w => pc'[t] = pc[t]
      BY <1>2, <2>1, <2>5
    <3>2. Awake(Writers(p))' = Awake(Writers(p)) \cup {w} /\ w \notin Awake(Writers(p))
      BY <1>4, <3>1, Subsets DEF Awake
    <3>3. Cardinality(Awake(Writers(p))') = Cardinality(Awake(Writers(p))) + 1
      BY <2>3, <2>5, <3>2, OneMore
    <3> QED
      BY <1>4, <2>2, <2>3, <2>5, <3>3, RingFacts
  <2> QED
    BY <2>4, <2>5
<1> QED
  BY <1>5, <1>6, <1>7, <1>8, <1>9, <1>10 DEF IInv

(* A step that takes thread x from one place to another, and no message. *)
Moves(x, to) ==
  /\ x \in Threads
  /\ pc' = [pc EXCEPT ![x] = to]
  /\ UNCHANGED rings

(* Such a step leaves the rings, and the threads it does not move, as they were. *)
LEMMA MovesFacts ==
  ASSUME IInv, NEW x, NEW to \in Places, Moves(x, to)
  PROVE  /\ pc' \in [Threads -> Places] /\ pc'[x] = to
         /\ \A u \in Threads : u # x => pc'[u] = pc[u]
         /\ UNCHANGED <<ppbuf, datasize, putloc, getloc>>
         /\ Rings'
BY DEF IInv, TypeOK, Moves, Rings, Place, rings

(* All rings are empty: a reader waits. *)
LEMMA WaitForMessageInv ==
  ASSUME IInv, NEW c \in Consumers, NEW n, NEW limited \in BOOLEAN,
         \/ pc[c] = "out" /\ n = waitingget
         \/ pc[c] = "awake" /\ n = waitingget - 1,
         \A p \in Priorities : IsEmpty(p),
         WaitForMessage(c, n, limited), UNCHANGED <<waitingput, call>>
  PROVE  IInv'
<1>1. /\ waitingget' = n + 1 /\ Moves(c, "asleep") /\ "asleep" \in Places
      /\ pdata' = [pdata EXCEPT ![c] = NoMessage]
      /\ timed' = IF limited THEN timed \cup {c} ELSE timed
      /\ UNCHANGED <<waitingput, call>>
  BY Subsets DEF WaitForMessage, Moves, Places
<1>2. /\ pc' \in [Threads -> Places] /\ pc'[c] = "asleep" /\ c \in Threads
      /\ \A u \in Consumers : u # c => pc'[u] = pc[u]
      /\ \A t \in Producers : pc'[t] = pc[t]
      /\ UNCHANGED <<ppbuf, datasize, putloc, getloc>>
      /\ Rings'
  BY <1>1, MovesFacts, Subsets, Apart
<1>3. TypeOK'
  <2>1. waitingget' \in Int /\ timed' \subseteq Threads
    BY <1>1, <1>2, RingFacts DEF IInv, TypeOK
  <2> QED
    BY <1>1, <1>2, <2>1 DEF IInv, TypeOK
<1>4. \A p \in Priorities : Writers(p)' = Writers(p)
  BY <1>1 DEF Writers
<1>5. Busy'
  BY <1>1, <1>2 DEF IInv, Busy
<1>6. Counted'
  <2>1. \A p \in Priorities : Waiting(Writers(p))' = Waiting(Writers(p))
    BY <1>2, <1>4, Subsets DEF Waiting
  <2>2. Waiting(Consumers)' = Waiting(Consumers) \cup {c}
    BY <1>2 DEF Waiting
  <2>3. n + 1 = Cardinality(Waiting(Consumers)')
    <3>1. waitingget = Cardinality(Waiting(Consumers)) /\ waitingget \in Int
      BY DEF IInv, Counted, Waiting, TypeOK
    <3>2. IsFiniteSet(Waiting(Consumers))
      BY Finite, Subsets
    <3>3. CASE pc[c] = "out"
      <4>1. c \notin Waiting(Consumers)
        BY <3>3 DEF Waiting
      <4> QED
        BY <2>2, <3>1, <3>2, <3>3, <4>1, OneMore
    <3>4. CASE pc[c] = "awake"
      <4>1. Waiting(Consumers)' = Waiting(Consumers)
        BY <2>2, <3>4 DEF Waiting
      <4> QED
        BY <3>1, <3>4, <4>1
    <3> QED
      BY <3>3, <3>4
  <2> QED
    BY <1>1, <2>1, <2>3 DEF IInv, Counted, Waiting
<1>7. ReadersWoken'
  <2>1. datasize'["high"] + datasize'["medium"] + datasize'["low"] = 0
    BY <1>2, RingFacts DEF IsEmpty, Priorities
  <2>2. Awake(Consumers)' \subseteq Consumers
    BY DEF Awake
  <2> QED
    BY <2>1, <2>2, Finite DEF ReadersWoken
<1>8. WritersWoken'
  <2>1. \A p \in Priorities : /\ Asleep(Writers(p))' = Asleep(Writers(p))
                               /\ Awake(Writers(p))' = Awake(Writers(p))
    BY <1>2, <1>4, Subsets DEF Asleep, Awake
  <2> QED
    BY <1>2, <2>1 DEF IInv, WritersWoken
<1> QED
  BY <1>2, <1>3, <1>5, <1>6, <1>7, <1>8 DEF IInv

-----------------------------------------------------------------------------
(* Waits that end. *)

(* PutQ gives up. *)
LEMMA PutTimesOutInv ==
  ASSUME IInv, NEW t \in Producers, PutTimesOut(t)
  PROVE  IInv'
<1> DEFINE p == call[t].prio
<1>1. /\ pc[t] = "late" /\ Moves(t, "out") /\ "out" \in Places
      /\ waitingput' = [waitingput EXCEPT ![p] = @ - 1]
      /\ call' = [call EXCEPT ![t] = NoCall] /\ timed' = timed \ {t}
      /\ UNCHANGED <<waitingget, pdata>>
  BY Subsets DEF PutTimesOut, Moves, Places
<1>2. /\ pc' \in [Threads -> Places] /\ pc'[t] = "out"
      /\ \A u \in Producers : u # t => pc'[u] = pc[u]
      /\ \A c \in Consumers : pc'[c] = pc[c]
      /\ UNCHANGED <<ppbuf, datasize, putloc, getloc>>
      /\ Rings'
  BY <1>1, MovesFacts, Subsets, Apart
<1>3. p \in Priorities /\ t \in Writers(p)
      /\ \A q \in Priorities : q # p => t \notin Writers(q)
  BY <1>1, WriterFacts
<1> HIDE DEF p
<1>4. call'[t] = NoCall /\ \A u \in Producers : u # t => call'[u] = call[u]
  BY <1>1 DEF IInv, TypeOK
<1>5. \A q \in Priorities : /\ Writers(q)' = Writers(q) \ {t}
                             /\ waitingput'[q] = IF q = p THEN waitingput[p] - 1 ELSE waitingput[q]
  BY <1>1, <1>3, <1>4 DEF IInv, TypeOK, Writers, NoCall, Priorities
<1>6. TypeOK'
  <2>1. call' \in [Producers -> [msg : Message, prio : Priorities] \cup {NoCall}]
    BY <1>1 DEF IInv, TypeOK
  <2>2. waitingput' \in [Priorities -> Int]
    BY <1>1, <1>3, RingFacts DEF IInv, TypeOK
  <2> QED
    BY <1>1, <1>2, <2>1, <2>2 DEF IInv, TypeOK
<1>7. Busy'
  BY <1>2, <1>4 DEF IInv, Busy
<1>8. Counted'
  <2>1. Waiting(Consumers)' = Waiting(Consumers)
    BY <1>2 DEF Waiting
  <2>2. waitingget' = Cardinality(Waiting(Consumers)')
    BY <1>1, <2>1 DEF IInv, Counted, Waiting
  <2>3. \A q \in Priorities : waitingput'[q] = Cardinality(Waiting(Writers(q))')
    <3> SUFFICES ASSUME NEW q \in Priorities
                 PROVE  waitingput'[q] = Cardinality(Waiting(Writers(q))')
      OBVIOUS
    <3>1. waitingput[q] = Cardinality(Waiting(Writers(q)))
      BY DEF IInv, Counted, Waiting
    <3>2. IsFiniteSet(Waiting(Writers(q)))
      BY Finite, Subsets
    <3>3. Waiting(Writers(q))' = Waiting(Writers(q)) \ {t}
      BY <1>2, <1>5, Subsets DEF Waiting
    <3>4. CASE q = p
      <4>1. t \in Waiting(Writers(p))
        BY <1>1, <1>3 DEF Waiting
      <4> QED
        BY <1>5, <3>1, <3>2, <3>3, <3>4, <4>1, OneLess
    <3>5. CASE q # p
      <4>1. Waiting(Writers(q))' = Waiting(Writers(q))
        BY <1>3, <3>3, <3>5 DEF Waiting
      <4> QED
        BY <1>5, <3>1, <3>5, <4>1
    <3> QED
      BY <3>4, <3>5
  <2> QED
    BY <2>2, <2>3 DEF Counted, Waiting
<1>9. ReadersWoken'
  <2>1. Asleep(Consumers)' = Asleep(Consumers) /\ Awake(Consumers)' = Awake(Consumers)
    BY <1>2 DEF Asleep, Awake
  <2> QED
    BY <1>2, <2>1 DEF IInv, ReadersWoken
<1>10. WritersWoken'
  <2>1. \A q \in Priorities : /\ Asleep(Writers(q))' = Asleep(Writers(q))
                               /\ Awake(Writers(q))' = Awake(Writers(q))
    BY <1>1, <1>2, <1>5, Subsets DEF Asleep, Awake
  <2> QED
    BY <1>2, <2>1 DEF IInv, WritersWoken
<1> QED
  BY <1>2, <1>6, <1>7, <1>8, <1>9, <1>10 DEF IInv

(* GetQ gives up. *)
LEMMA GetTimesOutInv ==
  ASSUME IInv, NEW c \in Consumers, GetTimesOut(c)
  PROVE  IInv'
<1>1. /\ pc[c] = "late" /\ Moves(c, "out") /\ "out" \in Places
      /\ waitingget' = waitingget - 1 /\ timed' = timed \ {c}
      /\ UNCHANGED <<waitingput, call, pdata>>
  BY Subsets DEF GetTimesOut, Moves, Places
<1>2. /\ pc' \in [Threads -> Places] /\ pc'[c] = "out"
      /\ \A u \in Consumers : u # c => pc'[u] = pc[u]
      /\ \A t \in Producers : pc'[t] = pc[t]
      /\ UNCHANGED <<ppbuf, datasize, putloc, getloc>>
      /\ Rings'
  BY <1>1, MovesFacts, Subsets, Apart
<1>3. TypeOK'
  BY <1>1, <1>2 DEF IInv, TypeOK
<1>4. \A p \in Priorities : Writers(p)' = Writers(p)
  BY <1>1 DEF Writers
<1>5. Busy'
  BY <1>1, <1>2 DEF IInv, Busy
<1>6. Counted'
  <2>1. \A p \in Priorities : Waiting(Writers(p))' = Waiting(Writers(p))
    BY <1>2, <1>4, Subsets DEF Waiting
  <2>2. Waiting(Consumers)' = Waiting(Consumers) \ {c} /\ c \in Waiting(Consumers)
    BY <1>1, <1>2 DEF Waiting
  <2>3. waitingget - 1 = Cardinality(Waiting(Consumers)')
    <3>1. waitingget = Cardinality(Waiting(Consumers)) /\ IsFiniteSet(Waiting(Consumers))
      BY Finite, Subsets DEF IInv, Counted, Waiting
    <3> QED
      BY <2>2, <3>1, OneLess
  <2> QED
    BY <1>1, <2>1, <2>3 DEF IInv, Counted, Waiting
<1>7. ReadersWoken'
  <2>1. Asleep(Consumers)' = Asleep(Consumers) /\ Awake(Consumers)' = Awake(Consumers)
    BY <1>1, <1>2 DEF Asleep, Awake
  <2> QED
    BY <1>2, <2>1 DEF IInv, ReadersWoken
<1>8. WritersWoken'
  <2>1. \A p \in Priorities : /\ Asleep(Writers(p))' = Asleep(Writers(p))
                               /\ Awake(Writers(p))' = Awake(Writers(p))
    BY <1>2, <1>4, Subsets DEF Asleep, Awake
  <2> QED
    BY <1>2, <2>1 DEF IInv, WritersWoken
<1> QED
  BY <1>2, <1>3, <1>5, <1>6, <1>7, <1>8 DEF IInv

(* A thread's time runs out, or it wakes for nothing: it no longer sleeps. *)
LEMMA StopsSleepingInv ==
  ASSUME IInv, NEW x \in Threads, TimeRunsOut(x) \/ WakesForNothing(x)
  PROVE  IInv'
<1>1. PICK to \in {"late", "awake"} :
        /\ pc[x] = "asleep" /\ Moves(x, to) /\ to \in Places
        /\ UNCHANGED <<waitingput, waitingget, timed, call, pdata>>
  BY DEF TimeRunsOut, WakesForNothing, Moves, Places
<1>2. /\ pc' \in [Threads -> Places] /\ pc'[x] = to
      /\ \A u \in Threads : u # x => pc'[u] = pc[u]
      /\ UNCHANGED <<ppbuf, datasize, putloc, getloc>>
      /\ Rings'
  BY <1>1, MovesFacts
<1>3. TypeOK'
  BY <1>1, <1>2 DEF IInv, TypeOK
<1>4. \A p \in Priorities : Writers(p)' = Writers(p)
  BY <1>1 DEF Writers
<1>5. Busy'
  BY <1>1, <1>2, Subsets DEF IInv, Busy
<1>6. \A S \in SUBSET Threads : Waiting(S) = {u \in S : pc'[u] # "out"}
                              /\ {u \in S : pc'[u] = "asleep"} \subseteq Asleep(S)
                              /\ Awake(S) \subseteq {u \in S : pc'[u] = "awake"}
  BY <1>1, <1>2 DEF Waiting, Asleep, Awake
<1>7. Consumers \in SUBSET Threads /\ \A p \in Priorities : Writers(p) \in SUBSET Threads
  BY Subsets
<1>8. Counted'
  <2>1. waitingget = Cardinality(Waiting(Consumers))
        /\ \A p \in Priorities : waitingput[p] = Cardinality(Waiting(Writers(p)))
    BY DEF IInv, Counted, Waiting
  <2> QED
    BY <1>1, <1>4, <1>6, <1>7, <2>1 DEF Counted
<1>9. ReadersWoken'
  <2>1. Asleep(Consumers)' \subseteq Asleep(Consumers) /\ Awake(Consumers) \subseteq Awake(Consumers)'
        /\ Awake(Consumers)' \subseteq Consumers
    BY <1>6, <1>7 DEF Asleep, Awake
  <2>2. /\ Cardinality(Awake(Consumers)) \in Nat /\ Cardinality(Awake(Consumers)') \in Nat
        /\ Cardinality(Awake(Consumers)) <= Cardinality(Awake(Consumers)')
    BY <2>1, Finite, FS_Subset
  <2>3. datasize["high"] \in Nat /\ datasize["medium"] \in Nat /\ datasize["low"] \in Nat
    BY RingFacts DEF Priorities
  <2>4. Asleep(Consumers) # {} =>
          datasize["high"] + datasize["medium"] + datasize["low"] <= Cardinality(Awake(Consumers))
    BY DEF IInv, ReadersWoken
  <2> QED
    BY <1>2, <2>1, <2>2, <2>3, <2>4 DEF ReadersWoken
<1>10. WritersWoken'
  <2> SUFFICES ASSUME NEW p \in Priorities, Asleep(Writers(p))' # {}
               PROVE  Capacity[p] - datasize'[p] <= Cardinality(Awake(Writers(p))')
    BY DEF WritersWoken
  <2>1. Asleep(Writers(p))' \subseteq Asleep(Writers(p)) /\ Awake(Writers(p)) \subseteq Awake(Writers(p))'
        /\ Awake(Writers(p))' \subseteq Producers
    BY <1>4, <1>6, <1>7, Subsets DEF Asleep, Awake
  <2>2. /\ Cardinality(Awake(Writers(p))) \in Nat /\ Cardinality(Awake(Writers(p))') \in Nat
        /\ Cardinality(Awake(Writers(p))) <= Cardinality(Awake(Writers(p))')
    BY <2>1, Finite, FS_Subset
  <2>3. Capacity[p] - datasize[p] <= Cardinality(Awake(Writers(p)))
    BY <2>1 DEF IInv, WritersWoken
  <2> QED
    BY <1>2, <2>2, <2>3, RingFacts
<1> QED
  BY <1>2, <1>3, <1>5, <1>8, <1>9, <1>10 DEF IInv

-----------------------------------------------------------------------------
(* The invariants. *)

(* The queue starts empty, with no thread inside. *)
LEMMA InitInv == Init => IInv
<1> SUFFICES ASSUME Init PROVE IInv
  OBVIOUS
<1>1. TypeOK
  BY QueueAssumption DEF Init, TypeOK, Places
<1>2. Rings
  BY QueueAssumption DEF Init, Rings, Place
<1>3. Busy
  BY Subsets DEF Init, Busy
<1>4. /\ Waiting(Consumers) = {} /\ Asleep(Consumers) = {}
      /\ \A p \in Priorities : Waiting(Writers(p)) = {} /\ Asleep(Writers(p)) = {}
  BY Subsets DEF Init, Waiting, Asleep
<1>5. Counted
  BY <1>4, FS_EmptySet DEF Init, Counted, Waiting
<1>6. ReadersWoken /\ WritersWoken
  BY <1>4 DEF ReadersWoken, WritersWoken
<1> QED
  BY <1>1, <1>2, <1>3, <1>5, <1>6 DEF IInv

(* A step of PutQ, from the start or woken. *)
LEMMA PutInv ==
  ASSUME IInv, NEW t \in Producers,
         (\E m \in Message, p \in Priorities, limited \in BOOLEAN : PutQ(t, m, p, limited))
           \/ PutAgain(t)
  PROVE  IInv'
<1>1. CASE \E m \in Message, p \in Priorities, limited \in BOOLEAN : PutQ(t, m, p, limited)
  BY <1>1, InsertInv, WaitForPlaceInv DEF PutQ, PutLoop
<1>2. CASE PutAgain(t)
  <2>1. call[t].prio \in Priorities /\ call[t].msg \in Message
    BY <1>2, WriterFacts DEF PutAgain
  <2>2. (t \in timed) \in BOOLEAN
    OBVIOUS
  <2> QED
    BY <1>2, <2>1, <2>2, InsertInv, WaitForPlaceInv DEF PutAgain, PutLoop
<1> QED
  BY <1>1, <1>2

(* A step of GetQ, from the start or woken. *)
LEMMA GetInv ==
  ASSUME IInv, NEW c \in Consumers, (\E limited \in BOOLEAN : GetQ(c, limited)) \/ GetAgain(c)
  PROVE  IInv'
<1>1. CASE \E limited \in BOOLEAN : GetQ(c, limited)
  BY <1>1, RemoveInv, WaitForMessageInv DEF GetQ, GetLoop, FirstWithData
<1>2. CASE GetAgain(c)
  <2>1. (c \in timed) \in BOOLEAN
    OBVIOUS
  <2> QED
    BY <1>2, <2>1, RemoveInv, WaitForMessageInv DEF GetAgain, GetLoop, FirstWithData
<1> QED
  BY <1>1, <1>2

(* A step that changes nothing keeps it. *)
LEMMA StutterInv ==
  ASSUME IInv, UNCHANGED vars
  PROVE  IInv'
<1>1. UNCHANGED <<ppbuf, datasize, putloc, getloc, waitingput, waitingget, pc, timed, call, pdata>>
  BY DEF vars, rings
<1> QED
  BY <1>1 DEF IInv, TypeOK, Rings, Place, Busy, Counted, Writers, ReadersWoken, WritersWoken,
              Asleep, Awake

(* The rings, the counters and the places of the threads agree in every behaviour. *)
THEOREM Inductive == Spec => []IInv
<1>1. IInv /\ [Next]_vars => IInv'
  <2> SUFFICES ASSUME IInv, [Next]_vars PROVE IInv'
    OBVIOUS
  <2>1. ASSUME NEW t \in Producers,
               \/ \E m \in Message, p \in Priorities, limited \in BOOLEAN : PutQ(t, m, p, limited)
               \/ PutAgain(t) \/ PutTimesOut(t)
        PROVE  IInv'
    BY <2>1, PutInv, PutTimesOutInv
  <2>2. ASSUME NEW c \in Consumers,
               \/ \E limited \in BOOLEAN : GetQ(c, limited)
               \/ GetAgain(c) \/ GetTimesOut(c)
        PROVE  IInv'
    BY <2>2, GetInv, GetTimesOutInv
  <2>3. ASSUME NEW x \in Threads, TimeRunsOut(x) \/ WakesForNothing(x) PROVE IInv'
    BY <2>3, StopsSleepingInv
  <2>4. CASE UNCHANGED vars
    BY <2>4, StutterInv
  <2> QED
    BY <2>1, <2>2, <2>3, <2>4 DEF Next
<1> QED
  BY <1>1, InitInv, PTL DEF Spec

(* The variables keep their types, and the positions stay inside the rings. *)
THEOREM TypeCorrect == Spec => []TypeOK
<1>1. IInv => TypeOK
  BY DEF IInv
<1> QED
  BY <1>1, Inductive, PTL

(* The counters are the numbers of threads inside a wait. *)
THEOREM CountersAreRight == Spec => []Counted
<1>1. IInv => Counted
  BY DEF IInv
<1> QED
  BY <1>1, Inductive, PTL

(* No reader sleeps beside a message nobody else has been woken for. *)
THEOREM NoReaderForgotten == Spec => []ReadersWoken
<1>1. IInv => ReadersWoken
  BY DEF IInv
<1> QED
  BY <1>1, Inductive, PTL

(* No writer sleeps beside a free place of its ring nobody else has been woken for. *)
THEOREM NoWriterForgotten == Spec => []WritersWoken
<1>1. IInv => WritersWoken
  BY DEF IInv
<1> QED
  BY <1>1, Inductive, PTL

-----------------------------------------------------------------------------
(* The rings implement the queue. *)

(* What a ring holds is a sequence, as long as the ring's size says. *)
LEMMA QueueFacts ==
  ASSUME IInv, NEW p \in Priorities
  PROVE  /\ QueueOf(p) \in Seq(Message \cup {NoMessage})
         /\ Len(QueueOf(p)) = datasize[p]
         /\ \A i \in 1..datasize[p] : QueueOf(p)[i] = ppbuf[<<p, Place(p, i - 1)>>]
         /\ \A i \in 1..datasize[p] : Place(p, i - 1) \in 0..(Capacity[p] - 1)
         /\ QueueOf(p) = <<>> <=> datasize[p] = 0
<1>1. \A i \in 1..datasize[p] : Place(p, i - 1) \in 0..(Capacity[p] - 1)
  BY RingFacts DEF Place
<1>2. \A i \in 1..datasize[p] : <<p, Place(p, i - 1)>> \in Slots
  BY <1>1, RingFacts
<1>3. \A i \in 1..datasize[p] : ppbuf[<<p, Place(p, i - 1)>>] \in Message \cup {NoMessage}
  BY <1>2 DEF IInv, TypeOK
<1>4. /\ QueueOf(p) \in [1..datasize[p] -> Message \cup {NoMessage}]
      /\ \A i \in 1..datasize[p] : QueueOf(p)[i] = ppbuf[<<p, Place(p, i - 1)>>]
  BY <1>3 DEF QueueOf
<1>5. datasize[p] \in Nat
  BY RingFacts
<1>6. QueueOf(p) \in Seq(Message \cup {NoMessage}) /\ Len(QueueOf(p)) = datasize[p]
  <2> DEFINE q == QueueOf(p)
  <2>1. q \in [1..datasize[p] -> Message \cup {NoMessage}]
    BY <1>4
  <2> HIDE DEF q
  <2>2. q \in Seq(Message \cup {NoMessage}) /\ Len(q) = datasize[p]
    BY <1>5, <2>1
  <2> QED
    BY <2>2 DEF q
<1> QED
  BY <1>1, <1>4, <1>5, <1>6, EmptySeq

(* A step that leaves a ring alone leaves what it holds. *)
LEMMA SameQueue ==
  ASSUME IInv, NEW p \in Priorities, datasize'[p] = datasize[p], getloc'[p] = getloc[p],
         \A i \in 0..(Capacity[p] - 1) : ppbuf'[<<p, i>>] = ppbuf[<<p, i>>]
  PROVE  QueueOf(p)' = QueueOf(p)
<1>1. \A i \in 1..datasize[p] : Place(p, i - 1)' = Place(p, i - 1)
  BY DEF Place
<1>2. \A i \in 1..datasize[p] : ppbuf'[<<p, Place(p, i - 1)'>>] = ppbuf[<<p, Place(p, i - 1)>>]
  BY <1>1, QueueFacts
<1> QED
  BY <1>2 DEF QueueOf

(* To insert a message is to append it to what the ring holds. *)
LEMMA InsertQueue ==
  ASSUME IInv, NEW t \in Producers, NEW m \in Message, NEW p \in Priorities, NEW n,
         ~IsFull(p), Insert(t, m, p, n)
  PROVE  /\ QueueOf(p)' = Append(QueueOf(p), m)
         /\ \A q \in Priorities : q # p => QueueOf(q)' = QueueOf(q)
         /\ Len(QueueOf(p)) < Capacity[p]
<1> DEFINE size == datasize[p]
<1>1. /\ ppbuf' = [ppbuf EXCEPT ![<<p, putloc[p]>>] = m] /\ getloc' = getloc
      /\ datasize' = [datasize EXCEPT ![p] = @ + 1]
  BY DEF Insert
<1>2. /\ size \in Nat /\ size < Capacity[p] /\ Capacity[p] \in Nat
      /\ getloc[p] \in Nat /\ getloc[p] < Capacity[p]
  BY RingFacts DEF IsFull
<1>3. <<p, putloc[p]>> \in Slots /\ putloc[p] = Place(p, size)
  BY RingFacts DEF IInv, Rings
<1>4. \A q \in Priorities : \A i \in 0..(Capacity[q] - 1) :
        ppbuf'[<<q, i>>] = IF q = p /\ i = putloc[p] THEN m ELSE ppbuf[<<q, i>>]
  <2> TAKE q \in Priorities
  <2> TAKE i \in 0..(Capacity[q] - 1)
  <2>1. <<q, i>> \in Slots
    BY RingFacts
  <2>2. <<q, i>> = <<p, putloc[p]>> <=> q = p /\ i = putloc[p]
    OBVIOUS
  <2> QED
    BY <1>1, <2>1, <2>2 DEF IInv, TypeOK
<1>5. \A q \in Priorities : q # p => QueueOf(q)' = QueueOf(q)
  <2> SUFFICES ASSUME NEW q \in Priorities, q # p PROVE QueueOf(q)' = QueueOf(q)
    OBVIOUS
  <2>1. datasize'[q] = datasize[q] /\ getloc'[q] = getloc[q]
    BY <1>1 DEF IInv, TypeOK
  <2>2. \A i \in 0..(Capacity[q] - 1) : ppbuf'[<<q, i>>] = ppbuf[<<q, i>>]
    BY <1>4
  <2> QED
    BY <2>1, <2>2, SameQueue
<1>6. datasize'[p] = size + 1
  BY <1>1 DEF IInv, TypeOK
<1>7. \A i \in 1..(size + 1) : Place(p, i - 1)' = Place(p, i - 1)
  BY <1>1 DEF Place
<1>8. \A i \in 1..size : Place(p, i - 1) # putloc[p]
  BY <1>2, <1>3 DEF Place
<1>9. \A i \in 1..size : ppbuf'[<<p, Place(p, i - 1)>>] = QueueOf(p)[i]
  BY <1>4, <1>8, QueueFacts
<1>10. ppbuf'[<<p, Place(p, size)>>] = m
  BY <1>3, <1>4, RingFacts
<1> HIDE DEF size
<1>11. QueueOf(p)' = [i \in 1..(size + 1) |-> IF i <= size THEN QueueOf(p)[i] ELSE m]
  <2>1. QueueOf(p)' = [i \in 1..(size + 1) |-> ppbuf'[<<p, Place(p, i - 1)'>>]]
    BY <1>6 DEF QueueOf
  <2>2. \A i \in 1..(size + 1) :
          ppbuf'[<<p, Place(p, i - 1)'>>] = IF i <= size THEN QueueOf(p)[i] ELSE m
    <3> SUFFICES ASSUME NEW i \in 1..(size + 1)
                 PROVE  ppbuf'[<<p, Place(p, i - 1)>>] = IF i <= size THEN QueueOf(p)[i] ELSE m
      BY <1>7
    <3>1. CASE i <= size
      BY <1>2, <1>9, <3>1
    <3>2. CASE ~(i <= size)
      <4>1. i - 1 = size
        BY <1>2, <3>2
      <4> QED
        BY <1>10, <3>2, <4>1
    <3> QED
      BY <3>1, <3>2
  <2> QED
    BY <2>1, <2>2
<1>12. QueueOf(p)' = Append(QueueOf(p), m)
  <2> DEFINE q == QueueOf(p)
  <2>1. q \in Seq(Message \cup {NoMessage}) /\ Len(q) = size
    BY QueueFacts DEF size
  <2> HIDE DEF q
  <2>2. Append(q, m) = [i \in 1..(size + 1) |-> IF i <= size THEN q[i] ELSE m]
    <3> DEFINE a == Append(q, m)
    <3>1. a \in Seq(Message \cup {NoMessage}) /\ Len(a) = size + 1
          /\ (\A i \in 1..size : a[i] = q[i]) /\ a[size + 1] = m
      BY <2>1, AppendProperties
    <3> HIDE DEF a
    <3>2. a = [i \in 1..(size + 1) |-> a[i]]
      BY <3>1, LenProperties
    <3>3. \A i \in 1..(size + 1) : a[i] = IF i <= size THEN q[i] ELSE m
      BY <1>2, <3>1
    <3>4. a = [i \in 1..(size + 1) |-> IF i <= size THEN q[i] ELSE m]
      BY <3>2, <3>3
    <3> QED
      BY <3>4 DEF a
  <2> QED
    BY <1>11, <2>2 DEF q
<1>13. Len(QueueOf(p)) = size
  BY QueueFacts DEF size
<1> QED
  BY <1>2, <1>5, <1>12, <1>13

(* To remove a message is to take the head of what the ring holds. *)
LEMMA RemoveQueue ==
  ASSUME IInv, NEW c \in Consumers, NEW p \in Priorities, NEW n,
         ~IsEmpty(p), Remove(c, p, n)
  PROVE  /\ QueueOf(p) # <<>>
         /\ QueueOf(p)' = Tail(QueueOf(p))
         /\ pdata' = [pdata EXCEPT ![c] = Head(QueueOf(p))]
         /\ \A q \in Priorities : q # p => QueueOf(q)' = QueueOf(q)
<1> DEFINE size == datasize[p]
<1>1. /\ pdata' = [pdata EXCEPT ![c] = ppbuf[<<p, getloc[p]>>]]
      /\ getloc' = [getloc EXCEPT ![p] = Wrap(p, @ + 1)]
      /\ datasize' = [datasize EXCEPT ![p] = @ - 1] /\ ppbuf' = ppbuf
  BY DEF Remove
<1>2. /\ size \in Nat /\ size > 0 /\ size <= Capacity[p] /\ Capacity[p] \in Nat
      /\ getloc[p] \in Nat /\ getloc[p] < Capacity[p]
  BY RingFacts DEF IsEmpty
<1>3. /\ datasize'[p] = size - 1
      /\ getloc'[p] = IF getloc[p] + 1 = Capacity[p] THEN 0 ELSE getloc[p] + 1
      /\ \A q \in Priorities : q # p => datasize'[q] = datasize[q] /\ getloc'[q] = getloc[q]
  BY <1>1 DEF IInv, TypeOK, Wrap
<1>4. \A q \in Priorities : q # p => QueueOf(q)' = QueueOf(q)
  BY <1>1, <1>3, SameQueue
<1>5. \A i \in 1..(size - 1) : Place(p, i - 1)' = Place(p, i)
  BY <1>2, <1>3 DEF Place
<1>6. QueueOf(p)[1] = ppbuf[<<p, getloc[p]>>]
  <2>1. Place(p, 0) = getloc[p]
    BY <1>2 DEF Place
  <2>2. QueueOf(p)[1] = ppbuf[<<p, Place(p, 1 - 1)>>]
    BY <1>2, QueueFacts
  <2> QED
    BY <2>1, <2>2
<1>7. \A i \in 1..(size - 1) : ppbuf[<<p, Place(p, i)>>] = QueueOf(p)[i + 1]
  <2> TAKE i \in 1..(size - 1)
  <2>1. i + 1 \in 1..datasize[p] /\ (i + 1) - 1 = i
    BY <1>2
  <2>2. QueueOf(p)[i + 1] = ppbuf[<<p, Place(p, (i + 1) - 1)>>]
    BY <2>1, QueueFacts
  <2> QED
    BY <2>1, <2>2
<1> HIDE DEF size
<1>8. QueueOf(p)' = [i \in 1..(size - 1) |-> QueueOf(p)[i + 1]]
  <2>1. QueueOf(p)' = [i \in 1..(size - 1) |-> ppbuf'[<<p, Place(p, i - 1)'>>]]
    BY <1>3 DEF QueueOf
  <2>2. \A i \in 1..(size - 1) : ppbuf'[<<p, Place(p, i - 1)'>>] = QueueOf(p)[i + 1]
    BY <1>1, <1>5, <1>7
  <2> QED
    BY <2>1, <2>2
<1>9. QueueOf(p) # <<>> /\ QueueOf(p)' = Tail(QueueOf(p)) /\ Head(QueueOf(p)) = QueueOf(p)[1]
  <2> DEFINE q == QueueOf(p)
  <2>1. q \in Seq(Message \cup {NoMessage}) /\ Len(q) = size /\ q # <<>>
    BY <1>2, QueueFacts DEF size
  <2> HIDE DEF q
  <2>2. Tail(q) = [i \in 1..(size - 1) |-> q[i + 1]]
    <3> DEFINE b == Tail(q)
    <3>1. b \in Seq(Message \cup {NoMessage}) /\ Len(b) = size - 1
          /\ \A i \in 1..(size - 1) : b[i] = q[i + 1]
      BY <2>1, HeadTailProperties
    <3> HIDE DEF b
    <3>2. b = [i \in 1..(size - 1) |-> b[i]]
      BY <3>1, LenProperties
    <3>3. b = [i \in 1..(size - 1) |-> q[i + 1]]
      BY <3>1, <3>2
    <3> QED
      BY <3>3 DEF b
  <2>3. Head(q) = q[1]
    BY <2>1
  <2> QED
    BY <1>8, <2>1, <2>2, <2>3 DEF q
<1> QED
  BY <1>1, <1>4, <1>6, <1>9

-----------------------------------------------------------------------------
(* Steps of the rings as steps of the queue. *)

(* The queue is what it was if the rings are. *)
LEMMA NothingMoves ==
  ASSUME UNCHANGED rings
  PROVE  [p \in Priorities |-> QueueOf(p)]' = [p \in Priorities |-> QueueOf(p)]
BY DEF rings, QueueOf, Place

(* Each step of PutQ puts the message, or nothing. *)
LEMMA PutStep ==
  ASSUME IInv, NEW t \in Producers, NEW m \in Message, NEW p \in Priorities, NEW n,
         NEW limited \in BOOLEAN, PutLoop(t, m, p, n, limited)
  PROVE  [Queue!Next]_(Queue!vars)
<1> DEFINE queue == [q \in Priorities |-> QueueOf(q)]
<1>1. CASE IsFull(p) /\ WaitForPlace(t, m, p, n, limited)
  <2>1. UNCHANGED <<rings, pdata>>
    BY <1>1 DEF PutLoop, WaitForPlace
  <2> QED
    BY <2>1, NothingMoves DEF Queue!vars
<1>2. CASE ~IsFull(p) /\ Insert(t, m, p, n)
  <2>1. /\ QueueOf(p)' = Append(QueueOf(p), m) /\ Len(QueueOf(p)) < Capacity[p]
        /\ \A q \in Priorities : q # p => QueueOf(q)' = QueueOf(q)
        /\ pdata' = pdata
    BY <1>2, InsertQueue DEF PutLoop
  <2>2. queue' = [queue EXCEPT ![p] = Append(@, m)] /\ Len(queue[p]) < Capacity[p]
    BY <2>1
  <2>3. Queue!Put(p, m)
    BY <2>1, <2>2 DEF Queue!Put
  <2> QED
    BY <2>3 DEF Queue!Next, Priorities, Queue!Priorities
<1> QED
  BY <1>1, <1>2 DEF PutLoop

(* Each step of GetQ takes the first message of the most urgent ring, or nothing. *)
LEMMA GetStep ==
  ASSUME IInv, NEW c \in Consumers, NEW n, NEW limited \in BOOLEAN, GetLoop(c, n, limited)
  PROVE  [Queue!Next]_(Queue!vars)
<1> DEFINE queue == [q \in Priorities |-> QueueOf(q)]
<1>1. ASSUME NEW p \in Priorities, FirstWithData(p), Remove(c, p, n) PROVE Queue!Take(c, p)
  <2>1. /\ QueueOf(p) # <<>> /\ QueueOf(p)' = Tail(QueueOf(p))
        /\ pdata' = [pdata EXCEPT ![c] = Head(QueueOf(p))]
        /\ \A q \in Priorities : q # p => QueueOf(q)' = QueueOf(q)
    BY <1>1, RemoveQueue DEF FirstWithData
  <2>2. /\ queue' = [queue EXCEPT ![p] = Tail(@)] /\ queue[p] # <<>>
        /\ pdata' = [pdata EXCEPT ![c] = Head(queue[p])]
    BY <2>1
  <2>3. \A q \in Queue!MoreUrgent(p) : queue[q] = <<>>
    <3>1. \A q \in Priorities : IsEmpty(q) => QueueOf(q) = <<>>
      BY QueueFacts, RingFacts DEF IsEmpty
    <3>2. \A q \in Queue!MoreUrgent(p) : q \in Priorities /\ IsEmpty(q)
      BY <1>1 DEF FirstWithData, Queue!MoreUrgent, Priorities
    <3> QED
      BY <3>1, <3>2
  <2> QED
    BY <2>2, <2>3 DEF Queue!Take
<1>2. CASE WaitForMessage(c, n, limited)
  <2>1. UNCHANGED rings /\ pdata' = [pdata EXCEPT ![c] = NoMessage]
    BY <1>2 DEF WaitForMessage
  <2>2. Queue!TakeNothing(c)
    BY <2>1, NothingMoves DEF Queue!TakeNothing
  <2> QED
    BY <2>2 DEF Queue!Next
<1> QED
  BY <1>1, <1>2 DEF GetLoop, Queue!Next, Priorities, Queue!Priorities

(* The rings, with their mutex and condition variables, implement PrioQueue. *)
THEOREM Implements == Spec => ImplementsQueue
<1>1. Init => Queue!Init
  BY DEF Init, Queue!Init, QueueOf, Priorities, Queue!Priorities
<1>2. IInv /\ [Next]_vars => [Queue!Next]_(Queue!vars)
  <2> SUFFICES ASSUME IInv, [Next]_vars PROVE [Queue!Next]_(Queue!vars)
    OBVIOUS
  <2>1. ASSUME NEW t \in Producers, NEW m \in Message, NEW p \in Priorities,
               NEW limited \in BOOLEAN, PutQ(t, m, p, limited)
        PROVE  [Queue!Next]_(Queue!vars)
    BY <2>1, PutStep DEF PutQ
  <2>2. ASSUME NEW t \in Producers, PutAgain(t) PROVE [Queue!Next]_(Queue!vars)
    <3>1. call[t].prio \in Priorities /\ call[t].msg \in Message /\ (t \in timed) \in BOOLEAN
      BY <2>2, WriterFacts DEF PutAgain
    <3> QED
      BY <2>2, <3>1, PutStep DEF PutAgain
  <2>3. ASSUME NEW c \in Consumers, NEW limited \in BOOLEAN, GetQ(c, limited)
        PROVE  [Queue!Next]_(Queue!vars)
    BY <2>3, GetStep DEF GetQ
  <2>4. ASSUME NEW c \in Consumers, GetAgain(c) PROVE [Queue!Next]_(Queue!vars)
    <3>1. (c \in timed) \in BOOLEAN
      OBVIOUS
    <3> QED
      BY <2>4, <3>1, GetStep DEF GetAgain
  <2>5. ASSUME UNCHANGED <<rings, pdata>> PROVE [Queue!Next]_(Queue!vars)
    BY <2>5, NothingMoves DEF Queue!vars
  <2>6. CASE UNCHANGED vars
    BY <2>5, <2>6 DEF vars
  <2>7. ASSUME NEW x, \/ PutTimesOut(x) \/ GetTimesOut(x)
                      \/ TimeRunsOut(x) \/ WakesForNothing(x)
        PROVE  [Queue!Next]_(Queue!vars)
    BY <2>5, <2>7 DEF PutTimesOut, GetTimesOut, TimeRunsOut, WakesForNothing
  <2> QED
    BY <2>1, <2>2, <2>3, <2>4, <2>6, <2>7 DEF Next
<1> QED
  BY <1>1, <1>2, Inductive, PTL DEF Spec, ImplementsQueue, Queue!Spec
=============================================================================
