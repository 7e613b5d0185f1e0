---------------------------- MODULE Threads_proofs ----------------------------
(*****************************************************************************)
(* Proofs about the threads of a process, for any constants that the code    *)
(* allows: what renews itself or is handed over is in one place              *)
(* (OnePlaceEach), nothing works for what has ended (NothingOutlived), the   *)
(* timer wheel implements TimerService, the managers keep their sessions     *)
(* (SessionsKept), and the examples and the generated code answer truly      *)
(* (AnsweredTruly, FeedsSessions). Each part has its own inductive           *)
(* invariant; Spec runs one part and leaves the others as they begin.        *)
(*****************************************************************************)
EXTENDS Threads, BasicLemmas

-----------------------------------------------------------------------------
(* TimerWheel. A timer is in one list, which RemoveTimer finds, for any timers, intervals, sizes
   and number of wheels. First: lists of timers. *)

(* In and Once say what Holds and Distinct say. *)
LEMMA InIsHolds ==
    /\ \A list, x : Wheel!In(list, x) <=> Holds(list, x)
    /\ \A list : Wheel!Once(list) <=> Distinct(list)
BY DEF Wheel!In, Holds, Wheel!Once, Distinct

(* A timer at the end of a list. *)
LEMMA InAppend ==
    ASSUME NEW S, NEW list \in Seq(S), NEW e \in S
    PROVE  /\ \A x : Wheel!In(Append(list, e), x) <=> Wheel!In(list, x) \/ x = e
           /\ Wheel!Once(list) /\ ~Wheel!In(list, e) => Wheel!Once(Append(list, e))
BY HoldsAppend, InIsHolds, Zenon

(* The first timer leaves a list (GetTimerNode from the ready list). *)
LEMMA InTail ==
    ASSUME NEW S, NEW list \in Seq(S), list # <<>>, Wheel!Once(list)
    PROVE  /\ \A x : Wheel!In(Tail(list), x) <=> Wheel!In(list, x) /\ x # Head(list)
           /\ Wheel!In(list, Head(list))
           /\ Wheel!Once(Tail(list))
BY HoldsTail, InIsHolds, Zenon

(* Two lists that share no timer are joined (the spoke of wheel 0 and the ready list). *)
LEMMA InConcat ==
    ASSUME NEW S, NEW front \in Seq(S), NEW second \in Seq(S)
    PROVE  /\ front \o second \in Seq(S)
           /\ \A x : Wheel!In(front \o second, x) <=> Wheel!In(front, x) \/ Wheel!In(second, x)
           /\ Wheel!Once(front) /\ Wheel!Once(second) /\ (\A x : Wheel!In(front, x) => ~Wheel!In(second, x))
                => Wheel!Once(front \o second)
<1>1. /\ \A x : Holds(front \o second, x) <=> Holds(front, x) \/ Holds(second, x)
      /\ Distinct(front) /\ Distinct(second) /\ (\A x : Holds(front, x) => ~Holds(second, x))
           => Distinct(front \o second)
  BY HoldsConcat
<1>2. front \o second \in Seq(S)
  BY ConcatFacts
<1> QED BY <1>1, <1>2, InIsHolds, Zenon

(* RemoveTimer takes a timer out of a list and leaves the others. *)
LEMMA InDrop ==
    ASSUME NEW S, NEW list \in Seq(S), NEW t, Wheel!Once(list)
    PROVE  /\ Wheel!Drop(list, t) \in Seq(S)
           /\ \A x : Wheel!In(Wheel!Drop(list, t), x) <=> Wheel!In(list, x) /\ x # t
           /\ Wheel!Once(Wheel!Drop(list, t))
<1>1. CASE ~Wheel!In(list, t)
  BY <1>1 DEF Wheel!Drop
<1>2. CASE Wheel!In(list, t)
  <2> DEFINE k == CHOOSE i \in DOMAIN list : list[i] = t
             front == SubSeq(list, 1, k - 1)
             second == SubSeq(list, k + 1, Len(list))
  <2>1. k \in DOMAIN list /\ list[k] = t
    BY <1>2 DEF Wheel!In
  <2>2. Wheel!Drop(list, t) = front \o second
    BY <1>2 DEF Wheel!Drop
  <2>3. Len(list) \in Nat /\ DOMAIN list = 1 .. Len(list)
    OBVIOUS
  <2> HIDE DEF k
  <2>4. /\ front \in Seq(S) /\ second \in Seq(S)
        /\ DOMAIN front = 1 .. k - 1 /\ DOMAIN second = 1 .. Len(list) - k
        /\ \A i \in DOMAIN front : front[i] = list[i]
        /\ \A i \in DOMAIN second : second[i] = list[k + i]
    <3>1. k \in Int /\ 1 <= k /\ k <= Len(list)
      BY <2>1, <2>3
    <3>2. /\ Len(front) = k - 1 /\ Len(second) = Len(list) - k
          /\ \A i \in 1 .. k - 1 : front[i] = list[i]
          /\ \A i \in 1 .. Len(list) - k : second[i] = list[k + i]
      <4>1. Len(front) = k - 1 /\ Len(second) = Len(list) - k
        <5>1. Len(front) = k - 1
          BY <3>1, <2>3
        <5>2. Len(second) = Len(list) - k
          <6>1. k + 1 \in Int /\ Len(list) \in Int
            BY <3>1, <2>3
          <6>2. Len(second) = IF k + 1 <= Len(list) THEN Len(list) - (k + 1) + 1 ELSE 0
            BY <6>1
          <6>3. (IF k + 1 <= Len(list) THEN Len(list) - (k + 1) + 1 ELSE 0) = Len(list) - k
            BY <3>1, <6>1
          <6> HIDE DEF second
          <6> QED BY <6>2, <6>3
        <5> QED BY <5>1, <5>2
      <4>2. \A i \in 1 .. k - 1 : front[i] = list[i]
        BY <3>1, <2>3
      <4>3. \A i \in 1 .. Len(list) - k : second[i] = list[k + i]
        <5> SUFFICES ASSUME NEW i \in 1 .. Len(list) - k PROVE second[i] = list[k + i]
          OBVIOUS
        <5>1. second[i] = list[(k + 1) + i - 1]
          BY <3>1, <2>3
        <5>2. (k + 1) + i - 1 = k + i
          BY <3>1
        <5> QED BY <5>1, <5>2
      <4> QED BY <4>1, <4>2, <4>3
    <3>3. \A i \in 1 .. k - 1 : list[i] \in S
      BY <3>1, <2>3
    <3>4. \A i \in 1 .. Len(list) - k : list[k + i] \in S
      BY <3>1, <2>3
    <3>5. front \in Seq(S)
      BY <3>1, <3>3, <2>3
    <3>6. second \in Seq(S)
      BY <3>1, <3>4, <2>3
    <3>7. DOMAIN front = 1 .. Len(front) /\ DOMAIN second = 1 .. Len(second)
      BY <3>5, <3>6
    <3> QED BY <3>2, <3>5, <3>6, <3>7
  <2> HIDE DEF front, second
  <2>5. \A x : Wheel!In(list, x) /\ x # t => Wheel!In(front, x) \/ Wheel!In(second, x)
    <3> SUFFICES ASSUME NEW i \in DOMAIN list, list[i] # t PROVE Wheel!In(front, list[i]) \/ Wheel!In(second, list[i])
      BY DEF Wheel!In
    <3>1. CASE i < k
      <4>1. i \in DOMAIN front
        BY <3>1, <2>1, <2>3, <2>4
      <4> QED BY <4>1, <2>4 DEF Wheel!In
    <3>2. CASE i > k
      <4>1. i - k \in DOMAIN second /\ k + (i - k) = i
        BY <3>2, <2>1, <2>3, <2>4
      <4> QED BY <4>1, <2>4 DEF Wheel!In
    <3> QED BY <3>1, <3>2, <2>1, <2>3
  <2>6. \A x : Wheel!In(front, x) => Wheel!In(list, x) /\ x # t
    BY <2>1, <2>3, <2>4 DEF Wheel!In, Wheel!Once
  <2>7. \A x : Wheel!In(second, x) => Wheel!In(list, x) /\ x # t
    <3> SUFFICES ASSUME NEW i \in DOMAIN second PROVE Wheel!In(list, second[i]) /\ second[i] # t
      BY DEF Wheel!In
    <3>1. k + i \in DOMAIN list /\ second[i] = list[k + i] /\ k + i # k
      BY <2>1, <2>3, <2>4
    <3> QED BY <3>1, <2>1 DEF Wheel!In, Wheel!Once
  <2>8. Wheel!Once(front)
    BY <2>1, <2>3, <2>4 DEF Wheel!Once
  <2>9. Wheel!Once(second)
    <3> SUFFICES ASSUME NEW i \in DOMAIN second, NEW j \in DOMAIN second, second[i] = second[j] PROVE i = j
      BY DEF Wheel!Once
    <3>1. k + i \in DOMAIN list /\ k + j \in DOMAIN list /\ list[k + i] = list[k + j]
      BY <2>1, <2>3, <2>4
    <3>2. k + i = k + j
      BY <3>1 DEF Wheel!Once
    <3> QED BY <3>2, <2>1, <2>3, <2>4
  <2>10. \A x : Wheel!In(front, x) => ~Wheel!In(second, x)
    <3> SUFFICES ASSUME NEW i \in DOMAIN front, NEW j \in DOMAIN second, front[i] = second[j] PROVE FALSE
      BY DEF Wheel!In
    <3>1. i \in DOMAIN list /\ k + j \in DOMAIN list /\ i # k + j /\ list[i] = list[k + j]
      BY <2>1, <2>3, <2>4
    <3> QED BY <3>1 DEF Wheel!Once
  <2> QED BY <2>2, <2>4, <2>5, <2>6, <2>7, <2>8, <2>9, <2>10, InConcat
<1> QED BY <1>1, <1>2

-----------------------------------------------------------------------------
(* Wheels and spokes. *)

(* What WheelAssumption says of the constants. *)
LEMMA WheelConstants ==
    /\ Circle \subseteq Timer /\ NoTimer \notin Timer
    /\ GRANULARITY \in Nat \ {0} /\ WHEEL_SIZE1 \in Nat \ {0} /\ WHEEL_SIZE2 \in Nat \ {0}
    /\ WHEEL_NUM \in Nat \ {0, 1} /\ MaxLag \in Nat /\ MaxBack \in Nat
    /\ Intervals \subseteq Nat
    /\ Wheel!Wheels = 0 .. WHEEL_NUM - 1
    /\ \A w : Wheel!Size(w) \in Nat \ {0}
<1>1. \A x, y : 0 .. x * y - 1 \subseteq Nat
  OBVIOUS
<1> QED BY <1>1, ThreadsAssumption DEF Wheel!WheelAssumption, Wheel!Wheels, Wheel!Size

(* The thresholds that CTimerManager computes exist: the recursion that defines them has a value. *)
LEMMA ThresholdDef ==
    \A w \in Nat : Wheel!Threshold[w] = IF w <= 1 THEN WHEEL_SIZE1 ELSE WHEEL_SIZE2 * Wheel!Threshold[w - 1]
<1> DEFINE D == Nat \ {0}
           step == [p \in Nat \X D |-> IF p[1] = 0 THEN WHEEL_SIZE1 ELSE WHEEL_SIZE2 * p[2]]
<1>1. step \in [Nat \X D -> D] /\ WHEEL_SIZE1 \in D
  BY WheelConstants
<1> HIDE DEF step, D
<1>2. PICK f : Recurs(f, D, WHEEL_SIZE1, step)
  BY <1>1, Recursion
<1> USE DEF D
<1>3. f = [w \in Nat |-> IF w <= 1 THEN WHEEL_SIZE1 ELSE WHEEL_SIZE2 * f[w - 1]]
  <2>0. f \in [Nat -> D] /\ f[0] = WHEEL_SIZE1 /\ \A n \in Nat : f[n + 1] = step[<<n, f[n]>>]
    BY <1>2 DEF Recurs
  <2>1. ASSUME NEW w \in Nat PROVE f[w] = IF w <= 1 THEN WHEEL_SIZE1 ELSE WHEEL_SIZE2 * f[w - 1]
    <3>1. CASE w = 0
      BY <3>1, <2>0
    <3>2. CASE w # 0
      <4>1. w - 1 \in Nat /\ (w - 1) + 1 = w
        BY <3>2
      <4>2. f[w] = step[<<w - 1, f[w - 1]>>]
        BY <4>1, <2>0
      <4>3. step[<<w - 1, f[w - 1]>>] = IF w - 1 = 0 THEN WHEEL_SIZE1 ELSE WHEEL_SIZE2 * f[w - 1]
        BY <4>1, <2>0 DEF step
      <4> QED BY <3>2, <4>1, <4>2, <4>3
    <3> QED BY <3>1, <3>2
  <2> QED BY <2>0, <2>1
<1>4. Wheel!Threshold = [w \in Nat |-> IF w <= 1 THEN WHEEL_SIZE1 ELSE WHEEL_SIZE2 * Wheel!Threshold[w - 1]]
  BY <1>3 DEF Wheel!Threshold
<1> QED BY <1>4

(* A wheel is never divided by a threshold of zero. *)
LEMMA ThresholdPositive == \A w \in Nat : Wheel!Threshold[w] \in Nat \ {0}
<1> DEFINE S == {w \in Nat : Wheel!Threshold[w] \in Nat \ {0}}
<1>1. 0 \in S
  BY ThresholdDef, WheelConstants
<1>2. ASSUME NEW w \in S PROVE w + 1 \in S
  <2>1. w \in Nat /\ w + 1 \in Nat /\ (w + 1) - 1 = w /\ Wheel!Threshold[w] \in Nat \ {0}
    OBVIOUS
  <2>2. Wheel!Threshold[w + 1] = IF w + 1 <= 1 THEN WHEEL_SIZE1 ELSE WHEEL_SIZE2 * Wheel!Threshold[w]
    BY <2>1, ThresholdDef
  <2> QED BY <2>1, <2>2, WheelConstants
<1> HIDE DEF S
<1>3. S = Nat
  <2>1. S \in SUBSET Nat
    BY DEF S
  <2> QED BY <1>1, <1>2, <2>1, Induct
<1> QED BY <1>3 DEF S

(* A wheel has a spoke for each index below its size. *)
LEMMA SpokesAre == \A v \in Wheel!Wheels, i \in Nat : i < Wheel!Size(v) => <<v, i>> \in Wheel!Spokes
<1> SUFFICES ASSUME NEW v \in Wheel!Wheels, NEW i \in Nat, i < Wheel!Size(v) PROVE <<v, i>> \in Wheel!Spokes
  OBVIOUS
<1>1. <<v, i>> \in {v} \X (0 .. Wheel!Size(v) - 1)
  BY WheelConstants
<1> QED BY <1>1, Zenon DEF Wheel!Spokes

(* AddTimerNode puts a timer into a spoke that there is, wherever the wheels stand. *)
LEMMA SpokeForIn ==
    ASSUME NEW ms \in Nat, NEW ix \in [Wheel!Wheels -> Nat]
    PROVE  Wheel!SpokeFor(ms, ix) \in Wheel!Spokes
<1> DEFINE ticks == ms \div GRANULARITY
           above == {w \in Wheel!Wheels \ {0} : ticks >= Wheel!Threshold[w]}
           w == CHOOSE v \in above : \A u \in above : u <= v
<1>1. ticks \in Nat
  BY WheelConstants
<1>2. \A v \in Wheel!Wheels, i \in Nat : i < Wheel!Size(v) => <<v, i>> \in Wheel!Spokes
  BY SpokesAre
<1>3. \A i \in Int, v \in Wheel!Wheels : i % Wheel!Size(v) \in Nat /\ i % Wheel!Size(v) < Wheel!Size(v)
  <2> SUFFICES ASSUME NEW i \in Int, NEW v \in Wheel!Wheels, NEW n \in Nat \ {0}, n = Wheel!Size(v)
               PROVE  i % n \in Nat /\ i % n < n
    BY WheelConstants
  <2> QED OBVIOUS
<1>4. CASE above = {}
  <2>1. Wheel!SpokeFor(ms, ix) = <<0, (ticks + ix[0]) % Wheel!Size(0)>>
    BY <1>4 DEF Wheel!SpokeFor
  <2>2. 0 \in Wheel!Wheels /\ ticks + ix[0] \in Int
    BY <1>1, WheelConstants
  <2> QED BY <2>1, <2>2, <1>2, <1>3
<1>5. CASE above # {}
  <2>1. w \in above
    <3>1. above \in SUBSET (0 .. WHEEL_NUM - 1) /\ WHEEL_NUM - 1 \in Nat
      BY WheelConstants
    <3>2. \E x \in above : \A y \in above : y <= x
      BY <1>5, <3>1, Greatest
    <3> QED BY <3>2
  <2> DEFINE T == Wheel!Threshold[w]
             i == (ticks - T + ix[w] * T) \div T
  <2>2. w \in Wheel!Wheels /\ w \in Nat
    BY <2>1, WheelConstants
  <2>3. Wheel!SpokeFor(ms, ix) = <<w, i % Wheel!Size(w)>>
    BY <1>5 DEF Wheel!SpokeFor
  <2> HIDE DEF w
  <2>4. T \in Nat \ {0} /\ ix[w] \in Nat
    BY <2>2, ThresholdPositive
  <2> HIDE DEF T, ticks
  <2>5. ticks - T + ix[w] * T \in Int
    BY <2>4, <1>1
  <2>6. i \in Int
    BY <2>4, <2>5
  <2> HIDE DEF i
  <2> QED BY <2>2, <2>3, <2>6, <1>2, <1>3
<1> QED BY <1>4, <1>5

-----------------------------------------------------------------------------
(* What a change of one list does to the nodes in all of them. *)

(* What CTimerManager keeps of its nodes, and where the wheels stand. *)
SpokeLists == [Wheel!Spokes -> Seq(Timer)]

WheelState == [spokes : SpokeLists, index : [Wheel!Wheels -> Nat], ready : Seq(Timer)]

(* A node that is in no list goes to the ready list. *)
LEMMA LinkedPutReady ==
    ASSUME NEW sp \in SpokeLists, NEW rd \in Seq(Timer), NEW nodes \in SUBSET Timer,
           Wheel!LinkedAs(sp, rd, nodes), NEW t \in Timer \ nodes
    PROVE  Wheel!LinkedAs(sp, Append(rd, t), nodes \cup {t})
<1>1. /\ \A x : Wheel!In(Append(rd, t), x) <=> Wheel!In(rd, x) \/ x = t
      /\ Wheel!Once(rd) /\ ~Wheel!In(rd, t) => Wheel!Once(Append(rd, t))
  BY InAppend
<1>2. ~Wheel!In(rd, t) /\ \A s \in Wheel!Spokes : ~Wheel!In(sp[s], t)
  BY DEF Wheel!LinkedAs
<1> QED BY <1>1, <1>2 DEF Wheel!LinkedAs

(* A node that is in no list goes to a spoke. *)
LEMMA LinkedPutSpoke ==
    ASSUME NEW sp \in SpokeLists, NEW rd \in Seq(Timer), NEW nodes \in SUBSET Timer,
           Wheel!LinkedAs(sp, rd, nodes), NEW t \in Timer \ nodes, NEW s \in Wheel!Spokes
    PROVE  Wheel!LinkedAs([sp EXCEPT ![s] = Append(@, t)], rd, nodes \cup {t})
<1> DEFINE to == [sp EXCEPT ![s] = Append(@, t)]
<1>1. to[s] = Append(sp[s], t) /\ \A r \in Wheel!Spokes : r # s => to[r] = sp[r]
  BY DEF SpokeLists
<1>2. sp[s] \in Seq(Timer)
  BY DEF SpokeLists
<1>3. /\ \A x : Wheel!In(to[s], x) <=> Wheel!In(sp[s], x) \/ x = t
      /\ Wheel!Once(sp[s]) /\ ~Wheel!In(sp[s], t) => Wheel!Once(to[s])
  BY <1>1, <1>2, InAppend
<1> HIDE DEF to
<1>4. ~Wheel!In(rd, t) /\ \A r \in Wheel!Spokes : ~Wheel!In(sp[r], t)
  BY DEF Wheel!LinkedAs
<1>5. \A r \in Wheel!Spokes : /\ Wheel!Once(to[r])
                              /\ \A x : Wheel!In(to[r], x) <=> Wheel!In(sp[r], x) \/ (r = s /\ x = t)
  BY <1>1, <1>3, <1>4 DEF Wheel!LinkedAs
<1>6. \A u \in Timer, r \in Wheel!Spokes : Wheel!In(to[r], u) =>
        ~Wheel!In(rd, u) /\ \A q \in Wheel!Spokes : Wheel!In(to[q], u) => q = r
  BY <1>4, <1>5 DEF Wheel!LinkedAs
<1>7. \A u \in Timer : u \in nodes \cup {t} <=> Wheel!In(rd, u) \/ \E r \in Wheel!Spokes : Wheel!In(to[r], u)
  BY <1>4, <1>5 DEF Wheel!LinkedAs
<1>8. Wheel!LinkedAs(to, rd, nodes \cup {t})
  BY <1>5, <1>6, <1>7 DEF Wheel!LinkedAs
<1> QED BY <1>8 DEF to

(* The nodes of a spoke leave it. *)
LEMMA LinkedTake ==
    ASSUME NEW sp \in SpokeLists, NEW rd \in Seq(Timer), NEW nodes \in SUBSET Timer,
           Wheel!LinkedAs(sp, rd, nodes), NEW s \in Wheel!Spokes
    PROVE  Wheel!LinkedAs([sp EXCEPT ![s] = <<>>], rd, {t \in nodes : ~Wheel!In(sp[s], t)})
<1> DEFINE to == [sp EXCEPT ![s] = <<>>]
<1>1. to[s] = <<>> /\ \A r \in Wheel!Spokes : r # s => to[r] = sp[r]
  BY DEF SpokeLists
<1> HIDE DEF to
<1>2. \A r \in Wheel!Spokes : /\ Wheel!Once(to[r])
                              /\ \A x : Wheel!In(to[r], x) <=> Wheel!In(sp[r], x) /\ r # s
  BY <1>1 DEF Wheel!LinkedAs, Wheel!Once, Wheel!In
<1>3. Wheel!LinkedAs(to, rd, {t \in nodes : ~Wheel!In(sp[s], t)})
  BY <1>2 DEF Wheel!LinkedAs
<1> QED BY <1>3 DEF to

(* Nodes that are in no list go to the ready list together. *)
LEMMA LinkedAppend ==
    ASSUME NEW sp \in SpokeLists, NEW rd \in Seq(Timer), NEW nodes \in SUBSET Timer,
           Wheel!LinkedAs(sp, rd, nodes), NEW list \in Seq(Timer), Wheel!Once(list),
           \A t \in nodes : ~Wheel!In(list, t)
    PROVE  Wheel!LinkedAs(sp, rd \o list, nodes \cup {t \in Timer : Wheel!In(list, t)})
<1>1. \A x : Wheel!In(rd, x) => x \in Timer
  BY DEF Wheel!In
<1>2. \A x : Wheel!In(rd, x) => ~Wheel!In(list, x)
  BY <1>1 DEF Wheel!LinkedAs
<1>3. /\ \A x : Wheel!In(rd \o list, x) <=> Wheel!In(rd, x) \/ Wheel!In(list, x)
      /\ Wheel!Once(rd \o list)
  BY <1>2, InConcat DEF Wheel!LinkedAs
<1> QED BY <1>3 DEF Wheel!LinkedAs

(* A node leaves whichever list it is in. *)
LEMMA LinkedDrop ==
    ASSUME NEW sp \in SpokeLists, NEW rd \in Seq(Timer), NEW nodes \in SUBSET Timer,
           Wheel!LinkedAs(sp, rd, nodes), NEW t \in Timer
    PROVE  /\ Wheel!Drop(rd, t) \in Seq(Timer)
           /\ [s \in Wheel!Spokes |-> Wheel!Drop(sp[s], t)] \in SpokeLists
           /\ Wheel!LinkedAs([s \in Wheel!Spokes |-> Wheel!Drop(sp[s], t)], Wheel!Drop(rd, t), nodes \ {t})
<1>1. /\ Wheel!Drop(rd, t) \in Seq(Timer) /\ Wheel!Once(Wheel!Drop(rd, t))
      /\ \A x : Wheel!In(Wheel!Drop(rd, t), x) <=> Wheel!In(rd, x) /\ x # t
  BY InDrop DEF Wheel!LinkedAs
<1>2. \A s \in Wheel!Spokes :
        /\ Wheel!Drop(sp[s], t) \in Seq(Timer) /\ Wheel!Once(Wheel!Drop(sp[s], t))
        /\ \A x : Wheel!In(Wheel!Drop(sp[s], t), x) <=> Wheel!In(sp[s], x) /\ x # t
  <2> SUFFICES ASSUME NEW s \in Wheel!Spokes
               PROVE  /\ Wheel!Drop(sp[s], t) \in Seq(Timer) /\ Wheel!Once(Wheel!Drop(sp[s], t))
                      /\ \A x : Wheel!In(Wheel!Drop(sp[s], t), x) <=> Wheel!In(sp[s], x) /\ x # t
    OBVIOUS
  <2>1. sp[s] \in Seq(Timer) /\ Wheel!Once(sp[s])
    BY DEF SpokeLists, Wheel!LinkedAs
  <2> QED BY <2>1, InDrop
<1> DEFINE to == [s \in Wheel!Spokes |-> Wheel!Drop(sp[s], t)]
<1>3. to \in SpokeLists
  BY <1>2 DEF SpokeLists
<1>4. \A s \in Wheel!Spokes : Wheel!Once(to[s]) /\ \A x : Wheel!In(to[s], x) <=> Wheel!In(sp[s], x) /\ x # t
  BY <1>2
<1> HIDE DEF to
<1>5. Wheel!LinkedAs(to, Wheel!Drop(rd, t), nodes \ {t})
  BY <1>1, <1>4 DEF Wheel!LinkedAs
<1> QED BY <1>1, <1>3, <1>5 DEF to

(* The first node of the ready list leaves it. *)
LEMMA LinkedTail ==
    ASSUME NEW sp \in SpokeLists, NEW rd \in Seq(Timer), NEW nodes \in SUBSET Timer,
           Wheel!LinkedAs(sp, rd, nodes), rd # <<>>
    PROVE  /\ Tail(rd) \in Seq(Timer) /\ Head(rd) \in nodes
           /\ Wheel!LinkedAs(sp, Tail(rd), nodes \ {Head(rd)})
<1>1. /\ \A x : Wheel!In(Tail(rd), x) <=> Wheel!In(rd, x) /\ x # Head(rd)
      /\ Wheel!In(rd, Head(rd)) /\ Wheel!Once(Tail(rd))
  BY InTail DEF Wheel!LinkedAs
<1>2. Tail(rd) \in Seq(Timer) /\ Head(rd) \in Timer
  BY TailFacts
<1> QED BY <1>1, <1>2 DEF Wheel!LinkedAs

-----------------------------------------------------------------------------
(* A cascade deals every node out once, and loses none. *)

(* A node goes to the ready list of a record of the wheels. *)
LEMMA StateReady ==
    ASSUME NEW c \in WheelState, NEW t \in Timer
    PROVE  /\ [c EXCEPT !.ready = Append(@, t)].spokes = c.spokes
           /\ [c EXCEPT !.ready = Append(@, t)].index = c.index
           /\ [c EXCEPT !.ready = Append(@, t)].ready = Append(c.ready, t)
           /\ [c EXCEPT !.ready = Append(@, t)] \in WheelState
<1>1. Append(c.ready, t) \in Seq(Timer)
  BY DEF WheelState
<1>2. /\ [c EXCEPT !.ready = Append(@, t)].spokes = c.spokes
           /\ [c EXCEPT !.ready = Append(@, t)].index = c.index
           /\ [c EXCEPT !.ready = Append(@, t)].ready = Append(c.ready, t)
  BY DEF WheelState
<1>3. [c EXCEPT !.ready = Append(@, t)] \in WheelState
  BY <1>1 DEF WheelState
<1> QED BY <1>2, <1>3

(* The changes of such a record, by name. *)
PutIn(c, s, t) == [c EXCEPT !.spokes[s] = Append(@, t)]

Taken(c, s, w) == [c EXCEPT !.spokes[s] = <<>>, !.index[w] = @ + 1]

Zeroed(c, w) == [c EXCEPT !.index[w] = 0]

(* A node goes to a spoke of it. *)
LEMMA StateSpoke ==
    ASSUME NEW c \in WheelState, NEW t \in Timer, NEW s \in Wheel!Spokes
    PROVE  /\ PutIn(c, s, t).spokes = [c.spokes EXCEPT ![s] = Append(@, t)]
           /\ PutIn(c, s, t).index = c.index
           /\ PutIn(c, s, t).ready = c.ready
           /\ PutIn(c, s, t) \in WheelState
<1>1. [c.spokes EXCEPT ![s] = Append(@, t)] \in SpokeLists
  BY DEF WheelState, PutIn, SpokeLists
<1>2. /\ PutIn(c, s, t).spokes = [c.spokes EXCEPT ![s] = Append(@, t)]
           /\ PutIn(c, s, t).index = c.index
           /\ PutIn(c, s, t).ready = c.ready
  BY DEF WheelState, PutIn
<1>3. PutIn(c, s, t) \in WheelState
  BY <1>1 DEF WheelState, PutIn
<1> QED BY <1>2, <1>3

(* A spoke of it is emptied and its wheel moves on. *)
LEMMA StateTake ==
    ASSUME NEW c \in WheelState, NEW s \in Wheel!Spokes, NEW w \in Wheel!Wheels
    PROVE  /\ Taken(c, s, w).spokes = [c.spokes EXCEPT ![s] = <<>>]
           /\ Taken(c, s, w).index = [c.index EXCEPT ![w] = @ + 1]
           /\ Taken(c, s, w).ready = c.ready
           /\ Taken(c, s, w) \in WheelState
<1>1. [c.spokes EXCEPT ![s] = <<>>] \in SpokeLists /\ [c.index EXCEPT ![w] = @ + 1] \in [Wheel!Wheels -> Nat]
  BY DEF WheelState, Taken, SpokeLists
<1>2. /\ Taken(c, s, w).spokes = [c.spokes EXCEPT ![s] = <<>>]
      /\ Taken(c, s, w).index = [c.index EXCEPT ![w] = @ + 1]
      /\ Taken(c, s, w).ready = c.ready
  BY DEF WheelState, Taken
<1>3. Taken(c, s, w) \in WheelState
  BY <1>1 DEF WheelState, Taken
<1> QED BY <1>2, <1>3

(* A wheel of it starts again. *)
LEMMA StateZero ==
    ASSUME NEW c \in WheelState, NEW w \in Wheel!Wheels
    PROVE  /\ Zeroed(c, w).spokes = c.spokes /\ Zeroed(c, w).ready = c.ready
           /\ Zeroed(c, w).index = [c.index EXCEPT ![w] = 0]
           /\ Zeroed(c, w) \in WheelState
<1>1. [c.index EXCEPT ![w] = 0] \in [Wheel!Wheels -> Nat]
  BY DEF WheelState, Zeroed
<1>2. /\ Zeroed(c, w).spokes = c.spokes /\ Zeroed(c, w).ready = c.ready
      /\ Zeroed(c, w).index = [c.index EXCEPT ![w] = 0]
  BY DEF WheelState, Zeroed
<1>3. Zeroed(c, w) \in WheelState
  BY <1>1 DEF WheelState, Zeroed
<1> QED BY <1>2, <1>3

(* The wheels c hold each of nodes once, and no others. *)
Good(c, nodes) == c \in WheelState /\ Wheel!LinkedAs(c.spokes, c.ready, nodes)

(* DealOut puts a node that is in no list into one. *)
LEMMA DealOutTo ==
    ASSUME NEW c \in WheelState, NEW t \in Timer, due \in [Timer -> Int], lag \in Int
    PROVE  /\ Wheel!DealOut(t, c) \in WheelState /\ Wheel!DealOut(t, c).index = c.index
           /\ \A nodes \in SUBSET Timer :
                t \notin nodes /\ Good(c, nodes) => Good(Wheel!DealOut(t, c), nodes \cup {t})
<1>1. c.spokes \in SpokeLists /\ c.index \in [Wheel!Wheels -> Nat] /\ c.ready \in Seq(Timer)
  BY DEF WheelState
<1>2. CASE due[t] <= lag
  <2>1. Wheel!DealOut(t, c) = [c EXCEPT !.ready = Append(@, t)]
    BY <1>2 DEF Wheel!DealOut
  <2>2. /\ Wheel!DealOut(t, c).spokes = c.spokes /\ Wheel!DealOut(t, c).index = c.index
        /\ Wheel!DealOut(t, c).ready = Append(c.ready, t) /\ Wheel!DealOut(t, c) \in WheelState
    BY <2>1, StateReady
  <2> QED BY <2>2, <1>1, LinkedPutReady DEF Good
<1>3. CASE ~(due[t] <= lag)
  <2> DEFINE s == Wheel!SpokeFor(due[t] - lag, c.index)
  <2>1. due[t] - lag \in Nat
    BY <1>3
  <2>2. s \in Wheel!Spokes
    BY <2>1, <1>1, SpokeForIn
  <2>3. Wheel!DealOut(t, c) = PutIn(c, s, t)
    BY <1>3, Zenon DEF Wheel!DealOut, PutIn
  <2> HIDE DEF s
  <2>5. /\ Wheel!DealOut(t, c).spokes = [c.spokes EXCEPT ![s] = Append(@, t)]
        /\ Wheel!DealOut(t, c).index = c.index /\ Wheel!DealOut(t, c).ready = c.ready
        /\ Wheel!DealOut(t, c) \in WheelState
    BY <2>3, <2>2, StateSpoke
  <2>6. ASSUME NEW nodes \in SUBSET Timer, t \notin nodes, Good(c, nodes)
        PROVE  Wheel!LinkedAs([c.spokes EXCEPT ![s] = Append(@, t)], c.ready, nodes \cup {t})
    BY <2>2, <2>6, <1>1, LinkedPutSpoke DEF Good
  <2>7. ASSUME NEW nodes \in SUBSET Timer, t \notin nodes, Good(c, nodes)
        PROVE  Good(Wheel!DealOut(t, c), nodes \cup {t})
    BY <2>6, <2>7, <2>5, Zenon DEF Good
  <2> QED BY <2>5, <2>7
<1> QED BY <1>2, <1>3

(* CascadeWheel is the last of the wheels that come one from another, by a node dealt out. *)
WheelDealt(w, c, front, list, deals) ==
    /\ front = Taken(c, <<w, c.index[w]>>, w) /\ list = c.spokes[<<w, c.index[w]>>]
    /\ deals \in [0 .. Len(list) -> WheelState] /\ deals[0] = front
    /\ \A k \in 0 .. Len(list) - 1 : deals[k + 1] = Wheel!DealOut(list[k + 1], deals[k])
    /\ Wheel!CascadeWheel(w, c) = deals[Len(list)]

(* There are such wheels: the recursion that defines them has a value. *)
LEMMA CascadeWheelSteps ==
    ASSUME NEW c \in WheelState, NEW w \in Wheel!Wheels, c.index[w] < Wheel!Size(w),
           due \in [Timer -> Int], lag \in Int
    PROVE  \E front, list, deals : WheelDealt(w, c, front, list, deals)
<1> DEFINE spoke == <<w, c.index[w]>>
           list == c.spokes[spoke]
           front == [c EXCEPT !.spokes[spoke] = <<>>, !.index[w] = @ + 1]
           n == Len(list)
           Dealt(d) == d = [k \in 0 .. n |-> IF k = 0 THEN front ELSE Wheel!DealOut(list[k], d[k - 1])]
           deals == CHOOSE d : Dealt(d)
<1>1. c.spokes \in SpokeLists /\ c.index \in [Wheel!Wheels -> Nat] /\ c.ready \in Seq(Timer)
  BY DEF WheelState
<1>2. spoke \in Wheel!Spokes
  <2>1. c.index[w] \in Nat /\ w \in Wheel!Wheels
    BY <1>1
  <2> QED BY <2>1, SpokesAre
<1>3. list \in Seq(Timer) /\ n \in Nat /\ DOMAIN list = 1 .. n
  BY <1>1, <1>2 DEF SpokeLists
<1>4. front = Taken(c, spoke, w) /\ front \in WheelState
  <2>1. front = Taken(c, spoke, w)
    BY Zenon DEF Taken
  <2> HIDE DEF spoke, front
  <2>2. Taken(c, spoke, w) \in WheelState
    BY <1>2, StateTake, Zenon
  <2> QED BY <2>1, <2>2, Zenon
<1>5. Wheel!CascadeWheel(w, c) = deals[n]
  BY DEF Wheel!CascadeWheel
<1> HIDE DEF front, n, spoke, list
<1>6. Dealt(deals)
  <2> DEFINE step == [p \in Nat \X WheelState |->
                        IF p[1] + 1 \in 1 .. n THEN Wheel!DealOut(list[p[1] + 1], p[2]) ELSE p[2]]
  <2>1. step \in [Nat \X WheelState -> WheelState]
    <3>1. ASSUME NEW p \in Nat \X WheelState
          PROVE  (IF p[1] + 1 \in 1 .. n THEN Wheel!DealOut(list[p[1] + 1], p[2]) ELSE p[2]) \in WheelState
      <4>1. p[2] \in WheelState
        BY <3>1
      <4>2. p[1] + 1 \in 1 .. n => list[p[1] + 1] \in Timer
        BY <1>3
      <4> QED BY <4>1, <4>2, DealOutTo
    <3> QED BY <3>1
  <2> HIDE DEF step
  <2>2. PICK f : RecursUpto(f, n, WheelState, front, step)
    BY <2>1, <1>3, <1>4, RecursionUpto
  <2>20. f \in [0 .. n -> WheelState] /\ f[0] = front
    BY <2>2 DEF RecursUpto
  <2>3. ASSUME NEW k \in 0 .. n, k # 0 PROVE f[k] = Wheel!DealOut(list[k], f[k - 1])
    <3>1. k - 1 \in Nat /\ k - 1 \in 0 .. n /\ k - 1 \in 0 .. n - 1 /\ (k - 1) + 1 = k /\ k \in 1 .. n
      BY <2>3, <1>3
    <3>2. f[k - 1] \in WheelState
      BY <3>1, <2>20, Zenon
    <3>3. f[(k - 1) + 1] = step[<<k - 1, f[k - 1]>>]
      BY <2>2, <3>1 DEF RecursUpto
    <3>4. <<k - 1, f[k - 1]>> \in Nat \X WheelState
      BY <3>1, <3>2
    <3>5. step[<<k - 1, f[k - 1]>>] = Wheel!DealOut(list[(k - 1) + 1], f[k - 1])
      BY <3>1, <3>4 DEF step
    <3> QED BY <3>1, <3>3, <3>5
  <2>4. f = [k \in 0 .. n |-> IF k = 0 THEN front ELSE Wheel!DealOut(list[k], f[k - 1])]
    BY <2>20, <2>3
  <2>5. Dealt(f)
    BY <2>4
  <2> QED BY <2>5
<1> HIDE DEF deals
<1>7. /\ deals[0] = front
      /\ \A k \in 0 .. n - 1 : deals[k + 1] = Wheel!DealOut(list[k + 1], deals[k])
  <2>1. \A k \in 0 .. n : deals[k] = IF k = 0 THEN front ELSE Wheel!DealOut(list[k], deals[k - 1])
    BY <1>6
  <2>2. ASSUME NEW k \in 0 .. n - 1 PROVE k + 1 \in 0 .. n /\ k + 1 # 0 /\ (k + 1) - 1 = k
    BY <1>3
  <2>3. 0 \in 0 .. n
    BY <1>3
  <2> QED BY <2>1, <2>2, <2>3
<1>8. deals \in [0 .. n -> WheelState]
  <2> DEFINE S == {k \in 0 .. n : deals[k] \in WheelState}
  <2>1. 0 \in S
    BY <1>3, <1>4, <1>7
  <2>2. ASSUME NEW k \in 0 .. n - 1, k \in S PROVE k + 1 \in S
    <3>1. k + 1 \in 0 .. n /\ k + 1 \in 1 .. n /\ list[k + 1] \in Timer /\ deals[k] \in WheelState
      BY <1>3, <2>2
    <3>2. Wheel!DealOut(list[k + 1], deals[k]) \in WheelState
      BY <3>1, DealOutTo
    <3> QED BY <3>1, <3>2, <1>7
  <2> HIDE DEF S
  <2>3. 0 .. n \subseteq S
    BY <2>1, <2>2, <1>3, InductUpto
  <2>4. DOMAIN deals = 0 .. n /\ deals = [k \in 0 .. n |-> deals[k]]
    BY <1>6
  <2>5. \A k \in 0 .. n : deals[k] \in WheelState
    BY <2>3 DEF S
  <2> QED BY <2>4, <2>5
<1>9. WheelDealt(w, c, front, list, deals)
  BY <1>4, <1>5, <1>7, <1>8 DEF WheelDealt, n, list, spoke
<1> QED BY <1>9

(* CascadeWheel leaves every node in one list: it empties the spoke and deals its nodes out. *)
LEMMA CascadeWheelDeals ==
    ASSUME NEW c \in WheelState, NEW w \in Wheel!Wheels, c.index[w] < Wheel!Size(w),
           NEW nodes \in SUBSET Timer, Good(c, nodes),
           due \in [Timer -> Int], lag \in Int
    PROVE  /\ Good(Wheel!CascadeWheel(w, c), nodes)
           /\ Wheel!CascadeWheel(w, c).index = [c.index EXCEPT ![w] = @ + 1]
<1>0. PICK front, list, deals : WheelDealt(w, c, front, list, deals)
  BY CascadeWheelSteps
<1> DEFINE spoke == <<w, c.index[w]>>
           n == Len(list)
           Left(k) == {t \in nodes : \A i \in k + 1 .. n : list[i] # t}
<1>1. c.spokes \in SpokeLists /\ c.index \in [Wheel!Wheels -> Nat] /\ c.ready \in Seq(Timer)
  BY DEF WheelState
<1>2. spoke \in Wheel!Spokes /\ list = c.spokes[spoke] /\ front = Taken(c, spoke, w)
  <2>1. c.index[w] \in Nat /\ w \in Wheel!Wheels
    BY <1>1
  <2> QED BY <2>1, <1>0, SpokesAre DEF WheelDealt
<1>3. list \in Seq(Timer) /\ n \in Nat /\ DOMAIN list = 1 .. n /\ Wheel!Once(list)
  BY <1>1, <1>2 DEF SpokeLists, Wheel!LinkedAs, Good
<1>4. /\ front.spokes = [c.spokes EXCEPT ![spoke] = <<>>] /\ front.index = [c.index EXCEPT ![w] = @ + 1]
      /\ front.ready = c.ready /\ front \in WheelState
  <2> HIDE DEF spoke
  <2>1. /\ Taken(c, spoke, w).spokes = [c.spokes EXCEPT ![spoke] = <<>>]
        /\ Taken(c, spoke, w).index = [c.index EXCEPT ![w] = @ + 1]
        /\ Taken(c, spoke, w).ready = c.ready /\ Taken(c, spoke, w) \in WheelState
    BY <1>2, StateTake, Zenon
  <2> QED BY <2>1, <1>2, Zenon
<1>5. Wheel!CascadeWheel(w, c) = deals[n]
  BY <1>0 DEF WheelDealt
<1>50. /\ \A t \in nodes : Wheel!In(list, t) <=> \E i \in 1 .. n : list[i] = t
       /\ \A i \in 1 .. n : list[i] \in nodes
  <2>1. \A i \in 1 .. n : list[i] \in Timer /\ Wheel!In(list, list[i])
    BY <1>3 DEF Wheel!In
  <2>2. \A t \in Timer : Wheel!In(list, t) => t \in nodes
    BY <1>2 DEF Wheel!LinkedAs, Good
  <2>3. \A t \in nodes : Wheel!In(list, t) <=> \E i \in 1 .. n : list[i] = t
    BY <1>3 DEF Wheel!In
  <2> HIDE DEF n
  <2> QED BY <2>1, <2>2, <2>3
<1>51. Good(front, Left(0))
  <2>1. Left(0) = {t \in nodes : ~Wheel!In(list, t)}
    <3> HIDE DEF n
    <3> QED BY <1>3, <1>50
  <2>2. Wheel!LinkedAs([c.spokes EXCEPT ![spoke] = <<>>], c.ready, {t \in nodes : ~Wheel!In(list, t)})
    <3> HIDE DEF spoke
    <3> QED BY <1>1, <1>2, LinkedTake DEF Good
  <2> HIDE DEF spoke, n, Left
  <2> QED BY <2>1, <2>2, <1>4 DEF Good
<1> HIDE DEF n, spoke
<1>7. /\ deals[0] = front
      /\ \A k \in 0 .. n - 1 : deals[k + 1] = Wheel!DealOut(list[k + 1], deals[k])
  BY <1>0 DEF WheelDealt, n
<1> DEFINE S == {k \in 0 .. n : Good(deals[k], Left(k)) /\ deals[k].index = front.index}
<1>8. 0 \in S
  <2> HIDE DEF Left
  <2> QED BY <1>51, <1>3, <1>7
<1>9. ASSUME NEW k \in 0 .. n - 1, k \in S PROVE k + 1 \in S
  <2>1. /\ k + 1 \in 1 .. n /\ k + 1 \in 0 .. n /\ list[k + 1] \in Timer
        /\ deals[k + 1] = Wheel!DealOut(list[k + 1], deals[k])
    BY <1>3, <1>7
  <2>2. deals[k] \in WheelState /\ deals[k].index = front.index /\ Good(deals[k], Left(k))
    BY <1>9 DEF Good
  <2>3. Left(k) \in SUBSET Timer /\ list[k + 1] \notin Left(k) /\ Left(k + 1) = Left(k) \cup {list[k + 1]}
    <3>1. list[k + 1] \notin Left(k)
      BY <2>1, <1>3
    <3>2. ASSUME NEW t \in nodes PROVE t \in Left(k + 1) <=> t \in Left(k) \/ t = list[k + 1]
      <4>1. CASE t = list[k + 1]
        BY <4>1, <2>1, <1>3, SMTT(30) DEF Wheel!Once
      <4>2. CASE t # list[k + 1]
        BY <4>2, <2>1, <1>3
      <4> QED BY <4>1, <4>2
    <3>3. list[k + 1] \in nodes
      BY <2>1, <1>50
    <3> QED BY <3>1, <3>2, <3>3
  <2> HIDE DEF Left
  <2>4. /\ Good(Wheel!DealOut(list[k + 1], deals[k]), Left(k) \cup {list[k + 1]})
        /\ Wheel!DealOut(list[k + 1], deals[k]).index = deals[k].index
    BY <2>1, <2>2, <2>3, DealOutTo
  <2> QED BY <2>1, <2>2, <2>3, <2>4
<1>10. n \in S
  <2>1. n \in Nat /\ n \in 0 .. n
    BY <1>3
  <2> HIDE DEF S
  <2> QED BY <2>1, <1>8, <1>9, InductUpto
<1>11. Left(n) = nodes
  BY <1>3
<1> HIDE DEF Left
<1> QED BY <1>4, <1>5, <1>10, <1>11

(* The wheels when a cascade has come as far as wheel n. *)
Up(n, nodes) == {c \in WheelState : /\ Good(c, nodes) /\ c.index[n] <= Wheel!Size(n)
                                    /\ \A v \in Wheel!Wheels : v # n => c.index[v] < Wheel!Size(v)}

(* What the cascade does next. *)
Moved(n, c) == IF Wheel!Round(n, c) THEN Wheel!CascadeWheel(n + 1, Wheel!Zero(n, c)) ELSE c

(* A wheel that has come round starts again, and all stand on spokes they have. *)
LEMMA ZeroIn ==
    ASSUME NEW nodes \in SUBSET Timer, NEW n \in Wheel!Wheels, NEW c \in Up(n, nodes)
    PROVE  /\ Good(Wheel!Zero(n, c), nodes)
           /\ \A v \in Wheel!Wheels : Wheel!Zero(n, c).index[v] < Wheel!Size(v)
<1>1. /\ c \in WheelState /\ Good(c, nodes) /\ c.index \in [Wheel!Wheels -> Nat]
      /\ \A v \in Wheel!Wheels : v # n => c.index[v] < Wheel!Size(v)
  BY DEF Up, WheelState
<1>2. CASE Wheel!Round(n, c)
  <2>1. Wheel!Zero(n, c) = Zeroed(c, n)
    BY <1>2, Zenon DEF Wheel!Zero, Zeroed
  <2>2. /\ Zeroed(c, n).spokes = c.spokes /\ Zeroed(c, n).ready = c.ready
        /\ Zeroed(c, n).index = [c.index EXCEPT ![n] = 0] /\ Zeroed(c, n) \in WheelState
    BY <1>1, StateZero, Zenon
  <2>3. Good(Zeroed(c, n), nodes)
    BY <1>1, <2>2, Zenon DEF Good
  <2> DEFINE ix == [c.index EXCEPT ![n] = 0]
  <2>4. \A v \in Wheel!Wheels : ix[v] < Wheel!Size(v)
    BY <1>1, WheelConstants
  <2> HIDE DEF ix
  <2>5. Zeroed(c, n).index = ix
    BY <2>2 DEF ix
  <2> QED BY <2>1, <2>3, <2>4, <2>5
<1>3. CASE ~Wheel!Round(n, c)
  <2>1. Wheel!Zero(n, c) = c
    BY <1>3 DEF Wheel!Zero
  <2>2. c.index[n] < Wheel!Size(n)
    BY <1>3, <1>1, WheelConstants DEF Wheel!Round
  <2> QED BY <2>1, <2>2, <1>1
<1> QED BY <1>2, <1>3

(* The next wheel has a spoke to deal out, and the cascade goes on to it. *)
LEMMA MovedUp ==
    ASSUME NEW nodes \in SUBSET Timer, NEW n \in Wheel!Wheels, n + 1 \in Wheel!Wheels, NEW c \in Up(n, nodes),
           due \in [Timer -> Int], lag \in Int
    PROVE  Moved(n, c) \in Up(n + 1, nodes)
<1>1. /\ c \in WheelState /\ Good(c, nodes) /\ c.index \in [Wheel!Wheels -> Nat]
      /\ \A v \in Wheel!Wheels : v # n => c.index[v] < Wheel!Size(v)
  BY DEF Up, WheelState
<1>2. CASE Wheel!Round(n, c)
  <2> DEFINE z == Wheel!Zero(n, c)
             d == Wheel!CascadeWheel(n + 1, z)
  <2>1. Good(z, nodes) /\ \A v \in Wheel!Wheels : z.index[v] < Wheel!Size(v)
    BY ZeroIn
  <2>2. z \in WheelState
    BY <2>1 DEF Good
  <2> HIDE DEF z
  <2>3. Good(d, nodes) /\ d.index = [z.index EXCEPT ![n + 1] = @ + 1]
    BY <2>1, <2>2, CascadeWheelDeals
  <2>4. d \in WheelState /\ z.index \in [Wheel!Wheels -> Nat]
    BY <2>2, <2>3 DEF Good, WheelState
  <2> HIDE DEF d
  <2>5. d.index[n + 1] <= Wheel!Size(n + 1) /\ \A v \in Wheel!Wheels : v # n + 1 => d.index[v] < Wheel!Size(v)
    <3>1. z.index[n + 1] \in Nat /\ z.index[n + 1] < Wheel!Size(n + 1) /\ Wheel!Size(n + 1) \in Nat
      BY <2>1, <2>4, WheelConstants
    <3>2. d.index[n + 1] = z.index[n + 1] + 1 /\ \A v \in Wheel!Wheels : v # n + 1 => d.index[v] = z.index[v]
      BY <2>3, <2>4
    <3> QED BY <3>1, <3>2, <2>1
  <2>6. Moved(n, c) = d
    BY <1>2 DEF Moved, d, z
  <2> QED BY <2>3, <2>4, <2>5, <2>6 DEF Up
<1>3. CASE ~Wheel!Round(n, c)
  <2>1. Moved(n, c) = c
    BY <1>3 DEF Moved
  <2>2. c.index[n] < Wheel!Size(n)
    BY <1>3, <1>1, WheelConstants DEF Wheel!Round
  <2>3. c.index[n + 1] <= Wheel!Size(n + 1) /\ \A v \in Wheel!Wheels : v # n + 1 => c.index[v] < Wheel!Size(v)
    <3>1. n + 1 # n /\ c.index[n + 1] < Wheel!Size(n + 1) /\ c.index[n + 1] \in Nat /\ Wheel!Size(n + 1) \in Nat
      BY <1>1, WheelConstants
    <3> QED BY <3>1, <2>2, <1>1
  <2> QED BY <2>1, <2>3, <1>1 DEF Up
<1> QED BY <1>2, <1>3

(* A cascade is the last of the wheels that come one from another, by a move up. *)
LEMMA CascadeSteps ==
    ASSUME NEW nodes \in SUBSET Timer, NEW turned \in Up(0, nodes), due \in [Timer -> Int], lag \in Int
    PROVE  \E f : /\ f[0] = turned
                  /\ \A k \in 0 .. WHEEL_NUM - 1 : f[k] \in Up(k, nodes)
                  /\ \A k \in 0 .. WHEEL_NUM - 2 : f[k + 1] = Moved(k, f[k])
                  /\ Wheel!Cascade(turned) = Wheel!Zero(WHEEL_NUM - 1, f[WHEEL_NUM - 1])
<1> DEFINE n == WHEEL_NUM - 1
           After(f) == f = [w \in Wheel!Wheels |->
                              IF w = 0 THEN turned
                              ELSE IF Wheel!Round(w - 1, f[w - 1])
                                THEN Wheel!CascadeWheel(w, Wheel!Zero(w - 1, f[w - 1]))
                                ELSE f[w - 1]]
           after == CHOOSE f : After(f)
           step == [p \in Nat \X WheelState |->
                      IF p[1] \in 0 .. n - 1 /\ p[2] \in Up(p[1], nodes) THEN Moved(p[1], p[2]) ELSE p[2]]
<1>1. n \in Nat /\ Wheel!Wheels = 0 .. n /\ turned \in WheelState
  BY WheelConstants DEF Up
<1>2. Wheel!Cascaded(turned) = after[n]
  BY DEF Wheel!Cascaded
<1> HIDE DEF n, after
<1>3. step \in [Nat \X WheelState -> WheelState]
  <2>1. ASSUME NEW p \in Nat \X WheelState
        PROVE  (IF p[1] \in 0 .. n - 1 /\ p[2] \in Up(p[1], nodes) THEN Moved(p[1], p[2]) ELSE p[2]) \in WheelState
    <3>1. CASE p[1] \in 0 .. n - 1 /\ p[2] \in Up(p[1], nodes)
      <4>1. p[1] \in Wheel!Wheels /\ p[1] + 1 \in Wheel!Wheels
        BY <3>1, <1>1
      <4>2. Moved(p[1], p[2]) \in Up(p[1] + 1, nodes)
        BY <3>1, <4>1, MovedUp
      <4>3. Moved(p[1], p[2]) \in WheelState
        BY <4>2, Zenon DEF Up
      <4> QED BY <3>1, <4>3
    <3>2. CASE ~(p[1] \in 0 .. n - 1 /\ p[2] \in Up(p[1], nodes))
      BY <3>2
    <3> QED BY <3>1, <3>2
  <2> QED BY <2>1
<1> HIDE DEF step
<1>4. PICK f : RecursUpto(f, n, WheelState, turned, step)
  BY <1>1, <1>3, RecursionUpto
<1>5. f \in [0 .. n -> WheelState] /\ f[0] = turned /\ \A k \in 0 .. n - 1 : f[k + 1] = step[<<k, f[k]>>]
  BY <1>4 DEF RecursUpto
<1>6. ASSUME NEW k \in 0 .. n - 1, f[k] \in Up(k, nodes) PROVE f[k + 1] = Moved(k, f[k])
  <2>1. k \in Nat /\ f[k] \in WheelState
    BY <1>6, <1>1 DEF Up
  <2>2. <<k, f[k]>> \in Nat \X WheelState /\ <<k, f[k]>>[1] = k /\ <<k, f[k]>>[2] = f[k]
    BY <2>1
  <2>3. step[<<k, f[k]>>] = Moved(k, f[k])
    BY <2>2, <1>6 DEF step
  <2> QED BY <2>3, <1>5
<1> DEFINE S == {k \in 0 .. n : f[k] \in Up(k, nodes)}
<1>7. 0 .. n \subseteq S
  <2>1. 0 \in S
    BY <1>1, <1>5
  <2>2. ASSUME NEW k \in 0 .. n - 1, k \in S PROVE k + 1 \in S
    <3>1. k \in Wheel!Wheels /\ k + 1 \in Wheel!Wheels /\ f[k] \in Up(k, nodes)
      BY <1>1, <2>2
    <3>2. Moved(k, f[k]) \in Up(k + 1, nodes)
      BY <3>1, MovedUp
    <3>3. f[k + 1] = Moved(k, f[k])
      BY <3>1, <1>6
    <3> QED BY <3>1, <3>2, <3>3, <1>1
  <2> HIDE DEF S
  <2> QED BY <2>1, <2>2, <1>1, InductUpto
<1>8. After(f)
  <2>1. ASSUME NEW w \in 0 .. n, w # 0
        PROVE  f[w] = IF Wheel!Round(w - 1, f[w - 1]) THEN Wheel!CascadeWheel(w, Wheel!Zero(w - 1, f[w - 1]))
                      ELSE f[w - 1]
    <3>1. w - 1 \in 0 .. n - 1 /\ (w - 1) + 1 = w /\ w - 1 \in 0 .. n
      BY <2>1, <1>1
    <3>2. f[w - 1] \in Up(w - 1, nodes)
      BY <3>1, <1>7
    <3>3. f[(w - 1) + 1] = Moved(w - 1, f[w - 1])
      BY <3>1, <3>2, <1>6
    <3> QED BY <3>1, <3>3 DEF Moved
  <2>2. f = [w \in 0 .. n |->
               IF w = 0 THEN turned
               ELSE IF Wheel!Round(w - 1, f[w - 1]) THEN Wheel!CascadeWheel(w, Wheel!Zero(w - 1, f[w - 1]))
               ELSE f[w - 1]]
    BY <1>5, <2>1
  <2> QED BY <2>2, <1>1
<1> HIDE DEF After
<1>9. After(after)
  BY <1>8 DEF after
<1>10. ASSUME NEW g, After(g) PROVE \A k \in 0 .. n : g[k] = f[k]
  <2> DEFINE T == {k \in 0 .. n : g[k] = f[k]}
  <2>0. \A h : After(h) => h[0] = turned /\ \A k \in 0 .. n - 1 : h[k + 1] = Moved(k, h[k])
    <3> SUFFICES ASSUME NEW h, After(h) PROVE h[0] = turned /\ \A k \in 0 .. n - 1 : h[k + 1] = Moved(k, h[k])
      OBVIOUS
    <3>1. \A w \in 0 .. n : h[w] = IF w = 0 THEN turned
                           ELSE IF Wheel!Round(w - 1, h[w - 1]) THEN Wheel!CascadeWheel(w, Wheel!Zero(w - 1, h[w - 1]))
                           ELSE h[w - 1]
      BY <1>1 DEF After
    <3>2. h[0] = turned
      BY <3>1, <1>1
    <3>3. ASSUME NEW k \in 0 .. n - 1 PROVE h[k + 1] = Moved(k, h[k])
      <4>1. k + 1 \in 0 .. n /\ k + 1 # 0 /\ (k + 1) - 1 = k
        BY <1>1
      <4> QED BY <4>1, <3>1 DEF Moved
    <3> QED BY <3>2, <3>3
  <2>1. 0 \in T
    BY <2>0, <1>10, <1>5, <1>1
  <2>2. ASSUME NEW k \in 0 .. n - 1, k \in T PROVE k + 1 \in T
    <3>1. g[k + 1] = Moved(k, g[k]) /\ f[k + 1] = Moved(k, f[k])
      BY <2>0, <1>10, <1>8
    <3>2. g[k] = f[k] /\ k + 1 \in 0 .. n
      BY <2>2, <1>1
    <3> QED BY <3>1, <3>2
  <2> HIDE DEF T
  <2>3. 0 .. n \subseteq T
    BY <2>1, <2>2, <1>1, InductUpto
  <2> QED BY <2>3 DEF T
<1>11. after[n] = f[n]
  <2>1. n \in 0 .. n
    BY <1>1
  <2> QED BY <2>1, <1>9, <1>10
<1>12. Wheel!Cascade(turned) = Wheel!Zero(n, after[n])
  BY <1>2 DEF Wheel!Cascade, n
<1>13. \A k \in 0 .. n - 1 : f[k + 1] = Moved(k, f[k])
  <2>1. ASSUME NEW k \in 0 .. n - 1 PROVE f[k + 1] = Moved(k, f[k])
    <3>1. k \in 0 .. n
      BY <1>1
    <3>2. f[k] \in Up(k, nodes)
      BY <3>1, <1>7
    <3> QED BY <3>2, <1>6
  <2> QED BY <2>1
<1>14. \A k \in 0 .. n : f[k] \in Up(k, nodes)
  BY <1>7
<1>15. n - 1 = WHEEL_NUM - 2 /\ n = WHEEL_NUM - 1
  BY WheelConstants DEF n
<1> QED BY <1>5, <1>11, <1>12, <1>13, <1>14, <1>15

(* A cascade, through any number of wheels, leaves every node in one list and every wheel on a spoke it has. *)
LEMMA CascadeDeals ==
    ASSUME NEW nodes \in SUBSET Timer, NEW turned \in Up(0, nodes), due \in [Timer -> Int], lag \in Int
    PROVE  /\ Good(Wheel!Cascade(turned), nodes)
           /\ \A v \in Wheel!Wheels : Wheel!Cascade(turned).index[v] < Wheel!Size(v)
<1>1. PICK f : /\ \A k \in 0 .. WHEEL_NUM - 1 : f[k] \in Up(k, nodes)
               /\ Wheel!Cascade(turned) = Wheel!Zero(WHEEL_NUM - 1, f[WHEEL_NUM - 1])
  BY CascadeSteps, ZenonT(30)
<1>2. WHEEL_NUM - 1 \in 0 .. WHEEL_NUM - 1 /\ WHEEL_NUM - 1 \in Wheel!Wheels
  BY WheelConstants
<1>3. f[WHEEL_NUM - 1] \in Up(WHEEL_NUM - 1, nodes)
  BY <1>1, <1>2
<1> QED BY <1>1, <1>2, <1>3, ZeroIn

-----------------------------------------------------------------------------
(* The inductive invariant. *)

(* Linked needs the types; TimerService needs that no timer is called inside a callback, and
   the type of lag that a turn never takes the wheels further than the clock they began with. *)
WheelInv ==
    /\ Wheel!TypeOK /\ Wheel!Linked
    /\ running = NoTimer <=> phase # "callback"
    /\ lag >= loops * GRANULARITY - MaxBack

(* The invariant holds of empty wheels. *)
LEMMA WheelInit == Wheel!Init => WheelInv
<1> SUFFICES ASSUME Wheel!Init PROVE WheelInv
  OBVIOUS
<1>1. Wheel!TypeOK
  BY WheelConstants DEF Wheel!Init, Wheel!TypeOK
<1>2. Wheel!Linked
  BY DEF Wheel!Init, Wheel!Linked, Wheel!LinkedAs, Wheel!Once, Wheel!In
<1>3. running = NoTimer /\ phase # "callback" /\ lag >= loops * GRANULARITY - MaxBack
  BY WheelConstants DEF Wheel!Init
<1> QED BY <1>1, <1>2, <1>3 DEF WheelInv

(* AddTimer puts a timer that is in no list into one. *)
LEMMA AddTimerPuts ==
    ASSUME NEW t \in Timer, NEW w \in SpokeLists, NEW nodes \in SUBSET Timer, t \notin nodes,
           NEW rd \in Seq(Timer), Wheel!LinkedAs(w, rd, nodes), Wheel!TypeOK, timernode \cup {t} = nodes \cup {t},
           Wheel!AddTimer(t, w)
    PROVE  /\ spokes' \in SpokeLists /\ due' \in [Timer -> Int] /\ timernode' \in SUBSET Timer
           /\ Wheel!LinkedAs(spokes', rd, timernode')
<1> DEFINE s == Wheel!SpokeFor(interval[t], spokeindex)
<1>1. s \in Wheel!Spokes
  <2>1. interval[t] \in Nat /\ spokeindex \in [Wheel!Wheels -> Nat]
    BY WheelConstants DEF Wheel!TypeOK
  <2> QED BY <2>1, SpokeForIn
<1>2. spokes' = [w EXCEPT ![s] = Append(@, t)] /\ due' = [due EXCEPT ![t] = lag + interval[t]]
      /\ timernode' = nodes \cup {t}
  BY DEF Wheel!AddTimer
<1> HIDE DEF s
<1>3. spokes' \in SpokeLists
  BY <1>1, <1>2 DEF SpokeLists
<1>4. due' \in [Timer -> Int]
  <2>0. due \in [Timer -> Int] /\ lag \in -MaxBack .. MaxLag /\ interval \in [Timer -> Intervals]
    BY Zenon DEF Wheel!TypeOK
  <2>1. lag \in Int /\ interval[t] \in Int
    <3>1. lag \in Int
      BY <2>0, WheelConstants
    <3>2. interval[t] \in Intervals /\ Intervals \subseteq Nat
      BY <2>0, WheelConstants
    <3>3. interval[t] \in Nat
      BY <3>2, Zenon
    <3> QED BY <3>1, <3>3
  <2>2. lag + interval[t] \in Int
    BY <2>1
  <2> QED BY <1>2, <2>0, <2>2
<1>5. Wheel!LinkedAs([w EXCEPT ![s] = Append(@, t)], rd, nodes \cup {t})
  BY <1>1, LinkedPutSpoke
<1> QED BY <1>2, <1>3, <1>4, <1>5

(* The wheels when the spoke of wheel 0 is ready and the wheel has moved on. *)
Turning == [spokes |-> [spokes EXCEPT ![<<0, spokeindex[0]>>] = <<>>],
            index  |-> [spokeindex EXCEPT ![0] = @ + 1],
            ready  |-> readynodes \o spokes[<<0, spokeindex[0]>>]]

(* What these wheels hold, by name. *)
LEMMA TurningIs ==
    /\ Turning.spokes = [spokes EXCEPT ![<<0, spokeindex[0]>>] = <<>>]
    /\ Turning.index = [spokeindex EXCEPT ![0] = @ + 1]
    /\ Turning.ready = readynodes \o spokes[<<0, spokeindex[0]>>]
BY DEF Turning

(* A cascade can begin with them: they hold every node once, and only wheel 0 may have come round. *)
LEMMA TurningUp == WheelInv => Turning \in Up(0, timernode)
<1> SUFFICES ASSUME WheelInv PROVE Turning \in Up(0, timernode)
  OBVIOUS
<1> DEFINE spoke == <<0, spokeindex[0]>>
           list == spokes[spoke]
           sp == [spokes EXCEPT ![spoke] = <<>>]
           ix == [spokeindex EXCEPT ![0] = @ + 1]
           nodes == {t \in timernode : ~Wheel!In(list, t)}
<1>0. /\ spokes \in SpokeLists /\ readynodes \in Seq(Timer) /\ timernode \in SUBSET Timer
      /\ spokeindex \in [Wheel!Wheels -> Nat] /\ \A w \in Wheel!Wheels : spokeindex[w] < Wheel!Size(w)
      /\ Wheel!LinkedAs(spokes, readynodes, timernode)
  BY Zenon DEF WheelInv, Wheel!TypeOK, Wheel!Linked, SpokeLists
<1>1. spoke \in Wheel!Spokes /\ 0 \in Wheel!Wheels /\ spokeindex[0] \in Nat
  BY <1>0, SpokesAre, WheelConstants
<1>2. list \in Seq(Timer) /\ Wheel!Once(list) /\ readynodes \o list \in Seq(Timer)
  BY <1>1, <1>0, InConcat DEF SpokeLists, Wheel!LinkedAs
<1>3. sp \in SpokeLists
  <2> HIDE DEF spoke
  <2> QED BY <1>1, <1>0 DEF SpokeLists
<1>4. /\ ix \in [Wheel!Wheels -> Nat] /\ ix[0] <= Wheel!Size(0)
      /\ \A v \in Wheel!Wheels : v # 0 => ix[v] < Wheel!Size(v)
  <2>1. ix \in [Wheel!Wheels -> Nat] /\ ix[0] = spokeindex[0] + 1
        /\ \A v \in Wheel!Wheels : v # 0 => ix[v] = spokeindex[v]
    BY <1>0, <1>1
  <2> HIDE DEF ix
  <2>2. ix[0] <= Wheel!Size(0)
    BY <2>1, <1>0, <1>1, WheelConstants
  <2> QED BY <2>1, <2>2, <1>0
<1>5. Wheel!LinkedAs(sp, readynodes \o list, timernode)
  <2>1. Wheel!LinkedAs(sp, readynodes, nodes)
    <3> HIDE DEF spoke
    <3> QED BY <1>0, <1>1, LinkedTake
  <2>2. nodes \in SUBSET Timer /\ \A t \in nodes : ~Wheel!In(list, t)
    BY <1>0
  <2>3. nodes \cup {t \in Timer : Wheel!In(list, t)} = timernode
    <3>1. \A t \in Timer : Wheel!In(list, t) => t \in timernode
      BY <1>0, <1>1 DEF Wheel!LinkedAs
    <3> HIDE DEF list
    <3> QED BY <3>1, <1>0
  <2> HIDE DEF sp, nodes, list
  <2>4. Wheel!LinkedAs(sp, readynodes \o list, nodes \cup {t \in Timer : Wheel!In(list, t)})
    BY <2>1, <2>2, <1>2, <1>3, <1>0, LinkedAppend
  <2> QED BY <2>3, <2>4
<1>6. Turning.spokes = sp /\ Turning.index = ix /\ Turning.ready = readynodes \o list
  BY TurningIs
<1> HIDE DEF sp, ix, list
<1>7. Turning \in WheelState
  <2>1. Turning = [spokes |-> sp, index |-> ix, ready |-> readynodes \o list]
    BY Zenon DEF Turning, sp, ix, list, spoke
  <2> QED BY <2>1, <1>2, <1>3, <1>4 DEF WheelState
<1> QED BY <1>4, <1>5, <1>6, <1>7 DEF Up, Good

(* Every step of DetectTimerList, of the timers' users and of the clock keeps the invariant. *)
LEMMA WheelStep == WheelInv /\ [Wheel!Next]_Wheel!vars => WheelInv'
<1> SUFFICES ASSUME WheelInv, [Wheel!Next]_Wheel!vars PROVE WheelInv'
  OBVIOUS
<1>0. /\ lag \in -MaxBack .. MaxLag /\ lag \in Int /\ due \in [Timer -> Int] /\ interval \in [Timer -> Intervals]
      /\ spokes \in SpokeLists /\ readynodes \in Seq(Timer)
      /\ spokeindex \in [Wheel!Wheels -> Nat] /\ \A w \in Wheel!Wheels : spokeindex[w] < Wheel!Size(w)
      /\ timernode \in SUBSET Timer /\ loops \in Nat
      /\ phase \in {"idle", "detecting", "callback"} /\ running \in Timer \cup {NoTimer}
      /\ running = NoTimer <=> phase # "callback"
      /\ lag >= loops * GRANULARITY - MaxBack
      /\ Wheel!LinkedAs(spokes, readynodes, timernode)
      /\ Wheel!TypeOK
  BY WheelConstants DEF WheelInv, Wheel!TypeOK, Wheel!Linked, SpokeLists
<1> DEFINE Types == /\ lag' \in -MaxBack .. MaxLag /\ due' \in [Timer -> Int] /\ interval' \in [Timer -> Intervals]
                    /\ spokes' \in SpokeLists /\ readynodes' \in Seq(Timer)
                    /\ spokeindex' \in [Wheel!Wheels -> Nat] /\ \A w \in Wheel!Wheels : spokeindex'[w] < Wheel!Size(w)
                    /\ timernode' \in SUBSET Timer /\ loops' \in Nat
                    /\ phase' \in {"idle", "detecting", "callback"} /\ running' \in Timer \cup {NoTimer}
           Rest == /\ running' = NoTimer <=> phase' # "callback"
                   /\ lag' >= loops' * GRANULARITY - MaxBack
<1> SUFFICES Types /\ Rest /\ Wheel!LinkedAs(spokes', readynodes', timernode')
  BY DEF WheelInv, Wheel!TypeOK, Wheel!Linked, SpokeLists
<1>1. CASE Wheel!Detect
  <2>1. loops' \in Nat /\ lag' >= loops' * GRANULARITY - MaxBack /\ lag' = lag
    <3> DEFINE q == lag \div GRANULARITY
    <3>1. lag' = lag /\ loops' = IF lag > 0 THEN q ELSE 0
      BY <1>1 DEF Wheel!Detect
    <3>2. lag > 0 => q \in Nat /\ lag >= q * GRANULARITY
      <4> SUFFICES ASSUME lag > 0 PROVE q \in Nat /\ q * GRANULARITY <= lag
        <5> HIDE DEF q
        <5> QED BY <1>0, WheelConstants, Product
      <4>1. lag \in Nat /\ GRANULARITY \in Nat \ {0}
        BY <1>0, WheelConstants
      <4> QED BY <4>1, Quotient
    <3> HIDE DEF q
    <3> QED BY <3>1, <3>2, <1>0, WheelConstants
  <2>2. phase = "idle" /\ phase' = "detecting"
        /\ UNCHANGED <<due, interval, spokes, spokeindex, readynodes, timernode, running>>
    BY <1>1 DEF Wheel!Detect, Wheel!lists
  <2> QED BY <2>1, <2>2, <1>0
<1>2. CASE Wheel!Turn
  <2> DEFINE c == Wheel!Cascade(Turning)
  <2>3. Turning \in Up(0, timernode)
    BY TurningUp
  <2>4. Good(c, timernode) /\ \A v \in Wheel!Wheels : c.index[v] < Wheel!Size(v)
    BY <2>3, <1>0, CascadeDeals
  <2>5. /\ phase = "detecting" /\ loops > 0
        /\ spokes' = c.spokes /\ spokeindex' = c.index /\ readynodes' = c.ready
        /\ lag' = lag - GRANULARITY /\ loops' = loops - 1
        /\ due' = [t \in Timer |-> IF t \in timernode THEN Wheel!Sooner(due[t]) ELSE 0]
        /\ UNCHANGED <<interval, timernode, phase, running>>
    BY <1>2 DEF Wheel!Turn, Turning, c
  <2>6. /\ c.spokes \in SpokeLists /\ c.index \in [Wheel!Wheels -> Nat] /\ c.ready \in Seq(Timer)
        /\ Wheel!LinkedAs(c.spokes, c.ready, timernode)
    BY <2>4 DEF Good, WheelState
  <2> HIDE DEF c
  <2>7. due' \in [Timer -> Int]
    <3>1. \A d \in Int : Wheel!Sooner(d) \in Int
      BY WheelConstants DEF Wheel!Sooner
    <3> QED BY <3>1, <2>5, <1>0
  <2>8. lag' \in -MaxBack .. MaxLag /\ loops' \in Nat /\ lag' >= loops' * GRANULARITY - MaxBack
    <3>1. (loops - 1) * GRANULARITY = loops * GRANULARITY - GRANULARITY
      BY <1>0, WheelConstants
    <3>2. loops' \in Nat /\ lag' >= loops' * GRANULARITY - MaxBack /\ lag' \in Int /\ lag' <= MaxLag
      BY <2>5, <3>1, <1>0, WheelConstants
    <3>3. loops' * GRANULARITY \in Nat
      BY <3>2, WheelConstants, Product
    <3>4. PICK d \in Nat : d = loops' * GRANULARITY
      BY <3>3
    <3>5. lag' >= d - MaxBack
      BY <3>2, <3>4
    <3>6. lag' \in Int /\ lag' <= MaxLag
      BY <3>2
    <3>7. lag' \in -MaxBack .. MaxLag
      BY <3>5, <3>6, WheelConstants
    <3> QED BY <3>2, <3>7
  <2> QED BY <2>4, <2>5, <2>6, <2>7, <2>8, <1>0
<1>3. CASE Wheel!Call
  <2> DEFINE t == Head(readynodes)
             left == timernode \ {t}
  <2>1. /\ phase = "detecting" /\ readynodes # <<>> /\ Wheel!Callback(t) /\ running' = t
        /\ readynodes' = Tail(readynodes) /\ phase' = "callback"
        /\ UNCHANGED <<lag, interval, spokeindex, loops>>
    BY <1>3 DEF Wheel!Call
  <2>2. /\ Tail(readynodes) \in Seq(Timer) /\ t \in timernode /\ t \in Timer /\ t # NoTimer
        /\ Wheel!LinkedAs(spokes, Tail(readynodes), left)
    BY <2>1, <1>0, LinkedTail, WheelConstants
  <2> HIDE DEF t
  <2>3. /\ spokes' \in SpokeLists /\ due' \in [Timer -> Int] /\ timernode' \in SUBSET Timer
        /\ Wheel!LinkedAs(spokes', Tail(readynodes), timernode')
    <3>1. CASE t \in Circle
      <4>1. Wheel!AddTimer(t, spokes)
        BY <3>1, <2>1 DEF Wheel!Callback
      <4>2. t \notin left /\ left \in SUBSET Timer /\ timernode \cup {t} = left \cup {t}
        BY <1>0
      <4> HIDE DEF left
      <4> QED BY <4>1, <4>2, <2>2, <1>0, AddTimerPuts
    <3>2. CASE t \notin Circle
      <4>1. timernode' = left /\ due' = [due EXCEPT ![t] = 0] /\ spokes' = spokes
        BY <3>2, <2>1 DEF Wheel!Callback
      <4>2. due' \in [Timer -> Int]
        <5>1. due \in [Timer -> Int]
          BY <1>0
        <5>2. t \in Timer
          BY <2>2
        <5> QED BY <4>1, <5>1, <5>2
      <4> QED BY <4>1, <4>2, <2>2, <1>0
    <3> QED BY <3>1, <3>2
  <2> QED BY <2>1, <2>2, <2>3, <1>0
<1>4. CASE Wheel!CallbackReturns
  BY <1>4, <1>0 DEF Wheel!CallbackReturns, Wheel!lists
<1>5. CASE Wheel!DetectEnds
  BY <1>5, <1>0 DEF Wheel!DetectEnds, Wheel!lists
<1>6. CASE Wheel!Tick
  <2>1. lag' = lag + 1 /\ lag < MaxLag
    BY <1>6 DEF Wheel!Tick
  <2>2. UNCHANGED <<due, interval, spokes, spokeindex, readynodes, timernode, loops, phase, running>>
    BY <1>6 DEF Wheel!Tick, Wheel!lists
  <2>3. lag' \in -MaxBack .. MaxLag /\ lag' >= loops * GRANULARITY - MaxBack
    <3>1. PICK d \in Nat : d = loops * GRANULARITY
      BY <1>0, WheelConstants, Product
    <3>2. lag >= d - MaxBack
      BY <1>0, <3>1
    <3>3. lag' \in -MaxBack .. MaxLag /\ lag' >= d - MaxBack
      BY <2>1, <3>2, <1>0, WheelConstants
    <3> QED BY <3>1, <3>3
  <2> QED BY <2>2, <2>3, <1>0
<1>7. CASE Wheel!ClockStepsBack
  <2>1. lag' \in (loops * GRANULARITY - MaxBack) .. (lag - 1)
    BY <1>7 DEF Wheel!ClockStepsBack
  <2>2. UNCHANGED <<due, interval, spokes, spokeindex, readynodes, timernode, loops, phase, running>>
    BY <1>7 DEF Wheel!ClockStepsBack, Wheel!lists
  <2>3. lag' \in -MaxBack .. MaxLag /\ lag' >= loops * GRANULARITY - MaxBack
    <3>1. PICK d \in Nat : d = loops * GRANULARITY
      BY <1>0, WheelConstants, Product
    <3>2. lag' \in (d - MaxBack) .. (lag - 1)
      BY <2>1, <3>1
    <3>3. lag' \in -MaxBack .. MaxLag /\ lag' >= d - MaxBack
      BY <3>2, <1>0, WheelConstants
    <3> QED BY <3>1, <3>3
  <2> QED BY <2>2, <2>3, <1>0
<1>8. CASE \E t \in Timer : Wheel!Start(t)
  <2> PICK t \in Timer : Wheel!Start(t)
    BY <1>8
  <2> DEFINE dropped == [s \in Wheel!Spokes |-> Wheel!Drop(spokes[s], t)]
             rd == Wheel!Drop(readynodes, t)
             left == timernode \ {t}
  <2>1. /\ Wheel!AddTimer(t, dropped) /\ readynodes' = rd
        /\ UNCHANGED <<lag, interval, spokeindex, loops, phase, running>>
    BY DEF Wheel!Start
  <2>2. rd \in Seq(Timer) /\ dropped \in SpokeLists /\ Wheel!LinkedAs(dropped, rd, left)
    BY <1>0, LinkedDrop
  <2>3. t \notin left /\ left \in SUBSET Timer /\ timernode \cup {t} = left \cup {t}
    BY <1>0
  <2> HIDE DEF dropped, rd, left
  <2>4. /\ spokes' \in SpokeLists /\ due' \in [Timer -> Int] /\ timernode' \in SUBSET Timer
        /\ Wheel!LinkedAs(spokes', rd, timernode')
    BY <2>1, <2>2, <2>3, <1>0, AddTimerPuts
  <2> QED BY <2>1, <2>2, <2>4, <1>0
<1>9. CASE \E t \in Timer : Wheel!Stop(t)
  <2> PICK t \in Timer : Wheel!Stop(t)
    BY <1>9
  <2>1. /\ timernode' = timernode \ {t} /\ due' = [due EXCEPT ![t] = 0]
        /\ UNCHANGED <<lag, interval, spokeindex, loops, phase, running>>
    BY DEF Wheel!Stop
  <2>2. due' \in [Timer -> Int]
    BY <2>1, <1>0
  <2>3. spokes' \in SpokeLists /\ readynodes' \in Seq(Timer) /\ Wheel!LinkedAs(spokes', readynodes', timernode \ {t})
    <3>1. CASE t \in timernode
      <4>1. /\ spokes' = [s \in Wheel!Spokes |-> Wheel!Drop(spokes[s], t)]
            /\ readynodes' = Wheel!Drop(readynodes, t)
        BY <3>1 DEF Wheel!Stop, Wheel!Unlink
      <4> QED BY <4>1, <1>0, LinkedDrop
    <3>2. CASE t \notin timernode
      <4>1. spokes' = spokes /\ readynodes' = readynodes /\ timernode \ {t} = timernode
        BY <3>2 DEF Wheel!Stop
      <4> QED BY <4>1, <1>0
    <3> QED BY <3>1, <3>2
  <2> QED BY <2>1, <2>2, <2>3, <1>0
<1>10. CASE UNCHANGED Wheel!vars
  BY <1>10, <1>0 DEF Wheel!vars, Wheel!lists
<1> QED BY <1>1, <1>2, <1>3, <1>4, <1>5, <1>6, <1>7, <1>8, <1>9, <1>10 DEF Wheel!Next

(* The invariant always holds of the wheels. *)
THEOREM WheelInvariant == Wheel!Init /\ [][Wheel!Next]_Wheel!vars => []WheelInv
BY WheelInit, WheelStep, PTL

-----------------------------------------------------------------------------
(* The bounds of a timer: when it is dealt out, and when it is called. *)

(* The remainder of a number below the divisor is the number; two numbers close to each other
   that have the same remainder are the same. *)
LEMMA SameRemainder ==
    ASSUME NEW S \in Nat \ {0}, NEW a \in Nat, NEW b \in Nat, a <= b, b < a + S, a % S = b % S
    PROVE  a = b
<1>1. PICK qa \in Nat, ra \in 0 .. S - 1 : a = S * qa + ra /\ a % S = ra
  BY Divide
<1>2. PICK qb \in Nat, rb \in 0 .. S - 1 : b = S * qb + rb /\ b % S = rb
  BY Divide
<1>3. ra = rb
  BY <1>1, <1>2
<1>4. CASE qa = qb
  BY <1>1, <1>2, <1>3, <1>4
<1>5. CASE qb < qa
  <2>1. PICK d \in Nat : qa = qb + 1 + d
    <3>1. qa - qb - 1 \in Nat /\ qa = qb + 1 + (qa - qb - 1)
      BY <1>5
    <3> QED BY <3>1
  <2>2. S * qa = S * qb + S + S * d /\ S * d \in Nat /\ S * qb \in Nat
    BY <2>1
  <2> QED BY <2>2, <1>1, <1>2, <1>3
<1>6. CASE qa < qb
  <2>1. PICK d \in Nat : qb = qa + 1 + d
    <3>1. qb - qa - 1 \in Nat /\ qb = qa + 1 + (qb - qa - 1)
      BY <1>6
    <3> QED BY <3>1
  <2>2. S * qb = S * qa + S + S * d /\ S * d \in Nat /\ S * qa \in Nat
    BY <2>1
  <2> QED BY <2>2, <1>1, <1>2, <1>3
<1> QED BY <1>4, <1>5, <1>6

(* Counting on: what it does to a quotient and a remainder. *)
LEMMA CountOn ==
    ASSUME NEW S \in Nat \ {0}, NEW k \in Nat
    PROVE  IF (k % S) + 1 = S THEN (k + 1) % S = 0 /\ (k + 1) \div S = (k \div S) + 1
           ELSE (k + 1) % S = (k % S) + 1 /\ (k + 1) \div S = k \div S
<1>1. PICK q \in Nat, r \in 0 .. S - 1 : k = S * q + r /\ k \div S = q /\ k % S = r
  BY Divide
<1>2. CASE r + 1 = S
  <2>1. k + 1 = S * (q + 1) + 0
    BY <1>1, <1>2
  <2>2. q + 1 \in Nat /\ 0 \in 0 .. S - 1
    OBVIOUS
  <2>3. (S * (q + 1) + 0) \div S = q + 1 /\ (S * (q + 1) + 0) % S = 0
    BY <2>2, DivideOf
  <2> QED BY <2>1, <2>3, <1>1, <1>2
<1>3. CASE r + 1 # S
  <2>1. k + 1 = S * q + (r + 1) /\ r + 1 \in 0 .. S - 1
    BY <1>1, <1>3
  <2>3. (S * q + (r + 1)) \div S = q /\ (S * q + (r + 1)) % S = r + 1
    BY <2>1, DivideOf
  <2> QED BY <2>1, <2>3, <1>1, <1>3
<1> QED BY <1>2, <1>3

(* A product divides a number if one factor divides it and the other divides the quotient. *)
LEMMA DivideTwice ==
    ASSUME NEW S \in Nat \ {0}, NEW T \in Nat \ {0}, NEW k \in Nat
    PROVE  /\ k % (T * S) = 0 <=> k % T = 0 /\ (k \div T) % S = 0
           /\ k \div (T * S) = (k \div T) \div S
<1>1. PICK q \in Nat, r \in 0 .. T - 1 : k = T * q + r /\ k \div T = q /\ k % T = r
  BY Divide
<1>2. PICK p \in Nat, u \in 0 .. S - 1 : q = S * p + u /\ q \div S = p /\ q % S = u
  BY Divide
<1>3. T * S \in Nat \ {0} /\ k = (T * S) * p + (T * u + r)
  <2>1. T * q = T * (S * p) + T * u
    BY <1>2
  <2>2. T * (S * p) = (T * S) * p
    OBVIOUS
  <2>3. T * S \in Nat \ {0}
    OBVIOUS
  <2> QED BY <2>1, <2>2, <2>3, <1>1
<1>4. T * u + r \in 0 .. (T * S) - 1
  <2>1. PICK d \in Nat : S = u + 1 + d
    <3>1. S - u - 1 \in Nat /\ S = u + 1 + (S - u - 1)
      BY <1>2
    <3> QED BY <3>1
  <2>2. T * S = T * u + T + T * d /\ T * d \in Nat /\ T * u \in Nat
    BY <2>1, <1>2
  <2> QED BY <2>2, <1>1
<1>5. ((T * S) * p + (T * u + r)) \div (T * S) = p /\ ((T * S) * p + (T * u + r)) % (T * S) = T * u + r
  BY <1>3, <1>4, DivideOf
<1>6. T * u + r = 0 <=> r = 0 /\ u = 0
  <2>1. u # 0 => T * u > 0
    BY <1>2
  <2>2. T * u \in Nat
    BY <1>2
  <2> QED BY <2>1, <2>2, <1>1, <1>2
<1> QED BY <1>1, <1>2, <1>3, <1>5, <1>6

(* The ticks for which wheel v stands on a spoke. *)
Ticks(v) == IF v = 0 THEN 1 ELSE Wheel!Threshold[v]

(* A wheel stands on a spoke while the one below it comes round once. *)
LEMMA TicksFacts ==
    /\ Ticks(0) = 1 /\ Ticks(1) = Wheel!Size(0)
    /\ \A v \in Nat : Ticks(v) \in Nat \ {0} /\ Ticks(v + 1) = Ticks(v) * Wheel!Size(v)
<1>1. \A v \in Nat : Ticks(v) \in Nat \ {0}
  BY ThresholdPositive DEF Ticks
<1>2. ASSUME NEW v \in Nat PROVE Ticks(v + 1) = Ticks(v) * Wheel!Size(v)
  <2>1. v + 1 \in Nat /\ v + 1 # 0 /\ (v + 1) - 1 = v
    OBVIOUS
  <2>2. Wheel!Threshold[v + 1] = IF v + 1 <= 1 THEN WHEEL_SIZE1 ELSE WHEEL_SIZE2 * Wheel!Threshold[v]
    BY <2>1, ThresholdDef
  <2>3. CASE v = 0
    BY <2>1, <2>2, <2>3, WheelConstants DEF Ticks, Wheel!Size
  <2>4. CASE v # 0
    <3>1. Ticks(v + 1) = WHEEL_SIZE2 * Ticks(v) /\ Wheel!Size(v) = WHEEL_SIZE2
      BY <2>1, <2>2, <2>4 DEF Ticks, Wheel!Size
    <3> QED BY <3>1, <1>1, WheelConstants
  <2> QED BY <2>3, <2>4
<1>3. Ticks(0) = 1 /\ Ticks(1) = WHEEL_SIZE1 /\ Wheel!Size(0) = WHEEL_SIZE1
  BY ThresholdDef DEF Ticks, Wheel!Size
<1> QED BY <1>1, <1>2, <1>3

(* The indexes ix show how often, modulo its size, each wheel has moved on. *)
Shows(ix, m) == /\ ix \in [Wheel!Wheels -> Nat] /\ m \in [Wheel!Wheels -> Nat]
                /\ \A v \in Wheel!Wheels : ix[v] % Wheel!Size(v) = m[v] % Wheel!Size(v)

(* A remainder does not change when one of two numbers is replaced by its remainder. *)
LEMMA RemainderOfSum ==
    ASSUME NEW S \in Nat \ {0}, NEW a \in Nat, NEW x \in Nat, NEW y \in Nat, x % S = y % S
    PROVE  (a + x) % S = (a + y) % S
<1>1. PICK qx \in Nat, r \in 0 .. S - 1 : x = S * qx + r /\ x % S = r
  BY Divide
<1>2. PICK qy \in Nat, ry \in 0 .. S - 1 : y = S * qy + ry /\ y % S = ry
  BY Divide
<1>3. ry = r /\ a + r \in Nat
  BY <1>1, <1>2
<1>4. PICK q \in Nat, u \in 0 .. S - 1 : a + r = S * q + u
  BY <1>3, Divide, ZenonT(30)
<1>5. a + x = S * (q + qx) + u /\ a + y = S * (q + qy) + u
  <2>1. S * (q + qx) = S * q + S * qx /\ S * (q + qy) = S * q + S * qy
    OBVIOUS
  <2>2. S * q \in Nat /\ S * qx \in Nat /\ S * qy \in Nat
    OBVIOUS
  <2> QED BY <2>1, <2>2, <1>1, <1>2, <1>3, <1>4
<1>6. q + qx \in Nat /\ q + qy \in Nat
  OBVIOUS
<1>7. (S * (q + qx) + u) % S = u /\ (S * (q + qy) + u) % S = u
  BY <1>6, DivideOf
<1> QED BY <1>5, <1>7

(* AddTimerNode: a timer of so many ticks goes into the spoke that its wheel comes to, in the move
   of the wheel which is number e, not after these ticks. *)
LEMMA SpokeForTimes ==
    ASSUME NEW ms \in Nat, NEW ix, NEW m, Shows(ix, m)
    PROVE  \E v \in Wheel!Wheels, e \in Nat, q \in Nat :
             /\ Wheel!SpokeFor(ms, ix) = <<v, (e - 1) % Wheel!Size(v)>> /\ e > m[v]
             /\ IF v = 0 THEN q = ms \div GRANULARITY /\ e = m[0] + 1 + q /\ q < Wheel!Size(0)
                ELSE e = m[v] + q /\ q * Ticks(v) <= ms \div GRANULARITY
<1> DEFINE ticks == ms \div GRANULARITY
           above == {w \in Wheel!Wheels \ {0} : ticks >= Wheel!Threshold[w]}
           w == CHOOSE v \in above : \A u \in above : u <= v
<1>1. ticks \in Nat
  BY WheelConstants
<1>2. /\ ix \in [Wheel!Wheels -> Nat] /\ m \in [Wheel!Wheels -> Nat]
      /\ \A v \in Wheel!Wheels : ix[v] % Wheel!Size(v) = m[v] % Wheel!Size(v)
  BY DEF Shows
<1>3. CASE above = {}
  <2>1. Wheel!SpokeFor(ms, ix) = <<0, (ticks + ix[0]) % Wheel!Size(0)>>
    BY <1>3 DEF Wheel!SpokeFor
  <2>2. 0 \in Wheel!Wheels /\ 1 \in Wheel!Wheels \ {0}
    BY WheelConstants
  <2>3. ticks < Wheel!Size(0)
    <3>1. ~(ticks >= Wheel!Threshold[1])
      BY <1>3, <2>2
    <3>2. Wheel!Threshold[1] = Wheel!Size(0)
      BY TicksFacts DEF Ticks
    <3> QED BY <3>1, <3>2, <1>1, WheelConstants
  <2>4. (ticks + ix[0]) % Wheel!Size(0) = (ticks + m[0]) % Wheel!Size(0)
    <3>1. ix[0] \in Nat /\ m[0] \in Nat /\ ix[0] % Wheel!Size(0) = m[0] % Wheel!Size(0)
      BY <1>2, <2>2
    <3>2. Wheel!Size(0) \in Nat \ {0} /\ ticks \in Nat
      BY <1>1, WheelConstants
    <3> HIDE DEF ticks
    <3> QED BY <3>1, <3>2, RemainderOfSum, ZenonT(30)
  <2> DEFINE e == m[0] + 1 + ticks
  <2>5. e \in Nat /\ e > m[0] /\ e - 1 = ticks + m[0]
    BY <1>1, <1>2, <2>2
  <2> HIDE DEF e, ticks
  <2>6. /\ Wheel!SpokeFor(ms, ix) = <<0, (e - 1) % Wheel!Size(0)>> /\ e > m[0]
        /\ ticks = ms \div GRANULARITY /\ e = m[0] + 1 + ticks /\ ticks < Wheel!Size(0)
    BY <2>1, <2>3, <2>4, <2>5 DEF e, ticks
  <2> QED BY <2>2, <2>5, <2>6, <1>1
<1>4. CASE above # {}
  <2>1. w \in above
    <3>1. above \in SUBSET (0 .. WHEEL_NUM - 1) /\ WHEEL_NUM - 1 \in Nat
      BY WheelConstants
    <3>2. \E x \in above : \A y \in above : y <= x
      BY <1>4, <3>1, Greatest
    <3> QED BY <3>2
  <2> DEFINE T == Wheel!Threshold[w]
             q == ticks \div T
  <2>2. w \in Wheel!Wheels /\ w \in Nat /\ w # 0 /\ ticks >= T
    BY <2>1, WheelConstants
  <2>3. Wheel!SpokeFor(ms, ix) = <<w, ((ticks - T + ix[w] * T) \div T) % Wheel!Size(w)>>
    BY <1>4 DEF Wheel!SpokeFor
  <2> HIDE DEF w
  <2>4. T \in Nat \ {0} /\ ix[w] \in Nat /\ m[w] \in Nat /\ T = Ticks(w)
    BY <2>2, <1>2, ThresholdPositive DEF Ticks
  <2> HIDE DEF T, ticks
  <2>5. q \in Nat /\ q >= 1 /\ q * T <= ticks /\ (ticks - T + ix[w] * T) \div T = q - 1 + ix[w]
    <3>1. PICK a \in Nat, r \in 0 .. T - 1 : ticks = T * a + r /\ ticks \div T = a
      BY <1>1, <2>4, Divide
    <3>2. a # 0
      <4> SUFFICES ASSUME a = 0 PROVE FALSE
        OBVIOUS
      <4>1. ticks = r
        BY <3>1, <2>4
      <4> QED BY <4>1, <2>2, <2>4
    <3>3. PICK b \in Nat : a = b + 1
      <4>1. a - 1 \in Nat /\ a = (a - 1) + 1
        BY <3>2
      <4> QED BY <4>1
    <3>4. T * a = T * b + T /\ T * (b + ix[w]) = T * b + ix[w] * T /\ T * b \in Nat /\ ix[w] * T \in Nat
          /\ a * T = T * a /\ T * a \in Nat
      BY <3>3, <2>4
    <3>5. ticks - T + ix[w] * T = T * (b + ix[w]) + r
      BY <3>1, <3>4, <2>4
    <3>6. b + ix[w] \in Nat
      BY <2>4
    <3>7. (T * (b + ix[w]) + r) \div T = b + ix[w]
      BY <3>6, <2>4, DivideOf
    <3>8. a * T <= ticks
      BY <3>1, <3>4
    <3> QED BY <3>1, <3>3, <3>5, <3>7, <3>8, <2>4
  <2> HIDE DEF q
  <2>6. (q - 1 + ix[w]) % Wheel!Size(w) = (q - 1 + m[w]) % Wheel!Size(w)
    <3>1. ix[w] % Wheel!Size(w) = m[w] % Wheel!Size(w) /\ q - 1 \in Nat
      BY <1>2, <2>2, <2>5
    <3>2. Wheel!Size(w) \in Nat \ {0}
      BY WheelConstants
    <3>3. PICK a \in Nat : a = q - 1
      BY <3>1
    <3>4. PICK n \in Nat \ {0}, x \in Nat, y \in Nat : n = Wheel!Size(w) /\ x = ix[w] /\ y = m[w]
      BY <3>2, <2>4
    <3>5. x % n = y % n
      BY <3>1, <3>4
    <3>6. (a + x) % n = (a + y) % n
      BY <3>5, RemainderOfSum, ZenonT(30)
    <3> QED BY <3>3, <3>4, <3>6
  <2> DEFINE e == m[w] + q
  <2>7. e \in Nat /\ e > m[w] /\ e - 1 = q - 1 + m[w]
    BY <2>4, <2>5
  <2> HIDE DEF e
  <2>8. /\ Wheel!SpokeFor(ms, ix) = <<w, (e - 1) % Wheel!Size(w)>> /\ e > m[w]
        /\ w # 0 /\ e = m[w] + q /\ q * Ticks(w) <= ms \div GRANULARITY
    BY <2>2, <2>3, <2>4, <2>5, <2>6, <2>7 DEF e, ticks
  <2> QED BY <2>2, <2>5, <2>7, <2>8
<1> QED BY <1>3, <1>4

(* The timer t of a spoke of wheel v is dealt out in the move of the wheel which is number e, after
   k ticks so far: it is not due before that, but for the distance the clock may step back, and in
   wheel 0 not much later. *)
Bound(d, t, v, e, k) ==
    /\ d[t] >= GRANULARITY * (e * Ticks(v) - k - 1) - MaxBack
    /\ v = 0 => d[t] < MaxLag + GRANULARITY * (e - k)

(* The moves that are still to come for the spoke i of wheel v, which has made m[v] of them. *)
Awaits(v, i, m) ==
    {e \in Nat : e > m[v] /\ (e - 1) % Wheel!Size(v) = i /\ (v = 0 => e <= m[0] + Wheel!Size(0))}

(* Every timer in a spoke keeps to the bound. *)
SpokesTimed(d, sp, m, k) ==
    \A v \in Wheel!Wheels, i \in Nat, t \in Timer :
      i < Wheel!Size(v) /\ Wheel!In(sp[<<v, i>>], t) => \E e \in Awaits(v, i, m) : Bound(d, t, v, e, k)

(* So many moves of the wheels in k ticks or one more, with the clock not too far behind. *)
Moves(m, k) ==
    /\ m \in [Wheel!Wheels -> Nat] /\ m[0] \in {k, k + 1}
    /\ \A v \in Wheel!Wheels \ {0} : m[v] * Ticks(v) <= k + 1
    /\ lag \in Int /\ lag <= MaxLag /\ lag >= GRANULARITY * (m[0] - k) - MaxBack

(* A timer that AddTimerNode puts into a spoke keeps to the bound. *)
LEMMA PutTimed ==
    ASSUME NEW d, NEW ms \in Nat, NEW k \in Nat, NEW ix, NEW m, Shows(ix, m), Moves(m, k),
           NEW sp \in SpokeLists, NEW t \in Timer, SpokesTimed(d, sp, m, k), d[t] = lag + ms
    PROVE  SpokesTimed(d, [sp EXCEPT ![Wheel!SpokeFor(ms, ix)] = Append(@, t)], m, k)
<1> DEFINE ticks == ms \div GRANULARITY
<1>1. PICK v \in Wheel!Wheels, e \in Nat, q \in Nat :
             /\ Wheel!SpokeFor(ms, ix) = <<v, (e - 1) % Wheel!Size(v)>> /\ e > m[v]
             /\ IF v = 0 THEN q = ticks /\ e = m[0] + 1 + q /\ q < Wheel!Size(0)
                ELSE e = m[v] + q /\ q * Ticks(v) <= ticks
  BY SpokeForTimes
<1> DEFINE s == Wheel!SpokeFor(ms, ix)
           i == (e - 1) % Wheel!Size(v)
<1>0. GRANULARITY \in Nat \ {0} /\ MaxLag \in Nat /\ MaxBack \in Nat /\ 0 \in Wheel!Wheels
      /\ \A u \in Wheel!Wheels : u \in Nat /\ Ticks(u) \in Nat \ {0}
  <2>1. \A u \in Wheel!Wheels : u \in Nat
    BY WheelConstants
  <2>2. \A u \in Nat : Ticks(u) \in Nat \ {0}
    BY TicksFacts
  <2>3. GRANULARITY \in Nat \ {0} /\ MaxLag \in Nat /\ MaxBack \in Nat /\ 0 \in Wheel!Wheels
    BY WheelConstants
  <2> QED BY <2>1, <2>2, <2>3, Zenon
<1>2. /\ m \in [Wheel!Wheels -> Nat] /\ m[0] \in {k, k + 1} /\ m[0] \in Nat /\ m[v] \in Nat
      /\ \A u \in Wheel!Wheels \ {0} : m[u] * Ticks(u) <= k + 1
      /\ lag \in Int /\ lag <= MaxLag /\ lag >= GRANULARITY * (m[0] - k) - MaxBack
  BY <1>0 DEF Moves
<1>3. e \in Awaits(v, i, m)
  <2>1. i = (e - 1) % Wheel!Size(v) /\ (v = 0 => e <= m[0] + Wheel!Size(0))
    BY <1>1, <1>2, WheelConstants, SMTT(30)
  <2> HIDE DEF i
  <2> QED BY <2>1, <1>1 DEF Awaits
<1>4. Bound(d, t, v, e, k)
  <2>1. PICK a \in Nat, r \in 0 .. GRANULARITY - 1 : ms = GRANULARITY * a + r /\ ticks = a
    <3>1. \E a \in Nat, r \in 0 .. GRANULARITY - 1 :
            ms = GRANULARITY * a + r /\ ms \div GRANULARITY = a /\ ms % GRANULARITY = r
      BY <1>0, Divide
    <3> QED BY <3>1
  <2>2. d[t] = lag + GRANULARITY * a + r
    BY <2>1, <1>2, WheelConstants
  <2>3. CASE v = 0
    <3>1. e = m[0] + 1 + a
      BY <1>1, <2>1, <2>3
    <3>2. PICK h \in {0, 1} : m[0] = k + h
      BY <1>2
    <3>3. e * Ticks(v) - k - 1 = a + h /\ e - k = a + h + 1 /\ m[0] - k = h
      BY <3>1, <3>2, <2>3, TicksFacts
    <3>4. /\ GRANULARITY * (a + h) = GRANULARITY * a + GRANULARITY * h
          /\ GRANULARITY * (a + h + 1) = GRANULARITY * a + GRANULARITY * h + GRANULARITY
          /\ GRANULARITY * a \in Nat /\ GRANULARITY * h \in Nat
      BY WheelConstants
    <3>5. PICK ga \in Nat, gd \in Nat : ga = GRANULARITY * a /\ gd = GRANULARITY * h
      BY <3>4
    <3>6. d[t] = lag + ga + r /\ lag >= gd - MaxBack /\ lag <= MaxLag
      BY <2>2, <3>3, <3>5, <1>2
    <3>7. d[t] >= (ga + gd) - MaxBack /\ d[t] < MaxLag + (ga + gd + GRANULARITY)
      BY <3>5, <3>6, <1>0, <1>2
    <3> QED BY <3>3, <3>4, <3>5, <3>7 DEF Bound
  <2>4. CASE v # 0
    <3>0. v \in Nat /\ Ticks(v) \in Nat \ {0}
      BY <1>0
    <3>1. e = m[v] + q /\ q * Ticks(v) <= a /\ m[v] * Ticks(v) <= k + 1
      BY <1>1, <1>2, <2>1, <2>4
    <3>2. e * Ticks(v) = m[v] * Ticks(v) + q * Ticks(v) /\ m[v] * Ticks(v) \in Nat /\ q * Ticks(v) \in Nat
      BY <3>0, <3>1, <1>2
    <3>3. PICK x \in Int : x = e * Ticks(v) - k - 1 /\ x <= a
      BY <3>1, <3>2
    <3>4. GRANULARITY * x <= GRANULARITY * a
      <4>1. PICK y \in Nat : a = x + y
        <5>1. a - x \in Nat /\ a = x + (a - x)
          BY <3>3
        <5> QED BY <5>1
      <4>2. GRANULARITY * (x + y) = GRANULARITY * x + GRANULARITY * y /\ GRANULARITY * y \in Nat
            /\ GRANULARITY * x \in Int
        BY WheelConstants
      <4> QED BY <4>1, <4>2
    <3>5. lag >= -MaxBack
      <4>1. m[0] - k \in {0, 1} /\ GRANULARITY * (m[0] - k) \in Nat
        <5>1. m[0] - k \in {0, 1}
          BY <1>2
        <5>2. GRANULARITY * 0 \in Nat /\ GRANULARITY * 1 \in Nat
          BY WheelConstants
        <5> QED BY <5>1, <5>2
      <4> QED BY <4>1, <1>2, WheelConstants
    <3>6. PICK ga \in Int, gx \in Int : ga = GRANULARITY * a /\ gx = GRANULARITY * x
      BY WheelConstants
    <3>7. d[t] = lag + ga + r /\ gx <= ga
      BY <2>2, <3>4, <3>6
    <3>8. d[t] >= gx - MaxBack
      BY <3>5, <3>7, <1>2, WheelConstants
    <3> QED BY <3>3, <3>6, <3>8, <2>4 DEF Bound
  <2> QED BY <2>3, <2>4
<1>5. s \in Wheel!Spokes /\ s = <<v, i>>
  BY <1>1, SpokeForIn DEF Shows
<1> HIDE DEF s, i
<1>6. ASSUME NEW u \in Wheel!Wheels, NEW j \in Nat, NEW x \in Timer, j < Wheel!Size(u),
             Wheel!In([sp EXCEPT ![s] = Append(@, t)][<<u, j>>], x)
      PROVE  \E f \in Awaits(u, j, m) : Bound(d, x, u, f, k)
  <2>1. <<u, j>> \in Wheel!Spokes /\ sp[<<u, j>>] \in Seq(Timer) /\ sp[s] \in Seq(Timer)
    BY <1>6, <1>5, SpokesAre DEF SpokeLists
  <2>2. CASE Wheel!In(sp[<<u, j>>], x)
    BY <2>2, <1>6, Zenon DEF SpokesTimed
  <2>3. CASE ~Wheel!In(sp[<<u, j>>], x)
    <3>1. <<u, j>> = s /\ x = t
      <4>1. <<u, j>> = s
        BY <2>1, <2>3, <1>6 DEF SpokeLists
      <4>2. Wheel!In(Append(sp[s], t), x)
        BY <4>1, <2>1, <1>6 DEF SpokeLists
      <4> QED BY <4>1, <4>2, <2>1, <2>3, InAppend
    <3>2. u = v /\ j = i
      BY <3>1, <1>5
    <3> QED BY <3>1, <3>2, <1>3, <1>4
  <2> QED BY <2>2, <2>3
<1> QED BY <1>6, Zenon DEF SpokesTimed, s

(* The timers of a ready list are not called long before they are due. *)
ReadyTimed(d, n, list) == \A t \in Timer : Wheel!In(list, t) => d[t] < MaxLag + n * GRANULARITY

(* A node that DealOut puts into a list keeps to the bound. *)
LEMMA DealOutTimed ==
    ASSUME NEW c \in WheelState, NEW m, NEW k \in Nat, NEW t \in Timer, Shows(c.index, m), Moves(m, k),
           SpokesTimed(due, c.spokes, m, k), ReadyTimed(due, loops, c.ready), due \in [Timer -> Int], loops \in Nat \ {0}
    PROVE  /\ SpokesTimed(due, Wheel!DealOut(t, c).spokes, m, k)
           /\ ReadyTimed(due, loops, Wheel!DealOut(t, c).ready)
<1>1. lag \in Int /\ lag <= MaxLag /\ due[t] \in Int /\ GRANULARITY \in Nat \ {0} /\ MaxLag \in Nat
  BY WheelConstants DEF Moves
<1>2. c.spokes \in SpokeLists /\ c.ready \in Seq(Timer) /\ c.index \in [Wheel!Wheels -> Nat]
  BY DEF WheelState
<1>3. CASE due[t] <= lag
  <2>1. Wheel!DealOut(t, c) = [c EXCEPT !.ready = Append(@, t)]
    BY <1>3 DEF Wheel!DealOut
  <2>2. Wheel!DealOut(t, c).spokes = c.spokes /\ Wheel!DealOut(t, c).ready = Append(c.ready, t)
    BY <2>1, StateReady
  <2>3. due[t] < MaxLag + loops * GRANULARITY
    <3>1. PICK g \in Nat : loops = g + 1
      <4>1. loops - 1 \in Nat /\ loops = (loops - 1) + 1
        OBVIOUS
      <4> QED BY <4>1
    <3>2. loops * GRANULARITY = g * GRANULARITY + GRANULARITY /\ g * GRANULARITY \in Nat
      BY <3>1, <1>1
    <3> QED BY <3>2, <1>1, <1>3
  <2>4. ReadyTimed(due, loops, Append(c.ready, t))
    <3>1. \A x : Wheel!In(Append(c.ready, t), x) <=> Wheel!In(c.ready, x) \/ x = t
      BY <1>2, InAppend
    <3> QED BY <3>1, <2>3, Zenon DEF ReadyTimed
  <2> QED BY <2>2, <2>4
<1>4. CASE ~(due[t] <= lag)
  <2> DEFINE s == Wheel!SpokeFor(due[t] - lag, c.index)
  <2>1. due[t] - lag \in Nat /\ due[t] = lag + (due[t] - lag)
    BY <1>4, <1>1
  <2>2. s \in Wheel!Spokes
    BY <2>1, <1>2, SpokeForIn
  <2>3. Wheel!DealOut(t, c) = PutIn(c, s, t)
    BY <1>4, Zenon DEF Wheel!DealOut, PutIn
  <2>4. SpokesTimed(due, [c.spokes EXCEPT ![s] = Append(@, t)], m, k)
    BY <2>1, <1>2, PutTimed
  <2> HIDE DEF s
  <2>5. /\ PutIn(c, s, t).spokes = [c.spokes EXCEPT ![s] = Append(@, t)]
        /\ PutIn(c, s, t).index = c.index
        /\ PutIn(c, s, t).ready = c.ready
        /\ PutIn(c, s, t) \in WheelState
    BY <2>2, StateSpoke, Zenon
  <2> QED BY <2>3, <2>4, <2>5
<1> QED BY <1>3, <1>4

(* The move of a wheel above the first takes from its spokes the timers that await it, and all that
   it deals out keep to the bound. *)
LEMMA CascadeWheelTimed ==
    ASSUME NEW c \in WheelState, NEW w \in Wheel!Wheels \ {0}, c.index[w] < Wheel!Size(w),
           NEW m, NEW k \in Nat, Shows(c.index, m), Moves([m EXCEPT ![w] = @ + 1], k),
           SpokesTimed(due, c.spokes, m, k), ReadyTimed(due, loops, c.ready),
           due \in [Timer -> Int], loops \in Nat \ {0}
    PROVE  /\ SpokesTimed(due, Wheel!CascadeWheel(w, c).spokes, [m EXCEPT ![w] = @ + 1], k)
           /\ ReadyTimed(due, loops, Wheel!CascadeWheel(w, c).ready)
<1> DEFINE on == [m EXCEPT ![w] = @ + 1]
<1>1. /\ c.spokes \in SpokeLists /\ c.index \in [Wheel!Wheels -> Nat] /\ c.ready \in Seq(Timer)
      /\ lag \in Int /\ m \in [Wheel!Wheels -> Nat] /\ 0 \in Wheel!Wheels /\ w # 0
      /\ \A v \in Wheel!Wheels : c.index[v] % Wheel!Size(v) = m[v] % Wheel!Size(v)
  <2>1. c.spokes \in SpokeLists /\ c.index \in [Wheel!Wheels -> Nat] /\ c.ready \in Seq(Timer)
    BY DEF WheelState
  <2>2. lag \in Int
    BY DEF Moves
  <2>3. m \in [Wheel!Wheels -> Nat] /\ \A v \in Wheel!Wheels : c.index[v] % Wheel!Size(v) = m[v] % Wheel!Size(v)
    BY Zenon DEF Shows
  <2>4. 0 \in Wheel!Wheels
    BY WheelConstants
  <2> QED BY <2>1, <2>2, <2>3, <2>4
<1>2. on \in [Wheel!Wheels -> Nat] /\ on[w] = m[w] + 1 /\ \A v \in Wheel!Wheels : v # w => on[v] = m[v]
  BY <1>1
<1> HIDE DEF on
<1>3. PICK front, list, deals : WheelDealt(w, c, front, list, deals)
  BY <1>1, CascadeWheelSteps
<1> DEFINE spoke == <<w, c.index[w]>>
           n == Len(list)
<1>4. spoke \in Wheel!Spokes
  <2>1. c.index[w] \in Nat /\ w \in Wheel!Wheels
    BY <1>1
  <2> QED BY <2>1, SpokesAre
<1>5. /\ front = Taken(c, spoke, w) /\ list = c.spokes[spoke] /\ deals[0] = front
      /\ deals \in [0 .. n -> WheelState] /\ Wheel!CascadeWheel(w, c) = deals[n]
      /\ \A i \in 0 .. n - 1 : deals[i + 1] = Wheel!DealOut(list[i + 1], deals[i])
  BY <1>3 DEF WheelDealt
<1>6. list \in Seq(Timer) /\ n \in Nat /\ \A i \in 0 .. n - 1 : list[i + 1] \in Timer
  <2>1. list \in Seq(Timer)
    BY <1>1, <1>4, <1>5 DEF SpokeLists
  <2> QED BY <2>1
<1>7. /\ front.spokes = [c.spokes EXCEPT ![spoke] = <<>>] /\ front.index = [c.index EXCEPT ![w] = @ + 1]
      /\ front.ready = c.ready
  <2> HIDE DEF spoke
  <2>1. /\ Taken(c, spoke, w).spokes = [c.spokes EXCEPT ![spoke] = <<>>]
        /\ Taken(c, spoke, w).index = [c.index EXCEPT ![w] = @ + 1]
        /\ Taken(c, spoke, w).ready = c.ready /\ Taken(c, spoke, w) \in WheelState
    <3>1. w \in Wheel!Wheels
      OBVIOUS
    <3> QED BY <3>1, <1>4, StateTake, Zenon
  <2> QED BY <2>1, <1>5, Zenon
<1>8. Shows(front.index, on)
  <2> DEFINE ix == [c.index EXCEPT ![w] = @ + 1]
  <2>1. ix \in [Wheel!Wheels -> Nat] /\ ix[w] = c.index[w] + 1 /\ \A v \in Wheel!Wheels : v # w => ix[v] = c.index[v]
    BY <1>1
  <2>2. (c.index[w] + 1) % Wheel!Size(w) = (m[w] + 1) % Wheel!Size(w)
    <3>1. PICK S \in Nat \ {0}, x \in Nat, y \in Nat : S = Wheel!Size(w) /\ x = c.index[w] /\ y = m[w]
      BY <1>1, WheelConstants
    <3>2. x % S = y % S
      BY <1>1, <3>1
    <3>3. (1 + x) % S = (1 + y) % S
      BY <3>2, RemainderOfSum, ZenonT(30)
    <3>4. 1 + x = x + 1 /\ 1 + y = y + 1
      OBVIOUS
    <3> QED BY <3>1, <3>3, <3>4
  <2> HIDE DEF ix
  <2>3. \A v \in Wheel!Wheels : ix[v] % Wheel!Size(v) = on[v] % Wheel!Size(v)
    <3>1. ASSUME NEW v \in Wheel!Wheels PROVE ix[v] % Wheel!Size(v) = on[v] % Wheel!Size(v)
      <4>1. CASE v = w
        BY <4>1, <2>1, <2>2, <1>2
      <4>2. CASE v # w
        BY <4>2, <2>1, <1>1, <1>2
      <4> QED BY <4>1, <4>2
    <3> QED BY <3>1
  <2>4. front.index = ix
    BY <1>7 DEF ix
  <2> QED BY <2>1, <2>3, <2>4, <1>2 DEF Shows
<1>9. SpokesTimed(due, front.spokes, on, k)
  <2> SUFFICES ASSUME NEW v \in Wheel!Wheels, NEW i \in Nat, NEW t \in Timer, i < Wheel!Size(v),
                      Wheel!In(front.spokes[<<v, i>>], t)
               PROVE  \E e \in Awaits(v, i, on) : Bound(due, t, v, e, k)
    BY Zenon DEF SpokesTimed
  <2>1. <<v, i>> \in Wheel!Spokes /\ Wheel!In(c.spokes[<<v, i>>], t) /\ <<v, i>> # spoke
    <3>1. <<v, i>> \in Wheel!Spokes
      BY SpokesAre
    <3> HIDE DEF spoke
    <3>2. CASE <<v, i>> = spoke
      <4>1. front.spokes[<<v, i>>] = <<>>
        BY <3>1, <3>2, <1>1, <1>7 DEF SpokeLists
      <4> QED BY <4>1 DEF Wheel!In
    <3>3. CASE <<v, i>> # spoke
      <4>1. front.spokes[<<v, i>>] = c.spokes[<<v, i>>]
        BY <3>1, <3>3, <1>1, <1>7 DEF SpokeLists
      <4> QED BY <4>1, <3>1, <3>3
    <3> QED BY <3>2, <3>3
  <2>2. PICK e \in Awaits(v, i, m) : Bound(due, t, v, e, k)
    BY <2>1, Zenon DEF SpokesTimed
  <2>3. e \in Nat /\ e > m[v] /\ (e - 1) % Wheel!Size(v) = i /\ (v = 0 => e <= m[0] + Wheel!Size(0))
    BY <2>2, Zenon DEF Awaits
  <2>4. e > on[v] /\ (v = 0 => e <= on[0] + Wheel!Size(0))
    <3>1. CASE v # w
      BY <3>1, <2>3, <1>1, <1>2
    <3>2. CASE v = w
      <4>1. i # c.index[w] /\ c.index[w] \in Nat /\ m[w] \in Nat /\ v # 0
        BY <3>2, <2>1, <1>1
      <4>2. c.index[w] = m[w] % Wheel!Size(w)
        <5>1. PICK S \in Nat \ {0}, x \in Nat : S = Wheel!Size(w) /\ x = c.index[w]
          BY <4>1, WheelConstants
        <5>2. x < S => x % S = x
          OBVIOUS
        <5> QED BY <5>1, <5>2, <1>1
      <4>3. e - 1 # m[w]
        BY <4>1, <4>2, <2>3, <3>2
      <4> QED BY <4>1, <4>3, <3>2, <2>3, <1>2
    <3> QED BY <3>1, <3>2
  <2>5. e \in Awaits(v, i, on)
    BY <2>3, <2>4 DEF Awaits
  <2> QED BY <2>2, <2>5
<1>10. Moves(on, k)
  BY DEF on
<1> HIDE DEF n, spoke
<1> DEFINE Q == {i \in 0 .. n : /\ SpokesTimed(due, deals[i].spokes, on, k) /\ ReadyTimed(due, loops, deals[i].ready)
                               /\ Shows(deals[i].index, on)}
<1>11. 0 \in Q
  BY <1>5, <1>6, <1>7, <1>8, <1>9
<1>12. ASSUME NEW i \in 0 .. n - 1, i \in Q PROVE i + 1 \in Q
  <2>1. i \in 0 .. n /\ i + 1 \in 0 .. n /\ deals[i + 1] = Wheel!DealOut(list[i + 1], deals[i]) /\ list[i + 1] \in Timer
    BY <1>5, <1>6
  <2>2. deals[i] \in WheelState
    BY <2>1, <1>5
  <2>3. SpokesTimed(due, deals[i].spokes, on, k) /\ ReadyTimed(due, loops, deals[i].ready) /\ Shows(deals[i].index, on)
    BY <1>12
  <2>4. SpokesTimed(due, deals[i + 1].spokes, on, k) /\ ReadyTimed(due, loops, deals[i + 1].ready)
    BY <2>1, <2>2, <2>3, <1>10, DealOutTimed
  <2>5. deals[i + 1].index = deals[i].index
    BY <2>1, <2>2, <1>1, DealOutTo, ZenonT(30)
  <2> QED BY <2>1, <2>3, <2>4, <2>5
<1> HIDE DEF Q
<1>13. n \in Q
  <2>1. n \in 0 .. n
    BY <1>6
  <2> QED BY <2>1, <1>6, <1>11, <1>12, InductUpto
<1> QED BY <1>5, <1>13 DEF Q, on

(* Where a wheel of S spokes, which stands on each for T ticks, is after the tick that follows on k. *)
TickedTo(S, T, k) == ((k \div T) % S) + (IF (k + 1) % T = 0 THEN 1 ELSE 0)

(* It is a spoke of it, or it comes round. *)
LEMMA NextTick ==
    ASSUME NEW S \in Nat \ {0}, NEW T \in Nat \ {0}, NEW k \in Nat
    PROVE  /\ TickedTo(S, T, k) \in Nat /\ TickedTo(S, T, k) <= S
           /\ TickedTo(S, T, k) >= S <=> (k + 1) % (T * S) = 0
           /\ ((k + 1) \div T) % S = IF TickedTo(S, T, k) >= S THEN 0 ELSE TickedTo(S, T, k)
           /\ (k + 1) \div T = (k \div T) + (IF (k + 1) % T = 0 THEN 1 ELSE 0)
<1> DEFINE i == TickedTo(S, T, k)
<1>0. i = ((k \div T) % S) + (IF (k + 1) % T = 0 THEN 1 ELSE 0)
  BY DEF TickedTo
<1> HIDE DEF i
<1>1. PICK q \in Nat : k \div T = q
  BY Divide
<1>2. (k + 1) % (T * S) = 0 <=> (k + 1) % T = 0 /\ ((k + 1) \div T) % S = 0
  <2>1. PICK j \in Nat : j = k + 1
    OBVIOUS
  <2>2. j % (T * S) = 0 <=> j % T = 0 /\ (j \div T) % S = 0
    BY DivideTwice
  <2> QED BY <2>1, <2>2
<1>3. PICK r \in 0 .. T - 1 : k % T = r
  BY Divide
<1>4. PICK u \in 0 .. S - 1 : q % S = u
  BY Divide
<1>5. IF r + 1 = T THEN (k + 1) % T = 0 /\ (k + 1) \div T = q + 1
      ELSE (k + 1) % T = r + 1 /\ (k + 1) \div T = q
  BY <1>1, <1>3, CountOn
<1>6. IF u + 1 = S THEN (q + 1) % S = 0 ELSE (q + 1) % S = u + 1
  BY <1>4, CountOn
<1>7. CASE r + 1 = T
  <2>1. (k + 1) % T = 0 /\ (k + 1) \div T = q + 1 /\ i = u + 1
    BY <1>0, <1>1, <1>4, <1>5, <1>7
  <2> QED BY <2>1, <1>1, <1>2, <1>4, <1>6 DEF i
<1>8. CASE r + 1 # T
  <2>1. (k + 1) % T # 0 /\ (k + 1) \div T = q /\ i = u
    BY <1>0, <1>1, <1>3, <1>4, <1>5, <1>8
  <2> QED BY <2>1, <1>1, <1>2, <1>4 DEF i
<1> QED BY <1>7, <1>8

(* The moves that the wheels made in k ticks; and those that they made when the tick after these has
   moved the wheels as far as wheel n. *)
Count(k) == [v \in Wheel!Wheels |-> k \div Ticks(v)]

Made(n, k) == [v \in Wheel!Wheels |-> IF v <= n THEN (k + 1) \div Ticks(v) ELSE k \div Ticks(v)]

(* Where wheel v stands then, before it starts again. *)
Turned(v, k) == TickedTo(Wheel!Size(v), Ticks(v), k)

(* Numbers of moves are numbers. *)
LEMMA MadeMoves ==
    ASSUME NEW k \in Nat, NEW n \in Nat
    PROVE  /\ Count(k) \in [Wheel!Wheels -> Nat] /\ Made(n, k) \in [Wheel!Wheels -> Nat]
           /\ Count(k)[0] = k /\ Made(n, k)[0] = k + 1
           /\ \A v \in Wheel!Wheels : Count(k)[v] * Ticks(v) <= k /\ Made(n, k)[v] * Ticks(v) <= k + 1
           /\ Made(WHEEL_NUM - 1, k) = Count(k + 1)
<1>1. \A v \in Wheel!Wheels : v \in Nat /\ v <= WHEEL_NUM - 1
  BY WheelConstants
<1>2. \A v \in Wheel!Wheels : Ticks(v) \in Nat \ {0}
  BY <1>1, TicksFacts
<1>3. \A x \in Nat, v \in Wheel!Wheels : x \div Ticks(v) \in Nat /\ (x \div Ticks(v)) * Ticks(v) <= x
  BY <1>2, Quotient
<1>4. k + 1 \in Nat /\ \A x \in Nat : x <= k => x <= k + 1
  OBVIOUS
<1>5. \A v \in Wheel!Wheels : ((k \div Ticks(v)) * Ticks(v)) \in Nat
  BY <1>2, <1>3
<1>6. 0 \in Wheel!Wheels /\ Ticks(0) = 1 /\ \A x \in Nat : x \div 1 = x
  <2>1. 0 \in Wheel!Wheels
    BY WheelConstants
  <2>2. \A x \in Nat : x \div 1 = x
    OBVIOUS
  <2> QED BY <2>1, <2>2, TicksFacts
<1>7. Count(k) \in [Wheel!Wheels -> Nat] /\ Made(n, k) \in [Wheel!Wheels -> Nat]
  BY <1>3, <1>4 DEF Count, Made
<1>8. Count(k)[0] = k
  BY <1>6 DEF Count
<1>9. Made(n, k)[0] = k + 1
  BY <1>4, <1>6 DEF Made
<1>10. ASSUME NEW v \in Wheel!Wheels
       PROVE  Count(k)[v] * Ticks(v) <= k /\ Made(n, k)[v] * Ticks(v) <= k + 1
  <2>1. /\ Count(k)[v] = k \div Ticks(v)
        /\ Made(n, k)[v] = k \div Ticks(v) \/ Made(n, k)[v] = (k + 1) \div Ticks(v)
    BY DEF Count, Made
  <2> QED BY <2>1, <1>3, <1>4, <1>5
<1>11. Made(WHEEL_NUM - 1, k) = Count(k + 1)
  BY <1>1 DEF Made, Count
<1> QED BY <1>7, <1>8, <1>9, <1>10, <1>11

(* The wheels stand where they should when the tick after k has moved them as far as wheel n, and
   their timers keep to the bound. *)
UpTimed(c, n, k) ==
    /\ \A v \in Wheel!Wheels : c.index[v] = IF v < n THEN ((k + 1) \div Ticks(v)) % Wheel!Size(v)
                                            ELSE IF v = n THEN Turned(v, k)
                                            ELSE (k \div Ticks(v)) % Wheel!Size(v)
    /\ SpokesTimed(due, c.spokes, Made(n, k), k) /\ ReadyTimed(due, loops, c.ready)

(* A wheel that comes round starts again; it does so when the wheel above it moves on. *)
LEMMA ZeroTimed ==
    ASSUME NEW k \in Nat, NEW n \in Wheel!Wheels, NEW c \in WheelState, UpTimed(c, n, k)
    PROVE  /\ Wheel!Zero(n, c) \in WheelState
           /\ Wheel!Round(n, c) <=> (k + 1) % Ticks(n + 1) = 0
           /\ \A v \in Wheel!Wheels : Wheel!Zero(n, c).index[v] = Made(n, k)[v] % Wheel!Size(v)
           /\ SpokesTimed(due, Wheel!Zero(n, c).spokes, Made(n, k), k) /\ ReadyTimed(due, loops, Wheel!Zero(n, c).ready)
<1>1. /\ n \in Nat /\ Ticks(n) \in Nat \ {0} /\ Wheel!Size(n) \in Nat \ {0}
      /\ Ticks(n + 1) = Ticks(n) * Wheel!Size(n)
  <2>1. n \in Nat /\ Wheel!Size(n) \in Nat \ {0}
    BY WheelConstants
  <2> QED BY <2>1, TicksFacts
<1>2. c.index[n] = Turned(n, k)
  BY <1>1 DEF UpTimed
<1>30. PICK T \in Nat \ {0}, S \in Nat \ {0} : T = Ticks(n) /\ S = Wheel!Size(n)
  BY <1>1
<1> DEFINE i == c.index[n]
<1>31. i = TickedTo(S, T, k)
  BY <1>2, <1>30 DEF Turned
<1> HIDE DEF i
<1>3. i = c.index[n] /\ T = Ticks(n) /\ S = Wheel!Size(n)
  BY <1>30 DEF i
<1>4. /\ i \in Nat /\ i <= S
      /\ i >= S <=> (k + 1) % (T * S) = 0
      /\ ((k + 1) \div T) % S = IF i >= S THEN 0 ELSE i
  BY <1>31, NextTick
<1>5. Wheel!Round(n, c) <=> i >= S
  BY <1>3 DEF Wheel!Round
<1>6. Wheel!Round(n, c) <=> (k + 1) % Ticks(n + 1) = 0
  BY <1>1, <1>3, <1>4, <1>5
<1>7. /\ c.index \in [Wheel!Wheels -> Nat]
      /\ \A v \in Wheel!Wheels : v # n => c.index[v] = Made(n, k)[v] % Wheel!Size(v)
  <2>1. c.index \in [Wheel!Wheels -> Nat]
    BY DEF WheelState
  <2>2. ASSUME NEW v \in Wheel!Wheels, v # n PROVE c.index[v] = Made(n, k)[v] % Wheel!Size(v)
    <3>1. v \in Nat /\ (v < n \/ (~(v < n) /\ ~(v <= n)))
      <4>1. PICK x \in Nat, y \in Nat : x = v /\ y = n
        <5>1. v \in Nat
          BY WheelConstants
        <5> QED BY <5>1, <1>1
      <4> QED BY <4>1, <2>2
    <3>2. c.index[v] = IF v < n THEN ((k + 1) \div Ticks(v)) % Wheel!Size(v)
                       ELSE (k \div Ticks(v)) % Wheel!Size(v)
      BY <2>2 DEF UpTimed
    <3>3. Made(n, k)[v] = IF v <= n THEN (k + 1) \div Ticks(v) ELSE k \div Ticks(v)
      BY DEF Made
    <3>4. v < n => v <= n
      BY <3>1, <1>1
    <3> QED BY <3>1, <3>2, <3>3, <3>4
  <2> QED BY <2>1, <2>2
<1>8. Made(n, k)[n] % Wheel!Size(n) = IF i >= S THEN 0 ELSE i
  <2>1. Made(n, k)[n] = (k + 1) \div T
    BY <1>1, <1>3 DEF Made
  <2> QED BY <2>1, <1>3, <1>4
<1>9. SpokesTimed(due, c.spokes, Made(n, k), k) /\ ReadyTimed(due, loops, c.ready)
  BY Zenon DEF UpTimed
<1>10. CASE Wheel!Round(n, c)
  <2>1. Wheel!Zero(n, c) = Zeroed(c, n)
    BY <1>10, Zenon DEF Wheel!Zero, Zeroed
  <2>2. /\ Zeroed(c, n).spokes = c.spokes /\ Zeroed(c, n).ready = c.ready
        /\ Zeroed(c, n).index = [c.index EXCEPT ![n] = 0] /\ Zeroed(c, n) \in WheelState
    BY StateZero, Zenon
  <2> DEFINE ix == [c.index EXCEPT ![n] = 0]
  <2>3. \A v \in Wheel!Wheels : ix[v] = Made(n, k)[v] % Wheel!Size(v)
    BY <1>5, <1>7, <1>8, <1>10
  <2> HIDE DEF ix
  <2>4. Zeroed(c, n).index = ix
    BY <2>2 DEF ix
  <2> QED BY <2>1, <2>2, <2>3, <2>4, <1>6, <1>9
<1>11. CASE ~Wheel!Round(n, c)
  <2>1. Wheel!Zero(n, c) = c
    BY <1>11 DEF Wheel!Zero
  <2>2. \A v \in Wheel!Wheels : c.index[v] = Made(n, k)[v] % Wheel!Size(v)
    BY <1>3, <1>5, <1>7, <1>8, <1>11
  <2> QED BY <2>1, <2>2, <1>6, <1>9
<1> QED BY <1>10, <1>11

(* The tick goes on to the next wheel, which moves on if the one below it comes round. *)
LEMMA MovedTimed ==
    ASSUME NEW k \in Nat, NEW n \in Wheel!Wheels, n + 1 \in Wheel!Wheels,
           NEW nodes \in SUBSET Timer, NEW c \in Up(n, nodes), UpTimed(c, n, k),
           due \in [Timer -> Int], loops \in Nat \ {0},
           lag \in Int, lag <= MaxLag, lag >= GRANULARITY - MaxBack
    PROVE  UpTimed(Moved(n, c), n + 1, k)
<1> DEFINE z == Wheel!Zero(n, c)
           d == Wheel!CascadeWheel(n + 1, z)
           m == Made(n, k)
           on == Made(n + 1, k)
           w == n + 1
<1>0. c \in WheelState
  BY DEF Up
<1>1. /\ z \in WheelState
      /\ Wheel!Round(n, c) <=> (k + 1) % Ticks(w) = 0
      /\ \A v \in Wheel!Wheels : z.index[v] = m[v] % Wheel!Size(v)
      /\ SpokesTimed(due, z.spokes, m, k) /\ ReadyTimed(due, loops, z.ready)
  BY <1>0, ZeroTimed
<1>2. n \in Nat /\ w \in Nat /\ w \in Wheel!Wheels \ {0} /\ n < w
  BY WheelConstants
<1>3. \A v \in Wheel!Wheels : /\ v \in Nat /\ (v < w <=> v <= n) /\ (v <= w <=> v <= n \/ v = w)
                             /\ (v = w => ~(v <= n))
  BY <1>2, WheelConstants
<1>4. /\ m \in [Wheel!Wheels -> Nat] /\ on \in [Wheel!Wheels -> Nat] /\ on[0] = k + 1
      /\ \A v \in Wheel!Wheels : on[v] * Ticks(v) <= k + 1
  BY <1>2, MadeMoves
<1>5. \A v \in Wheel!Wheels : /\ m[v] = IF v <= n THEN (k + 1) \div Ticks(v) ELSE k \div Ticks(v)
                             /\ on[v] = IF v <= w THEN (k + 1) \div Ticks(v) ELSE k \div Ticks(v)
  BY DEF Made
<1>6. \A v \in Wheel!Wheels : Ticks(v) \in Nat \ {0} /\ Wheel!Size(v) \in Nat \ {0}
  BY <1>3, TicksFacts, WheelConstants
<1>7. /\ Turned(w, k) = (m[w] % Wheel!Size(w)) + (IF (k + 1) % Ticks(w) = 0 THEN 1 ELSE 0)
      /\ on[w] = m[w] + (IF (k + 1) % Ticks(w) = 0 THEN 1 ELSE 0)
  <2>1. PICK T \in Nat \ {0}, S \in Nat \ {0} : T = Ticks(w) /\ S = Wheel!Size(w)
    BY <1>6
  <2>2. (k + 1) \div T = (k \div T) + (IF (k + 1) % T = 0 THEN 1 ELSE 0)
    BY NextTick
  <2>3. m[w] = k \div Ticks(w) /\ on[w] = (k + 1) \div Ticks(w)
    BY <1>2, <1>3, <1>5
  <2>4. Turned(w, k) = (m[w] % Wheel!Size(w)) + (IF (k + 1) % Ticks(w) = 0 THEN 1 ELSE 0)
    BY <2>3 DEF Turned, TickedTo
  <2> QED BY <2>1, <2>2, <2>3, <2>4
<1> HIDE DEF z, d, m, on, w
<1>8. CASE (k + 1) % Ticks(w) = 0
  <2>1. Moved(n, c) = d
    BY <1>1, <1>8 DEF Moved, d, z, w
  <2>2. on = [m EXCEPT ![w] = @ + 1]
    <3>1. \A v \in Wheel!Wheels : v # w => on[v] = m[v]
      BY <1>3, <1>5
    <3>2. on[w] = m[w] + 1
      BY <1>7, <1>8
    <3> QED BY <3>1, <3>2, <1>2, <1>4
  <2>3. Shows(z.index, m)
    <3>1. z.index \in [Wheel!Wheels -> Nat]
      BY <1>1 DEF WheelState
    <3>2. ASSUME NEW v \in Wheel!Wheels PROVE z.index[v] % Wheel!Size(v) = m[v] % Wheel!Size(v)
      <4>1. PICK S \in Nat \ {0}, x \in Nat : S = Wheel!Size(v) /\ x = m[v]
        BY <1>4, <1>6
      <4>2. (x % S) % S = x % S
        OBVIOUS
      <4> QED BY <4>1, <4>2, <1>1
    <3> QED BY <3>1, <3>2, <1>4 DEF Shows
  <2>4. Moves(on, k)
    <3>1. on[0] - k = 1 /\ GRANULARITY * 1 = GRANULARITY
      BY <1>4, WheelConstants
    <3>2. lag >= GRANULARITY * (on[0] - k) - MaxBack
      BY <3>1
    <3>3. on[0] \in {k, k + 1}
      BY <1>4
    <3> QED BY <3>2, <3>3, <1>4 DEF Moves
  <2>5. z.index[w] < Wheel!Size(w) /\ \A v \in Wheel!Wheels : z.index[v] \in Nat
    <3>1. ASSUME NEW v \in Wheel!Wheels PROVE z.index[v] < Wheel!Size(v) /\ z.index[v] \in Nat
      <4>1. PICK S \in Nat \ {0}, x \in Nat : S = Wheel!Size(v) /\ x = m[v]
        BY <1>4, <1>6
      <4>2. x % S \in Nat /\ x % S < S
        OBVIOUS
      <4> QED BY <4>1, <4>2, <1>1
    <3> QED BY <3>1, <1>2
  <2>6. SpokesTimed(due, d.spokes, on, k) /\ ReadyTimed(due, loops, d.ready)
    <3>1. Moves([m EXCEPT ![w] = @ + 1], k)
      BY <2>2, <2>4
    <3>2. /\ SpokesTimed(due, Wheel!CascadeWheel(w, z).spokes, [m EXCEPT ![w] = @ + 1], k)
          /\ ReadyTimed(due, loops, Wheel!CascadeWheel(w, z).ready)
      BY <3>1, <2>3, <2>5, <1>1, <1>2, CascadeWheelTimed
    <3> QED BY <3>2, <2>2 DEF d, w
  <2>7. d.index = [z.index EXCEPT ![w] = @ + 1] /\ z.index \in [Wheel!Wheels -> Nat]
    <3>1. Good(z, nodes)
      BY ZeroIn DEF z
    <3>2. Wheel!CascadeWheel(w, z).index = [z.index EXCEPT ![w] = @ + 1]
      BY <3>1, <2>5, <1>1, <1>2, CascadeWheelDeals
    <3> QED BY <3>2, <1>1 DEF d, w, WheelState
  <2>8. ASSUME NEW v \in Wheel!Wheels
        PROVE  d.index[v] = IF v < w THEN ((k + 1) \div Ticks(v)) % Wheel!Size(v)
                            ELSE IF v = w THEN Turned(v, k) ELSE (k \div Ticks(v)) % Wheel!Size(v)
    <3>1. d.index[v] = IF v = w THEN (m[v] % Wheel!Size(v)) + 1 ELSE m[v] % Wheel!Size(v)
      BY <2>7, <1>1
    <3>2. v = w => Turned(v, k) = (m[v] % Wheel!Size(v)) + 1
      BY <1>7, <1>8
    <3> QED BY <3>1, <3>2, <1>3, <1>5
  <2> QED BY <2>1, <2>6, <2>8 DEF UpTimed, on, w
<1>9. CASE (k + 1) % Ticks(w) # 0
  <2>1. Moved(n, c) = c /\ z = c
    BY <1>1, <1>9 DEF Moved, z, Wheel!Zero
  <2>2. on = m
    <3>1. \A v \in Wheel!Wheels : v # w => on[v] = m[v]
      BY <1>3, <1>5
    <3>2. m[w] \in Nat
      BY <1>2, <1>4
    <3>3. on[w] = m[w]
      BY <3>2, <1>7, <1>9
    <3>4. \A v \in Wheel!Wheels : on[v] = m[v]
      BY <3>1, <3>3
    <3> QED BY <3>4, <1>4
  <2>3. ASSUME NEW v \in Wheel!Wheels
        PROVE  c.index[v] = IF v < w THEN ((k + 1) \div Ticks(v)) % Wheel!Size(v)
                            ELSE IF v = w THEN Turned(v, k) ELSE (k \div Ticks(v)) % Wheel!Size(v)
    <3>1. c.index[v] = m[v] % Wheel!Size(v)
      BY <2>1, <1>1
    <3>2. v = w => Turned(v, k) = m[v] % Wheel!Size(v)
      <4>1. m[w] % Wheel!Size(w) \in Nat
        <5>1. PICK S \in Nat \ {0}, x \in Nat : S = Wheel!Size(w) /\ x = m[w]
          BY <1>2, <1>4, <1>6
        <5>2. x % S \in Nat
          OBVIOUS
        <5> QED BY <5>1, <5>2
      <4> QED BY <4>1, <1>7, <1>9
    <3> QED BY <3>1, <3>2, <1>3, <1>5
  <2> QED BY <2>1, <2>2, <2>3, <1>1 DEF UpTimed, on, w
<1> QED BY <1>8, <1>9

(* A cascade takes the wheels to the next tick. *)
LEMMA CascadeTimed ==
    ASSUME NEW k \in Nat, NEW nodes \in SUBSET Timer, NEW turned \in Up(0, nodes), UpTimed(turned, 0, k),
           due \in [Timer -> Int], loops \in Nat \ {0},
           lag \in Int, lag <= MaxLag, lag >= GRANULARITY - MaxBack
    PROVE  /\ \A v \in Wheel!Wheels : Wheel!Cascade(turned).index[v] = Count(k + 1)[v] % Wheel!Size(v)
           /\ SpokesTimed(due, Wheel!Cascade(turned).spokes, Count(k + 1), k)
           /\ ReadyTimed(due, loops, Wheel!Cascade(turned).ready)
<1>1. PICK f : /\ f[0] = turned
               /\ \A i \in 0 .. WHEEL_NUM - 1 : f[i] \in Up(i, nodes)
               /\ \A i \in 0 .. WHEEL_NUM - 2 : f[i + 1] = Moved(i, f[i])
               /\ Wheel!Cascade(turned) = Wheel!Zero(WHEEL_NUM - 1, f[WHEEL_NUM - 1])
  BY CascadeSteps
<1>2. PICK n \in Nat : n = WHEEL_NUM - 1 /\ n - 1 = WHEEL_NUM - 2 /\ Wheel!Wheels = 0 .. n
  BY WheelConstants
<1> DEFINE S == {i \in 0 .. n : UpTimed(f[i], i, k)}
<1>3. 0 \in S
  BY <1>1, <1>2
<1>4. ASSUME NEW i \in 0 .. n - 1, i \in S PROVE i + 1 \in S
  <2>1. i \in Wheel!Wheels /\ i + 1 \in Wheel!Wheels /\ i + 1 \in 0 .. n /\ i \in 0 .. n
    BY <1>2
  <2>2. f[i] \in Up(i, nodes) /\ f[i + 1] = Moved(i, f[i]) /\ UpTimed(f[i], i, k)
    BY <2>1, <1>1, <1>2, <1>4
  <2>3. UpTimed(Moved(i, f[i]), i + 1, k)
    BY <2>1, <2>2, MovedTimed
  <2> QED BY <2>1, <2>2, <2>3
<1> HIDE DEF S
<1>5. n \in S
  <2>1. n \in 0 .. n
    BY <1>2
  <2> QED BY <2>1, <1>3, <1>4, InductUpto
<1>6. n \in Wheel!Wheels /\ f[n] \in WheelState /\ UpTimed(f[n], n, k)
  <2>1. n \in 0 .. n
    BY <1>2
  <2> QED BY <2>1, <1>1, <1>2, <1>5 DEF S, Up
<1>7. /\ \A v \in Wheel!Wheels : Wheel!Zero(n, f[n]).index[v] = Made(n, k)[v] % Wheel!Size(v)
      /\ SpokesTimed(due, Wheel!Zero(n, f[n]).spokes, Made(n, k), k) /\ ReadyTimed(due, loops, Wheel!Zero(n, f[n]).ready)
  BY <1>6, ZeroTimed
<1>8. Made(n, k) = Count(k + 1)
  BY <1>2, MadeMoves
<1>9. Wheel!Cascade(turned) = Wheel!Zero(n, f[n])
  BY <1>1, <1>2
<1> QED BY <1>7, <1>8, <1>9

(* The wheels after k ticks. *)
WheelsAt(k) ==
    /\ \A v \in Wheel!Wheels : spokeindex[v] = Count(k)[v] % Wheel!Size(v)
    /\ SpokesTimed(due, spokes, Count(k), k)

(* The wheels have seen some number of ticks, and stand where these took them; every timer in a
   spoke, and every one that is ready, keeps to the bound; and the loop of DetectTimerList is over
   when a timer is called. *)
WheelTimes ==
    /\ phase # "detecting" => loops = 0
    /\ ReadyTimed(due, loops, readynodes)
    /\ \E k \in Nat : WheelsAt(k)

(* The wheels begin at no tick, with no timers. *)
LEMMA TimesInit == Wheel!Init => WheelTimes
<1> SUFFICES ASSUME Wheel!Init PROVE WheelTimes
  OBVIOUS
<1>1. loops = 0 /\ readynodes = <<>> /\ spokes = [s \in Wheel!Spokes |-> <<>>] /\ spokeindex = [w \in Wheel!Wheels |-> 0]
  BY DEF Wheel!Init
<1>2. ReadyTimed(due, loops, readynodes)
  BY <1>1 DEF ReadyTimed, Wheel!In
<1>3. ASSUME NEW v \in Wheel!Wheels PROVE spokeindex[v] = Count(0)[v] % Wheel!Size(v)
  <2>1. v \in Nat
    BY WheelConstants
  <2>2. PICK T \in Nat \ {0}, S \in Nat \ {0} : T = Ticks(v) /\ S = Wheel!Size(v)
    BY <2>1, TicksFacts, WheelConstants
  <2>3. 0 \div T = 0 /\ 0 % S = 0
    <3>1. T * 0 + 0 = 0 /\ S * 0 + 0 = 0 /\ 0 \in 0 .. T - 1 /\ 0 \in 0 .. S - 1
      OBVIOUS
    <3>2. (T * 0 + 0) \div T = 0 /\ (S * 0 + 0) % S = 0
      BY <3>1, DivideOf
    <3> QED BY <3>1, <3>2
  <2>4. Count(0)[v] = 0 \div T
    BY <2>2 DEF Count
  <2> QED BY <2>2, <2>3, <2>4, <1>1
<1>4. SpokesTimed(due, spokes, Count(0), 0)
  <2> SUFFICES ASSUME NEW v \in Wheel!Wheels, NEW i \in Nat, NEW t \in Timer, i < Wheel!Size(v),
                      Wheel!In(spokes[<<v, i>>], t)
               PROVE  FALSE
    BY Zenon DEF SpokesTimed
  <2>1. <<v, i>> \in Wheel!Spokes
    BY SpokesAre
  <2>2. spokes[<<v, i>>] = <<>>
    BY <2>1, <1>1
  <2> QED BY <2>2 DEF Wheel!In
<1>5. WheelsAt(0)
  BY <1>3, <1>4, Zenon DEF WheelsAt
<1> QED BY <1>1, <1>2, <1>5 DEF WheelTimes

(* Timers that stay in their spokes, and are due when they were, keep to the bound. *)
LEMMA SpokesKept ==
    ASSUME NEW d, NEW e, NEW sp, NEW to, NEW m, NEW k, SpokesTimed(d, sp, m, k),
           \A s \in Wheel!Spokes, t \in Timer : Wheel!In(to[s], t) => Wheel!In(sp[s], t) /\ e[t] = d[t]
    PROVE  SpokesTimed(e, to, m, k)
<1> SUFFICES ASSUME NEW v \in Wheel!Wheels, NEW i \in Nat, NEW t \in Timer, i < Wheel!Size(v),
                    Wheel!In(to[<<v, i>>], t)
             PROVE  \E x \in Awaits(v, i, m) : Bound(e, t, v, x, k)
  BY Zenon DEF SpokesTimed
<1>1. <<v, i>> \in Wheel!Spokes
  BY SpokesAre
<1>2. Wheel!In(sp[<<v, i>>], t) /\ e[t] = d[t]
  BY <1>1
<1>3. PICK x \in Awaits(v, i, m) : Bound(d, t, v, x, k)
  BY <1>2, Zenon DEF SpokesTimed
<1>4. Bound(e, t, v, x, k)
  BY <1>2, <1>3, Zenon DEF Bound
<1> QED BY <1>4

(* AddTimer, when no loop of DetectTimerList runs. *)
LEMMA AddTimerTimed ==
    ASSUME NEW t \in Timer, NEW w \in SpokeLists, NEW k \in Nat, WheelInv, Wheel!AddTimer(t, w),
           \A v \in Wheel!Wheels : spokeindex[v] = Count(k)[v] % Wheel!Size(v),
           SpokesTimed(due, w, Count(k), k), \A s \in Wheel!Spokes : ~Wheel!In(w[s], t)
    PROVE  SpokesTimed(due', spokes', Count(k), k)
<1>1. /\ lag \in Int /\ lag >= -MaxBack /\ lag <= MaxLag /\ due \in [Timer -> Int] /\ interval[t] \in Nat
      /\ spokeindex \in [Wheel!Wheels -> Nat]
  <2>1. /\ lag \in -MaxBack .. MaxLag /\ due \in [Timer -> Int] /\ interval \in [Timer -> Intervals]
        /\ spokeindex \in [Wheel!Wheels -> Nat]
    BY Zenon DEF WheelInv, Wheel!TypeOK
  <2>2. MaxBack \in Nat /\ MaxLag \in Nat /\ Intervals \subseteq Nat
    BY WheelConstants
  <2>3. interval[t] \in Intervals
    BY <2>1, Zenon
  <2>4. interval[t] \in Nat
    BY <2>2, <2>3, Zenon
  <2>5. lag \in Int /\ lag >= -MaxBack /\ lag <= MaxLag
    BY <2>1, <2>2
  <2> QED BY <2>1, <2>4, <2>5
<1>2. /\ spokes' = [w EXCEPT ![Wheel!SpokeFor(interval[t], spokeindex)] = Append(@, t)]
      /\ due' = [due EXCEPT ![t] = lag + interval[t]]
  BY DEF Wheel!AddTimer
<1>3. SpokesTimed(due', w, Count(k), k)
  <2>1. \A s \in Wheel!Spokes, u \in Timer : Wheel!In(w[s], u) => Wheel!In(w[s], u) /\ due'[u] = due[u]
    BY <1>1, <1>2
  <2> QED BY <2>1, SpokesKept
<1>4. Moves(Count(k), k)
  <2>1. Count(k) \in [Wheel!Wheels -> Nat] /\ Count(k)[0] = k /\ \A v \in Wheel!Wheels : Count(k)[v] * Ticks(v) <= k
    BY MadeMoves
  <2>2. \A v \in Wheel!Wheels : Count(k)[v] * Ticks(v) <= k + 1
    <3> SUFFICES ASSUME NEW v \in Wheel!Wheels PROVE Count(k)[v] * Ticks(v) <= k + 1
      OBVIOUS
    <3>1. v \in Nat
      BY WheelConstants
    <3>2. PICK T \in Nat, c \in Nat : T = Ticks(v) /\ c = Count(k)[v]
      BY <2>1, <3>1, TicksFacts
    <3>3. c * T \in Nat /\ c * T <= k
      BY <2>1, <3>2
    <3> QED BY <3>2, <3>3
  <2>3. Count(k)[0] - k = 0 /\ GRANULARITY * 0 = 0
    BY <2>1, WheelConstants
  <2>4. lag >= GRANULARITY * (Count(k)[0] - k) - MaxBack
    BY <2>3, <1>1, WheelConstants
  <2> QED BY <2>1, <2>2, <2>4, <1>1 DEF Moves
<1>5. Shows(spokeindex, Count(k))
  <2>1. Count(k) \in [Wheel!Wheels -> Nat]
    BY MadeMoves
  <2>2. ASSUME NEW v \in Wheel!Wheels PROVE spokeindex[v] % Wheel!Size(v) = Count(k)[v] % Wheel!Size(v)
    <3>1. PICK S \in Nat \ {0}, x \in Nat : S = Wheel!Size(v) /\ x = Count(k)[v]
      BY <2>1, WheelConstants
    <3>2. (x % S) % S = x % S
      OBVIOUS
    <3> QED BY <3>1, <3>2
  <2> QED BY <2>1, <2>2, <1>1 DEF Shows
<1>6. due'[t] = lag + interval[t]
  BY <1>1, <1>2
<1>7. SpokesTimed(due', [w EXCEPT ![Wheel!SpokeFor(interval[t], spokeindex)] = Append(@, t)], Count(k), k)
  BY <1>1, <1>3, <1>4, <1>5, <1>6, PutTimed
<1> QED BY <1>2, <1>7

(* The move that a timer awaits is not over after k ticks. *)
LEMMA AwaitsLater ==
    ASSUME NEW k \in Nat, NEW v \in Wheel!Wheels, NEW i, NEW x \in Awaits(v, i, Count(k))
    PROVE  x \in Nat /\ Ticks(v) \in Nat /\ x * Ticks(v) - k - 1 \in Nat
<1>1. x \in Nat /\ x > k \div Ticks(v)
  BY DEF Awaits, Count
<1>2. v \in Nat
  BY WheelConstants
<1>3. PICK T \in Nat \ {0} : T = Ticks(v)
  BY <1>2, TicksFacts
<1>4. PICK q \in Nat, r \in 0 .. T - 1 : k = T * q + r /\ k \div T = q
  <2>1. \E q \in Nat, r \in 0 .. T - 1 : k = T * q + r /\ k \div T = q /\ k % T = r
    BY Divide
  <2> QED BY <2>1
<1>5. PICK y \in Nat : x = q + 1 + y
  <2>1. x - q - 1 \in Nat /\ x = q + 1 + (x - q - 1)
    BY <1>1, <1>3, <1>4
  <2> QED BY <2>1
<1>6. x * T = T * q + T + T * y /\ T * y \in Nat /\ T * q \in Nat
  BY <1>5
<1>7. x * T - k - 1 \in Nat
  BY <1>4, <1>6
<1> QED BY <1>1, <1>3, <1>7

(* No timer in a spoke is due long before the time the wheels stand at. *)
LEMMA SpokesNotLate ==
    ASSUME NEW k \in Nat, NEW d \in [Timer -> Int], NEW sp, SpokesTimed(d, sp, Count(k), k),
           NEW s \in Wheel!Spokes, NEW t \in Timer, Wheel!In(sp[s], t)
    PROVE  d[t] >= -MaxBack
<1>0. PICK v \in Wheel!Wheels : s \in {v} \X (0 .. Wheel!Size(v) - 1)
  BY DEF Wheel!Spokes
<1>1. PICK i \in 0 .. Wheel!Size(v) - 1 : s = <<v, i>>
  BY <1>0
<1>2. i \in Nat /\ i < Wheel!Size(v)
  BY WheelConstants
<1>3. PICK x \in Awaits(v, i, Count(k)) : Bound(d, t, v, x, k)
  BY <1>1, <1>2, Zenon DEF SpokesTimed
<1>4. PICK y \in Nat : y = x * Ticks(v) - k - 1
  BY AwaitsLater
<1>5. GRANULARITY * y \in Nat
  BY WheelConstants
<1>6. d[t] >= GRANULARITY * y - MaxBack
  BY <1>3, <1>4 DEF Bound
<1>7. PICK g \in Nat : g = GRANULARITY * y
  BY <1>5
<1>8. MaxBack \in Nat /\ d[t] \in Int
  BY WheelConstants
<1> QED BY <1>6, <1>7, <1>8

(* A tick later, the timers are due a tick sooner and the moves they await are a tick nearer. *)
LEMMA SpokesLater ==
    ASSUME NEW k \in Nat, NEW d \in [Timer -> Int], NEW e, NEW sp, SpokesTimed(d, sp, Count(k + 1), k),
           \A s \in Wheel!Spokes, t \in Timer : Wheel!In(sp[s], t) => e[t] = Wheel!Sooner(d[t])
    PROVE  SpokesTimed(e, sp, Count(k + 1), k + 1)
<1> SUFFICES ASSUME NEW v \in Wheel!Wheels, NEW i \in Nat, NEW t \in Timer, i < Wheel!Size(v),
                    Wheel!In(sp[<<v, i>>], t)
             PROVE  \E x \in Awaits(v, i, Count(k + 1)) : Bound(e, t, v, x, k + 1)
  BY Zenon DEF SpokesTimed
<1>1. PICK x \in Awaits(v, i, Count(k + 1)) : Bound(d, t, v, x, k)
  BY Zenon DEF SpokesTimed
<1>2. PICK j \in Nat : j = k + 1
  OBVIOUS
<1>3. x \in Awaits(v, i, Count(j))
  BY <1>1, <1>2
<1>4. x \in Nat /\ Ticks(v) \in Nat /\ x * Ticks(v) - j - 1 \in Nat
  BY <1>3, AwaitsLater
<1>5. PICK y \in Nat, G \in Nat : y = x * Ticks(v) - j - 1 /\ G = GRANULARITY
  BY <1>4, WheelConstants
<1>6. PICK xt \in Nat : xt = x * Ticks(v)
  BY <1>4
<1>7. x * Ticks(v) - k - 1 = y + 1
  BY <1>2, <1>5, <1>6
<1>8. G * (y + 1) = G * y + G /\ G * y \in Nat /\ G * (x - k) \in Int /\ G * (x - k) - G = G * (x - (k + 1))
  <2>1. G * (y + 1) = G * y + G /\ G * y \in Nat
    OBVIOUS
  <2>2. G * (x - k) = G * x - G * k /\ G * (x - (k + 1)) = G * x - G * k - G /\ G * x \in Nat /\ G * k \in Nat
    BY <1>4
  <2> QED BY <2>1, <2>2
<1>9. PICK g \in Nat : g = G * y
  BY <1>8
<1>10. MaxBack \in Nat /\ MaxLag \in Nat /\ d[t] \in Int
  BY WheelConstants
<1>11. /\ d[t] >= g + G - MaxBack
       /\ v = 0 => d[t] < MaxLag + G * (x - k)
  <2>1. /\ d[t] >= GRANULARITY * (x * Ticks(v) - k - 1) - MaxBack
        /\ v = 0 => d[t] < MaxLag + GRANULARITY * (x - k)
    BY <1>1, Zenon DEF Bound
  <2>2. GRANULARITY * (x * Ticks(v) - k - 1) = g + G
    BY <1>5, <1>7, <1>8, <1>9
  <2>3. d[t] >= (g + G) - MaxBack
    BY <2>1, <2>2
  <2>4. d[t] >= g + G - MaxBack
    BY <2>3, <1>10
  <2>5. v = 0 => d[t] < MaxLag + G * (x - k)
    BY <2>1, <1>5
  <2> QED BY <2>4, <2>5
<1>12. e[t] = d[t] - G
  <2>1. <<v, i>> \in Wheel!Spokes
    BY SpokesAre
  <2>2. e[t] = Wheel!Sooner(d[t])
    BY <2>1
  <2>3. ~(d[t] < -MaxBack)
    BY <1>10, <1>11
  <2> QED BY <2>2, <2>3, <1>5 DEF Wheel!Sooner
<1>13. e[t] >= G * (x * Ticks(v) - (k + 1) - 1) - MaxBack
  <2>1. x * Ticks(v) - (k + 1) - 1 = y
    BY <1>2, <1>5
  <2>2. e[t] >= g - MaxBack
    BY <1>10, <1>11, <1>12
  <2> QED BY <2>1, <2>2, <1>9
<1>14. v = 0 => e[t] < MaxLag + G * (x - (k + 1))
  BY <1>8, <1>10, <1>11, <1>12
<1>15. Bound(e, t, v, x, k + 1)
  BY <1>5, <1>13, <1>14 DEF Bound
<1> QED BY <1>15

(* A turn begins with the spoke of wheel 0 whose timers await this very tick. *)
LEMMA TurningTimed ==
    ASSUME WheelInv, NEW k \in Nat, WheelsAt(k), ReadyTimed(due, loops, readynodes), loops > 0
    PROVE  UpTimed(Turning, 0, k)
<1> DEFINE spoke == <<0, spokeindex[0]>>
           S == Wheel!Size(0)
<1>0. /\ spokes \in SpokeLists /\ readynodes \in Seq(Timer) /\ due \in [Timer -> Int] /\ loops \in Nat
      /\ spokeindex \in [Wheel!Wheels -> Nat] /\ \A w \in Wheel!Wheels : spokeindex[w] < Wheel!Size(w)
  BY Zenon DEF WheelInv, Wheel!TypeOK, SpokeLists
<1>1. /\ \A v \in Wheel!Wheels : spokeindex[v] = Count(k)[v] % Wheel!Size(v)
      /\ SpokesTimed(due, spokes, Count(k), k)
  BY Zenon DEF WheelsAt
<1>2. /\ Turning.spokes = [spokes EXCEPT ![spoke] = <<>>]
      /\ Turning.index = [spokeindex EXCEPT ![0] = @ + 1]
      /\ Turning.ready = readynodes \o spokes[spoke]
  BY TurningIs
<1>3. /\ 0 \in Wheel!Wheels /\ S \in Nat \ {0} /\ Ticks(0) = 1 /\ Count(k)[0] = k /\ Made(0, k)[0] = k + 1
      /\ spokeindex[0] \in Nat /\ spokeindex[0] = k % S
  <2>1. 0 \in Wheel!Wheels /\ S \in Nat \ {0}
    BY WheelConstants
  <2>2. Ticks(0) = 1
    BY TicksFacts
  <2>3. Count(k)[0] = k /\ Made(0, k)[0] = k + 1
    BY MadeMoves
  <2> QED BY <2>1, <2>2, <2>3, <1>0, <1>1
<1>4. spoke \in Wheel!Spokes
  BY <1>0, <1>3, SpokesAre
<1>5. ASSUME NEW v \in Wheel!Wheels
      PROVE  Turning.index[v] = IF v < 0 THEN ((k + 1) \div Ticks(v)) % Wheel!Size(v)
                                ELSE IF v = 0 THEN Turned(v, k)
                                ELSE (k \div Ticks(v)) % Wheel!Size(v)
  <2>1. ~(v < 0)
    <3>1. v \in Nat
      BY WheelConstants
    <3> QED BY <3>1
  <2>2. Turning.index[v] = IF v = 0 THEN spokeindex[v] + 1 ELSE spokeindex[v]
    BY <1>0, <1>2
  <2>3. CASE v = 0
    <3>1. k \div 1 = k /\ (k + 1) % 1 = 0
      OBVIOUS
    <3>2. Turned(0, k) = (k % S) + 1
      BY <3>1, <1>3 DEF Turned, TickedTo
    <3> QED BY <3>2, <2>1, <2>2, <2>3, <1>3
  <2>4. CASE v # 0
    BY <2>1, <2>2, <2>4, <1>1 DEF Count
  <2> QED BY <2>3, <2>4
<1>6. SpokesTimed(due, Turning.spokes, Made(0, k), k)
  <2> SUFFICES ASSUME NEW v \in Wheel!Wheels, NEW i \in Nat, NEW t \in Timer, i < Wheel!Size(v),
                      Wheel!In(Turning.spokes[<<v, i>>], t)
               PROVE  \E x \in Awaits(v, i, Made(0, k)) : Bound(due, t, v, x, k)
    BY Zenon DEF SpokesTimed
  <2>1. Wheel!In(spokes[<<v, i>>], t) /\ <<v, i>> # spoke
    <3>1. <<v, i>> \in Wheel!Spokes
      BY SpokesAre
    <3> HIDE DEF spoke
    <3>2. CASE <<v, i>> = spoke
      <4>1. Turning.spokes[<<v, i>>] = <<>>
        BY <3>1, <3>2, <1>0, <1>2 DEF SpokeLists
      <4> QED BY <4>1 DEF Wheel!In
    <3>3. CASE <<v, i>> # spoke
      <4>1. Turning.spokes[<<v, i>>] = spokes[<<v, i>>]
        BY <3>1, <3>3, <1>0, <1>2 DEF SpokeLists
      <4> QED BY <4>1, <3>1, <3>3
    <3> QED BY <3>2, <3>3
  <2>2. PICK x \in Awaits(v, i, Count(k)) : Bound(due, t, v, x, k)
    BY <2>1, <1>1, Zenon DEF SpokesTimed
  <2>3. x \in Nat /\ x > Count(k)[v] /\ (x - 1) % Wheel!Size(v) = i /\ (v = 0 => x <= k + S)
    <3>1. x \in Nat /\ x > Count(k)[v] /\ (x - 1) % Wheel!Size(v) = i /\ (v = 0 => x <= Count(k)[0] + Wheel!Size(0))
      BY <2>2, Zenon DEF Awaits
    <3> QED BY <3>1, <1>3
  <2>4. x > Made(0, k)[v] /\ (v = 0 => x <= Made(0, k)[0] + S)
    <3>1. CASE v = 0
      <4>1. i # k % S
        BY <3>1, <2>1, <1>3
      <4>2. x - 1 # k
        BY <4>1, <3>1, <2>3
      <4> QED BY <4>2, <3>1, <2>3, <1>3
    <3>2. CASE v # 0
      <4>1. Made(0, k)[v] = Count(k)[v]
        <5>1. v \in Nat
          BY WheelConstants
        <5>2. ~(v <= 0)
          BY <5>1, <3>2
        <5> QED BY <5>2 DEF Made, Count
      <4> QED BY <4>1, <3>2, <2>3
    <3> QED BY <3>1, <3>2
  <2>5. x \in Awaits(v, i, Made(0, k))
    BY <2>3, <2>4 DEF Awaits
  <2> QED BY <2>2, <2>5
<1>7. ReadyTimed(due, loops, Turning.ready)
  <2> SUFFICES ASSUME NEW t \in Timer, Wheel!In(spokes[spoke], t) PROVE due[t] < MaxLag + loops * GRANULARITY
    <3>1. spokes[spoke] \in Seq(Timer)
      BY <1>0, <1>4 DEF SpokeLists
    <3>2. \A x : Wheel!In(Turning.ready, x) <=> Wheel!In(readynodes, x) \/ Wheel!In(spokes[spoke], x)
      BY <3>1, <1>0, <1>2, InConcat
    <3> QED BY <3>2, Zenon DEF ReadyTimed
  <2>1. PICK x \in Awaits(0, spokeindex[0], Count(k)) : Bound(due, t, 0, x, k)
    BY <1>0, <1>1, <1>3, Zenon DEF SpokesTimed
  <2>2. x \in Nat /\ x > k /\ (x - 1) % S = k % S /\ x <= k + S
    <3>1. /\ x \in Nat /\ x > Count(k)[0] /\ (x - 1) % Wheel!Size(0) = spokeindex[0]
          /\ (0 = 0 => x <= Count(k)[0] + Wheel!Size(0))
      BY <2>1, Zenon DEF Awaits
    <3> QED BY <3>1, <1>3
  <2>3. x = k + 1
    <3>1. PICK y \in Nat : y = x - 1
      BY <2>2
    <3>2. k <= y /\ y < k + S /\ k % S = y % S
      BY <3>1, <2>2, <1>3
    <3>3. k = y
      BY <3>2, <1>3, SameRemainder
    <3> QED BY <3>1, <3>3, <2>2
  <2>4. due[t] < MaxLag + GRANULARITY
    <3>1. x - k = 1 /\ GRANULARITY * 1 = GRANULARITY
      BY <2>3, WheelConstants
    <3>2. due[t] < MaxLag + GRANULARITY * (x - k)
      BY <2>1 DEF Bound
    <3> QED BY <3>1, <3>2
  <2>5. PICK l \in Nat : loops = l + 1
    <3>1. loops - 1 \in Nat /\ loops = (loops - 1) + 1
      BY <1>0
    <3> QED BY <3>1
  <2>6. loops * GRANULARITY = l * GRANULARITY + GRANULARITY /\ l * GRANULARITY \in Nat
    BY <2>5, WheelConstants
  <2>7. GRANULARITY \in Nat /\ MaxLag \in Nat /\ due[t] \in Int
    BY <1>0, WheelConstants
  <2> QED BY <2>4, <2>6, <2>7
<1> QED BY <1>5, <1>6, <1>7 DEF UpTimed

(* A turn takes the wheels and their timers to the next tick. *)
LEMMA TurnTimed == WheelInv /\ WheelTimes /\ Wheel!Turn => WheelTimes'
<1> SUFFICES ASSUME WheelInv, WheelTimes, Wheel!Turn PROVE WheelTimes'
  OBVIOUS
<1> DEFINE c == Wheel!Cascade(Turning)
<1>0. /\ due \in [Timer -> Int] /\ loops \in Nat /\ timernode \in SUBSET Timer /\ lag \in -MaxBack .. MaxLag
      /\ lag >= loops * GRANULARITY - MaxBack
  BY Zenon DEF WheelInv, Wheel!TypeOK
<1>1. /\ phase = "detecting" /\ loops > 0
      /\ spokes' = c.spokes /\ spokeindex' = c.index /\ readynodes' = c.ready
      /\ lag' = lag - GRANULARITY /\ loops' = loops - 1
      /\ due' = [t \in Timer |-> IF t \in timernode THEN Wheel!Sooner(due[t]) ELSE 0]
      /\ UNCHANGED <<interval, timernode, phase, running>>
  BY DEF Wheel!Turn, Turning
<1>2. PICK k \in Nat : WheelsAt(k)
  BY DEF WheelTimes
<1>3. PICK l \in Nat : loops = l + 1
  <2>1. loops - 1 \in Nat /\ loops = (loops - 1) + 1
    BY <1>0, <1>1
  <2> QED BY <2>1
<1>4. /\ loops * GRANULARITY = l * GRANULARITY + GRANULARITY /\ l * GRANULARITY \in Nat
      /\ GRANULARITY \in Nat /\ MaxLag \in Nat /\ MaxBack \in Nat
  BY <1>3, WheelConstants
<1>5. lag \in Int /\ lag <= MaxLag /\ lag >= GRANULARITY - MaxBack
  <2>1. PICK g \in Nat : g = l * GRANULARITY
    BY <1>4
  <2>2. lag >= g + GRANULARITY - MaxBack
    BY <2>1, <1>0, <1>4
  <2> QED BY <2>1, <2>2, <1>0, <1>4
<1>6. Turning \in Up(0, timernode) /\ UpTimed(Turning, 0, k)
  BY <1>1, <1>2, TurningUp, TurningTimed DEF WheelTimes
<1>7. /\ \A v \in Wheel!Wheels : c.index[v] = Count(k + 1)[v] % Wheel!Size(v)
      /\ SpokesTimed(due, c.spokes, Count(k + 1), k)
      /\ ReadyTimed(due, loops, c.ready)
  <2>1. loops \in Nat \ {0}
    BY <1>0, <1>1
  <2> QED BY <2>1, <1>0, <1>5, <1>6, CascadeTimed
<1>8. Good(c, timernode)
  <2>1. lag \in Int
    BY <1>5
  <2> QED BY <2>1, <1>0, <1>6, CascadeDeals
<1> HIDE DEF c
<1>9. /\ \A s \in Wheel!Spokes, t \in Timer : Wheel!In(c.spokes[s], t) => t \in timernode
      /\ \A t \in Timer : Wheel!In(c.ready, t) => t \in timernode
  BY <1>8 DEF Good, Wheel!LinkedAs
<1>10. \A t \in Timer : t \in timernode => due'[t] = Wheel!Sooner(due[t])
  BY <1>1
<1>11. SpokesTimed(due', c.spokes, Count(k + 1), k + 1)
  <2>1. \A s \in Wheel!Spokes, t \in Timer : Wheel!In(c.spokes[s], t) => due'[t] = Wheel!Sooner(due[t])
    BY <1>9, <1>10
  <2> QED BY <2>1, <1>0, <1>7, SpokesLater
<1>12. ReadyTimed(due', loops', c.ready)
  <2> SUFFICES ASSUME NEW t \in Timer, Wheel!In(c.ready, t) PROVE due'[t] < MaxLag + loops' * GRANULARITY
    BY Zenon DEF ReadyTimed
  <2>1. due[t] < MaxLag + loops * GRANULARITY
    BY <1>7, Zenon DEF ReadyTimed
  <2>2. due'[t] = Wheel!Sooner(due[t])
    BY <1>9, <1>10
  <2>3. PICK g \in Nat : g = l * GRANULARITY
    BY <1>4
  <2>4. loops' * GRANULARITY = g /\ due[t] < MaxLag + g + GRANULARITY
    <3>1. loops' = l
      BY <1>1, <1>3
    <3> QED BY <3>1, <2>1, <2>3, <1>4
  <2>5. due[t] \in Int /\ (due'[t] = due[t] - GRANULARITY \/ (due[t] < -MaxBack /\ due'[t] = due[t]))
    BY <2>2, <1>0 DEF Wheel!Sooner
  <2> QED BY <2>3, <2>4, <2>5, <1>4
<1>13. WheelsAt(k + 1)'
  BY <1>1, <1>7, <1>11 DEF WheelsAt
<1>14. k + 1 \in Nat /\ phase' = "detecting"
  BY <1>1
<1>15. ReadyTimed(due, loops, readynodes)'
  BY <1>1, <1>12
<1> QED BY <1>13, <1>14, <1>15 DEF WheelTimes

(* Every step of the wheels keeps the bounds. *)
LEMMA TimesStep == WheelInv /\ WheelTimes /\ [Wheel!Next]_Wheel!vars => WheelTimes'
<1> SUFFICES ASSUME WheelInv, WheelTimes, [Wheel!Next]_Wheel!vars PROVE WheelTimes'
  OBVIOUS
<1>0. /\ spokes \in SpokeLists /\ readynodes \in Seq(Timer) /\ due \in [Timer -> Int] /\ loops \in Nat
      /\ timernode \in SUBSET Timer
      /\ Wheel!LinkedAs(spokes, readynodes, timernode)
  BY Zenon DEF WheelInv, Wheel!TypeOK, Wheel!Linked, SpokeLists
<1>1. PICK k \in Nat : WheelsAt(k)
  BY DEF WheelTimes
<1>2. /\ \A v \in Wheel!Wheels : spokeindex[v] = Count(k)[v] % Wheel!Size(v)
      /\ SpokesTimed(due, spokes, Count(k), k)
      /\ ReadyTimed(due, loops, readynodes) /\ (phase # "detecting" => loops = 0)
  BY <1>1 DEF WheelsAt, WheelTimes
\* The lists and the times stand still, or the timer t leaves the lists.
<1>3. ASSUME spokeindex' = spokeindex, SpokesTimed(due', spokes', Count(k), k),
             ReadyTimed(due', loops', readynodes'), phase' # "detecting" => loops' = 0
      PROVE  WheelTimes'
  <2>1. WheelsAt(k)'
    BY <1>2, <1>3 DEF WheelsAt
  <2>2. ReadyTimed(due, loops, readynodes)'
    BY <1>3
  <2> QED BY <2>1, <2>2, <1>3 DEF WheelTimes
<1>4. ASSUME NEW e, NEW sp, NEW rd,
             \A s \in Wheel!Spokes, t \in Timer : Wheel!In(sp[s], t) => Wheel!In(spokes[s], t) /\ e[t] = due[t],
             \A t \in Timer : Wheel!In(rd, t) => Wheel!In(readynodes, t) /\ e[t] = due[t]
      PROVE  SpokesTimed(e, sp, Count(k), k) /\ ReadyTimed(e, loops, rd)
  <2>1. SpokesTimed(e, sp, Count(k), k)
    BY <1>2, <1>4, SpokesKept
  <2>2. ReadyTimed(e, loops, rd)
    BY <1>2, <1>4 DEF ReadyTimed
  <2> QED BY <2>1, <2>2
<1>5. CASE Wheel!Detect
  <2>1. /\ phase = "idle" /\ phase' = "detecting" /\ loops' = IF lag > 0 THEN lag \div GRANULARITY ELSE 0
        /\ UNCHANGED <<lag, due, spokes, spokeindex, readynodes>>
    BY <1>5 DEF Wheel!Detect, Wheel!lists
  <2>2. loops = 0
    BY <2>1, <1>2
  <2>3. ReadyTimed(due', loops', readynodes')
    <3>1. loops' \in Nat
      <4>1. lag > 0 => lag \div GRANULARITY \in Nat
        <5>1. lag \in Int /\ GRANULARITY \in Nat \ {0}
          BY WheelConstants DEF WheelInv, Wheel!TypeOK
        <5> QED BY <5>1, Quotient
      <4> QED BY <4>1, <2>1
    <3>2. PICK g \in Nat : g = loops' * GRANULARITY
      BY <3>1, WheelConstants, Product
    <3>3. loops * GRANULARITY = 0 /\ MaxLag \in Nat
      BY <2>2, WheelConstants
    <3> SUFFICES ASSUME NEW t \in Timer, Wheel!In(readynodes, t) PROVE due[t] < MaxLag + g
      BY <2>1, <3>2, Zenon DEF ReadyTimed
    <3>4. due[t] < MaxLag + 0
      BY <3>3, <1>2 DEF ReadyTimed
    <3> QED BY <3>2, <3>3, <3>4, <1>0
  <2> QED BY <2>1, <2>3, <1>2, <1>3
<1>6. CASE Wheel!Turn
  BY <1>6, TurnTimed
<1>7. CASE Wheel!Call
  <2> DEFINE t == Head(readynodes)
  <2>1. /\ phase = "detecting" /\ loops = 0 /\ readynodes # <<>> /\ Wheel!Callback(t)
        /\ readynodes' = Tail(readynodes) /\ phase' = "callback" /\ UNCHANGED <<lag, spokeindex, loops>>
    BY <1>7 DEF Wheel!Call
  <2>2. /\ t \in Timer /\ t \in timernode /\ Wheel!In(readynodes, t)
        /\ \A x : Wheel!In(Tail(readynodes), x) <=> Wheel!In(readynodes, x) /\ x # t
    <3>1. Wheel!Once(readynodes)
      BY <1>0 DEF Wheel!LinkedAs
    <3>2. Tail(readynodes) \in Seq(Timer) /\ t \in timernode
      BY <2>1, <1>0, LinkedTail
    <3>3. t \in Timer
      BY <3>2, <1>0
    <3> QED BY <2>1, <3>1, <3>2, <3>3, <1>0, InTail
  <2> HIDE DEF t
  <2>3. \A s \in Wheel!Spokes : ~Wheel!In(spokes[s], t)
    BY <2>2, <1>0 DEF Wheel!LinkedAs
  <2>4. \A x \in Timer : x # t => due'[x] = due[x]
    BY <2>1, <1>0 DEF Wheel!Callback, Wheel!AddTimer
  <2>5. ReadyTimed(due', loops, readynodes')
    BY <2>1, <2>2, <2>4, <1>2 DEF ReadyTimed
  <2>6. SpokesTimed(due', spokes', Count(k), k)
    <3>1. CASE t \in Circle
      <4>1. Wheel!AddTimer(t, spokes)
        BY <3>1, <2>1 DEF Wheel!Callback
      <4> QED BY <4>1, <2>2, <2>3, <1>0, <1>2, AddTimerTimed
    <3>2. CASE t \notin Circle
      <4>1. spokes' = spokes
        BY <3>2, <2>1 DEF Wheel!Callback
      <4>2. \A s \in Wheel!Spokes, x \in Timer : Wheel!In(spokes'[s], x) => Wheel!In(spokes[s], x) /\ due'[x] = due[x]
        BY <4>1, <2>3, <2>4
      <4> QED BY <4>2, <1>2, SpokesKept
    <3> QED BY <3>1, <3>2
  <2> QED BY <2>1, <2>5, <2>6, <1>3
<1>8. CASE \/ Wheel!CallbackReturns \/ Wheel!DetectEnds \/ Wheel!Tick \/ Wheel!ClockStepsBack
           \/ UNCHANGED Wheel!vars
  <2>1. /\ UNCHANGED <<due, spokes, spokeindex, readynodes, loops>>
        /\ phase' # "detecting" => loops = 0
    BY <1>8, <1>2 DEF Wheel!CallbackReturns, Wheel!DetectEnds, Wheel!Tick, Wheel!ClockStepsBack, Wheel!vars,
       Wheel!lists
  <2>2. SpokesTimed(due', spokes', Count(k), k) /\ ReadyTimed(due', loops', readynodes')
    BY <2>1, <1>2, Zenon
  <2> QED BY <2>1, <2>2, <1>3
<1>9. CASE \E t \in Timer : Wheel!Start(t)
  <2> PICK t \in Timer : Wheel!Start(t)
    BY <1>9
  <2> DEFINE dropped == [s \in Wheel!Spokes |-> Wheel!Drop(spokes[s], t)]
             rd == Wheel!Drop(readynodes, t)
  <2>1. /\ phase \in {"idle", "callback"} /\ Wheel!AddTimer(t, dropped) /\ readynodes' = rd
        /\ UNCHANGED <<lag, spokeindex, loops, phase>>
    BY DEF Wheel!Start, Wheel!UserRuns
  <2>2. /\ \A x : Wheel!In(rd, x) <=> Wheel!In(readynodes, x) /\ x # t
        /\ \A s \in Wheel!Spokes : \A x : Wheel!In(dropped[s], x) <=> Wheel!In(spokes[s], x) /\ x # t
        /\ dropped \in SpokeLists
    <3>1. \A x : Wheel!In(rd, x) <=> Wheel!In(readynodes, x) /\ x # t
      BY <1>0, InDrop DEF Wheel!LinkedAs
    <3>2. ASSUME NEW s \in Wheel!Spokes PROVE \A x : Wheel!In(dropped[s], x) <=> Wheel!In(spokes[s], x) /\ x # t
      <4>1. spokes[s] \in Seq(Timer) /\ Wheel!Once(spokes[s])
        BY <1>0 DEF SpokeLists, Wheel!LinkedAs
      <4>2. \A x : Wheel!In(Wheel!Drop(spokes[s], t), x) <=> Wheel!In(spokes[s], x) /\ x # t
        BY <4>1, InDrop
      <4> QED BY <4>2
    <3>3. dropped \in SpokeLists
      BY <1>0, LinkedDrop
    <3> QED BY <3>1, <3>2, <3>3
  <2> HIDE DEF dropped, rd
  <2>3. SpokesTimed(due, dropped, Count(k), k) /\ ReadyTimed(due, loops, rd)
    BY <2>2, <1>4
  <2>4. SpokesTimed(due', spokes', Count(k), k)
    BY <2>1, <2>2, <2>3, <1>2, AddTimerTimed
  <2>5. \A x \in Timer : x # t => due'[x] = due[x]
    BY <2>1, <1>0 DEF Wheel!AddTimer
  <2>6. ReadyTimed(due', loops, rd)
    BY <2>2, <2>3, <2>5 DEF ReadyTimed
  <2>7. phase' # "detecting" => loops' = 0
    BY <2>1, <1>2
  <2> QED BY <2>1, <2>4, <2>6, <2>7, <1>3
<1>10. CASE \E t \in Timer : Wheel!Stop(t)
  <2> PICK t \in Timer : Wheel!Stop(t)
    BY <1>10
  <2>1. /\ phase \in {"idle", "callback"} /\ due' = [due EXCEPT ![t] = 0]
        /\ IF t \in timernode THEN /\ spokes' = [s \in Wheel!Spokes |-> Wheel!Drop(spokes[s], t)]
                                   /\ readynodes' = Wheel!Drop(readynodes, t)
           ELSE UNCHANGED <<spokes, readynodes>>
        /\ UNCHANGED <<lag, spokeindex, loops, phase>>
    BY DEF Wheel!Stop, Wheel!Unlink, Wheel!UserRuns
  <2>2. \A x \in Timer : x # t => due'[x] = due[x]
    BY <2>1, <1>0
  <2>3. /\ \A x : Wheel!In(readynodes', x) => Wheel!In(readynodes, x) /\ x # t
        /\ \A s \in Wheel!Spokes : \A x : Wheel!In(spokes'[s], x) => Wheel!In(spokes[s], x) /\ x # t
    <3>1. CASE t \in timernode
      <4>1. \A x : Wheel!In(Wheel!Drop(readynodes, t), x) <=> Wheel!In(readynodes, x) /\ x # t
        BY <1>0, InDrop DEF Wheel!LinkedAs
      <4>2. ASSUME NEW s \in Wheel!Spokes
            PROVE  \A x : Wheel!In(Wheel!Drop(spokes[s], t), x) <=> Wheel!In(spokes[s], x) /\ x # t
        <5>1. spokes[s] \in Seq(Timer) /\ Wheel!Once(spokes[s])
          BY <1>0 DEF SpokeLists, Wheel!LinkedAs
        <5> QED BY <5>1, InDrop
      <4> QED BY <3>1, <4>1, <4>2, <2>1
    <3>2. CASE t \notin timernode
      <4>1. ~Wheel!In(readynodes, t) /\ \A s \in Wheel!Spokes : ~Wheel!In(spokes[s], t)
        BY <3>2, <1>0 DEF Wheel!LinkedAs
      <4> QED BY <3>2, <4>1, <2>1
    <3> QED BY <3>1, <3>2
  <2>4. /\ \A s \in Wheel!Spokes, x \in Timer : Wheel!In(spokes'[s], x) => Wheel!In(spokes[s], x) /\ due'[x] = due[x]
        /\ \A x \in Timer : Wheel!In(readynodes', x) => Wheel!In(readynodes, x) /\ due'[x] = due[x]
    BY <2>2, <2>3
  <2>5. SpokesTimed(due', spokes', Count(k), k) /\ ReadyTimed(due', loops, readynodes')
    BY <2>4, <1>4
  <2>6. phase' # "detecting" => loops' = 0
    BY <2>1, <1>2
  <2> QED BY <2>1, <2>5, <2>6, <1>3
<1> QED BY <1>5, <1>6, <1>7, <1>8, <1>9, <1>10 DEF Wheel!Next

(* The bounds say when a timer is called: not late, and not early. *)
LEMMA TimesOnTime == WheelInv /\ WheelTimes => Wheel!NotLate /\ Wheel!NotEarly
<1> SUFFICES ASSUME WheelInv, WheelTimes PROVE Wheel!NotLate /\ Wheel!NotEarly
  OBVIOUS
<1>0. due \in [Timer -> Int] /\ loops \in Nat /\ lag \in -MaxBack .. MaxLag /\ lag >= loops * GRANULARITY - MaxBack
  BY Zenon DEF WheelInv, Wheel!TypeOK
<1>1. Wheel!NotLate
  <2> SUFFICES ASSUME NEW t \in Timer, NEW s \in Wheel!Spokes, Wheel!In(spokes[s], t) PROVE due[t] >= -MaxBack
    BY DEF Wheel!NotLate, Wheel!InSpokes
  <2>1. PICK k \in Nat : WheelsAt(k)
    BY DEF WheelTimes
  <2>2. SpokesTimed(due, spokes, Count(k), k)
    BY <2>1, Zenon DEF WheelsAt
  <2> QED BY <2>2, <1>0, SpokesNotLate
<1>2. Wheel!NotEarly
  <2> SUFFICES ASSUME NEW t \in Timer, Wheel!In(readynodes, t) PROVE due[t] - lag < MaxLag + MaxBack
    BY DEF Wheel!NotEarly
  <2>1. due[t] < MaxLag + loops * GRANULARITY
    BY Zenon DEF WheelTimes, ReadyTimed
  <2>2. PICK g \in Nat : g = loops * GRANULARITY
    BY <1>0, WheelConstants
  <2>3. lag >= g - MaxBack /\ due[t] < MaxLag + g
    BY <2>1, <2>2, <1>0
  <2>4. lag \in Int /\ due[t] \in Int /\ MaxBack \in Nat /\ MaxLag \in Nat
    BY <1>0, WheelConstants
  <2> QED BY <2>3, <2>4
<1> QED BY <1>1, <1>2

(* The bounds always hold of the wheels. *)
THEOREM WheelOnTime == Wheel!Init /\ [][Wheel!Next]_Wheel!vars => []OnTime
<1>1. Wheel!Init /\ [][Wheel!Next]_Wheel!vars => []WheelTimes
  BY WheelInvariant, TimesInit, TimesStep, PTL
<1>2. WheelInv /\ WheelTimes => OnTime
  BY TimesOnTime DEF OnTime, WheelInv
<1> QED BY <1>1, <1>2, WheelInvariant, PTL

-----------------------------------------------------------------------------
(* TimerWheel implements TimerService. *)

(* Every step of the wheels is one of TimerService, or changes nothing there. *)
LEMMA ServiceStep == WheelInv /\ [Wheel!Next]_Wheel!vars => [Wheel!Service!Next]_(Wheel!Service!vars)
<1> SUFFICES ASSUME WheelInv, Wheel!Next, ~UNCHANGED <<timernode, running>> PROVE Wheel!Service!Next
  BY DEF Wheel!Service!vars, Wheel!vars
<1>1. CASE Wheel!Call
  <2> DEFINE t == Head(readynodes)
  <2>1. /\ phase = "detecting" /\ readynodes # <<>> /\ Wheel!Callback(t) /\ running' = t
    BY <1>1 DEF Wheel!Call
  <2>2. readynodes \in Seq(Timer) /\ t \in Timer /\ running = NoTimer /\ t \in timernode
    <3>1. readynodes \in Seq(Timer) /\ spokes \in SpokeLists /\ timernode \in SUBSET Timer /\ running = NoTimer
      BY <2>1 DEF WheelInv, Wheel!TypeOK, SpokeLists
    <3>2. Wheel!LinkedAs(spokes, readynodes, timernode)
      BY DEF WheelInv, Wheel!Linked
    <3> QED BY <2>1, <3>1, <3>2, LinkedTail
  <2> HIDE DEF t
  <2>3. timernode' = IF t \in Circle THEN timernode ELSE timernode \ {t}
    BY <2>1, <2>2 DEF Wheel!Callback, Wheel!AddTimer
  <2>4. Wheel!Service!Call(t)
    BY <2>1, <2>2, <2>3 DEF Wheel!Service!Call
  <2> QED BY <2>2, <2>4 DEF Wheel!Service!Next
<1>2. CASE Wheel!CallbackReturns
  <2>1. Wheel!Service!Return
    BY <1>2 DEF Wheel!CallbackReturns, WheelInv, Wheel!Service!Return
  <2> QED BY <2>1 DEF Wheel!Service!Next
<1>3. CASE \E t \in Timer : Wheel!Start(t)
  <2> PICK t \in Timer : Wheel!Start(t)
    BY <1>3
  <2>1. Wheel!Service!Start(t)
    BY DEF Wheel!Start, Wheel!AddTimer, Wheel!Service!Start
  <2> QED BY <2>1 DEF Wheel!Service!Next
<1>4. CASE \E t \in Timer : Wheel!Stop(t)
  <2> PICK t \in Timer : Wheel!Stop(t)
    BY <1>4
  <2>1. Wheel!Service!Stop(t)
    BY DEF Wheel!Stop, Wheel!Service!Stop
  <2> QED BY <2>1 DEF Wheel!Service!Next
<1>5. CASE Wheel!Detect \/ Wheel!Turn \/ Wheel!DetectEnds \/ Wheel!Tick \/ Wheel!ClockStepsBack
  BY <1>5 DEF Wheel!Detect, Wheel!Turn, Wheel!DetectEnds, Wheel!Tick, Wheel!ClockStepsBack
<1> QED BY <1>1, <1>2, <1>3, <1>4, <1>5 DEF Wheel!Next

(* No timer is armed or called at first. *)
LEMMA ServiceInit == Wheel!Init => Wheel!Service!Init
BY DEF Wheel!Init, Wheel!Service!Init

(* CTimerManager calls a timer only if it was started and not stopped since. *)
THEOREM WheelImplements == Wheel!Init /\ [][Wheel!Next]_Wheel!vars => Wheel!ImplementsService
BY WheelInvariant, ServiceStep, ServiceInit, PTL DEF Wheel!ImplementsService, Wheel!Service!Spec

-----------------------------------------------------------------------------
(* ThreadHolder: the turns of the round robin. *)

(* The connections among the first i that go to thread t of n. *)
Turns(n, t, i) == (i \div n) + IF t < i % n THEN 1 ELSE 0

(* Turns for a number of connections that is divided. *)
LEMMA TurnsOf ==
    ASSUME NEW n \in Nat \ {0}, NEW a \in Nat, NEW b \in 0 .. n - 1, NEW t \in 0 .. n - 1
    PROVE  Turns(n, t, n * a + b) = a + IF t < b THEN 1 ELSE 0
BY DivideOf DEF Turns

(* No connection, no turn. *)
LEMMA TurnsZero == ASSUME NEW n \in Nat \ {0}, NEW t \in 0 .. n - 1 PROVE Turns(n, t, 0) = 0
<1>1. n * 0 + 0 = 0 /\ 0 \in 0 .. n - 1 /\ ~(t < 0)
  OBVIOUS
<1>2. Turns(n, t, n * 0 + 0) = 0 + IF t < 0 THEN 1 ELSE 0
  BY <1>1, TurnsOf
<1> QED BY <1>1, <1>2

(* Turns and the next thread are in their ranges. *)
LEMMA TurnsInt ==
    ASSUME NEW n \in Nat \ {0}, NEW i \in Nat, NEW t \in 0 .. n - 1
    PROVE  Turns(n, t, i) \in Nat /\ i % n \in 0 .. n - 1
<1>1. PICK a \in Nat, b \in 0 .. n - 1 : i = n * a + b /\ i \div n = a /\ i % n = b
  BY Divide
<1>2. Turns(n, t, i) = a + IF t < b THEN 1 ELSE 0
  BY <1>1, TurnsOf
<1> QED BY <1>1, <1>2

(* The next connection goes to the thread whose turn it is. *)
LEMMA TurnsNext ==
    ASSUME NEW n \in Nat \ {0}, NEW i \in Nat, NEW t \in 0 .. n - 1
    PROVE  Turns(n, t, i + 1) = Turns(n, t, i) + IF t = i % n THEN 1 ELSE 0
<1>1. PICK a \in Nat, b \in 0 .. n - 1 : i = n * a + b /\ i \div n = a /\ i % n = b
  BY Divide
<1>2. Turns(n, t, i) = a + IF t < b THEN 1 ELSE 0
  BY <1>1, TurnsOf
<1>3. CASE b = n - 1
  <2>1. i + 1 = n * (a + 1) + 0 /\ a + 1 \in Nat /\ 0 \in 0 .. n - 1
    BY <1>1, <1>3
  <2>2. Turns(n, t, i + 1) = a + 1 + IF t < 0 THEN 1 ELSE 0
    BY <2>1, TurnsOf
  <2> QED BY <1>1, <1>2, <1>3, <2>2
<1>4. CASE b # n - 1
  <2>1. i + 1 = n * a + (b + 1) /\ b + 1 \in 0 .. n - 1
    BY <1>1, <1>4
  <2>2. Turns(n, t, n * a + (b + 1)) = a + IF t < b + 1 THEN 1 ELSE 0
    BY <2>1, TurnsOf
  <2>3. Turns(n, t, i + 1) = a + IF t < b + 1 THEN 1 ELSE 0
    BY <2>1, <2>2, Zenon
  <2> QED BY <1>1, <1>2, <1>4, <2>3
<1> QED BY <1>3, <1>4

(* No thread is two connections ahead of another, counted from the first or from any later one. *)
LEMMA TurnsEven ==
    ASSUME NEW n \in Nat \ {0}, NEW i \in Nat, NEW j \in Nat, NEW t \in 0 .. n - 1, NEW u \in 0 .. n - 1
    PROVE  /\ Turns(n, t, i) - Turns(n, u, i) <= 1
           /\ (Turns(n, t, i) - Turns(n, t, j)) - (Turns(n, u, i) - Turns(n, u, j)) <= 1
<1>1. PICK a \in Nat, b \in 0 .. n - 1 : i = n * a + b
  BY Divide
<1>2. PICK c \in Nat, d \in 0 .. n - 1 : j = n * c + d
  BY Divide, ZenonT(30)
<1>3. /\ Turns(n, t, i) = a + (IF t < b THEN 1 ELSE 0) /\ Turns(n, u, i) = a + (IF u < b THEN 1 ELSE 0)
      /\ Turns(n, t, j) = c + (IF t < d THEN 1 ELSE 0) /\ Turns(n, u, j) = c + (IF u < d THEN 1 ELSE 0)
  BY <1>1, <1>2, TurnsOf, ZenonT(30)
<1> QED BY <1>3

(* What each thread was given beyond its turns is the same for all, but for skew; the acceptor is given none. *)
HolderEven ==
    threadnum > 1 =>
      /\ given[Holder!Acceptor] = 0
      /\ \A t, u \in 0 .. threadnum - 2 :
           (given[t] - Turns(threadnum - 1, t, index)) - (given[u] - Turns(threadnum - 1, u, index)) <= skew

(* Balanced is not inductive: index, which the acceptors share, stands for the turns. *)
HolderInv == Holder!TypeOK /\ Holder!AcceptsGoOn /\ HolderEven

(* What HolderAssumption says of the constants. *)
LEMMA HolderConstants ==
    /\ threadnum \in Nat \ {0} /\ Servers \in Nat /\ IndexSize \in Nat \ {0}
    /\ Holder!Thread = 0 .. threadnum - 1 /\ Holder!Acceptor = threadnum - 1 /\ Holder!Server = 1 .. Servers
BY ThreadsAssumption DEF Holder!HolderAssumption, Holder!Thread, Holder!Acceptor, Holder!Server

(* The invariant says that the connections are spread evenly. *)
LEMMA HolderBalanced == HolderInv => Holder!Balanced
<1> SUFFICES ASSUME HolderInv, NEW t \in Holder!Thread \ {Holder!Acceptor}, NEW u \in Holder!Thread \ {Holder!Acceptor}
             PROVE  given[t] - given[u] <= 1 + skew /\ (threadnum > 1 => given[Holder!Acceptor] = 0)
  BY DEF Holder!Balanced
<1>1. t \in 0 .. threadnum - 2 /\ u \in 0 .. threadnum - 2 /\ threadnum > 1
  BY HolderConstants
<1>2. given[t] \in Nat /\ given[u] \in Nat /\ index \in Nat /\ skew \in Nat /\ threadnum - 1 \in Nat \ {0}
  BY <1>1, HolderConstants DEF HolderInv, Holder!TypeOK
<1>3. /\ Turns(threadnum - 1, t, index) \in Nat /\ Turns(threadnum - 1, u, index) \in Nat
      /\ Turns(threadnum - 1, t, index) - Turns(threadnum - 1, u, index) <= 1
  <2>1. t \in 0 .. (threadnum - 1) - 1 /\ u \in 0 .. (threadnum - 1) - 1
    BY <1>1, HolderConstants
  <2> QED BY <2>1, <1>2, TurnsInt, TurnsEven
<1>4. /\ given[Holder!Acceptor] = 0
      /\ (given[t] - Turns(threadnum - 1, t, index)) - (given[u] - Turns(threadnum - 1, u, index)) <= skew
  BY <1>1 DEF HolderInv, HolderEven
<1> QED BY <1>2, <1>3, <1>4

(* The invariant holds when nothing has been accepted. *)
LEMMA HolderInit == Holder!Init => HolderInv
<1> SUFFICES ASSUME Holder!Init PROVE HolderInv
  OBVIOUS
<1>1. Holder!TypeOK
  <2>1. /\ holder \in {"start", "serve", "accept", "up", "stop", "join", "stopped"}
        /\ at \in 0 .. Servers + threadnum /\ at \in Holder!Thread /\ holder # "accept"
        /\ fetched \in 0 .. IndexSize - 1 /\ index \in 0 .. IndexSize - 1 /\ skew \in Nat
    BY HolderConstants DEF Holder!Init
  <2>2. /\ threads \in [Holder!Thread -> {"none", "running", "deleted"}] /\ stops \subseteq Holder!Server
        /\ accept \in [Holder!Server -> {"none", "waiting", "done", "failed"}]
        /\ given \in [Holder!Thread -> Nat]
    BY DEF Holder!Init
  <2>3. servers \in [Holder!Server -> BOOLEAN] /\ open \in [Holder!Server -> BOOLEAN]
    BY DEF Holder!Init
  <2> QED BY <2>1, <2>2, <2>3 DEF Holder!TypeOK
<1>2. Holder!AcceptsGoOn
  BY DEF Holder!Init, Holder!AcceptsGoOn
<1>3. HolderEven
  <2>1. \A t \in 0 .. threadnum - 2 : threadnum > 1 => given[t] = 0 /\ Turns(threadnum - 1, t, index) = 0
    BY HolderConstants, TurnsZero DEF Holder!Init
  <2> QED BY <2>1, HolderConstants DEF Holder!Init, HolderEven
<1> QED BY <1>1, <1>2, <1>3 DEF HolderInv

(* What a new connection does to the spread of the connections over the threads. *)
LEMMA HolderGives ==
    ASSUME HolderInv, NEW i \in 0 .. IndexSize - 1, Holder!GetSessionCallBack(i)
    PROVE  HolderEven' /\ index' \in 0 .. IndexSize - 1 /\ given' \in [Holder!Thread -> Nat] /\ skew' \in Nat
<1> USE HolderConstants
<1>0. index \in 0 .. IndexSize - 1 /\ given \in [Holder!Thread -> Nat] /\ skew \in Nat
  BY DEF HolderInv, Holder!TypeOK
<1>1. CASE threadnum <= 1
  BY <1>0, <1>1 DEF Holder!GetSessionCallBack, HolderEven
<1>2. CASE threadnum > 1
  <2> DEFINE n == threadnum - 1
  <2>0. n \in Nat \ {0} /\ i \in Nat /\ i + 1 \in Nat /\ index \in Nat
    BY <1>0, <1>2
  <2>1. /\ index' = (i + 1) % IndexSize
        /\ given' = [given EXCEPT ![i % n] = @ + 1]
    BY <1>2 DEF Holder!GetSessionCallBack
  <2>7. skew' = skew + (IF i # index THEN 1 ELSE 0) + (IF i + 1 = IndexSize THEN 1 ELSE 0)
    BY <1>2 DEF Holder!GetSessionCallBack
  <2>2. i % n \in 0 .. n - 1
    BY <2>0, TurnsInt
  <2>3. index' = IF i + 1 = IndexSize THEN 0 ELSE i + 1
    BY <2>0, <2>1
  <2>4. /\ given' \in [Holder!Thread -> Nat]
        /\ \A t \in 0 .. n - 1 : given'[t] = given[t] + IF t = i % n THEN 1 ELSE 0
        /\ given'[Holder!Acceptor] = given[Holder!Acceptor]
    <3>1. i % n \in Holder!Thread /\ i % n # Holder!Acceptor
      BY <2>2, <2>0
    <3>2. \A t \in Holder!Thread : given'[t] = IF t = i % n THEN given[t] + 1 ELSE given[t]
      BY <2>1, <1>0, <3>1
    <3>3. given' \in [Holder!Thread -> Nat]
      BY <2>1, <1>0, <3>1
    <3> QED BY <3>1, <3>2, <3>3, <2>0, <1>0, SMTT(30)
  <2>5. ASSUME NEW t \in 0 .. n - 1, NEW u \in 0 .. n - 1
        PROVE  (given'[t] - Turns(n, t, index')) - (given'[u] - Turns(n, u, index')) <= skew'
    <3>0. PICK e \in {0, 1}, f \in {0, 1} : e = (IF t = i % n THEN 1 ELSE 0) /\ f = (IF u = i % n THEN 1 ELSE 0)
      OBVIOUS
    <3>1. Turns(n, t, i + 1) = Turns(n, t, i) + e /\ Turns(n, u, i + 1) = Turns(n, u, i) + f
      BY <2>0, <3>0, TurnsNext
    <3>2. /\ Turns(n, t, 0) = 0 /\ Turns(n, u, 0) = 0
          /\ Turns(n, t, i) \in Nat /\ Turns(n, u, i) \in Nat
          /\ Turns(n, t, index) \in Nat /\ Turns(n, u, index) \in Nat
          /\ Turns(n, t, i + 1) - Turns(n, u, i + 1) <= 1
          /\ (Turns(n, t, index) - Turns(n, t, i)) - (Turns(n, u, index) - Turns(n, u, i)) <= 1
      <4>1. Turns(n, t, 0) = 0 /\ Turns(n, u, 0) = 0
        BY <2>0, TurnsZero
      <4>2. /\ Turns(n, t, i) \in Nat /\ Turns(n, u, i) \in Nat
            /\ Turns(n, t, index) \in Nat /\ Turns(n, u, index) \in Nat
        BY <2>0, TurnsInt
      <4>3. /\ Turns(n, t, i + 1) - Turns(n, u, i + 1) <= 1
            /\ (Turns(n, t, index) - Turns(n, t, i)) - (Turns(n, u, index) - Turns(n, u, i)) <= 1
        BY <2>0, TurnsEven
      <4> QED BY <4>1, <4>2, <4>3
    <3>3. (given[t] - Turns(n, t, index)) - (given[u] - Turns(n, u, index)) <= skew
      BY <1>2 DEF HolderInv, HolderEven
    <3>4. given[t] \in Nat /\ given[u] \in Nat /\ skew \in Nat
      BY <1>0, <2>0
    <3>7. given'[t] = given[t] + e /\ given'[u] = given[u] + f
      BY <2>4, <3>0
    <3>8. i = index => Turns(n, t, i) = Turns(n, t, index) /\ Turns(n, u, i) = Turns(n, u, index)
      OBVIOUS
    <3>9. i + 1 \in Nat /\ IndexSize \in Nat
      BY <2>0
    <3> HIDE HolderConstants DEF n
    <3>5. CASE i + 1 = IndexSize
      <4>1. index' = 0
        BY <2>3, <3>5
      <4>2. Turns(n, t, index') = 0 /\ Turns(n, u, index') = 0
        BY <4>1, <3>2
      <4>3. skew' = skew + 1 + (IF i # index THEN 1 ELSE 0)
        BY <2>7, <3>5, <3>9, <3>4
      <4>4. CASE i = index
        BY <4>4, <4>2, <4>3, <3>7, <3>8, <3>1, <3>2, <3>3, <3>4
      <4>5. CASE i # index
        BY <4>5, <4>2, <4>3, <3>7, <3>1, <3>2, <3>3, <3>4
      <4> QED BY <4>4, <4>5
    <3>6. CASE i + 1 # IndexSize
      <4>1. index' = i + 1
        BY <2>3, <3>6
      <4>2. Turns(n, t, index') = Turns(n, t, i + 1) /\ Turns(n, u, index') = Turns(n, u, i + 1)
        BY <4>1
      <4>3. skew' = skew + (IF i # index THEN 1 ELSE 0)
        BY <2>7, <3>6, <3>4, <3>9
      <4>4. CASE i = index
        BY <4>4, <4>2, <4>3, <3>7, <3>8, <3>1, <3>2, <3>3, <3>4
      <4>5. CASE i # index
        BY <4>5, <4>2, <4>3, <3>7, <3>1, <3>2, <3>3, <3>4
      <4> QED BY <4>4, <4>5
    <3> QED BY <3>5, <3>6
  <2>6. HolderEven'
    BY <1>2, <2>4, <2>5 DEF HolderInv, HolderEven
  <2> QED BY <2>0, <2>3, <2>4, <2>6, <2>7, <1>0
<1> QED BY <1>1, <1>2, <1>0

(* Every step of the holder, the servers and the threads keeps the invariant. *)
LEMMA HolderStep == HolderInv /\ [Holder!Next]_Holder!vars => HolderInv'
<1> SUFFICES ASSUME HolderInv, [Holder!Next]_Holder!vars PROVE HolderInv'
  OBVIOUS
<1> USE HolderConstants DEF HolderInv
<1>1. CASE UNCHANGED Holder!vars
  BY <1>1 DEF Holder!vars, Holder!TypeOK, Holder!AcceptsGoOn, HolderEven
<1>2. CASE Holder!Start
  <2>1. Holder!TypeOK'
    <3>1. at \in 0 .. threadnum - 1 /\ holder = "start"
      BY <1>2 DEF Holder!Start, Holder!TypeOK
    <3>2. /\ holder' \in {"start", "serve"} /\ at' \in 0 .. Servers + threadnum
          /\ holder' = "start" => at' \in Holder!Thread
      <4>1. CASE at = Holder!Acceptor
        BY <4>1, <1>2, <3>1 DEF Holder!Start
      <4>2. CASE at # Holder!Acceptor
        BY <4>2, <1>2, <3>1 DEF Holder!Start
      <4> QED BY <4>1, <4>2
    <3>3. threads' \in [Holder!Thread -> {"none", "running", "deleted"}]
      BY <1>2 DEF Holder!Start, Holder!TypeOK
    <3> QED BY <1>2, <3>2, <3>3 DEF Holder!Start, Holder!TypeOK
  <2>2. Holder!AcceptsGoOn' /\ HolderEven'
    BY <1>2 DEF Holder!Start, Holder!AcceptsGoOn, HolderEven
  <2> QED BY <2>1, <2>2
<1>3. CASE Holder!StartServer
  <2>1. Holder!TypeOK'
    BY <1>3 DEF Holder!StartServer, Holder!TypeOK
  <2>2. Holder!AcceptsGoOn'
    BY <1>3 DEF Holder!StartServer, Holder!AcceptsGoOn, Holder!TypeOK
  <2>3. HolderEven'
    BY <1>3 DEF Holder!StartServer, HolderEven
  <2> QED BY <2>1, <2>2, <2>3
<1>4. CASE Holder!OwnerAccepts
  <2>1. at \in Holder!Server /\ fetched \in 0 .. IndexSize - 1 /\ Holder!GetSessionCallBack(fetched)
    BY <1>4 DEF Holder!OwnerAccepts, Holder!TypeOK
  <2>2. HolderEven' /\ index' \in 0 .. IndexSize - 1 /\ given' \in [Holder!Thread -> Nat] /\ skew' \in Nat
    BY <2>1, HolderGives
  <2>3. Holder!TypeOK'
    BY <1>4, <2>1, <2>2 DEF Holder!OwnerAccepts, Holder!TypeOK
  <2>4. Holder!AcceptsGoOn'
    BY <1>4, <2>1 DEF Holder!OwnerAccepts, Holder!AcceptsGoOn, Holder!TypeOK
  <2> QED BY <2>2, <2>3, <2>4
<1>5. CASE Holder!Started \/ Holder!Stop
  <2>1. Holder!TypeOK'
    <3>1. CASE Holder!Started
      BY <3>1 DEF Holder!Started, Holder!TypeOK
    <3>2. CASE Holder!Stop
      <4>1. at' \in Holder!Thread /\ at' \in 0 .. Servers + threadnum
        BY <3>2 DEF Holder!Stop
      <4> QED BY <3>2, <4>1 DEF Holder!Stop, Holder!TypeOK
    <3> QED BY <1>5, <3>1, <3>2
  <2>2. Holder!AcceptsGoOn' /\ HolderEven'
    BY <1>5 DEF Holder!Started, Holder!Stop, Holder!AcceptsGoOn, HolderEven
  <2> QED BY <2>1, <2>2
<1>6. CASE Holder!StopThread
  <2>1. Holder!TypeOK'
    BY <1>6 DEF Holder!StopThread, Holder!TypeOK
  <2>2. Holder!AcceptsGoOn' /\ HolderEven'
    BY <1>6 DEF Holder!StopThread, Holder!AcceptsGoOn, HolderEven
  <2> QED BY <2>1, <2>2
<1>7. ASSUME NEW s \in Holder!Server, Holder!HandleStop(s) PROVE HolderInv'
  <2>1. Holder!TypeOK'
    BY <1>7 DEF Holder!HandleStop, Holder!TypeOK
  <2>2. Holder!AcceptsGoOn'
    BY <1>7 DEF Holder!HandleStop, Holder!AcceptsGoOn, Holder!TypeOK
  <2>3. HolderEven'
    BY <1>7 DEF Holder!HandleStop, HolderEven
  <2> QED BY <2>1, <2>2, <2>3
<1>8. ASSUME NEW s \in Holder!Server, Holder!Accepts(s) PROVE HolderInv'
  <2>1. /\ \E outcome \in {"done", "failed"} : accept' = [accept EXCEPT ![s] = outcome]
        /\ UNCHANGED <<holder, at, fetched, threads, servers, open, stops, index, given, skew>>
    BY <1>8 DEF Holder!Accepts
  <2>2. Holder!TypeOK'
    BY <2>1 DEF Holder!TypeOK
  <2>3. Holder!AcceptsGoOn'
    BY <2>1 DEF Holder!AcceptsGoOn, Holder!TypeOK
  <2>4. HolderEven'
    BY <2>1 DEF HolderEven
  <2> QED BY <2>2, <2>3, <2>4
<1>9. ASSUME NEW s \in Holder!Server, Holder!HandleAccept(s) PROVE HolderInv'
  <2>1. index \in 0 .. IndexSize - 1 /\ Holder!GetSessionCallBack(index)
    BY <1>9 DEF Holder!HandleAccept, Holder!TypeOK
  <2>2. HolderEven' /\ index' \in 0 .. IndexSize - 1 /\ given' \in [Holder!Thread -> Nat] /\ skew' \in Nat
    BY <2>1, HolderGives
  <2>3. Holder!TypeOK'
    BY <1>9, <2>2 DEF Holder!HandleAccept, Holder!Waits, Holder!TypeOK
  <2>4. Holder!AcceptsGoOn'
    BY <1>9 DEF Holder!HandleAccept, Holder!Waits, Holder!AcceptsGoOn, Holder!TypeOK
  <2> QED BY <2>2, <2>3, <2>4
<1>10. ASSUME NEW s \in Holder!Server, Holder!HandleAcceptError(s) PROVE HolderInv'
  <2>1. Holder!TypeOK'
    BY <1>10 DEF Holder!HandleAcceptError, Holder!Waits, Holder!TypeOK
  <2>2. Holder!AcceptsGoOn'
    BY <1>10 DEF Holder!HandleAcceptError, Holder!Waits, Holder!AcceptsGoOn, Holder!TypeOK
  <2>3. HolderEven'
    BY <1>10 DEF Holder!HandleAcceptError, HolderEven
  <2> QED BY <2>1, <2>2, <2>3
<1> QED BY <1>1, <1>2, <1>3, <1>4, <1>5, <1>6, <1>7, <1>8, <1>9, <1>10 DEF Holder!Next, Holder!OwnerNext

(* The invariant always holds of the holder. *)
THEOREM HolderInvariant == Holder!Init /\ [][Holder!Next]_Holder!vars => []HolderInv
BY HolderInit, HolderStep, PTL

-----------------------------------------------------------------------------
(* IoThread: where the handlers wait. *)

(* The places of e in a list. *)
At(list, e) == {i \in DOMAIN list : list[i] = e}

(* The places of a handler in the queue when one is posted. *)
LEMMA AtAppend ==
    ASSUME NEW S, NEW list \in Seq(S), NEW e \in S, NEW x
    PROVE  At(Append(list, e), x) = IF x = e THEN At(list, x) \cup {Len(list) + 1} ELSE At(list, x)
<1>1. Len(list) \in Nat
  OBVIOUS
<1> QED BY <1>1, AppendFacts DEF At

(* They move up when the first handler runs. *)
LEMMA AtTail ==
    ASSUME NEW S, NEW list \in Seq(S), list # <<>>, NEW x
    PROVE  At(Tail(list), x) = {i \in 1 .. Len(list) - 1 : i + 1 \in At(list, x)}
BY TailFacts DEF At

(* The deadline timer is in one place: waiting, expired in the queue, or running. *)
IoPlaces ==
    /\ Io!OneDeadline
    /\ io = "timer" => deadline = "off"
    /\ owner \in {"new", "starting"} => deadline = "off" /\ io # "timer"
    /\ owner = "new" => io = "none" /\ queue = <<>>
    /\ work <=> owner \in {"starting", "up", "checking", "stopping"}

(* The deadline timer goes on until a self check finds isalive_ false. *)
IoDriven == owner \in {"up", "checking"} /\ ~checked => isalive /\ Io!Driven

(* A thread returns when it has no work, and what is posted to start it runs before what stops it. *)
IoQuiet ==
    /\ io = "returned" => ~work /\ queue = <<>> /\ ~armed /\ deadline = "off" /\ conns = 0
    /\ owner = "joined" => io = "returned"
    /\ owner = "new" => ~armed
    /\ owner \in {"joining", "joined"} =>
         /\ armed => Io!Places("StopInThread") # {}
         /\ \A i \in Io!Places("StartInThread") : \E j \in Io!Places("StopInThread") : i < j

(* The invariant of a CIoServiceThread. *)
IoInv == Io!TypeOK /\ IoPlaces /\ IoDriven /\ IoQuiet

(* Places, as an operator of the queue. *)
LEMMA PlacesAt == \A h : Io!Places(h) = At(queue, h) /\ Io!Places(h)' = At(queue', h)
BY DEF Io!Places, At

(* The invariant holds of a new thread. *)
LEMMA IoInit == Io!Init => IoInv
<1> SUFFICES ASSUME Io!Init PROVE IoInv
  OBVIOUS
<1>1. \A h : Io!Places(h) = {}
  BY DEF Io!Places, Io!Init
<1>2. Io!TypeOK
  <2>1. conns \in 0 .. MaxConns
    BY ThreadsAssumption DEF Io!IoAssumption, Io!Init
  <2>2. queue \in Seq({"StartInThread", "StopInThread", "DoTimer"})
    BY DEF Io!Init
  <2> QED BY <2>1, <2>2 DEF Io!IoAssumption, Io!Init, Io!TypeOK
<1>3. IoPlaces
  BY <1>1 DEF Io!Init, IoPlaces, Io!OneDeadline
<1>4. IoDriven /\ IoQuiet
  BY <1>1 DEF Io!Init, IoDriven, IoQuiet
<1> QED BY <1>2, <1>3, <1>4 DEF IoInv

(* Every step keeps the types. *)
LEMMA IoType == Io!TypeOK /\ [Io!Next]_Io!vars => Io!TypeOK'
<1> SUFFICES ASSUME Io!TypeOK, [Io!Next]_Io!vars PROVE Io!TypeOK'
  OBVIOUS
<1> DEFINE H == {"StartInThread", "StopInThread", "DoTimer"}
<1>1. queue' = queue \/ (queue # <<>> /\ queue' = Tail(queue)) \/ (\E h \in H : queue' = Append(queue, h))
  BY DEF Io!Next, Io!vars, Io!OwnerNext, Io!IoNext, Io!StartThread, Io!StartTimer, Io!SelfCheckReads,
    Io!SelfCheckClears, Io!StopClears, Io!StopPosts, Io!StopJoins, Io!StartInThread, Io!StopInThread,
    Io!DoTimer, Io!DoTimerEnds, Io!RunReturns, Io!DeadlineExpires, Io!ConnectionOpens,
    Io!ConnectionCloses, Io!Runs
<1>2. queue' \in Seq(H)
  <2>1. queue \in Seq(H)
    BY DEF Io!TypeOK
  <2>2. queue # <<>> => Tail(queue) \in Seq(H)
    BY <2>1, TailFacts
  <2>3. \A h \in H : Append(queue, h) \in Seq(H)
    BY <2>1
  <2> QED BY <1>1, <2>1, <2>2, <2>3
<1>3. conns' \in 0 .. MaxConns
  BY ThreadsAssumption DEF Io!IoAssumption, Io!TypeOK, Io!Next, Io!vars, Io!OwnerNext, Io!IoNext, Io!StartThread,
    Io!StartTimer, Io!SelfCheckReads,
    Io!SelfCheckClears, Io!StopClears, Io!StopPosts, Io!StopJoins, Io!StartInThread, Io!StopInThread,
    Io!DoTimer, Io!DoTimerEnds, Io!RunReturns, Io!DeadlineExpires, Io!ConnectionOpens,
    Io!ConnectionCloses
<1>4. work' \in BOOLEAN /\ isalive' \in BOOLEAN /\ armed' \in BOOLEAN
  BY DEF Io!TypeOK, Io!Next, Io!vars, Io!OwnerNext, Io!IoNext, Io!StartThread,
    Io!StartTimer, Io!SelfCheckReads, Io!SetAlive,
    Io!SelfCheckClears, Io!StopClears, Io!StopPosts, Io!StopJoins, Io!StartInThread, Io!StopInThread,
    Io!DoTimer, Io!DoTimerEnds, Io!RunReturns, Io!DeadlineExpires, Io!ConnectionOpens,
    Io!ConnectionCloses
<1>5. checked' \in BOOLEAN /\ revived' \in BOOLEAN
  BY DEF Io!TypeOK, Io!Next, Io!vars, Io!OwnerNext, Io!IoNext, Io!StartThread,
    Io!StartTimer, Io!SelfCheckReads, Io!SetAlive,
    Io!SelfCheckClears, Io!StopClears, Io!StopPosts, Io!StopJoins, Io!StartInThread, Io!StopInThread,
    Io!DoTimer, Io!DoTimerEnds, Io!RunReturns, Io!DeadlineExpires, Io!ConnectionOpens,
    Io!ConnectionCloses
<1>6. /\ owner' \in {"new", "starting", "up", "checking", "stopping", "joining", "joined"}
      /\ io' \in {"none", "idle", "timer", "returned"}
      /\ deadline' \in {"off", "waiting", "queued"}
  BY DEF Io!TypeOK, Io!Next, Io!vars, Io!OwnerNext, Io!IoNext, Io!StartThread,
    Io!StartTimer, Io!SelfCheckReads, Io!SetAlive,
    Io!SelfCheckClears, Io!StopClears, Io!StopPosts, Io!StopJoins, Io!StartInThread, Io!StopInThread,
    Io!DoTimer, Io!DoTimerEnds, Io!RunReturns, Io!DeadlineExpires, Io!ConnectionOpens,
    Io!ConnectionCloses
<1> QED BY <1>2, <1>3, <1>4, <1>5, <1>6 DEF Io!TypeOK

(* Every step of the owner and of the thread keeps the invariant. *)
LEMMA IoStep == IoInv /\ [Io!Next]_Io!vars => IoInv'
<1> SUFFICES ASSUME IoInv, [Io!Next]_Io!vars PROVE IoInv'
  OBVIOUS
<1>0. Io!TypeOK'
  BY IoType DEF IoInv
<1>1. CASE UNCHANGED Io!vars
  BY <1>1, PlacesAt DEF Io!vars, IoInv, Io!TypeOK, IoPlaces, IoDriven, IoQuiet, Io!OneDeadline, Io!Driven
<1>2. CASE Io!StartThread
  <2>1. \A h : At(queue', h) = IF h = "StartInThread" THEN At(queue, h) \cup {Len(queue) + 1} ELSE At(queue, h)
    BY <1>2, AtAppend DEF Io!StartThread, IoInv, Io!TypeOK
  <2>2. Len(queue) \in Nat /\ \A h : At(queue, h) \subseteq 1 .. Len(queue)
    BY DEF IoInv, Io!TypeOK, At
  <2>3. IoPlaces'
    BY <1>2, <2>1, <2>2, PlacesAt DEF Io!StartThread, IoInv, Io!TypeOK, IoPlaces, IoQuiet, Io!OneDeadline
  <2>4. IoDriven'
    BY <1>2 DEF Io!StartThread, IoInv, Io!TypeOK, IoPlaces, IoDriven, Io!Driven
  <2>5. IoQuiet'
    BY <1>2, <2>1, <2>2, PlacesAt DEF Io!StartThread, IoInv, Io!TypeOK, IoPlaces, IoQuiet, Io!OneDeadline
  <2> QED BY <1>0, <2>3, <2>4, <2>5 DEF IoInv
<1>3. CASE Io!StartTimer
  <2>1. \A h : At(queue', h) = At(queue, h)
    BY <1>3 DEF Io!StartTimer
  <2>2. Len(queue) \in Nat /\ \A h : At(queue, h) \subseteq 1 .. Len(queue)
    BY DEF IoInv, Io!TypeOK, At
  <2>3. IoPlaces'
    BY <1>3, <2>1, <2>2, PlacesAt DEF Io!StartTimer, IoInv, Io!TypeOK, IoPlaces, IoQuiet, Io!OneDeadline
  <2>4. IoDriven'
    BY <1>3 DEF Io!StartTimer, IoInv, Io!TypeOK, IoPlaces, IoDriven, Io!Driven
  <2>5. IoQuiet'
    BY <1>3, <2>1, <2>2, PlacesAt DEF Io!StartTimer, IoInv, Io!TypeOK, IoPlaces, IoQuiet, Io!OneDeadline
  <2> QED BY <1>0, <2>3, <2>4, <2>5 DEF IoInv
<1>4. CASE Io!SelfCheckReads
  <2>1. \A h : At(queue', h) = At(queue, h)
    BY <1>4 DEF Io!SelfCheckReads
  <2>2. Len(queue) \in Nat /\ \A h : At(queue, h) \subseteq 1 .. Len(queue)
    BY DEF IoInv, Io!TypeOK, At
  <2>3. IoPlaces'
    BY <1>4, <2>1, <2>2, PlacesAt DEF Io!SelfCheckReads, IoInv, Io!TypeOK, IoPlaces, IoQuiet, Io!OneDeadline
  <2>4. IoDriven'
    BY <1>4 DEF Io!SelfCheckReads, IoInv, Io!TypeOK, IoPlaces, IoDriven, Io!Driven
  <2>5. IoQuiet'
    BY <1>4, <2>1, <2>2, PlacesAt DEF Io!SelfCheckReads, IoInv, Io!TypeOK, IoPlaces, IoQuiet, Io!OneDeadline
  <2> QED BY <1>0, <2>3, <2>4, <2>5 DEF IoInv
<1>5. CASE Io!SelfCheckClears
  <2>1. \A h : At(queue', h) = At(queue, h)
    BY <1>5 DEF Io!SelfCheckClears
  <2>2. Len(queue) \in Nat /\ \A h : At(queue, h) \subseteq 1 .. Len(queue)
    BY DEF IoInv, Io!TypeOK, At
  <2>3. IoPlaces'
    BY <1>5, <2>1, <2>2, PlacesAt DEF Io!SelfCheckClears, IoInv, Io!TypeOK, IoPlaces, IoQuiet, Io!OneDeadline
  <2>4. IoDriven'
    BY <1>5 DEF Io!SelfCheckClears, IoInv, Io!TypeOK, IoPlaces, IoDriven, Io!Driven
  <2>5. IoQuiet'
    BY <1>5, <2>1, <2>2, PlacesAt DEF Io!SelfCheckClears, IoInv, Io!TypeOK, IoPlaces, IoQuiet, Io!OneDeadline
  <2> QED BY <1>0, <2>3, <2>4, <2>5 DEF IoInv
<1>6. CASE Io!StopClears
  <2>1. \A h : At(queue', h) = At(queue, h)
    BY <1>6 DEF Io!StopClears
  <2>2. Len(queue) \in Nat /\ \A h : At(queue, h) \subseteq 1 .. Len(queue)
    BY DEF IoInv, Io!TypeOK, At
  <2>3. IoPlaces'
    BY <1>6, <2>1, <2>2, PlacesAt DEF Io!StopClears, IoInv, Io!TypeOK, IoPlaces, IoQuiet, Io!OneDeadline
  <2>4. IoDriven'
    BY <1>6 DEF Io!StopClears, IoInv, Io!TypeOK, IoPlaces, IoDriven, Io!Driven
  <2>5. IoQuiet'
    BY <1>6, <2>1, <2>2, PlacesAt DEF Io!StopClears, IoInv, Io!TypeOK, IoPlaces, IoQuiet, Io!OneDeadline
  <2> QED BY <1>0, <2>3, <2>4, <2>5 DEF IoInv
<1>7. CASE Io!StopPosts
  <2>1. \A h : At(queue', h) = IF h = "StopInThread" THEN At(queue, h) \cup {Len(queue) + 1} ELSE At(queue, h)
    BY <1>7, AtAppend DEF Io!StopPosts, IoInv, Io!TypeOK
  <2>2. Len(queue) \in Nat /\ \A h : At(queue, h) \subseteq 1 .. Len(queue)
    BY DEF IoInv, Io!TypeOK, At
  <2>3. IoPlaces'
    BY <1>7, <2>1, <2>2, PlacesAt DEF Io!StopPosts, IoInv, Io!TypeOK, IoPlaces, IoQuiet, Io!OneDeadline
  <2>4. IoDriven'
    BY <1>7 DEF Io!StopPosts, IoInv, Io!TypeOK, IoPlaces, IoDriven, Io!Driven
  <2>5. IoQuiet'
    <3>1. /\ At(queue', "StopInThread") # {}
          /\ \A i \in At(queue', "StartInThread") : \E j \in At(queue', "StopInThread") : i < j
      <4>1. Len(queue) + 1 \in At(queue', "StopInThread") /\ At(queue', "StartInThread") \subseteq 1 .. Len(queue)
        BY <2>1, <2>2
      <4> QED BY <4>1, <2>2
    <3> QED BY <1>7, <3>1, PlacesAt DEF Io!StopPosts, IoInv, IoQuiet, IoPlaces
  <2> QED BY <1>0, <2>3, <2>4, <2>5 DEF IoInv
<1>8. CASE Io!StopJoins
  <2>1. \A h : At(queue', h) = At(queue, h)
    BY <1>8 DEF Io!StopJoins
  <2>2. Len(queue) \in Nat /\ \A h : At(queue, h) \subseteq 1 .. Len(queue)
    BY DEF IoInv, Io!TypeOK, At
  <2>3. IoPlaces'
    BY <1>8, <2>1, <2>2, PlacesAt DEF Io!StopJoins, IoInv, Io!TypeOK, IoPlaces, IoQuiet, Io!OneDeadline
  <2>4. IoDriven'
    BY <1>8 DEF Io!StopJoins, IoInv, Io!TypeOK, IoPlaces, IoDriven, Io!Driven
  <2>5. IoQuiet'
    BY <1>8, <2>1, <2>2, PlacesAt DEF Io!StopJoins, IoInv, Io!TypeOK, IoPlaces, IoQuiet, Io!OneDeadline
  <2> QED BY <1>0, <2>3, <2>4, <2>5 DEF IoInv
<1>9. CASE Io!StartInThread
  <2>1. /\ \A h : At(queue', h) = {i \in 1 .. Len(queue) - 1 : i + 1 \in At(queue, h)}
        /\ \A h : \A i \in At(queue, h) : i # 1 => i - 1 \in At(queue', h)
        /\ 1 \in At(queue, "StartInThread") /\ \A h : 1 \in At(queue, h) => h = "StartInThread"
    BY <1>9, AtTail, TailFacts DEF Io!StartInThread, Io!Runs, Io!SetAlive, IoInv, Io!TypeOK, At
  <2>2. Len(queue) \in Nat /\ \A h : At(queue, h) \subseteq 1 .. Len(queue)
    BY DEF IoInv, Io!TypeOK, At
  <2>3. IoPlaces'
    BY <1>9, <2>1, <2>2, PlacesAt DEF Io!StartInThread, Io!Runs, Io!SetAlive, IoInv, Io!TypeOK, IoPlaces, IoQuiet, Io!OneDeadline
  <2>4. IoDriven'
    BY <1>9 DEF Io!StartInThread, Io!Runs, Io!SetAlive, IoInv, Io!TypeOK, IoPlaces, IoDriven, Io!Driven
  <2>5. IoQuiet'
    <3>1. CASE owner \in {"joining", "joined"}
      <4>1. \A i \in At(queue, "StartInThread") : \E j \in At(queue, "StopInThread") : i < j
        BY <3>1, PlacesAt DEF IoInv, IoQuiet
      <4>2. At(queue', "StopInThread") # {}
        BY <4>1, <2>1, <2>2
      <4>3. \A i \in At(queue', "StartInThread") : \E j \in At(queue', "StopInThread") : i < j
        <5>1. TAKE i \in At(queue', "StartInThread")
        <5>2. PICK j \in At(queue, "StopInThread") : i + 1 < j
          BY <4>1, <2>1
        <5>3. j - 1 \in At(queue', "StopInThread") /\ i < j - 1
          BY <5>2, <2>1, <2>2
        <5> QED BY <5>3
      <4> QED BY <1>9, <3>1, <4>2, <4>3, PlacesAt DEF Io!StartInThread, Io!Runs, IoInv, IoQuiet, IoPlaces
    <3>2. CASE owner \notin {"joining", "joined"}
      BY <1>9, <3>2, TailFacts DEF Io!StartInThread, Io!Runs, IoInv, IoQuiet, IoPlaces
    <3> QED BY <3>1, <3>2
  <2> QED BY <1>0, <2>3, <2>4, <2>5 DEF IoInv
<1>10. CASE Io!StopInThread
  <2>1. /\ \A h : At(queue', h) = {i \in 1 .. Len(queue) - 1 : i + 1 \in At(queue, h)}
        /\ \A h : \A i \in At(queue, h) : i # 1 => i - 1 \in At(queue', h)
        /\ 1 \in At(queue, "StopInThread") /\ \A h : 1 \in At(queue, h) => h = "StopInThread"
    BY <1>10, AtTail, TailFacts DEF Io!StopInThread, Io!Runs, IoInv, Io!TypeOK, At
  <2>2. Len(queue) \in Nat /\ \A h : At(queue, h) \subseteq 1 .. Len(queue)
    BY DEF IoInv, Io!TypeOK, At
  <2>3. IoPlaces'
    BY <1>10, <2>1, <2>2, PlacesAt DEF Io!StopInThread, Io!Runs, IoInv, Io!TypeOK, IoPlaces, IoQuiet, Io!OneDeadline
  <2>4. IoDriven'
    BY <1>10 DEF Io!StopInThread, Io!Runs, IoInv, Io!TypeOK, IoPlaces, IoDriven, Io!Driven
  <2>5. IoQuiet'
    BY <1>10, <2>1, <2>2, PlacesAt, SMTT(30) DEF Io!StopInThread, Io!Runs, IoInv, Io!TypeOK, IoPlaces, IoQuiet, Io!OneDeadline
  <2> QED BY <1>0, <2>3, <2>4, <2>5 DEF IoInv
<1>11. CASE Io!DoTimer
  <2>1. /\ \A h : At(queue', h) = {i \in 1 .. Len(queue) - 1 : i + 1 \in At(queue, h)}
        /\ \A h : \A i \in At(queue, h) : i # 1 => i - 1 \in At(queue', h)
        /\ 1 \in At(queue, "DoTimer") /\ \A h : 1 \in At(queue, h) => h = "DoTimer"
    BY <1>11, AtTail, TailFacts DEF Io!DoTimer, Io!Runs, Io!SetAlive, IoInv, Io!TypeOK, At
  <2>2. Len(queue) \in Nat /\ \A h : At(queue, h) \subseteq 1 .. Len(queue)
    BY DEF IoInv, Io!TypeOK, At
  <2>3. IoPlaces'
    BY <1>11, <2>1, <2>2, PlacesAt DEF Io!DoTimer, Io!Runs, Io!SetAlive, IoInv, Io!TypeOK, IoPlaces, IoQuiet, Io!OneDeadline
  <2>4. IoDriven'
    BY <1>11 DEF Io!DoTimer, Io!Runs, Io!SetAlive, IoInv, Io!TypeOK, IoPlaces, IoDriven, Io!Driven
  <2>5. IoQuiet'
    BY <1>11, <2>1, <2>2, PlacesAt DEF Io!DoTimer, Io!Runs, Io!SetAlive, IoInv, Io!TypeOK, IoPlaces, IoQuiet, Io!OneDeadline
  <2> QED BY <1>0, <2>3, <2>4, <2>5 DEF IoInv
<1>12. CASE Io!DoTimerEnds
  <2>1. \A h : At(queue', h) = At(queue, h)
    BY <1>12 DEF Io!DoTimerEnds
  <2>2. Len(queue) \in Nat /\ \A h : At(queue, h) \subseteq 1 .. Len(queue)
    BY DEF IoInv, Io!TypeOK, At
  <2>3. IoPlaces'
    BY <1>12, <2>1, <2>2, PlacesAt DEF Io!DoTimerEnds, IoInv, Io!TypeOK, IoPlaces, IoQuiet, Io!OneDeadline
  <2>4. IoDriven'
    BY <1>12 DEF Io!DoTimerEnds, IoInv, Io!TypeOK, IoPlaces, IoDriven, Io!Driven
  <2>5. IoQuiet'
    BY <1>12, <2>1, <2>2, PlacesAt DEF Io!DoTimerEnds, IoInv, Io!TypeOK, IoPlaces, IoQuiet, Io!OneDeadline
  <2> QED BY <1>0, <2>3, <2>4, <2>5 DEF IoInv
<1>13. CASE Io!RunReturns
  <2>1. \A h : At(queue', h) = At(queue, h)
    BY <1>13 DEF Io!RunReturns
  <2>2. Len(queue) \in Nat /\ \A h : At(queue, h) \subseteq 1 .. Len(queue)
    BY DEF IoInv, Io!TypeOK, At
  <2>3. IoPlaces'
    BY <1>13, <2>1, <2>2, PlacesAt DEF Io!RunReturns, IoInv, Io!TypeOK, IoPlaces, IoQuiet, Io!OneDeadline
  <2>4. IoDriven'
    BY <1>13 DEF Io!RunReturns, IoInv, Io!TypeOK, IoPlaces, IoDriven, Io!Driven
  <2>5. IoQuiet'
    BY <1>13, <2>1, <2>2, PlacesAt DEF Io!RunReturns, IoInv, Io!TypeOK, IoPlaces, IoQuiet, Io!OneDeadline
  <2> QED BY <1>0, <2>3, <2>4, <2>5 DEF IoInv
<1>14. CASE Io!DeadlineExpires
  <2>1. \A h : At(queue', h) = IF h = "DoTimer" THEN At(queue, h) \cup {Len(queue) + 1} ELSE At(queue, h)
    BY <1>14, AtAppend DEF Io!DeadlineExpires, IoInv, Io!TypeOK
  <2>2. Len(queue) \in Nat /\ \A h : At(queue, h) \subseteq 1 .. Len(queue)
    BY DEF IoInv, Io!TypeOK, At
  <2>3. IoPlaces'
    BY <1>14, <2>1, <2>2, PlacesAt DEF Io!DeadlineExpires, IoInv, Io!TypeOK, IoPlaces, IoQuiet, Io!OneDeadline
  <2>4. IoDriven'
    BY <1>14 DEF Io!DeadlineExpires, IoInv, Io!TypeOK, IoPlaces, IoDriven, Io!Driven
  <2>5. IoQuiet'
    BY <1>14, <2>1, <2>2, PlacesAt DEF Io!DeadlineExpires, IoInv, Io!TypeOK, IoPlaces, IoQuiet, Io!OneDeadline
  <2> QED BY <1>0, <2>3, <2>4, <2>5 DEF IoInv
<1>15. CASE Io!ConnectionOpens
  <2>1. \A h : At(queue', h) = At(queue, h)
    BY <1>15 DEF Io!ConnectionOpens
  <2>2. Len(queue) \in Nat /\ \A h : At(queue, h) \subseteq 1 .. Len(queue)
    BY DEF IoInv, Io!TypeOK, At
  <2>3. IoPlaces'
    BY <1>15, <2>1, <2>2, PlacesAt DEF Io!ConnectionOpens, IoInv, Io!TypeOK, IoPlaces, IoQuiet, Io!OneDeadline
  <2>4. IoDriven'
    BY <1>15 DEF Io!ConnectionOpens, IoInv, Io!TypeOK, IoPlaces, IoDriven, Io!Driven
  <2>5. IoQuiet'
    BY <1>15, <2>1, <2>2, PlacesAt DEF Io!ConnectionOpens, IoInv, Io!TypeOK, IoPlaces, IoQuiet, Io!OneDeadline
  <2> QED BY <1>0, <2>3, <2>4, <2>5 DEF IoInv
<1>16. CASE Io!ConnectionCloses
  <2>1. \A h : At(queue', h) = At(queue, h)
    BY <1>16 DEF Io!ConnectionCloses
  <2>2. Len(queue) \in Nat /\ \A h : At(queue, h) \subseteq 1 .. Len(queue)
    BY DEF IoInv, Io!TypeOK, At
  <2>3. IoPlaces'
    BY <1>16, <2>1, <2>2, PlacesAt DEF Io!ConnectionCloses, IoInv, Io!TypeOK, IoPlaces, IoQuiet, Io!OneDeadline
  <2>4. IoDriven'
    BY <1>16 DEF Io!ConnectionCloses, IoInv, Io!TypeOK, IoPlaces, IoDriven, Io!Driven
  <2>5. IoQuiet'
    BY <1>16, <2>1, <2>2, PlacesAt DEF Io!ConnectionCloses, IoInv, Io!TypeOK, IoPlaces, IoQuiet, Io!OneDeadline
  <2> QED BY <1>0, <2>3, <2>4, <2>5 DEF IoInv
<1> QED BY <1>1, <1>2, <1>3, <1>4, <1>5, <1>6, <1>7, <1>8, <1>9, <1>10, <1>11, <1>12, <1>13, <1>14, <1>15, <1>16 DEF Io!Next, Io!OwnerNext, Io!IoNext

(* The invariant always holds of a CIoServiceThread. *)
THEOREM IoInvariant == Io!Init /\ [][Io!Next]_Io!vars => []IoInv
BY IoInit, IoStep, PTL

-----------------------------------------------------------------------------
(* MsgTimerThread: a message is in one queue. *)

(* Holds and In ask the same of a list. *)
LEMMA HoldsIn == \A list, x : Group!Holds(list, x) <=> Wheel!In(list, x)
BY DEF Group!Holds, Wheel!In

(* A message at the end of a queue. *)
LEMMA QueueAppend ==
    ASSUME NEW S, NEW list \in Seq(S), NEW e \in S
    PROVE  /\ \A x : Group!Holds(Append(list, e), x) <=> Group!Holds(list, x) \/ x = e
           /\ Wheel!Once(list) /\ ~Group!Holds(list, e) => Wheel!Once(Append(list, e))
BY InAppend, HoldsIn, Zenon

(* The first message leaves a queue. *)
LEMMA QueueTail ==
    ASSUME NEW S, NEW list \in Seq(S), list # <<>>, Wheel!Once(list)
    PROVE  /\ \A x : Group!Holds(Tail(list), x) <=> Group!Holds(list, x) /\ x # Head(list)
           /\ Group!Holds(list, Head(list))
           /\ Wheel!Once(Tail(list))
BY InTail, HoldsIn, Zenon

(* What ThreadAssumption says of the constants. *)
LEMMA GroupConstants ==
    /\ Group!Cardinality(MsgThread) \in Nat /\ MsgThread = 1 .. Group!Cardinality(MsgThread)
    /\ self_priority \in [MsgThread -> BOOLEAN] /\ NoMessage \notin Message
<1>1. /\ Group!IsFiniteSet(MsgThread) /\ MsgThread = 1 .. Group!Cardinality(MsgThread)
      /\ self_priority \in [MsgThread -> BOOLEAN] /\ NoMessage \notin Message
  BY ThreadsAssumption DEF Group!ThreadAssumption
<1>2. IsFiniteSet(MsgThread) /\ Group!Cardinality(MsgThread) = Cardinality(MsgThread)
  BY <1>1 DEF Group!IsFiniteSet, IsFiniteSet, Group!Cardinality, Cardinality
<1>3. Cardinality(MsgThread) \in Nat
  BY <1>2, FS_CardinalityType
<1> QED BY <1>1, <1>2, <1>3

(* A message is at most once in the public queue, in a queue of a thread, in the hands of one, or dealt with. *)
GroupOnce ==
    /\ Wheel!Once(public) /\ Wheel!Once(dealt)
    /\ \A t \in MsgThread : Wheel!Once(queues[t])
    /\ \A m \in Message : Group!Holds(public, m) =>
         ~Group!Holds(dealt, m) /\ \A t \in MsgThread : ~Group!Holds(queues[t], m) /\ pdata[t] # m
    /\ \A m \in Message, t \in MsgThread : Group!Holds(queues[t], m) =>
         ~Group!Holds(dealt, m) /\ \A u \in MsgThread : (u # t => ~Group!Holds(queues[u], m)) /\ pdata[u] # m
    /\ \A t, u \in MsgThread :
         pdata[t] # NoMessage => ~Group!Holds(dealt, pdata[t]) /\ (pdata[u] = pdata[t] => u = t)

(* A thread that was joined has left Run, and one between two messages has none in its hands. *)
GroupOut ==
    \A t \in MsgThread :
      /\ pc[t] \in {"new", "check", "stopped"} => pdata[t] = NoMessage
      /\ t < group => pc[t] = "stopped"

(* The invariant of a group of MsgTimerThreads. *)
GroupInv == Group!TypeOK /\ GroupOnce /\ GroupOut

(* The invariant holds of a new group. *)
LEMMA GroupInit == Group!Init => GroupInv
<1> SUFFICES ASSUME Group!Init PROVE GroupInv
  OBVIOUS
<1>1. Group!TypeOK
  <2>1. group \in 0 .. Group!Cardinality(MsgThread) + 1
    BY GroupConstants DEF Group!Init
  <2>2. /\ queues \in [MsgThread -> Seq(Message)] /\ public \in Seq(Message)
        /\ dealt \in Seq(Message) /\ late \subseteq MsgThread
    BY DEF Group!Init
  <2>3. joining \in BOOLEAN /\ is_running \in [MsgThread -> BOOLEAN]
    BY DEF Group!Init
  <2>4. /\ pc \in [MsgThread -> {"new", "first", "second", "check", "stopped"}]
        /\ pdata \in [MsgThread -> Message \cup {NoMessage}]
    BY DEF Group!Init
  <2> QED BY <2>1, <2>2, <2>3, <2>4 DEF Group!TypeOK
<1>2. GroupOnce
  BY DEF Group!Init, GroupOnce, Wheel!Once, Group!Holds
<1>3. GroupOut
  BY GroupConstants DEF Group!Init, GroupOut
<1> QED BY <1>1, <1>2, <1>3 DEF GroupInv

(* Every step of the group and of its threads keeps the invariant. *)
LEMMA GroupStep == GroupInv /\ [Group!Next]_Group!vars => GroupInv'
<1> SUFFICES ASSUME GroupInv, [Group!Next]_Group!vars PROVE GroupInv'
  OBVIOUS
<1> USE GroupConstants DEF GroupInv
<1>1. CASE UNCHANGED Group!vars
  BY <1>1 DEF Group!vars, Group!TypeOK, GroupOnce, GroupOut
<1>2. CASE Group!StopGroup
  <2>1. Group!TypeOK'
    <3>1. group' \in 0 .. Group!Cardinality(MsgThread) + 1
      BY <1>2 DEF Group!StopGroup
    <3> QED BY <1>2, <3>1 DEF Group!StopGroup, Group!TypeOK
  <2>2. GroupOnce'
    BY <1>2 DEF Group!StopGroup, GroupOnce
  <2>3. GroupOut'
    BY <1>2 DEF Group!StopGroup, GroupOut
  <2> QED BY <2>1, <2>2, <2>3
<1>3. CASE Group!Stop
  <2>1. Group!TypeOK'
    BY <1>3 DEF Group!Stop, Group!TypeOK
  <2>2. GroupOnce'
    BY <1>3 DEF Group!Stop, GroupOnce
  <2>3. GroupOut'
    BY <1>3 DEF Group!Stop, GroupOut
  <2> QED BY <2>1, <2>2, <2>3
<1>4. CASE Group!Join
  <2>1. Group!TypeOK'
    <3>1. group' \in 0 .. Group!Cardinality(MsgThread) + 1
      BY <1>4 DEF Group!Join
    <3> QED BY <1>4, <3>1 DEF Group!Join, Group!TypeOK
  <2>2. GroupOnce'
    BY <1>4 DEF Group!Join, GroupOnce
  <2>3. GroupOut'
    BY <1>4 DEF Group!Join, Group!TypeOK, GroupOut
  <2> QED BY <2>1, <2>2, <2>3
<1>5. ASSUME NEW msg \in Message, Group!OnPublicMsg(msg) PROVE GroupInv'
  <2>1. Group!TypeOK'
    BY <1>5, AppendFacts DEF Group!OnPublicMsg, Group!TypeOK
  <2>2. /\ \A x : Group!Holds(public', x) <=> Group!Holds(public, x) \/ x = msg
        /\ Wheel!Once(public')
    BY <1>5, QueueAppend DEF Group!OnPublicMsg, Group!TypeOK, Group!Fresh, Group!Queued, GroupOnce
  <2>3. GroupOnce'
    BY <1>5, <2>2 DEF Group!OnPublicMsg, GroupOnce, Group!Fresh, Group!Queued
  <2>4. GroupOut'
    BY <1>5 DEF Group!OnPublicMsg, GroupOut
  <2> QED BY <2>1, <2>3, <2>4
<1>6. ASSUME NEW t \in MsgThread, NEW msg \in Message, Group!OnPrivateMsg(t, msg) PROVE GroupInv'
  <2>1. Group!TypeOK'
    BY <1>6, AppendFacts DEF Group!OnPrivateMsg, Group!TypeOK
  <2>2. \A u \in MsgThread : queues'[u] = IF u = t THEN Append(queues[t], msg) ELSE queues[u]
    BY <1>6 DEF Group!OnPrivateMsg, Group!TypeOK
  <2>3. /\ \A x : Group!Holds(queues'[t], x) <=> Group!Holds(queues[t], x) \/ x = msg
        /\ Wheel!Once(queues'[t])
    BY <1>6, <2>2, QueueAppend DEF Group!OnPrivateMsg, Group!TypeOK, Group!Fresh, Group!Queued, GroupOnce
  <2>4. GroupOnce'
    BY <1>6, <2>2, <2>3 DEF Group!OnPrivateMsg, GroupOnce, Group!Fresh, Group!Queued
  <2>5. GroupOut'
    BY <1>6 DEF Group!OnPrivateMsg, GroupOut
  <2> QED BY <2>1, <2>4, <2>5
<1>7. ASSUME NEW t \in MsgThread, Group!Run(t) PROVE GroupInv'
  <2>1. Group!TypeOK'
    BY <1>7 DEF Group!Run, Group!TypeOK
  <2>2. GroupOnce'
    BY <1>7 DEF Group!Run, GroupOnce
  <2>3. GroupOut'
    BY <1>7 DEF Group!Run, GroupOut, Group!TypeOK
  <2> QED BY <2>1, <2>2, <2>3
<1>8. ASSUME NEW t \in MsgThread, Group!GetQ(t) PROVE GroupInv'
  <2>1. CASE Group!TakesPublic(t)
    <3> DEFINE msg == Head(public)
    <3>1. /\ public # <<>> /\ public' = Tail(public) /\ UNCHANGED <<queues, dealt, pc, group>>
          /\ pdata' = [pdata EXCEPT ![t] = msg] /\ pdata[t] = NoMessage
          /\ pc[t] \in {"first", "second"}
      BY <1>8, <2>1 DEF Group!GetQ
    <3>2. /\ \A x : Group!Holds(public', x) <=> Group!Holds(public, x) /\ x # msg
          /\ Group!Holds(public, msg) /\ Wheel!Once(public') /\ msg \in Message
      BY <3>1, QueueTail, TailFacts DEF Group!TypeOK, GroupOnce
    <3>3. Group!TypeOK'
      BY <1>8, <3>1, <3>2, TailFacts DEF Group!GetQ, Group!TypeOK
    <3>4. \A u \in MsgThread : pdata'[u] = IF u = t THEN msg ELSE pdata[u]
      BY <3>1 DEF Group!TypeOK
    <3>5. GroupOnce'
      BY <3>1, <3>2, <3>4 DEF GroupOnce, Group!TypeOK
    <3>6. GroupOut'
      BY <3>1, <3>4 DEF GroupOut
    <3> QED BY <3>3, <3>5, <3>6
  <2>2. CASE ~Group!TakesPublic(t)
    <3> DEFINE msg == Head(queues[t])
    <3>1. /\ queues[t] # <<>> /\ queues' = [queues EXCEPT ![t] = Tail(@)] /\ UNCHANGED <<public, dealt, pc, group>>
          /\ pdata' = [pdata EXCEPT ![t] = msg] /\ pdata[t] = NoMessage
          /\ pc[t] \in {"first", "second"}
      BY <1>8, <2>2 DEF Group!GetQ
    <3>2. \A u \in MsgThread : /\ pdata'[u] = IF u = t THEN msg ELSE pdata[u]
                            /\ queues'[u] = IF u = t THEN Tail(queues[t]) ELSE queues[u]
      BY <3>1 DEF Group!TypeOK
    <3>3. /\ \A x : Group!Holds(queues'[t], x) <=> Group!Holds(queues[t], x) /\ x # msg
          /\ Group!Holds(queues[t], msg) /\ Wheel!Once(queues'[t]) /\ msg \in Message
      BY <3>1, <3>2, QueueTail, TailFacts DEF Group!TypeOK, GroupOnce
    <3>4. Group!TypeOK'
      BY <1>8, <3>1, <3>3, TailFacts DEF Group!GetQ, Group!TypeOK
    <3>5. GroupOnce'
      BY <3>1, <3>2, <3>3, SMTT(30) DEF GroupOnce, Group!TypeOK
    <3>6. GroupOut'
      BY <3>1, <3>2 DEF GroupOut
    <3> QED BY <3>4, <3>5, <3>6
  <2> QED BY <2>1, <2>2
<1>9. ASSUME NEW t \in MsgThread, Group!GetsNothing(t) PROVE GroupInv'
  <2>1. Group!TypeOK'
    BY <1>9 DEF Group!GetsNothing, Group!TypeOK, Group!After
  <2>2. GroupOnce'
    BY <1>9 DEF Group!GetsNothing, GroupOnce
  <2>3. GroupOut'
    BY <1>9 DEF Group!GetsNothing, GroupOut, Group!TypeOK, Group!After
  <2> QED BY <2>1, <2>2, <2>3
<1>10. ASSUME NEW t \in MsgThread, Group!Deal(t) PROVE GroupInv'
  <2>1. pdata[t] \in Message /\ \A u \in MsgThread : pdata'[u] = IF u = t THEN NoMessage ELSE pdata[u]
    BY <1>10 DEF Group!Deal, Group!TypeOK
  <2>2. Group!TypeOK'
    BY <1>10, <2>1, AppendFacts DEF Group!Deal, Group!TypeOK, Group!After
  <2>3. /\ \A x : Group!Holds(dealt', x) <=> Group!Holds(dealt, x) \/ x = pdata[t]
        /\ Wheel!Once(dealt')
    BY <1>10, <2>1, QueueAppend DEF Group!Deal, Group!TypeOK, GroupOnce
  <2>4. GroupOnce'
    BY <1>10, <2>1, <2>3 DEF Group!Deal, GroupOnce
  <2>5. GroupOut'
    BY <1>10, <2>1 DEF Group!Deal, GroupOut, Group!TypeOK, Group!After
  <2> QED BY <2>2, <2>4, <2>5
<1>11. ASSUME NEW t \in MsgThread, Group!StopInThread(t) \/ Group!DetectTimerList(t) PROVE GroupInv'
  <2>1. Group!TypeOK'
    BY <1>11, ZenonT(30) DEF Group!StopInThread, Group!DetectTimerList, Group!TypeOK
  <2>2. GroupOnce'
    BY <1>11 DEF Group!StopInThread, Group!DetectTimerList, GroupOnce
  <2>3. GroupOut'
    BY <1>11 DEF Group!StopInThread, Group!DetectTimerList, GroupOut, Group!TypeOK
  <2> QED BY <2>1, <2>2, <2>3
<1> QED BY <1>1, <1>2, <1>3, <1>4, <1>5, <1>6, <1>7, <1>8, <1>9, <1>10, <1>11 DEF Group!Next, Group!ThreadNext

(* The invariant always holds of a group of MsgTimerThreads. *)
THEOREM GroupInvariant == Group!Init /\ [][Group!Next]_Group!vars => []GroupInv
BY GroupInit, GroupStep, PTL

-----------------------------------------------------------------------------
(* Coh: what the posted handlers rely on. *)

(* The handlers that are posted to the thread of CohClient. *)
Posted == [op : {"start"}] \cup [op : {"connect", "send"}, r : Nat \ {0}]

(* Handler i is one for a report of kind error. *)
OfError(i, op) == posted[i].op = op /\ reports[posted[i].r] = "error"

(* Before place k of the queue, a session for errors is there or is about to be dialled. *)
ErrorKnown(k) == status["error"] # "none" \/ \E j \in DOMAIN posted : j < k /\ OfError(j, "connect")

(* The types of what CohClient keeps. *)
CohTypes ==
    /\ main \in {"config", "start", "serve", "loop", "report", "stop", "delete", "end"}
    /\ posted \in Seq(Posted) /\ reports \in Seq(Coh!Kinds) /\ commands \in Nat /\ service \in BOOLEAN
    /\ status \in [Coh!Kinds -> {"none", "dialling", "connected", "lost", "closed"}]
    /\ unknown \subseteq DOMAIN reports
    /\ \A i \in DOMAIN posted : posted[i].op # "start" => posted[i].r \in DOMAIN reports

(* The instance goes when its thread is joined. *)
CohOutlives == instance = "deleted" \/ main = "delete" => cohio = "joined"

(* The name of the service comes with the first handler. *)
CohService ==
    /\ cohio = "running" /\ ~service => \E i \in DOMAIN posted : posted[i].op = "start"
    /\ commands > 0 => service

(* A report is sent after the session for its kind was dialled; only an action may miss it. *)
CohFound ==
    /\ \A r \in unknown : reports[r] = "action"
    /\ \A i \in DOMAIN posted : OfError(i, "send") => ErrorKnown(i)
    /\ main = "report" => reports # <<>>
    /\ main = "report" /\ reports[Len(reports)] = "error" => ErrorKnown(Len(posted) + 1)

(* The invariant of CohClient. *)
CohInv == CohTypes /\ CohOutlives /\ CohService /\ CohFound

(* The invariant holds before CohClient starts. *)
LEMMA CohInit == Coh!Init => CohInv
<1> SUFFICES ASSUME Coh!Init PROVE CohInv
  OBVIOUS
<1>1. CohTypes
  <2>1. posted \in Seq(Posted) /\ reports \in Seq(Coh!Kinds)
    BY DEF Coh!Init
  <2>2. service \in BOOLEAN /\ commands \in Nat
    BY DEF Coh!Init
  <2> QED BY <2>1, <2>2 DEF Coh!Init, CohTypes
<1>2. CohOutlives /\ CohService
  BY DEF Coh!Init, CohOutlives, CohService
<1>3. CohFound
  BY DEF Coh!Init, CohFound
<1> QED BY <1>1, <1>2, <1>3 DEF CohInv

(* The instance is deleted only after its thread was joined. *)
LEMMA CohControl == CohOutlives /\ [Coh!Next]_Coh!vars => CohOutlives'
BY DEF CohOutlives, Coh!Next, Coh!vars, Coh!own, Coh!Rest, Coh!Main, Coh!Loop, Coh!Runs, Coh!Fails, Coh!Configure,
  Coh!StartCoh, Coh!StartServer, Coh!ReportSend, Coh!Quit, Coh!Join, Coh!Delete, Coh!StartInThread,
  Coh!DoConnect, Coh!DoSendTo, Coh!Reconnect, Coh!DealCohCmd, Coh!ReportLeaks, Coh!ReportConnect,
  Coh!Dialled, Coh!DialFails, Coh!OnPeerClose, Coh!OnEvent

(* An action that leaves posted, reports and unknown alone keeps what they rely on. *)
LEMMA CohQuiet ==
    ASSUME CohInv, UNCHANGED <<posted, reports, unknown>>,
           status' \in [Coh!Kinds -> {"none", "dialling", "connected", "lost", "closed"}],
           status["error"] # "none" => status'["error"] # "none",
           main' \in {"config", "start", "serve", "loop", "report", "stop", "delete", "end"},
           main' = "report" => main = "report",
           service' = service, cohio' \in {cohio, "joined"},
           commands' = commands \/ (commands' = commands + 1 /\ service),
           CohOutlives'
    PROVE  CohInv'
<1>1. CohTypes'
  BY DEF CohInv, CohTypes
<1>2. CohService'
  BY DEF CohInv, CohService, CohTypes
<1>3. \A k : ErrorKnown(k) => ErrorKnown(k)'
  BY DEF ErrorKnown, OfError
<1>4. CohFound'
  BY <1>3 DEF CohInv, CohFound, OfError
<1> QED BY <1>1, <1>2, <1>4 DEF CohInv

(* Every step of the client, its thread and its sessions keeps the invariant. *)
LEMMA CohStep == CohInv /\ [Coh!Next]_Coh!vars => CohInv'
<1> SUFFICES ASSUME CohInv, [Coh!Next]_Coh!vars PROVE CohInv'
  OBVIOUS
<1>0. CohOutlives'
  BY CohControl DEF CohInv
<1>n. PICK n : n = Len(posted)
  OBVIOUS
<1>q. /\ n = Len(posted) /\ n \in Nat /\ DOMAIN posted = 1 .. Len(posted)
      /\ Len(reports) \in Nat /\ DOMAIN reports = 1 .. Len(reports)
  BY <1>n DEF CohInv, CohTypes
<1>1. CASE UNCHANGED Coh!vars \/ Coh!Fails \/ Coh!Configure \/ Coh!StartServer \/ Coh!Quit \/ Coh!Join \/ Coh!Delete
  BY <1>0, <1>1, CohQuiet DEF CohInv, CohTypes, Coh!vars, Coh!own, Coh!Rest, Coh!Main, Coh!Fails, Coh!Configure,
    Coh!StartServer, Coh!Quit, Coh!Join, Coh!Delete
<1>2. ASSUME NEW sort \in Coh!Kinds, Coh!Dialled(sort) \/ Coh!DialFails(sort) \/ Coh!OnPeerClose(sort) PROVE CohInv'
  BY <1>0, <1>2, CohQuiet DEF CohInv, CohTypes, Coh!own, Coh!Loop, Coh!Dialled, Coh!DialFails, Coh!OnPeerClose,
    Coh!autoreconnect, Coh!Kinds
<1>3. CASE Coh!Reconnect \/ \E r \in Coh!Report : Coh!OnEvent(r)
  BY <1>0, <1>3, CohQuiet DEF CohInv, CohTypes, Coh!own, Coh!Loop, Coh!Reconnect, Coh!OnEvent, Coh!Kinds
<1>4. CASE Coh!DealCohCmd
  <2>1. service
    BY <1>4 DEF Coh!DealCohCmd, Coh!Loop, CohInv, CohService
  <2> QED BY <1>0, <1>4, <2>1, CohQuiet DEF CohInv, CohTypes, Coh!own, Coh!Loop, Coh!DealCohCmd
<1>5. CASE Coh!StartCoh
  <2>1. /\ posted' = <<[op |-> "start"]>> /\ main = "start" /\ main' = "serve"
        /\ UNCHANGED <<service, status, reports, commands, unknown>>
    BY <1>5 DEF Coh!StartCoh, Coh!Main, Coh!Rest
  <2>2. DOMAIN posted' = {1} /\ posted'[1].op = "start" /\ posted' \in Seq(Posted)
    BY <2>1 DEF Posted
  <2>3. CohTypes'
    BY <2>1, <2>2 DEF CohInv, CohTypes
  <2>4. CohService'
    BY <2>1, <2>2 DEF CohInv, CohService
  <2>5. CohFound'
    BY <2>1, <2>2 DEF CohInv, CohFound, OfError
  <2> QED BY <1>0, <2>3, <2>4, <2>5 DEF CohInv
<1>6. ASSUME NEW sort \in Coh!Kinds, Coh!ReportLeaks(sort) \/ Coh!ReportConnect(sort) PROVE CohInv'
  <2>1. /\ reports' = Append(reports, sort) /\ main = "loop"
        /\ UNCHANGED <<cohio, service, status, commands, unknown>>
    BY <1>6 DEF Coh!ReportLeaks, Coh!ReportConnect, Coh!own, Coh!Main
  <2>2. /\ reports' \in Seq(Coh!Kinds) /\ Len(reports') = Len(reports) + 1 /\ DOMAIN reports' = 1 .. Len(reports) + 1
        /\ \A i \in DOMAIN reports : reports'[i] = reports[i]
        /\ reports'[Len(reports) + 1] = sort
    BY <2>1, AppendFacts DEF CohInv, CohTypes
  <2>3. CASE Coh!ReportLeaks(sort)
    <3>1. UNCHANGED <<main, posted>>
      BY <2>3 DEF Coh!ReportLeaks, Coh!own
    <3>2. CohTypes'
      BY <2>1, <2>2, <3>1, <1>q DEF CohInv, CohTypes
    <3>3. CohService'
      BY <2>1, <3>1 DEF CohInv, CohService
    <3>4. \A i \in DOMAIN posted, op \in {"connect", "send"} : OfError(i, op)' <=> OfError(i, op)
      BY <2>2, <3>1 DEF CohInv, CohTypes, OfError
    <3>5. CohFound'
      BY <2>1, <2>2, <3>1, <3>4 DEF CohInv, CohTypes, CohFound, ErrorKnown
    <3> QED BY <1>0, <3>2, <3>3, <3>5 DEF CohInv
  <2>4. CASE Coh!ReportConnect(sort)
    <3> DEFINE e == [op |-> "connect", r |-> Len(reports) + 1]
    <3>1. posted' = Append(posted, e) /\ main' = "report" /\ e \in Posted
      BY <2>4, <1>q DEF Coh!ReportConnect, Coh!Main, Posted
    <3>2. /\ posted' \in Seq(Posted) /\ Len(posted') = Len(posted) + 1 /\ DOMAIN posted' = 1 .. Len(posted) + 1
          /\ \A i \in DOMAIN posted : posted'[i] = posted[i]
          /\ posted'[Len(posted) + 1] = e
      BY <3>1, AppendFacts DEF CohInv, CohTypes
    <3>3. CohTypes'
      BY <2>1, <2>2, <3>1, <3>2, <1>q DEF CohInv, CohTypes
    <3>4. CohService'
      BY <2>1, <3>2, <1>q DEF CohInv, CohService
    <3>5. \A i \in DOMAIN posted, op \in {"connect", "send"} : OfError(i, op)' <=> OfError(i, op)
      BY <2>2, <3>2 DEF CohInv, CohTypes, OfError
    <3>6. \A i \in DOMAIN posted : ErrorKnown(i) => ErrorKnown(i)'
      BY <2>1, <3>2, <3>5, <1>q DEF ErrorKnown
    <3>7. ~OfError(n + 1, "send")' /\ (sort = "error" => OfError(n + 1, "connect")')
      BY <2>2, <3>2, <1>q DEF OfError
    <3>8. sort = "error" => ErrorKnown(n + 2)'
      BY <3>2, <3>7, <1>q DEF ErrorKnown
    <3>9. \A r \in unknown' : reports'[r] = "action"
      BY <2>1, <2>2 DEF CohInv, CohTypes, CohFound
    <3>10. \A i \in DOMAIN posted' : OfError(i, "send")' => ErrorKnown(i)'
      <4>1. TAKE i \in DOMAIN posted'
      <4>2. CASE i \in DOMAIN posted
        BY <4>2, <3>5, <3>6 DEF CohInv, CohFound
      <4>3. CASE i = n + 1
        BY <4>3, <3>7
      <4> QED BY <4>2, <4>3, <3>2, <1>q
    <3>11. reports' # <<>> /\ Len(posted') + 1 = n + 2 /\ reports'[Len(reports')] = sort
      BY <2>2, <3>2, <1>q
    <3>12. CohFound'
      BY <3>8, <3>9, <3>10, <3>11 DEF CohFound
    <3> QED BY <1>0, <3>3, <3>4, <3>12 DEF CohInv
  <2> QED BY <1>6, <2>3, <2>4
<1>7. CASE Coh!ReportSend
  <2> DEFINE e == [op |-> "send", r |-> Len(reports)]
  <2>1. /\ posted' = Append(posted, e) /\ main = "report" /\ main' = "loop"
        /\ UNCHANGED <<cohio, service, status, reports, commands, unknown>>
    BY <1>7 DEF Coh!ReportSend, Coh!Main
  <2>2. Len(reports) \in DOMAIN reports /\ e \in Posted
    BY <2>1, <1>q DEF CohInv, CohFound, Posted, CohTypes
  <2>3. /\ posted' \in Seq(Posted) /\ Len(posted') = Len(posted) + 1 /\ DOMAIN posted' = 1 .. Len(posted) + 1
        /\ \A i \in DOMAIN posted : posted'[i] = posted[i]
        /\ posted'[Len(posted) + 1] = e
    BY <2>1, <2>2, AppendFacts DEF CohInv, CohTypes
  <2>4. CohTypes'
    BY <2>1, <2>2, <2>3, <1>q DEF CohInv, CohTypes
  <2>5. CohService'
    BY <2>1, <2>3, <1>q DEF CohInv, CohService
  <2>6. \A i \in DOMAIN posted, op \in {"connect", "send"} : OfError(i, op)' <=> OfError(i, op)
    BY <2>1, <2>3 DEF OfError
  <2>7. \A i \in 1 .. Len(posted) + 1 : ErrorKnown(i) => ErrorKnown(i)'
    BY <2>1, <2>3, <2>6, <1>q DEF ErrorKnown
  <2>8. OfError(n + 1, "send")' => ErrorKnown(n + 1)
    BY <2>1, <2>3, <1>q DEF CohInv, CohFound, OfError
  <2>9. \A i \in DOMAIN posted' : OfError(i, "send")' => ErrorKnown(i)'
    <3>1. TAKE i \in DOMAIN posted'
    <3>2. CASE i \in DOMAIN posted
      BY <3>2, <2>3, <2>6, <2>7 DEF CohInv, CohFound
    <3>3. CASE i = n + 1
      BY <3>3, <2>7, <2>8, <1>q
    <3> QED BY <3>2, <3>3, <2>3, <1>q
  <2>10. CohFound'
    BY <2>1, <2>9 DEF CohInv, CohFound
  <2> QED BY <1>0, <2>4, <2>5, <2>10 DEF CohInv
<1>8. CASE Coh!StartInThread \/ Coh!DoConnect \/ Coh!DoSendTo
  <2>1. /\ posted # <<>> /\ posted' = Tail(posted) /\ cohio = "running"
        /\ UNCHANGED <<main, cohio, reports, commands>>
    BY <1>8 DEF Coh!StartInThread, Coh!DoConnect, Coh!DoSendTo, Coh!Runs, Coh!own
  <2>2. /\ posted' \in Seq(Posted) /\ Len(posted') = Len(posted) - 1 /\ DOMAIN posted' = 1 .. Len(posted) - 1
        /\ \A i \in DOMAIN posted' : posted'[i] = posted[i + 1]
        /\ Head(posted) = posted[1] /\ 1 \in DOMAIN posted /\ Len(posted) > 0
    BY <2>1, TailFacts, <1>q DEF CohInv, CohTypes
  <2>3. /\ status' \in [Coh!Kinds -> {"none", "dialling", "connected", "lost", "closed"}]
        /\ status["error"] # "none" => status'["error"] # "none"
        /\ posted[1].op = "connect" => status' = [status EXCEPT ![reports[posted[1].r]] =
              IF @ \in {"connected", "dialling", "lost"} THEN @ ELSE "dialling"]
    BY <1>8, <2>2 DEF Coh!StartInThread, Coh!DoConnect, Coh!DoSendTo, Coh!Runs, CohInv, CohTypes, Coh!Kinds
  <2>4. service' \in BOOLEAN /\ (service => service') /\ (posted[1].op = "start" => service')
    BY <1>8, <2>2 DEF Coh!StartInThread, Coh!DoConnect, Coh!DoSendTo, Coh!Runs, CohInv, CohTypes
  <2>5. \A r \in unknown' : r \in unknown \/ (r = posted[1].r /\ posted[1].op = "send" /\ status[reports[r]] = "none")
    BY <1>8, <2>2 DEF Coh!StartInThread, Coh!DoConnect, Coh!DoSendTo, Coh!Runs
  <2>6. CohTypes'
    BY <2>1, <2>2, <2>3, <2>4, <2>5, <1>q DEF CohInv, CohTypes
  <2>7. CohService'
    <3>1. ASSUME NEW i \in DOMAIN posted, posted[i].op = "start", ~service' PROVE \E j \in DOMAIN posted' : posted'[j].op = "start"
      <4>1. i # 1 /\ i - 1 \in DOMAIN posted' /\ posted'[i - 1] = posted[i]
        BY <3>1, <2>2, <2>4, <1>q
      <4> QED BY <3>1, <4>1
    <3> QED BY <2>1, <2>4, <3>1 DEF CohInv, CohService
  <2>8. ~OfError(1, "connect") \/ status'["error"] # "none"
    BY <2>2, <2>3 DEF OfError, CohInv, CohTypes, Coh!Kinds
  <2>9. \A i \in DOMAIN posted', op \in {"connect", "send"} : OfError(i, op)' <=> OfError(i + 1, op)
    BY <2>1, <2>2 DEF OfError
  <2>10. \A i \in 1 .. Len(posted) : ErrorKnown(i + 1) => ErrorKnown(i)'
    <3>1. TAKE i \in 1 .. Len(posted)
    <3>2. ASSUME NEW j \in DOMAIN posted, j < i + 1, OfError(j, "connect") PROVE ErrorKnown(i)'
      <4>1. CASE j = 1
        BY <4>1, <3>2, <2>8 DEF ErrorKnown
      <4>2. CASE j # 1
        <5>1. j - 1 \in DOMAIN posted' /\ j - 1 < i /\ OfError(j - 1, "connect")'
          BY <4>2, <3>2, <2>2, <2>9, <1>q
        <5> QED BY <5>1 DEF ErrorKnown
      <4> QED BY <4>1, <4>2
    <3> QED BY <3>2, <2>3 DEF ErrorKnown
  <2>11. \A r \in unknown' : reports'[r] = "action"
    <3>1. TAKE r \in unknown'
    <3>2. CASE r \in unknown
      BY <3>2, <2>1 DEF CohInv, CohFound
    <3>3. CASE r = posted[1].r /\ posted[1].op = "send" /\ status[reports[r]] = "none"
      <4>1. reports[r] \in {"error", "action"}
        BY <3>3, <2>2, SMTT(30) DEF CohInv, CohTypes, Coh!Kinds
      <4>2. reports[r] = "error" => OfError(1, "send") /\ ErrorKnown(1)
        BY <3>3, <2>2 DEF CohInv, CohFound, OfError
      <4>3. ErrorKnown(1) => status["error"] # "none"
        BY <1>q DEF ErrorKnown
      <4> QED BY <4>1, <4>2, <4>3, <3>3, <2>1
    <3> QED BY <3>2, <3>3, <2>5
  <2>12. \A i \in DOMAIN posted' : OfError(i, "send")' => ErrorKnown(i)'
    <3>1. TAKE i \in DOMAIN posted'
    <3>2. i \in 1 .. Len(posted) /\ i + 1 \in DOMAIN posted
      BY <2>2, <1>q
    <3> QED BY <3>2, <2>9, <2>10 DEF CohInv, CohFound
  <2>13. n + 1 = Len(posted) + 1 /\ n = Len(posted') + 1 /\ n \in 1 .. Len(posted)
    BY <2>2, <1>q
  <2>14. CohFound'
    BY <2>1, <2>10, <2>11, <2>12, <2>13 DEF CohInv, CohFound
  <2> QED BY <1>0, <2>6, <2>7, <2>14 DEF CohInv
<1> QED BY <1>1, <1>2, <1>3, <1>4, <1>5, <1>6, <1>7, <1>8 DEF Coh!Next

(* The invariant always holds of CohClient. *)
THEOREM CohInvariant == Coh!Init /\ [][Coh!Next]_Coh!vars => []CohInv
BY CohInit, CohStep, PTL

-----------------------------------------------------------------------------
(* The threads together. *)

(* A behaviour of the threads is one of each part that goes by itself. *)
LEMMA EachPart ==
  Spec => /\ Wheel!Init /\ [][Wheel!Next]_Wheel!vars
          /\ Io!Init /\ [][Io!Next]_Io!vars
          /\ Holder!Init /\ [][Holder!Next]_Holder!vars
          /\ Group!Init /\ [][Group!Next]_Group!vars
          /\ Coh!Init /\ [][Coh!Next]_Coh!vars
<1>1. Init => Wheel!Init /\ Io!Init /\ Holder!Init /\ Group!Init /\ Coh!Init
  BY DEF Init
<1>2. [Next]_all => [Wheel!Next]_Wheel!vars
  BY DEF Next, all, InWheel, InIo, InHolder, InGroup, InCoh, InManager, InExamples, InClients, loopVars, wheelVars,
    Wheel!vars, Wheel!lists
<1>3. [Next]_all => [Io!Next]_Io!vars
  BY DEF Next, all, InWheel, InIo, InHolder, InGroup, InCoh, InManager, InExamples, InClients, loopVars, ioVars,
    Io!vars
<1>4. [Next]_all => [Holder!Next]_Holder!vars
  BY DEF Next, all, InWheel, InIo, InHolder, InGroup, InCoh, InManager, InExamples, InClients, loopVars, holderVars,
    Holder!vars
<1>5. [Next]_all => [Group!Next]_Group!vars
  BY DEF Next, all, InWheel, InIo, InHolder, InGroup, InCoh, InManager, InExamples, InClients, loopVars, groupVars,
    Group!vars
<1>6. [Next]_all => [Coh!Next]_Coh!vars
  BY DEF Next, all, InWheel, InIo, InHolder, InGroup, InCoh, InManager, InExamples, InClients, loopVars, cohVars,
    Coh!vars, Coh!own
<1> QED BY <1>1, <1>2, <1>3, <1>4, <1>5, <1>6, PTL DEF Spec

(* What renews itself, or is handed from one list or thread to another, is in one place and
   only there, for any number of timers, threads, servers, accepts and messages. *)
THEOREM SpecOnePlaceEach == Spec => []OnePlaceEach
<1>1. WheelInv => Wheel!TypeOK /\ Wheel!Linked
  BY DEF WheelInv
<1>2. IoInv => Io!TypeOK /\ Io!TimersDriven /\ Io!OneDeadline
  BY DEF IoInv, IoPlaces, IoDriven, Io!TimersDriven
<1>3. HolderInv => Holder!TypeOK /\ Holder!AcceptsGoOn /\ Holder!Balanced
  BY HolderBalanced DEF HolderInv
<1>4. GroupInv => Group!TypeOK /\ Group!DealtOnce
  BY DEF GroupInv, GroupOnce, Group!DealtOnce, Wheel!Once
<1>5. WheelInv /\ IoInv /\ HolderInv /\ GroupInv => OnePlaceEach
  BY <1>1, <1>2, <1>3, <1>4 DEF OnePlaceEach
<1> QED BY <1>5, EachPart, WheelInvariant, IoInvariant, HolderInvariant, GroupInvariant, PTL

(* Nothing works for, or with, what has ended: Stop of a CIoServiceThread and of a group of
   MsgTimerThreads returns when their threads are done, and CohClient outlives its thread. *)
THEOREM SpecNothingOutlived == Spec => []NothingOutlived
<1>1. IoInv => Io!StoppedIsQuiet
  BY DEF IoInv, IoQuiet, Io!StoppedIsQuiet
<1>2. GroupInv => Group!JoinedIsOut
  BY DEF GroupInv, GroupOut, Group!JoinedIsOut
<1>3. CohInv => Coh!OutlivesThread /\ Coh!ServiceKnown /\ Coh!SessionFound
  BY DEF CohInv, CohOutlives, CohService, CohFound, Coh!OutlivesThread, Coh!ServiceKnown, Coh!SessionFound
<1>4. IoInv /\ GroupInv /\ CohInv => NothingOutlived
  BY <1>1, <1>2, <1>3 DEF NothingOutlived
<1> QED BY <1>4, EachPart, IoInvariant, GroupInvariant, CohInvariant, PTL

(* The timers are called on time in every behaviour of the threads: no timer is left behind the
   wheels, and none is called early by more than the wheels lagged when it was started. *)
THEOREM SpecOnTime == Spec => []OnTime
BY EachPart, WheelOnTime, PTL

(* The timer wheel keeps the promise of TimerService in every behaviour of the threads. *)
THEOREM SpecImplementsService == Spec => ImplementsService
BY EachPart, WheelImplements, PTL DEF ImplementsService

-----------------------------------------------------------------------------
(* SessionManager: its variables and their types. *)

(* A manager's Sorted is the one of Sorting. *)
LEMMA ManSorted == ASSUME NEW side, NEW set PROVE Manager(side)!Sorted(set) = Sorted(set)
<1>1. Manager(side)!Cardinality(set) = Cardinality(set)
  BY Zenon DEF Manager!Cardinality, Cardinality
<1> QED BY <1>1, Zenon DEF Manager!Sorted, Sorted

ManSession(side) == 1 .. side.sessions

ManTypes(side) ==
    /\ kind \in [ManSession(side) -> {"free", "accepting", "accepted", "short", "persistent", "deleted"}]
    /\ id \in [ManSession(side) -> 0 .. side.mark]
    /\ key \in [ManSession(side) -> side.names \cup side.addrs \cup {0}]
    /\ standing \in [ManSession(side) -> {"WAITING", "CONNECTED", "TIME_OUT", "CONNECTING", "CLOSED"}]
    /\ up \in [ManSession(side) -> BOOLEAN]
    /\ short \in [side.names -> ManSession(side) \cup {0}]
    /\ addr_sessions \in [side.addrs -> ManSession(side) \cup {0}]
    /\ sessions \in [1 .. side.mark -> ManSession(side) \cup {0}]
    /\ groups \in [side.names -> [addrs : Seq(side.addrs), current : Nat]]
    /\ mark \in 0 .. side.mark /\ raced \in BOOLEAN
    /\ counting \in [side.threads -> -1 .. side.mark - 1]
    /\ first \in [side.addrs -> side.names \cup {0}]
    /\ served \in [side.names -> Seq(side.addrs)]
    /\ idle \in [ManSession(side) -> 0 .. 1]

(* What a container has is of its kind and under its own key, and what is of a kind is in its
   container; every session that was made has an id. *)
ManKeyed(side) ==
    /\ \A n \in side.names : short[n] # 0 => kind[short[n]] = "short" /\ key[short[n]] = n
    /\ \A a \in side.addrs :
         addr_sessions[a] # 0 => kind[addr_sessions[a]] = "persistent" /\ key[addr_sessions[a]] = a
    /\ \A c \in 1 .. side.mark : sessions[c] # 0 => kind[sessions[c]] = "accepted" /\ id[sessions[c]] = c
    /\ \A s \in ManSession(side) :
         /\ kind[s] = "short" => key[s] \in side.names /\ short[key[s]] = s
         /\ kind[s] = "persistent" => key[s] \in side.addrs /\ addr_sessions[key[s]] = s
         /\ kind[s] # "free" => id[s] # 0

(* As long as no increment was lost, an id is given once, and the session that has it is found. *)
ManCounted(side) ==
    raced \/ /\ \A s \in ManSession(side) : kind[s] # "free" => id[s] <= mark
             /\ \A r, s \in ManSession(side) : kind[r] # "free" /\ kind[s] # "free" /\ id[r] = id[s] => r = s
             /\ \A s \in ManSession(side) : kind[s] = "accepted" => sessions[id[s]] = s

(* What timed out was not heard of since the check that said so. *)
ManIdle(side) == \A s \in ManSession(side) : standing[s] = "TIME_OUT" => idle[s] = 1

(* The addresses that n was the first to connect to. *)
OfName(side, n) == {a \in side.addrs : first[a] = n}

(* A group has these addresses in order; an address has a session when a name was its first. *)
ManGroups(side) ==
    /\ \A a \in side.addrs : first[a] = 0 <=> addr_sessions[a] = 0
    /\ \A n \in side.names :
         /\ IsFiniteSet(OfName(side, n)) /\ Sorts(groups[n].addrs, OfName(side, n))
         /\ groups[n].addrs = Manager(side)!Sorted(OfName(side, n))

(* Where the turn was at the i-th of m sends when it is at current, behind it, in a group of size. *)
TurnAt(current, m, size, i) == IF current - (m - i) >= 1 THEN current - (m - i) ELSE current - (m - i) + size

(* The last sends to a name went to the addresses before its turn, at most once round its group. *)
ManTurns(side) ==
    \A n \in side.names :
        /\ Len(served[n]) <= Len(groups[n].addrs) /\ groups[n].current <= Len(groups[n].addrs)
        /\ \A i \in 1 .. Len(served[n]) :
             LET turn == TurnAt(groups[n].current, Len(served[n]), Len(groups[n].addrs), i)
             IN  /\ turn \in 1 .. Len(groups[n].addrs)
                 /\ served[n][i] = groups[n].addrs[turn]

ManInv(side) ==
    ManTypes(side) /\ ManKeyed(side) /\ ManCounted(side) /\ ManIdle(side) /\ ManGroups(side) /\ ManTurns(side)

(* What is assumed of one side. *)
LEMMA SideFacts ==
    ASSUME NEW side, Manager(side)!ManagerAssumption
    PROVE  /\ 0 \notin side.names /\ side.addrs \subseteq Nat \ {0} /\ side.sessions \in Nat /\ side.mark \in Nat
           /\ Manager(side)!None = 0 /\ Manager(side)!Session = ManSession(side)
           /\ Manager(side)!Outgoing = {"short", "persistent"}
BY DEF Manager!ManagerAssumption, Manager!None, Manager!Session, Manager!Outgoing, ManSession

(* The invariant holds in the beginning. *)
LEMMA ManInit == ASSUME NEW side, Manager(side)!ManagerAssumption, Manager(side)!Init PROVE ManInv(side)
<1>0. /\ 0 \notin side.names /\ side.addrs \subseteq Nat \ {0} /\ side.sessions \in Nat /\ side.mark \in Nat
      /\ Manager(side)!None = 0 /\ Manager(side)!Session = ManSession(side)
  BY SideFacts
<1>1. /\ kind = [s \in ManSession(side) |-> "free"] /\ id = [s \in ManSession(side) |-> 0]
      /\ key = [s \in ManSession(side) |-> 0] /\ standing = [s \in ManSession(side) |-> "WAITING"]
      /\ up = [s \in ManSession(side) |-> FALSE]
      /\ short = [n \in side.names |-> 0] /\ addr_sessions = [a \in side.addrs |-> 0]
      /\ groups = [n \in side.names |-> [addrs |-> <<>>, current |-> 0]]
      /\ sessions = [c \in 1 .. side.mark |-> 0]
      /\ mark = 0 /\ counting = [t \in side.threads |-> -1]
      /\ raced = FALSE /\ first = [a \in side.addrs |-> 0] /\ served = [n \in side.names |-> <<>>]
      /\ idle = [s \in ManSession(side) |-> 0]
  BY <1>0 DEF Manager!Init
<1>2. ManTypes(side)
  <2>1. groups \in [side.names -> [addrs : Seq(side.addrs), current : Nat]] /\ served \in [side.names -> Seq(side.addrs)]
    BY <1>1
  <2>2. mark \in 0 .. side.mark /\ counting \in [side.threads -> -1 .. side.mark - 1]
    BY <1>0, <1>1
  <2>3. kind \in [ManSession(side) -> {"free", "accepting", "accepted", "short", "persistent", "deleted"}]
    BY <1>1
  <2>4. id \in [ManSession(side) -> 0 .. side.mark] /\ idle \in [ManSession(side) -> 0 .. 1]
    BY <1>0, <1>1
  <2>5. /\ standing \in [ManSession(side) -> {"WAITING", "CONNECTED", "TIME_OUT", "CONNECTING", "CLOSED"}]
        /\ up \in [ManSession(side) -> BOOLEAN] /\ raced \in BOOLEAN
    BY <1>1
  <2> QED BY <1>1, <2>1, <2>2, <2>3, <2>4, <2>5 DEF ManTypes
<1>3. ManKeyed(side) /\ ManCounted(side) /\ ManIdle(side)
  BY <1>0, <1>1 DEF ManKeyed, ManCounted, ManIdle, ManSession
<1>4. ManGroups(side)
  <2>1. \A n \in side.names : OfName(side, n) = {}
    BY <1>0, <1>1 DEF OfName
  <2>2. Sorts(Manager(side)!Sorted({}), {}) /\ IsFiniteSet({})
    BY SortsNothing, SortedSorts, FS_EmptySet, ManSorted
  <2>3. Manager(side)!Sorted({}) = <<>>
    <3>1. Cardinality({}) = 0
      BY FS_EmptySet
    <3> QED BY <2>2, <3>1 DEF Sorts
  <2> QED BY <1>1, <2>1, <2>2, <2>3 DEF ManGroups
<1>5. ManTurns(side)
  BY <1>1 DEF ManTurns
<1> QED BY <1>2, <1>3, <1>4, <1>5 DEF ManInv

(* The parts of the invariant that a step leaves alone. *)
LEMMA ManFrame ==
    ASSUME NEW side, ManInv(side)
    PROVE  /\ UNCHANGED <<kind, id, key, short, addr_sessions, sessions>> => ManKeyed(side)'
           /\ UNCHANGED <<kind, id, sessions, raced, mark>> => ManCounted(side)'
           /\ UNCHANGED <<standing, idle>> => ManIdle(side)'
           /\ UNCHANGED <<first, addr_sessions, groups>> => ManGroups(side)'
           /\ UNCHANGED <<served, groups>> => ManTurns(side)'
<1>1. UNCHANGED <<kind, id, key, short, addr_sessions, sessions>> => ManKeyed(side)'
  BY DEF ManInv, ManKeyed
<1>2. UNCHANGED <<kind, id, sessions, raced, mark>> => ManCounted(side)'
  BY DEF ManInv, ManCounted
<1>3. UNCHANGED <<standing, idle>> => ManIdle(side)'
  BY DEF ManInv, ManIdle
<1>4. UNCHANGED <<first, addr_sessions, groups>> => ManGroups(side)'
  BY DEF ManInv, ManGroups, OfName
<1>5. UNCHANGED <<served, groups>> => ManTurns(side)'
  BY DEF ManInv, ManTurns
<1> QED BY <1>1, <1>2, <1>3, <1>4, <1>5

(* A thread reads the counter, or writes it back for a connection of no session. *)
LEMMA ManCount ==
    ASSUME NEW side, Manager(side)!ManagerAssumption, ManInv(side), NEW t \in side.threads,
           Manager(side)!Fetch(t) \/ Manager(side)!CountElsewhere
    PROVE  ManInv(side)'
<1>0. side.sessions \in Nat /\ side.mark \in Nat
  BY SideFacts
<1>1. ManTypes(side) /\ ManCounted(side)
  BY DEF ManInv
<1>2. CASE Manager(side)!Fetch(t)
  <2>1. /\ mark < side.mark /\ counting' = [counting EXCEPT ![t] = mark]
        /\ UNCHANGED <<kind, id, key, standing, up, short, addr_sessions, groups, sessions, mark, raced, first, served, idle>>
    BY <1>2 DEF Manager!Fetch, Manager!containers, Manager!history
  <2>2. mark \in -1 .. side.mark - 1
    BY <2>1, <1>0, <1>1 DEF ManTypes
  <2>3. ManTypes(side)'
    BY <2>1, <2>2, <1>1 DEF ManTypes
  <2> QED BY <2>1, <2>3, ManFrame DEF ManInv
<1>3. CASE Manager(side)!CountElsewhere
  <2>1. /\ "other" \in side.threads /\ counting["other"] # -1 /\ mark' = counting["other"] + 1
        /\ counting' = [counting EXCEPT !["other"] = -1]
        /\ raced' = (raced \/ mark # counting["other"])
        /\ UNCHANGED <<kind, id, key, standing, up, short, addr_sessions, groups, sessions, first, served, idle>>
    BY <1>3 DEF Manager!CountElsewhere, Manager!Count, Manager!containers, Manager!history
  <2>2. counting["other"] \in 0 .. side.mark - 1 /\ mark' \in 0 .. side.mark /\ -1 \in -1 .. side.mark - 1
    BY <2>1, <1>0, <1>1 DEF ManTypes
  <2>3. raced' \in BOOLEAN
    BY <2>1, <1>1 DEF ManTypes
  <2>4. ManTypes(side)'
    BY <2>1, <2>2, <2>3, <1>1 DEF ManTypes
  <2>5. ManCounted(side)'
    <3>1. CASE raced'
      BY <3>1 DEF ManCounted
    <3>2. CASE ~raced'
      <4>0. ~raced /\ mark = counting["other"]
        BY <3>2, <2>1
      <4>1. ~raced /\ mark' = mark + 1 /\ mark \in Nat
        BY <4>0, <2>1, <1>0, <1>1 DEF ManTypes
      <4>2. \A s \in ManSession(side) : id[s] \in Nat
        BY <1>0, <1>1 DEF ManTypes
      <4>3. \A s \in ManSession(side) : kind[s] # "free" => id[s] <= mark'
        BY <4>1, <4>2, <1>1 DEF ManCounted
      <4> QED BY <4>0, <4>3, <2>1, <1>1 DEF ManCounted
    <3> QED BY <3>1, <3>2
  <2> QED BY <2>1, <2>4, <2>5, ManFrame DEF ManInv
<1> QED BY <1>2, <1>3

(* What a step that only changes whether a session is up, and what it says of itself, keeps. *)
LEMMA ManStatus ==
    ASSUME NEW side, Manager(side)!ManagerAssumption, ManInv(side),
           UNCHANGED <<kind, id, key, short, addr_sessions, groups, sessions, mark, counting, raced, first, served>>,
           standing' \in [ManSession(side) -> {"WAITING", "CONNECTED", "TIME_OUT", "CONNECTING", "CLOSED"}],
           up' \in [ManSession(side) -> BOOLEAN], idle' \in [ManSession(side) -> 0 .. 1],
           \A s \in ManSession(side) : standing'[s] = "TIME_OUT" => idle'[s] = 1
    PROVE  ManInv(side)'
<1>1. ManTypes(side)'
  BY DEF ManInv, ManTypes
<1>2. ManIdle(side)'
  BY DEF ManIdle
<1> QED BY <1>1, <1>2, ManFrame DEF ManInv

(* The steps that change no more: a session that is known dials, is closed, comes up, is heard of
   or loses its peer. *)
LEMMA ManStatusSteps ==
    ASSUME NEW side, Manager(side)!ManagerAssumption, ManInv(side),
           \/ \E n \in side.names, a \in side.addrs, reuse \in side.reuse : Manager(side)!DoConnectKnown(n, a, reuse)
           \/ \E n \in side.names : Manager(side)!DoClose(n)
           \/ \E s \in ManSession(side) :
                Manager(side)!Dialled(s) \/ Manager(side)!OnRead(s) \/ Manager(side)!OnPeerClose(s)
    PROVE  ManInv(side)'
<1>0. /\ ManTypes(side) /\ ManIdle(side)
      /\ \A s \in ManSession(side) : standing[s] = "TIME_OUT" => idle[s] = 1
      /\ standing \in [ManSession(side) -> {"WAITING", "CONNECTED", "TIME_OUT", "CONNECTING", "CLOSED"}]
      /\ up \in [ManSession(side) -> BOOLEAN] /\ idle \in [ManSession(side) -> 0 .. 1]
  BY DEF ManInv, ManIdle, ManTypes
<1>1. ASSUME NEW n, NEW a, NEW reuse, Manager(side)!DoConnectKnown(n, a, reuse) PROVE ManInv(side)'
  <2> DEFINE s == Manager(side)!Found(n, a, reuse)
  <2>1. /\ \E st \in {"CONNECTED", "CONNECTING"} : standing' = [standing EXCEPT ![s] = st]
        /\ UNCHANGED <<kind, id, key, short, addr_sessions, groups, sessions, mark, counting, raced, first, served, up, idle>>
    <3> HIDE DEF s
    <3>1. Manager(side)!Reconnect(s)
      BY <1>1 DEF Manager!DoConnectKnown, s
    <3>2. standing' = [standing EXCEPT ![s] = IF up[s] \/ @ = "CONNECTED" THEN "CONNECTED" ELSE "CONNECTING"]
      BY <3>1 DEF Manager!Reconnect
    <3>3. \E st \in {"CONNECTED", "CONNECTING"} : standing' = [standing EXCEPT ![s] = st]
      BY <3>2
    <3>4. UNCHANGED <<kind, id, key, short, addr_sessions, groups, sessions, mark, counting, raced, first, served, up, idle>>
      BY <1>1 DEF Manager!DoConnectKnown, Manager!containers, Manager!ids, Manager!history
    <3> QED BY <3>3, <3>4
  <2> HIDE DEF s
  <2>2. /\ standing' \in [ManSession(side) -> {"WAITING", "CONNECTED", "TIME_OUT", "CONNECTING", "CLOSED"}]
        /\ \A r \in ManSession(side) : standing'[r] = "TIME_OUT" => idle'[r] = 1
    BY <2>1, <1>0
  <2> QED BY <1>0, <2>1, <2>2, ManStatus
<1>2. ASSUME NEW n, Manager(side)!DoClose(n) PROVE ManInv(side)'
  <2>1. PICK s : /\ standing' = [standing EXCEPT ![s] = "CLOSED"] /\ up' = [up EXCEPT ![s] = FALSE]
                 /\ UNCHANGED <<kind, id, key, short, addr_sessions, groups, sessions, mark, counting, raced, first, served, idle>>
    BY <1>2 DEF Manager!DoClose, Manager!containers, Manager!ids, Manager!history
  <2>2. /\ standing' \in [ManSession(side) -> {"WAITING", "CONNECTED", "TIME_OUT", "CONNECTING", "CLOSED"}]
        /\ up' \in [ManSession(side) -> BOOLEAN]
        /\ \A r \in ManSession(side) : standing'[r] = "TIME_OUT" => idle'[r] = 1
    BY <2>1, <1>0
  <2> QED BY <1>0, <2>1, <2>2, ManStatus
<1>3. ASSUME NEW s \in ManSession(side),
             Manager(side)!Dialled(s) \/ Manager(side)!OnRead(s) \/ Manager(side)!OnPeerClose(s)
      PROVE  ManInv(side)'
  <2>1. /\ \E st \in {"CONNECTED", "CLOSED", "WAITING"} : standing' = [standing EXCEPT ![s] = st]
        /\ \E b \in BOOLEAN : up' = up \/ up' = [up EXCEPT ![s] = b]
        /\ idle' = idle \/ idle' = [idle EXCEPT ![s] = 0]
        /\ UNCHANGED <<kind, id, key, short, addr_sessions, groups, sessions, mark, counting, raced, first, served>>
    BY <1>3 DEF Manager!Dialled, Manager!OnRead, Manager!Heard, Manager!OnPeerClose, Manager!containers, Manager!ids,
                Manager!history
  <2>2. standing'[s] # "TIME_OUT"
    BY <2>1, <1>0
  <2>3. /\ standing' \in [ManSession(side) -> {"WAITING", "CONNECTED", "TIME_OUT", "CONNECTING", "CLOSED"}]
        /\ up' \in [ManSession(side) -> BOOLEAN] /\ idle' \in [ManSession(side) -> 0 .. 1]
    BY <2>1, <1>0
  <2>4. \A r \in ManSession(side) : standing'[r] = "TIME_OUT" => idle'[r] = 1
    BY <2>1, <2>2, <1>0
  <2> QED BY <2>1, <2>3, <2>4, ManStatus
<1> QED BY <1>1, <1>2, <1>3

(* The next id, given as long as no increment was lost. *)
LEMMA ManCreate ==
    ASSUME NEW side, Manager(side)!ManagerAssumption, ManInv(side), NEW s \in ManSession(side), NEW t, NEW k, NEW x, NEW st,
           Manager(side)!Create(s, t, k, x, st), k \in {"accepting", "short", "persistent"},
           x \in side.names \cup side.addrs \cup {0}, st \in {"WAITING", "CONNECTING"}
    PROVE  /\ kind[s] = "free" /\ kind' = [kind EXCEPT ![s] = k] /\ key' = [key EXCEPT ![s] = x]
           /\ \E c \in 1 .. side.mark :
                /\ id' = [id EXCEPT ![s] = c] /\ mark' = c
                /\ raced' \/ (~raced /\ c = mark + 1)
           /\ standing' = [standing EXCEPT ![s] = st]
           /\ raced' \in BOOLEAN /\ counting' \in [side.threads -> -1 .. side.mark - 1]
           /\ kind' \in [ManSession(side) -> {"free", "accepting", "accepted", "short", "persistent", "deleted"}]
           /\ id' \in [ManSession(side) -> 0 .. side.mark] /\ mark' \in 0 .. side.mark
           /\ key' \in [ManSession(side) -> side.names \cup side.addrs \cup {0}]
           /\ standing' \in [ManSession(side) -> {"WAITING", "CONNECTED", "TIME_OUT", "CONNECTING", "CLOSED"}]
<1>0. side.sessions \in Nat /\ side.mark \in Nat /\ ManTypes(side)
  BY SideFacts DEF ManInv
<1>1. /\ kind[s] = "free" /\ kind' = [kind EXCEPT ![s] = k] /\ key' = [key EXCEPT ![s] = x]
      /\ standing' = [standing EXCEPT ![s] = st]
      /\ t \in side.threads /\ counting[t] # -1
      /\ mark' = counting[t] + 1 /\ counting' = [counting EXCEPT ![t] = -1]
      /\ raced' = (raced \/ mark # counting[t])
      /\ id' = [id EXCEPT ![s] = counting[t] + 1]
  BY DEF Manager!Create, Manager!Count
<1>2. counting[t] + 1 \in 1 .. side.mark /\ -1 \in -1 .. side.mark - 1
  BY <1>0, <1>1 DEF ManTypes
<1>3. raced' \in BOOLEAN /\ (raced' \/ (~raced /\ mark = counting[t]))
  <2>1. raced' \in BOOLEAN
    BY <1>1
  <2>2. ASSUME ~raced' PROVE ~raced /\ mark = counting[t]
    BY <2>2, <1>1
  <2>3. raced' \/ (~raced /\ mark = counting[t])
    BY <2>2, Zenon
  <2> QED BY <2>1, <2>3
<1>4. PICK c \in 1 .. side.mark : c = counting[t] + 1
  BY <1>2
<1>5. id' = [id EXCEPT ![s] = c] /\ mark' = c /\ c \in 0 .. side.mark
  BY <1>0, <1>1, <1>4
<1>6. raced' \/ (~raced /\ c = mark + 1)
  BY <1>3, <1>4
<1>7. /\ kind' \in [ManSession(side) -> {"free", "accepting", "accepted", "short", "persistent", "deleted"}]
      /\ key' \in [ManSession(side) -> side.names \cup side.addrs \cup {0}]
      /\ standing' \in [ManSession(side) -> {"WAITING", "CONNECTED", "TIME_OUT", "CONNECTING", "CLOSED"}]
  BY <1>0, <1>1 DEF ManTypes
<1>8. id' \in [ManSession(side) -> 0 .. side.mark]
  BY <1>0, <1>5 DEF ManTypes
<1>9. counting' \in [side.threads -> -1 .. side.mark - 1]
  BY <1>0, <1>1, <1>2 DEF ManTypes
<1> QED BY <1>1, <1>3, <1>5, <1>6, <1>7, <1>8, <1>9

(* A session that was just made is the only one with its id. *)
LEMMA ManCounts ==
    ASSUME NEW side, Manager(side)!ManagerAssumption, ManInv(side), NEW s \in ManSession(side), NEW k, kind[s] = "free",
           k # "accepted", kind' = [kind EXCEPT ![s] = k], UNCHANGED sessions,
           NEW c \in 1 .. side.mark, id' = [id EXCEPT ![s] = c], mark' = c, raced' \/ (~raced /\ c = mark + 1)
    PROVE  ManCounted(side)'
<1>0. ManTypes(side) /\ ManCounted(side)
  BY DEF ManInv
<1>1. CASE raced'
  BY <1>1 DEF ManCounted
<1>2. CASE ~raced'
  <2>1. ~raced /\ c = mark + 1 /\ mark \in Nat /\ (\A r \in ManSession(side) : id[r] \in Nat)
    <3>1. side.mark \in Nat
      BY SideFacts
    <3> QED BY <3>1, <1>0, <1>2 DEF ManTypes
  <2>2. \A r \in ManSession(side) : r # s /\ kind[r] # "free" => id[r] <= mark /\ id[r] # c /\ id[r] <= c
    BY <2>1, <1>0 DEF ManCounted
  <2>3. \A r \in ManSession(side) : /\ r # s => kind'[r] = kind[r] /\ id'[r] = id[r]
                                    /\ kind'[s] = k /\ id'[s] = c
    BY <1>0 DEF ManTypes
  <2>4. \A r \in ManSession(side) : kind'[r] # "free" => id'[r] <= mark'
    BY <2>1, <2>2, <2>3
  <2>5. \A r, q \in ManSession(side) : kind'[r] # "free" /\ kind'[q] # "free" /\ id'[r] = id'[q] => r = q
    BY <2>1, <2>2, <2>3, <1>0 DEF ManCounted
  <2>6. \A r \in ManSession(side) : kind'[r] = "accepted" => sessions'[id'[r]] = r
    BY <2>1, <2>3, <1>0 DEF ManCounted
  <2> QED BY <2>4, <2>5, <2>6 DEF ManCounted
<1> QED BY <1>1, <1>2

(* The acceptor's thread makes a session, and the manager's files it under its id. *)
LEMMA ManAccept ==
    ASSUME NEW side, Manager(side)!ManagerAssumption, ManInv(side), NEW s \in ManSession(side),
           Manager(side)!StartAccept(s) \/ Manager(side)!OnAccept(s)
    PROVE  ManInv(side)'
<1>0. /\ side.sessions \in Nat /\ side.mark \in Nat /\ Manager(side)!None = 0
      /\ ManTypes(side) /\ ManKeyed(side) /\ ManCounted(side) /\ ManIdle(side)
  BY SideFacts DEF ManInv
<1>1. CASE Manager(side)!StartAccept(s)
  <2>1. /\ Manager(side)!Create(s, "acceptor", "accepting", 0, "WAITING")
        /\ UNCHANGED <<up, short, addr_sessions, groups, sessions, first, served, idle>>
    BY <1>0, <1>1 DEF Manager!StartAccept, Manager!containers, Manager!history
  <2>2. /\ kind[s] = "free" /\ kind' = [kind EXCEPT ![s] = "accepting"] /\ key' = [key EXCEPT ![s] = 0]
        /\ \E c \in 1 .. side.mark :
             /\ id' = [id EXCEPT ![s] = c] /\ mark' = c
             /\ raced' \/ (~raced /\ c = mark + 1)
        /\ standing' = [standing EXCEPT ![s] = "WAITING"]
        /\ raced' \in BOOLEAN /\ counting' \in [side.threads -> -1 .. side.mark - 1]
        /\ kind' \in [ManSession(side) -> {"free", "accepting", "accepted", "short", "persistent", "deleted"}]
        /\ id' \in [ManSession(side) -> 0 .. side.mark] /\ mark' \in 0 .. side.mark
        /\ key' \in [ManSession(side) -> side.names \cup side.addrs \cup {0}]
        /\ standing' \in [ManSession(side) -> {"WAITING", "CONNECTED", "TIME_OUT", "CONNECTING", "CLOSED"}]
    BY <2>1, ManCreate
  <2>3. PICK c \in 1 .. side.mark : id' = [id EXCEPT ![s] = c] /\ mark' = c /\ (raced' \/ (~raced /\ c = mark + 1))
    BY <2>2
  <2>4. ManTypes(side)'
    BY <1>0, <2>1, <2>2 DEF ManTypes
  <2>5. ManCounted(side)'
    BY <2>1, <2>2, <2>3, ManCounts
  <2>6. ManIdle(side)'
    BY <1>0, <2>1, <2>2 DEF ManIdle, ManTypes
  <2>7. \A r \in ManSession(side) : r # s => kind'[r] = kind[r] /\ id'[r] = id[r] /\ key'[r] = key[r]
    BY <1>0, <2>2, <2>3 DEF ManTypes
  <2>8. kind'[s] = "accepting" /\ id'[s] # 0
    BY <1>0, <2>2, <2>3 DEF ManTypes
  <2>9. /\ \A n \in side.names : short[n] # 0 => short[n] \in ManSession(side) /\ short[n] # s
        /\ \A a \in side.addrs : addr_sessions[a] # 0 => addr_sessions[a] \in ManSession(side) /\ addr_sessions[a] # s
        /\ \A d \in 1 .. side.mark : sessions[d] # 0 => sessions[d] \in ManSession(side) /\ sessions[d] # s
    <3>1. /\ \A n \in side.names : short[n] \in ManSession(side) \cup {0}
          /\ \A a \in side.addrs : addr_sessions[a] \in ManSession(side) \cup {0}
          /\ \A d \in 1 .. side.mark : sessions[d] \in ManSession(side) \cup {0}
      BY <1>0 DEF ManTypes
    <3>2. \A n \in side.names : short[n] # 0 => short[n] # s
      BY <1>0, <2>2 DEF ManKeyed
    <3>3. \A a \in side.addrs : addr_sessions[a] # 0 => addr_sessions[a] # s
      BY <1>0, <2>2 DEF ManKeyed
    <3>4. \A d \in 1 .. side.mark : sessions[d] # 0 => sessions[d] # s
      BY <1>0, <2>2 DEF ManKeyed
    <3> QED BY <3>1, <3>2, <3>3, <3>4
  <2>10. ManKeyed(side)'
    BY <1>0, <2>1, <2>7, <2>8, <2>9 DEF ManKeyed
  <2> QED BY <2>1, <2>4, <2>5, <2>6, <2>10, ManFrame DEF ManInv
<1>2. CASE Manager(side)!OnAccept(s)
  <2>1. /\ kind[s] = "accepting" /\ kind' = [kind EXCEPT ![s] = "accepted"]
        /\ standing' = [standing EXCEPT ![s] = "CONNECTED"] /\ up' = [up EXCEPT ![s] = TRUE]
        /\ sessions' = [sessions EXCEPT ![id[s]] = s]
        /\ UNCHANGED <<id, key, short, addr_sessions, groups, mark, counting, raced, first, served, idle>>
    BY <1>2 DEF Manager!OnAccept, Manager!ids, Manager!history
  <2>2. id[s] \in 1 .. side.mark
    BY <1>0, <2>1 DEF ManKeyed, ManTypes
  <2>3. ManTypes(side)'
    BY <1>0, <2>1, <2>2 DEF ManTypes
  <2>4. ManIdle(side)'
    BY <1>0, <2>1 DEF ManIdle, ManTypes
  <2>5. kind'[s] = "accepted" /\ \A r \in ManSession(side) : r # s => kind'[r] = kind[r]
    BY <1>0, <2>1 DEF ManTypes
  <2>6. sessions'[id[s]] = s /\ \A d \in 1 .. side.mark : d # id[s] => sessions'[d] = sessions[d]
    BY <1>0, <2>1, <2>2 DEF ManTypes
  <2>7. ManCounted(side)'
    BY <1>0, <2>1, <2>5, <2>6, <2>2 DEF ManCounted, ManTypes
  <2>8. /\ \A n \in side.names : short[n] # 0 => short[n] \in ManSession(side) /\ short[n] # s
        /\ \A a \in side.addrs : addr_sessions[a] # 0 => addr_sessions[a] \in ManSession(side) /\ addr_sessions[a] # s
        /\ \A d \in 1 .. side.mark : sessions[d] # 0 => sessions[d] \in ManSession(side) /\ sessions[d] # s
    <3>1. /\ \A n \in side.names : short[n] \in ManSession(side) \cup {0}
          /\ \A a \in side.addrs : addr_sessions[a] \in ManSession(side) \cup {0}
          /\ \A d \in 1 .. side.mark : sessions[d] \in ManSession(side) \cup {0}
      BY <1>0 DEF ManTypes
    <3>2. \A n \in side.names : short[n] # 0 => short[n] # s
      BY <1>0, <2>1 DEF ManKeyed
    <3>3. \A a \in side.addrs : addr_sessions[a] # 0 => addr_sessions[a] # s
      BY <1>0, <2>1 DEF ManKeyed
    <3>4. \A d \in 1 .. side.mark : sessions[d] # 0 => sessions[d] # s
      BY <1>0, <2>1 DEF ManKeyed
    <3> QED BY <3>1, <3>2, <3>3, <3>4
  <2>9. \A d \in 1 .. side.mark : sessions'[d] # 0 => kind'[sessions'[d]] = "accepted" /\ id'[sessions'[d]] = d
    BY <1>0, <2>1, <2>5, <2>6, <2>8 DEF ManKeyed
  <2>10. ManKeyed(side)'
    BY <1>0, <2>1, <2>5, <2>8, <2>9 DEF ManKeyed
  <2> QED BY <2>1, <2>3, <2>4, <2>7, <2>10, ManFrame DEF ManInv
<1> QED BY <1>1, <1>2

(* The periodic check. *)
LEMMA ManCheck ==
    ASSUME NEW side, Manager(side)!ManagerAssumption, ManInv(side), Manager(side)!DoCheckSession
    PROVE  ManInv(side)'
<1>0. /\ side.sessions \in Nat /\ side.mark \in Nat /\ Manager(side)!None = 0 /\ Manager(side)!Session = ManSession(side)
      /\ ManTypes(side) /\ ManKeyed(side) /\ ManCounted(side) /\ ManIdle(side)
  BY SideFacts DEF ManInv
<1> DEFINE Ends(s) == Manager(side)!Ends(s)
<1>1. /\ short' = [n \in side.names |-> IF Ends(short[n]) THEN 0 ELSE short[n]]
      /\ sessions' = [c \in DOMAIN sessions |-> IF Ends(sessions[c]) THEN 0 ELSE sessions[c]]
      /\ kind' = [s \in ManSession(side) |-> IF Ends(s) THEN "deleted" ELSE kind[s]]
      /\ standing' = [s \in ManSession(side) |-> IF Ends(s) THEN "CLOSED"
                                  ELSE IF s \in Manager(side)!Held THEN "TIME_OUT" ELSE standing[s]]
      /\ up' = [s \in ManSession(side) |-> up[s] /\ ~Ends(s)]
      /\ idle' = [s \in ManSession(side) |-> IF s \in Manager(side)!Live /\ idle[s] = 0 THEN 1 ELSE idle[s]]
      /\ UNCHANGED <<id, key, addr_sessions, groups, mark, counting, raced, first, served>>
  BY <1>0 DEF Manager!DoCheckSession, Manager!Erase, Manager!ids, Manager!history
<1>2. \A s \in ManSession(side) : s \in Manager(side)!Held => s \in Manager(side)!Live /\ kind[s] \in {"short", "accepted"}
  <2>1. \A s \in ManSession(side) :
          s \in Manager(side)!Held => (\E n \in side.names : short[n] = s) \/ (\E c \in 1 .. side.mark : sessions[c] = s)
    BY <1>0 DEF Manager!Held, ManTypes
  <2>2. \A s \in ManSession(side) : s # 0
    BY DEF ManSession
  <2>3. \A s \in ManSession(side) : s \in Manager(side)!Held => kind[s] \in {"short", "accepted"}
    BY <2>1, <2>2, <1>0 DEF ManKeyed
  <2> QED BY <2>3, <1>0, SideFacts DEF Manager!Live
<1>3. \A s \in ManSession(side) : Ends(s) => s \in Manager(side)!Held
  BY DEF Manager!Ends
<1> HIDE DEF Ends
<1>4. ManTypes(side)'
  <2>1. DOMAIN sessions = 1 .. side.mark
    BY <1>0 DEF ManTypes
  <2>2. short' \in [side.names -> ManSession(side) \cup {0}] /\ sessions' \in [1 .. side.mark -> ManSession(side) \cup {0}]
    BY <1>0, <1>1, <2>1 DEF ManTypes
  <2>3. /\ kind' \in [ManSession(side) -> {"free", "accepting", "accepted", "short", "persistent", "deleted"}]
        /\ standing' \in [ManSession(side) -> {"WAITING", "CONNECTED", "TIME_OUT", "CONNECTING", "CLOSED"}]
        /\ up' \in [ManSession(side) -> BOOLEAN] /\ idle' \in [ManSession(side) -> 0 .. 1]
    BY <1>0, <1>1 DEF ManTypes
  <2> QED BY <1>0, <1>1, <2>2, <2>3 DEF ManTypes
<1>5. \A s \in ManSession(side) : standing'[s] = "TIME_OUT" => idle'[s] = 1
  <2>1. TAKE s \in ManSession(side)
  <2>2. CASE Ends(s)
    BY <2>2, <1>1
  <2>3. CASE ~Ends(s) /\ s \in Manager(side)!Held
    <3>1. idle[s] \in 0 .. 1 /\ s \in Manager(side)!Live
      BY <1>0, <1>2, <2>3 DEF ManTypes
    <3> QED BY <3>1, <1>1
  <2>4. CASE ~Ends(s) /\ s \notin Manager(side)!Held
    <3>1. standing'[s] = standing[s]
      BY <1>1, <2>4
    <3>2. idle[s] = 1 => idle'[s] = 1
      BY <1>1
    <3> QED BY <3>1, <3>2, <1>0 DEF ManIdle
  <2> QED BY <2>2, <2>3, <2>4
<1>6. \A s \in ManSession(side) : s # 0 /\ kind'[s] = (IF Ends(s) THEN "deleted" ELSE kind[s]) /\ (Ends(s) => kind[s] \in {"short", "accepted"})
  BY <1>1, <1>2, <1>3 DEF ManSession
<1>7. \A n \in side.names : /\ short[n] \in ManSession(side) \cup {0}
                            /\ short'[n] = (IF Ends(short[n]) THEN 0 ELSE short[n])
  BY <1>0, <1>1 DEF ManTypes
<1>8. \A c \in 1 .. side.mark : /\ sessions[c] \in ManSession(side) \cup {0}
                                /\ sessions'[c] = (IF Ends(sessions[c]) THEN 0 ELSE sessions[c])
  BY <1>0, <1>1 DEF ManTypes
<1>9. ManKeyed(side)'
  <2>1. \A n \in side.names : short'[n] # 0 => kind'[short'[n]] = "short" /\ key'[short'[n]] = n
    BY <1>0, <1>1, <1>6, <1>7 DEF ManKeyed
  <2>2. \A a \in side.addrs : addr_sessions'[a] # 0 => kind'[addr_sessions'[a]] = "persistent" /\ key'[addr_sessions'[a]] = a
    <3>1. \A a \in side.addrs : addr_sessions[a] \in ManSession(side) \cup {0}
      BY <1>0 DEF ManTypes
    <3> QED BY <3>1, <1>0, <1>1, <1>6 DEF ManKeyed
  <2>3. \A c \in 1 .. side.mark : sessions'[c] # 0 => kind'[sessions'[c]] = "accepted" /\ id'[sessions'[c]] = c
    BY <1>0, <1>1, <1>6, <1>8 DEF ManKeyed
  <2>4. ASSUME NEW s \in ManSession(side)
        PROVE  /\ kind'[s] = "short" => key'[s] \in side.names /\ short'[key'[s]] = s
               /\ kind'[s] = "persistent" => key'[s] \in side.addrs /\ addr_sessions'[key'[s]] = s
               /\ kind'[s] # "free" => id'[s] # 0
    <3>1. kind'[s] = "short" => key[s] \in side.names /\ short[key[s]] = s /\ ~Ends(s)
      BY <1>0, <1>6 DEF ManKeyed
    <3>2. kind'[s] = "short" => key'[s] \in side.names /\ short'[key'[s]] = s
      BY <3>1, <1>1, <1>7
    <3>3. kind'[s] = "persistent" => key'[s] \in side.addrs /\ addr_sessions'[key'[s]] = s
      BY <1>0, <1>1, <1>6 DEF ManKeyed
    <3>4. kind'[s] # "free" => id'[s] # 0
      BY <1>0, <1>1, <1>6 DEF ManKeyed
    <3> QED BY <3>2, <3>3, <3>4
  <2> QED BY <2>1, <2>2, <2>3, <2>4 DEF ManKeyed
<1>10. ManCounted(side)'
  <2>1. CASE raced
    BY <2>1, <1>1 DEF ManCounted
  <2>2. CASE ~raced
    <3>1. \A s \in ManSession(side) : kind'[s] # "free" => kind[s] # "free"
      BY <1>6
    <3>2. ASSUME NEW s \in ManSession(side), kind'[s] = "accepted" PROVE sessions'[id'[s]] = s
      <4>1. kind[s] = "accepted" /\ ~Ends(s) /\ sessions[id[s]] = s
        BY <3>2, <2>2, <1>0, <1>6 DEF ManCounted
      <4>2. id[s] \in 1 .. side.mark
        BY <4>1, <1>0 DEF ManKeyed, ManTypes
      <4> QED BY <4>1, <4>2, <1>1, <1>8
    <3> QED BY <3>1, <3>2, <2>2, <1>0, <1>1 DEF ManCounted
  <2> QED BY <2>1, <2>2
<1>11. ManIdle(side)'
  BY <1>5 DEF ManIdle
<1> QED BY <1>1, <1>4, <1>9, <1>10, <1>11, ManFrame DEF ManInv

(* more is the last size of a list with m, and a behind them. *)
Lasts(more, list, a, size, m, S) ==
    /\ more \in Seq(S)
    /\ m < size => /\ Len(more) = m + 1 /\ more[m + 1] = a
                   /\ \A i \in 1 .. m : more[i] = list[i]
    /\ m = size => /\ Len(more) = m /\ more[m] = a
                   /\ \A i \in 1 .. m - 1 : more[i] = list[i + 1]

(* That is what Latest keeps. *)
LEMMA ManLatest ==
    ASSUME NEW side, NEW S, NEW list \in Seq(S), NEW a \in S, NEW size \in Nat \ {0}, NEW m \in 0 .. size, Len(list) = m,
           NEW more, more = Manager(side)!Latest(Append(list, a), size)
    PROVE  Lasts(more, list, a, size, m, S)
<1> DEFINE longer == Append(list, a)
<1>1. /\ longer \in Seq(S) /\ Len(longer) = m + 1 /\ longer[m + 1] = a
      /\ \A i \in 1 .. m : longer[i] = list[i]
  BY AppendFacts
<1>2. more = SubSeq(longer, IF Len(longer) > size THEN Len(longer) - size + 1 ELSE 1, Len(longer))
  BY DEF Manager!Latest
<1> HIDE DEF longer
<1>3. CASE m < size
  <2>1. more = SubSeq(longer, 1, m + 1)
    BY <1>1, <1>2, <1>3
  <2>2. more \in Seq(S) /\ Len(more) = m + 1 /\ \A i \in 1 .. m + 1 : more[i] = longer[i]
    BY <1>1, <2>1
  <2> QED BY <1>1, <1>3, <2>2 DEF Lasts
<1>4. CASE m = size
  <2>0. Len(longer) > size /\ Len(longer) - size + 1 = 2
    BY <1>1, <1>4
  <2>1. more = SubSeq(longer, 2, m + 1)
    BY <1>1, <1>2, <2>0
  <2>2. more \in Seq(S) /\ Len(more) = m /\ \A i \in 1 .. m : more[i] = longer[i + 1]
    BY <1>1, <1>4, <2>1
  <2> QED BY <1>1, <1>4, <2>2 DEF Lasts
<1> QED BY <1>3, <1>4

(* The next of a group is sent to. *)
LEMMA ManSend ==
    ASSUME NEW side, Manager(side)!ManagerAssumption, ManInv(side), NEW n \in side.names, Manager(side)!DoSendTo(n)
    PROVE  ManInv(side)'
<1>0. ManTypes(side) /\ ManGroups(side) /\ ManTurns(side) /\ ManIdle(side)
  BY DEF ManInv
<1> DEFINE addrs == groups[n].addrs
           current == groups[n].current
           turn == IF current >= Len(addrs) THEN 0 ELSE current
<1>1. /\ addrs # <<>>
      /\ groups' = [groups EXCEPT ![n].current = turn + 1]
      /\ served' = [served EXCEPT ![n] = Manager(side)!Latest(Append(served[n], addrs[turn + 1]), Len(addrs))]
      /\ UNCHANGED <<kind, id, key, standing, up, short, addr_sessions, sessions, mark, counting, raced, first, idle>>
  BY DEF Manager!DoSendTo, Manager!Known, Manager!Turn, Manager!Advance, Manager!ids
<1>2. /\ groups \in [side.names -> [addrs : Seq(side.addrs), current : Nat]]
      /\ served \in [side.names -> Seq(side.addrs)]
      /\ addrs \in Seq(side.addrs) /\ current \in Nat
  BY <1>0 DEF ManTypes
<1>3. PICK size \in Nat \ {0} : Len(addrs) = size
  BY <1>1, <1>2
<1>4. PICK m \in 0 .. size : Len(served[n]) = m
  <2>1. Len(served[n]) \in Nat /\ Len(served[n]) <= size
    BY <1>0, <1>2, <1>3 DEF ManTurns
  <2> QED BY <2>1
<1>5. PICK c \in 0 .. size : current = c
  BY <1>0, <1>2, <1>3 DEF ManTurns
<1>6. /\ turn = (IF c = size THEN 0 ELSE c) /\ turn + 1 \in 1 .. size
      /\ turn + 1 = (IF c = size THEN 1 ELSE c + 1)
  BY <1>3, <1>5
<1>7. PICK a \in side.addrs : a = addrs[turn + 1]
  <2> HIDE DEF turn, addrs
  <2> QED BY <1>2, <1>3, <1>6
<1>8. /\ \A k \in side.names : k # n => groups'[k] = groups[k] /\ served'[k] = served[k]
      /\ groups'[n].addrs = addrs /\ groups'[n].current = turn + 1
      /\ groups' \in [side.names -> [addrs : Seq(side.addrs), current : Nat]]
  <2>1. turn + 1 \in Nat
    BY <1>6
  <2> HIDE DEF turn
  <2> QED BY <1>1, <1>2, <2>1
<1>9. /\ served'[n] = Manager(side)!Latest(Append(served[n], a), size)
  BY <1>1, <1>2, <1>3, <1>7
<1>10. /\ served'[n] \in Seq(side.addrs)
       /\ m < size => /\ Len(served'[n]) = m + 1 /\ served'[n][m + 1] = a
                      /\ \A i \in 1 .. m : served'[n][i] = served[n][i]
       /\ m = size => /\ Len(served'[n]) = m /\ served'[n][m] = a
                      /\ \A i \in 1 .. m - 1 : served'[n][i] = served[n][i + 1]
  <2>1. PICK list \in Seq(side.addrs) : list = served[n]
    BY <1>2
  <2>2. PICK more : more = Manager(side)!Latest(Append(list, a), size)
    OBVIOUS
  <2>3. Lasts(more, list, a, size, m, side.addrs)
    <3>1. Len(list) = m
      BY <1>4, <2>1
    <3>2. list \in Seq(side.addrs) /\ a \in side.addrs /\ size \in Nat \ {0} /\ m \in 0 .. size
      BY <1>3, <1>4, <1>7, <2>1
    <3> HIDE DEF turn, addrs, current
    <3> QED BY <2>2, <3>1, <3>2, ManLatest, Zenon
  <2>4. served'[n] = more
    BY <1>9, <2>1, <2>2, SMTT(30)
  <2> QED BY <2>1, <2>3, <2>4 DEF Lasts
<1>11. served' \in [side.names -> Seq(side.addrs)]
  BY <1>1, <1>2, <1>10
<1>12. ManTypes(side)'
  BY <1>0, <1>1, <1>8, <1>11 DEF ManTypes
<1>13. ManGroups(side)'
  <2>1. \A k \in side.names : groups'[k].addrs = groups[k].addrs /\ OfName(side, k)' = OfName(side, k)
    BY <1>1, <1>8 DEF OfName
  <2> QED BY <2>1, <1>0, <1>1 DEF ManGroups
<1>14. /\ \A i \in 1 .. m : /\ TurnAt(c, m, size, i) \in 1 .. size
                            /\ served[n][i] = addrs[TurnAt(c, m, size, i)]
  BY <1>0, <1>3, <1>4, <1>5 DEF ManTurns
<1> HIDE DEF turn, addrs, current
<1>15. PICK d \in 1 .. size : d = turn + 1 /\ d = (IF c = size THEN 1 ELSE c + 1) /\ groups'[n].current = d
  BY <1>6, <1>8
<1>16. Len(served'[n]) = (IF m < size THEN m + 1 ELSE m) /\ Len(groups'[n].addrs) = size
  BY <1>3, <1>8, <1>10
<1>17. ASSUME NEW i \in 1 .. Len(served'[n])
       PROVE  /\ TurnAt(d, Len(served'[n]), size, i) \in 1 .. size
              /\ served'[n][i] = addrs[TurnAt(d, Len(served'[n]), size, i)]
  <2>1. CASE m < size
    <3>1. Len(served'[n]) = m + 1 /\ i \in 1 .. m + 1
      BY <2>1, <1>10
    <3>2. CASE i <= m
      <4>1. i \in 1 .. m /\ served'[n][i] = served[n][i]
        BY <3>1, <3>2, <2>1, <1>10
      <4>2. TurnAt(d, m + 1, size, i) = TurnAt(c, m, size, i)
        <5>1. TurnAt(c, m, size, i) \in 1 .. size
          BY <4>1, <1>14
        <5> QED BY <5>1, <4>1, <2>1, <1>15 DEF TurnAt
      <4> QED BY <3>1, <4>1, <4>2, <1>14
    <3>3. CASE i = m + 1
      <4>1. TurnAt(d, m + 1, size, i) = d
        BY <3>3 DEF TurnAt
      <4> QED BY <3>1, <3>3, <4>1, <2>1, <1>7, <1>10, <1>15
    <3> QED BY <3>1, <3>2, <3>3
  <2>2. CASE m = size
    <3>1. Len(served'[n]) = m /\ i \in 1 .. m
      BY <2>2, <1>10
    <3>2. CASE i < m
      <4>1. i \in 1 .. m - 1 /\ i + 1 \in 1 .. m /\ served'[n][i] = served[n][i + 1]
        BY <3>1, <3>2, <2>2, <1>10
      <4>2. TurnAt(d, m, size, i) = TurnAt(c, m, size, i + 1)
        <5>1. TurnAt(c, m, size, i + 1) \in 1 .. size
          BY <4>1, <1>14
        <5> QED BY <5>1, <4>1, <2>2, <1>15 DEF TurnAt
      <4> QED BY <3>1, <4>1, <4>2, <1>14
    <3>3. CASE i = m
      <4>1. TurnAt(d, m, size, i) = d
        BY <3>3 DEF TurnAt
      <4> QED BY <3>1, <3>3, <4>1, <2>2, <1>7, <1>10, <1>15
    <3> QED BY <3>1, <3>2, <3>3
  <2> QED BY <2>1, <2>2
<1>18. ManTurns(side)'
  <2>1. ASSUME NEW k \in side.names
        PROVE  /\ Len(served'[k]) <= Len(groups'[k].addrs) /\ groups'[k].current <= Len(groups'[k].addrs)
               /\ \A i \in 1 .. Len(served'[k]) :
                    LET place == TurnAt(groups'[k].current, Len(served'[k]), Len(groups'[k].addrs), i)
                    IN  /\ place \in 1 .. Len(groups'[k].addrs)
                        /\ served'[k][i] = groups'[k].addrs[place]
    <3>1. CASE k # n
      BY <3>1, <1>0, <1>8 DEF ManTurns
    <3>2. CASE k = n
      <4>1. Len(served'[n]) <= size /\ d <= size
        BY <1>16
      <4>2. groups'[n].addrs = addrs
        BY <1>8 DEF addrs
      <4> QED BY <3>2, <4>1, <4>2, <1>15, <1>16, <1>17
    <3> QED BY <3>1, <3>2
  <2> QED BY <2>1 DEF ManTurns
<1> QED BY <1>1, <1>12, <1>13, <1>18, ManFrame DEF ManInv

(* A session is opened for a name, short, or persistent at an address that has none. *)
LEMMA ManConnect ==
    ASSUME NEW side, Manager(side)!ManagerAssumption, ManInv(side), NEW n \in side.names, NEW a \in side.addrs,
           NEW reuse \in side.reuse, NEW s \in ManSession(side), Manager(side)!DoConnectNew(n, a, reuse, s)
    PROVE  ManInv(side)'
<1>0. /\ side.sessions \in Nat /\ side.mark \in Nat /\ Manager(side)!None = 0
      /\ 0 \notin side.names /\ side.addrs \subseteq Nat \ {0}
      /\ ManTypes(side) /\ ManKeyed(side) /\ ManCounted(side) /\ ManIdle(side) /\ ManGroups(side) /\ ManTurns(side)
  BY SideFacts DEF ManInv
<1> DEFINE k == IF reuse THEN "persistent" ELSE "short"
           x == IF reuse THEN a ELSE n
<1>1. /\ Manager(side)!Create(s, "manager", k, x, "CONNECTING")
      /\ UNCHANGED <<up, sessions, idle>>
      /\ reuse => addr_sessions[a] = 0 /\ Manager(side)!AddSession(n, a, s) /\ first' = [first EXCEPT ![a] = n] /\ UNCHANGED short
      /\ ~reuse => short[n] = 0 /\ short' = [short EXCEPT ![n] = s] /\ UNCHANGED <<addr_sessions, groups, first, served>>
  BY <1>0 DEF Manager!DoConnectNew, Manager!Found
<1>2. k \in {"accepting", "short", "persistent"} /\ k \notin {"free", "accepted", "deleted"} /\ x \in side.names \cup side.addrs \cup {0}
  OBVIOUS
<1> HIDE DEF k, x
<1>3. /\ kind[s] = "free" /\ kind' = [kind EXCEPT ![s] = k] /\ key' = [key EXCEPT ![s] = x]
      /\ \E c \in 1 .. side.mark :
           /\ id' = [id EXCEPT ![s] = c] /\ mark' = c
           /\ raced' \/ (~raced /\ c = mark + 1)
      /\ standing' = [standing EXCEPT ![s] = "CONNECTING"]
      /\ raced' \in BOOLEAN /\ counting' \in [side.threads -> -1 .. side.mark - 1]
      /\ kind' \in [ManSession(side) -> {"free", "accepting", "accepted", "short", "persistent", "deleted"}]
      /\ id' \in [ManSession(side) -> 0 .. side.mark] /\ mark' \in 0 .. side.mark
      /\ key' \in [ManSession(side) -> side.names \cup side.addrs \cup {0}]
      /\ standing' \in [ManSession(side) -> {"WAITING", "CONNECTED", "TIME_OUT", "CONNECTING", "CLOSED"}]
  BY <1>1, <1>2, ManCreate
<1>4. PICK c \in 1 .. side.mark : id' = [id EXCEPT ![s] = c] /\ mark' = c /\ (raced' \/ (~raced /\ c = mark + 1))
  BY <1>3
<1>5. ManCounted(side)'
  BY <1>1, <1>2, <1>3, <1>4, ManCounts
<1>6. ManIdle(side)'
  BY <1>0, <1>1, <1>3 DEF ManIdle, ManTypes
<1>7. /\ \A r \in ManSession(side) : r # s => kind'[r] = kind[r] /\ id'[r] = id[r] /\ key'[r] = key[r]
      /\ kind'[s] = k /\ key'[s] = x /\ id'[s] # 0 /\ s # 0
  BY <1>0, <1>3, <1>4 DEF ManTypes, ManSession
<1>8. /\ \A m \in side.names : short[m] \in ManSession(side) \cup {0}
      /\ \A b \in side.addrs : addr_sessions[b] \in ManSession(side) \cup {0}
      /\ \A d \in 1 .. side.mark : sessions[d] \in ManSession(side) \cup {0}
  BY <1>0 DEF ManTypes
<1>9. /\ \A m \in side.names : short[m] # s
      /\ \A b \in side.addrs : addr_sessions[b] # s
      /\ \A d \in 1 .. side.mark : sessions[d] # s
  <2>1. \A m \in side.names : short[m] # s
    BY <1>0, <1>3, <1>7 DEF ManKeyed
  <2>2. \A b \in side.addrs : addr_sessions[b] # s
    BY <1>0, <1>3, <1>7 DEF ManKeyed
  <2>3. \A d \in 1 .. side.mark : sessions[d] # s
    BY <1>0, <1>3, <1>7 DEF ManKeyed
  <2> QED BY <2>1, <2>2, <2>3
<1>10. \A d \in 1 .. side.mark : sessions'[d] # 0 => kind'[sessions'[d]] = "accepted" /\ id'[sessions'[d]] = d
  BY <1>0, <1>1, <1>7, <1>8, <1>9 DEF ManKeyed
<1>11. CASE ~reuse
  <2>0. k = "short" /\ x = n
    BY <1>11 DEF k, x
  <2>1. short[n] = 0 /\ short' = [short EXCEPT ![n] = s] /\ UNCHANGED <<addr_sessions, groups, first, served>>
    BY <1>1, <1>11
  <2>2. ManTypes(side)'
    <3>1. short' \in [side.names -> ManSession(side) \cup {0}]
      BY <1>0, <2>1 DEF ManTypes
    <3> QED BY <3>1, <1>0, <1>1, <1>3, <2>1 DEF ManTypes
  <2>3. /\ short'[n] = s /\ \A m \in side.names : m # n => short'[m] = short[m]
    BY <1>0, <2>1 DEF ManTypes
  <2>4. \A m \in side.names : short'[m] # 0 => kind'[short'[m]] = "short" /\ key'[short'[m]] = m
    BY <1>0, <1>7, <1>8, <1>9, <2>0, <2>3 DEF ManKeyed
  <2>5. \A b \in side.addrs : addr_sessions'[b] # 0 => kind'[addr_sessions'[b]] = "persistent" /\ key'[addr_sessions'[b]] = b
    BY <1>0, <1>7, <1>8, <1>9, <2>1 DEF ManKeyed
  <2>6. ASSUME NEW r \in ManSession(side)
        PROVE  /\ kind'[r] = "short" => key'[r] \in side.names /\ short'[key'[r]] = r
               /\ kind'[r] = "persistent" => key'[r] \in side.addrs /\ addr_sessions'[key'[r]] = r
               /\ kind'[r] # "free" => id'[r] # 0
    <3>1. CASE r = s
      BY <3>1, <1>7, <2>0, <2>3
    <3>2. CASE r # s
      <4>1. kind'[r] = kind[r] /\ id'[r] = id[r] /\ key'[r] = key[r]
        BY <3>2, <1>7
      <4>2. /\ kind[r] = "short" => key[r] \in side.names /\ short[key[r]] = r /\ key[r] # n
            /\ kind[r] = "persistent" => key[r] \in side.addrs /\ addr_sessions[key[r]] = r
            /\ kind[r] # "free" => id[r] # 0
        <5>1. r # 0
          BY <1>0 DEF ManSession
        <5> QED BY <5>1, <1>0, <2>1 DEF ManKeyed
      <4> QED BY <4>1, <4>2, <2>1, <2>3
    <3> QED BY <3>1, <3>2
  <2>7. ManKeyed(side)'
    BY <1>10, <2>4, <2>5, <2>6 DEF ManKeyed
  <2> QED BY <1>5, <1>6, <2>1, <2>2, <2>7, ManFrame DEF ManInv
<1>12. CASE reuse
  <2>0. k = "persistent" /\ x = a
    BY <1>12 DEF k, x
  <2>1. /\ addr_sessions[a] = 0 /\ first' = [first EXCEPT ![a] = n] /\ UNCHANGED short
        /\ Manager(side)!AddSession(n, a, s)
    BY <1>1, <1>12
  <2> DEFINE set == OfName(side, n)
  <2>2. /\ IsFiniteSet(set) /\ Sorts(groups[n].addrs, set) /\ set \in SUBSET side.addrs /\ set \in SUBSET Nat
        /\ groups \in [side.names -> [addrs : Seq(side.addrs), current : Nat]]
    BY <1>0 DEF ManGroups, OfName, ManTypes
  <2>3. first[a] = 0 /\ a \notin set /\ a \in Nat
    BY <1>0, <2>1 DEF ManGroups, OfName
  <2>4. /\ groups[n].addrs \in Seq(set) /\ Len(groups[n].addrs) = Cardinality(set) /\ Cardinality(set) \in Nat
        /\ {groups[n].addrs[i] : i \in DOMAIN groups[n].addrs} = set
    <3> HIDE DEF set
    <3>1. PICK list : list = groups[n].addrs
      OBVIOUS
    <3>2. /\ list \in Seq(set) /\ Len(list) = Cardinality(set) /\ Len(list) \in Nat
          /\ {list[i] : i \in DOMAIN list} = set
      BY <2>2, <3>1, SortsFacts
    <3> QED BY <3>1, <3>2
  <2> DEFINE more == Manager(side)!Sorted(set \cup {a})
  <2>5. /\ addr_sessions' = [addr_sessions EXCEPT ![a] = s]
        /\ groups' = [groups EXCEPT ![n].addrs = more]
        /\ served' = [served EXCEPT ![n] = <<>>]
    <3> HIDE DEF set
    <3> QED BY <1>0, <2>1, <2>3, <2>4 DEF Manager!AddSession
  <2>6. Sorts(more, set \cup {a}) /\ IsFiniteSet(set \cup {a})
    <3> HIDE DEF set
    <3>1. PICK l : Sorts(l, set \cup {a})
      BY <2>2, <2>3, SortsMore
    <3>2. IsFiniteSet(set \cup {a})
      BY <2>2, FS_AddElement
    <3> QED BY <3>1, <3>2, SortedSorts, ManSorted
  <2>7. more \in Seq(side.addrs) /\ Len(more) = Cardinality(set) + 1
    <3> HIDE DEF set, more
    <3>1. set \cup {a} \in SUBSET Nat /\ set \cup {a} \in SUBSET side.addrs
      BY <2>2, <2>3
    <3>2. more \in Seq(set \cup {a}) /\ Len(more) = Cardinality(set \cup {a})
      BY <2>6, <3>1, SortsFacts
    <3>3. Cardinality(set \cup {a}) = Cardinality(set) + 1
      BY <2>2, <2>3, FS_AddElement
    <3> QED BY <3>1, <3>2, <3>3
  <2>8. /\ \A m \in side.names : m # n => groups'[m] = groups[m] /\ served'[m] = served[m]
        /\ groups'[n].addrs = more /\ groups'[n].current = groups[n].current /\ served'[n] = <<>>
        /\ groups' \in [side.names -> [addrs : Seq(side.addrs), current : Nat]]
        /\ served' \in [side.names -> Seq(side.addrs)]
    <3> HIDE DEF set, more
    <3>1. served \in [side.names -> Seq(side.addrs)]
      BY <1>0 DEF ManTypes
    <3>2. groups' \in [side.names -> [addrs : Seq(side.addrs), current : Nat]]
      BY <2>2, <2>5, <2>7
    <3>3. served' \in [side.names -> Seq(side.addrs)]
      BY <2>5, <3>1
    <3>4. /\ \A m \in side.names : m # n => groups'[m] = groups[m] /\ served'[m] = served[m]
          /\ groups'[n].addrs = more /\ groups'[n].current = groups[n].current /\ served'[n] = <<>>
      BY <2>2, <2>5, <3>1
    <3> QED BY <3>2, <3>3, <3>4
  <2> HIDE DEF more
  <2>9. ManTypes(side)'
    <3>1. addr_sessions' \in [side.addrs -> ManSession(side) \cup {0}] /\ first' \in [side.addrs -> side.names \cup {0}]
      BY <1>0, <2>1, <2>5 DEF ManTypes
    <3> QED BY <3>1, <1>0, <1>1, <1>3, <2>1, <2>8 DEF ManTypes
  <2>10. /\ addr_sessions'[a] = s /\ first'[a] = n
         /\ \A b \in side.addrs : b # a => addr_sessions'[b] = addr_sessions[b] /\ first'[b] = first[b]
    BY <1>0, <2>1, <2>5 DEF ManTypes
  <2>11. \A m \in side.names : short'[m] # 0 => kind'[short'[m]] = "short" /\ key'[short'[m]] = m
    BY <1>0, <1>7, <1>8, <1>9, <2>1 DEF ManKeyed
  <2>12. \A b \in side.addrs : addr_sessions'[b] # 0 => kind'[addr_sessions'[b]] = "persistent" /\ key'[addr_sessions'[b]] = b
    BY <1>0, <1>7, <1>8, <1>9, <2>0, <2>10 DEF ManKeyed
  <2>13. ASSUME NEW r \in ManSession(side)
         PROVE  /\ kind'[r] = "short" => key'[r] \in side.names /\ short'[key'[r]] = r
                /\ kind'[r] = "persistent" => key'[r] \in side.addrs /\ addr_sessions'[key'[r]] = r
                /\ kind'[r] # "free" => id'[r] # 0
    <3>1. CASE r = s
      BY <3>1, <1>7, <2>0, <2>10
    <3>2. CASE r # s
      <4>1. kind'[r] = kind[r] /\ id'[r] = id[r] /\ key'[r] = key[r]
        BY <3>2, <1>7
      <4>2. /\ kind[r] = "short" => key[r] \in side.names /\ short[key[r]] = r
            /\ kind[r] = "persistent" => key[r] \in side.addrs /\ addr_sessions[key[r]] = r /\ key[r] # a
            /\ kind[r] # "free" => id[r] # 0
        <5>1. r # 0
          BY <1>0 DEF ManSession
        <5> QED BY <5>1, <1>0, <2>1 DEF ManKeyed
      <4> QED BY <4>1, <4>2, <2>1, <2>10
    <3> QED BY <3>1, <3>2
  <2>14. ManKeyed(side)'
    BY <1>10, <2>11, <2>12, <2>13 DEF ManKeyed
  <2>15. ManGroups(side)'
    <3>1. \A b \in side.addrs : first'[b] = 0 <=> addr_sessions'[b] = 0
      BY <1>0, <1>7, <2>10 DEF ManGroups
    <3>2. OfName(side, n)' = set \cup {a}
      BY <2>10 DEF OfName
    <3>3. \A m \in side.names : m # n => OfName(side, m)' = OfName(side, m)
      BY <1>0, <2>3, <2>10 DEF OfName
    <3> HIDE DEF set
    <3>4. ASSUME NEW m \in side.names
          PROVE  /\ IsFiniteSet(OfName(side, m)') /\ Sorts(groups'[m].addrs, OfName(side, m)')
                 /\ groups'[m].addrs = Manager(side)!Sorted(OfName(side, m)')
      <4>1. CASE m = n
        BY <4>1, <3>2, <2>6, <2>8 DEF more
      <4>2. CASE m # n
        BY <4>2, <3>3, <2>8, <1>0 DEF ManGroups
      <4> QED BY <4>1, <4>2
    <3> QED BY <3>1, <3>4 DEF ManGroups
  <2>16. ManTurns(side)'
    <3> HIDE DEF set
    <3>1. ASSUME NEW m \in side.names
          PROVE  /\ Len(served'[m]) <= Len(groups'[m].addrs) /\ groups'[m].current <= Len(groups'[m].addrs)
                 /\ \A i \in 1 .. Len(served'[m]) :
                      LET turn == TurnAt(groups'[m].current, Len(served'[m]), Len(groups'[m].addrs), i)
                      IN  /\ turn \in 1 .. Len(groups'[m].addrs)
                          /\ served'[m][i] = groups'[m].addrs[turn]
      <4>1. CASE m # n
        <5>1. groups'[m] = groups[m] /\ served'[m] = served[m]
          BY <4>1, <2>8
        <5> QED BY <5>1, <1>0 DEF ManTurns
      <4>2. CASE m = n
        <5>1. groups[n].current <= Cardinality(set) /\ groups[n].current \in Nat
          BY <1>0, <2>2, <2>4 DEF ManTurns
        <5>2. groups'[n].current <= Len(groups'[n].addrs) /\ Len(served'[n]) = 0 /\ 0 <= Len(groups'[n].addrs)
          BY <5>1, <2>4, <2>7, <2>8
        <5> QED BY <4>2, <5>2
      <4> QED BY <4>1, <4>2
    <3> QED BY <3>1 DEF ManTurns
  <2> QED BY <1>5, <1>6, <2>9, <2>14, <2>15, <2>16 DEF ManInv
<1>13. reuse \in BOOLEAN
  BY DEF Manager!ManagerAssumption
<1> QED BY <1>11, <1>12, <1>13

(* Every step of a manager keeps the invariant. *)
LEMMA ManStep ==
    ASSUME NEW side, Manager(side)!ManagerAssumption, ManInv(side), [Manager(side)!Next]_(Manager(side)!vars)
    PROVE  ManInv(side)'
<1>0. Manager(side)!Session = ManSession(side)
  BY SideFacts
<1>1. CASE UNCHANGED Manager(side)!vars
  <2>1. UNCHANGED <<kind, id, key, standing, up, short, addr_sessions, groups, sessions, mark, counting, raced, first, served, idle>>
    BY <1>1 DEF Manager!vars, Manager!containers, Manager!ids, Manager!history
  <2>2. ManTypes(side)'
    BY <2>1 DEF ManInv, ManTypes
  <2> QED BY <2>1, <2>2, ManFrame DEF ManInv
<1>2. ASSUME NEW t \in side.threads, Manager(side)!Fetch(t) PROVE ManInv(side)'
  BY <1>2, ManCount
<1>3. CASE Manager(side)!CountElsewhere
  <2>1. "other" \in side.threads
    BY <1>3 DEF Manager!CountElsewhere, Manager!Count
  <2> QED BY <1>3, <2>1, ManCount
<1>4. CASE Manager(side)!DoCheckSession
  BY <1>4, ManCheck
<1>5. ASSUME NEW n \in side.names, Manager(side)!DoSendTo(n) PROVE ManInv(side)'
  BY <1>5, ManSend
<1>6. ASSUME NEW n \in side.names, Manager(side)!DoClose(n) PROVE ManInv(side)'
  BY <1>6, ManStatusSteps
<1>7. ASSUME NEW n \in side.names, NEW a \in side.addrs, NEW reuse \in side.reuse,
             Manager(side)!DoConnectKnown(n, a, reuse)
      PROVE  ManInv(side)'
  BY <1>7, ManStatusSteps
<1>8. ASSUME NEW n \in side.names, NEW a \in side.addrs, NEW reuse \in side.reuse, NEW s \in ManSession(side),
             Manager(side)!DoConnectNew(n, a, reuse, s)
      PROVE  ManInv(side)'
  BY <1>8, ManConnect
<1>9. ASSUME NEW s \in ManSession(side), Manager(side)!StartAccept(s) \/ Manager(side)!OnAccept(s) PROVE ManInv(side)'
  BY <1>9, ManAccept
<1>10. ASSUME NEW s \in ManSession(side), Manager(side)!Dialled(s) \/ Manager(side)!OnRead(s) \/ Manager(side)!OnPeerClose(s)
       PROVE  ManInv(side)'
  BY <1>10, ManStatusSteps
<1> QED BY <1>0, <1>1, <1>2, <1>3, <1>4, <1>5, <1>6, <1>7, <1>8, <1>9, <1>10 DEF Manager!Next

(* At most one send of the last in a group was at a turn. *)
LEMMA TurnOnce ==
    ASSUME NEW c \in Nat, NEW size \in Nat, NEW m \in 0 .. size, NEW i \in 1 .. m, NEW j \in 1 .. m,
           TurnAt(c, m, size, i) = TurnAt(c, m, size, j)
    PROVE  i = j
BY DEF TurnAt

(* What the invariant says of the sessions of a manager. *)
LEMMA ManSays ==
    ASSUME NEW side, Manager(side)!ManagerAssumption, ManInv(side)
    PROVE  Manager(side)!TypeOK /\ Manager(side)!Filed /\ Manager(side)!NamesReach /\ Manager(side)!RoundRobin
<1>0. /\ side.sessions \in Nat /\ side.mark \in Nat /\ Manager(side)!None = 0 /\ Manager(side)!Session = ManSession(side)
      /\ Manager(side)!Outgoing = {"short", "persistent"}
      /\ side.addrs \subseteq Nat \ {0}
      /\ ManTypes(side) /\ ManKeyed(side) /\ ManCounted(side) /\ ManGroups(side) /\ ManTurns(side)
  BY SideFacts DEF ManInv
<1>1. Manager(side)!TypeOK
  <2>1. kind \in [ManSession(side) -> Manager(side)!Outgoing \cup {"free", "accepting", "accepted", "deleted"}]
    BY <1>0 DEF ManTypes
  <2>2. \A n \in side.names : groups[n].addrs \in Seq(side.addrs) /\ groups[n].current \in 0 .. Len(groups[n].addrs)
    BY <1>0 DEF ManTypes, ManTurns
  <2>3. counting \in [side.threads -> -1 .. side.mark]
    BY <1>0 DEF ManTypes
  <2>4. Manager(side)!Statuses = {"WAITING", "CONNECTED", "TIME_OUT", "CONNECTING", "CLOSED"}
    BY DEF Manager!Statuses
  <2> QED BY <1>0, <2>1, <2>2, <2>3, <2>4 DEF ManTypes, Manager!TypeOK
<1>2. Manager(side)!Filed
  <2>1. CASE raced
    BY <2>1 DEF Manager!Filed
  <2>2. ASSUME ~raced, NEW s \in ManSession(side)
        PROVE  /\ (kind[s] = "short") = (\E n \in side.names : short[n] = s)
               /\ (kind[s] = "persistent") = (\E a \in side.addrs : addr_sessions[a] = s)
               /\ (kind[s] = "accepted") = (\E c \in DOMAIN sessions : sessions[c] = s)
               /\ kind[s] = "short" => short[key[s]] = s
               /\ kind[s] = "persistent" => addr_sessions[key[s]] = s
               /\ kind[s] = "accepted" => sessions[id[s]] = s
    <3>0. s # 0 /\ DOMAIN sessions = 1 .. side.mark
      BY <1>0 DEF ManSession, ManTypes
    <3>1. kind[s] = "short" => key[s] \in side.names /\ short[key[s]] = s
      BY <1>0 DEF ManKeyed
    <3>2. kind[s] = "persistent" => key[s] \in side.addrs /\ addr_sessions[key[s]] = s
      BY <1>0 DEF ManKeyed
    <3>3. kind[s] = "accepted" => id[s] \in 1 .. side.mark /\ sessions[id[s]] = s
      BY <1>0, <2>2 DEF ManKeyed, ManCounted, ManTypes
    <3>4. /\ \A n \in side.names : short[n] = s => kind[s] = "short"
          /\ \A a \in side.addrs : addr_sessions[a] = s => kind[s] = "persistent"
          /\ \A c \in 1 .. side.mark : sessions[c] = s => kind[s] = "accepted"
      BY <3>0, <1>0 DEF ManKeyed
    <3>5. kind[s] = "short" <=> \E n \in side.names : short[n] = s
      BY <3>1, <3>4
    <3>6. kind[s] = "persistent" <=> \E a \in side.addrs : addr_sessions[a] = s
      BY <3>2, <3>4
    <3>7. kind[s] = "accepted" <=> \E c \in DOMAIN sessions : sessions[c] = s
      BY <3>0, <3>3, <3>4
    <3> QED BY <3>1, <3>2, <3>3, <3>5, <3>6, <3>7
  <2> QED BY <1>0, <2>1, <2>2 DEF Manager!Filed
<1>3. Manager(side)!NamesReach
  BY <1>0 DEF Manager!NamesReach, ManGroups, OfName
<1>4. Manager(side)!RoundRobin
  <2>1. ASSUME NEW n \in side.names, NEW i \in DOMAIN served[n], NEW j \in DOMAIN served[n], served[n][i] = served[n][j]
        PROVE  i = j
    <3> DEFINE addrs == groups[n].addrs
    <3>1. /\ served[n] \in Seq(side.addrs) /\ addrs \in Seq(side.addrs) /\ groups[n].current \in Nat
      BY <1>0 DEF ManTypes
    <3>2. PICK m \in Nat, size \in Nat, c \in Nat : m = Len(served[n]) /\ size = Len(addrs) /\ c = groups[n].current
      BY <3>1
    <3>3. /\ m <= size /\ c <= size /\ i \in 1 .. m /\ j \in 1 .. m
          /\ TurnAt(c, m, size, i) \in 1 .. size /\ served[n][i] = addrs[TurnAt(c, m, size, i)]
          /\ TurnAt(c, m, size, j) \in 1 .. size /\ served[n][j] = addrs[TurnAt(c, m, size, j)]
      <4>1. DOMAIN served[n] = 1 .. m
        BY <3>1, <3>2
      <4>2. /\ m <= size /\ c <= size
            /\ \A p \in 1 .. m : TurnAt(c, m, size, p) \in 1 .. size /\ served[n][p] = addrs[TurnAt(c, m, size, p)]
        BY <1>0, <3>2 DEF ManTurns
      <4> QED BY <2>1, <4>1, <4>2
    <3>4. Distinct(addrs) /\ DOMAIN addrs = 1 .. size
      <4>1. Sorts(addrs, OfName(side, n)) /\ IsFiniteSet(OfName(side, n)) /\ OfName(side, n) \in SUBSET Nat
        BY <1>0 DEF ManGroups, OfName
      <4> HIDE DEF addrs
      <4> QED BY <4>1, <3>2, SortsFacts
    <3>5. TurnAt(c, m, size, i) = TurnAt(c, m, size, j)
      BY <2>1, <3>3, <3>4 DEF Distinct
    <3> QED BY <3>2, <3>3, <3>5, TurnOnce, SMTT(30)
  <2> QED BY <2>1 DEF Manager!RoundRobin
<1> QED BY <1>1, <1>2, <1>3, <1>4

(* Only DoCheckSession deletes, and what it finds timed out was not heard of since its last time. *)
LEMMA ManSpares ==
    ASSUME NEW side, Manager(side)!ManagerAssumption, ManInv(side), [Manager(side)!Next]_(Manager(side)!vars)
    PROVE  Manager(side)!SparesTheActive
<1>0. /\ ManTypes(side) /\ ManIdle(side) /\ Manager(side)!Session = ManSession(side) /\ Manager(side)!None = 0
      /\ Manager(side)!Outgoing = {"short", "persistent"}
  BY SideFacts DEF ManInv
<1> SUFFICES ASSUME NEW s \in ManSession(side), kind[s] # "deleted", kind'[s] = "deleted"
             PROVE  standing[s] = "CLOSED" \/ idle[s] = 1
  <2>1. \A s \in ManSession(side) : s \in Manager(side)!Live => kind[s] # "deleted"
    BY <1>0 DEF Manager!Live
  <2>2. \A s \in Manager(side)!Live : s \in ManSession(side)
    BY <1>0 DEF Manager!Live
  <2> QED BY <2>1, <2>2 DEF Manager!SparesTheActive
<1>1. ~(kind' = kind)
  OBVIOUS
<1>2. ASSUME NEW r, NEW k \in {"accepting", "accepted", "short", "persistent"}, kind' = [kind EXCEPT ![r] = k] PROVE FALSE
  BY <1>2, <1>0 DEF ManTypes
<1>3. CASE Manager(side)!DoCheckSession
  <2>1. kind' = [r \in ManSession(side) |-> IF Manager(side)!Ends(r) THEN "deleted" ELSE kind[r]]
    BY <1>0, <1>3 DEF Manager!DoCheckSession
  <2>2. Manager(side)!Ends(s)
    BY <2>1
  <2>3. standing[s] \in {"TIME_OUT", "CLOSED"}
    BY <2>2 DEF Manager!Ends
  <2> QED BY <2>3, <1>0 DEF ManIdle
<1>4. CASE UNCHANGED Manager(side)!vars
  BY <1>1, <1>4 DEF Manager!vars
<1>5. ASSUME NEW t, Manager(side)!Fetch(t) \/ Manager(side)!CountElsewhere PROVE FALSE
  BY <1>1, <1>5 DEF Manager!Fetch, Manager!CountElsewhere
<1>6. ASSUME NEW n, Manager(side)!DoSendTo(n) \/ Manager(side)!DoClose(n) PROVE FALSE
  BY <1>1, <1>6 DEF Manager!DoSendTo, Manager!DoClose
<1>7. ASSUME NEW n, NEW a, NEW reuse, Manager(side)!DoConnectKnown(n, a, reuse) PROVE FALSE
  BY <1>1, <1>7 DEF Manager!DoConnectKnown
<1>8. ASSUME NEW n, NEW a, NEW reuse, NEW r, Manager(side)!DoConnectNew(n, a, reuse, r) PROVE FALSE
  <2>1. kind' = [kind EXCEPT ![r] = IF reuse THEN "persistent" ELSE "short"]
    BY <1>8 DEF Manager!DoConnectNew, Manager!Create
  <2> QED BY <2>1, <1>2
<1>9. ASSUME NEW r, Manager(side)!StartAccept(r) \/ Manager(side)!OnAccept(r) PROVE FALSE
  <2>1. kind' = [kind EXCEPT ![r] = "accepting"] \/ kind' = [kind EXCEPT ![r] = "accepted"]
    BY <1>9 DEF Manager!StartAccept, Manager!OnAccept, Manager!Create
  <2> QED BY <2>1, <1>2
<1>10. ASSUME NEW r, Manager(side)!Dialled(r) \/ Manager(side)!OnRead(r) \/ Manager(side)!OnPeerClose(r) PROVE FALSE
  BY <1>1, <1>10 DEF Manager!Dialled, Manager!OnRead, Manager!OnPeerClose
<1> QED BY <1>3, <1>4, <1>5, <1>6, <1>7, <1>8, <1>9, <1>10 DEF Manager!Next

-----------------------------------------------------------------------------
(* Which manager runs has its invariant. *)
ManagersInv == /\ part = "names" => ManInv(NamesSide)
               /\ part = "ids"   => ManInv(IdsSide)

(* It holds in the beginning. *)
LEMMA ManagersInit == Init => ManagersInv
<1>1. Manager(NamesSide)!ManagerAssumption /\ Manager(IdsSide)!ManagerAssumption
  BY ThreadsAssumption
<1>2. ASSUME Init PROVE /\ part = "names" => Manager(NamesSide)!Init
                        /\ part = "ids" => Manager(IdsSide)!Init
  BY <1>2 DEF Init
<1> QED BY <1>1, <1>2, ManInit DEF ManagersInv

(* A step of the threads is one of the manager that runs, or leaves it alone. *)
LEMMA ManagersSteps ==
    ASSUME [Next]_all
    PROVE  /\ part' = part
           /\ part = "names" => [Manager(NamesSide)!Next]_(Manager(NamesSide)!vars)
           /\ part = "ids" => [Manager(IdsSide)!Next]_(Manager(IdsSide)!vars)
<1>1. part' = part
  BY DEF Next, all, InWheel, InIo, InHolder, InGroup, InCoh, InManager, InExamples, InClients
<1>2. CASE part \notin {"names", "ids"}
  BY <1>1, <1>2
<1>3. ASSUME NEW side, UNCHANGED managerVars PROVE UNCHANGED Manager(side)!vars
  BY <1>3 DEF managerVars, Manager!vars, Manager!containers, Manager!ids, Manager!history
<1>4. UNCHANGED managerVars \/ (part = "names" /\ Manager(NamesSide)!Next) \/ (part = "ids" /\ Manager(IdsSide)!Next)
  BY DEF Next, all, InWheel, InIo, InHolder, InGroup, InCoh, InManager, InExamples, InClients, accountVars
<1> QED BY <1>1, <1>3, <1>4

(* Every step keeps it. *)
LEMMA ManagersStep == ManagersInv /\ [Next]_all => ManagersInv'
<1> SUFFICES ASSUME ManagersInv, [Next]_all PROVE ManagersInv'
  OBVIOUS
<1>1. Manager(NamesSide)!ManagerAssumption /\ Manager(IdsSide)!ManagerAssumption
  BY ThreadsAssumption
<1>2. /\ part' = part
      /\ part = "names" => [Manager(NamesSide)!Next]_(Manager(NamesSide)!vars)
      /\ part = "ids" => [Manager(IdsSide)!Next]_(Manager(IdsSide)!vars)
  BY ManagersSteps
<1>3. part = "names" => ManInv(NamesSide)'
  BY <1>1, <1>2, ManStep DEF ManagersInv
<1>4. part = "ids" => ManInv(IdsSide)'
  BY <1>1, <1>2, ManStep DEF ManagersInv
<1> QED BY <1>2, <1>3, <1>4 DEF ManagersInv

(* The managers keep their sessions, for any names, addresses, threads and sessions: each is found
   under its own key as long as it lives and no increment of the ids was lost, a name reaches the
   addresses it was the first to connect to, in turn, and the check deletes only what is closed or
   was not heard of. *)
THEOREM SpecSessionsKept == Spec => SessionsKept
<1>1. Manager(NamesSide)!ManagerAssumption /\ Manager(IdsSide)!ManagerAssumption
  BY ThreadsAssumption
<1>2. ManagersInv => (part = "names" => Manager(NamesSide)!TypeOK /\ Manager(NamesSide)!NamesReach /\ Manager(NamesSide)!RoundRobin)
  BY <1>1, ManSays DEF ManagersInv
<1>3. ManagersInv => (part = "ids" => Manager(IdsSide)!TypeOK /\ Manager(IdsSide)!Filed)
  BY <1>1, ManSays DEF ManagersInv
<1>4. ManagersInv /\ [Next]_all => [part = "names" => Manager(NamesSide)!SparesTheActive]_all
  BY <1>1, ManagersSteps, ManSpares DEF ManagersInv
<1>5. ManagersInv /\ [Next]_all => [part = "ids" => Manager(IdsSide)!SparesTheActive]_all
  BY <1>1, ManagersSteps, ManSpares DEF ManagersInv
<1> QED BY <1>2, <1>3, <1>4, <1>5, ManagersInit, ManagersStep, PTL DEF Spec, SessionsKept

-----------------------------------------------------------------------------
(* Serv: structs as sequences of fields. *)

(* A struct of n fields and a stop. *)
Closed(bytes, n) ==
    /\ DOMAIN bytes = 1 .. n + 1 /\ bytes[n + 1] = [type |-> "stop"]
    /\ \A i \in 1 .. n : bytes[i].type # "stop"

(* It is read to its end. *)
LEMMA ClosedEnds ==
    ASSUME NEW n \in Nat, NEW bytes, Closed(bytes, n)
    PROVE  ~Clients!Throws(bytes) /\ DOMAIN Clients!Before(bytes) = 1 .. n
<1>1. Clients!Ends(bytes) = {n + 1}
  <2>1. \A i \in 1 .. n : bytes[i] # [type |-> "stop"]
    <3>1. [type |-> "stop"].type = "stop"
      OBVIOUS
    <3> QED BY <3>1 DEF Closed
  <2> QED BY <2>1 DEF Closed, Clients!Ends, Clients!Stop
<1>2. Clients!Min({n + 1}) = n + 1
  BY DEF Clients!Min
<1>3. DOMAIN Clients!Before(bytes) = 1 .. n
  BY <1>1, <1>2 DEF Clients!Before
<1> QED BY <1>1, <1>3 DEF Clients!Throws

(* The field at k is the only one of its type and id. *)
Only(bytes, n, type, no, k) ==
    /\ k \in 1 .. n /\ bytes[k].type = type /\ bytes[k].id = no
    /\ \A i \in 1 .. n : i # k => ~(bytes[i].type = type /\ bytes[i].id = no)

(* It is read, whatever the default. *)
ReadAt(bytes, type, no, k) ==
    /\ Clients!Found(bytes, type, no) = {k} /\ Clients!Max({k}) = k
    /\ \A default : Clients!Read(bytes, type, no, default) = bytes[k].value

(* The only field of a type and id is read. *)
LEMMA ReadsOnly ==
    ASSUME NEW n \in Nat, NEW bytes, Closed(bytes, n), NEW type, NEW no, NEW k, Only(bytes, n, type, no, k)
    PROVE  ReadAt(bytes, type, no, k)
<1>1. Clients!Found(bytes, type, no) = {k}
  BY ClosedEnds DEF Clients!Found, Only
<1>2. Clients!Max({k}) = k
  <2>1. k \in Nat
    BY DEF Only
  <2> QED BY <2>1 DEF Clients!Max
<1> QED BY <1>1, <1>2 DEF Clients!Read, ReadAt

(* The arguments are read as they were written. *)
LEMMA ArgsRead ==
    ASSUME NEW no
    PROVE  /\ Clients!args_read(Clients!args_write(no)).no = no
           /\ ~Clients!Throws(Clients!args_write(no))
           /\ Clients!result_read(Clients!args_write(no)).value = Clients!NoStudent
<1> DEFINE bytes == <<[type |-> "string", id |-> 1, value |-> no], [type |-> "stop"]>>
<1>1. Clients!args_write(no) = bytes
  BY DEF Clients!args_write, Clients!Field, Clients!Stop
<1>2. /\ DOMAIN bytes = 1 .. 1 + 1 /\ bytes[1].type = "string" /\ bytes[1].id = 1 /\ bytes[1].value = no
      /\ bytes[1 + 1] = [type |-> "stop"]
  OBVIOUS
<1> HIDE DEF bytes
<1>3. Closed(bytes, 1)
  BY <1>2 DEF Closed
<1>0. Only(bytes, 1, "string", 1, 1)
  BY <1>2 DEF Only
<1>4. Clients!Read(bytes, "string", 1, "") = no /\ ~Clients!Throws(bytes) /\ DOMAIN Clients!Before(bytes) = 1 .. 1
  <2>1. 1 \in Nat
    OBVIOUS
  <2>2. ReadAt(bytes, "string", 1, 1)
    BY <2>1, <1>3, <1>0, ReadsOnly, Zenon
  <2>3. ~Clients!Throws(bytes) /\ DOMAIN Clients!Before(bytes) = 1 .. 1
    BY <2>1, <1>3, ClosedEnds, Zenon
  <2> QED BY <1>2, <2>2, <2>3 DEF ReadAt
<1>5. Clients!Found(bytes, "struct", 0) = {}
  <2>1. \A i \in 1 .. 1 : bytes[i].type # "struct"
    <3>1. "string" # "struct" /\ (\A i \in 1 .. 1 : i = 1)
      OBVIOUS
    <3> QED BY <1>2, <3>1
  <2> QED BY <1>4, <2>1 DEF Clients!Found
<1> QED BY <1>1, <1>4, <1>5 DEF Clients!args_read, Clients!result_read

(* A student is read as it was written. *)
LEMMA StudentRead ==
    ASSUME NEW student, student = [no |-> student.no, name |-> student.name, age |-> student.age]
    PROVE  Clients!Student_read(Clients!Student_write(student)) = student
<1> DEFINE bytes == <<[type |-> "string", id |-> 1, value |-> student.no],
                      [type |-> "string", id |-> 2, value |-> student.name],
                      [type |-> "i16", id |-> 3, value |-> student.age], [type |-> "stop"]>>
<1>1. Clients!Student_write(student) = bytes
  BY DEF Clients!Student_write, Clients!Field, Clients!Stop
<1>2. /\ DOMAIN bytes = 1 .. 3 + 1 /\ bytes[3 + 1] = [type |-> "stop"]
      /\ bytes[1].type = "string" /\ bytes[1].id = 1 /\ bytes[1].value = student.no
      /\ bytes[2].type = "string" /\ bytes[2].id = 2 /\ bytes[2].value = student.name
      /\ bytes[3].type = "i16" /\ bytes[3].id = 3 /\ bytes[3].value = student.age
  OBVIOUS
<1> HIDE DEF bytes
<1>0. 1 .. 3 = {1, 2, 3}
  OBVIOUS
<1>7. 3 \in Nat
  OBVIOUS
<1>3. Closed(bytes, 3)
  BY <1>0, <1>2 DEF Closed
<1>4. Clients!Read(bytes, "string", 1, "") = student.no
  <2>1. Only(bytes, 3, "string", 1, 1)
    BY <1>0, <1>2 DEF Only
  <2>2. ReadAt(bytes, "string", 1, 1)
    BY <2>1, <1>3, <1>7, ReadsOnly, Zenon
  <2> QED BY <1>2, <2>2 DEF ReadAt
<1>5. Clients!Read(bytes, "string", 2, "") = student.name
  <2>1. Only(bytes, 3, "string", 2, 2)
    BY <1>0, <1>2 DEF Only
  <2>2. ReadAt(bytes, "string", 2, 2)
    BY <2>1, <1>3, <1>7, ReadsOnly, Zenon
  <2> QED BY <1>2, <2>2 DEF ReadAt
<1>6. Clients!Read(bytes, "i16", 3, 0) = student.age
  <2>1. Only(bytes, 3, "i16", 3, 3)
    BY <1>0, <1>2 DEF Only
  <2>2. ReadAt(bytes, "i16", 3, 3)
    BY <2>1, <1>3, <1>7, ReadsOnly, Zenon
  <2> QED BY <1>2, <2>2 DEF ReadAt
<1> QED BY <1>1, <1>4, <1>5, <1>6 DEF Clients!Student_read

(* A result with a student is read as it was written. *)
LEMMA ResultRead ==
    ASSUME NEW student, student = [no |-> student.no, name |-> student.name, age |-> student.age],
           NEW body, body = Clients!result_write([isset |-> TRUE, value |-> student])
    PROVE  Clients!result_read(body) = [isset |-> TRUE, value |-> student] /\ ~Clients!Throws(body)
<1> DEFINE bytes == body
<1>2. /\ DOMAIN bytes = 1 .. 1 + 1 /\ bytes[1].type = "struct" /\ bytes[1].id = 0
      /\ bytes[1].struct = Clients!Student_write(student) /\ bytes[1 + 1] = [type |-> "stop"]
  <2> DEFINE struct == [type |-> "struct", id |-> 0, struct |-> Clients!Student_write(student)]
             stop == [type |-> "stop"]
             S == {struct, stop}
             one == <<struct>>
             two == <<stop>>
  <2>1. body = one \o two
    BY DEF Clients!result_write, Clients!Struct, Clients!Stop
  <2>2. struct.type = "struct" /\ struct.id = 0 /\ struct.struct = Clients!Student_write(student)
    OBVIOUS
  <2>3. struct \in S /\ stop \in S
    OBVIOUS
  <2> HIDE DEF struct, stop, S
  <2>4. /\ one \in Seq(S) /\ two \in Seq(S)
        /\ DOMAIN one = 1 .. 1 /\ DOMAIN two = 1 .. 1 /\ Len(one) = 1 /\ Len(two) = 1
        /\ one[1] = struct /\ two[1] = stop
    BY <2>3
  <2> HIDE DEF one, two
  <2>5. /\ DOMAIN (one \o two) = 1 .. Len(one) + Len(two)
        /\ \A i \in DOMAIN one : (one \o two)[i] = one[i]
        /\ \A i \in DOMAIN two : (one \o two)[Len(one) + i] = two[i]
    BY <2>4, ConcatFacts, SMTT(30)
  <2>6. DOMAIN (one \o two) = 1 .. 1 + 1 /\ (one \o two)[1] = struct /\ (one \o two)[1 + 1] = stop
    BY <2>4, <2>5
  <2> QED BY <2>1, <2>2, <2>6 DEF stop
<1> HIDE DEF bytes
<1>3. Closed(bytes, 1)
  BY <1>2 DEF Closed
<1>4. Clients!Found(bytes, "struct", 0) = {1} /\ Clients!Max({1}) = 1 /\ ~Clients!Throws(bytes)
  <2>1. 1 \in Nat
    OBVIOUS
  <2>2. Only(bytes, 1, "struct", 0, 1)
    BY <1>2 DEF Only
  <2>3. ReadAt(bytes, "struct", 0, 1)
    BY <2>1, <2>2, <1>3, ReadsOnly, Zenon
  <2> QED BY <2>1, <2>3, <1>3, ClosedEnds DEF ReadAt
<1> QED BY <1>2, <1>4, StudentRead DEF Clients!result_read, bytes

(* What a client is sent back is read as what the interfaces say of its number. *)
ReqOf(p) == IF p = "other" THEN Clients!T_Message("Other", "call", 0, <<Clients!Stop>>) ELSE Clients!send_QueryByNo(p)
Iface(h) == [no \in No |-> Clients!Multiface(h, no)]
Truth(h, p) == IF p = "other" THEN Clients!Thrown ELSE Clients!Multiface(h, p)
ReplyOf(h, p) == Clients!dispatchCall(ReqOf(p), Iface(h))

(* What the interfaces say is that they throw, or one student. *)
LEMMA MultifaceSays ==
    ASSUME Clients!CallsAssumption, NEW h \in Handlers, NEW no \in No
    PROVE  \/ Clients!Multiface(h, no) = Clients!Thrown
           \/ \E student : /\ Clients!Multiface(h, no) = [throws |-> FALSE, value |-> student]
                           /\ student = [no |-> student.no, name |-> student.name, age |-> student.age]
<1> DEFINE One == [throws : BOOLEAN, value : Clients!Students]
<1>1. h \in Seq([No -> One]) /\ h # << >>
  <2>1. Handlers \subseteq Seq([No -> One]) \ {<< >>}
    BY Zenon DEF Clients!CallsAssumption
  <2> HIDE DEF One
  <2> QED BY <2>1
<1>2. Len(h) \in DOMAIN h
  <2> HIDE DEF One
  <2> QED BY <1>1
<1>3. h[Len(h)] \in [No -> One]
  <2> HIDE DEF One
  <2> QED BY <1>1, <1>2
<1>4. PICK said : said = h[Len(h)][no]
  OBVIOUS
<1>5. said \in One
  <2> HIDE DEF One
  <2> QED BY <1>3, <1>4
<1>6. CASE \E i \in DOMAIN h : h[i][no].throws
  BY <1>6 DEF Clients!Multiface
<1>7. CASE ~\E i \in DOMAIN h : h[i][no].throws
  <2>1. ~said.throws
    BY <1>2, <1>4, <1>7
  <2>2. Clients!Multiface(h, no) = said
    BY <1>4, <1>7 DEF Clients!Multiface, Clients!Last
  <2>4. \A s \in Clients!Students : s = [no |-> s.no, name |-> s.name, age |-> s.age]
    <3>1. \A A, B, C : \A s \in [no : A, name : B, age : C] : s = [no |-> s.no, name |-> s.name, age |-> s.age]
      OBVIOUS
    <3>4. PICK Text : Text = STRING
      OBVIOUS
    <3> DEFINE Age == -32768..32767
    <3>6. Age = -32768..32767
      BY SMTT(30)
    <3> HIDE DEF Age
    <3>2. Clients!Students = [no : Text, name : Text, age : Age]
      BY <3>4, <3>6, SMT DEF Clients!Students
    <3>3. \A s \in [no : Text, name : Text, age : Age] : s = [no |-> s.no, name |-> s.name, age |-> s.age]
      BY <3>1
    <3> QED BY <3>2, <3>3
  <2>3. said = [throws |-> said.throws, value |-> said.value] /\ said.throws \in BOOLEAN /\ said.value \in Clients!Students
    BY <1>5
  <2>5. said.throws = FALSE
    BY <2>1, <2>3
  <2>6. Clients!Multiface(h, no) = [throws |-> FALSE, value |-> said.value]
    BY <2>2, <2>3, <2>5
  <2>7. said.value = [no |-> said.value.no, name |-> said.value.name, age |-> said.value.age]
    BY <2>3, <2>4
  <2> QED BY <2>6, <2>7
<1> QED BY <1>6, <1>7

(* A client reads from the reply to its request what the interfaces say. *)
LEMMA ReceivesOwn ==
    ASSUME Clients!CallsAssumption, NEW h \in Handlers, NEW p \in No \cup {"other"}
    PROVE  Clients!recv_QueryByNo(Clients!dispatchCall(ReqOf(p), Iface(h)), << >>) = Truth(h, p)
<1> DEFINE msg == Clients!dispatchCall(ReqOf(p), Iface(h))
<1>1. ASSUME msg.type = "exception" PROVE Clients!recv_QueryByNo(msg, << >>) = Clients!Thrown
  <2> HIDE DEF msg
  <2> QED BY <1>1 DEF Clients!recv_QueryByNo
<1>2. CASE p = "other"
  <2>1. msg.type = "exception"
    BY <1>2 DEF ReqOf, Clients!dispatchCall, Clients!T_Message, Clients!processMap
  <2> QED BY <1>1, <1>2, <2>1 DEF Truth
<1>3. CASE p # "other"
  <2>1. p \in No /\ Truth(h, p) = Clients!Multiface(h, p) /\ ReqOf(p) = Clients!send_QueryByNo(p)
    BY <1>3 DEF Truth, ReqOf
  <2>2. msg = Clients!process_QueryByNo(0, Clients!args_write(p), Iface(h))
    BY <2>1 DEF Clients!dispatchCall, Clients!send_QueryByNo, Clients!pargs_write, Clients!T_Message, Clients!processMap
  <2>3. Iface(h)[Clients!args_read(Clients!args_write(p)).no] = Clients!Multiface(h, p)
    BY <2>1, ArgsRead DEF Iface
  <2>4. CASE Clients!Multiface(h, p) = Clients!Thrown
    <3>1. msg.type = "exception"
      <4>1. Clients!Thrown.throws
        BY DEF Clients!Thrown
      <4> QED BY <2>2, <2>3, <2>4, <4>1 DEF Clients!process_QueryByNo, Clients!T_Message
    <3> QED BY <1>1, <2>1, <2>4, <3>1
  <2>5. ASSUME NEW student, Clients!Multiface(h, p) = [throws |-> FALSE, value |-> student],
               student = [no |-> student.no, name |-> student.name, age |-> student.age]
        PROVE  Clients!recv_QueryByNo(msg, << >>) = Truth(h, p)
    <3> DEFINE body == Clients!result_write([isset |-> TRUE, value |-> student])
    <3>1. msg = [name |-> "QueryByNo", type |-> "reply", seqid |-> 0, body |-> body]
      BY <2>2, <2>3, <2>5 DEF Clients!process_QueryByNo, Clients!T_Message
    <3>2. Clients!result_read(body) = [isset |-> TRUE, value |-> student] /\ ~Clients!Throws(body)
      BY <2>5, ResultRead
    <3> HIDE DEF body, msg
    <3>3. msg.type = "reply" /\ msg.name = "QueryByNo" /\ msg.body = body
      BY <3>1
    <3>4. Clients!Skipped(msg) = 0
      BY <3>3 DEF Clients!Skipped
    <3>5. Len(<<body>> \o << >>) = 1 /\ (<<body>> \o << >>)[1] = body
      <4>1. <<body>> \in Seq({body}) /\ << >> \in Seq({body}) /\ Len(<<body>>) = 1 /\ Len(<< >>) = 0 /\ <<body>>[1] = body
        OBVIOUS
      <4>2. PICK one : one = <<body>>
        OBVIOUS
      <4> QED BY <4>1, <4>2, ConcatFacts
    <3>6. "reply" # "exception"
      OBVIOUS
    <3>7. Clients!recv_QueryByNo(msg, << >>) = [throws |-> FALSE, value |-> Clients!result_read(body).value]
      <4>1. Clients!result_read(body).isset
        BY <3>2
      <4>2. 0 + 1 = 1 /\ ~(1 > 1)
        OBVIOUS
      <4> QED BY <3>2, <3>3, <3>4, <3>5, <3>6, <4>1, <4>2 DEF Clients!recv_QueryByNo, Clients!presult_read
    <3>8. Clients!result_read(body).value = student
      BY <3>2
    <3> QED BY <2>1, <2>5, <3>7, <3>8
  <2> QED BY <2>1, <2>4, <2>5, MultifaceSays
<1> QED BY <1>2, <1>3

(* Of every client: nothing is on its way when it has no call open, and its request or the reply
   to it when it has one; and what its calls returned is what the interfaces say. *)
Truths(h) == {[no |-> p, result |-> Truth(h, p)] : p \in No \cup {"other"}}

CallOpen(h, p, asked, told) ==
    IF p = "none" THEN asked = << >> /\ told = << >>
    ELSE (asked = <<ReqOf(p)>> /\ told = << >>) \/ (asked = << >> /\ told = <<ReplyOf(h, p)>>)

CallsFor(h) ==
    /\ handler = h
    /\ pending \in [Client -> No \cup {"none", "other"}]
    /\ requests \in [Client -> Seq({ReqOf(p) : p \in No \cup {"other"}})]
    /\ replies \in [Client -> Seq({ReplyOf(h, p) : p \in No \cup {"other"}})]
    /\ returned \in [Client -> Seq(Truths(h))]
    /\ \A c \in Client : CallOpen(h, pending[c], requests[c], replies[c])

(* Every step of the clients keeps it. *)
LEMMA CallsStep ==
    ASSUME Clients!CallsAssumption, NEW CONSTANT h \in Handlers, CallsFor(h), [Clients!Next]_(Clients!vars)
    PROVE  CallsFor(h)'
<1> DEFINE Asks == {ReqOf(p) : p \in No \cup {"other"}}
           Says == {ReplyOf(h, p) : p \in No \cup {"other"}}
           TruthsOfH == Truths(h)
<1>0. "none" \notin No /\ "other" \notin No /\ "none" # "other"
  BY DEF Clients!CallsAssumption
<1>1. /\ handler = h /\ pending \in [Client -> No \cup {"none", "other"}]
      /\ requests \in [Client -> Seq(Asks)] /\ replies \in [Client -> Seq(Says)]
      /\ returned \in [Client -> Seq(TruthsOfH)]
      /\ \A c \in Client : CallOpen(h, pending[c], requests[c], replies[c])
  BY DEF CallsFor
<1>2. \A p \in No \cup {"other"} : ReqOf(p) \in Asks /\ ReplyOf(h, p) \in Says
  OBVIOUS
<1>3. \A p \in No \cup {"other"} : [no |-> p, result |-> Truth(h, p)] \in TruthsOfH
  BY Zenon DEF Truths
<1>4. ASSUME handler' = h, pending' \in [Client -> No \cup {"none", "other"}],
             requests' \in [Client -> Seq(Asks)], replies' \in [Client -> Seq(Says)],
             returned' \in [Client -> Seq(TruthsOfH)],
             \A c \in Client : CallOpen(h, pending'[c], requests'[c], replies'[c])
      PROVE  CallsFor(h)'
  BY <1>4, Zenon DEF CallsFor
<1> HIDE DEF Asks, Says, TruthsOfH
<1>5. CASE UNCHANGED Clients!vars
  <2>1. UNCHANGED <<handler, pending, requests, replies, returned>>
    BY <1>5 DEF Clients!vars
  <2> QED BY <2>1, <1>1, <1>4
<1>6. ASSUME NEW c \in Client, NEW p \in No \cup {"other"}, pending[c] = "none",
             pending' = [pending EXCEPT ![c] = p], requests' = [requests EXCEPT ![c] = Append(@, ReqOf(p))],
             UNCHANGED <<handler, replies, returned>>
      PROVE  CallsFor(h)'
  <2>1. requests[c] = << >> /\ replies[c] = << >>
    BY <1>1, <1>6 DEF CallOpen
  <2>2. PICK r \in Asks : r = ReqOf(p)
    BY <1>2
  <2>3. Append(<< >>, r) = <<r>> /\ <<r>> \in Seq(Asks)
    BY <2>2
  <2>4. requests' = [requests EXCEPT ![c] = <<r>>]
    BY <1>6, <2>1, <2>2, <2>3, <1>1
  <2>5. requests' \in [Client -> Seq(Asks)] /\ pending' \in [Client -> No \cup {"none", "other"}]
    BY <1>1, <1>6, <2>3, <2>4
  <2>6. \A d \in Client : CallOpen(h, pending'[d], requests'[d], replies'[d])
    <3>1. CallOpen(h, pending'[c], requests'[c], replies'[c])
      <4>1. pending'[c] = p /\ requests'[c] = <<r>> /\ replies'[c] = << >> /\ p # "none"
        BY <1>0, <1>1, <1>6, <2>1, <2>4
      <4> QED BY <4>1, <2>2 DEF CallOpen
    <3>2. ASSUME NEW d \in Client, d # c PROVE pending'[d] = pending[d] /\ requests'[d] = requests[d] /\ replies'[d] = replies[d]
      BY <1>1, <1>6, <2>4, <3>2
    <3> QED BY <3>1, <3>2, <1>1
  <2> QED BY <1>1, <1>4, <1>6, <2>5, <2>6
<1>7. ASSUME NEW c \in Client, NEW no \in No, Clients!Call(c, no) PROVE CallsFor(h)'
  <2>1. no \in No \cup {"other"} /\ ReqOf(no) = Clients!send_QueryByNo(no)
    BY <1>0 DEF ReqOf
  <2> QED BY <1>6, <1>7, <2>1 DEF Clients!Call
<1>8. ASSUME NEW c \in Client, Clients!CallOther(c) PROVE CallsFor(h)'
  <2>1. ReqOf("other") = Clients!T_Message("Other", "call", 0, <<Clients!Stop>>)
    BY DEF ReqOf
  <2> QED BY <1>6, <1>8, <2>1 DEF Clients!CallOther
<1>9. ASSUME NEW c \in Client, Clients!Process(c) PROVE CallsFor(h)'
  <2>1. /\ requests[c] # << >> /\ requests' = [requests EXCEPT ![c] = Tail(@)]
        /\ replies' = [replies EXCEPT ![c] = Append(@, Clients!dispatchCall(Head(requests[c]), Iface(h)))]
        /\ UNCHANGED <<handler, pending, returned>>
    BY <1>1, <1>9 DEF Clients!Process, Iface
  <2>2. pending[c] # "none" /\ requests[c] = <<ReqOf(pending[c])>> /\ replies[c] = << >>
    BY <1>1, <2>1, Zenon DEF CallOpen
  <2>3. pending[c] \in No \cup {"other"}
    BY <1>1, <2>2
  <2>4. PICK p \in No \cup {"other"} : p = pending[c]
    BY <2>3
  <2>5. PICK r \in Says : r = ReplyOf(h, p)
    BY <1>2
  <2>6. Head(requests[c]) = ReqOf(p) /\ Tail(requests[c]) = << >>
    <3>1. PICK q : q = ReqOf(p)
      OBVIOUS
    <3>2. Head(<<q>>) = q /\ Tail(<<q>>) = << >>
      OBVIOUS
    <3> QED BY <3>1, <3>2, <2>2, <2>4
  <2>7. Append(<< >>, r) = <<r>> /\ <<r>> \in Seq(Says) /\ << >> \in Seq(Asks)
    OBVIOUS
  <2>8. requests' = [requests EXCEPT ![c] = << >>]
    BY <2>1, <2>6
  <2>9. replies' = [replies EXCEPT ![c] = <<r>>]
    <3>1. Clients!dispatchCall(Head(requests[c]), Iface(h)) = r
      BY <2>5, <2>6 DEF ReplyOf
    <3> QED BY <3>1, <2>1, <2>2, <2>7
  <2>10. requests' \in [Client -> Seq(Asks)] /\ replies' \in [Client -> Seq(Says)]
    BY <1>1, <2>7, <2>8, <2>9
  <2>11. \A d \in Client : CallOpen(h, pending'[d], requests'[d], replies'[d])
    <3>1. CallOpen(h, pending'[c], requests'[c], replies'[c])
      <4>1. pending'[c] = p /\ requests'[c] = << >> /\ replies'[c] = <<r>> /\ p # "none"
        BY <1>1, <2>1, <2>2, <2>4, <2>8, <2>9
      <4> QED BY <4>1, <2>5 DEF CallOpen
    <3>2. ASSUME NEW d \in Client, d # c PROVE pending'[d] = pending[d] /\ requests'[d] = requests[d] /\ replies'[d] = replies[d]
      BY <1>1, <2>1, <2>8, <2>9, <3>2
    <3> QED BY <3>1, <3>2, <1>1
  <2> QED BY <1>1, <1>4, <2>1, <2>10, <2>11
<1>10. ASSUME NEW c \in Client, Clients!QueryByNo(c) PROVE CallsFor(h)'
  <2>1. /\ pending[c] # "none" /\ replies[c] # << >>
        /\ returned' = [returned EXCEPT ![c] =
             Append(@, [no |-> pending[c], result |-> Clients!recv_QueryByNo(Head(replies[c]), << >>)])]
        /\ pending' = [pending EXCEPT ![c] = "none"]
        /\ replies' = [replies EXCEPT ![c] = Tail(@)] /\ UNCHANGED <<handler, requests>>
    BY <1>10 DEF Clients!QueryByNo
  <2>2. requests[c] = << >> /\ replies[c] = <<ReplyOf(h, pending[c])>>
    BY <1>1, <2>1, Zenon DEF CallOpen
  <2>3. PICK p \in No \cup {"other"} : p = pending[c]
    BY <1>1, <2>1
  <2>4. Head(replies[c]) = ReplyOf(h, p) /\ Tail(replies[c]) = << >>
    <3>1. PICK q : q = ReplyOf(h, p)
      OBVIOUS
    <3>2. Head(<<q>>) = q /\ Tail(<<q>>) = << >>
      OBVIOUS
    <3> QED BY <3>1, <3>2, <2>2, <2>3
  <2>5. Clients!recv_QueryByNo(ReplyOf(h, p), << >>) = Truth(h, p)
    BY ReceivesOwn DEF ReplyOf
  <2>6. PICK t \in TruthsOfH : t = [no |-> p, result |-> Truth(h, p)]
    BY <1>3
  <2>7. returned' = [returned EXCEPT ![c] = Append(@, t)]
    BY <2>1, <2>3, <2>4, <2>5, <2>6
  <2>8. returned' \in [Client -> Seq(TruthsOfH)]
    BY <1>1, <2>7
  <2>9. replies' = [replies EXCEPT ![c] = << >>]
    BY <2>1, <2>4
  <2>10. replies' \in [Client -> Seq(Says)] /\ pending' \in [Client -> No \cup {"none", "other"}]
    BY <1>1, <2>1, <2>9
  <2>11. \A d \in Client : CallOpen(h, pending'[d], requests'[d], replies'[d])
    <3>1. CallOpen(h, pending'[c], requests'[c], replies'[c])
      BY <1>1, <2>1, <2>2, <2>9 DEF CallOpen
    <3>2. ASSUME NEW d \in Client, d # c PROVE pending'[d] = pending[d] /\ requests'[d] = requests[d] /\ replies'[d] = replies[d]
      BY <1>1, <2>1, <2>9, <3>2
    <3> QED BY <3>1, <3>2, <1>1
  <2> QED BY <1>1, <1>4, <2>1, <2>8, <2>10, <2>11
<1> QED BY <1>5, <1>7, <1>8, <1>9, <1>10 DEF Clients!Next

(* It holds in the beginning. *)
LEMMA CallsBegin == ASSUME Clients!CallsAssumption, NEW h, handler = h, Clients!Init PROVE CallsFor(h)
<1>1. /\ requests = [c \in Client |-> << >>] /\ replies = [c \in Client |-> << >>]
      /\ pending = [c \in Client |-> "none"] /\ returned = [c \in Client |-> << >>]
  BY DEF Clients!Init
<1>2. \A S : << >> \in Seq(S)
  OBVIOUS
<1>3. \A c \in Client : CallOpen(h, pending[c], requests[c], replies[c])
  BY <1>1 DEF CallOpen
<1>4. requests \in [Client -> Seq({ReqOf(p) : p \in No \cup {"other"}})]
  BY <1>1, <1>2
<1>5. replies \in [Client -> Seq({ReplyOf(h, p) : p \in No \cup {"other"}})]
  BY <1>1, <1>2
<1>6. returned \in [Client -> Seq(Truths(h))]
  BY <1>1, <1>2
<1>7. pending \in [Client -> No \cup {"none", "other"}]
  BY <1>1
<1> QED BY <1>3, <1>4, <1>5, <1>6, <1>7 DEF CallsFor

(* What the run checks of the calls follows. *)
LEMMA CallsSay ==
    ASSUME Clients!CallsAssumption, NEW h, CallsFor(h)
    PROVE  Clients!ReturnsOwn /\ Clients!OneReplyEach
<1>1. ASSUME NEW c \in Client, NEW i \in DOMAIN returned[c]
      PROVE  returned[c][i].result = IF returned[c][i].no = "other" THEN Clients!Thrown
                                     ELSE Clients!Multiface(handler, returned[c][i].no)
  <2>1. returned[c][i] \in Truths(h)
    <3> DEFINE T == Truths(h)
    <3>1. returned[c] \in Seq(T)
      BY DEF CallsFor
    <3> HIDE DEF T
    <3>2. returned[c][i] \in T
      BY <3>1, <1>1
    <3> QED BY <3>2 DEF T
  <2>2. PICK p \in No \cup {"other"} : returned[c][i] = [no |-> p, result |-> Truth(h, p)]
    BY <2>1, Zenon DEF Truths
  <2>3. returned[c][i].no = p /\ returned[c][i].result = Truth(h, p)
    BY <2>2
  <2> QED BY <2>3 DEF Truth, CallsFor
<1>2. ASSUME NEW c \in Client
      PROVE  Len(requests[c]) + Len(replies[c]) = IF pending[c] = "none" THEN 0 ELSE 1
  <2>1. CallOpen(h, pending[c], requests[c], replies[c])
    BY DEF CallsFor
  <2>2. PICK q : q = ReqOf(pending[c])
    OBVIOUS
  <2>3. PICK r : r = ReplyOf(h, pending[c])
    OBVIOUS
  <2>4. Len(<< >>) = 0 /\ Len(<<q>>) = 1 /\ Len(<<r>>) = 1
    OBVIOUS
  <2>5. IF pending[c] = "none" THEN requests[c] = << >> /\ replies[c] = << >>
        ELSE (requests[c] = <<q>> /\ replies[c] = << >>) \/ (requests[c] = << >> /\ replies[c] = <<r>>)
    BY <2>1, <2>2, <2>3, Zenon DEF CallOpen
  <2>6. 0 + 0 = 0 /\ 1 + 0 = 1 /\ 0 + 1 = 1
    OBVIOUS
  <2> QED BY <2>4, <2>5, <2>6
<1> QED BY <1>1, <1>2 DEF Clients!ReturnsOwn, Clients!OneReplyEach

-----------------------------------------------------------------------------
(* Proxy: its variables and their types. *)

(* Requests are asked for or not yet; a call has the arguments, a result the student. *)
Reqs == [c : HttpConn, no : 1 .. MaxRequests]
IsAsked(m) == m.no <= received[m.c]
Args == Examples!args_write("0743111245")
Result == Examples!result_write([isset |-> TRUE, value |-> Examples!Answer])
HttpEvents == [id : {"http"}, m : Reqs, url : {"/testthrift", "/"}]
ThriftEvents == [id : {"thrift"}, s : Nat, body : {Args, Result}]

ProxyTypes ==
    /\ clients \subseteq HttpConn /\ received \in [HttpConn -> 0 .. MaxRequests]
    /\ answered \in [HttpConn -> Seq(1 .. MaxRequests)] /\ deleted \in Seq(Reqs)
    /\ todo \in Seq(HttpEvents \cup ThriftEvents)
    /\ smseqid \in Nat /\ ctx \in [0 .. smseqid - 1 -> Reqs]
    /\ call \in [0 .. smseqid - 1 -> {"waiting", "sent", "served", "done"}]
    /\ args = [s \in 0 .. smseqid - 1 |-> Args]
    /\ DOMAIN result \subseteq 0 .. smseqid - 1 /\ result = [s \in DOMAIN result |-> Result]

(* The calls, events and deletions that own a request m. *)
Of(e, of) == IF e.id = "http" THEN e.m ELSE of[e.s]
Held(m, of, states) == {s \in DOMAIN states : of[s] = m /\ states[s] # "done"}
Coming(m, list, of) == {i \in DOMAIN list : Of(list[i], of) = m}
Gone(m, list) == {i \in DOMAIN list : list[i] = m}

(* One of three sets has one element, and the others none. *)
OneOf(A, B, C) == \E x : \/ A = {x} /\ B = {} /\ C = {}
                         \/ A = {} /\ B = {x} /\ C = {}
                         \/ A = {} /\ B = {} /\ C = {x}

(* A request that was asked has one owner, and another none. *)
Owner(asked, A, B, C) == IF asked THEN OneOf(A, B, C) ELSE A = {} /\ B = {} /\ C = {}
ProxyOwners == \A m \in Reqs : Owner(IsAsked(m), Held(m, ctx, call), Coming(m, todo, ctx), Gone(m, deleted))

(* What comes back of a call is done with, and is its arguments or its result. *)
EventSound(e, states, D) ==
    e.id = "thrift" => /\ e.s \in DOMAIN states /\ states[e.s] = "done"
                       /\ (e.body # Args => e.s \in D /\ e.body = Result)
ProxyEvents == \A i \in DOMAIN todo : EventSound(todo[i], call, DOMAIN result)

(* A call has a result from when it was served. *)
ProxyResults == \A s \in DOMAIN call : /\ call[s] = "served" => s \in DOMAIN result
                                       /\ s \in DOMAIN result => call[s] \in {"served", "done"}

(* A response has the student of a result of a call of its request. *)
ProxyStudents == \A m \in DOMAIN response :
    response[m] = Examples!NoStudent \/ \E s \in DOMAIN result : ctx[s] = m /\ response[m] = Examples!result_read(Result).value

(* A call waits for a dial. *)
ProxyWaits == \A s \in DOMAIN call : call[s] = "waiting" => peerstatus = "connecting"

(* A request that was answered was deleted. *)
ProxyAnswers == \A c \in HttpConn : \A i \in DOMAIN answered[c] : Gone([c |-> c, no |-> answered[c][i]], deleted) # {}

ProxyInv == /\ ProxyTypes /\ ProxyOwners /\ ProxyEvents /\ ProxyResults /\ ProxyStudents /\ ProxyWaits /\ ProxyAnswers

-----------------------------------------------------------------------------
(* A value put at what is in D is there, and the others stay. *)
LEMMA PutFacts ==
    ASSUME NEW f, NEW D, NEW value
    PROVE  /\ DOMAIN Examples!Put(f, D, value) = DOMAIN f \cup D
           /\ Examples!Put(f, D, value) = [x \in DOMAIN f \cup D |-> Examples!Put(f, D, value)[x]]
           /\ \A x \in D : Examples!Put(f, D, value)[x] = value
           /\ \A x \in DOMAIN f : x \notin D => Examples!Put(f, D, value)[x] = f[x]
BY DEF Examples!Put

(* The arguments hold no student. *)
LEMMA ArgsAreNone == Examples!result_read(Args).value = Examples!NoStudent
<1>1. PICK no : no = "0743111245"
  OBVIOUS
<1>2. Examples!result_read(Examples!args_write(no)) = Clients!result_read(Clients!args_write(no))
  BY Zenon DEF Examples!result_read, Clients!result_read, Examples!args_write, Clients!args_write,
     Examples!Field, Clients!Field, Examples!Stop, Clients!Stop, Examples!Found, Clients!Found,
     Examples!Before, Clients!Before, Examples!Ends, Clients!Ends, Examples!Min, Clients!Min,
     Examples!Max, Clients!Max, Examples!NoStudent, Clients!NoStudent, Examples!Student_read,
     Clients!Student_read, Examples!Read, Clients!Read
<1>3. Examples!NoStudent = Clients!NoStudent
  BY Zenon DEF Examples!NoStudent, Clients!NoStudent
<1> QED BY <1>1, <1>2, <1>3, ArgsRead, Zenon DEF Args

(* The requests deleted after one more is. *)
LEMMA GoneAppend ==
    ASSUME NEW S, NEW list \in Seq(S), NEW m \in S
    PROVE  /\ Gone(m, Append(list, m)) = Gone(m, list) \cup {Len(list) + 1}
           /\ \A x : x # m => Gone(x, Append(list, m)) = Gone(x, list)
           /\ \A x : Gone(x, list) \subseteq Gone(x, Append(list, m))
<1>1. PICK l : l = Append(list, m)
  OBVIOUS
<1>2. /\ DOMAIN l = DOMAIN list \cup {Len(list) + 1} /\ Len(list) + 1 \notin DOMAIN list
      /\ l[Len(list) + 1] = m /\ \A i \in DOMAIN list : l[i] = list[i]
  BY <1>1, AppendFacts
<1>3. Gone(m, l) = Gone(m, list) \cup {Len(list) + 1}
  BY <1>2 DEF Gone
<1>4. ASSUME NEW x, x # m PROVE Gone(x, l) = Gone(x, list)
  BY <1>2, <1>4 DEF Gone
<1> QED BY <1>1, <1>3, <1>4

(* The events that are to come after the first. *)
LEMMA ComingTail ==
    ASSUME NEW S, NEW list \in Seq(S), list # << >>, NEW of, NEW m, m = Of(list[1], of), OneOf({}, Coming(m, list, of), {})
    PROVE  /\ Coming(m, Tail(list), of) = {}
           /\ \A x, A, B : x # m /\ OneOf(A, Coming(x, list, of), B) => OneOf(A, Coming(x, Tail(list), of), B)
           /\ \A x : Coming(x, list, of) = {} => Coming(x, Tail(list), of) = {}
<1>1. PICK l : l = Tail(list)
  OBVIOUS
<1>2. 1 \in DOMAIN list /\ (\A i \in DOMAIN l : i + 1 \in DOMAIN list /\ l[i] = list[i + 1] /\ i \in Nat \ {0})
  BY <1>1, TailFacts
<1>3. \A i \in DOMAIN list : i # 1 => i - 1 \in DOMAIN l /\ l[i - 1] = list[i] /\ i \in Nat
  BY <1>1, TailFacts
<1>4. \A x, i : i \in Coming(x, l, of) => i + 1 \in Coming(x, list, of) /\ i \in Nat \ {0}
  BY <1>2 DEF Coming
<1>5. \A x, i : i \in Coming(x, list, of) /\ i # 1 => i - 1 \in Coming(x, l, of) /\ i \in Nat
  BY <1>3 DEF Coming
<1>6. Coming(m, l, of) = {}
  <2>1. 1 \in Coming(m, list, of)
    BY <1>2 DEF Coming
  <2>2. Coming(m, list, of) = {1}
    BY <2>1 DEF OneOf
  <2> QED BY <1>4, <2>2
<1>7. ASSUME NEW x, x # m, NEW A, NEW B, OneOf(A, Coming(x, list, of), B) PROVE OneOf(A, Coming(x, l, of), B)
  <2>1. 1 \notin Coming(x, list, of)
    BY <1>7 DEF Coming
  <2>2. CASE Coming(x, list, of) = {}
    <3>1. Coming(x, l, of) = {}
      BY <1>4, <2>2
    <3> QED BY <1>7, <2>2, <3>1
  <2>3. ASSUME NEW i, Coming(x, list, of) = {i}, A = {}, B = {} PROVE OneOf(A, Coming(x, l, of), B)
    <3>1. i - 1 \in Coming(x, l, of) /\ i \in Nat
      BY <1>5, <2>1, <2>3
    <3>2. \A j : j \in Coming(x, l, of) => j = i - 1
      <4>1. ASSUME NEW j, j \in Coming(x, l, of) PROVE j = i - 1
        <5>1. j + 1 = i /\ j \in Nat
          BY <1>4, <2>3, <4>1
        <5> QED BY <3>1, <5>1
      <4> QED BY <4>1
    <3>3. Coming(x, l, of) = {i - 1}
      BY <3>1, <3>2
    <3> QED BY <2>3, <3>3 DEF OneOf
  <2> QED BY <1>7, <2>2, <2>3, Zenon DEF OneOf
<1>8. ASSUME NEW x, Coming(x, list, of) = {} PROVE Coming(x, l, of) = {}
  BY <1>4, <1>8
<1> QED BY <1>1, <1>6, <1>7, <1>8

(* The first event owns the request it is about: it was asked, no call has it, and it was not
   deleted. *)
LEMMA ProxyFirst ==
    ASSUME ProxyInv, todo # << >>, NEW m, m = Of(todo[1], ctx)
    PROVE  /\ m \in Reqs /\ IsAsked(m) /\ OneOf({}, Coming(m, todo, ctx), {})
           /\ Held(m, ctx, call) = {} /\ Gone(m, deleted) = {}
           /\ \A i \in DOMAIN answered[m.c] : answered[m.c][i] # m.no
<1> DEFINE Ev == HttpEvents \cup ThriftEvents
<1>0. todo \in Seq(Ev) /\ ctx \in [0 .. smseqid - 1 -> Reqs] /\ DOMAIN call = 0 .. smseqid - 1
  BY DEF ProxyInv, ProxyTypes
<1>1. 1 \in DOMAIN todo /\ todo[1] \in Ev
  <2> HIDE DEF Ev
  <2> QED BY <1>0
<1>2. m \in Reqs
  <2>1. CASE todo[1] \in HttpEvents
    BY <2>1 DEF HttpEvents, Of
  <2>2. CASE todo[1] \in ThriftEvents
    <3>1. todo[1].id = "thrift" /\ "thrift" # "http"
      BY <2>2 DEF ThriftEvents
    <3>2. EventSound(todo[1], call, DOMAIN result)
      BY <1>1 DEF ProxyInv, ProxyEvents
    <3>3. todo[1].s \in 0 .. smseqid - 1
      BY <1>0, <3>1, <3>2 DEF EventSound
    <3> QED BY <1>0, <3>1, <3>3 DEF Of
  <2> QED BY <1>1, <2>1, <2>2
<1>3. 1 \in Coming(m, todo, ctx)
  BY <1>1 DEF Coming
<1>4. Owner(IsAsked(m), Held(m, ctx, call), Coming(m, todo, ctx), Gone(m, deleted))
  BY <1>2 DEF ProxyInv, ProxyOwners
<1>5. IsAsked(m) /\ OneOf(Held(m, ctx, call), Coming(m, todo, ctx), Gone(m, deleted))
  BY <1>3, <1>4, Zenon DEF Owner
<1>6. Held(m, ctx, call) = {} /\ Gone(m, deleted) = {}
  BY <1>3, <1>5 DEF OneOf
<1>7. \A i \in DOMAIN answered[m.c] : answered[m.c][i] # m.no
  <2>1. m.c \in HttpConn /\ m = [c |-> m.c, no |-> m.no]
    BY <1>2 DEF Reqs
  <2>2. ASSUME NEW i \in DOMAIN answered[m.c], answered[m.c][i] = m.no PROVE FALSE
    <3>1. Gone([c |-> m.c, no |-> answered[m.c][i]], deleted) # {}
      BY <2>1 DEF ProxyInv, ProxyAnswers
    <3> QED BY <1>6, <2>1, <2>2, <3>1
  <2> QED BY <2>2
<1> QED BY <1>2, <1>5, <1>6, <1>7

(* What the next events are. *)
LEMMA EventsTail ==
    ASSUME ProxyTypes, ProxyEvents, todo # << >>
    PROVE  /\ Tail(todo) \in Seq(HttpEvents \cup ThriftEvents)
           /\ \A i \in DOMAIN Tail(todo) : EventSound(Tail(todo)[i], call, DOMAIN result)
<1> DEFINE Ev == HttpEvents \cup ThriftEvents
<1>1. todo \in Seq(Ev)
  BY DEF ProxyTypes
<1> HIDE DEF Ev
<1>2. Tail(todo) \in Seq(Ev) /\ \A i \in DOMAIN Tail(todo) : i + 1 \in DOMAIN todo /\ Tail(todo)[i] = todo[i + 1]
  BY <1>1, TailFacts
<1>3. \A i \in DOMAIN Tail(todo) : EventSound(Tail(todo)[i], call, DOMAIN result)
  BY <1>2 DEF ProxyEvents
<1> QED BY <1>2, <1>3 DEF Ev

(* The first event is answered. *)
LEMMA ProxySend ==
    ASSUME ProxyInv, todo # << >>, NEW m, m = Of(todo[1], ctx), NEW student,
           student = Examples!NoStudent \/ \E s \in DOMAIN result : ctx[s] = m /\ student = Examples!result_read(Result).value,
           Examples!DoSendHttpResponse(m, student), todo' = Tail(todo),
           UNCHANGED <<clients, received, result, ctx, args, call, smseqid, peerstatus>>
    PROVE  ProxyInv'
<1>1. /\ m \in Reqs /\ IsAsked(m) /\ OneOf({}, Coming(m, todo, ctx), {})
      /\ Held(m, ctx, call) = {} /\ Gone(m, deleted) = {}
  BY ProxyFirst
<1>2. m.c \in HttpConn /\ m.no \in 1 .. MaxRequests /\ m = [c |-> m.c, no |-> m.no]
  BY <1>1 DEF Reqs
<1>3. /\ clients \subseteq HttpConn /\ received \in [HttpConn -> 0 .. MaxRequests]
      /\ answered \in [HttpConn -> Seq(1 .. MaxRequests)] /\ deleted \in Seq(Reqs)
      /\ smseqid \in Nat /\ ctx \in [0 .. smseqid - 1 -> Reqs]
  BY DEF ProxyInv, ProxyTypes
<1>4. /\ deleted' = Append(deleted, m)
      /\ \/ UNCHANGED <<answered, response>>
         \/ /\ answered' = [answered EXCEPT ![m.c] = Append(@, m.no)]
            /\ response' = Examples!Put(response, {m}, student)
  BY DEF Examples!DoSendHttpResponse
<1>5. /\ Tail(todo) \in Seq(HttpEvents \cup ThriftEvents)
      /\ \A i \in DOMAIN Tail(todo) : EventSound(Tail(todo)[i], call, DOMAIN result)
  BY EventsTail DEF ProxyInv
<1>6. ProxyTypes'
  <2>1. answered' \in [HttpConn -> Seq(1 .. MaxRequests)]
    <3> DEFINE N == 1 .. MaxRequests
    <3>1. answered \in [HttpConn -> Seq(N)] /\ m.no \in N
      BY <1>2, <1>3
    <3> HIDE DEF N
    <3>2. Append(answered[m.c], m.no) \in Seq(N)
      BY <1>2, <3>1
    <3>3. answered' \in [HttpConn -> Seq(N)]
      BY <1>2, <1>4, <3>1, <3>2
    <3> QED BY <3>3 DEF N
  <2>2. deleted' \in Seq(Reqs)
    BY <1>1, <1>3, <1>4
  <2>3. todo' \in Seq(HttpEvents \cup ThriftEvents)
    BY <1>5, Zenon
  <2> QED BY <2>1, <2>2, <2>3, Zenon DEF ProxyInv, ProxyTypes
<1>7. ProxyOwners'
  <2>1. /\ Gone(m, deleted') = Gone(m, deleted) \cup {Len(deleted) + 1}
        /\ \A x : x # m => Gone(x, deleted') = Gone(x, deleted)
    BY <1>1, <1>3, <1>4, GoneAppend
  <2>2. /\ Coming(m, todo', ctx) = {}
        /\ \A x, A, B : x # m /\ OneOf(A, Coming(x, todo, ctx), B) => OneOf(A, Coming(x, todo', ctx), B)
        /\ \A x : Coming(x, todo, ctx) = {} => Coming(x, todo', ctx) = {}
    <3> DEFINE Ev == HttpEvents \cup ThriftEvents
    <3>1. todo \in Seq(Ev)
      BY DEF ProxyInv, ProxyTypes
    <3> HIDE DEF Ev
    <3> QED BY <3>1, <1>1, ComingTail
  <2>3. ASSUME NEW x \in Reqs
        PROVE  Owner(IsAsked(x), Held(x, ctx, call), Coming(x, todo', ctx), Gone(x, deleted'))
    <3>1. CASE x = m
      <4>1. Gone(m, deleted') = {Len(deleted) + 1}
        BY <1>1, <2>1
      <4> QED BY <1>1, <2>2, <3>1, <4>1 DEF Owner, OneOf
    <3>2. CASE x # m
      <4>1. Owner(IsAsked(x), Held(x, ctx, call), Coming(x, todo, ctx), Gone(x, deleted))
        BY DEF ProxyInv, ProxyOwners
      <4>2. Gone(x, deleted') = Gone(x, deleted)
        BY <2>1, <3>2
      <4> QED BY <2>2, <3>2, <4>1, <4>2, Zenon DEF Owner
    <3> QED BY <3>1, <3>2
  <2>4. received' = received /\ ctx' = ctx /\ call' = call
    OBVIOUS
  <2> QED BY <2>3, <2>4, Zenon DEF ProxyOwners, IsAsked
<1>8. ProxyEvents'
  <2>1. call' = call /\ result' = result
    OBVIOUS
  <2> QED BY <1>5, <2>1, Zenon DEF ProxyEvents
<1>9. ProxyResults' /\ ProxyWaits'
  BY Zenon DEF ProxyInv, ProxyResults, ProxyWaits
<1>10. ProxyStudents'
  <2>1. ASSUME NEW x \in DOMAIN response'
        PROVE  response'[x] = Examples!NoStudent
               \/ \E s \in DOMAIN result : ctx[s] = x /\ response'[x] = Examples!result_read(Result).value
    <3>1. CASE (x \in DOMAIN response /\ response'[x] = response[x])
      BY <3>1, Zenon DEF ProxyInv, ProxyStudents
    <3>2. CASE x = m /\ response'[x] = student
      BY <3>2, Zenon
    <3> QED BY <1>4, <2>1, <3>1, <3>2 DEF Examples!Put
  <2>2. ctx' = ctx /\ result' = result
    OBVIOUS
  <2> QED BY <2>1, <2>2, Zenon DEF ProxyStudents
<1>11. ProxyAnswers'
  <2>1. \A x : Gone(x, deleted) \subseteq Gone(x, deleted')
    BY <1>1, <1>3, <1>4, GoneAppend
  <2>2. Gone(m, deleted') # {}
    <3>1. Gone(m, deleted') = Gone(m, deleted) \cup {Len(deleted) + 1}
      BY <1>1, <1>3, <1>4, GoneAppend
    <3> QED BY <3>1
  <2>3. ASSUME NEW c \in HttpConn, NEW i \in DOMAIN answered'[c]
        PROVE  Gone([c |-> c, no |-> answered'[c][i]], deleted') # {}
    <3>1. CASE i \in DOMAIN answered[c] /\ answered'[c][i] = answered[c][i]
      BY <3>1, <2>1 DEF ProxyInv, ProxyAnswers
    <3>2. CASE c = m.c /\ answered'[c][i] = m.no
      <4>1. [c |-> c, no |-> answered'[c][i]] = m
        BY <1>2, <3>2, SMTT(30)
      <4> QED BY <4>1, <2>2
    <3>3. CASE answered'[c] = Append(answered[c], m.no) /\ c = m.c
      <4> DEFINE N == 1 .. MaxRequests
      <4>1. answered[c] \in Seq(N) /\ m.no \in N
        BY <1>2, <1>3
      <4> HIDE DEF N
      <4>2. (i \in DOMAIN answered[c] /\ answered'[c][i] = answered[c][i]) \/ answered'[c][i] = m.no
        BY <2>3, <3>3, <4>1
      <4> QED BY <3>1, <3>2, <3>3, <4>2
    <3>4. CASE answered'[c] = answered[c]
      BY <2>3, <3>1, <3>4
    <3> QED BY <1>2, <1>3, <1>4, <3>3, <3>4
  <2> QED BY <2>3, Zenon DEF ProxyAnswers
<1> QED BY <1>6, <1>7, <1>8, <1>9, <1>10, <1>11, Zenon DEF ProxyInv

(* For the first event the peer is asked. *)
LEMMA ProxyAsk ==
    ASSUME ProxyInv, todo # << >>, NEW m, m = Of(todo[1], ctx), Examples!DoTestThriftRequest(m), todo' = Tail(todo),
           UNCHANGED <<clients, received, answered, response, deleted, result>>
    PROVE  ProxyInv'
<1>1. /\ m \in Reqs /\ IsAsked(m) /\ OneOf({}, Coming(m, todo, ctx), {})
      /\ Held(m, ctx, call) = {} /\ Gone(m, deleted) = {}
  BY ProxyFirst
<1>2. /\ smseqid \in Nat /\ ctx \in [0 .. smseqid - 1 -> Reqs]
      /\ call \in [0 .. smseqid - 1 -> {"waiting", "sent", "served", "done"}]
      /\ args = [s \in 0 .. smseqid - 1 |-> Args] /\ DOMAIN result \subseteq 0 .. smseqid - 1
  BY DEF ProxyInv, ProxyTypes
<1>3. PICK n \in Nat : n = smseqid
  BY <1>2
<1>4. PICK value : value = IF peerstatus = "connected" THEN "sent" ELSE "waiting"
  OBVIOUS
<1>5. /\ smseqid' = n + 1 /\ ctx' = Examples!Put(ctx, {n}, m) /\ args' = Examples!Put(args, {n}, Args)
      /\ call' = Examples!Put(call, {n}, value)
  BY <1>3, <1>4, Zenon DEF Examples!DoTestThriftRequest, Args
<1>6. 0 .. (n + 1) - 1 = (0 .. n - 1) \cup {n} /\ n \notin 0 .. n - 1
  OBVIOUS
<1>7. value \in {"waiting", "sent", "served", "done"} /\ value # "done" /\ value # "served"
  BY <1>4
<1>8. /\ ctx \in [0 .. n - 1 -> Reqs] /\ call \in [0 .. n - 1 -> {"waiting", "sent", "served", "done"}]
      /\ args = [s \in 0 .. n - 1 |-> Args] /\ DOMAIN result \subseteq 0 .. n - 1
  BY <1>2, <1>3
<1>9. /\ DOMAIN ctx' = (0 .. n - 1) \cup {n} /\ ctx'[n] = m /\ \A s \in 0 .. n - 1 : ctx'[s] = ctx[s]
      /\ DOMAIN call' = (0 .. n - 1) \cup {n} /\ call'[n] = value /\ \A s \in 0 .. n - 1 : call'[s] = call[s]
  BY <1>5, <1>6, <1>8 DEF Examples!Put
<1>10. /\ Tail(todo) \in Seq(HttpEvents \cup ThriftEvents)
       /\ \A i \in DOMAIN Tail(todo) : EventSound(Tail(todo)[i], call, DOMAIN result)
  BY EventsTail DEF ProxyInv
<1>11. ProxyTypes'
  <2>1. ctx' \in [(0 .. n - 1) \cup {n} -> Reqs]
    BY <1>1, <1>5, <1>8 DEF Examples!Put
  <2>2. call' \in [(0 .. n - 1) \cup {n} -> {"waiting", "sent", "served", "done"}]
    BY <1>5, <1>7, <1>8 DEF Examples!Put
  <2>3. args' = [s \in (0 .. n - 1) \cup {n} |-> Args]
    BY <1>5, <1>8 DEF Examples!Put
  <2>4. todo' \in Seq(HttpEvents \cup ThriftEvents)
    BY <1>10, Zenon
  <2>5. /\ smseqid' \in Nat /\ 0 .. smseqid' - 1 = (0 .. n - 1) \cup {n}
        /\ DOMAIN result' \subseteq 0 .. smseqid' - 1 /\ result' = [s \in DOMAIN result' |-> Result]
    <3>1. result = [s \in DOMAIN result |-> Result]
      BY DEF ProxyInv, ProxyTypes
    <3>2. result' = [s \in DOMAIN result' |-> Result]
      BY <3>1, Zenon
    <3> QED BY <1>5, <1>6, <1>8, <3>2
  <2>6. /\ ctx' \in [0 .. smseqid' - 1 -> Reqs] /\ args' = [s \in 0 .. smseqid' - 1 |-> Args]
        /\ call' \in [0 .. smseqid' - 1 -> {"waiting", "sent", "served", "done"}]
    BY <2>1, <2>2, <2>3, <2>5
  <2>7. /\ clients' \subseteq HttpConn /\ received' \in [HttpConn -> 0 .. MaxRequests]
        /\ answered' \in [HttpConn -> Seq(1 .. MaxRequests)] /\ deleted' \in Seq(Reqs)
    BY Zenon DEF ProxyInv, ProxyTypes
  <2> QED BY <2>4, <2>5, <2>6, <2>7, Zenon DEF ProxyTypes
<1>12. ProxyOwners'
  <2>1. Held(m, ctx', call') = {n} /\ \A x : x # m => Held(x, ctx', call') = Held(x, ctx, call)
    <3>1. n \notin DOMAIN call /\ DOMAIN ctx = DOMAIN call
      BY <1>6, <1>8
    <3>2. Held(m, ctx', call') = Held(m, ctx, call) \cup {n}
      BY <1>7, <1>8, <1>9, <3>1 DEF Held
    <3>3. ASSUME NEW x, x # m PROVE Held(x, ctx', call') = Held(x, ctx, call)
      BY <1>8, <1>9, <3>1, <3>3 DEF Held
    <3> QED BY <1>1, <3>2, <3>3
  <2>2. /\ Coming(m, todo', ctx) = {}
        /\ \A x, A, B : x # m /\ OneOf(A, Coming(x, todo, ctx), B) => OneOf(A, Coming(x, todo', ctx), B)
        /\ \A x : Coming(x, todo, ctx) = {} => Coming(x, todo', ctx) = {}
    <3> DEFINE Ev == HttpEvents \cup ThriftEvents
    <3>1. todo \in Seq(Ev)
      BY DEF ProxyInv, ProxyTypes
    <3> HIDE DEF Ev
    <3> QED BY <3>1, <1>1, ComingTail
  <2>3. \A x : Coming(x, todo', ctx') = Coming(x, todo', ctx)
    <3>1. ASSUME NEW i \in DOMAIN todo' PROVE Of(todo'[i], ctx') = Of(todo'[i], ctx)
      <4>1. EventSound(todo'[i], call, DOMAIN result)
        BY <1>10, <3>1
      <4>2. CASE todo'[i].id = "thrift"
        <5>1. todo'[i].s \in 0 .. n - 1
          BY <1>8, <4>1, <4>2 DEF EventSound
        <5> QED BY <1>9, <5>1 DEF Of
      <4>3. CASE todo'[i].id # "thrift"
        <5>1. todo'[i].id = "http"
          <6> DEFINE Ev == HttpEvents \cup ThriftEvents
          <6>1. todo' \in Seq(Ev)
            BY <1>10, Zenon
          <6>2. todo'[i] \in Ev
            <7> HIDE DEF Ev
            <7> QED BY <6>1, <3>1
          <6> QED BY <6>2, <4>3 DEF HttpEvents, ThriftEvents
        <5> QED BY <5>1 DEF Of
      <4> QED BY <4>2, <4>3
    <3> QED BY <3>1 DEF Coming
  <2>4. ASSUME NEW x \in Reqs
        PROVE  Owner(IsAsked(x), Held(x, ctx', call'), Coming(x, todo', ctx'), Gone(x, deleted))
    <3>1. CASE x = m
      <4>1. Coming(x, todo', ctx') = {}
        BY <2>2, <2>3, <3>1
      <4> QED BY <1>1, <2>1, <3>1, <4>1 DEF Owner, OneOf
    <3>2. CASE x # m
      <4>1. Owner(IsAsked(x), Held(x, ctx, call), Coming(x, todo, ctx), Gone(x, deleted))
        BY DEF ProxyInv, ProxyOwners
      <4>2. Held(x, ctx', call') = Held(x, ctx, call) /\ Coming(x, todo', ctx') = Coming(x, todo', ctx)
        BY <2>1, <2>3, <3>2
      <4> QED BY <2>2, <3>2, <4>1, <4>2, Zenon DEF Owner
    <3> QED BY <3>1, <3>2
  <2>5. received' = received /\ deleted' = deleted
    OBVIOUS
  <2> QED BY <2>4, <2>5, Zenon DEF ProxyOwners, IsAsked
<1>13. ProxyEvents'
  <2>1. ASSUME NEW i \in DOMAIN todo' PROVE EventSound(todo'[i], call', DOMAIN result)
    <3>1. EventSound(todo'[i], call, DOMAIN result)
      BY <1>10, <2>1
    <3>2. DOMAIN call = 0 .. n - 1
      BY <1>8
    <3> QED BY <1>9, <3>1, <3>2 DEF EventSound
  <2>2. result' = result
    OBVIOUS
  <2> QED BY <2>1, <2>2, Zenon DEF ProxyEvents
<1>14. ProxyResults'
  <2>1. n \notin DOMAIN result /\ DOMAIN call = 0 .. n - 1
    BY <1>6, <1>8
  <2>2. ASSUME NEW s \in DOMAIN call'
        PROVE  /\ call'[s] = "served" => s \in DOMAIN result
               /\ s \in DOMAIN result => call'[s] \in {"served", "done"}
    BY <1>7, <1>9, <2>1 DEF ProxyInv, ProxyResults
  <2>3. result' = result
    OBVIOUS
  <2> QED BY <2>2, <2>3, Zenon DEF ProxyResults
<1>15. ProxyStudents'
  <2>1. ASSUME NEW x \in DOMAIN response
        PROVE  response[x] = Examples!NoStudent
               \/ \E s \in DOMAIN result : ctx'[s] = x /\ response[x] = Examples!result_read(Result).value
    <3>1. CASE response[x] = Examples!NoStudent
      BY <3>1
    <3>2. ASSUME NEW s \in DOMAIN result, ctx[s] = x, response[x] = Examples!result_read(Result).value
          PROVE  \E r \in DOMAIN result : ctx'[r] = x /\ response[x] = Examples!result_read(Result).value
      <4>1. ctx'[s] = ctx[s]
        BY <1>8, <1>9
      <4> QED BY <3>2, <4>1
    <3> QED BY <3>1, <3>2, Zenon DEF ProxyInv, ProxyStudents
  <2>2. response' = response /\ result' = result
    OBVIOUS
  <2> QED BY <2>1, <2>2, Zenon DEF ProxyStudents
<1>16. ProxyWaits'
  <2>1. \/ peerstatus \in {"connected", "connecting"} /\ peerstatus' = peerstatus
        \/ peerstatus' = "connecting"
    BY DEF Examples!DoTestThriftRequest, Examples!session
  <2>2. ASSUME NEW s \in DOMAIN call', call'[s] = "waiting" PROVE peerstatus' = "connecting"
    <3>1. CASE s = n
      BY <1>4, <1>9, <2>1, <2>2, <3>1
    <3>2. CASE s # n
      <4>1. s \in DOMAIN call /\ call[s] = "waiting"
        BY <1>8, <1>9, <2>2, <3>2
      <4> QED BY <2>1, <4>1 DEF ProxyInv, ProxyWaits
    <3> QED BY <3>1, <3>2
  <2> QED BY <2>2, Zenon DEF ProxyWaits
<1>17. ProxyAnswers'
  BY Zenon DEF ProxyInv, ProxyAnswers
<1> QED BY <1>11, <1>12, <1>13, <1>14, <1>15, <1>16, <1>17, Zenon DEF ProxyInv

(* Calls that are open come back, each as one event, with their arguments or their results. *)
LEMMA ProxyBack ==
    ASSUME ProxyInv, todo = << >>, NEW S \in SUBSET DOMAIN call, \A s \in S : call[s] # "done",
           NEW order \in Seq(S), {order[i] : i \in DOMAIN order} = S, Distinct(order),
           NEW bodies, \A s \in S : bodies[s] = Args \/ (s \in DOMAIN result /\ bodies[s] = Result),
           call' = Examples!Put(call, S, "done"),
           todo' = [i \in DOMAIN order |-> Examples!Notify(order[i], bodies[order[i]])],
           UNCHANGED <<clients, received, answered, response, deleted, smseqid, ctx, args, result>>,
           ProxyWaits'
    PROVE  ProxyInv'
<1>1. PICK n \in Nat : n = smseqid
  BY DEF ProxyInv, ProxyTypes
<1>2. /\ ctx \in [0 .. n - 1 -> Reqs] /\ call \in [0 .. n - 1 -> {"waiting", "sent", "served", "done"}]
      /\ DOMAIN result \subseteq 0 .. n - 1
  BY <1>1 DEF ProxyInv, ProxyTypes
<1>3. /\ DOMAIN call' = 0 .. n - 1 /\ call' \in [0 .. n - 1 -> {"waiting", "sent", "served", "done"}]
      /\ \A s \in 0 .. n - 1 : call'[s] = IF s \in S THEN "done" ELSE call[s]
  BY <1>2 DEF Examples!Put
<1>4. S \subseteq 0 .. n - 1 /\ S \subseteq Nat
  BY <1>2, SMTT(30)
<1>5. PICK k \in Nat : DOMAIN order = 1 .. k
  <2>1. Len(order) \in Nat /\ DOMAIN order = 1 .. Len(order)
    OBVIOUS
  <2> QED BY <2>1
<1>6. \A i \in 1 .. k : order[i] \in S
  BY <1>5
<1>7. /\ DOMAIN todo' = 1 .. k
      /\ \A i \in 1 .. k : todo'[i] = [id |-> "thrift", s |-> order[i], body |-> bodies[order[i]]]
  BY <1>5 DEF Examples!Notify
<1>8. \A i \in 1 .. k : todo'[i].id = "thrift" /\ todo'[i].s = order[i] /\ todo'[i].body = bodies[order[i]]
  <2>1. ASSUME NEW i \in 1 .. k
        PROVE  todo'[i].id = "thrift" /\ todo'[i].s = order[i] /\ todo'[i].body = bodies[order[i]]
    <3>1. PICK body : body = bodies[order[i]]
      OBVIOUS
    <3>2. todo'[i] = [id |-> "thrift", s |-> order[i], body |-> body]
      BY <1>7, <3>1
    <3> QED BY <3>1, <3>2
  <2> QED BY <2>1
<1>9. ProxyTypes'
  <2>1. todo' \in Seq(HttpEvents \cup ThriftEvents)
    <3>1. ASSUME NEW i \in 1 .. k PROVE todo'[i] \in ThriftEvents
      <4>1. order[i] \in Nat /\ bodies[order[i]] \in {Args, Result}
        BY <1>4, <1>6
      <4>2. \A a \in Nat, b \in {Args, Result} : [id |-> "thrift", s |-> a, body |-> b] \in ThriftEvents
        BY DEF ThriftEvents
      <4> QED BY <1>7, <4>1, <4>2, ZenonT(30)
    <3> DEFINE Ev == HttpEvents \cup ThriftEvents
    <3>2. \A i \in 1 .. k : todo'[i] \in Ev
      BY <3>1
    <3>3. todo' = [i \in 1 .. k |-> todo'[i]]
      BY <1>5
    <3> HIDE DEF Ev
    <3>4. todo' \in Seq(Ev)
      BY <3>2, <3>3
    <3> QED BY <3>4 DEF Ev
  <2>2. call' \in [0 .. smseqid' - 1 -> {"waiting", "sent", "served", "done"}]
    BY <1>1, <1>3
  <2> QED BY <2>1, <2>2, Zenon DEF ProxyInv, ProxyTypes
<1>10. ProxyOwners'
  <2>1. \A x : Held(x, ctx, call') = Held(x, ctx, call) \ S
    BY <1>2, <1>3 DEF Held
  <2>2. \A x : Coming(x, todo, ctx) = {}
    BY DEF Coming
  <2>3. \A x : Coming(x, todo', ctx) = {i \in 1 .. k : ctx[order[i]] = x}
    <3>1. \A i \in 1 .. k : Of(todo'[i], ctx) = ctx[order[i]]
      BY <1>8 DEF Of
    <3> QED BY <1>7, <3>1 DEF Coming
  <2>4. ASSUME NEW x \in Reqs
        PROVE  Owner(IsAsked(x), Held(x, ctx, call'), Coming(x, todo', ctx), Gone(x, deleted))
    <3>1. Owner(IsAsked(x), Held(x, ctx, call), {}, Gone(x, deleted))
      BY <2>2, Zenon DEF ProxyInv, ProxyOwners
    <3>2. ASSUME NEW i \in Coming(x, todo', ctx) PROVE i \in 1 .. k /\ order[i] \in Held(x, ctx, call) /\ order[i] \in S
      BY <1>6, <1>2, <2>3, <3>2 DEF Held
    <3>3. CASE Held(x, ctx, call) = {}
      <4>1. Held(x, ctx, call') = {} /\ Coming(x, todo', ctx) = {}
        BY <2>1, <3>2, <3>3
      <4> QED BY <3>1, <3>3, <4>1, Zenon
    <3>4. ASSUME NEW s, Held(x, ctx, call) = {s}, s \notin S
          PROVE  Owner(IsAsked(x), Held(x, ctx, call'), Coming(x, todo', ctx), Gone(x, deleted))
      <4>1. Held(x, ctx, call') = {s} /\ Coming(x, todo', ctx) = {}
        BY <2>1, <3>2, <3>4
      <4> QED BY <3>1, <3>4, <4>1, Zenon
    <3>5. ASSUME NEW s, Held(x, ctx, call) = {s}, s \in S
          PROVE  Owner(IsAsked(x), Held(x, ctx, call'), Coming(x, todo', ctx), Gone(x, deleted))
      <4>1. Held(x, ctx, call') = {}
        BY <2>1, <3>5
      <4>2. PICK i \in 1 .. k : order[i] = s
        BY <1>5, <3>5
      <4>3. Coming(x, todo', ctx) = {i}
        <5>1. i \in Coming(x, todo', ctx)
          <6>1. ctx[s] = x
            BY <3>5 DEF Held
          <6> QED BY <2>3, <4>2, <6>1
        <5>2. ASSUME NEW j \in Coming(x, todo', ctx) PROVE j = i
          BY <1>5, <3>2, <3>5, <4>2, <5>2 DEF Distinct
        <5> QED BY <5>1, <5>2
      <4>4. IsAsked(x) /\ Gone(x, deleted) = {}
        BY <3>1, <3>5 DEF Owner, OneOf
      <4> QED BY <4>1, <4>3, <4>4 DEF Owner, OneOf
    <3>6. Held(x, ctx, call) = {} \/ \E s : Held(x, ctx, call) = {s}
      BY <3>1 DEF Owner, OneOf
    <3> QED BY <3>3, <3>4, <3>5, <3>6
  <2>5. received' = received /\ deleted' = deleted /\ ctx' = ctx
    OBVIOUS
  <2> QED BY <2>4, <2>5, Zenon DEF ProxyOwners, IsAsked
<1>11. ProxyEvents'
  <2>1. ASSUME NEW i \in DOMAIN todo' PROVE EventSound(todo'[i], call', DOMAIN result)
    <3>1. i \in 1 .. k /\ order[i] \in S /\ order[i] \in 0 .. n - 1
      BY <1>4, <1>6, <1>7
    <3>2. call'[order[i]] = "done" /\ order[i] \in DOMAIN call'
      BY <1>3, <3>1
    <3>3. bodies[order[i]] = Args \/ (order[i] \in DOMAIN result /\ bodies[order[i]] = Result)
      BY <3>1
    <3> QED BY <1>8, <3>1, <3>2, <3>3 DEF EventSound
  <2>2. result' = result
    OBVIOUS
  <2> QED BY <2>1, <2>2, Zenon DEF ProxyEvents
<1>12. ProxyResults'
  <2>1. ASSUME NEW s \in DOMAIN call'
        PROVE  /\ call'[s] = "served" => s \in DOMAIN result
               /\ s \in DOMAIN result => call'[s] \in {"served", "done"}
    BY <1>2, <1>3 DEF ProxyInv, ProxyResults
  <2>2. result' = result
    OBVIOUS
  <2> QED BY <2>1, <2>2, Zenon DEF ProxyResults
<1>13. ProxyStudents' /\ ProxyAnswers'
  BY Zenon DEF ProxyInv, ProxyStudents, ProxyAnswers
<1> QED BY <1>9, <1>10, <1>11, <1>12, <1>13, Zenon DEF ProxyInv

(* The requests of the examples are finitely many, and a connection has at most MaxRequests. *)
LEMMA ReqsFinite ==
    ASSUME Examples!ProxyAssumption
    PROVE  IsFiniteSet(Reqs)
<1>1. IsFiniteSet(HttpConn) /\ MaxRequests \in Nat
  <2>1. Examples!IsFiniteSet(HttpConn) <=> IsFiniteSet(HttpConn)
    BY Zenon DEF Examples!IsFiniteSet, IsFiniteSet
  <2> QED BY <2>1 DEF Examples!ProxyAssumption
<1>2. IsFiniteSet(1 .. MaxRequests)
  BY <1>1, FS_Interval
<1>3. IsFiniteSet(HttpConn \X (1 .. MaxRequests))
  BY <1>1, <1>2, FS_Product
<1> DEFINE f == [p \in HttpConn \X (1 .. MaxRequests) |-> [c |-> p[1], no |-> p[2]]]
<1>4. f \in Surjection(HttpConn \X (1 .. MaxRequests), Reqs)
  <2>1. f \in [HttpConn \X (1 .. MaxRequests) -> Reqs]
    BY DEF Reqs
  <2>2. ASSUME NEW m \in Reqs PROVE \E p \in HttpConn \X (1 .. MaxRequests) : f[p] = m
    <3>1. m.c \in HttpConn /\ m.no \in 1 .. MaxRequests /\ m = [c |-> m.c, no |-> m.no]
      BY DEF Reqs
    <3>2. <<m.c, m.no>> \in HttpConn \X (1 .. MaxRequests) /\ f[<<m.c, m.no>>] = m
      BY <3>1
    <3> QED BY <3>2
  <2> QED BY <2>1, <2>2 DEF Surjection
<1> QED BY <1>3, <1>4, FS_Surjection

(* A connection that reads has room for one more request. *)
LEMMA RoomLeft ==
    ASSUME Examples!ProxyAssumption, ProxyTypes, NEW c \in HttpConn, Examples!Cardinality(Examples!Asked) < MaxRequests
    PROVE  received[c] + 1 \in 1 .. MaxRequests
<1> DEFINE Asked == {m \in Reqs : m.no <= received[m.c]}
<1>1. PICK N \in Nat : N = MaxRequests
  BY DEF Examples!ProxyAssumption
<1>2. Cardinality(Asked) < N
  <2>1. Examples!Cardinality(Asked) = Cardinality(Asked)
    BY Zenon DEF Examples!Cardinality, Cardinality
  <2>2. Examples!Asked = Asked
    BY Zenon DEF Examples!Asked, Examples!Requests, Reqs
  <2> QED BY <1>1, <2>1, <2>2
<1>3. IsFiniteSet(Asked) /\ Cardinality(Asked) \in Nat
  <2>1. Asked \subseteq Reqs
    OBVIOUS
  <2> HIDE DEF Asked
  <2> QED BY <2>1, ReqsFinite, FS_Subset, FS_CardinalityType
<1>4. received[c] \in 0 .. N
  BY <1>1 DEF ProxyTypes
<1>5. CASE received[c] = N
  <2> DEFINE f == [i \in 1 .. N |-> [c |-> c, no |-> i]]
  <2>1. f \in Injection(1 .. N, Asked)
    <3>1. f \in [1 .. N -> Asked]
      BY <1>1, <1>5 DEF Reqs
    <3>2. \A i, j \in 1 .. N : f[i] = f[j] => i = j
      <4>1. ASSUME NEW i \in 1 .. N, NEW j \in 1 .. N, f[i] = f[j] PROVE i = j
        <5>1. f[i].no = i /\ f[j].no = j
          OBVIOUS
        <5> QED BY <4>1, <5>1
      <4> QED BY <4>1
    <3> HIDE DEF f, Asked
    <3> QED BY <3>1, <3>2 DEF Injection, IsInjective
  <2>2. Cardinality(1 .. N) = N /\ IsFiniteSet(1 .. N)
    BY FS_Interval
  <2> HIDE DEF Asked, f
  <2>3. Cardinality(1 .. N) <= Cardinality(Asked)
    BY <1>3, <2>1, <2>2, FS_Injection
  <2> QED BY <1>2, <1>3, <2>2, <2>3
<1> QED BY <1>1, <1>4, <1>5

(* Calls that are open go on, and those that are served have results from then on. *)
LEMMA ProxyMoves ==
    ASSUME ProxyInv, NEW S \in SUBSET DOMAIN call, NEW value \in {"sent", "served"},
           \A s \in S : call[s] \notin {"served", "done"},
           call' = Examples!Put(call, S, value),
           result' = IF value = "served" THEN Examples!Put(result, S, Result) ELSE result,
           clients' \subseteq HttpConn,
           UNCHANGED <<received, answered, response, deleted, todo, smseqid, ctx, args>>,
           ProxyWaits'
    PROVE  ProxyInv'
<1>1. PICK n \in Nat : n = smseqid
  BY DEF ProxyInv, ProxyTypes
<1>2. /\ ctx \in [0 .. n - 1 -> Reqs] /\ call \in [0 .. n - 1 -> {"waiting", "sent", "served", "done"}]
      /\ DOMAIN result \subseteq 0 .. n - 1 /\ result = [s \in DOMAIN result |-> Result] /\ smseqid' = n
  BY <1>1 DEF ProxyInv, ProxyTypes
<1>3. /\ call' \in [0 .. n - 1 -> {"waiting", "sent", "served", "done"}]
      /\ \A s \in 0 .. n - 1 : call'[s] = IF s \in S THEN value ELSE call[s]
  BY <1>2 DEF Examples!Put
<1>4. PICK D : D = IF value = "served" THEN DOMAIN result \cup S ELSE DOMAIN result
  OBVIOUS
<1>5. result' = [s \in D |-> Result] /\ DOMAIN result' = D /\ D \subseteq 0 .. n - 1 /\ DOMAIN result \subseteq D
  <2>1. CASE value = "served"
    <3>1. result' = Examples!Put(result, S, Result) /\ D = DOMAIN result \cup S
      BY <2>1, <1>4
    <3>2. \A s \in DOMAIN result : result[s] = Result
      BY <1>2
    <3>3. result' = [s \in D |-> Result]
      BY <3>1, <3>2 DEF Examples!Put
    <3> QED BY <1>2, <3>1, <3>3
  <2>2. CASE value # "served"
    <3>1. result' = result /\ D = DOMAIN result
      BY <2>2, <1>4
    <3> QED BY <1>2, <3>1
  <2> QED BY <2>1, <2>2
<1>6. ProxyTypes'
  <2>1. /\ call' \in [0 .. smseqid' - 1 -> {"waiting", "sent", "served", "done"}]
        /\ DOMAIN result' \subseteq 0 .. smseqid' - 1 /\ result' = [s \in DOMAIN result' |-> Result]
    BY <1>2, <1>3, <1>5
  <2>2. /\ received' \in [HttpConn -> 0 .. MaxRequests]
        /\ answered' \in [HttpConn -> Seq(1 .. MaxRequests)] /\ deleted' \in Seq(Reqs)
        /\ todo' \in Seq(HttpEvents \cup ThriftEvents)
        /\ smseqid' \in Nat /\ ctx' \in [0 .. smseqid' - 1 -> Reqs]
        /\ args' = [s \in 0 .. smseqid' - 1 |-> Args]
    BY Zenon DEF ProxyInv, ProxyTypes
  <2> QED BY <2>1, <2>2, Zenon DEF ProxyTypes
<1>7. ProxyOwners'
  <2>1. \A x : Held(x, ctx, call') = Held(x, ctx, call)
    BY <1>2, <1>3 DEF Held
  <2>2. received' = received /\ deleted' = deleted /\ ctx' = ctx /\ todo' = todo
    OBVIOUS
  <2> QED BY <2>1, <2>2, Zenon DEF ProxyInv, ProxyOwners, IsAsked
<1>8. ProxyEvents'
  <2>1. ASSUME NEW i \in DOMAIN todo PROVE EventSound(todo[i], call', D)
    <3>1. EventSound(todo[i], call, DOMAIN result)
      BY <2>1 DEF ProxyInv, ProxyEvents
    <3>2. DOMAIN call = 0 .. n - 1 /\ DOMAIN call' = 0 .. n - 1
      BY <1>2, <1>3
    <3>3. \A s \in DOMAIN call : call[s] = "done" => call'[s] = "done"
      BY <1>3, <3>2
    <3> QED BY <1>5, <3>1, <3>2, <3>3 DEF EventSound
  <2>2. todo' = todo
    OBVIOUS
  <2> QED BY <1>5, <2>1, <2>2, Zenon DEF ProxyEvents
<1>9. ProxyResults'
  <2>1. ASSUME NEW s \in DOMAIN call'
        PROVE  /\ call'[s] = "served" => s \in D
               /\ s \in D => call'[s] \in {"served", "done"}
    <3>1. s \in 0 .. n - 1 /\ s \in DOMAIN call
      BY <1>2, <1>3, <2>1
    <3>2. /\ call[s] = "served" => s \in DOMAIN result
          /\ s \in DOMAIN result => call[s] \in {"served", "done"}
      BY <3>1 DEF ProxyInv, ProxyResults
    <3> QED BY <1>3, <1>4, <3>1, <3>2
  <2> QED BY <1>5, <2>1, Zenon DEF ProxyResults
<1>10. ProxyStudents'
  <2>1. ctx' = ctx /\ response' = response
    OBVIOUS
  <2>2. ASSUME NEW x \in DOMAIN response
        PROVE  response[x] = Examples!NoStudent
               \/ \E s \in DOMAIN result' : ctx[s] = x /\ response[x] = Examples!result_read(Result).value
    BY <1>5 DEF ProxyInv, ProxyStudents
  <2> QED BY <2>1, <2>2, Zenon DEF ProxyStudents
<1>11. ProxyAnswers'
  BY Zenon DEF ProxyInv, ProxyAnswers
<1> QED BY <1>6, <1>7, <1>8, <1>9, <1>10, <1>11, Zenon DEF ProxyInv

(* A request comes in. *)
LEMMA ProxyRead ==
    ASSUME Examples!ProxyAssumption, ProxyInv, NEW c \in HttpConn, NEW url \in {"/testthrift", "/"},
           Examples!OnRead(c, url)
    PROVE  ProxyInv'
<1>1. /\ todo = << >> /\ Examples!Cardinality(Examples!Asked) < MaxRequests
      /\ received' = [received EXCEPT ![c] = @ + 1]
      /\ todo' = <<[id |-> "http", m |-> [c |-> c, no |-> received[c] + 1], url |-> url]>>
      /\ UNCHANGED <<clients, answered, response, deleted, smseqid, ctx, args, call, result, peerstatus>>
  BY DEF Examples!OnRead, Examples!Idle, Examples!calls, Examples!session
<1>2. PICK no \in 1 .. MaxRequests : no = received[c] + 1
  BY <1>1, RoomLeft DEF ProxyInv
<1>3. PICK e : e = [id |-> "http", m |-> [c |-> c, no |-> no], url |-> url]
  OBVIOUS
<1>4. PICK m \in Reqs : m = [c |-> c, no |-> no]
  BY DEF Reqs
<1>5. e \in HttpEvents /\ e.id = "http" /\ e.m = m
  BY <1>3, <1>4 DEF HttpEvents
<1>6. DOMAIN todo' = {1} /\ todo'[1] = e
  <2>1. todo' = <<e>>
    BY <1>1, <1>2, <1>3
  <2> QED BY <2>1
<1>7. PICK N \in Nat : N = MaxRequests
  BY DEF Examples!ProxyAssumption
<1>8. received \in [HttpConn -> 0 .. N] /\ no \in 1 .. N
  BY <1>2, <1>7 DEF ProxyInv, ProxyTypes
<1>9. received' \in [HttpConn -> 0 .. N] /\ received'[c] = no /\ \A d \in HttpConn : d # c => received'[d] = received[d]
  BY <1>1, <1>2, <1>8
<1>10. ProxyTypes'
  <2>1. todo' \in Seq(HttpEvents \cup ThriftEvents)
    <3> DEFINE Ev == HttpEvents \cup ThriftEvents
    <3>1. e \in Ev /\ todo' = <<e>>
      BY <1>1, <1>2, <1>3, <1>5
    <3> HIDE DEF Ev
    <3>2. todo' \in Seq(Ev)
      BY <3>1
    <3> QED BY <3>2 DEF Ev
  <2>2. received' \in [HttpConn -> 0 .. MaxRequests]
    BY <1>7, <1>9
  <2> QED BY <1>1, <2>1, <2>2, Zenon DEF ProxyInv, ProxyTypes
<1>11. ProxyOwners'
  <2>1. \A x : Coming(x, todo, ctx) = {}
    BY <1>1 DEF Coming
  <2>2. Coming(m, todo', ctx) = {1} /\ \A x : x # m => Coming(x, todo', ctx) = {}
    BY <1>5, <1>6 DEF Coming, Of
  <2>3. ASSUME NEW x \in Reqs
        PROVE  Owner(IsAsked(x)', Held(x, ctx, call), Coming(x, todo', ctx), Gone(x, deleted))
    <3>1. Owner(IsAsked(x), Held(x, ctx, call), {}, Gone(x, deleted))
      BY <2>1, Zenon DEF ProxyInv, ProxyOwners
    <3>2. x.c \in HttpConn /\ x.no \in 1 .. N /\ x = [c |-> x.c, no |-> x.no]
      BY <1>7 DEF Reqs
    <3>3. CASE x = m
      <4>1. m.c = c /\ m.no = no
        BY <1>4
      <4>2. ~IsAsked(x) /\ IsAsked(x)'
        BY <1>2, <1>8, <1>9, <3>3, <4>1 DEF IsAsked
      <4> QED BY <2>2, <3>1, <3>3, <4>2 DEF Owner, OneOf
    <3>4. CASE x # m
      <4>1. IsAsked(x)' <=> IsAsked(x)
        <5>1. CASE x.c # c
          BY <1>9, <3>2, <5>1 DEF IsAsked
        <5>2. CASE x.c = c
          <6>1. x.no # no
            BY <1>4, <3>2, <3>4, <5>2
          <6> QED BY <1>2, <1>8, <1>9, <3>2, <5>2, <6>1 DEF IsAsked
        <5> QED BY <5>1, <5>2
      <4>2. Coming(x, todo', ctx) = {}
        BY <2>2, <3>4
      <4>3. CASE IsAsked(x)
        BY <3>1, <4>1, <4>2, <4>3, Zenon DEF Owner
      <4>4. CASE ~IsAsked(x)
        BY <3>1, <4>1, <4>2, <4>4, Zenon DEF Owner
      <4> QED BY <4>3, <4>4
    <3> QED BY <3>3, <3>4
  <2> QED BY <1>1, <2>3, Zenon DEF ProxyOwners
<1>12. ProxyEvents'
  <2>1. ASSUME NEW i \in DOMAIN todo' PROVE EventSound(todo'[i], call, DOMAIN result)
    <3>1. todo'[i].id = "http"
      BY <1>5, <1>6, <2>1
    <3>2. "http" # "thrift"
      OBVIOUS
    <3> QED BY <3>1, <3>2 DEF EventSound
  <2> QED BY <1>1, <2>1, Zenon DEF ProxyEvents
<1>13. ProxyResults' /\ ProxyStudents' /\ ProxyWaits' /\ ProxyAnswers'
  BY <1>1, Zenon DEF ProxyInv, ProxyResults, ProxyStudents, ProxyWaits, ProxyAnswers
<1> QED BY <1>10, <1>11, <1>12, <1>13, Zenon DEF ProxyInv

(* The proxy's Sorted is the one of Sorting. *)
LEMMA ProxySorted == ASSUME NEW set PROVE Examples!Sorted(set) = Sorted(set)
<1>1. Examples!Cardinality(set) = Cardinality(set)
  BY Zenon DEF Examples!Cardinality, Cardinality
<1> QED BY <1>1, Zenon DEF Examples!Sorted, Sorted

(* Calls that are open come back with their arguments. *)
LEMMA ProxyGives ==
    ASSUME ProxyInv, NEW S \in SUBSET DOMAIN call, \A s \in S : call[s] # "done", Examples!GiveBack(S),
           clients' = clients, ProxyWaits'
    PROVE  ProxyInv'
<1>1. PICK n \in Nat : n = smseqid
  BY DEF ProxyInv, ProxyTypes
<1>2. DOMAIN call = 0 .. n - 1 /\ args = [s \in 0 .. n - 1 |-> Args]
  BY <1>1 DEF ProxyInv, ProxyTypes
<1>3. S \in SUBSET (0 .. n - 1)
  BY <1>2
<1>4. PICK order : order = Sorted(S)
  OBVIOUS
<1>5. IsFiniteSet(S) /\ Sorts(order, S) /\ S \in SUBSET Nat
  <2>1. Sorts(Sorted(S), S) /\ IsFiniteSet(S)
    BY <1>3, SortsExists
  <2> QED BY <1>3, <1>4, <2>1
<1>6. order \in Seq(S) /\ {order[i] : i \in DOMAIN order} = S /\ Distinct(order)
  BY <1>5, SortsFacts
<1>7. PICK bodies : bodies = args
  OBVIOUS
<1>8. /\ todo = << >> /\ call' = Examples!Put(call, S, "done")
      /\ UNCHANGED <<received, answered, response, deleted, smseqid, ctx, args, result>>
  BY DEF Examples!GiveBack, Examples!Idle, Examples!http, Examples!calls
<1>9. todo' = [i \in DOMAIN order |-> Examples!Notify(order[i], bodies[order[i]])]
  BY <1>4, <1>7, ProxySorted, Zenon DEF Examples!GiveBack
<1>10. \A s \in S : bodies[s] = Args
  BY <1>2, <1>3, <1>7
<1> QED BY <1>6, <1>8, <1>9, <1>10, ProxyBack

(* The event that comes next keeps the invariant. *)
LEMMA ProxyEvent == ASSUME Examples!ProxyAssumption, ProxyInv, Examples!OnEvent PROVE ProxyInv'
<1>1. /\ todo # << >> /\ todo' = Tail(todo)
      /\ UNCHANGED <<clients, received, result>>
  BY DEF Examples!OnEvent, Examples!Idle
<1> DEFINE Ev == HttpEvents \cup ThriftEvents
<1>2. todo \in Seq(Ev)
  BY DEF ProxyInv, ProxyTypes
<1>3. 1 \in DOMAIN todo /\ Head(todo) = todo[1] /\ todo[1] \in Ev
  <2> HIDE DEF Ev
  <2> QED BY <1>1, <1>2
<1>4. PICK e : e = todo[1]
  OBVIOUS
<1>5. IF e.id = "http" THEN Examples!DealHttpRequest(e.m, e.url)
      ELSE Examples!DealThriftResponse(e.s, e.body) /\ UNCHANGED <<smseqid, ctx, args, call, peerstatus>>
  BY <1>3, <1>4 DEF Examples!OnEvent, Examples!calls, Examples!session
<1>6. PICK m : m = Of(todo[1], ctx)
  OBVIOUS
<1>7. PICK none : none = Examples!NoStudent
  OBVIOUS
<1>8. CASE e.id = "http"
  <2>1. e.m = m
    BY <1>4, <1>6, <1>8 DEF Of
  <2>2. CASE Examples!DoTestThriftRequest(m) /\ UNCHANGED <<answered, response, deleted>>
    BY <1>1, <1>6, <2>2, ProxyAsk
  <2>3. CASE Examples!DoSendHttpResponse(m, none) /\ UNCHANGED <<smseqid, ctx, args, call, peerstatus>>
    BY <1>1, <1>6, <1>7, <2>3, ProxySend
  <2>4. Examples!DealHttpRequest(m, e.url)
    BY <1>5, <1>8, <2>1
  <2>5. \/ Examples!DoTestThriftRequest(m) /\ UNCHANGED <<answered, response, deleted>>
        \/ Examples!DoSendHttpResponse(m, none) /\ UNCHANGED <<smseqid, ctx, args, call, peerstatus>>
    BY <1>7, <2>4 DEF Examples!DealHttpRequest, Examples!calls, Examples!session
  <2> QED BY <2>2, <2>3, <2>5
<1>9. CASE e.id # "http"
  <2>1. e \in ThriftEvents /\ e.id = "thrift"
    BY <1>3, <1>4, <1>9 DEF HttpEvents, ThriftEvents
  <2>2. ctx[e.s] = m
    BY <1>4, <1>6, <1>9 DEF Of
  <2>3. PICK student : student = Examples!result_read(e.body).value
    OBVIOUS
  <2>4. Examples!DoSendHttpResponse(m, student)
    BY <1>5, <1>9, <2>2, <2>3 DEF Examples!DealThriftResponse
  <2>5. student = none \/ \E s \in DOMAIN result : ctx[s] = m /\ student = Examples!result_read(Result).value
    <3>1. EventSound(e, call, DOMAIN result)
      BY <1>3, <1>4 DEF ProxyInv, ProxyEvents
    <3>2. e.body = Args \/ (e.s \in DOMAIN result /\ e.body = Result)
      BY <2>1, <3>1, Zenon DEF EventSound
    <3>3. CASE e.body = Args
      BY <1>7, <2>3, <3>3, ArgsAreNone
    <3>4. CASE e.s \in DOMAIN result /\ e.body = Result
      BY <2>2, <2>3, <3>4
    <3> QED BY <3>2, <3>3, <3>4
  <2>6. UNCHANGED <<smseqid, ctx, args, call, peerstatus>>
    BY <1>5, <1>9
  <2> QED BY <1>1, <1>6, <1>7, <2>4, <2>5, <2>6, ProxySend
<1> QED BY <1>8, <1>9

(* Every step of the proxy keeps the invariant. *)
LEMMA ProxyStep ==
    ASSUME Examples!ProxyAssumption, ProxyInv, [Examples!Next]_(Examples!vars)
    PROVE  ProxyInv'
<1>1. /\ smseqid \in Nat /\ Examples!Calls = 0 .. smseqid - 1 /\ DOMAIN call = 0 .. smseqid - 1
      /\ call \in [0 .. smseqid - 1 -> {"waiting", "sent", "served", "done"}] /\ clients \subseteq HttpConn
      /\ result = [s \in DOMAIN result |-> Result] /\ args = [s \in 0 .. smseqid - 1 |-> Args]
  BY DEF ProxyInv, ProxyTypes, Examples!Calls
<1>2. ASSUME call' = call, result' = result, clients' \subseteq HttpConn, ProxyWaits',
             UNCHANGED <<received, answered, response, deleted, todo, smseqid, ctx, args>>
      PROVE  ProxyInv'
  <2>1. call' = Examples!Put(call, {}, "sent")
    BY <1>1, <1>2 DEF Examples!Put
  <2>2. "sent" # "served" /\ {} \in SUBSET DOMAIN call
    OBVIOUS
  <2> QED BY <1>2, <2>1, <2>2, ProxyMoves
<1>3. ASSUME call' = call, peerstatus' = peerstatus \/ peerstatus' = "connecting" PROVE ProxyWaits'
  BY <1>3 DEF ProxyInv, ProxyWaits
<1>4. CASE UNCHANGED Examples!vars
  <2>1. UNCHANGED <<clients, received, answered, response, deleted, todo, smseqid, ctx, args, call, result, peerstatus>>
    BY <1>4 DEF Examples!vars, Examples!http, Examples!calls, Examples!session
  <2> QED BY <1>1, <1>2, <1>3, <2>1
<1>5. ASSUME NEW c \in HttpConn, Examples!HttpClosed(c) PROVE ProxyInv'
  <2>1. UNCHANGED <<received, answered, response, deleted, todo, smseqid, ctx, args, call, result, peerstatus>> /\ clients' = clients \ {c}
    BY <1>5 DEF Examples!HttpClosed, Examples!calls, Examples!session
  <2> QED BY <1>1, <1>2, <1>3, <2>1
<1>6. ASSUME Examples!Reconnect \/ Examples!DealHeartBeat \/ Examples!PeerStarts PROVE ProxyInv'
  <2>1. /\ UNCHANGED <<clients, received, answered, response, deleted, todo, smseqid, ctx, args, call, result>>
        /\ peerstatus' = peerstatus \/ peerstatus' = "connecting"
    BY <1>6 DEF Examples!Reconnect, Examples!DealHeartBeat, Examples!PeerStarts, Examples!http, Examples!calls, Examples!session
  <2> QED BY <1>1, <1>2, <1>3, <2>1
<1>7. ASSUME NEW s \in Examples!Calls, Examples!OnReply(s) PROVE ProxyInv'
  <2>1. /\ todo = << >> /\ call[s] = "served" /\ call' = [call EXCEPT ![s] = "done"]
        /\ todo' = <<Examples!Notify(s, result[s])>>
        /\ UNCHANGED <<clients, received, answered, response, deleted, smseqid, ctx, args, result, peerstatus>>
    BY <1>7 DEF Examples!OnReply, Examples!Idle, Examples!http, Examples!calls, Examples!session
  <2>2. PICK order, bodies : order = <<s>> /\ bodies = result
    OBVIOUS
  <2>3. s \in DOMAIN call /\ s \in DOMAIN result
    BY <1>1, <1>7, <2>1 DEF ProxyInv, ProxyResults
  <2>4. order \in Seq({s}) /\ DOMAIN order = {1} /\ order[1] = s
    BY <2>2
  <2>5. {order[i] : i \in DOMAIN order} = {s} /\ Distinct(order)
    BY <2>4 DEF Distinct
  <2>6. todo' = [i \in DOMAIN order |-> Examples!Notify(order[i], bodies[order[i]])]
    <3>1. PICK e : e = Examples!Notify(s, result[s])
      OBVIOUS
    <3>2. <<e>> = [i \in {1} |-> e]
      OBVIOUS
    <3>3. [i \in DOMAIN order |-> Examples!Notify(order[i], bodies[order[i]])] = [i \in {1} |-> e]
      BY <2>2, <2>4, <3>1
    <3> QED BY <2>1, <3>1, <3>2, <3>3
  <2>7. call' = Examples!Put(call, {s}, "done")
    BY <1>1, <2>1, <2>3 DEF Examples!Put
  <2>8. ProxyWaits'
    BY <1>1, <2>1, <2>3 DEF ProxyInv, ProxyWaits
  <2>9. bodies[s] = Result /\ {s} \in SUBSET DOMAIN call
    BY <1>1, <2>2, <2>3
  <2>10. \A r \in {s} : call[r] # "done" /\ (bodies[r] = Args \/ (r \in DOMAIN result /\ bodies[r] = Result))
    BY <2>1, <2>3, <2>9
  <2>11. PICK S : S = {s}
    OBVIOUS
  <2>12. /\ S \in SUBSET DOMAIN call /\ order \in Seq(S) /\ {order[i] : i \in DOMAIN order} = S
         /\ call' = Examples!Put(call, S, "done")
         /\ \A r \in S : call[r] # "done" /\ (bodies[r] = Args \/ (r \in DOMAIN result /\ bodies[r] = Result))
    BY <2>4, <2>5, <2>7, <2>9, <2>10, <2>11
  <2> QED BY <2>1, <2>5, <2>6, <2>8, <2>12, ProxyBack
<1>8. ASSUME NEW S \in SUBSET DOMAIN call, Examples!GiveBack(S), peerstatus' = peerstatus \/ Examples!In({"waiting"}) \subseteq S
      PROVE  ProxyWaits'
  <2>1. call' = Examples!Put(call, S, "done")
    BY <1>8 DEF Examples!GiveBack
  <2>2. DOMAIN call' = DOMAIN call /\ \A s \in DOMAIN call : call'[s] = IF s \in S THEN "done" ELSE call[s]
    BY <1>1, <2>1 DEF Examples!Put
  <2>3. ASSUME NEW s \in DOMAIN call', call'[s] = "waiting" PROVE peerstatus' = "connecting"
    <3>1. s \in DOMAIN call /\ s \notin S /\ call[s] = "waiting"
      BY <2>2, <2>3
    <3>2. s \in Examples!In({"waiting"})
      BY <1>1, <3>1 DEF Examples!In
    <3> QED BY <1>8, <3>1, <3>2 DEF ProxyInv, ProxyWaits
  <2> QED BY <2>3, Zenon DEF ProxyWaits
<1>9. ASSUME NEW S \in SUBSET DOMAIN call, \A s \in S : call[s] # "done", Examples!GiveBack(S),
             peerstatus' = peerstatus \/ Examples!In({"waiting"}) \subseteq S
      PROVE  ProxyInv'
  <2>1. clients' = clients
    BY <1>9 DEF Examples!GiveBack, Examples!http
  <2> QED BY <1>8, <1>9, <2>1, ProxyGives
<1>10. ASSUME NEW s \in Examples!Calls, Examples!TimesOut(s) PROVE ProxyInv'
  <2>1. Examples!GiveBack({s}) /\ call[s] # "done" /\ peerstatus' = peerstatus
    BY <1>10 DEF Examples!TimesOut, Examples!session
  <2>2. PICK S : S = {s}
    OBVIOUS
  <2>3. S \in SUBSET DOMAIN call /\ (\A r \in S : call[r] # "done") /\ Examples!GiveBack(S)
    BY <1>1, <2>1, <2>2
  <2> QED BY <1>9, <2>1, <2>3
<1>11. ASSUME Examples!DialFails \/ Examples!OnPeerClose PROVE ProxyInv'
  <2>1. PICK S : /\ S = Examples!In({"waiting"}) \/ S = Examples!In({"waiting", "sent", "served"})
                 /\ Examples!GiveBack(S)
    BY <1>11 DEF Examples!DialFails, Examples!OnPeerClose
  <2>2. S \in SUBSET DOMAIN call /\ (\A r \in S : call[r] # "done") /\ Examples!In({"waiting"}) \subseteq S
    BY <1>1, <2>1 DEF Examples!In
  <2> QED BY <1>9, <2>1, <2>2
<1>12. ASSUME Examples!Dialled PROVE ProxyInv'
  <2>1. /\ peerstatus' = "connected" /\ call' = Examples!Put(call, Examples!In({"waiting"}), "sent")
        /\ UNCHANGED <<clients, received, answered, response, deleted, todo, smseqid, ctx, args, result>>
    BY <1>12 DEF Examples!Dialled, Examples!http, Examples!calls
  <2>2. PICK S : S = Examples!In({"waiting"})
    OBVIOUS
  <2>3. S \in SUBSET DOMAIN call /\ (\A r \in S : call[r] \notin {"served", "done"}) /\ \A r \in DOMAIN call : call[r] = "waiting" => r \in S
    BY <1>1, <2>2 DEF Examples!In
  <2>4. ProxyWaits'
    <3>1. DOMAIN call' = DOMAIN call /\ \A r \in DOMAIN call : call'[r] = IF r \in S THEN "sent" ELSE call[r]
      BY <1>1, <2>1, <2>2, <2>3 DEF Examples!Put
    <3> QED BY <2>3, <3>1 DEF ProxyWaits
  <2>5. "sent" # "served" /\ clients' \subseteq HttpConn /\ call' = Examples!Put(call, S, "sent")
    BY <1>1, <2>1, <2>2
  <2> QED BY <2>1, <2>3, <2>4, <2>5, ProxyMoves
<1>13. ASSUME NEW s \in Examples!Calls, Examples!DealThriftRequest(s) PROVE ProxyInv'
  <2>1. /\ call[s] = "sent" /\ call' = [call EXCEPT ![s] = "served"]
        /\ result' = Examples!Put(result, {s}, Result)
        /\ UNCHANGED <<clients, received, answered, response, deleted, todo, smseqid, ctx, args, peerstatus>>
    BY <1>13 DEF Examples!DealThriftRequest, Examples!http, Examples!calls, Examples!session, Result
  <2>2. PICK S : S = {s}
    OBVIOUS
  <2>3. S \in SUBSET DOMAIN call /\ (\A r \in S : call[r] \notin {"served", "done"})
    BY <1>1, <2>1, <2>2
  <2>4. call' = Examples!Put(call, S, "served") /\ result' = Examples!Put(result, S, Result)
    BY <1>1, <2>1, <2>2, ZenonT(30) DEF Examples!Put
  <2>5. ProxyWaits'
    BY <1>1, <2>1 DEF ProxyInv, ProxyWaits
  <2>6. clients' \subseteq HttpConn
    BY <1>1, <2>1
  <2> QED BY <2>1, <2>3, <2>4, <2>5, <2>6, ProxyMoves
<1>14. ASSUME NEW c \in HttpConn, NEW url \in {"/testthrift", "/"}, Examples!OnRead(c, url) PROVE ProxyInv'
  BY <1>14, ProxyRead
<1>15. ASSUME Examples!OnEvent PROVE ProxyInv'
  BY <1>15, ProxyEvent
<1> QED BY <1>4, <1>5, <1>6, <1>7, <1>10, <1>11, <1>12, <1>13, <1>14, <1>15 DEF Examples!Next

(* The invariant holds in the beginning. *)
LEMMA ProxyInit == ASSUME Examples!ProxyAssumption, Examples!Init PROVE ProxyInv
<1>1. /\ clients = HttpConn /\ received = [c \in HttpConn |-> 0]
      /\ answered = [c \in HttpConn |-> << >>] /\ response = << >> /\ deleted = << >> /\ todo = << >>
      /\ smseqid = 0 /\ ctx = << >> /\ call = << >> /\ args = << >> /\ result = << >>
  BY DEF Examples!Init
<1>2. DOMAIN << >> = {} /\ 0 .. 0 - 1 = {}
  OBVIOUS
<1>3. MaxRequests \in Nat
  BY DEF Examples!ProxyAssumption
<1>4. ProxyTypes
  <2>1. \A S : << >> \in Seq(S)
    OBVIOUS
  <2>2. \A S : << >> \in [{} -> S]
    OBVIOUS
  <2>3. << >> = [s \in {} |-> Args] /\ << >> = [s \in {} |-> Result]
    OBVIOUS
  <2>4. ctx \in [0 .. smseqid - 1 -> Reqs] /\ call \in [0 .. smseqid - 1 -> {"waiting", "sent", "served", "done"}]
    BY <1>1, <1>2, <2>2
  <2>5. args = [s \in 0 .. smseqid - 1 |-> Args] /\ result = [s \in DOMAIN result |-> Result]
    BY <1>1, <1>2, <2>3
  <2>6. received \in [HttpConn -> 0 .. MaxRequests]
    BY <1>1, <1>3
  <2>7. answered \in [HttpConn -> Seq(1 .. MaxRequests)] /\ deleted \in Seq(Reqs) /\ todo \in Seq(HttpEvents \cup ThriftEvents)
    BY <1>1, <2>1
  <2>8. DOMAIN result \subseteq 0 .. smseqid - 1 /\ smseqid \in Nat /\ clients \subseteq HttpConn
    BY <1>1, <1>2
  <2> QED BY <2>4, <2>5, <2>6, <2>7, <2>8 DEF ProxyTypes
<1>5. ProxyOwners
  <2>1. ASSUME NEW m \in Reqs PROVE Owner(IsAsked(m), Held(m, ctx, call), Coming(m, todo, ctx), Gone(m, deleted))
    <3>1. m.c \in HttpConn /\ m.no \in 1 .. MaxRequests
      BY DEF Reqs
    <3>2. ~IsAsked(m)
      BY <1>1, <1>3, <3>1 DEF IsAsked
    <3>3. Held(m, ctx, call) = {} /\ Coming(m, todo, ctx) = {} /\ Gone(m, deleted) = {}
      BY <1>1, <1>2 DEF Held, Coming, Gone
    <3> QED BY <3>2, <3>3, Zenon DEF Owner
  <2> QED BY <2>1 DEF ProxyOwners
<1>6. ProxyEvents /\ ProxyResults /\ ProxyStudents /\ ProxyWaits
  BY <1>1, <1>2 DEF ProxyEvents, ProxyResults, ProxyStudents, ProxyWaits
<1>7. ProxyAnswers
  BY <1>1, <1>2 DEF ProxyAnswers
<1> QED BY <1>4, <1>5, <1>6, <1>7 DEF ProxyInv

(* The invariant says what the run checks. *)
LEMMA ProxySays ==
    ASSUME ProxyInv
    PROVE  Examples!OwnedOnce /\ Examples!TrueStudent /\ Examples!WaitsForDial
<1>1. DOMAIN call = 0 .. smseqid - 1 /\ Examples!Calls = DOMAIN call /\ result = [s \in DOMAIN result |-> Result]
  BY DEF ProxyInv, ProxyTypes, Examples!Calls
<1>2. Examples!OwnedOnce
  <2>1. Examples!Cardinality({}) = 0 /\ \A x : Examples!Cardinality({x}) = 1
    <3>1. \A S : Examples!Cardinality(S) = Cardinality(S)
      BY Zenon DEF Examples!Cardinality, Cardinality
    <3>2. Cardinality({}) = 0 /\ \A x : Cardinality({x}) = 1
      BY FS_EmptySet, FS_Singleton
    <3> QED BY <3>1, <3>2
  <2>2. ASSUME NEW m \in Examples!Asked
        PROVE  Examples!Cardinality(Held(m, ctx, call)) + Examples!Cardinality(Coming(m, todo, ctx))
               + Examples!Cardinality(Gone(m, deleted)) = 1
    <3>1. m \in Reqs /\ IsAsked(m)
      BY DEF Examples!Asked, Examples!Requests, Reqs, IsAsked
    <3>2. OneOf(Held(m, ctx, call), Coming(m, todo, ctx), Gone(m, deleted))
      BY <3>1, Zenon DEF ProxyInv, ProxyOwners, Owner
    <3>3. 1 + 0 + 0 = 1 /\ 0 + 1 + 0 = 1 /\ 0 + 0 + 1 = 1
      OBVIOUS
    <3> QED BY <2>1, <3>2, <3>3 DEF OneOf
  <2>3. \A m : /\ Held(m, ctx, call) = {s \in Examples!Calls : ctx[s] = m /\ call[s] # "done"}
               /\ Coming(m, todo, ctx) = {i \in DOMAIN todo : (IF todo[i].id = "http" THEN todo[i].m ELSE ctx[todo[i].s]) = m}
               /\ Gone(m, deleted) = {i \in DOMAIN deleted : deleted[i] = m}
    BY <1>1 DEF Held, Coming, Gone, Of
  <2> QED BY <2>2, <2>3, Zenon DEF Examples!OwnedOnce
<1>3. Examples!TrueStudent
  <2>1. \A s \in DOMAIN result : result[s] = Result
    BY <1>1
  <2> QED BY <2>1 DEF ProxyInv, ProxyStudents, Examples!TrueStudent
<1>4. Examples!WaitsForDial
  BY <1>1 DEF ProxyInv, ProxyWaits, Examples!WaitsForDial, Examples!In
<1> QED BY <1>2, <1>3, <1>4

-----------------------------------------------------------------------------
(* What runs of the examples and of the clients, if either does, has its invariant; the other is
   as it began. *)
AccountsInv == /\ ProxyInv
               /\ \E h \in Handlers : CallsFor(h)

(* It holds in the beginning. *)
LEMMA AccountsInit == Init => AccountsInv
<1> SUFFICES ASSUME Init PROVE AccountsInv
  OBVIOUS
<1>1. Examples!ProxyAssumption /\ Clients!CallsAssumption
  BY ThreadsAssumption
<1>2. Examples!Init /\ Clients!Init
  BY DEF Init
<1>3. PICK h \in Handlers : handler = h
  BY <1>2 DEF Clients!Init
<1> QED BY <1>1, <1>2, <1>3, ProxyInit, CallsBegin DEF AccountsInv

(* A step of the threads is one of the examples and one of the clients, or leaves them alone. *)
LEMMA AccountsSteps ==
    ASSUME [Next]_all
    PROVE  [Examples!Next]_(Examples!vars) /\ [Clients!Next]_(Clients!vars)
<1>1. UNCHANGED proxyVars \/ Examples!Next
  BY DEF Next, all, InWheel, InIo, InHolder, InGroup, InCoh, InManager, InExamples, InClients, accountVars
<1>2. UNCHANGED callVars \/ Clients!Next
  BY DEF Next, all, InWheel, InIo, InHolder, InGroup, InCoh, InManager, InExamples, InClients, accountVars
<1>3. UNCHANGED proxyVars => UNCHANGED Examples!vars
  BY DEF proxyVars, Examples!vars, Examples!http, Examples!calls, Examples!session
<1>4. UNCHANGED callVars => UNCHANGED Clients!vars
  BY DEF callVars, Clients!vars
<1> QED BY <1>1, <1>2, <1>3, <1>4

(* Every step keeps the invariants of both. *)
LEMMA AccountsStep == AccountsInv /\ [Next]_all => AccountsInv'
<1> SUFFICES ASSUME AccountsInv, [Next]_all PROVE AccountsInv'
  OBVIOUS
<1>1. Examples!ProxyAssumption /\ Clients!CallsAssumption
  BY ThreadsAssumption
<1>2. [Examples!Next]_(Examples!vars) /\ [Clients!Next]_(Clients!vars)
  BY AccountsSteps
<1>3. PICK h \in Handlers : CallsFor(h)
  BY DEF AccountsInv
<1>4. CallsFor(h)'
  BY <1>1, <1>2, <1>3, CallsStep
<1>5. ProxyInv'
  BY <1>1, <1>2, ProxyStep DEF AccountsInv
<1> QED BY <1>4, <1>5 DEF AccountsInv

(* The examples answer truly, for any connections, requests and dials, and any interfaces: a request
   has one owner and is deleted once, the student of its response is what the peer gave for it, a
   call waits only for a dial; a call of ServClient returns what the interfaces say of its number. *)
THEOREM SpecAnsweredTruly == Spec => []AnsweredTruly
<1>1. AccountsInv => AnsweredTruly
  <2> SUFFICES ASSUME AccountsInv PROVE AnsweredTruly
    OBVIOUS
  <2>1. Clients!CallsAssumption
    BY ThreadsAssumption
  <2>2. PICK h \in Handlers : CallsFor(h)
    BY DEF AccountsInv
  <2> QED BY <2>1, <2>2, CallsSay, ProxySays DEF AccountsInv, AnsweredTruly
<1> QED BY <1>1, AccountsInit, AccountsStep, PTL DEF Spec

-----------------------------------------------------------------------------
(* What is sent of the numbers in A ends where their first gap is. *)
SentOf(A) == CHOOSE k \in 0 .. MaxRequests : (\A i \in 1 .. k : i \in A) /\ k + 1 \notin A

(* There is such a gap. *)
LEMMA SentGapless ==
    ASSUME Examples!ProxyAssumption, NEW A \in SUBSET (1 .. MaxRequests)
    PROVE  SentOf(A) \in Nat /\ Examples!Ordered!Gapless(SentOf(A), A)
<1>2. PICK N \in Nat : N = MaxRequests
  BY DEF Examples!ProxyAssumption
<1> DEFINE T == {k \in Nat \ {0} : k \notin A}
<1>3. N + 1 \in T
  BY <1>2
<1>4. PICK k \in T : \A y \in T : k <= y
  <2>1. T \in SUBSET Nat /\ T # {}
    BY <1>3
  <2> HIDE DEF T
  <2> QED BY <2>1, Least
<1>5. /\ k \in Nat \ {0} /\ k \notin A /\ k - 1 \in 0 .. N /\ (k - 1) + 1 = k
      /\ \A i \in 1 .. k - 1 : i \in A
  <2>1. k \in Nat \ {0} /\ k \notin A /\ k <= N + 1
    BY <1>3, <1>4
  <2>2. ASSUME NEW i \in 1 .. k - 1, i \notin A PROVE FALSE
    <3>1. i \in T
      BY <2>1, <2>2
    <3> QED BY <1>4, <2>1, <2>2, <3>1
  <2> QED BY <1>2, <2>1, <2>2
<1>6. \E j \in 0 .. MaxRequests : (\A i \in 1 .. j : i \in A) /\ j + 1 \notin A
  <2>1. k - 1 \in 0 .. MaxRequests /\ (\A i \in 1 .. k - 1 : i \in A) /\ (k - 1) + 1 \notin A
    BY <1>2, <1>5
  <2> QED BY <2>1
<1>7. SentOf(A) \in 0 .. MaxRequests /\ (\A i \in 1 .. SentOf(A) : i \in A) /\ SentOf(A) + 1 \notin A
  BY <1>6, Zenon DEF SentOf
<1> QED BY <1>2, <1>7 DEF Examples!Ordered!Gapless

(* An event is answered with one response or with none. *)
LEMMA EventSends ==
    ASSUME ProxyInv, Examples!OnEvent
    PROVE  /\ todo # << >> /\ UNCHANGED <<clients, received>>
           /\ \/ answered' = answered
              \/ \E m : /\ m = Of(todo[1], ctx) /\ m.c \in clients
                        /\ answered' = [answered EXCEPT ![m.c] = Append(@, m.no)]
<1>1. todo # << >> /\ UNCHANGED <<clients, received>>
  BY DEF Examples!OnEvent, Examples!Idle
<1> DEFINE Ev == HttpEvents \cup ThriftEvents
<1>2. Head(todo) = todo[1] /\ todo[1] \in Ev
  <2>1. todo \in Seq(Ev)
    BY DEF ProxyInv, ProxyTypes
  <2> HIDE DEF Ev
  <2> QED BY <1>1, <2>1
<1>3. PICK e : e = todo[1]
  OBVIOUS
<1>4. IF e.id = "http" THEN Examples!DealHttpRequest(e.m, e.url) ELSE Examples!DealThriftResponse(e.s, e.body)
  BY <1>2, <1>3 DEF Examples!OnEvent
<1>5. PICK m : m = Of(todo[1], ctx)
  OBVIOUS
<1>6. answered' = answered \/ \E student : Examples!DoSendHttpResponse(m, student)
  <2>1. CASE e.id = "http"
    <3>1. Examples!DealHttpRequest(m, e.url)
      BY <1>3, <1>4, <1>5, <2>1 DEF Of
    <3> QED BY <3>1 DEF Examples!DealHttpRequest
  <2>2. CASE e.id # "http"
    <3>1. ctx[e.s] = m
      BY <1>3, <1>5, <2>2 DEF Of
    <3> QED BY <1>4, <2>2, <3>1 DEF Examples!DealThriftResponse
  <2> QED BY <2>1, <2>2
<1>7. answered' = answered \/ (m.c \in clients /\ answered' = [answered EXCEPT ![m.c] = Append(@, m.no)])
  BY <1>6 DEF Examples!DoSendHttpResponse
<1> QED BY <1>1, <1>5, <1>7

(* Every step of the examples is one that OrderedResponses takes from a handler, or leaves the
   connection that is watched alone. *)
LEMMA FeedsStep ==
    ASSUME Examples!ProxyAssumption, ProxyInv, ProxyInv', [Examples!Next]_(Examples!vars)
    PROVE  [Examples!Ordered!Next]_(Examples!Ordered!vars)
<1> DEFINE W == Watched
<1>0. W \in HttpConn /\ MaxRequests \in Nat
  BY DEF Examples!ProxyAssumption
<1>1. /\ clients \subseteq HttpConn /\ received \in [HttpConn -> 0 .. MaxRequests]
      /\ answered \in [HttpConn -> Seq(1 .. MaxRequests)]
      /\ answered' \in [HttpConn -> Seq(1 .. MaxRequests)]
  BY DEF ProxyInv, ProxyTypes
<1>2. ASSUME answered'[W] = answered[W]
      PROVE  Examples!ToSet(answered'[W]) = Examples!ToSet(answered[W]) /\ Examples!Sent(W)' = Examples!Sent(W)
  BY <1>2, Zenon DEF Examples!Sent
<1>3. ASSUME answered'[W] = answered[W], received'[W] = received[W], (W \in clients') = (W \in clients)
      PROVE  UNCHANGED Examples!Ordered!vars
  BY <1>2, <1>3, Zenon DEF Examples!Ordered!vars
<1>4. ASSUME NEW c \in HttpConn, Examples!HttpClosed(c) PROVE [Examples!Ordered!Next]_(Examples!Ordered!vars)
  <2>1. c \in clients /\ clients' = clients \ {c} /\ answered' = answered /\ received' = received
    BY <1>4 DEF Examples!HttpClosed
  <2>2. CASE c = W
    <3>1. Examples!Ordered!Shut
      <4>1. W \in clients /\ (W \in clients') = FALSE
        BY <2>1, <2>2
      <4>2. received'[W] = received[W] /\ answered'[W] = answered[W]
        BY <2>1
      <4> QED BY <1>2, <4>1, <4>2 DEF Examples!Ordered!Shut
    <3> QED BY <3>1 DEF Examples!Ordered!Next
  <2>3. CASE c # W
    <3>1. (W \in clients') = (W \in clients)
      BY <2>1, <2>3
    <3> QED BY <1>3, <2>1, <3>1
  <2> QED BY <2>2, <2>3
<1>5. ASSUME NEW c \in HttpConn, NEW url \in {"/testthrift", "/"}, Examples!OnRead(c, url)
      PROVE  [Examples!Ordered!Next]_(Examples!Ordered!vars)
  <2>1. c \in clients /\ clients' = clients /\ answered' = answered /\ received' = [received EXCEPT ![c] = @ + 1]
    BY <1>5 DEF Examples!OnRead
  <2>2. CASE c = W
    <3>1. Examples!Ordered!Receive
      <4>1. W \in clients /\ (W \in clients') = (W \in clients) /\ received'[W] = received[W] + 1 /\ answered'[W] = answered[W]
        BY <1>0, <1>1, <2>1, <2>2
      <4> QED BY <1>2, <4>1 DEF Examples!Ordered!Receive
    <3> QED BY <3>1 DEF Examples!Ordered!Next
  <2>3. CASE c # W
    <3>1. received'[W] = received[W]
      BY <1>0, <1>1, <2>1, <2>3
    <3> QED BY <1>3, <2>1, <3>1
  <2> QED BY <2>2, <2>3
<1>6. ASSUME Examples!OnEvent PROVE [Examples!Ordered!Next]_(Examples!Ordered!vars)
  <2>1. /\ todo # << >> /\ clients' = clients /\ received' = received
        /\ \/ answered' = answered
           \/ \E m : /\ m = Of(todo[1], ctx) /\ m.c \in clients
                     /\ answered' = [answered EXCEPT ![m.c] = Append(@, m.no)]
    BY <1>6, EventSends
  <2>2. CASE answered' = answered
    BY <1>3, <2>1, <2>2
  <2>3. ASSUME NEW m, m = Of(todo[1], ctx), m.c \in clients, answered' = [answered EXCEPT ![m.c] = Append(@, m.no)]
        PROVE  [Examples!Ordered!Next]_(Examples!Ordered!vars)
    <3>1. /\ m \in Reqs /\ IsAsked(m) /\ \A i \in DOMAIN answered[m.c] : answered[m.c][i] # m.no
      BY <2>1, <2>3, ProxyFirst
    <3>2. CASE m.c # W
      <4>1. answered'[W] = answered[W]
        BY <1>0, <1>1, <2>3, <3>2
      <4> QED BY <1>3, <2>1, <4>1
    <3>3. CASE m.c = W
      <4>1. PICK no \in 1 .. MaxRequests : no = m.no
        BY <3>1 DEF Reqs
      <4>2. no \in 1 .. received[W]
        BY <1>0, <1>1, <3>1, <3>3, <4>1 DEF IsAsked
      <4> DEFINE N == 1 .. MaxRequests
      <4>3. answered[W] \in Seq(N) /\ answered'[W] = Append(answered[W], no) /\ no \in N
        BY <1>0, <1>1, <2>3, <3>3, <4>1
      <4> HIDE DEF N
      <4>4. Examples!ToSet(answered'[W]) = Examples!ToSet(answered[W]) \cup {no}
        <5>1. PICK list \in Seq(N) : list = answered[W]
          BY <4>3
        <5>4. PICK l : l = Append(list, no)
          OBVIOUS
        <5>2. /\ DOMAIN l = DOMAIN list \cup {Len(list) + 1} /\ l[Len(list) + 1] = no
              /\ \A i \in DOMAIN list : l[i] = list[i]
          BY <4>3, <5>4, AppendFacts
        <5>3. {l[i] : i \in DOMAIN l} = {list[i] : i \in DOMAIN list} \cup {no}
          BY <5>2
        <5> QED BY <4>3, <5>1, <5>3, <5>4 DEF Examples!ToSet
      <4>5. no \notin Examples!ToSet(answered[W])
        BY <3>1, <3>3, <4>1 DEF Examples!ToSet
      <4>6. Examples!Sent(W)' \in Nat /\ Examples!Ordered!Gapless(Examples!Sent(W)', Examples!ToSet(answered'[W]))
        <5>1. Examples!ToSet(answered[W]) \subseteq 1 .. MaxRequests
          <6>1. Examples!ToSet(answered[W]) \subseteq N
            BY <4>3 DEF Examples!ToSet
          <6> QED BY <6>1 DEF N
        <5>2. Examples!ToSet(answered'[W]) \subseteq 1 .. MaxRequests
          BY <4>1, <4>4, <5>1
        <5>3. PICK A \in SUBSET (1 .. MaxRequests) : A = Examples!ToSet(answered'[W])
          BY <5>2
        <5>4. SentOf(A) \in Nat /\ Examples!Ordered!Gapless(SentOf(A), A)
          BY SentGapless
        <5>5. Examples!Sent(W)' = SentOf(A)
          BY <5>3, Zenon DEF Examples!Sent, SentOf
        <5> QED BY <5>3, <5>4, <5>5
      <4>7. Examples!Ordered!Answer(no)
        BY <2>1, <2>3, <3>3, <4>2, <4>4, <4>5, <4>6 DEF Examples!Ordered!Answer
      <4> QED BY <4>2, <4>7 DEF Examples!Ordered!Next
    <3> QED BY <3>2, <3>3, SMTT(30)
  <2> QED BY <2>1, <2>2, <2>3
<1>7. ASSUME clients' = clients, received' = received, answered' = answered
      PROVE  [Examples!Ordered!Next]_(Examples!Ordered!vars)
  BY <1>3, <1>7
<1>8. CASE \/ UNCHANGED Examples!vars \/ Examples!Dialled \/ Examples!DialFails \/ Examples!OnPeerClose
           \/ Examples!Reconnect \/ Examples!DealHeartBeat \/ Examples!PeerStarts
  <2>1. clients' = clients /\ received' = received /\ answered' = answered
    BY <1>8 DEF Examples!vars, Examples!http, Examples!Dialled, Examples!DialFails, Examples!OnPeerClose, Examples!GiveBack,
       Examples!Reconnect, Examples!DealHeartBeat, Examples!PeerStarts
  <2> QED BY <1>7, <2>1
<1>9. ASSUME NEW s \in Examples!Calls, Examples!OnReply(s) \/ Examples!TimesOut(s) \/ Examples!DealThriftRequest(s)
      PROVE  [Examples!Ordered!Next]_(Examples!Ordered!vars)
  <2>1. clients' = clients /\ received' = received /\ answered' = answered
    BY <1>9 DEF Examples!http, Examples!OnReply, Examples!TimesOut, Examples!GiveBack, Examples!DealThriftRequest
  <2> QED BY <1>7, <2>1
<1> QED BY <1>4, <1>5, <1>6, <1>8, <1>9 DEF Examples!Next

(* The examples implement what OrderedResponses takes from a handler, on any one connection: a
   request is answered at most once, and only when it was received and its connection is up. *)
THEOREM SpecFeedsSessions == Spec => FeedsSessions
<1>1. Init => Examples!Ordered!Init
  <2> SUFFICES ASSUME Init PROVE Examples!Ordered!Init
    OBVIOUS
  <2>1. Examples!ProxyAssumption /\ Examples!Init
    BY ThreadsAssumption DEF Init
  <2>2. Watched \in clients /\ received[Watched] = 0 /\ answered[Watched] = << >>
    BY <2>1 DEF Examples!ProxyAssumption, Examples!Init
  <2>3. Examples!ToSet(answered[Watched]) = {}
    BY <2>2 DEF Examples!ToSet
  <2>4. Examples!Sent(Watched) \in Nat /\ Examples!Ordered!Gapless(Examples!Sent(Watched), {})
    <3>1. {} \in SUBSET (1 .. MaxRequests)
      OBVIOUS
    <3>2. SentOf({}) \in Nat /\ Examples!Ordered!Gapless(SentOf({}), {})
      BY <2>1, <3>1, SentGapless
    <3>3. Examples!Sent(Watched) = SentOf({})
      BY <2>3, Zenon DEF Examples!Sent, SentOf
    <3> QED BY <3>2, <3>3
  <2>5. Examples!Sent(Watched) = 0
    <3>1. PICK k \in Nat : k = Examples!Sent(Watched)
      BY <2>4
    <3>2. k = 0 \/ 1 \in 1 .. k
      OBVIOUS
    <3> QED BY <2>4, <3>1, <3>2 DEF Examples!Ordered!Gapless
  <2> QED BY <2>2, <2>3, <2>5 DEF Examples!Ordered!Init
<1>2. AccountsInv /\ AccountsInv' /\ [Next]_all => [Examples!Ordered!Next]_(Examples!Ordered!vars)
  BY ThreadsAssumption, AccountsSteps, FeedsStep DEF AccountsInv
<1> QED BY <1>1, <1>2, AccountsInit, AccountsStep, PTL DEF Spec, FeedsSessions, Examples!FeedsSessions, Examples!Ordered!Spec
=============================================================================
