------------------------- MODULE Connections_proofs -------------------------
(***************************************************************************)
(* Proofs about connections (Connections). The invariants of the reading   *)
(* sides and of the writing sides are those of Sides_proofs, of which each *)
(* instance is about one of each. It asks of a parser that it returns each *)
(* message that has arrived whole, and waits for the rest of one: most of  *)
(* this module shows that the parsers of thrift and of HTTP do so, for     *)
(* every message that their peers may send.                                *)
(***************************************************************************)
EXTENDS Connections, BasicLemmas, TLAPS

-----------------------------------------------------------------------------
(* Lists of tokens. *)

(* Lists, whatever they hold. *)
LEMMA Lists ==
    ASSUME NEW a, NEW b, IsList(a), IsList(b)
    PROVE  /\ IsList(a \o b)
           /\ Len(a) \in Nat /\ Len(b) \in Nat /\ Len(a \o b) = Len(a) + Len(b)
           /\ DOMAIN a = 1 .. Len(a) /\ DOMAIN b = 1 .. Len(b) /\ DOMAIN (a \o b) = 1 .. Len(a) + Len(b)
           /\ \A i \in DOMAIN a : (a \o b)[i] = a[i]
           /\ \A i \in DOMAIN b : (a \o b)[Len(a) + i] = b[i]
<1> DEFINE S == {a[i] : i \in DOMAIN a} \cup {b[i] : i \in DOMAIN b}
           c == a \o b
<1>1. a \in Seq(S)
  <2>1. a \in Seq({a[i] : i \in DOMAIN a})
    BY DEF IsList
  <2> QED BY <2>1
<1>2. b \in Seq(S)
  <2>1. b \in Seq({b[i] : i \in DOMAIN b})
    BY DEF IsList
  <2> QED BY <2>1
<1> HIDE DEF S
<1>3. /\ c \in Seq(S)
      /\ Len(a) \in Nat /\ Len(b) \in Nat /\ Len(c) = Len(a) + Len(b)
      /\ DOMAIN a = 1 .. Len(a) /\ DOMAIN b = 1 .. Len(b) /\ DOMAIN c = 1 .. Len(a) + Len(b)
      /\ \A i \in DOMAIN a : c[i] = a[i]
      /\ \A i \in DOMAIN b : c[Len(a) + i] = b[i]
  BY <1>1, <1>2, ConcatFacts
<1> HIDE DEF c
<1>4. IsList(c)
  <2>1. c \in Seq(S)
    BY <1>3
  <2>2. \A l \in Seq(S) : l \in Seq({l[i] : i \in DOMAIN l})
    OBVIOUS
  <2> QED BY <2>1, <2>2 DEF IsList
<1> QED BY <1>3, <1>4 DEF c

(* A list of few. *)
LEMMA FewLists ==
    /\ IsList(<<>>) /\ Len(<<>>) = 0
    /\ \A x : IsList(<<x>>) /\ Len(<<x>>) = 1 /\ DOMAIN <<x>> = {1} /\ <<x>>[1] = x
    /\ \A x, y : IsList(<<x, y>>) /\ Len(<<x, y>>) = 2 /\ DOMAIN <<x, y>> = {1, 2}
                 /\ <<x, y>>[1] = x /\ <<x, y>>[2] = y
    /\ \A x, y, z : IsList(<<x, y, z>>) /\ Len(<<x, y, z>>) = 3 /\ DOMAIN <<x, y, z>> = {1, 2, 3}
                    /\ <<x, y, z>>[1] = x /\ <<x, y, z>>[2] = y /\ <<x, y, z>>[3] = z
<1>1. IsList(<<>>) /\ Len(<<>>) = 0
  BY DEF IsList
<1>2. ASSUME NEW x PROVE IsList(<<x>>) /\ Len(<<x>>) = 1 /\ DOMAIN <<x>> = {1} /\ <<x>>[1] = x
  BY DEF IsList
<1>3. ASSUME NEW x, NEW y PROVE IsList(<<x, y>>) /\ Len(<<x, y>>) = 2 /\ DOMAIN <<x, y>> = {1, 2}
                 /\ <<x, y>>[1] = x /\ <<x, y>>[2] = y
  BY DEF IsList
<1>4. ASSUME NEW x, NEW y, NEW z
      PROVE  IsList(<<x, y, z>>) /\ Len(<<x, y, z>>) = 3 /\ DOMAIN <<x, y, z>> = {1, 2, 3}
                    /\ <<x, y, z>>[1] = x /\ <<x, y, z>>[2] = y /\ <<x, y, z>>[3] = z
  BY DEF IsList
<1> QED BY <1>1, <1>2, <1>3, <1>4

(* Lists one behind the other, in whichever order they are put together. *)
LEMMA ListsAssoc ==
    ASSUME NEW a, NEW b, NEW c, IsList(a), IsList(b), IsList(c)
    PROVE  a \o (b \o c) = (a \o b) \o c
<1> DEFINE S == {a[i] : i \in DOMAIN a} \cup {b[i] : i \in DOMAIN b} \cup {c[i] : i \in DOMAIN c}
<1>1. a \in Seq(S) /\ b \in Seq(S) /\ c \in Seq(S)
  <2>1. a \in Seq({a[i] : i \in DOMAIN a}) /\ b \in Seq({b[i] : i \in DOMAIN b}) /\ c \in Seq({c[i] : i \in DOMAIN c})
    BY DEF IsList
  <2>2. a \in Seq(S)
    BY <2>1
  <2>3. b \in Seq(S)
    BY <2>1
  <2>4. c \in Seq(S)
    BY <2>1
  <2> QED BY <2>2, <2>3, <2>4
<1> HIDE DEF S
<1> QED BY <1>1, Assoc

-----------------------------------------------------------------------------
(* What header lines say. *)

IsHeader(t, name) == t.kind = "header" /\ t.key.name = name

\* No line of a list has the name; the last line with the name has the value; all that lines
\* with the name have.
Silent(list, name) == \A i \in DOMAIN list : ~IsHeader(list[i], name)
Says(list, name, v) ==
    \E p \in DOMAIN list :
        /\ IsHeader(list[p], name) /\ list[p].value = v
        /\ \A q \in DOMAIN list : q > p => ~IsHeader(list[q], name)
Said(list, name) == {list[i].value : i \in HP!Named(list, name)}

\* Only header lines; a start line and header lines behind it.
Headers(list) == IsList(list) /\ \A i \in DOMAIN list : list[i].kind = "header"
Opened(list, start) ==
    /\ IsList(list) /\ Len(list) > 0 /\ list[1] = start /\ start.kind \in {"request", "status"}
    /\ \A i \in DOMAIN list : i > 1 => list[i].kind = "header"

(* A place of two lists is one of the first or of the second. *)
LEMMA Places ==
    ASSUME NEW a, NEW b, IsList(a), IsList(b), NEW i \in DOMAIN (a \o b)
    PROVE  \/ i \in DOMAIN a /\ (a \o b)[i] = a[i]
           \/ i > Len(a) /\ i - Len(a) \in DOMAIN b /\ (a \o b)[i] = b[i - Len(a)]
<1> DEFINE c == a \o b
<1>1. /\ Len(a) \in Nat /\ Len(b) \in Nat
      /\ DOMAIN a = 1 .. Len(a) /\ DOMAIN b = 1 .. Len(b) /\ DOMAIN c = 1 .. Len(a) + Len(b)
      /\ \A j \in DOMAIN a : c[j] = a[j]
      /\ \A j \in DOMAIN b : c[Len(a) + j] = b[j]
  BY Lists
<1>2. i \in DOMAIN c
  OBVIOUS
<1> HIDE DEF c
<1>3. CASE i <= Len(a)
  BY <1>1, <1>2, <1>3 DEF c
<1>4. CASE i > Len(a)
  <2>1. i - Len(a) \in DOMAIN b /\ Len(a) + (i - Len(a)) = i
    BY <1>1, <1>2, <1>4
  <2>2. c[Len(a) + (i - Len(a))] = b[i - Len(a)]
    BY <1>1, <2>1
  <2> QED BY <1>4, <2>1, <2>2 DEF c
<1> QED BY <1>1, <1>2, <1>3, <1>4

(* What two lists say is what the second says, or the first where the second says nothing. *)
LEMMA Speaks ==
    ASSUME NEW a, NEW b, IsList(a), IsList(b), NEW name
    PROVE  /\ Silent(a, name) /\ Silent(b, name) => Silent(a \o b, name)
           /\ \A v : Says(a, name, v) /\ Silent(b, name) => Says(a \o b, name, v)
           /\ \A v : Says(b, name, v) => Says(a \o b, name, v)
           /\ Said(a \o b, name) = Said(a, name) \cup Said(b, name)
<1> DEFINE c == a \o b
<1>1. /\ Len(a) \in Nat /\ Len(b) \in Nat
      /\ DOMAIN a = 1 .. Len(a) /\ DOMAIN b = 1 .. Len(b) /\ DOMAIN c = 1 .. Len(a) + Len(b)
      /\ \A j \in DOMAIN a : c[j] = a[j]
      /\ \A j \in DOMAIN b : c[Len(a) + j] = b[j]
  BY Lists
<1>2. \A i \in DOMAIN c :
         \/ i \in DOMAIN a /\ c[i] = a[i]
         \/ i > Len(a) /\ i - Len(a) \in DOMAIN b /\ c[i] = b[i - Len(a)]
  BY Places
<1> HIDE DEF c
<1>3. Silent(a, name) /\ Silent(b, name) => Silent(c, name)
  BY <1>2 DEF Silent
<1>4. ASSUME NEW v, Says(a, name, v), Silent(b, name) PROVE Says(c, name, v)
  <2>1. PICK p \in DOMAIN a : /\ IsHeader(a[p], name) /\ a[p].value = v
                              /\ \A q \in DOMAIN a : q > p => ~IsHeader(a[q], name)
    BY <1>4 DEF Says
  <2>2. p \in DOMAIN c /\ c[p] = a[p]
    BY <1>1
  <2>3. ASSUME NEW q \in DOMAIN c, q > p PROVE ~IsHeader(c[q], name)
    BY <2>1, <2>3, <1>2, <1>4 DEF Silent
  <2> QED BY <2>1, <2>2, <2>3 DEF Says
<1>5. ASSUME NEW v, Says(b, name, v) PROVE Says(c, name, v)
  <2>1. PICK p \in DOMAIN b : /\ IsHeader(b[p], name) /\ b[p].value = v
                              /\ \A q \in DOMAIN b : q > p => ~IsHeader(b[q], name)
    BY <1>5 DEF Says
  <2>2. Len(a) + p \in DOMAIN c /\ c[Len(a) + p] = b[p]
    BY <1>1
  <2>3. ASSUME NEW q \in DOMAIN c, q > Len(a) + p PROVE ~IsHeader(c[q], name)
    <3>1. q > Len(a) /\ q - Len(a) > p /\ q \notin DOMAIN a
      BY <2>3, <1>1
    <3>2. q - Len(a) \in DOMAIN b /\ c[q] = b[q - Len(a)]
      BY <3>1, <1>2
    <3> QED BY <3>1, <3>2, <2>1
  <2> QED BY <2>1, <2>2, <2>3 DEF Says
<1>6. Said(c, name) \subseteq Said(a, name) \cup Said(b, name)
  <2> SUFFICES ASSUME NEW i \in HP!Named(c, name) PROVE c[i].value \in Said(a, name) \cup Said(b, name)
    BY DEF Said
  <2>1. i \in DOMAIN c /\ IsHeader(c[i], name)
    BY DEF HP!Named, IsHeader
  <2>2. CASE i \in DOMAIN a /\ c[i] = a[i]
    BY <2>1, <2>2 DEF Said, HP!Named, IsHeader
  <2>3. CASE i - Len(a) \in DOMAIN b /\ c[i] = b[i - Len(a)]
    BY <2>1, <2>3 DEF Said, HP!Named, IsHeader
  <2> QED BY <2>1, <2>2, <2>3, <1>2
<1>7. Said(a, name) \cup Said(b, name) \subseteq Said(c, name)
  <2>1. ASSUME NEW i \in HP!Named(a, name) PROVE a[i].value \in Said(c, name)
    <3>1. i \in DOMAIN c /\ c[i] = a[i] /\ IsHeader(c[i], name)
      BY <1>1 DEF HP!Named, IsHeader
    <3> QED BY <3>1 DEF Said, HP!Named, IsHeader
  <2>2. ASSUME NEW i \in HP!Named(b, name) PROVE b[i].value \in Said(c, name)
    <3>0. i \in DOMAIN b /\ IsHeader(b[i], name)
      BY DEF HP!Named, IsHeader
    <3>1. Len(a) + i \in DOMAIN c /\ c[Len(a) + i] = b[i]
      BY <1>1, <3>0
    <3> QED BY <3>0, <3>1 DEF Said, HP!Named, IsHeader
  <2> QED BY <2>1, <2>2 DEF Said
<1> QED BY <1>3, <1>4, <1>5, <1>6, <1>7 DEF c

(* Header lines behind header lines, and behind a start line. *)
LEMMA HeadersBehind ==
    ASSUME NEW a, NEW b, Headers(b)
    PROVE  /\ Headers(a) => Headers(a \o b)
           /\ \A s : Opened(a, s) => Opened(a \o b, s)
<1> DEFINE c == a \o b
<1>0. IsList(b) /\ \A j \in DOMAIN b : b[j].kind = "header"
  BY DEF Headers
<1>1. ASSUME IsList(a)
      PROVE  /\ IsList(c) /\ Len(a) \in Nat /\ Len(b) \in Nat /\ Len(c) = Len(a) + Len(b)
             /\ \A i \in DOMAIN a : c[i] = a[i] /\ DOMAIN a = 1 .. Len(a)
             /\ \A i \in DOMAIN c : \/ i \in DOMAIN a /\ c[i] = a[i]
                                    \/ i > Len(a) /\ i - Len(a) \in DOMAIN b /\ c[i] = b[i - Len(a)]
  BY <1>0, <1>1, Lists, Places
<1> HIDE DEF c
<1>2. Headers(a) => Headers(c)
  BY <1>0, <1>1 DEF Headers
<1>3. ASSUME NEW s, Opened(a, s) PROVE Opened(c, s)
  <2>1. /\ IsList(a) /\ Len(a) > 0 /\ a[1] = s /\ s.kind \in {"request", "status"}
        /\ \A i \in DOMAIN a : i > 1 => a[i].kind = "header"
    BY <1>3 DEF Opened
  <2>2. IsList(c) /\ Len(c) > 0 /\ c[1] = s
    BY <1>1, <2>1, Lists
  <2>3. \A i \in DOMAIN c : i > 1 => c[i].kind = "header"
    BY <1>0, <1>1, <2>1
  <2> QED BY <2>1, <2>2, <2>3 DEF Opened
<1> QED BY <1>2, <1>3 DEF c

-----------------------------------------------------------------------------
(* What the decoder sees in header lines. *)

(* The last of some places, and the first. *)
LEMMA LastPlace ==
    ASSUME NEW T \in SUBSET Nat, NEW p \in T, \A q \in T : q <= p
    PROVE  HP!Max(T) = p
<1>1. \A y \in T : p >= y
  OBVIOUS
<1>2. ASSUME NEW x \in T, \A y \in T : x >= y PROVE x = p
  BY <1>2
<1> QED BY <1>1, <1>2 DEF HP!Max

(* The first of some places. *)
LEMMA FirstPlace ==
    ASSUME NEW T \in SUBSET Nat, NEW p \in T, \A q \in T : p <= q
    PROVE  HP!Min(T) = p
<1>1. \A y \in T : p <= y
  OBVIOUS
<1>2. ASSUME NEW x \in T, \A y \in T : x <= y PROVE x = p
  BY <1>2
<1> QED BY <1>1, <1>2 DEF HP!Min

(* The value of a name is that of the last line with it. *)
LEMMA LatestIs ==
    ASSUME NEW head, IsList(head), NEW name, NEW default
    PROVE  /\ Silent(head, name) => HP!Latest(head, name, default) = default
           /\ \A v : Says(head, name, v) =>
                HP!Latest(head, name, default) = v /\ \E i \in HP!Named(head, name) : TRUE
<1>1. ASSUME Silent(head, name) PROVE HP!Latest(head, name, default) = default
  <2>1. HP!Named(head, name) = {}
    BY <1>1 DEF HP!Named, Silent, IsHeader
  <2> QED BY <2>1 DEF HP!Latest
<1>2. ASSUME NEW v, Says(head, name, v)
      PROVE  HP!Latest(head, name, default) = v /\ \E i \in HP!Named(head, name) : TRUE
  <2>0. DOMAIN head = 1 .. Len(head)
    BY Lists
  <2>1. PICK p \in DOMAIN head : /\ IsHeader(head[p], name) /\ head[p].value = v
                                 /\ \A q \in DOMAIN head : q > p => ~IsHeader(head[q], name)
    BY <1>2 DEF Says
  <2>2. p \in HP!Named(head, name) /\ HP!Named(head, name) \in SUBSET Nat
    BY <2>0, <2>1 DEF HP!Named, IsHeader
  <2>3. ASSUME NEW q \in HP!Named(head, name) PROVE q <= p
    <3>1. q \in DOMAIN head /\ IsHeader(head[q], name) /\ q \in Nat /\ p \in Nat
      BY <2>0 DEF HP!Named, IsHeader
    <3> QED BY <3>1, <2>1
  <2>4. HP!Max(HP!Named(head, name)) = p
    BY <2>2, <2>3, LastPlace
  <2> QED BY <2>1, <2>2, <2>4 DEF HP!Latest
<1> QED BY <1>1, <1>2

(* Whether the connection is kept alive: the last such line says it. *)
LEMMA KeptAlive ==
    ASSUME NEW head, IsList(head), NEW v \in {"Close", "Keep-Alive"}, Says(head, "Connection", v)
    PROVE  HP!keepalive(head) = (v = "Keep-Alive")
<1>0. DOMAIN head = 1 .. Len(head)
  BY Lists
<1>1. PICK p \in DOMAIN head : /\ IsHeader(head[p], "Connection") /\ head[p].value = v
                               /\ \A q \in DOMAIN head : q > p => ~IsHeader(head[q], "Connection")
  BY DEF Says
<1> DEFINE said == {i \in HP!Named(head, "Connection") : head[i].value \in {"Close", "Keep-Alive"}}
<1>2. p \in said /\ said \in SUBSET Nat
  BY <1>0, <1>1 DEF HP!Named, IsHeader
<1>3. ASSUME NEW q \in said PROVE q <= p
  <2>1. q \in DOMAIN head /\ IsHeader(head[q], "Connection") /\ q \in Nat /\ p \in Nat
    BY <1>0 DEF HP!Named, IsHeader
  <2> QED BY <2>1, <1>1
<1>4. HP!Max(said) = p
  <2> HIDE DEF said
  <2> QED BY <1>2, <1>3, LastPlace
<1>5. said # {}
  BY <1>2
<1>6. HP!keepalive(head) = (head[HP!Max(said)].value = "Keep-Alive")
  BY <1>5 DEF HP!keepalive
<1> HIDE DEF said
<1> QED BY <1>1, <1>4, <1>6

(* The places of some elements that come one behind the other, in their order. *)
LEMMA Run ==
    ASSUME NEW c \in Nat, NEW n \in Nat
    PROVE  HP!Sorted(c + 1 .. c + n) = [j \in 1 .. n |-> c + j]
<1> DEFINE T == c + 1 .. c + n
           s == Sorted(T)
<1>1. HP!Sorted(T) = s
  BY DEF HP!Sorted, Sorted, HP!Cardinality, Cardinality
<1>2. Cardinality(T) = n
  <2>1. c + 1 \in Int /\ c + n \in Int
    OBVIOUS
  <2>2. Cardinality(T) = IF c + 1 > c + n THEN 0 ELSE (c + n) - (c + 1) + 1
    BY <2>1, FS_Interval
  <2> HIDE DEF T
  <2> QED BY <2>2
<1>3. Sorts(s, T)
  <2>1. c + n + 1 \in Nat /\ T \in SUBSET (0 .. (c + n + 1) - 1)
    OBVIOUS
  <2> HIDE DEF T
  <2> QED BY <2>1, SortsExists
<1>4. s \in [1 .. n -> T] /\ DOMAIN s = 1 .. n /\ \A i, j \in 1 .. n : i < j => s[i] < s[j]
  <2> HIDE DEF T, s
  <2> QED BY <1>2, <1>3 DEF Sorts
<1> HIDE DEF s
<1>5. \A i \in 1 .. n : s[i] \in Nat /\ s[i] >= c + 1 /\ s[i] <= c + n
  BY <1>4
<1> HIDE DEF T
<1>6. \A k \in 1 .. n : s[k] >= c + k
  <2> DEFINE U == {k \in 0 .. n : k >= 1 => s[k] >= c + k}
  <2>1. 0 \in U
    OBVIOUS
  <2>2. ASSUME NEW k \in 0 .. n - 1, k \in U PROVE k + 1 \in U
    <3>1. k + 1 \in 1 .. n
      OBVIOUS
    <3>2. CASE k = 0
      BY <3>1, <3>2, <1>5
    <3>3. CASE k >= 1
      <4>1. s[k] >= c + k /\ k \in 1 .. n /\ k < k + 1
        BY <2>2, <3>3
      <4>2. s[k] < s[k + 1]
        BY <4>1, <3>1, <1>4
      <4>3. s[k] \in Nat /\ s[k + 1] \in Nat
        BY <4>1, <3>1, <1>5
      <4>4. s[k + 1] >= c + (k + 1)
        BY <4>1, <4>2, <4>3
      <4> QED BY <4>4, <3>1
    <3> QED BY <3>2, <3>3
  <2> HIDE DEF U
  <2>3. 0 .. n \subseteq U
    BY <2>1, <2>2, InductUpto
  <2> QED BY <2>3 DEF U
<1>7. \A k \in 1 .. n : s[k] <= c + k
  <2> DEFINE U == {k \in 0 .. n : k < n => s[n - k] <= c + (n - k)}
  <2>1. 0 \in U
    BY <1>5
  <2>2. ASSUME NEW k \in 0 .. n - 1, k \in U PROVE k + 1 \in U
    <3>1. k + 1 \in 0 .. n
      OBVIOUS
    <3>2. CASE k + 1 < n
      <4>1. s[n - k] <= c + (n - k) /\ n - k \in 1 .. n /\ n - (k + 1) \in 1 .. n /\ n - (k + 1) < n - k
        BY <2>2, <3>2
      <4>2. s[n - (k + 1)] < s[n - k]
        BY <4>1, <1>4
      <4>3. s[n - k] \in Nat /\ s[n - (k + 1)] \in Nat
        BY <4>1, <1>5
      <4>4. s[n - (k + 1)] <= c + (n - (k + 1))
        BY <4>1, <4>2, <4>3
      <4> QED BY <4>4, <3>1
    <3> QED BY <3>1, <3>2
  <2> HIDE DEF U
  <2>3. 0 .. n \subseteq U
    BY <2>1, <2>2, InductUpto
  <2> TAKE k \in 1 .. n
  <2>4. n - k \in U /\ n - k < n /\ n - (n - k) = k
    BY <2>3
  <2> QED BY <2>4 DEF U
<1>8. \A k \in 1 .. n : s[k] = c + k
  BY <1>5, <1>6, <1>7
<1>9. s = [j \in 1 .. n |-> c + j]
  BY <1>4, <1>8
<1> QED BY <1>1, <1>9 DEF T

-----------------------------------------------------------------------------
(* What the encoder makes of headers and cookies. *)

(* The elements of a finite set as a list, each of them once. *)
LEMMA Enumerated ==
    ASSUME NEW S, IsFiniteSet(S)
    PROVE  LET s == HP!SetToSeq(S)
           IN  /\ IsList(s) /\ \A i \in DOMAIN s : s[i] \in S
               /\ \A i, j \in DOMAIN s : s[i] = s[j] => i = j
               /\ \A x \in S : \E i \in DOMAIN s : s[i] = x
<1> DEFINE n == Cardinality(S)
           s == HP!SetToSeq(S)
<1>1. n \in Nat /\ ExistsBijection(1 .. n, S)
  BY FS_CardinalityType
<1>2. HP!Cardinality(S) = n
  BY DEF HP!Cardinality, Cardinality
<1> HIDE DEF n
<1>3. PICK f \in [1 .. n -> S] : \A a, b \in DOMAIN f : f[a] = f[b] => a = b
  BY <1>1 DEF ExistsBijection, Bijection, Injection, IsInjective
<1>4. s \in [1 .. n -> S] /\ HP!IsInjective(s)
  <2>1. \E g \in [1 .. n -> S] : HP!IsInjective(g)
    BY <1>3 DEF HP!IsInjective
  <2>2. s = CHOOSE g \in [1 .. n -> S] : HP!IsInjective(g)
    BY <1>2 DEF HP!SetToSeq
  <2> HIDE DEF s
  <2> QED BY <2>1, <2>2, Zenon
<1> HIDE DEF s
<1>5. DOMAIN s = 1 .. n /\ \A i \in DOMAIN s : s[i] \in S
  BY <1>4
<1>6. \A i, j \in DOMAIN s : s[i] = s[j] => i = j
  BY <1>4 DEF HP!IsInjective
<1>7. \A x \in S : \E i \in DOMAIN s : s[i] = x
  <2>1. s \in Injection(1 .. n, S)
    BY <1>4, <1>5, <1>6 DEF Injection, IsInjective
  <2>2. IsFiniteSet(1 .. n) /\ Cardinality(1 .. n) = n
    <3>1. 1 \in Int /\ n \in Int
      BY <1>1
    <3>2. IsFiniteSet(1 .. n) /\ Cardinality(1 .. n) = IF 1 > n THEN 0 ELSE n - 1 + 1
      BY <3>1, FS_Interval
    <3> QED BY <3>2, <1>1
  <2>3. Cardinality(1 .. n) = Cardinality(S)
    BY <2>2 DEF n
  <2>4. s \in Surjection(1 .. n, S)
    BY <2>1, <2>3, FS_Injection
  <2> QED BY <2>4, <1>5 DEF Surjection
<1>8. IsList(s)
  <2>1. s \in [1 .. n -> {s[i] : i \in DOMAIN s}]
    BY <1>4, <1>5
  <2> QED BY <1>1, <2>1 DEF IsList
<1> QED BY <1>5, <1>6, <1>7, <1>8 DEF s

(* The header lines of a message say each of its headers. *)
LEMMA LinesSay ==
    ASSUME NEW headers, IsFiniteSet(DOMAIN headers),
           \A j, k \in DOMAIN headers : j.name = k.name => j = k
    PROVE  /\ Headers(HP!Lines(headers))
           /\ \A k \in DOMAIN headers : Says(HP!Lines(headers), k.name, headers[k])
           /\ \A name : (\A k \in DOMAIN headers : k.name # name) => Silent(HP!Lines(headers), name)
           /\ \A i \in DOMAIN HP!Lines(headers) : \E k \in DOMAIN headers :
                HP!Lines(headers)[i].key = k /\ HP!Lines(headers)[i].value = headers[k]
<1> DEFINE s == HP!SetToSeq(DOMAIN headers)
           l == HP!Lines(headers)
<1>1. /\ IsList(s) /\ \A i \in DOMAIN s : s[i] \in DOMAIN headers
      /\ \A i, j \in DOMAIN s : s[i] = s[j] => i = j
      /\ \A x \in DOMAIN headers : \E i \in DOMAIN s : s[i] = x
  BY Enumerated
<1>2. l = [i \in DOMAIN s |-> HP!Header(s[i], headers[s[i]])]
  BY DEF HP!Lines
<1> HIDE DEF s, l
<1>3. /\ DOMAIN l = DOMAIN s
      /\ \A i \in DOMAIN s : l[i].kind = "header" /\ l[i].key = s[i] /\ l[i].value = headers[s[i]]
  BY <1>2 DEF HP!Header
<1>4. IsList(l)
  <2>1. Len(s) \in Nat /\ DOMAIN s = 1 .. Len(s)
    BY <1>1, Lists
  <2>2. l \in [1 .. Len(s) -> {l[i] : i \in DOMAIN l}]
    BY <2>1, <1>2, <1>3
  <2> QED BY <2>1, <2>2 DEF IsList
<1>5. Headers(l)
  BY <1>3, <1>4 DEF Headers
<1>6. ASSUME NEW k \in DOMAIN headers PROVE Says(l, k.name, headers[k])
  <2>1. PICK p \in DOMAIN s : s[p] = k
    BY <1>1
  <2>2. p \in DOMAIN l /\ IsHeader(l[p], k.name) /\ l[p].value = headers[k]
    BY <1>3, <2>1 DEF IsHeader
  <2>3. ASSUME NEW q \in DOMAIN l, q > p PROVE ~IsHeader(l[q], k.name)
    <3>1. q # p
      <4>1. q \in Nat /\ p \in Nat
        <5>1. DOMAIN s = 1 .. Len(s)
          BY <1>1, Lists
        <5>2. p \in 1 .. Len(s) /\ q \in 1 .. Len(s)
          BY <5>1, <1>3
        <5> QED BY <5>2
      <4> QED BY <4>1, <2>3
    <3>2. s[q] # k /\ s[q] \in DOMAIN headers
      BY <3>1, <2>1, <1>1, <1>3
    <3> QED BY <3>2, <1>3 DEF IsHeader
  <2> QED BY <2>2, <2>3 DEF Says
<1>7. ASSUME NEW name, \A k \in DOMAIN headers : k.name # name PROVE Silent(l, name)
  BY <1>7, <1>1, <1>3 DEF Silent, IsHeader
<1>8. \A i \in DOMAIN l : \E k \in DOMAIN headers : l[i].key = k /\ l[i].value = headers[k]
  BY <1>1, <1>3
<1> QED BY <1>5, <1>6, <1>7, <1>8 DEF l

(* The lengths that the headers of a message tell are those that its lines say. *)
LEMMA LengthsSaid ==
    ASSUME NEW headers, IsFiniteSet(DOMAIN headers),
           \A j, k \in DOMAIN headers : j.name = k.name => j = k,
           \A k \in DOMAIN headers : k.name = "Content-Length" => headers[k] \in Nat
    PROVE  Said(HP!Lines(headers), "Content-Length") \subseteq Nat
<1> SUFFICES ASSUME NEW i \in HP!Named(HP!Lines(headers), "Content-Length")
             PROVE  HP!Lines(headers)[i].value \in Nat
  BY DEF Said
<1>1. i \in DOMAIN HP!Lines(headers) /\ HP!Lines(headers)[i].key.name = "Content-Length"
  BY DEF HP!Named
<1>2. PICK k \in DOMAIN headers : HP!Lines(headers)[i].key = k /\ HP!Lines(headers)[i].value = headers[k]
  BY <1>1, LinesSay
<1> QED BY <1>1, <1>2

\* The empty text.
Nothing == ""

\* The attributes of a cookie, as a response writes them.
CookieLine(key, c) ==
    <<HP!Attribute(key, HP!UrlEncode(c.value)), HP!Attribute("path", c.path)>>
    \o (IF c.domain = Nothing THEN <<>> ELSE <<HP!Attribute("domain", c.domain)>>)
    \o (IF c.expires > 0 THEN <<HP!Attribute("expires", c.expires)>> ELSE <<>>)

(* The lines of the cookies of a response. *)
LEMMA CookiesSay ==
    ASSUME NEW cookies, IsFiniteSet(DOMAIN cookies)
    PROVE  LET l == HP!ResponseCookies(cookies)
           IN  /\ Headers(l) /\ \A name : name # "Set-Cookie" => Silent(l, name)
               /\ Said(l, "Set-Cookie") = {CookieLine(k, cookies[k]) : k \in DOMAIN cookies}
<1> DEFINE s == HP!SetToSeq(DOMAIN cookies)
           l == HP!ResponseCookies(cookies)
<1>1. /\ IsList(s) /\ \A i \in DOMAIN s : s[i] \in DOMAIN cookies
      /\ \A x \in DOMAIN cookies : \E i \in DOMAIN s : s[i] = x
  BY Enumerated
<1>2. l = [i \in DOMAIN s |-> HP!Header(HP!Field("Set-Cookie"), CookieLine(s[i], cookies[s[i]]))]
  BY DEF HP!ResponseCookies, CookieLine, Nothing
<1> HIDE DEF s, l
<1>3. /\ DOMAIN l = DOMAIN s
      /\ \A i \in DOMAIN s : l[i].kind = "header" /\ l[i].key.name = "Set-Cookie"
                              /\ l[i].value = CookieLine(s[i], cookies[s[i]])
  BY <1>2 DEF HP!Header, HP!Field
<1>4. IsList(l)
  <2>1. Len(s) \in Nat /\ DOMAIN s = 1 .. Len(s)
    BY <1>1, Lists
  <2>2. l \in [1 .. Len(s) -> {l[i] : i \in DOMAIN l}]
    BY <2>1, <1>2, <1>3
  <2> QED BY <2>1, <2>2 DEF IsList
<1>5. Headers(l) /\ \A name : name # "Set-Cookie" => Silent(l, name)
  BY <1>3, <1>4 DEF Headers, Silent, IsHeader
<1>6. HP!Named(l, "Set-Cookie") = DOMAIN s
  BY <1>3 DEF HP!Named
<1>7. Said(l, "Set-Cookie") = {CookieLine(k, cookies[k]) : k \in DOMAIN cookies}
  <2>1. Said(l, "Set-Cookie") = {l[i].value : i \in DOMAIN s}
    BY <1>6 DEF Said
  <2>2. {l[i].value : i \in DOMAIN s} = {CookieLine(s[i], cookies[s[i]]) : i \in DOMAIN s}
    BY <1>3
  <2>3. {CookieLine(s[i], cookies[s[i]]) : i \in DOMAIN s} = {CookieLine(k, cookies[k]) : k \in DOMAIN cookies}
    BY <1>1
  <2> QED BY <2>1, <2>2, <2>3
<1> QED BY <1>5, <1>7 DEF l

(* The attributes of a cookie: the cookie itself, its path, and each of the others at most
   once. *)
LEMMA CookieLineIs ==
    ASSUME NEW key, NEW c
    PROVE  LET l == CookieLine(key, c)
           IN  /\ IsList(l) /\ Len(l) >= 2 /\ \A i \in DOMAIN l : ~l[i].flag
               /\ l[1].name = key /\ l[1].value = HP!UrlEncode(c.value)
               /\ l[2].name = "path" /\ l[2].value = c.path
               /\ \A i \in DOMAIN l : i > 2 => \/ l[i].name = "domain" /\ l[i].value = c.domain
                                               \/ l[i].name = "expires" /\ l[i].value = c.expires
               /\ (c.domain # Nothing => \E i \in DOMAIN l : l[i].name = "domain" /\ l[i].value = c.domain)
               /\ (c.expires > 0 => \E i \in DOMAIN l : l[i].name = "expires" /\ l[i].value = c.expires)
               /\ \A i \in DOMAIN l : i > 2 => (l[i].name = "domain" => c.domain # Nothing)
                                             /\ (l[i].name = "expires" => c.expires > 0)
<1> DEFINE a == <<HP!Attribute(key, HP!UrlEncode(c.value)), HP!Attribute("path", c.path)>>
           d == IF c.domain = Nothing THEN <<>> ELSE <<HP!Attribute("domain", c.domain)>>
           e == IF c.expires > 0 THEN <<HP!Attribute("expires", c.expires)>> ELSE <<>>
           ad == a \o d
           l == CookieLine(key, c)
<1>0. \A n, v : ~HP!Attribute(n, v).flag /\ HP!Attribute(n, v).name = n /\ HP!Attribute(n, v).value = v
  BY DEF HP!Attribute
<1>1. IsList(a)
  BY FewLists
<1>2. Len(a) = 2 /\ DOMAIN a = {1, 2} /\ a[1] = HP!Attribute(key, HP!UrlEncode(c.value))
      /\ a[2] = HP!Attribute("path", c.path)
  BY FewLists
<1>3. /\ IsList(d) /\ \A i \in DOMAIN d : d[i] = HP!Attribute("domain", c.domain) /\ c.domain # Nothing
      /\ c.domain # Nothing => 1 \in DOMAIN d
  <2>1. CASE c.domain = Nothing
    <3>1. d = <<>>
      BY <2>1
    <3>2. IsList(<<>>) /\ DOMAIN <<>> = {}
      BY FewLists
    <3> HIDE DEF d
    <3> QED BY <2>1, <3>1, <3>2
  <2>2. CASE c.domain # Nothing
    <3> DEFINE t == HP!Attribute("domain", c.domain)
    <3>1. d = <<t>>
      BY <2>2
    <3> HIDE DEF t, d
    <3>2. IsList(d) /\ DOMAIN d = {1} /\ d[1] = t
      BY <3>1, FewLists
    <3> QED BY <2>2, <3>2 DEF t
  <2> QED BY <2>1, <2>2
<1>4. /\ IsList(e) /\ \A i \in DOMAIN e : e[i] = HP!Attribute("expires", c.expires) /\ c.expires > 0
      /\ c.expires > 0 => 1 \in DOMAIN e
  <2>1. CASE ~(c.expires > 0)
    BY <2>1, FewLists
  <2>2. CASE c.expires > 0
    <3> DEFINE t == HP!Attribute("expires", c.expires)
    <3>1. e = <<t>>
      BY <2>2
    <3> HIDE DEF t, e
    <3>2. IsList(e) /\ DOMAIN e = {1} /\ e[1] = t
      BY <3>1, FewLists
    <3> QED BY <2>2, <3>2 DEF t
  <2> QED BY <2>1, <2>2
<1>5. l = ad \o e
  BY DEF CookieLine
<1> HIDE DEF a, d, e, l
<1>6. /\ IsList(ad) /\ Len(ad) = Len(a) + Len(d) /\ Len(d) \in Nat /\ DOMAIN d = 1 .. Len(d)
      /\ DOMAIN ad = 1 .. Len(a) + Len(d)
      /\ (\A i \in DOMAIN a : ad[i] = a[i]) /\ \A i \in DOMAIN d : ad[Len(a) + i] = d[i]
  <2>1. IsList(d)
    BY <1>3
  <2> QED BY <1>1, <2>1, Lists, SMTT(30)
<1> HIDE DEF ad
<1>7. /\ IsList(l) /\ Len(ad) \in Nat /\ Len(l) = Len(ad) + Len(e) /\ Len(e) \in Nat /\ DOMAIN e = 1 .. Len(e)
      /\ DOMAIN l = 1 .. Len(ad) + Len(e) /\ DOMAIN ad = 1 .. Len(ad)
      /\ (\A i \in DOMAIN ad : l[i] = ad[i]) /\ \A i \in DOMAIN e : l[Len(ad) + i] = e[i]
  <2>1. IsList(ad) /\ IsList(e)
    BY <1>4, <1>6
  <2> QED BY <2>1, <1>5, Lists
<1>8. /\ Len(ad) = 2 + Len(d) /\ ad[1] = a[1] /\ ad[2] = a[2] /\ \A i \in DOMAIN d : ad[2 + i] = d[i]
  BY <1>2, <1>6
<1>9. \A i \in DOMAIN ad : i > 2 => ad[i] = HP!Attribute("domain", c.domain) /\ c.domain # Nothing
  <2> SUFFICES ASSUME NEW i \in DOMAIN ad, i > 2 PROVE ad[i] = HP!Attribute("domain", c.domain) /\ c.domain # Nothing
    OBVIOUS
  <2>1. i - 2 \in DOMAIN d /\ 2 + (i - 2) = i
    BY <1>2, <1>6
  <2> QED BY <2>1, <1>3, <1>8
<1>10. \A i \in DOMAIN l : \/ i \in DOMAIN ad /\ l[i] = ad[i]
                           \/ i > Len(ad) /\ l[i] = HP!Attribute("expires", c.expires) /\ c.expires > 0
  <2> SUFFICES ASSUME NEW i \in DOMAIN l, i \notin DOMAIN ad
               PROVE  i > Len(ad) /\ l[i] = HP!Attribute("expires", c.expires) /\ c.expires > 0
    BY <1>7
  <2>1. i > Len(ad) /\ i - Len(ad) \in DOMAIN e /\ Len(ad) + (i - Len(ad)) = i
    BY <1>7
  <2> QED BY <2>1, <1>4, <1>7
<1>11. Len(l) >= 2 /\ 1 \in DOMAIN l /\ 2 \in DOMAIN l /\ l[1] = a[1] /\ l[2] = a[2]
  <2>1. Len(l) = 2 + Len(d) + Len(e)
    BY <1>6, <1>7, <1>8
  <2>2. 1 \in DOMAIN ad /\ 2 \in DOMAIN ad
    BY <1>6, <1>7, <1>8
  <2> QED BY <2>1, <2>2, <1>6, <1>7, <1>8
<1>12. \A i \in DOMAIN l : i > 2 => \/ l[i] = HP!Attribute("domain", c.domain) /\ c.domain # Nothing
                                    \/ l[i] = HP!Attribute("expires", c.expires) /\ c.expires > 0
  BY <1>9, <1>10
<1>13. \A i \in DOMAIN l : i = 1 \/ i = 2 \/ i > 2
  BY <1>6, <1>7, <1>8
<1>14. /\ l[1].name = key /\ l[1].value = HP!UrlEncode(c.value) /\ ~l[1].flag
       /\ l[2].name = "path" /\ l[2].value = c.path /\ ~l[2].flag
  BY <1>0, <1>2, <1>11
<1>15. \A i \in DOMAIN l : i > 2 => /\ ~l[i].flag
                                    /\ \/ l[i].name = "domain" /\ l[i].value = c.domain /\ c.domain # Nothing
                                       \/ l[i].name = "expires" /\ l[i].value = c.expires /\ c.expires > 0
  <2> SUFFICES ASSUME NEW i \in DOMAIN l, i > 2
               PROVE  /\ ~l[i].flag
                      /\ \/ l[i].name = "domain" /\ l[i].value = c.domain /\ c.domain # Nothing
                         \/ l[i].name = "expires" /\ l[i].value = c.expires /\ c.expires > 0
    OBVIOUS
  <2>1. CASE l[i] = HP!Attribute("domain", c.domain) /\ c.domain # Nothing
    BY <2>1, <1>0
  <2>2. CASE l[i] = HP!Attribute("expires", c.expires) /\ c.expires > 0
    BY <2>2, <1>0
  <2> QED BY <2>1, <2>2, <1>12
<1>16. \A i \in DOMAIN l : ~l[i].flag
  BY <1>13, <1>14, <1>15
<1>17. c.domain # Nothing => \E i \in DOMAIN l : l[i].name = "domain" /\ l[i].value = c.domain
  <2> SUFFICES ASSUME c.domain # Nothing PROVE \E i \in DOMAIN l : l[i].name = "domain" /\ l[i].value = c.domain
    OBVIOUS
  <2> DEFINE three == 2 + 1
  <2>1. 1 \in DOMAIN d /\ d[1] = HP!Attribute("domain", c.domain)
    BY <1>3
  <2>2. Len(d) \in Nat /\ Len(d) >= 1
    <3>1. 1 \in 1 .. Len(d) /\ Len(d) \in Nat
      BY <2>1, <1>6
    <3> QED BY <3>1
  <2>3. ad[three] = d[1]
    BY <2>1, <1>8
  <2>4. three \in DOMAIN ad
    <3>1. DOMAIN ad = 1 .. Len(ad) /\ Len(ad) = 2 + Len(d)
      BY <1>7, <1>8
    <3> QED BY <2>2, <3>1
  <2> HIDE DEF three
  <2>5. three \in DOMAIN l
    <3>1. DOMAIN ad = 1 .. Len(ad) /\ DOMAIN l = 1 .. Len(ad) + Len(e) /\ Len(ad) \in Nat /\ Len(e) \in Nat
      BY <1>7
    <3> QED BY <2>4, <3>1
  <2>6. l[three] = HP!Attribute("domain", c.domain)
    BY <2>1, <2>3, <2>4, <1>7
  <2> QED BY <2>5, <2>6, <1>0
<1>18. c.expires > 0 => \E i \in DOMAIN l : l[i].name = "expires" /\ l[i].value = c.expires
  <2> SUFFICES ASSUME c.expires > 0
               PROVE  Len(ad) + 1 \in DOMAIN l /\ l[Len(ad) + 1] = HP!Attribute("expires", c.expires)
    BY <1>0
  <2>1. 1 \in DOMAIN e /\ e[1] = HP!Attribute("expires", c.expires)
    BY <1>4
  <2>2. Len(ad) + 1 \in DOMAIN l
    BY <2>1, <1>7
  <2> QED BY <2>1, <2>2, <1>7
<1>19. \A i \in DOMAIN l : i > 2 => (l[i].name = "domain" => c.domain # Nothing)
                                 /\ (l[i].name = "expires" => c.expires > 0)
  BY <1>15
<1>20. \A i \in DOMAIN l : i > 2 => \/ l[i].name = "domain" /\ l[i].value = c.domain
                                    \/ l[i].name = "expires" /\ l[i].value = c.expires
  BY <1>15
<1> QED BY <1>7, <1>11, <1>14, <1>16, <1>17, <1>18, <1>19, <1>20 DEF l

(* The cookie that is read is the one that was written. *)
LEMMA CookieRead ==
    ASSUME NEW key, NEW c, key \notin {"path", "domain", "expires"}, c.value \notin Reserved, c.expires \in Nat
    PROVE  HP!DecodeCookie(CookieLine(key, c)) =
             [key |-> << <<key>> >>, value |-> <<c.value>>, path |-> c.path, domain |-> c.domain,
              expires |-> HP!httptime(c.expires)]
<1> DEFINE l == CookieLine(key, c)
<1>1. /\ IsList(l) /\ Len(l) >= 2 /\ \A i \in DOMAIN l : ~l[i].flag
      /\ l[1].name = key /\ l[1].value = HP!UrlEncode(c.value)
      /\ l[2].name = "path" /\ l[2].value = c.path
      /\ \A i \in DOMAIN l : i > 2 => \/ l[i].name = "domain" /\ l[i].value = c.domain
                                      \/ l[i].name = "expires" /\ l[i].value = c.expires
      /\ (c.domain # Nothing => \E i \in DOMAIN l : l[i].name = "domain" /\ l[i].value = c.domain)
      /\ (c.expires > 0 => \E i \in DOMAIN l : l[i].name = "expires" /\ l[i].value = c.expires)
      /\ \A i \in DOMAIN l : i > 2 => (l[i].name = "domain" => c.domain # Nothing)
                                    /\ (l[i].name = "expires" => c.expires > 0)
  BY CookieLineIs
<1> HIDE DEF l
<1>2. Len(l) \in Nat /\ DOMAIN l = 1 .. Len(l)
  BY <1>1, Lists
<1>3. \A i \in DOMAIN l : i = 1 \/ i = 2 \/ i > 2
  BY <1>2
<1>4. 1 \in DOMAIN l /\ 2 \in DOMAIN l
  <2>1. Len(l) >= 2
    BY <1>1
  <2> QED BY <2>1, <1>2
<1>5. l[1].value = c.value
  BY <1>1 DEF HP!UrlEncode
<1>6. ASSUME NEW i \in DOMAIN l PROVE HP!NameOf(l, i) = <<l[i].name>>
  <2> DEFINE T == {0} \cup {j \in 1 .. (i - 1) : ~l[j].flag}
  <2>1. i \in Nat /\ i >= 1 /\ 1 .. (i - 1) \subseteq DOMAIN l
    BY <1>2
  <2>2. T = {0} \cup 1 .. (i - 1)
    <3>1. \A j \in 1 .. (i - 1) : ~l[j].flag
      BY <2>1, <1>1
    <3> QED BY <3>1
  <2>20. T \in SUBSET Nat /\ i - 1 \in T /\ \A q \in T : q <= i - 1
    <3> HIDE DEF T
    <3> QED BY <2>1, <2>2
  <2> HIDE DEF T
  <2>3. HP!Max(T) = i - 1
    BY <2>20, LastPlace
  <2>4. HP!NameOf(l, i) = [j \in 1 .. (i - (1 + HP!Max(T)) + 1) |-> l[(1 + HP!Max(T)) + j - 1].name]
    BY DEF HP!NameOf, T
  <2>5. 1 + HP!Max(T) = i
    BY <2>1, <2>3
  <2>6. i - i + 1 = 1 /\ \A j \in 1 .. 1 : i + j - 1 = i
    BY <2>1
  <2>7. HP!NameOf(l, i) = [j \in 1 .. 1 |-> l[i].name]
    BY <2>4, <2>5, <2>6
  <2> QED BY <2>7
<1> DEFINE With(names) == {i \in DOMAIN l : ~l[i].flag /\ HP!NameOf(l, i) \in names}
           Known == {<<"path">>, <<"domain">>, <<"expires">>}
           Get(name, default) == LET at == With({<<name>>})
                                 IN  IF at = {} THEN default ELSE l[HP!Max(at)].value
           own == HP!Sorted({i \in DOMAIN l : ~l[i].flag} \ With(Known))
<1>7. HP!DecodeCookie(l) =
        [key |-> [j \in DOMAIN own |-> HP!NameOf(l, own[j])],
         value |-> [j \in DOMAIN own |-> l[own[j]].value],
         path |-> Get("path", Nothing), domain |-> Get("domain", Nothing),
         expires |-> HP!httptime(Get("expires", 0))]
  BY DEF HP!DecodeCookie, Nothing
<1>8. \A name : With({<<name>>}) = {i \in DOMAIN l : l[i].name = name}
  <2> TAKE name
  <2>1. ASSUME NEW i \in DOMAIN l PROVE HP!NameOf(l, i) \in {<<name>>} <=> l[i].name = name
    BY <1>6
  <2> QED BY <2>1, <1>1
<1>9. With(Known) = {i \in DOMAIN l : l[i].name \in {"path", "domain", "expires"}}
  <2>1. ASSUME NEW i \in DOMAIN l PROVE HP!NameOf(l, i) \in Known <=> l[i].name \in {"path", "domain", "expires"}
    BY <1>6
  <2> QED BY <2>1, <1>1
<1>10. own = [j \in 1 .. 1 |-> 1]
  <2>1. {i \in DOMAIN l : ~l[i].flag} = DOMAIN l
    BY <1>1
  <2>2. DOMAIN l \ With(Known) = {1}
    <3> HIDE DEF With
    <3>1. 1 \notin With(Known) /\ 2 \in With(Known)
      BY <1>1, <1>4, <1>9
    <3>2. \A i \in DOMAIN l : i > 2 => i \in With(Known)
      BY <1>1, <1>9
    <3> QED BY <3>1, <3>2, <1>3, <1>4
  <2>3. {1} = 0 + 1 .. 0 + 1
    OBVIOUS
  <2>4. own = HP!Sorted(0 + 1 .. 0 + 1)
    BY <2>1, <2>2, <2>3
  <2>5. HP!Sorted(0 + 1 .. 0 + 1) = [j \in 1 .. 1 |-> 0 + j]
    BY Run
  <2> HIDE DEF own
  <2> QED BY <2>4, <2>5
<1>11. Get("path", Nothing) = c.path
  <2>1. With({<<"path">>}) = {2}
    <3>1. With({<<"path">>}) = {i \in DOMAIN l : l[i].name = "path"}
      BY <1>8
    <3>2. l[1].name # "path" /\ l[2].name = "path" /\ \A i \in DOMAIN l : i > 2 => l[i].name # "path"
      BY <1>1
    <3> HIDE DEF With
    <3> QED BY <3>1, <3>2, <1>3, <1>4
  <2>2. HP!Max({2}) = 2
    BY LastPlace
  <2> HIDE DEF With
  <2> QED BY <2>1, <2>2, <1>1, ZenonT(30)
<1>12. Get("domain", Nothing) = c.domain
  <2> DEFINE at == {i \in DOMAIN l : l[i].name = "domain"}
  <2>1. With({<<"domain">>}) = at
    BY <1>8
  <2>2. CASE c.domain = Nothing
    <3>1. at = {}
      <4>1. l[1].name # "domain" /\ l[2].name # "domain" /\ \A i \in DOMAIN l : i > 2 => l[i].name # "domain"
        BY <2>2, <1>1
      <4> QED BY <4>1, <1>3
    <3> HIDE DEF With
    <3> QED BY <2>1, <2>2, <3>1
  <2>3. CASE c.domain # Nothing
    <3>1. at # {} /\ \A i \in at : l[i].value = c.domain
      BY <2>3, <1>1, <1>3
    <3>2. PICK m \in at : \A i \in at : i <= m
      <4>1. at \in SUBSET (0 .. Len(l))
        BY <1>2
      <4> HIDE DEF at
      <4> QED BY <3>1, <4>1, <1>2, Greatest
    <3>3. HP!Max(at) = m
      <4>1. at \in SUBSET Nat
        BY <1>2
      <4> HIDE DEF at
      <4> QED BY <3>2, <4>1, LastPlace
    <3> HIDE DEF With
    <3> QED BY <2>1, <3>1, <3>2, <3>3
  <2> QED BY <2>2, <2>3
<1>13. Get("expires", 0) = c.expires
  <2> DEFINE at == {i \in DOMAIN l : l[i].name = "expires"}
  <2>1. With({<<"expires">>}) = at
    BY <1>8
  <2>2. CASE c.expires = 0
    <3>1. at = {}
      <4>0. ~(c.expires > 0)
        BY <2>2
      <4>1. l[1].name # "expires" /\ l[2].name # "expires" /\ \A i \in DOMAIN l : i > 2 => l[i].name # "expires"
        BY <4>0, <1>1
      <4> QED BY <4>1, <1>3
    <3> HIDE DEF With
    <3> QED BY <2>1, <2>2, <3>1
  <2>3. CASE c.expires > 0
    <3>1. at # {} /\ \A i \in at : l[i].value = c.expires
      BY <2>3, <1>1, <1>3
    <3>2. PICK m \in at : \A i \in at : i <= m
      <4>1. at \in SUBSET (0 .. Len(l))
        BY <1>2
      <4> HIDE DEF at
      <4> QED BY <3>1, <4>1, <1>2, Greatest
    <3>3. HP!Max(at) = m
      <4>1. at \in SUBSET Nat
        BY <1>2
      <4> HIDE DEF at
      <4> QED BY <3>2, <4>1, LastPlace
    <3> HIDE DEF With
    <3> QED BY <2>1, <3>1, <3>2, <3>3
  <2> QED BY <2>2, <2>3
<1> HIDE DEF With, Get, own
<1>14. [j \in DOMAIN own |-> HP!NameOf(l, own[j])] = << <<key>> >>
  <2>1. DOMAIN own = 1 .. 1 /\ own[1] = 1
    BY <1>10
  <2>2. HP!NameOf(l, 1) = <<key>>
    BY <1>1, <1>4, <1>6
  <2>3. [j \in DOMAIN own |-> HP!NameOf(l, own[j])] = [j \in 1 .. 1 |-> <<key>>]
    BY <2>1, <2>2
  <2> QED BY <2>3
<1>15. [j \in DOMAIN own |-> l[own[j]].value] = <<c.value>>
  <2>1. DOMAIN own = 1 .. 1 /\ own[1] = 1
    BY <1>10
  <2>2. [j \in DOMAIN own |-> l[own[j]].value] = [j \in 1 .. 1 |-> c.value]
    BY <2>1, <1>5
  <2> QED BY <2>2
<1> QED BY <1>7, <1>11, <1>12, <1>13, <1>14, <1>15 DEF l

(* Header lines put behind what is there: what all of it says. *)
LEMMA More ==
    ASSUME NEW s, NEW a, NEW b, Opened(a, s), Headers(b)
    PROVE  /\ Opened(a \o b, s)
           /\ \A n : Silent(a, n) /\ Silent(b, n) => Silent(a \o b, n)
           /\ \A n, v : Says(a, n, v) /\ Silent(b, n) => Says(a \o b, n, v)
           /\ \A n, v : Says(b, n, v) => Says(a \o b, n, v)
           /\ \A n : Said(a \o b, n) = Said(a, n) \cup Said(b, n)
<1>1. IsList(a) /\ IsList(b)
  BY DEF Opened, Headers
<1>2. Opened(a \o b, s)
  BY HeadersBehind
<1>3. ASSUME NEW n
      PROVE  /\ Silent(a, n) /\ Silent(b, n) => Silent(a \o b, n)
             /\ \A v : Says(a, n, v) /\ Silent(b, n) => Says(a \o b, n, v)
             /\ \A v : Says(b, n, v) => Says(a \o b, n, v)
             /\ Said(a \o b, n) = Said(a, n) \cup Said(b, n)
  BY <1>1, Speaks
<1> QED BY <1>2, <1>3

(* A single header line, and none. *)
LEMMA OneLine ==
    ASSUME NEW n, NEW v
    PROVE  LET l == <<HP!Header(HP!Field(n), v)>>
           IN  Headers(l) /\ Says(l, n, v) /\ \A m : m # n => Silent(l, m)
<1> DEFINE t == HP!Header(HP!Field(n), v)
           l == <<t>>
<1>1. t.kind = "header" /\ t.key.name = n /\ t.value = v
  BY DEF HP!Header, HP!Field
<1> HIDE DEF t
<1>2. IsList(l) /\ DOMAIN l = {1} /\ l[1] = t
  BY FewLists
<1> HIDE DEF l
<1>3. Headers(l)
  BY <1>1, <1>2 DEF Headers
<1>4. Says(l, n, v)
  BY <1>1, <1>2 DEF Says, IsHeader
<1>5. \A m : m # n => Silent(l, m)
  BY <1>1, <1>2 DEF Silent, IsHeader
<1> QED BY <1>3, <1>4, <1>5 DEF l, t

(* No header at all. *)
LEMMA NoLine == Headers(<<>>) /\ \A n : Silent(<<>>, n)
<1>1. IsList(<<>>) /\ DOMAIN <<>> = {}
  BY FewLists
<1> QED BY <1>1 DEF Headers, Silent

(* What nobody says has no values. *)
LEMMA Unsaid == \A l, n : Silent(l, n) => Said(l, n) = {}
BY DEF Silent, Said, HP!Named, IsHeader

(* A default is there if no header of the message is spelled like it. *)
LEMMA DefaultSays ==
    ASSUME NEW n, NEW headers
    PROVE  LET l == HP!Default(n, headers)
           IN  /\ Headers(l) /\ \A m : m # n => Silent(l, m)
               /\ HP!Field(n) \in DOMAIN headers => Silent(l, n)
<1>1. CASE HP!Field(n) \in DOMAIN headers
  <2>1. HP!Default(n, headers) = <<>>
    BY <1>1 DEF HP!Default
  <2> QED BY <2>1, NoLine
<1>2. CASE HP!Field(n) \notin DOMAIN headers
  <2> DEFINE l == <<HP!Header(HP!Field(n), "default")>>
  <2>1. HP!Default(n, headers) = l
    BY <1>2 DEF HP!Default
  <2>2. Headers(l) /\ \A m : m # n => Silent(l, m)
    BY OneLine
  <2> HIDE DEF l
  <2> QED BY <2>1, <2>2, <1>2
<1> QED BY <1>1, <1>2

-----------------------------------------------------------------------------
(* A message of HTTP in three pieces: its lines but for the last two, those, and what is
   behind the head. *)

Chunked(msg) == msg.direction = "response" /\ msg.version = "1.1"

Start(msg) ==
    IF msg.direction = "request"
    THEN [kind |-> "request", method |-> IF msg.method = "" THEN "GET" ELSE msg.method,
          url |-> HP!Path(msg.url), version |-> msg.version]
    ELSE HP!StatusLine(msg)

Host(msg) == IF msg.url.host = "" THEN <<>> ELSE <<HP!Header(HP!Field("Host"), msg.url.host)>>

Top(msg) ==
    IF msg.direction = "request"
    THEN <<Start(msg)>> \o Host(msg) \o HP!Lines(msg.headers) \o HP!RequestCookies(msg.cookies)
         \o <<HP!Connection(msg)>> \o HP!sm_default_request_header(msg.headers)
    ELSE <<Start(msg)>> \o HP!Lines(msg.headers) \o HP!ResponseCookies(msg.cookies)
         \o HP!sm_default_header(msg.headers)
         \o <<HP!Header(HP!Field("Date"), "now"), HP!Connection(msg)>>

Bottom(msg) ==
    IF Chunked(msg) THEN <<HP!Header(HP!Field("Transfer-Encoding"), "chunked"), HP!Blank>>
    ELSE IF msg.direction = "request" /\ msg.body = <<>> THEN <<HP!Blank>>
    ELSE <<HP!ContentLength(msg.body), HP!Blank>>

Remainder(msg) ==
    IF Chunked(msg)
    THEN (<<HP!ChunkSize(Len(msg.body))>> \o HP!Bytes(msg.body)) \o <<HP!Crlf, HP!ChunkSize(0), HP!Crlf>>
    ELSE HP!Bytes(msg.body)

Kept(msg) == IF msg.keepalive THEN "Keep-Alive" ELSE "Close"

(* What the lines of a request say. *)
LEMMA RequestTop ==
    ASSUME NEW msg \in HttpMessage, msg.direction = "request"
    PROVE  LET t == Top(msg)
           IN  /\ Opened(t, Start(msg)) /\ Says(t, "Connection", Kept(msg))
               /\ \A k \in DOMAIN msg.headers : k.name # "Connection" => Says(t, k.name, msg.headers[k])
               /\ (\A k \in DOMAIN msg.headers : k.name # "Content-Length") => Silent(t, "Content-Length")
               /\ Silent(t, "Transfer-Encoding") /\ Said(t, "Set-Cookie") = {}
               /\ Said(t, "Content-Length") \subseteq Nat
<1> DEFINE h == msg.headers
           a == <<Start(msg)>>
           b == a \o Host(msg)
           c == b \o HP!Lines(h)
           d == c \o HP!RequestCookies(msg.cookies)
           e == d \o <<HP!Connection(msg)>>
           t == e \o HP!sm_default_request_header(h)
<1>f. HeadersFormed(msg)
  BY MessagesAssumption DEF HttpFormed
<1>0. IsFiniteSet(DOMAIN h) /\ \A j, k \in DOMAIN h : j.name = k.name => j = k
  BY <1>f DEF HeadersFormed
<1>n. \A k \in DOMAIN h : k.name # "Set-Cookie" /\ k.name # "Transfer-Encoding" /\ k.name # "Cookie"
  BY <1>f DEF HeadersFormed, Written
<1>l. \A k \in DOMAIN h : k.name = "User-Agent" => k = HP!Field("User-Agent")
  <2> SUFFICES ASSUME NEW k \in DOMAIN h, k.name = "User-Agent" PROVE k = HP!Field("User-Agent")
    OBVIOUS
  <2>1. k \in [name : STRING, lower : BOOLEAN]
    BY <1>f DEF HeadersFormed
  <2>2. ~k.lower
    BY <1>f DEF HeadersFormed, Defaults
  <2> QED BY <2>1, <2>2 DEF HP!Field
<1>1. Top(msg) = t
  BY DEF Top
<1>2. Opened(a, Start(msg)) /\ \A n : Silent(a, n)
  <2> DEFINE s == Start(msg)
  <2>1. s.kind = "request"
    BY DEF Start
  <2> HIDE DEF s
  <2>2. IsList(<<s>>) /\ Len(<<s>>) = 1 /\ DOMAIN <<s>> = {1} /\ <<s>>[1] = s
    BY FewLists
  <2>3. a = <<s>>
    BY DEF s
  <2> HIDE DEF a
  <2>4. Opened(a, s)
    BY <2>1, <2>2, <2>3 DEF Opened
  <2>5. \A n : Silent(a, n)
    BY <2>1, <2>2, <2>3 DEF Silent, IsHeader
  <2> QED BY <2>2, <2>3, <2>4, <2>5 DEF s
<1>3. Headers(Host(msg)) /\ \A n : n # "Host" => Silent(Host(msg), n)
  <2> DEFINE l == <<HP!Header(HP!Field("Host"), msg.url.host)>>
  <2>1. Headers(l) /\ \A n : n # "Host" => Silent(l, n)
    BY OneLine, ZenonT(30)
  <2>2. Host(msg) = <<>> \/ Host(msg) = l
    BY Zenon DEF Host
  <2> HIDE DEF l
  <2> QED BY <2>1, <2>2, NoLine
<1>4. Opened(b, Start(msg)) /\ (\A n : n # "Host" => Silent(b, n)) /\ Said(b, "Set-Cookie") = {}
  <2> HIDE DEF a
  <2>1. Opened(b, Start(msg)) /\ \A n : n # "Host" => Silent(b, n)
    BY <1>2, <1>3, More
  <2> HIDE DEF b
  <2> QED BY <2>1, Unsaid
<1>5. /\ Headers(HP!Lines(h)) /\ \A k \in DOMAIN h : Says(HP!Lines(h), k.name, h[k])
      /\ \A n : (\A k \in DOMAIN h : k.name # n) => Silent(HP!Lines(h), n)
  BY <1>0, LinesSay
<1> HIDE DEF a, b
<1>6. /\ Opened(c, Start(msg))
      /\ \A k \in DOMAIN h : Says(c, k.name, h[k])
      /\ \A n : n # "Host" /\ (\A k \in DOMAIN h : k.name # n) => Silent(c, n)
  BY <1>4, <1>5, More
<1> HIDE DEF c
<1>7. Headers(HP!RequestCookies(msg.cookies)) /\ \A n : n # "Cookie" => Silent(HP!RequestCookies(msg.cookies), n)
  <2> DEFINE v == [key \in DOMAIN msg.cookies |-> HP!UrlEncode(msg.cookies[key].value)]
             l == <<HP!Header(HP!Field("Cookie"), v)>>
  <2>1. HP!RequestCookies(msg.cookies) = <<>> \/ HP!RequestCookies(msg.cookies) = l
    BY Zenon DEF HP!RequestCookies
  <2> HIDE DEF v
  <2>2. Headers(l) /\ \A n : n # "Cookie" => Silent(l, n)
    BY OneLine
  <2> HIDE DEF l
  <2> QED BY <2>1, <2>2, NoLine
<1>c. Said(HP!Lines(h), "Content-Length") \subseteq Nat
  <2>1. \A k \in DOMAIN h : k.name = "Content-Length" => h[k] \in Nat
    BY <1>f DEF HeadersFormed
  <2> HIDE DEF h
  <2> QED BY <2>1, <1>0, LengthsSaid
<1>d. Said(c, "Content-Length") \subseteq Nat
  <2>1. \A n : Said(c, n) = Said(b, n) \cup Said(HP!Lines(h), n)
    BY <1>4, <1>5, More DEF c
  <2>2. Said(b, "Content-Length") = {}
    BY <1>4, Unsaid
  <2> QED BY <2>1, <2>2, <1>c
<1>8. /\ Opened(d, Start(msg))
      /\ Said(d, "Content-Length") \subseteq Nat
      /\ \A k \in DOMAIN h : Says(d, k.name, h[k])
      /\ \A n : n \notin {"Host", "Cookie"} /\ (\A k \in DOMAIN h : k.name # n) => Silent(d, n)
  <2> DEFINE r == HP!RequestCookies(msg.cookies)
  <2>1. \A k \in DOMAIN h : Silent(r, k.name)
    BY <1>n, <1>7
  <2>2. Headers(r) /\ \A n : n # "Cookie" => Silent(r, n)
    BY <1>7
  <2> HIDE DEF r
  <2>3. d = c \o r
    BY DEF r
  <2> HIDE DEF d, h
  <2>4. Opened(d, Start(msg))
    BY <2>2, <2>3, <1>6, More
  <2>5. \A k \in DOMAIN h : Says(d, k.name, h[k])
    BY <2>1, <2>2, <2>3, <1>6, More
  <2>6. ASSUME NEW n, n \notin {"Host", "Cookie"}, \A k \in DOMAIN h : k.name # n PROVE Silent(d, n)
    <3>1. Silent(c, n) /\ Silent(r, n)
      BY <2>2, <2>6, <1>6
    <3> QED BY <3>1, <2>2, <2>3, <1>6, More
  <2>7. Said(d, "Content-Length") \subseteq Nat
    <3>1. Said(d, "Content-Length") = Said(c, "Content-Length") \cup Said(r, "Content-Length")
      BY <2>2, <2>3, <1>6, More
    <3>2. Said(r, "Content-Length") = {}
      BY <2>2, Unsaid
    <3> QED BY <3>1, <3>2, <1>d
  <2> QED BY <2>4, <2>5, <2>6, <2>7
<1> HIDE DEF d
<1>9. /\ Headers(<<HP!Connection(msg)>>) /\ Says(<<HP!Connection(msg)>>, "Connection", Kept(msg))
      /\ \A n : n # "Connection" => Silent(<<HP!Connection(msg)>>, n)
  <2>1. HP!Connection(msg) = HP!Header(HP!Field("Connection"), Kept(msg))
    BY DEF HP!Connection, Kept
  <2> QED BY <2>1, OneLine
<1>10. /\ Opened(e, Start(msg)) /\ Says(e, "Connection", Kept(msg))
       /\ \A k \in DOMAIN h : k.name # "Connection" => Says(e, k.name, h[k])
       /\ \A n : n \notin {"Host", "Cookie", "Connection"} /\ (\A k \in DOMAIN h : k.name # n) => Silent(e, n)
  BY <1>8, <1>9, More
<1> HIDE DEF e
<1> DEFINE u == HP!sm_default_request_header(h)
<1>11. /\ Headers(u) /\ \A n : n # "User-Agent" => Silent(u, n)
       /\ HP!Field("User-Agent") \in DOMAIN h => Silent(u, "User-Agent")
  <2>1. u = HP!Default("User-Agent", h)
    BY DEF HP!sm_default_request_header
  <2> HIDE DEF u
  <2> QED BY <2>1, DefaultSays
<1>12. \A k \in DOMAIN h : Silent(u, k.name)
  <2> TAKE k \in DOMAIN h
  <2>1. CASE k.name = "User-Agent"
    <3>2. k = HP!Field("User-Agent")
      BY <2>1, <1>l
    <3> HIDE DEF u
    <3> QED BY <2>1, <3>2, <1>11
  <2> HIDE DEF u
  <2> QED BY <2>1, <1>11
<1> HIDE DEF u
<1>e. Said(e, "Content-Length") \subseteq Nat
  <2>1. \A n : Said(e, n) = Said(d, n) \cup Said(<<HP!Connection(msg)>>, n)
    BY <1>8, <1>9, More DEF e
  <2>2. Said(<<HP!Connection(msg)>>, "Content-Length") = {}
    BY <1>9, Unsaid
  <2> QED BY <2>1, <2>2, <1>8
<1>13. t = e \o u
  BY DEF u
<1> HIDE DEF t
<1>14. /\ Opened(t, Start(msg)) /\ Says(t, "Connection", Kept(msg))
       /\ \A k \in DOMAIN h : k.name # "Connection" => Says(t, k.name, h[k])
       /\ \A n : n \notin {"Host", "Cookie", "Connection", "User-Agent"} /\ (\A k \in DOMAIN h : k.name # n)
            => Silent(t, n)
  <2>0. /\ Opened(t, Start(msg)) /\ \A n, v : Says(e, n, v) /\ Silent(u, n) => Says(t, n, v)
        /\ \A n : Silent(e, n) /\ Silent(u, n) => Silent(t, n)
    BY <1>10, <1>11, <1>13, More
  <2>1. Says(t, "Connection", Kept(msg))
    <3>1. Silent(u, "Connection")
      BY <1>11
    <3> QED BY <3>1, <2>0, <1>10
  <2>2. \A k \in DOMAIN h : k.name # "Connection" => Says(t, k.name, h[k])
    BY <2>0, <1>10, <1>12
  <2>3. ASSUME NEW n, n \notin {"Host", "Cookie", "Connection", "User-Agent"}, \A k \in DOMAIN h : k.name # n
        PROVE  Silent(t, n)
    <3>1. Silent(e, n) /\ Silent(u, n)
      BY <2>3, <1>10, <1>11
    <3> QED BY <3>1, <2>0
  <2> QED BY <2>0, <2>1, <2>2, <2>3
<1>15. Silent(t, "Transfer-Encoding") /\ Silent(t, "Set-Cookie")
  <2>1. \A k \in DOMAIN h : k.name # "Transfer-Encoding" /\ k.name # "Set-Cookie"
    BY <1>n
  <2>2. "Transfer-Encoding" \notin {"Host", "Cookie", "Connection", "User-Agent"}
        /\ "Set-Cookie" \notin {"Host", "Cookie", "Connection", "User-Agent"}
    OBVIOUS
  <2> QED BY <2>1, <2>2, <1>14
<1>16. Said(t, "Set-Cookie") = {}
  BY <1>15, Unsaid
<1>17. Said(t, "Content-Length") \subseteq Nat
  <2>1. Said(t, "Content-Length") = Said(e, "Content-Length") \cup Said(u, "Content-Length")
    BY <1>10, <1>11, <1>13, More
  <2>2. Said(u, "Content-Length") = {}
    BY <1>11, Unsaid
  <2> QED BY <2>1, <2>2, <1>e
<1> QED BY <1>1, <1>14, <1>15, <1>16, <1>17 DEF h

(* The headers a response gets where it has none of its own. *)
LEMMA DefaultsSay ==
    ASSUME NEW headers
    PROVE  LET u == HP!sm_default_header(headers)
           IN  /\ Headers(u)
               /\ \A n : n \notin {"Cache-Control", "Content-Type", "Server"} => Silent(u, n)
               /\ \A n : HP!Field(n) \in DOMAIN headers => Silent(u, n)
<1> DEFINE a == HP!Default("Cache-Control", headers)
           b == HP!Default("Content-Type", headers)
           c == HP!Default("Server", headers)
           u == HP!sm_default_header(headers)
<1>1. u = (a \o b) \o c
  BY DEF HP!sm_default_header
<1>2. /\ Headers(a) /\ \A m : m # "Cache-Control" => Silent(a, m)
      /\ HP!Field("Cache-Control") \in DOMAIN headers => Silent(a, "Cache-Control")
  BY DefaultSays
<1>3. /\ Headers(b) /\ \A m : m # "Content-Type" => Silent(b, m)
      /\ HP!Field("Content-Type") \in DOMAIN headers => Silent(b, "Content-Type")
  BY DefaultSays
<1>4. /\ Headers(c) /\ \A m : m # "Server" => Silent(c, m)
      /\ HP!Field("Server") \in DOMAIN headers => Silent(c, "Server")
  BY DefaultSays
<1> HIDE DEF a, b, c, u
<1>5. Headers(a \o b) /\ Headers(u)
  <2>1. Headers(a \o b)
    BY <1>2, <1>3, HeadersBehind
  <2> QED BY <2>1, <1>1, <1>4, HeadersBehind
<1>6. ASSUME NEW n, Silent(a, n), Silent(b, n), Silent(c, n) PROVE Silent(u, n)
  <2>1. IsList(a) /\ IsList(b) /\ IsList(c) /\ IsList(a \o b)
    BY <1>2, <1>3, <1>4, <1>5 DEF Headers
  <2>2. Silent(a \o b, n)
    BY <2>1, <1>6, Speaks
  <2> QED BY <2>1, <2>2, <1>1, <1>6, Speaks
<1>7. ASSUME NEW n, n \notin {"Cache-Control", "Content-Type", "Server"} PROVE Silent(u, n)
  BY <1>2, <1>3, <1>4, <1>6, <1>7
<1>8. ASSUME NEW n, HP!Field(n) \in DOMAIN headers PROVE Silent(u, n)
  <2>1. Silent(a, n)
    BY <1>2, <1>8
  <2>2. Silent(b, n)
    BY <1>3, <1>8
  <2>3. Silent(c, n)
    BY <1>4, <1>8
  <2> QED BY <2>1, <2>2, <2>3, <1>6
<1> QED BY <1>5, <1>7, <1>8 DEF u

(* The last two lines of a response but for those of its body. *)
LEMMA TwoLines ==
    ASSUME NEW n, NEW m, n # m, NEW v, NEW w
    PROVE  LET l == <<HP!Header(HP!Field(n), v), HP!Header(HP!Field(m), w)>>
           IN  Headers(l) /\ Says(l, m, w) /\ \A k : k # n /\ k # m => Silent(l, k)
<1> DEFINE s == HP!Header(HP!Field(n), v)
           t == HP!Header(HP!Field(m), w)
           l == <<s, t>>
<1>1. s.kind = "header" /\ s.key.name = n /\ s.value = v /\ t.kind = "header" /\ t.key.name = m /\ t.value = w
  BY DEF HP!Header, HP!Field
<1> HIDE DEF s, t
<1>2. IsList(l) /\ DOMAIN l = {1, 2} /\ l[1] = s /\ l[2] = t
  BY FewLists
<1> HIDE DEF l
<1>3. Headers(l)
  BY <1>1, <1>2 DEF Headers
<1>4. Says(l, m, w)
  <2>1. 2 \in DOMAIN l /\ IsHeader(l[2], m) /\ l[2].value = w
    BY <1>1, <1>2 DEF IsHeader
  <2>2. \A q \in DOMAIN l : ~(q > 2)
    BY <1>2
  <2> QED BY <2>1, <2>2 DEF Says
<1>5. \A k : k # n /\ k # m => Silent(l, k)
  BY <1>1, <1>2 DEF Silent, IsHeader
<1> QED BY <1>3, <1>4, <1>5 DEF l, s, t

(* What the lines of a response say. *)
LEMMA ResponseTop ==
    ASSUME NEW msg \in HttpMessage, msg.direction = "response"
    PROVE  LET t == Top(msg)
           IN  /\ Opened(t, Start(msg)) /\ Says(t, "Connection", Kept(msg))
               /\ \A k \in DOMAIN msg.headers : k.name # "Connection" => Says(t, k.name, msg.headers[k])
               /\ (\A k \in DOMAIN msg.headers : k.name # "Content-Length") => Silent(t, "Content-Length")
               /\ Silent(t, "Transfer-Encoding")
               /\ Said(t, "Set-Cookie") = {CookieLine(k, msg.cookies[k]) : k \in DOMAIN msg.cookies}
               /\ Said(t, "Content-Length") \subseteq Nat
<1> DEFINE h == msg.headers
           a == <<Start(msg)>>
           l == HP!Lines(h)
           r == HP!ResponseCookies(msg.cookies)
           u == HP!sm_default_header(h)
           w == <<HP!Header(HP!Field("Date"), "now"), HP!Connection(msg)>>
           b == a \o l
           c == b \o r
           d == c \o u
           t == d \o w
           said == {CookieLine(k, msg.cookies[k]) : k \in DOMAIN msg.cookies}
<1>f. HeadersFormed(msg) /\ CookiesFormed(msg.cookies)
  BY MessagesAssumption DEF HttpFormed
<1>0. IsFiniteSet(DOMAIN h) /\ (\A j, k \in DOMAIN h : j.name = k.name => j = k) /\ IsFiniteSet(DOMAIN msg.cookies)
  BY <1>f DEF HeadersFormed, CookiesFormed
<1>n. \A k \in DOMAIN h : k.name # "Set-Cookie" /\ k.name # "Transfer-Encoding" /\ k.name # "Date"
  BY <1>f DEF HeadersFormed, Written
<1>l. \A k \in DOMAIN h : k.name \in {"Cache-Control", "Content-Type", "Server"} => k = HP!Field(k.name)
  <2> SUFFICES ASSUME NEW k \in DOMAIN h, k.name \in {"Cache-Control", "Content-Type", "Server"}
               PROVE  k = HP!Field(k.name)
    OBVIOUS
  <2>1. k \in [name : STRING, lower : BOOLEAN]
    BY <1>f DEF HeadersFormed
  <2>2. ~k.lower
    BY <1>f DEF HeadersFormed, Defaults
  <2> QED BY <2>1, <2>2 DEF HP!Field
<1>1. Top(msg) = t
  BY DEF Top
<1>2. Opened(a, Start(msg)) /\ \A n : Silent(a, n)
  <2> DEFINE s == Start(msg)
  <2>1. s.kind = "status"
    BY DEF Start, HP!StatusLine
  <2> HIDE DEF s
  <2>2. IsList(<<s>>) /\ Len(<<s>>) = 1 /\ DOMAIN <<s>> = {1} /\ <<s>>[1] = s
    BY FewLists
  <2>3. a = <<s>>
    BY DEF s
  <2> HIDE DEF a
  <2>4. Opened(a, s)
    BY <2>1, <2>2, <2>3 DEF Opened
  <2>5. \A n : Silent(a, n)
    BY <2>1, <2>2, <2>3 DEF Silent, IsHeader
  <2> QED BY <2>4, <2>5 DEF s
<1>c. Said(l, "Content-Length") \subseteq Nat
  <2>1. \A k \in DOMAIN h : k.name = "Content-Length" => h[k] \in Nat
    BY <1>f DEF HeadersFormed
  <2> HIDE DEF h
  <2> QED BY <2>1, <1>0, LengthsSaid
<1>3. /\ Headers(l) /\ \A k \in DOMAIN h : Says(l, k.name, h[k])
      /\ \A n : (\A k \in DOMAIN h : k.name # n) => Silent(l, n)
  BY <1>0, LinesSay
<1>4. Headers(r) /\ (\A n : n # "Set-Cookie" => Silent(r, n)) /\ Said(r, "Set-Cookie") = said
  BY <1>0, CookiesSay
<1>5. /\ Headers(u) /\ \A n : n \notin {"Cache-Control", "Content-Type", "Server"} => Silent(u, n)
      /\ \A n : HP!Field(n) \in DOMAIN h => Silent(u, n)
  BY DefaultsSay
<1>6. Headers(w) /\ Says(w, "Connection", Kept(msg)) /\ \A n : n # "Date" /\ n # "Connection" => Silent(w, n)
  <2>1. w = <<HP!Header(HP!Field("Date"), "now"), HP!Header(HP!Field("Connection"), Kept(msg))>>
    BY DEF HP!Connection, Kept
  <2> HIDE DEF w
  <2> QED BY <2>1, TwoLines
<1>7. \A k \in DOMAIN h : Silent(u, k.name)
  <2> TAKE k \in DOMAIN h
  <2>1. CASE k.name \in {"Cache-Control", "Content-Type", "Server"}
    <3>2. k = HP!Field(k.name)
      BY <2>1, <1>l
    <3>3. HP!Field(k.name) \in DOMAIN h
      BY <3>2
    <3> HIDE DEF u
    <3> QED BY <3>3, <1>5
  <2> HIDE DEF u
  <2> QED BY <2>1, <1>5
<1> HIDE DEF l, r, u, w, said
<1>8. /\ Opened(b, Start(msg)) /\ \A k \in DOMAIN h : Says(b, k.name, h[k])
      /\ \A n : (\A k \in DOMAIN h : k.name # n) => Silent(b, n)
      /\ Said(b, "Content-Length") \subseteq Nat
  <2> HIDE DEF a
  <2>1. \A n : Said(b, n) = Said(a, n) \cup Said(l, n)
    BY <1>2, <1>3, More
  <2>2. Said(a, "Content-Length") = {}
    BY <1>2, Unsaid
  <2>3. Said(b, "Content-Length") \subseteq Nat
    BY <2>1, <2>2, <1>c
  <2>4. /\ Opened(b, Start(msg)) /\ \A k \in DOMAIN h : Says(b, k.name, h[k])
        /\ \A n : (\A k \in DOMAIN h : k.name # n) => Silent(b, n)
    BY <1>2, <1>3, More
  <2> QED BY <2>3, <2>4
<1> HIDE DEF a, b
<1>9. /\ Opened(c, Start(msg)) /\ \A n, v : Says(b, n, v) /\ Silent(r, n) => Says(c, n, v)
      /\ \A n : Silent(b, n) /\ Silent(r, n) => Silent(c, n)
      /\ \A n : Said(c, n) = Said(b, n) \cup Said(r, n)
  <2>1. Opened(b, Start(msg)) /\ Headers(r)
    BY <1>4, <1>8
  <2> QED BY <2>1, More
<1> HIDE DEF c
<1>10. /\ Opened(d, Start(msg)) /\ \A n, v : Says(c, n, v) /\ Silent(u, n) => Says(d, n, v)
       /\ \A n : Silent(c, n) /\ Silent(u, n) => Silent(d, n)
       /\ \A n : Said(d, n) = Said(c, n) \cup Said(u, n)
  <2>1. Opened(c, Start(msg)) /\ Headers(u)
    BY <1>5, <1>9
  <2> QED BY <2>1, More
<1> HIDE DEF d
<1>11. /\ Opened(t, Start(msg)) /\ \A n, v : Says(d, n, v) /\ Silent(w, n) => Says(t, n, v)
       /\ \A n, v : Says(w, n, v) => Says(t, n, v)
       /\ \A n : Silent(d, n) /\ Silent(w, n) => Silent(t, n)
       /\ \A n : Said(t, n) = Said(d, n) \cup Said(w, n)
  <2>1. Opened(d, Start(msg)) /\ Headers(w)
    BY <1>6, <1>10
  <2>2. /\ Opened(d \o w, Start(msg)) /\ \A n, v : Says(d, n, v) /\ Silent(w, n) => Says(d \o w, n, v)
        /\ \A n, v : Says(w, n, v) => Says(d \o w, n, v)
        /\ \A n : Silent(d, n) /\ Silent(w, n) => Silent(d \o w, n)
    BY <2>1, More
  <2>3. \A n : Said(d \o w, n) = Said(d, n) \cup Said(w, n)
    <3>1. IsList(d) /\ IsList(w)
      BY <2>1 DEF Opened, Headers
    <3> QED BY <3>1, Speaks
  <2> QED BY <2>2, <2>3
<1> HIDE DEF t
<1>12. ASSUME NEW k \in DOMAIN h, k.name # "Connection" PROVE Says(t, k.name, h[k])
  <2>1. Silent(r, k.name) /\ Silent(u, k.name) /\ Silent(w, k.name)
    BY <1>n, <1>4, <1>6, <1>7, <1>12
  <2> QED BY <2>1, <1>8, <1>9, <1>10, <1>11
<1>13. ASSUME NEW n, n \notin {"Set-Cookie", "Cache-Control", "Content-Type", "Server", "Date", "Connection"},
              \A k \in DOMAIN h : k.name # n
       PROVE  Silent(t, n)
  <2>1. Silent(b, n) /\ Silent(r, n) /\ Silent(u, n) /\ Silent(w, n)
    BY <1>4, <1>5, <1>6, <1>8, <1>13
  <2> QED BY <2>1, <1>9, <1>10, <1>11
<1>14. Silent(t, "Transfer-Encoding")
  <2>1. \A k \in DOMAIN h : k.name # "Transfer-Encoding"
    BY <1>n
  <2> QED BY <2>1, <1>13
<1>15. Said(t, "Set-Cookie") = said
  <2>1. Silent(b, "Set-Cookie") /\ Silent(u, "Set-Cookie") /\ Silent(w, "Set-Cookie")
    <3>1. \A k \in DOMAIN h : k.name # "Set-Cookie"
      BY <1>n
    <3> QED BY <3>1, <1>5, <1>6, <1>8
  <2>2. Said(b, "Set-Cookie") = {} /\ Said(u, "Set-Cookie") = {} /\ Said(w, "Set-Cookie") = {}
    BY <2>1, Unsaid
  <2> QED BY <2>2, <1>4, <1>9, <1>10, <1>11
<1>16. (\A k \in DOMAIN h : k.name # "Content-Length") => Silent(t, "Content-Length")
  BY <1>13
<1>17. Says(t, "Connection", Kept(msg))
  BY <1>6, <1>11
<1>18. Said(t, "Content-Length") \subseteq Nat
  <2>1. Said(r, "Content-Length") = {} /\ Said(u, "Content-Length") = {} /\ Said(w, "Content-Length") = {}
    BY <1>4, <1>5, <1>6, Unsaid
  <2> QED BY <2>1, <1>8, <1>9, <1>10, <1>11
<1> QED BY <1>1, <1>11, <1>12, <1>14, <1>15, <1>16, <1>17, <1>18 DEF h, said

\* The attributes of the cookies of a message, as its lines say them.
CookieLines(msg) ==
    IF msg.direction = "request" THEN {} ELSE {CookieLine(k, msg.cookies[k]) : k \in DOMAIN msg.cookies}

(* What the lines of a message say. *)
LEMMA HttpTop ==
    ASSUME NEW msg \in HttpMessage
    PROVE  LET t == Top(msg)
           IN  /\ Opened(t, Start(msg)) /\ Says(t, "Connection", Kept(msg))
               /\ \A k \in DOMAIN msg.headers : k.name # "Connection" => Says(t, k.name, msg.headers[k])
               /\ (\A k \in DOMAIN msg.headers : k.name # "Content-Length") => Silent(t, "Content-Length")
               /\ Silent(t, "Transfer-Encoding") /\ Said(t, "Set-Cookie") = CookieLines(msg)
               /\ Said(t, "Content-Length") \subseteq Nat
<1>1. msg.direction = "request" \/ msg.direction = "response"
  BY MessagesAssumption DEF HttpFormed
<1>2. CASE msg.direction = "request"
  BY <1>2, RequestTop DEF CookieLines
<1>3. CASE msg.direction = "response"
  <2>1. CookieLines(msg) = {CookieLine(k, msg.cookies[k]) : k \in DOMAIN msg.cookies}
    BY <1>3 DEF CookieLines
  <2> QED BY <1>3, <2>1, ResponseTop
<1> QED BY <1>1, <1>2, <1>3

(* What the end of the head says. *)
LEMMA HttpBottom ==
    ASSUME NEW msg \in HttpMessage
    PROVE  LET b == Bottom(msg)
               n == Len(msg.body)
           IN  /\ IsList(b) /\ Len(b) \in {1, 2} /\ DOMAIN b = 1 .. Len(b) /\ b[Len(b)] = HP!Blank
               /\ Len(b) = 2 => b[1].kind = "header"
               /\ \A m : m # "Transfer-Encoding" /\ m # "Content-Length" => Silent(b, m)
               /\ Chunked(msg) =>
                    /\ Len(b) = 2 /\ b[1].key.name = "Transfer-Encoding" /\ b[1].value = "chunked"
                    /\ Silent(b, "Content-Length")
               /\ ~Chunked(msg) =>
                    /\ Silent(b, "Transfer-Encoding")
                    /\ Len(b) = 2 => Says(b, "Content-Length", n)
                    /\ Len(b) = 1 => msg.direction = "request" /\ msg.body = <<>> /\ Silent(b, "Content-Length")
               /\ Said(b, "Content-Length") \subseteq {n}
<1> DEFINE b == Bottom(msg)
           n == Len(msg.body)
           blank == HP!Blank
           te == HP!Header(HP!Field("Transfer-Encoding"), "chunked")
           cl == HP!Header(HP!Field("Content-Length"), n)
<1>1. /\ blank.kind = "blank" /\ te.kind = "header" /\ te.key.name = "Transfer-Encoding" /\ te.value = "chunked"
      /\ cl.kind = "header" /\ cl.key.name = "Content-Length" /\ cl.value = n
  BY DEF HP!Header, HP!Field, HP!Blank
<1>2. b = IF Chunked(msg) THEN <<te, blank>>
          ELSE IF msg.direction = "request" /\ msg.body = <<>> THEN <<blank>> ELSE <<cl, blank>>
  BY DEF Bottom, HP!ContentLength
<1> HIDE DEF b, n, blank, te, cl
<1>3. CASE Chunked(msg)
  <2>1. b = <<te, blank>>
    BY <1>2, <1>3
  <2>2. IsList(b) /\ Len(b) = 2 /\ DOMAIN b = {1, 2} /\ b[1] = te /\ b[2] = blank
    BY <2>1, FewLists
  <2>3. \A m : m # "Transfer-Encoding" => Silent(b, m)
    BY <2>2, <1>1 DEF Silent, IsHeader
  <2>4. Said(b, "Content-Length") = {}
    BY <2>3, Unsaid
  <2>5. DOMAIN b = 1 .. Len(b)
    BY <2>2
  <2> QED BY <2>2, <2>3, <2>4, <2>5, <1>1, <1>3 DEF b, blank
<1>4. CASE ~Chunked(msg) /\ msg.direction = "request" /\ msg.body = <<>>
  <2>1. b = <<blank>>
    BY <1>2, <1>4
  <2>2. IsList(b) /\ Len(b) = 1 /\ DOMAIN b = {1} /\ b[1] = blank
    BY <2>1, FewLists
  <2>3. \A m : Silent(b, m)
    BY <2>2, <1>1 DEF Silent, IsHeader
  <2>4. Said(b, "Content-Length") = {}
    BY <2>3, Unsaid
  <2>5. DOMAIN b = 1 .. Len(b)
    BY <2>2
  <2> QED BY <2>2, <2>3, <2>4, <2>5, <1>1, <1>4 DEF b, blank
<1>5. CASE ~Chunked(msg) /\ ~(msg.direction = "request" /\ msg.body = <<>>)
  <2>1. b = <<cl, blank>>
    BY <1>2, <1>5
  <2>2. IsList(b) /\ Len(b) = 2 /\ DOMAIN b = {1, 2} /\ b[1] = cl /\ b[2] = blank
    BY <2>1, FewLists
  <2>3. \A m : m # "Content-Length" => Silent(b, m)
    BY <2>2, <1>1 DEF Silent, IsHeader
  <2>4. Says(b, "Content-Length", n)
    <3>1. 1 \in DOMAIN b /\ IsHeader(b[1], "Content-Length") /\ b[1].value = n
      BY <2>2, <1>1 DEF IsHeader
    <3>2. \A q \in DOMAIN b : q > 1 => ~IsHeader(b[q], "Content-Length")
      BY <2>2, <1>1 DEF IsHeader
    <3> QED BY <3>1, <3>2 DEF Says
  <2>5. DOMAIN b = 1 .. Len(b)
    BY <2>2
  <2>6. Said(b, "Content-Length") \subseteq {n}
    BY <2>2, <1>1 DEF Said, HP!Named
  <2> QED BY <2>2, <2>3, <2>4, <2>5, <2>6, <1>1, <1>5 DEF b, blank, n
<1> QED BY <1>3, <1>4, <1>5

HeadOf(msg) == Top(msg) \o Bottom(msg)

(* The head of a message: a start line, header lines and a blank one, and what they say. *)
LEMMA HttpHead ==
    ASSUME NEW msg \in HttpMessage
    PROVE  LET head == HeadOf(msg)
               h == Len(head)
           IN  /\ IsList(head) /\ h \in Nat /\ h >= 3 /\ DOMAIN head = 1 .. h
               /\ head[1] = Start(msg) /\ Start(msg).kind \in {"request", "status"} /\ head[h] = HP!Blank
               /\ \A i \in 2 .. h - 1 :
                    /\ head[i].kind = "header"
                    /\ head[i].key.name = "Transfer-Encoding" <=> Chunked(msg) /\ i = h - 1
               /\ Chunked(msg) => head[h - 1].value = "chunked"
               /\ ~Chunked(msg) => HP!contentlen(head) = Len(msg.body)
               /\ Says(head, "Connection", Kept(msg)) /\ Said(head, "Set-Cookie") = CookieLines(msg)
               /\ \A k \in DOMAIN msg.headers :
                    k.name \notin {"Connection", "Content-Length"} => Says(head, k.name, msg.headers[k])
               /\ Said(head, "Content-Length") \subseteq Nat
<1> DEFINE t == Top(msg)
           b == Bottom(msg)
           n == Len(msg.body)
           head == HeadOf(msg)
           h == Len(head)
           m == Len(t)
           s == Start(msg)
<1>f. HttpFormed(msg)
  BY MessagesAssumption
<1>b. n \in Nat /\ (msg.body = <<>> => n = 0)
  <2>1. IsList(msg.body)
    BY <1>f DEF HttpFormed
  <2> QED BY <2>1, Lists, FewLists
<1>1. /\ Opened(t, s) /\ Says(t, "Connection", Kept(msg))
      /\ \A k \in DOMAIN msg.headers : k.name # "Connection" => Says(t, k.name, msg.headers[k])
      /\ (\A k \in DOMAIN msg.headers : k.name # "Content-Length") => Silent(t, "Content-Length")
      /\ Silent(t, "Transfer-Encoding") /\ Said(t, "Set-Cookie") = CookieLines(msg)
      /\ Said(t, "Content-Length") \subseteq Nat
  BY HttpTop
<1>2. /\ IsList(b) /\ Len(b) \in {1, 2} /\ DOMAIN b = 1 .. Len(b) /\ b[Len(b)] = HP!Blank
      /\ Len(b) = 2 => b[1].kind = "header"
      /\ \A l : l # "Transfer-Encoding" /\ l # "Content-Length" => Silent(b, l)
      /\ Chunked(msg) =>
           /\ Len(b) = 2 /\ b[1].key.name = "Transfer-Encoding" /\ b[1].value = "chunked"
           /\ Silent(b, "Content-Length")
      /\ ~Chunked(msg) =>
           /\ Silent(b, "Transfer-Encoding")
           /\ Len(b) = 2 => Says(b, "Content-Length", n)
           /\ Len(b) = 1 => msg.direction = "request" /\ msg.body = <<>> /\ Silent(b, "Content-Length")
      /\ Said(b, "Content-Length") \subseteq {n}
  BY HttpBottom
<1>3. head = t \o b
  BY DEF HeadOf
<1> HIDE DEF t, b, n, s, head
<1>4. /\ IsList(t) /\ m > 0 /\ t[1] = s /\ s.kind \in {"request", "status"}
      /\ \A i \in DOMAIN t : i > 1 => t[i].kind = "header"
  BY <1>1 DEF Opened
<1>5. /\ IsList(head) /\ m \in Nat /\ h = m + Len(b) /\ DOMAIN t = 1 .. m /\ DOMAIN head = 1 .. h
      /\ (\A i \in 1 .. m : head[i] = t[i]) /\ \A i \in 1 .. Len(b) : head[m + i] = b[i]
  <2>1. /\ IsList(t \o b) /\ m \in Nat /\ Len(t \o b) = m + Len(b) /\ DOMAIN t = 1 .. m
        /\ DOMAIN (t \o b) = 1 .. m + Len(b)
        /\ (\A i \in DOMAIN t : (t \o b)[i] = t[i]) /\ \A i \in DOMAIN b : (t \o b)[m + i] = b[i]
    BY <1>2, <1>4, Lists
  <2>2. DOMAIN b = 1 .. Len(b)
    BY <1>2
  <2> DEFINE c == t \o b
  <2>3. head = c
    BY <1>3
  <2>4. /\ IsList(c) /\ m \in Nat /\ Len(c) = m + Len(b) /\ DOMAIN t = 1 .. m
        /\ DOMAIN c = 1 .. m + Len(b)
        /\ (\A i \in DOMAIN t : c[i] = t[i]) /\ \A i \in DOMAIN b : c[m + i] = b[i]
    BY <2>1
  <2> HIDE DEF c
  <2> QED BY <2>2, <2>3, <2>4
<1>6. m >= 2
  <2>1. PICK p \in DOMAIN t : IsHeader(t[p], "Connection")
    BY <1>1 DEF Says
  <2>2. p # 1
    BY <2>1, <1>4 DEF IsHeader
  <2> QED BY <2>2, <1>5
<1> HIDE DEF h, m
<1>7. h \in Nat /\ h >= 3 /\ head[1] = s /\ m \in Nat
  <2>1. 1 \in 1 .. m
    BY <1>5, <1>6
  <2> QED BY <2>1, <1>2, <1>4, <1>5, <1>6
<1>8. head[h] = HP!Blank
  <2>1. Len(b) \in 1 .. Len(b)
    BY <1>2
  <2> QED BY <2>1, <1>2, <1>5
<1>9. ASSUME NEW i \in 2 .. h - 1
      PROVE  /\ head[i].kind = "header"
             /\ head[i].key.name = "Transfer-Encoding" <=> Chunked(msg) /\ i = h - 1
  <2>1. CASE i <= m
    <3>1. i \in DOMAIN t /\ i > 1 /\ head[i] = t[i] /\ (i # h - 1 \/ ~Chunked(msg))
      BY <2>1, <1>2, <1>5, <1>6, SMTT(30)
    <3>2. i \in DOMAIN t /\ i > 1 /\ head[i] = t[i]
      BY <2>1, <1>5, <1>6
    <3>3. head[i].kind = "header" /\ head[i].key.name # "Transfer-Encoding"
      BY <3>2, <1>1, <1>4 DEF Silent, IsHeader
    <3> QED BY <3>1, <3>3
  <2>2. CASE i > m
    <3>1. Len(b) = 2 /\ i = m + 1 /\ i = h - 1
      BY <2>2, <1>2, <1>5, <1>6, <1>7, SMTT(30)
    <3>2. head[i] = b[1] /\ 1 \in DOMAIN b
      BY <3>1, <1>2, <1>5
    <3>3. ~Chunked(msg) => head[i].key.name # "Transfer-Encoding"
      BY <3>1, <3>2, <1>2 DEF Silent, IsHeader
    <3> QED BY <3>1, <3>2, <3>3, <1>2
  <2> QED BY <2>1, <2>2, <1>7
<1>10. Chunked(msg) => head[h - 1].value = "chunked"
  <2> SUFFICES ASSUME Chunked(msg) PROVE head[h - 1].value = "chunked"
    OBVIOUS
  <2>0. Len(b) = 2 /\ b[1].value = "chunked"
    BY <1>2
  <2>1. h - 1 = m + 1 /\ 1 \in 1 .. Len(b)
    BY <2>0, <1>5
  <2> QED BY <2>0, <2>1, <1>5
<1>11. ASSUME NEW l
       PROVE  /\ Silent(t, l) /\ Silent(b, l) => Silent(head, l)
              /\ \A v : Says(t, l, v) /\ Silent(b, l) => Says(head, l, v)
              /\ \A v : Says(b, l, v) => Says(head, l, v)
              /\ Said(head, l) = Said(t, l) \cup Said(b, l)
  <2>1. IsList(t) /\ IsList(b)
    BY <1>2, <1>4
  <2> QED BY <2>1, <1>3, Speaks
<1>12. ASSUME ~Chunked(msg) PROVE HP!contentlen(head) = n
  <2>0. HP!contentlen(head) = HP!Latest(head, "Content-Length", 0) /\ IsList(head)
    BY <1>5 DEF HP!contentlen
  <2>1. CASE Len(b) = 2
    <3>1. Says(head, "Content-Length", n)
      BY <2>1, <1>2, <1>11, <1>12
    <3> QED BY <3>1, <2>0, LatestIs
  <2>2. CASE Len(b) = 1
    <3>1. msg.direction = "request" /\ msg.body = <<>> /\ Silent(b, "Content-Length") /\ n = 0
      BY <2>2, <1>2, <1>12, <1>b
    <3>2. CASE \A k \in DOMAIN msg.headers : k.name # "Content-Length"
      <4>1. Silent(head, "Content-Length")
        BY <3>1, <3>2, <1>1, <1>11
      <4> QED BY <4>1, <3>1, <2>0, LatestIs
    <3>3. ASSUME NEW k \in DOMAIN msg.headers, k.name = "Content-Length" PROVE HP!contentlen(head) = n
      <4>1. msg.headers[k] = 0
        BY <3>1, <3>3, <1>f DEF HttpFormed, HeadersFormed
      <4>2. Says(head, "Content-Length", 0)
        <5>1. Says(t, "Content-Length", 0)
          BY <3>3, <4>1, <1>1
        <5> QED BY <5>1, <3>1, <1>11
      <4> QED BY <4>2, <3>1, <2>0, LatestIs
    <3> QED BY <3>2, <3>3
  <2> QED BY <2>1, <2>2, <1>2
<1>13. Says(head, "Connection", Kept(msg))
  <2>1. Silent(b, "Connection")
    BY <1>2
  <2> QED BY <2>1, <1>1, <1>11
<1>14. Said(head, "Set-Cookie") = CookieLines(msg)
  <2>1. Silent(b, "Set-Cookie")
    BY <1>2
  <2>2. Said(b, "Set-Cookie") = {}
    BY <2>1, Unsaid
  <2> QED BY <2>2, <1>1, <1>11
<1>15. ASSUME NEW k \in DOMAIN msg.headers, k.name \notin {"Connection", "Content-Length"}
       PROVE  Says(head, k.name, msg.headers[k])
  <2>1. k.name # "Transfer-Encoding"
    BY <1>f DEF HttpFormed, HeadersFormed, Written
  <2>2. Silent(b, k.name)
    BY <2>1, <1>2, <1>15
  <2>3. Says(t, k.name, msg.headers[k])
    BY <1>1, <1>15
  <2> QED BY <2>2, <2>3, <1>11
<1>16. Said(head, "Content-Length") \subseteq Nat
  BY <1>1, <1>2, <1>11, <1>b
<1> QED BY <1>4, <1>5, <1>7, <1>8, <1>9, <1>10, <1>12, <1>13, <1>14, <1>15, <1>16 DEF n, h, s, head

(* A body on the wire. *)
LEMMA BytesAre ==
    ASSUME NEW body, IsList(body)
    PROVE  LET b == HP!Bytes(body)
           IN  /\ IsList(b) /\ Len(b) = Len(body) /\ Len(body) \in Nat
               /\ \A i \in 1 .. Len(body) : b[i].kind = "byte" /\ b[i].value = body[i]
<1> DEFINE b == HP!Bytes(body)
           n == Len(body)
<1>1. n \in Nat /\ DOMAIN body = 1 .. n
  BY Lists
<1> HIDE DEF n
<1>2. b = [i \in 1 .. n |-> [kind |-> "byte", value |-> body[i]]]
  BY <1>1 DEF HP!Bytes
<1> HIDE DEF b
<1>3. b \in [1 .. n -> {b[i] : i \in DOMAIN b}]
  BY <1>2
<1>4. IsList(b) /\ Len(b) = n
  BY <1>1, <1>2, <1>3 DEF IsList
<1>5. \A i \in 1 .. n : b[i].kind = "byte" /\ b[i].value = body[i]
  BY <1>2
<1> QED BY <1>1, <1>4, <1>5 DEF b, n

(* What is behind the head of a message. *)
LEMMA HttpRemainder ==
    ASSUME NEW msg \in HttpMessage
    PROVE  LET r == Remainder(msg)
               n == Len(msg.body)
           IN  /\ IsList(r) /\ n \in Nat
               /\ ~Chunked(msg) => /\ Len(r) = n
                                   /\ \A i \in 1 .. n : r[i].kind = "byte" /\ r[i].value = msg.body[i]
               /\ Chunked(msg) => /\ n >= 1 /\ Len(r) = n + 4 /\ r[1] = HP!ChunkSize(n)
                                  /\ \A i \in 1 .. n : r[1 + i].kind = "byte" /\ r[1 + i].value = msg.body[i]
                                  /\ r[n + 2] = HP!Crlf /\ r[n + 3] = HP!ChunkSize(0) /\ r[n + 4] = HP!Crlf
<1> DEFINE r == Remainder(msg)
           n == Len(msg.body)
           b == HP!Bytes(msg.body)
           size == HP!ChunkSize(n)
           last == HP!ChunkSize(0)
           crlf == HP!Crlf
           a == <<size>>
           z == <<crlf, last, crlf>>
           ab == a \o b
<1>f. HttpFormed(msg)
  BY MessagesAssumption
<1>1. IsList(msg.body) /\ (Chunked(msg) => msg.body # <<>>)
  BY <1>f DEF HttpFormed, Chunked
<1>2. IsList(b) /\ Len(b) = n /\ n \in Nat /\ \A i \in 1 .. n : b[i].kind = "byte" /\ b[i].value = msg.body[i]
  BY <1>1, BytesAre
<1>3. ~Chunked(msg) => r = b
  BY DEF Remainder
<1>4. Chunked(msg) => r = ab \o z
  BY DEF Remainder
<1>5. Chunked(msg) => n >= 1
  <2> SUFFICES ASSUME n = 0 PROVE msg.body = <<>>
    BY <1>1, <1>2
  <2>1. msg.body \in Seq({msg.body[i] : i \in DOMAIN msg.body})
    BY <1>1 DEF IsList
  <2> QED BY <2>1
<1> HIDE DEF r, n, b, size, last, crlf
<1>6. IsList(a) /\ Len(a) = 1 /\ DOMAIN a = {1} /\ a[1] = size
  BY FewLists
<1>7. IsList(z) /\ Len(z) = 3 /\ DOMAIN z = {1, 2, 3} /\ z[1] = crlf /\ z[2] = last /\ z[3] = crlf
  BY FewLists
<1> HIDE DEF a, z
<1>8. /\ IsList(ab) /\ Len(ab) = Len(a) + Len(b) /\ DOMAIN b = 1 .. Len(b)
      /\ DOMAIN ab = 1 .. Len(a) + Len(b)
      /\ (\A i \in DOMAIN a : ab[i] = a[i]) /\ \A i \in DOMAIN b : ab[Len(a) + i] = b[i]
  <2>1. IsList(a) /\ IsList(b)
    BY <1>2, <1>6
  <2> QED BY <2>1, Lists
<1> HIDE DEF ab
<1>9. /\ IsList(ab) /\ Len(ab) = n + 1 /\ DOMAIN ab = 1 .. n + 1 /\ ab[1] = size
      /\ \A i \in 1 .. n : ab[1 + i] = b[i]
  BY <1>2, <1>6, <1>8
<1> DEFINE c == ab \o z
<1>10. /\ IsList(c) /\ Len(c) = Len(ab) + Len(z)
       /\ (\A i \in DOMAIN ab : c[i] = ab[i]) /\ \A i \in DOMAIN z : c[Len(ab) + i] = z[i]
  <2>1. IsList(ab) /\ IsList(z)
    BY <1>7, <1>9
  <2> QED BY <2>1, Lists
<1> HIDE DEF c
<1>11. /\ IsList(c) /\ Len(c) = n + 4 /\ c[1] = size
       /\ (\A i \in 1 .. n : c[1 + i] = b[i]) /\ c[n + 2] = crlf /\ c[n + 3] = last /\ c[n + 4] = crlf
  <2>1. Len(c) = n + 4
    BY <1>2, <1>7, <1>9, <1>10
  <2>2. c[1] = size /\ \A i \in 1 .. n : c[1 + i] = b[i]
    <3>1. 1 \in DOMAIN ab /\ \A i \in 1 .. n : 1 + i \in DOMAIN ab
      BY <1>2, <1>9
    <3> QED BY <3>1, <1>9, <1>10
  <2>3. c[(n + 1) + 1] = crlf /\ c[(n + 1) + 2] = last /\ c[(n + 1) + 3] = crlf
    BY <1>7, <1>9, <1>10
  <2>4. (n + 1) + 1 = n + 2 /\ (n + 1) + 2 = n + 3 /\ (n + 1) + 3 = n + 4
    BY <1>2
  <2> QED BY <2>1, <2>2, <2>3, <2>4, <1>10
<1>12. ASSUME ~Chunked(msg)
       PROVE  IsList(r) /\ Len(r) = n /\ \A i \in 1 .. n : r[i].kind = "byte" /\ r[i].value = msg.body[i]
  BY <1>2, <1>3, <1>12
<1>13. ASSUME Chunked(msg)
       PROVE  /\ IsList(r) /\ n >= 1 /\ Len(r) = n + 4 /\ r[1] = size
              /\ \A i \in 1 .. n : r[1 + i].kind = "byte" /\ r[1 + i].value = msg.body[i]
              /\ r[n + 2] = crlf /\ r[n + 3] = last /\ r[n + 4] = crlf
  <2>1. r = c
    BY <1>4, <1>13 DEF c
  <2>2. n >= 1
    BY <1>5, <1>13
  <2>3. \A i \in 1 .. n : r[1 + i].kind = "byte" /\ r[1 + i].value = msg.body[i]
    BY <2>1, <1>2, <1>11
  <2> QED BY <2>1, <2>2, <2>3, <1>11
<1> QED BY <1>2, <1>12, <1>13 DEF r, n, size, last, crlf

(* A message on the wire is its head and what is behind it. *)
LEMMA HttpSplit ==
    ASSUME NEW msg \in HttpMessage
    PROVE  HttpEncode(msg) = HeadOf(msg) \o Remainder(msg)
<1> DEFINE t == Top(msg)
           b == Bottom(msg)
           r == Remainder(msg)
           bytes == HP!Bytes(msg.body)
           blank == HP!Blank
           cl == HP!ContentLength(msg.body)
           te == HP!Header(HP!Field("Transfer-Encoding"), "chunked")
           size == HP!ChunkSize(Len(msg.body))
           z == <<HP!Crlf, HP!ChunkSize(0), HP!Crlf>>
<1>f. HttpFormed(msg)
  BY MessagesAssumption
<1>1. IsList(t) /\ IsList(b) /\ IsList(r) /\ IsList(msg.body)
  <2>1. IsList(t)
    BY HttpTop DEF Opened
  <2> QED BY <2>1, HttpBottom, HttpRemainder, <1>f DEF HttpFormed
<1>2. t \o (b \o r) = (t \o b) \o r
  BY <1>1, ListsAssoc
<1>3. IsList(bytes)
  BY <1>1, BytesAre
<1>4. CASE msg.direction = "request"
  <2>1. HttpEncode(msg) = t \o (IF msg.body = <<>> THEN <<blank>> ELSE <<cl, blank>> \o bytes)
    BY <1>4, Zenon DEF HttpEncode, HP!Encode, HP!EncodeRequest, Top, Start, Host
  <2>2. ~Chunked(msg)
    BY <1>4 DEF Chunked
  <2>3. r = bytes
    BY <2>2 DEF Remainder
  <2>4. b = IF msg.body = <<>> THEN <<blank>> ELSE <<cl, blank>>
    BY <1>4, <2>2 DEF Bottom
  <2>5. msg.body = <<>> => bytes = <<>>
    <3> SUFFICES ASSUME msg.body = <<>> PROVE bytes = <<>>
      OBVIOUS
    <3>1. Len(bytes) = 0
      BY <1>1, BytesAre, FewLists
    <3>2. bytes \in Seq({bytes[i] : i \in DOMAIN bytes})
      BY <1>3 DEF IsList
    <3> HIDE DEF bytes
    <3> QED BY <3>1, <3>2
  <2>6. <<blank>> \o <<>> = <<blank>>
    OBVIOUS
  <2>7. HttpEncode(msg) = t \o (b \o r)
    <3> HIDE DEF t, b, r, bytes, cl, blank
    <3>1. CASE msg.body = <<>>
      BY <3>1, <2>1, <2>3, <2>4, <2>5, <2>6
    <3>2. CASE msg.body # <<>>
      BY <3>2, <2>1, <2>3, <2>4
    <3> QED BY <3>1, <3>2
  <2> QED BY <2>7, <1>2 DEF HeadOf
<1>5. CASE msg.direction # "request" /\ msg.version # "1.1"
  <2>1. HttpEncode(msg) = t \o (<<cl, blank>> \o bytes)
    BY <1>5, Zenon DEF HttpEncode, HP!Encode, HP!EncodeResponse, Top, Start
  <2>2. ~Chunked(msg)
    BY <1>5 DEF Chunked
  <2>3. r = bytes
    BY <2>2 DEF Remainder
  <2>4. b = <<cl, blank>>
    BY <1>5, <2>2 DEF Bottom
  <2> QED BY <2>1, <2>3, <2>4, <1>2 DEF HeadOf
<1>6. CASE msg.direction # "request" /\ msg.version = "1.1"
  <2>1. HttpEncode(msg) = t \o ((<<te, blank, size>> \o bytes) \o z)
    BY <1>6, Zenon DEF HttpEncode, HP!Encode, HP!EncodeResponse, Top, Start
  <2>2. Chunked(msg)
    BY <1>6, <1>f DEF Chunked, HttpFormed
  <2>3. r = (<<size>> \o bytes) \o z
    BY <2>2 DEF Remainder
  <2>4. b = <<te, blank>>
    BY <2>2 DEF Bottom
  <2> HIDE DEF t, b, r, bytes, te, blank, size, cl
  <2>5. <<te, blank, size>> = <<te, blank>> \o <<size>>
    OBVIOUS
  <2>6. IsList(<<te, blank>>) /\ IsList(<<size>>) /\ IsList(z)
    BY FewLists
  <2> HIDE DEF z
  <2>7. (<<te, blank>> \o <<size>>) \o bytes = <<te, blank>> \o (<<size>> \o bytes)
    BY <2>6, <1>3, ListsAssoc
  <2>8. IsList(<<size>> \o bytes)
    BY <2>6, <1>3, Lists
  <2>9. (<<te, blank>> \o (<<size>> \o bytes)) \o z = <<te, blank>> \o ((<<size>> \o bytes) \o z)
    BY <2>6, <2>8, ListsAssoc
  <2>10. HttpEncode(msg) = t \o (b \o r)
    BY <2>1, <2>3, <2>4, <2>5, <2>7, <2>9
  <2> QED BY <2>10, <1>2 DEF HeadOf, t, b, r
<1> QED BY <1>4, <1>5, <1>6

-----------------------------------------------------------------------------
(* What the parser of HTTP reads and returns. *)

(* What HTTP carries: the tokens of its messages, and bytes that are nobody's. *)
HttpToken ==
    {Http!Junk} \cup UNION {{HttpEncode(msg)[i] : i \in 1 .. Len(HttpEncode(msg))} : msg \in HttpMessage}

(* The tokens of a message in their places. *)
LEMMA HttpWire ==
    ASSUME NEW msg \in HttpMessage
    PROVE  LET w == HttpEncode(msg)
               head == HeadOf(msg)
               h == Len(head)
               n == Len(msg.body)
           IN  /\ w \in Seq(HttpToken) /\ h \in Nat /\ h >= 3 /\ n \in Nat
               /\ \A i \in 1 .. h : w[i] = head[i]
               /\ ~Chunked(msg) => /\ Len(w) = h + n
                                   /\ \A i \in 1 .. n : w[h + i].kind = "byte" /\ w[h + i].value = msg.body[i]
               /\ Chunked(msg) => /\ n >= 1 /\ Len(w) = h + n + 4 /\ w[h + 1] = HP!ChunkSize(n)
                                  /\ \A i \in 1 .. n : w[h + 1 + i].kind = "byte" /\ w[h + 1 + i].value = msg.body[i]
                                  /\ w[h + n + 2] = HP!Crlf /\ w[h + n + 3] = HP!ChunkSize(0)
                                  /\ w[h + n + 4] = HP!Crlf
<1> DEFINE w == HttpEncode(msg)
           head == HeadOf(msg)
           r == Remainder(msg)
           h == Len(head)
           n == Len(msg.body)
           size == HP!ChunkSize(n)
           last == HP!ChunkSize(0)
           crlf == HP!Crlf
<1>1. w = head \o r
  BY HttpSplit
<1>2. IsList(head) /\ h \in Nat /\ h >= 3
  BY HttpHead
<1>3. /\ IsList(r) /\ n \in Nat
      /\ ~Chunked(msg) => /\ Len(r) = n
                          /\ \A i \in 1 .. n : r[i].kind = "byte" /\ r[i].value = msg.body[i]
      /\ Chunked(msg) => /\ n >= 1 /\ Len(r) = n + 4 /\ r[1] = size
                         /\ \A i \in 1 .. n : r[1 + i].kind = "byte" /\ r[1 + i].value = msg.body[i]
                         /\ r[n + 2] = crlf /\ r[n + 3] = last /\ r[n + 4] = crlf
  BY HttpRemainder
<1> HIDE DEF w, head, r, size, last, crlf, n
<1>4. /\ IsList(w) /\ Len(w) = Len(head) + Len(r) /\ Len(r) \in Nat /\ DOMAIN head = 1 .. Len(head)
      /\ DOMAIN r = 1 .. Len(r)
      /\ \A i \in DOMAIN head : w[i] = head[i]
      /\ \A i \in DOMAIN r : w[Len(head) + i] = r[i]
  BY <1>1, <1>2, <1>3, Lists, SMTT(30)
<1> HIDE DEF h
<1>5. /\ IsList(w) /\ Len(w) = h + Len(r) /\ (\A i \in 1 .. h : w[i] = head[i])
      /\ Len(r) \in Nat /\ \A i \in 1 .. Len(r) : w[h + i] = r[i]
  BY <1>4 DEF h
<1>6. w \in Seq(HttpToken)
  <2>1. w \in Seq({w[i] : i \in DOMAIN w})
    BY <1>5 DEF IsList
  <2>2. \A i \in 1 .. Len(w) : w[i] \in HttpToken
    BY DEF w, HttpToken
  <2>3. Len(w) \in Nat /\ DOMAIN w = 1 .. Len(w)
    BY <2>1
  <2>4. {w[i] : i \in DOMAIN w} \subseteq HttpToken
    BY <2>2, <2>3
  <2> DEFINE S == {w[i] : i \in DOMAIN w}
             T == HttpToken
  <2>5. w \in Seq(S) /\ S \subseteq T
    BY <2>1, <2>4
  <2> HIDE DEF S, T
  <2>6. w \in Seq(T)
    BY <2>5
  <2> QED BY <2>6 DEF T
<1>7. ASSUME ~Chunked(msg)
      PROVE  Len(w) = h + n /\ \A i \in 1 .. n : w[h + i].kind = "byte" /\ w[h + i].value = msg.body[i]
  <2>1. Len(r) = n /\ \A i \in 1 .. n : r[i].kind = "byte" /\ r[i].value = msg.body[i]
    BY <1>3, <1>7
  <2> QED BY <2>1, <1>5
<1>8. ASSUME Chunked(msg)
      PROVE  /\ n >= 1 /\ Len(w) = h + n + 4 /\ w[h + 1] = size
             /\ \A i \in 1 .. n : w[h + 1 + i].kind = "byte" /\ w[h + 1 + i].value = msg.body[i]
             /\ w[h + n + 2] = crlf /\ w[h + n + 3] = last
             /\ w[h + n + 4] = crlf
  <2>1. /\ n >= 1 /\ Len(r) = n + 4 /\ r[1] = size
        /\ \A i \in 1 .. n : r[1 + i].kind = "byte" /\ r[1 + i].value = msg.body[i]
        /\ r[n + 2] = crlf /\ r[n + 3] = last /\ r[n + 4] = crlf
    BY <1>3, <1>8
  <2>2. w[h + 1] = size /\ w[h + (n + 2)] = crlf /\ w[h + (n + 3)] = last /\ w[h + (n + 4)] = crlf
    BY <2>1, <1>3, <1>5
  <2>3. \A i \in 1 .. n : w[h + (1 + i)] = r[1 + i] /\ h + (1 + i) = h + 1 + i
    BY <2>1, <1>2, <1>3, <1>5 DEF h
  <2>4. h + (n + 2) = h + n + 2 /\ h + (n + 3) = h + n + 3 /\ h + (n + 4) = h + n + 4
    BY <1>2, <1>3 DEF h
  <2>5. Len(w) = h + n + 4
    BY <2>1, <1>2, <1>3, <1>5 DEF h
  <2> QED BY <2>1, <2>2, <2>3, <2>4, <2>5
<1> QED BY <1>2, <1>3, <1>5, <1>6, <1>7, <1>8 DEF w, head, n, h, size, last, crlf

(* What is read is what was written. *)
LEMMA HttpRead ==
    ASSUME NEW msg \in HttpMessage
    PROVE  HttpSame(msg, HP!Message(HeadOf(msg), msg.body))
<1> DEFINE head == HeadOf(msg)
           h == Len(head)
           got == HP!Message(head, msg.body)
           cookies == {[key |-> << <<k>> >>, value |-> <<msg.cookies[k].value>>,
                        path |-> msg.cookies[k].path, domain |-> msg.cookies[k].domain,
                        expires |-> HP!httptime(msg.cookies[k].expires)] : k \in DOMAIN msg.cookies}
           names == {head[i].key.name : i \in {j \in DOMAIN head : head[j].kind = "header"}}
<1>f. HttpFormed(msg)
  BY MessagesAssumption
<1>1. /\ IsList(head) /\ h \in Nat /\ h >= 3 /\ DOMAIN head = 1 .. h
      /\ head[1] = Start(msg)
      /\ Says(head, "Connection", Kept(msg)) /\ Said(head, "Set-Cookie") = CookieLines(msg)
      /\ \A k \in DOMAIN msg.headers :
           k.name \notin {"Connection", "Content-Length"} => Says(head, k.name, msg.headers[k])
  BY HttpHead
<1>2. /\ got.direction = (IF head[1].kind = "request" THEN "request" ELSE "response")
      /\ got.start = head[1] /\ got.keepalive = HP!keepalive(head)
      /\ got.headers = [name \in names |-> HP!Latest(head, name, Nothing)]
      /\ got.cookies = HP!Cookies(head) /\ got.body = msg.body
  BY DEF HP!Message, Nothing
<1> HIDE DEF got
<1>3. got.keepalive = msg.keepalive
  <2>1. Kept(msg) \in {"Close", "Keep-Alive"} /\ (Kept(msg) = "Keep-Alive") = msg.keepalive
    BY <1>f DEF Kept, HttpFormed
  <2>2. HP!keepalive(head) = (Kept(msg) = "Keep-Alive")
    <3> HIDE DEF head
    <3> QED BY <1>1, <2>1, KeptAlive
  <2> QED BY <1>2, <2>1, <2>2
<1>4. ASSUME NEW k \in DOMAIN msg.headers, k.name \notin {"Content-Length", "Connection"}
      PROVE  got.headers[k.name] = msg.headers[k]
  <2>1. Says(head, k.name, msg.headers[k])
    BY <1>1, <1>4
  <2> HIDE DEF head
  <2>2. HP!Latest(head, k.name, Nothing) = msg.headers[k] /\ \E i \in HP!Named(head, k.name) : TRUE
    BY <1>1, <2>1, LatestIs
  <2>3. k.name \in names
    BY <2>2 DEF HP!Named
  <2> QED BY <1>2, <2>2, <2>3
<1>5. HP!Cookies(head) = {c \in {HP!DecodeCookie(l) : l \in CookieLines(msg)} : c.key # <<>>}
  <2>1. {HP!DecodeCookie(head[i].value) : i \in HP!Named(head, "Set-Cookie")}
          = {HP!DecodeCookie(l) : l \in Said(head, "Set-Cookie")}
    BY DEF Said
  <2> QED BY <2>1, <1>1 DEF HP!Cookies
<1>6. CASE msg.direction = "request"
  <2>1. HP!Cookies(head) = {}
    <3>1. CookieLines(msg) = {}
      BY <1>6 DEF CookieLines
    <3> QED BY <1>5, <3>1
  <2>2. Start(msg) = [kind |-> "request", method |-> IF msg.method = Nothing THEN "GET" ELSE msg.method,
                      url |-> IF msg.url.path = Nothing THEN "/" ELSE msg.url.path, version |-> msg.version]
    BY <1>6, Zenon DEF Start, HP!Path, Nothing
  <2>3. /\ got.direction = msg.direction /\ got.start.version = msg.version
        /\ got.start.method = (IF msg.method = Nothing THEN "GET" ELSE msg.method)
        /\ got.start.url = (IF msg.url.path = Nothing THEN "/" ELSE msg.url.path)
    <3>1. got.start = Start(msg)
      BY <1>1, <1>2
    <3>2. got.start.kind = "request"
      BY <2>2, <3>1
    <3> QED BY <1>1, <1>2, <1>6, <2>2, <3>1, <3>2
  <2>4. got.cookies = {} /\ got.body = msg.body
    BY <1>2, <2>1
  <2>5. \A k \in DOMAIN msg.headers :
         k.name \in {"Content-Length", "Connection"} \/ got.headers[k.name] = msg.headers[k]
    BY <1>4
  <2>6. HttpSame(msg, got)
    BY <1>3, <1>6, <2>3, <2>4, <2>5, Zenon DEF HttpSame, Nothing
  <2> QED BY <2>6 DEF got
<1>7. CASE msg.direction # "request"
  <2>1. msg.direction = "response" /\ CookiesFormed(msg.cookies)
    BY <1>7, <1>f DEF HttpFormed
  <2>2. HP!Cookies(head) = cookies
    <3>1. CookieLines(msg) = {CookieLine(k, msg.cookies[k]) : k \in DOMAIN msg.cookies}
      BY <1>7 DEF CookieLines
    <3>2. ASSUME NEW k \in DOMAIN msg.cookies
          PROVE  HP!DecodeCookie(CookieLine(k, msg.cookies[k])) =
                   [key |-> << <<k>> >>, value |-> <<msg.cookies[k].value>>, path |-> msg.cookies[k].path,
                    domain |-> msg.cookies[k].domain, expires |-> HP!httptime(msg.cookies[k].expires)]
      <4>1. k \notin {"path", "domain", "expires"} /\ msg.cookies[k].value \notin Reserved
            /\ msg.cookies[k].expires \in Nat
        BY <2>1 DEF CookiesFormed
      <4> QED BY <4>1, CookieRead
    <3>3. {HP!DecodeCookie(l) : l \in CookieLines(msg)} = cookies
      BY <3>1, <3>2, ZenonT(30)
    <3>4. \A c \in cookies : c.key # <<>>
      <4>1. \A k : << <<k>> >> # <<>>
        OBVIOUS
      <4>2. \A c \in cookies : \E k \in DOMAIN msg.cookies : c.key = << <<k>> >>
        OBVIOUS
      <4> HIDE DEF cookies
      <4> QED BY <4>1, <4>2
    <3> HIDE DEF cookies
    <3> QED BY <1>5, <3>3, <3>4
  <2>3. got.direction = msg.direction /\ got.start.version = msg.version /\ got.start.code = msg.code
    <3>1. Start(msg) = [kind |-> "status", version |-> msg.version, code |-> msg.code]
      BY <1>7 DEF Start, HP!StatusLine
    <3>2. got.start = Start(msg)
      BY <1>1, <1>2
    <3> QED BY <1>1, <1>2, <2>1, <3>1, <3>2
  <2>4. got.cookies = cookies /\ got.body = msg.body
    BY <1>2, <2>2
  <2>5. \A k \in DOMAIN msg.headers :
         k.name \in {"Content-Length", "Connection"} \/ got.headers[k.name] = msg.headers[k]
    BY <1>4
  <2>6. HttpSame(msg, got)
    BY <1>3, <1>7, <2>3, <2>4, <2>5, Zenon DEF HttpSame
  <2> QED BY <2>6 DEF got
<1> QED BY <1>6, <1>7

(* The kinds of the tokens that are not header lines. *)
LEMMA Kinds ==
    /\ HP!Blank.kind = "blank" /\ HP!Crlf.kind = "crlf"
    /\ \A n : HP!ChunkSize(n).kind = "size" /\ HP!ChunkSize(n).n = n
BY DEF HP!Blank, HP!Crlf, HP!ChunkSize

(* The end of a head that has arrived is found. *)
LEMMA HeadFound ==
    ASSUME NEW msg \in HttpMessage, NEW buf, IsList(buf), Len(buf) >= Len(HeadOf(msg)),
           \A i \in 1 .. Len(HeadOf(msg)) : buf[i] = HeadOf(msg)[i]
    PROVE  LET head == HeadOf(msg)
               h == Len(head)
           IN  /\ buf # <<>> /\ buf[1].kind \in {"request", "status"}
               /\ HP!HeadEnds(buf) # {} /\ HP!Min(HP!HeadEnds(buf)) = h
               /\ SubSeq(buf, 1, h) = head /\ (HP!ischunked(head) <=> Chunked(msg))
<1> DEFINE head == HeadOf(msg)
           h == Len(head)
           blank == HP!Blank
<1>1. /\ IsList(head) /\ h \in Nat /\ h >= 3 /\ DOMAIN head = 1 .. h
      /\ head[1] = Start(msg) /\ Start(msg).kind \in {"request", "status"} /\ head[h] = blank
      /\ \A i \in 2 .. h - 1 :
           /\ head[i].kind = "header"
           /\ head[i].key.name = "Transfer-Encoding" <=> Chunked(msg) /\ i = h - 1
      /\ Chunked(msg) => head[h - 1].value = "chunked"
  BY HttpHead
<1>2. blank.kind = "blank"
  BY Kinds
<1>3. Len(buf) \in Nat /\ DOMAIN buf = 1 .. Len(buf) /\ Len(buf) >= h /\ \A i \in 1 .. h : buf[i] = head[i]
  BY Lists, SMTT(30)
<1>30. head \in Seq({head[i] : i \in DOMAIN head}) /\ buf \in Seq({buf[i] : i \in DOMAIN buf})
  BY <1>1 DEF IsList
<1> HIDE DEF head, blank
<1>4. SubSeq(buf, 1, h) = head
  <2> DEFINE S == {buf[i] : i \in DOMAIN buf}
             T == {head[i] : i \in DOMAIN head}
             s == SubSeq(buf, 1, h)
  <2> HIDE DEF h
  <2>1. buf \in Seq(S) /\ 1 \in Int /\ h \in Nat /\ h <= Len(buf) /\ Len(buf) \in Nat
    BY <1>1, <1>3, <1>30
  <2>2. head \in Seq(T)
    BY <1>30
  <2> HIDE DEF S, T
  <2>3. s \in Seq(S) /\ Len(s) = h /\ \A i \in 1 .. h : s[i] = buf[i]
    BY <2>1
  <2>4. \A i \in 1 .. h : s[i] = head[i]
    BY <2>3, <1>3
  <2> HIDE DEF s
  <2>5. s \in Seq(S \cup T) /\ head \in Seq(S \cup T)
    BY <2>2, <2>3
  <2>6. Len(head) = h
    BY DEF h
  <2>7. s = head
    BY <2>3, <2>4, <2>5, <2>6, SameList
  <2> QED BY <2>7 DEF s
<1> HIDE DEF h
<1>5. buf # <<>> /\ buf[1].kind \in {"request", "status"}
  <2>1. 1 \in 1 .. h /\ Len(buf) # 0
    BY <1>1, <1>3
  <2> QED BY <2>1, <1>1, <1>3
<1>6. HP!HeadEnds(buf) # {} /\ HP!Min(HP!HeadEnds(buf)) = h
  <2> DEFINE E == HP!HeadEnds(buf)
  <2>1. E = {i \in 3 .. Len(buf) : buf[i] = blank}
    BY DEF HP!HeadEnds, blank
  <2> HIDE DEF E
  <2>2. h \in E
    BY <2>1, <1>1, <1>3
  <2>3. ASSUME NEW i \in E PROVE h <= i
    <3> SUFFICES ASSUME i < h PROVE FALSE
      BY <2>1, <1>1, <1>3
    <3>1. i \in 2 .. h - 1 /\ i \in 1 .. h /\ buf[i] = blank
      BY <2>1, <1>1
    <3>2. head[i].kind = "header" /\ head[i] = blank
      BY <3>1, <1>1, <1>3
    <3> QED BY <3>2, <1>2
  <2>4. E \in SUBSET Nat
    BY <2>1
  <2>5. HP!Min(E) = h
    BY <2>2, <2>3, <2>4, FirstPlace
  <2> QED BY <2>2, <2>5 DEF E
<1>7. (HP!ischunked(head) <=> Chunked(msg))
  <2>1. CASE Chunked(msg)
    <3>1. h - 1 \in 2 .. h - 1
      BY <1>1
    <3>2. h - 1 \in HP!Named(head, "Transfer-Encoding")
      BY <3>1, <2>1, <1>1 DEF HP!Named
    <3> QED BY <3>2, <2>1, <1>1 DEF HP!ischunked
  <2>2. CASE ~Chunked(msg)
    <3>1. ASSUME NEW i \in HP!Named(head, "Transfer-Encoding") PROVE FALSE
      <4>1. i \in 1 .. h /\ head[i].kind = "header" /\ head[i].key.name = "Transfer-Encoding"
        BY <1>1 DEF HP!Named
      <4>2. i # 1 /\ i # h
        BY <4>1, <1>1, <1>2
      <4>3. i \in 2 .. h - 1
        BY <4>1, <4>2, <1>1
      <4> QED BY <4>1, <4>3, <2>2, <1>1
    <3> QED BY <3>1, <2>2 DEF HP!ischunked
  <2> QED BY <2>1, <2>2
<1> QED BY <1>4, <1>5, <1>6, <1>7 DEF h, head

(* A part of a head is waited for, but for the blank line behind the last header line of a
   message in chunks. *)
LEMMA HeadAwaited ==
    ASSUME NEW msg \in HttpMessage, NEW buf, IsList(buf), Len(buf) >= 1, Len(buf) < Len(HeadOf(msg)),
           \A i \in 1 .. Len(buf) : buf[i] = HeadOf(msg)[i]
    PROVE  \A r \in HttpDecode(buf) :
             /\ r.is # "next"
             /\ (Chunked(msg) /\ Len(buf) = Len(HeadOf(msg)) - 1) \/ r.is = "buf"
<1> DEFINE head == HeadOf(msg)
           h == Len(head)
           blank == HP!Blank
           at == Chunked(msg) /\ Len(buf) = h - 1
<1>1. /\ h \in Nat /\ h >= 3
      /\ head[1] = Start(msg) /\ Start(msg).kind \in {"request", "status"}
      /\ \A i \in 2 .. h - 1 :
           /\ head[i].kind = "header"
           /\ head[i].key.name = "Transfer-Encoding" <=> Chunked(msg) /\ i = h - 1
  BY HttpHead
<1>2. blank.kind = "blank"
  BY Kinds
<1>3. Len(buf) \in Nat /\ DOMAIN buf = 1 .. Len(buf) /\ Len(buf) < h /\ \A i \in 1 .. Len(buf) : buf[i] = head[i]
  BY Lists
<1> HIDE DEF head, blank, h
<1>4. HP!HeadEnds(buf) = {}
  <2> SUFFICES ASSUME NEW i \in 3 .. Len(buf), buf[i] = blank PROVE FALSE
    BY DEF HP!HeadEnds, blank
  <2>1. i \in 2 .. h - 1 /\ i \in 1 .. Len(buf)
    BY <1>1, <1>3
  <2>2. buf[i].kind = "header"
    BY <2>1, <1>1, <1>3
  <2> QED BY <2>2, <1>2
<1>5. buf # <<>> /\ buf[1].kind \in {"request", "status"}
  <2>1. 1 \in 1 .. Len(buf) /\ Len(buf) # 0
    BY <1>3
  <2> QED BY <2>1, <1>1, <1>3
<1>6. HP!ischunked(buf) => at
  <2> SUFFICES ASSUME NEW i \in HP!Named(buf, "Transfer-Encoding") PROVE at
    BY DEF HP!ischunked
  <2>1. i \in 1 .. Len(buf) /\ buf[i].kind = "header" /\ buf[i].key.name = "Transfer-Encoding"
    BY <1>3 DEF HP!Named
  <2>2. i # 1
    BY <2>1, <1>1, <1>3
  <2>3. i \in 2 .. h - 1 /\ buf[i] = head[i]
    BY <2>1, <2>2, <1>1, <1>3
  <2>4. Chunked(msg) /\ i = h - 1
    BY <2>1, <2>3, <1>1
  <2>5. Len(buf) = h - 1
    BY <2>1, <2>4, <1>1, <1>3
  <2> QED BY <2>4, <2>5
<1>7. HttpDecode(buf) = {HP!Incomplete} \cup (IF HP!ischunked(buf) THEN {HP!Beyond} ELSE {})
  BY <1>4, <1>5 DEF HttpDecode, HP!Decode
<1>8. HP!Incomplete.is = "buf" /\ HP!Beyond.is = "beyond"
  BY DEF HP!Incomplete, HP!Beyond
<1> DEFINE c == HP!ischunked(buf)
           x == HP!Incomplete
           y == HP!Beyond
<1>9. HttpDecode(buf) = {x} \cup (IF c THEN {y} ELSE {}) /\ (c => at) /\ x.is = "buf" /\ y.is = "beyond"
  BY <1>6, <1>7, <1>8
<1> HIDE DEF at, c, x, y
<1>10. \A r \in HttpDecode(buf) : r.is # "next" /\ (at \/ r.is = "buf")
  BY <1>9
<1> QED BY <1>10 DEF at, h, head

(* The bytes of a body that has arrived. *)
LEMMA BodyRead ==
    ASSUME NEW buf, NEW body, IsList(body), NEW a \in Nat, NEW b \in Nat, NEW c \in Nat,
           a <= c + 1, c + Len(body) <= b,
           \A i \in 1 .. Len(body) : buf[c + i].kind = "byte" /\ buf[c + i].value = body[i],
           \A i \in a .. c : buf[i].kind # "byte", \A i \in c + Len(body) + 1 .. b : buf[i].kind # "byte"
    PROVE  HP!Body(buf, a, b) = body
<1> DEFINE n == Len(body)
           at == HP!Sorted({i \in a .. b : buf[i].kind = "byte"})
<1>1. n \in Nat /\ DOMAIN body = 1 .. n
  BY Lists
<1>10. \A i \in 1 .. n : buf[c + i].kind = "byte" /\ buf[c + i].value = body[i]
  OBVIOUS
<1>11. body \in Seq({body[i] : i \in DOMAIN body})
  BY DEF IsList
<1>12. (\A i \in c + n + 1 .. b : buf[i].kind # "byte") /\ c + n <= b
  OBVIOUS
<1> HIDE DEF n
<1>2. {i \in a .. b : buf[i].kind = "byte"} = c + 1 .. c + n
  <2>1. ASSUME NEW i \in a .. b, buf[i].kind = "byte" PROVE i \in c + 1 .. c + n
    <3>1. ~(i <= c)
      BY <2>1
    <3>2. ~(i >= c + n + 1)
      BY <2>1, <1>1, <1>12
    <3> QED BY <3>1, <3>2, <1>1
  <2>2. ASSUME NEW i \in c + 1 .. c + n PROVE i \in a .. b /\ buf[i].kind = "byte"
    <3>1. i - c \in 1 .. n /\ c + (i - c) = i
      BY <1>1
    <3>2. buf[c + (i - c)].kind = "byte"
      BY <3>1, <1>10
    <3> QED BY <3>1, <3>2, <1>1, <1>12
  <2> QED BY <2>1, <2>2
<1>3. at = [j \in 1 .. n |-> c + j]
  BY <1>1, <1>2, Run, ZenonT(30)
<1> HIDE DEF at
<1>4. HP!Body(buf, a, b) = [j \in DOMAIN at |-> buf[at[j]].value]
  BY DEF HP!Body, at
<1>5. DOMAIN at = 1 .. n /\ \A j \in 1 .. n : at[j] = c + j
  BY <1>3
<1>6. [j \in DOMAIN at |-> buf[at[j]].value] = [j \in 1 .. n |-> body[j]]
  BY <1>5, <1>10
<1>7. [j \in 1 .. n |-> body[j]] = body
  BY <1>1, <1>11
<1> QED BY <1>4, <1>6, <1>7

\* The buffer and a message have the same tokens, as far as both go.
Alike(buf, msg) ==
    \A i \in 1 .. Len(HttpEncode(msg)) : i <= Len(buf) => buf[i] = HttpEncode(msg)[i]

(* What is in the buffer behind the head of a message. *)
LEMMA AlikeMeans ==
    ASSUME NEW msg \in HttpMessage, NEW buf, IsList(buf), Alike(buf, msg)
    PROVE  LET head == HeadOf(msg)
               h == Len(head)
               n == Len(msg.body)
               l == Len(buf)
           IN  /\ h \in Nat /\ h >= 3 /\ n \in Nat /\ l \in Nat
               /\ \A i \in 1 .. h : i <= l => buf[i] = head[i]
               /\ l >= h => buf[h] = HP!Blank
               /\ ~Chunked(msg) =>
                    \A i \in 1 .. n : h + i <= l => buf[h + i].kind = "byte" /\ buf[h + i].value = msg.body[i]
               /\ Chunked(msg) =>
                    /\ n >= 1
                    /\ l >= h + 1 => buf[h + 1] = HP!ChunkSize(n)
                    /\ \A i \in 1 .. n :
                         h + 1 + i <= l => buf[h + 1 + i].kind = "byte" /\ buf[h + 1 + i].value = msg.body[i]
                    /\ l >= h + n + 2 => buf[h + n + 2] = HP!Crlf
                    /\ l >= h + n + 3 => buf[h + n + 3] = HP!ChunkSize(0)
                    /\ l >= h + n + 4 => buf[h + n + 4] = HP!Crlf
<1> DEFINE w == HttpEncode(msg)
           head == HeadOf(msg)
           h == Len(head)
           n == Len(msg.body)
           l == Len(buf)
           size == HP!ChunkSize(n)
           last == HP!ChunkSize(0)
           crlf == HP!Crlf
<1>1. l \in Nat
  BY Lists
<1>2. /\ h \in Nat /\ h >= 3 /\ n \in Nat
      /\ \A i \in 1 .. h : w[i] = head[i]
      /\ ~Chunked(msg) => /\ Len(w) = h + n
                          /\ \A i \in 1 .. n : w[h + i].kind = "byte" /\ w[h + i].value = msg.body[i]
      /\ Chunked(msg) => /\ n >= 1 /\ Len(w) = h + n + 4 /\ w[h + 1] = size
                         /\ \A i \in 1 .. n : w[h + 1 + i].kind = "byte" /\ w[h + 1 + i].value = msg.body[i]
                         /\ w[h + n + 2] = crlf /\ w[h + n + 3] = last /\ w[h + n + 4] = crlf
  BY HttpWire
<1>3. head[h] = HP!Blank
  BY HttpHead
<1>4. \A i \in 1 .. Len(w) : i <= l => buf[i] = w[i]
  BY DEF Alike
<1> HIDE DEF w, head, h, n, l, size, last, crlf
<1>5. \A i \in 1 .. h : i <= l => buf[i] = head[i]
  <2>1. 1 .. h \subseteq 1 .. Len(w)
    BY <1>2
  <2> QED BY <2>1, <1>2, <1>4
<1>6. l >= h => buf[h] = HP!Blank
  <2>1. h \in 1 .. h
    BY <1>2
  <2> QED BY <2>1, <1>1, <1>2, <1>3, <1>5
<1>7. ASSUME ~Chunked(msg), NEW i \in 1 .. n, h + i <= l
      PROVE  buf[h + i].kind = "byte" /\ buf[h + i].value = msg.body[i]
  <2>1. h + i \in 1 .. Len(w)
    BY <1>2, <1>7
  <2>2. buf[h + i] = w[h + i]
    BY <2>1, <1>4, <1>7
  <2> QED BY <2>2, <1>2, <1>7
<1>8. ASSUME Chunked(msg)
      PROVE  /\ n >= 1
             /\ l >= h + 1 => buf[h + 1] = size
             /\ \A i \in 1 .. n : h + 1 + i <= l => buf[h + 1 + i].kind = "byte" /\ buf[h + 1 + i].value = msg.body[i]
             /\ l >= h + n + 2 => buf[h + n + 2] = crlf
             /\ l >= h + n + 3 => buf[h + n + 3] = last
             /\ l >= h + n + 4 => buf[h + n + 4] = crlf
  <2>1. /\ n >= 1 /\ Len(w) = h + n + 4 /\ w[h + 1] = size
        /\ \A i \in 1 .. n : w[h + 1 + i].kind = "byte" /\ w[h + 1 + i].value = msg.body[i]
        /\ w[h + n + 2] = crlf /\ w[h + n + 3] = last /\ w[h + n + 4] = crlf
    BY <1>2, <1>8
  <2>2. /\ h + 1 \in 1 .. Len(w) /\ h + n + 2 \in 1 .. Len(w) /\ h + n + 3 \in 1 .. Len(w)
        /\ h + n + 4 \in 1 .. Len(w) /\ \A i \in 1 .. n : h + 1 + i \in 1 .. Len(w)
    BY <2>1, <1>2
  <2>3. \A i \in 1 .. n : h + 1 + i <= l => buf[h + 1 + i] = w[h + 1 + i]
    BY <2>2, <1>4
  <2>4. \A i \in 1 .. n : h + 1 + i <= l => buf[h + 1 + i].kind = "byte" /\ buf[h + 1 + i].value = msg.body[i]
    BY <2>1, <2>3
  <2>5. /\ l >= h + 1 => buf[h + 1] = w[h + 1]
        /\ l >= h + n + 2 => buf[h + n + 2] = w[h + n + 2]
        /\ l >= h + n + 3 => buf[h + n + 3] = w[h + n + 3]
        /\ l >= h + n + 4 => buf[h + n + 4] = w[h + n + 4]
    <3>1. \A i \in 1 .. Len(w) : l >= i => buf[i] = w[i]
      BY <1>1, <1>4, <2>1, <1>2
    <3> QED BY <3>1, <2>2
  <2> QED BY <2>1, <2>4, <2>5
<1> QED BY <1>1, <1>2, <1>5, <1>6, <1>7, <1>8 DEF head, h, n, l, size, last, crlf

(* The last chunk, which is empty, is the first of its size. *)
LEMMA ZeroFound ==
    ASSUME NEW msg \in HttpMessage, NEW buf, IsList(buf), Alike(buf, msg), Chunked(msg)
    PROVE  LET h == Len(HeadOf(msg))
               n == Len(msg.body)
               z == {i \in (h + 1) .. Len(buf) : buf[i] = HP!ChunkSize(0)}
           IN  /\ Len(buf) >= h + n + 3 => z # {} /\ HP!Min(z) = h + n + 3
               /\ Len(buf) < h + n + 3 => z = {}
<1> DEFINE h == Len(HeadOf(msg))
           n == Len(msg.body)
           l == Len(buf)
           zero == HP!ChunkSize(0)
           size == HP!ChunkSize(n)
           crlf == HP!Crlf
           z == {i \in (h + 1) .. l : buf[i] = zero}
<1>1. /\ h \in Nat /\ n \in Nat /\ l \in Nat /\ n >= 1
      /\ l >= h + 1 => buf[h + 1] = size
      /\ \A i \in 1 .. n : h + 1 + i <= l => buf[h + 1 + i].kind = "byte"
      /\ l >= h + n + 2 => buf[h + n + 2] = crlf
      /\ l >= h + n + 3 => buf[h + n + 3] = zero
  BY AlikeMeans
<1>2. zero.kind = "size" /\ zero.n = 0 /\ size.n = n /\ crlf.kind = "crlf"
  BY Kinds
<1> HIDE DEF h, n, l, zero, size, crlf
<1>3. ASSUME NEW i \in z PROVE i >= h + n + 3
  <2>0. i \in Nat /\ i >= h + 1 /\ i <= l /\ buf[i] = zero
    BY <1>1
  <2>1. i # h + 1
    BY <2>0, <1>1, <1>2
  <2>2. i # h + n + 2
    BY <2>0, <1>1, <1>2
  <2>3. ~(i \in h + 2 .. h + 1 + n)
    <3> SUFFICES ASSUME i \in h + 2 .. h + 1 + n PROVE FALSE
      OBVIOUS
    <3>1. i - (h + 1) \in 1 .. n /\ h + 1 + (i - (h + 1)) = i
      BY <1>1
    <3>2. buf[i].kind = "byte"
      BY <3>1, <2>0, <1>1
    <3> QED BY <3>2, <2>0, <1>2
  <2> QED BY <2>0, <2>1, <2>2, <2>3, <1>1
<1>4. ASSUME l < h + n + 3 PROVE z = {}
  <2>1. \A i \in z : i <= l /\ i \in Nat
    BY <1>1
  <2> HIDE DEF z
  <2> QED BY <2>1, <1>1, <1>3, <1>4
<1>5. ASSUME l >= h + n + 3 PROVE z # {} /\ HP!Min(z) = h + n + 3
  <2>1. h + n + 3 \in z
    BY <1>1, <1>5
  <2>2. z \in SUBSET Nat
    BY <1>1
  <2> HIDE DEF z
  <2> QED BY <2>1, <2>2, <1>3, FirstPlace
<1> QED BY <1>4, <1>5 DEF h, n, l, zero

(* The whole of a message is read as what it is, and up to its end. *)
LEMMA HttpWhole ==
    ASSUME NEW msg \in HttpMessage, NEW buf, IsList(buf), Alike(buf, msg), Len(HttpEncode(msg)) <= Len(buf)
    PROVE  \A r \in HttpDecode(buf) :
             r.is = "next" /\ r.to = Len(HttpEncode(msg)) /\ ~r.skew /\ HttpSame(msg, r.msg)
<1> DEFINE w == HttpEncode(msg)
           head == HeadOf(msg)
           h == Len(head)
           body == msg.body
           n == Len(body)
           l == Len(buf)
           got == HP!Message(head, body)
           zero == HP!ChunkSize(0)
           crlf == HP!Crlf
<1>1. /\ h \in Nat /\ h >= 3 /\ n \in Nat /\ l \in Nat
      /\ \A i \in 1 .. h : i <= l => buf[i] = head[i]
      /\ l >= h => buf[h].kind = "blank"
      /\ ~Chunked(msg) =>
           \A i \in 1 .. n : h + i <= l => buf[h + i].kind = "byte" /\ buf[h + i].value = body[i]
      /\ Chunked(msg) =>
           /\ n >= 1
           /\ l >= h + 1 => buf[h + 1].kind = "size"
           /\ \A i \in 1 .. n : h + 1 + i <= l => buf[h + 1 + i].kind = "byte" /\ buf[h + 1 + i].value = body[i]
           /\ l >= h + n + 2 => buf[h + n + 2].kind = "crlf"
           /\ l >= h + n + 3 => buf[h + n + 3].kind = "size"
           /\ l >= h + n + 4 => buf[h + n + 4] = crlf
  BY AlikeMeans, Kinds, SMTT(30)
<1>2. ~Chunked(msg) => Len(w) = h + n
  BY HttpWire
<1>3. Chunked(msg) => Len(w) = h + n + 4
  BY HttpWire
<1>4. l >= h /\ l >= Len(w)
  <2>0. Len(w) <= l
    OBVIOUS
  <2>1. Len(w) = h + n \/ Len(w) = h + n + 4
    BY <1>2, <1>3
  <2> HIDE DEF w, h, n, l
  <2> QED BY <2>0, <2>1, <1>1
<1>5. /\ buf # <<>> /\ buf[1].kind \in {"request", "status"}
      /\ HP!HeadEnds(buf) # {} /\ HP!Min(HP!HeadEnds(buf)) = h
      /\ SubSeq(buf, 1, h) = head /\ (HP!ischunked(head) <=> Chunked(msg))
  <2>1. \A i \in 1 .. h : buf[i] = head[i]
    <3> HIDE DEF head, h
    <3> QED BY <1>1, <1>4
  <2> QED BY <2>1, <1>4, HeadFound
<1>6. HttpSame(msg, got)
  BY HttpRead
<1>7. IsList(body)
  BY MessagesAssumption DEF HttpFormed
<1>8. HP!contentlen(head) = n \/ Chunked(msg)
  BY HttpHead
<1>9. \A to, m : /\ HP!Upto(to, FALSE, m).is = "next" /\ HP!Upto(to, FALSE, m).to = to
                 /\ ~HP!Upto(to, FALSE, m).skew /\ HP!Upto(to, FALSE, m).msg = m
  BY DEF HP!Upto
<1> HIDE DEF w, head, h, body, n, l, got
<1>o. ASSUME NEW to, HttpDecode(buf) = {HP!Upto(to, FALSE, got)}, to = Len(w), NEW r \in HttpDecode(buf)
      PROVE  r.is = "next" /\ r.to = Len(w) /\ ~r.skew /\ HttpSame(msg, r.msg)
  <2>1. r = HP!Upto(to, FALSE, got)
    BY <1>o
  <2>2. r.is = "next" /\ r.to = Len(w) /\ ~r.skew /\ r.msg = got
    BY <2>1, <1>9, <1>o
  <2> QED BY <2>2, <1>6
<1>10. CASE ~Chunked(msg)
  <2>1. HP!Body(buf, h, h + n) = body
    <3>1. \A i \in 1 .. n : buf[h + i].kind = "byte" /\ buf[h + i].value = body[i]
      BY <1>1, <1>2, <1>4, <1>10
    <3>2. \A i \in h .. h : buf[i].kind # "byte"
      <4>1. buf[h].kind = "blank"
        BY <1>1, <1>4
      <4>2. \A i \in h .. h : i = h
        BY <1>1
      <4> QED BY <4>1, <4>2
    <3>3. h \in Nat /\ h + n \in Nat /\ h <= h + 1 /\ h + n <= h + n /\ \A i \in h + n + 1 .. h + n : FALSE
      BY <1>1
    <3> QED BY <3>1, <3>2, <3>3, <1>7, BodyRead, SMTT(30) DEF n
  <2>2. HttpDecode(buf) = {HP!Upto(h + n, FALSE, HP!Message(head, HP!Body(buf, h, h + n)))}
    <3>1. ~(h + HP!contentlen(head) > l) /\ HP!contentlen(head) = n
      BY <1>1, <1>2, <1>4, <1>8, <1>10
    <3> QED BY <3>1, <1>5, <1>10 DEF HttpDecode, HP!Decode, l
  <2>3. HttpDecode(buf) = {HP!Upto(h + n, FALSE, got)}
    BY <2>1, <2>2 DEF got
  <2>4. h + n = Len(w)
    BY <1>2, <1>10
  <2> QED BY <2>3, <2>4, <1>o DEF w
<1>11. CASE Chunked(msg)
  <2> DEFINE z == {i \in (h + 1) .. Len(buf) : buf[i] = zero}
             q == h + n + 3
  <2>1. z # {} /\ HP!Min(z) = q
    <3>1. Len(buf) >= q
      BY <1>1, <1>3, <1>4, <1>11 DEF l
    <3> QED BY <3>1, <1>11, ZeroFound DEF h, n, head, body
  <2>2. HP!Body(buf, h, q) = body
    <3>1. /\ n >= 1 /\ l >= h + n + 4 /\ buf[h].kind = "blank" /\ buf[h + 1].kind = "size"
          /\ (\A i \in 1 .. n : buf[h + 1 + i].kind = "byte" /\ buf[h + 1 + i].value = body[i])
          /\ buf[h + n + 2].kind = "crlf" /\ buf[h + n + 3].kind = "size"
      BY <1>1, <1>3, <1>4, <1>11
    <3>2. \A i \in h .. h + 1 : buf[i].kind # "byte"
      <4>1. \A i \in h .. h + 1 : i = h \/ i = h + 1
        BY <1>1
      <4> QED BY <4>1, <3>1
    <3>3. \A i \in (h + 1) + n + 1 .. q : buf[i].kind # "byte"
      <4>1. \A i \in (h + 1) + n + 1 .. q : i = h + n + 2 \/ i = h + n + 3
        BY <1>1
      <4> QED BY <4>1, <3>1
    <3>4. \A i \in 1 .. n : buf[(h + 1) + i].kind = "byte" /\ buf[(h + 1) + i].value = body[i]
      BY <3>1
    <3>5. h \in Nat /\ h + 1 \in Nat /\ q \in Nat /\ h <= (h + 1) + 1 /\ (h + 1) + n <= q
      BY <1>1
    <3> HIDE DEF q
    <3> QED BY <3>2, <3>3, <3>4, <3>5, <1>7, BodyRead, ZenonT(30) DEF n
  <2>3. HttpDecode(buf) = HP!DecodeChunks(buf, h)
    BY <1>5, <1>11 DEF HttpDecode, HP!Decode
  <2>4. q < Len(buf) /\ buf[q + 1] = crlf /\ q + 1 = Len(w)
    <3>1. q + 1 = h + n + 4 /\ q < h + n + 4
      BY <1>1
    <3>2. l >= h + n + 4 /\ buf[h + n + 4] = crlf /\ Len(w) = h + n + 4
      BY <1>1, <1>3, <1>4, <1>11
    <3>3. q \in Nat /\ l \in Nat
      BY <1>1
    <3> HIDE DEF q
    <3> QED BY <3>1, <3>2, <3>3 DEF l
  <2> HIDE DEF q
  <2>5. HP!DecodeChunks(buf, h) = {HP!Upto(q + 1, FALSE, HP!Message(SubSeq(buf, 1, h), HP!Body(buf, h, q)))}
    BY <2>1, <2>4 DEF HP!DecodeChunks
  <2>6. HttpDecode(buf) = {HP!Upto(q + 1, FALSE, got)}
    BY <2>2, <2>3, <2>5, <1>5 DEF got
  <2>7. q + 1 = Len(w)
    BY <2>4
  <2> QED BY <2>6, <2>7, <1>o DEF w
<1> QED BY <1>10, <1>11

(* What the parser of messages in chunks says where the last chunk has not arrived: none of
   it is a message; inside the bytes of the first chunk it waits. *)
LEMMA ChunksAwaited ==
    ASSUME NEW msg \in HttpMessage, NEW buf, IsList(buf), Alike(buf, msg), Chunked(msg),
           Len(buf) >= Len(HeadOf(msg)), Len(buf) < Len(HttpEncode(msg))
    PROVE  LET h == Len(HeadOf(msg))
               n == Len(msg.body)
           IN  \A r \in HP!DecodeChunks(buf, h) :
                 r.is # "next" /\ (Len(buf) \in h + 1 .. h + n => r.is = "buf")
<1> DEFINE h == Len(HeadOf(msg))
           n == Len(msg.body)
           l == Len(buf)
           zero == HP!ChunkSize(0)
           z == {i \in (h + 1) .. l : buf[i] = zero}
           T == {i \in 1 .. l : i = h \/ buf[i].kind = "size"}
           D == HP!DecodeChunks(buf, h)
           x == HP!Incomplete
           y == HP!Beyond
           u == HP!Null
<1>1. /\ h \in Nat /\ h >= 3 /\ n \in Nat /\ l \in Nat /\ n >= 1 /\ l >= h
      /\ l >= h + 1 => buf[h + 1].kind = "size" /\ buf[h + 1].n = n
      /\ \A i \in 1 .. n : h + 1 + i <= l => buf[h + 1 + i].kind = "byte"
  BY AlikeMeans, Kinds
<1>2. l < h + n + 4
  <2>1. Len(HttpEncode(msg)) = h + n + 4
    BY HttpWire
  <2> QED BY <2>1
<1>3. (l >= h + n + 3 => z # {} /\ HP!Min(z) = h + n + 3) /\ (l < h + n + 3 => z = {})
  BY ZeroFound
<1>4. x.is = "buf" /\ y.is = "beyond" /\ u.is = "NULL"
  BY DEF HP!Incomplete, HP!Beyond, HP!Null
<1>5. CASE l >= h + n + 3
  <2>1. l = h + n + 3
    BY <1>1, <1>2, <1>5
  <2>2. z # {} /\ HP!Min(z) = l
    BY <2>1, <1>3
  <2>3. l \notin h + 1 .. h + n
    BY <2>1, <1>1
  <2>4. D = {y}
    <3>1. ~(HP!Min(z) < Len(buf)) /\ z # {}
      <4>1. z # {} /\ HP!Min(z) = l /\ l \in Nat
        BY <2>2, <1>1
      <4> HIDE DEF z, l
      <4>2. ~(HP!Min(z) < l) /\ z # {}
        BY <4>1
      <4> QED BY <4>2, SMTT(30) DEF l
    <3> HIDE DEF h
    <3> QED BY <3>1 DEF HP!DecodeChunks
  <2> HIDE DEF D, x, y, u, h, n, l
  <2>5. \A r \in D : r.is # "next" /\ (l \in h + 1 .. h + n => r.is = "buf")
    BY <2>3, <2>4, <1>4
  <2> QED BY <2>5 DEF D, h, n, l
<1>6. CASE l < h + n + 3
  <2>1. z = {}
    BY <1>3, <1>6
  <2>2. D = IF buf[l] \in {HP!Blank, HP!Crlf} THEN {u, x, y}
            ELSE IF buf[HP!Max(T)].kind = "size" /\ l - HP!Max(T) = buf[HP!Max(T)].n THEN {y} ELSE {x}
    <3> HIDE DEF h
    <3> QED BY <2>1 DEF HP!DecodeChunks
  <2>3. ASSUME l \in h + 1 .. h + n PROVE D = {x}
    <3>1. buf[l].kind = "size" \/ buf[l].kind = "byte"
      <4>1. CASE l = h + 1
        BY <4>1, <1>1
      <4>2. CASE l # h + 1
        <5> HIDE DEF l, h, n
        <5>1. l - (h + 1) \in 1 .. n /\ h + 1 + (l - (h + 1)) = l
          BY <2>3, <4>2, <1>1
        <5>2. ASSUME NEW i \in 1 .. n, h + 1 + i = l PROVE buf[l].kind = "byte"
          <6>1. h + 1 + i <= l
            BY <5>2, <1>1
          <6>2. buf[h + 1 + i].kind = "byte"
            BY <6>1, <1>1
          <6> QED BY <6>2, <5>2
        <5> QED BY <5>1, <5>2
      <4> QED BY <4>1, <4>2
    <3>2. buf[l] # HP!Blank /\ buf[l] # HP!Crlf
      BY <3>1, Kinds
    <3>3. HP!Max(T) = h + 1
      <4> HIDE DEF l, h, n
      <4>1. h + 1 \in T
        BY <2>3, <1>1
      <4>2. ASSUME NEW i \in T PROVE i <= h + 1
        <5> SUFFICES ASSUME i > h + 1 PROVE FALSE
          BY <1>1
        <5>1. i - (h + 1) \in 1 .. n /\ h + 1 + (i - (h + 1)) = i /\ i <= l
          BY <2>3, <1>1
        <5>2. buf[h + 1 + (i - (h + 1))].kind = "byte"
          BY <5>1, <1>1
        <5> QED BY <5>1, <5>2, <1>1
      <4>3. T \in SUBSET Nat
        BY <1>1
      <4> HIDE DEF T
      <4> QED BY <4>1, <4>2, <4>3, LastPlace
    <3>4. ~(l - (h + 1) = buf[h + 1].n)
      <4> HIDE DEF l, h, n
      <4> QED BY <2>3, <1>1
    <3> HIDE DEF D, T, x, y, u, l, h
    <3> QED BY <2>2, <3>2, <3>3, <3>4
  <2>4. \A r \in D : r \in {u, x, y}
    <3> HIDE DEF D, T, x, y, u, l, h
    <3> QED BY <2>2
  <2> HIDE DEF D, x, y, u, h, n, l
  <2>5. \A r \in D : r.is # "next" /\ (l \in h + 1 .. h + n => r.is = "buf")
    BY <2>3, <2>4, <1>4
  <2> QED BY <2>5 DEF D, h, n, l
<1> QED BY <1>1, <1>5, <1>6

(* A part of a message is not read as one, and where a peer may cut it the parser waits. *)
LEMMA HttpPart ==
    ASSUME NEW msg \in HttpMessage, NEW buf, IsList(buf), Alike(buf, msg), Len(buf) < Len(HttpEncode(msg))
    PROVE  LET a == HttpEncode(msg)[Len(buf)]
               b == HttpEncode(msg)[Len(buf) + 1]
           IN  \A r \in HttpDecode(buf) :
                 r.is # "next" /\ (Len(buf) >= 1 /\ (SoundCut(a, b) \/ SoundInside(a, b)) => r.is = "buf")
<1> DEFINE w == HttpEncode(msg)
           head == HeadOf(msg)
           h == Len(head)
           n == Len(msg.body)
           l == Len(buf)
           a == w[l]
           b == w[l + 1]
           sound == SoundCut(a, b) \/ SoundInside(a, b)
           D == HttpDecode(buf)
<1>1. /\ h \in Nat /\ h >= 3 /\ n \in Nat /\ l \in Nat /\ l < Len(w)
      /\ \A i \in 1 .. h : i <= l => buf[i] = head[i]
  BY AlikeMeans
<1>2. /\ \A i \in 1 .. h : w[i] = head[i]
      /\ ~Chunked(msg) => Len(w) = h + n
      /\ Chunked(msg) => /\ n >= 1 /\ Len(w) = h + n + 4
                         /\ w[h + 1].kind = "size" /\ w[h + 1].n = n
                         /\ \A i \in 1 .. n : w[h + 1 + i].kind = "byte"
                         /\ w[h + n + 2].kind = "crlf" /\ w[h + n + 3].kind = "size" /\ w[h + n + 3].n = 0
                         /\ w[h + n + 4].kind = "crlf"
  BY HttpWire, Kinds, SMTT(30)
<1>3. /\ head[h].kind = "blank"
      /\ Chunked(msg) => head[h - 1].kind = "header" /\ head[h - 1].key.name = "Transfer-Encoding"
      /\ HP!contentlen(head) = n \/ Chunked(msg)
  <2>1. h - 1 \in 2 .. h - 1
    BY <1>1
  <2> QED BY <2>1, HttpHead, Kinds
<1>4. HP!Incomplete.is = "buf" /\ HP!Null.is = "NULL"
  BY DEF HP!Incomplete, HP!Null
<1>5. ASSUME l < h, l >= 1 PROVE \A r \in D : r.is # "next" /\ (sound => r.is = "buf")
  <2>1. \A r \in D : r.is # "next" /\ ((Chunked(msg) /\ l = h - 1) \/ r.is = "buf")
    <3>1. \A i \in 1 .. Len(buf) : buf[i] = head[i]
      <4> HIDE DEF head, h, l
      <4>1. \A i \in 1 .. l : buf[i] = head[i]
        BY <1>1, <1>5
      <4> QED BY <4>1 DEF l
    <3> QED BY <3>1, <1>5, HeadAwaited
  <2>2. ASSUME Chunked(msg), l = h - 1 PROVE ~sound
    <3>1. l \in 1 .. h /\ l + 1 \in 1 .. h /\ l + 1 = h
      BY <2>2, <1>1
    <3>2. a = head[h - 1] /\ b = head[h]
      <4> HIDE DEF w, head, h, l
      <4> QED BY <2>2, <3>1, <1>2
    <3>3. a.kind = "header" /\ a.key.name = "Transfer-Encoding" /\ b.kind = "blank"
      BY <2>2, <3>2, <1>3
    <3> HIDE DEF a, b
    <3> QED BY <3>3 DEF SoundCut, SoundInside, IsTE, InChunk
  <2> HIDE DEF sound, D, l, h
  <2> QED BY <2>1, <2>2
<1>6. ASSUME l = 0 PROVE \A r \in D : r.is # "next"
  <2>1. buf = <<>>
    <3>1. buf \in Seq({buf[i] : i \in DOMAIN buf})
      BY DEF IsList
    <3> QED BY <3>1, <1>6
  <2>2. D = {HP!Incomplete, HP!Null}
    BY <2>1 DEF HttpDecode, HP!Decode
  <2> HIDE DEF D
  <2> QED BY <2>2, <1>4
<1>7. ASSUME l >= h
      PROVE  /\ buf # <<>> /\ buf[1].kind \in {"request", "status"}
             /\ HP!HeadEnds(buf) # {} /\ HP!Min(HP!HeadEnds(buf)) = h
             /\ SubSeq(buf, 1, h) = head /\ (HP!ischunked(head) <=> Chunked(msg))
  <2>1. \A i \in 1 .. h : buf[i] = head[i]
    <3> HIDE DEF head, h, l
    <3> QED BY <1>1, <1>7
  <2> QED BY <2>1, <1>7, HeadFound
<1>8. ASSUME l >= h, ~Chunked(msg) PROVE \A r \in D : r.is # "next" /\ (sound => r.is = "buf")
  <2>1. D = {HP!Incomplete}
    <3>1. h + HP!contentlen(head) > l
      BY <1>1, <1>2, <1>3, <1>8
    <3> QED BY <3>1, <1>7, <1>8 DEF HttpDecode, HP!Decode
  <2> HIDE DEF sound, D
  <2> QED BY <2>1, <1>4
<1>9. ASSUME l >= h, Chunked(msg) PROVE \A r \in D : r.is # "next" /\ (sound => r.is = "buf")
  <2>1. D = HP!DecodeChunks(buf, h)
    BY <1>7, <1>9 DEF HttpDecode, HP!Decode
  <2>2. \A r \in D : r.is # "next" /\ (l \in h + 1 .. h + n => r.is = "buf")
    BY <2>1, <1>9, ChunksAwaited
  <2>3. ASSUME l \notin h + 1 .. h + n PROVE ~sound
    <3> HIDE DEF w, head, h, n, l
    <3>0. l = h \/ l = h + n + 1 \/ l = h + n + 2 \/ l = h + n + 3
      <4>1. Len(w) = h + n + 4
        BY <1>2, <1>9
      <4>2. h \in Nat /\ n \in Nat /\ l \in Nat /\ l < h + n + 4 /\ l >= h
        BY <4>1, <1>1, <1>9
      <4> QED BY <4>2, <2>3
    <3>1. CASE l = h
      <4>1. a = head[h] /\ b = w[h + 1]
        <5>1. h \in 1 .. h
          BY <1>1
        <5> QED BY <3>1, <5>1, <1>2
      <4>2. a.kind = "blank" /\ b.kind = "size"
        BY <4>1, <1>2, <1>3, <1>9
      <4> HIDE DEF a, b
      <4> QED BY <4>2 DEF SoundCut, SoundInside, InChunk
    <3>2. CASE l = h + n + 1
      <4>1. n \in 1 .. n /\ h + 1 + n = l /\ l + 1 = h + n + 2
        BY <3>2, <1>1, <1>2, <1>9
      <4>2. a.kind = "byte" /\ b.kind = "crlf"
        BY <4>1, <1>2, <1>9
      <4> HIDE DEF a, b
      <4> QED BY <4>2 DEF SoundCut, SoundInside, InChunk
    <3>3. CASE l = h + n + 2
      <4>1. l + 1 = h + n + 3
        BY <3>3, <1>1
      <4>2. a.kind = "crlf" /\ b.kind = "size"
        BY <3>3, <4>1, <1>2, <1>9
      <4> HIDE DEF a, b
      <4> QED BY <4>2 DEF SoundCut, SoundInside, InChunk
    <3>4. CASE l = h + n + 3
      <4>1. l + 1 = h + n + 4
        BY <3>4, <1>1
      <4>2. a.kind = "size" /\ a.n = 0 /\ b.kind = "crlf"
        BY <3>4, <4>1, <1>2, <1>9
      <4> HIDE DEF a, b
      <4> QED BY <4>2 DEF SoundCut, SoundInside, InChunk
    <3> QED BY <3>0, <3>1, <3>2, <3>3, <3>4
  <2> HIDE DEF sound, D, l, h, n
  <2> QED BY <2>2, <2>3
<1> HIDE DEF sound, D, l, h
<1>10. \A r \in D : r.is # "next" /\ (l >= 1 /\ sound => r.is = "buf")
  <2>1. l = 0 \/ (l >= 1 /\ l < h) \/ l >= h
    BY <1>1
  <2>2. CASE l = 0
    BY <2>2, <1>6
  <2>3. CASE l >= 1 /\ l < h
    BY <2>3, <1>5
  <2>4. CASE l >= h
    BY <2>4, <1>8, <1>9
  <2> QED BY <2>1, <2>2, <2>3, <2>4
<1> QED BY <1>10 DEF sound, D, l

HQ == INSTANCE Sides_proofs WITH
    Message <- HttpMessage, Encode <- HttpEncode, Decode <- HttpDecode, Same <- HttpSame,
    CutBetween <- SoundCut, CutInside <- SoundInside, MayClose <- FALSE,
    Capacity <- HttpSide.capacity, Low <- HttpSide.low, MaxPacket <- HttpSide.packet,
    MaxSent <- HttpSide.messages, MaxConnects <- HttpSide.connects,
    Overlap <- FALSE, WriteCapacity <- QuietSide.capacity, Fits <- QuietSide.fits,
    MaxWrites <- QuietSide.writes, MaxConnections <- QuietSide.connections

(* The tokens of the messages of HTTP. *)
LEMMA SameTokens == HQ!Token = HttpToken
BY DEF HQ!Token, HttpToken, HQ!Junk, Http!Junk

(* Every length that a header line tells is a number. *)
LEMMA LengthToken ==
    ASSUME NEW t \in HQ!Token, t.kind = "header", t.key.name = "Content-Length"
    PROVE  t.value \in Nat
<1>1. CASE t = HQ!Junk
  BY <1>1 DEF HQ!Junk
<1>2. ASSUME NEW msg \in HttpMessage, NEW i \in 1 .. Len(HttpEncode(msg)), t = HttpEncode(msg)[i]
      PROVE  t.value \in Nat
  <2> DEFINE w == HttpEncode(msg)
             head == HeadOf(msg)
             h == Len(head)
             n == Len(msg.body)
  <2>1. /\ h \in Nat /\ n \in Nat /\ \A j \in 1 .. h : w[j] = head[j]
        /\ ~Chunked(msg) => Len(w) = h + n /\ \A j \in 1 .. n : w[h + j].kind = "byte"
        /\ Chunked(msg) => /\ Len(w) = h + n + 4 /\ w[h + 1].kind = "size"
                           /\ \A j \in 1 .. n : w[h + 1 + j].kind = "byte"
                           /\ w[h + n + 2].kind = "crlf" /\ w[h + n + 3].kind = "size" /\ w[h + n + 4].kind = "crlf"
    <3>1. /\ h \in Nat /\ n \in Nat /\ \A j \in 1 .. h : w[j] = head[j]
          /\ ~Chunked(msg) => Len(w) = h + n /\ \A j \in 1 .. n : w[h + j].kind = "byte"
          /\ Chunked(msg) => /\ Len(w) = h + n + 4 /\ w[h + 1] = HP!ChunkSize(n)
                             /\ \A j \in 1 .. n : w[h + 1 + j].kind = "byte"
                             /\ w[h + n + 2] = HP!Crlf /\ w[h + n + 3] = HP!ChunkSize(0)
                             /\ w[h + n + 4] = HP!Crlf
      BY HttpWire
    <3> HIDE DEF w, head, h, n
    <3>2. HP!ChunkSize(n).kind = "size" /\ HP!ChunkSize(0).kind = "size" /\ HP!Crlf.kind = "crlf"
      BY Kinds
    <3> QED BY <3>1, <3>2
  <2>2. Said(head, "Content-Length") \subseteq Nat /\ DOMAIN head = 1 .. h
    BY HttpHead
  <2>3. i \in 1 .. Len(w) /\ t = w[i]
    BY <1>2
  <2> HIDE DEF w, head, h, n
  <2>4. CASE i <= h
    <3>1. i \in HP!Named(head, "Content-Length") /\ t = head[i]
      BY <2>1, <2>2, <2>3, <2>4 DEF HP!Named
    <3> QED BY <3>1, <2>2 DEF Said
  <2>5. CASE i > h /\ ~Chunked(msg)
    <3>1. i - h \in 1 .. n /\ h + (i - h) = i
      BY <2>1, <2>3, <2>5
    <3>2. w[h + (i - h)].kind = "byte"
      BY <3>1, <2>1, <2>5
    <3> QED BY <3>1, <3>2, <2>3
  <2>6. CASE i > h /\ Chunked(msg)
    <3>1. i = h + 1 \/ i = h + n + 2 \/ i = h + n + 3 \/ i = h + n + 4 \/ i - (h + 1) \in 1 .. n
      <4>1. i <= h + n + 4 /\ i \in Nat
        BY <2>1, <2>3, <2>6
      <4> QED BY <4>1, <2>1, <2>6, SMTT(30)
    <3>2. CASE i - (h + 1) \in 1 .. n
      <4>1. h + 1 + (i - (h + 1)) = i
        BY <2>1, <2>3
      <4>2. w[h + 1 + (i - (h + 1))].kind = "byte"
        BY <3>2, <2>1, <2>6
      <4> QED BY <4>1, <4>2, <2>3
    <3>3. CASE i = h + 1 \/ i = h + n + 2 \/ i = h + n + 3 \/ i = h + n + 4
      BY <3>3, <2>1, <2>3, <2>6
    <3> QED BY <3>1, <3>2, <3>3
  <2> QED BY <2>1, <2>3, <2>4, <2>5, <2>6
<1> QED BY <1>1, <1>2 DEF HQ!Token

(* The places that the parser returns. *)
LEMMA HttpPlaces == HQ!Placed
<1> SUFFICES ASSUME NEW buf \in Seq(HQ!Token), NEW r \in HttpDecode(buf), r.is = "next" PROVE r.to \in Nat
  BY DEF HQ!Placed
<1> DEFINE E == HP!HeadEnds(buf)
           h == HP!Min(E)
           head == SubSeq(buf, 1, h)
           Z == {i \in (h + 1) .. Len(buf) : buf[i] = HP!ChunkSize(0)}
<1>0. /\ HP!Incomplete.is = "buf" /\ HP!Null.is = "NULL" /\ HP!Beyond.is = "beyond"
      /\ \A i, s, m : HP!Upto(i, s, m).to = i
  BY DEF HP!Incomplete, HP!Null, HP!Beyond, HP!Upto
<1>1. buf # <<>> /\ buf[1].kind \in {"request", "status"}
  BY <1>0 DEF HttpDecode, HP!Decode
<1>2. E # {}
  BY <1>0, <1>1 DEF HttpDecode, HP!Decode
<1>3. h \in Nat /\ h <= Len(buf) /\ h >= 3
  <2>1. E \in SUBSET Nat /\ \A i \in E : i <= Len(buf) /\ i >= 3
    BY DEF HP!HeadEnds
  <2> HIDE DEF E
  <2>2. PICK m \in E : \A i \in E : m <= i
    BY <1>2, <2>1, Least
  <2>3. h = m
    BY <2>1, <2>2, FirstPlace
  <2> QED BY <2>1, <2>2, <2>3
<1>4. CASE HP!ischunked(head)
  <2>1. r \in HP!DecodeChunks(buf, h)
    BY <1>1, <1>2, <1>4 DEF HttpDecode, HP!Decode
  <2>2. Z # {} /\ HP!Min(Z) < Len(buf)
    <3> HIDE DEF h
    <3> QED BY <2>1, <1>0 DEF HP!DecodeChunks
  <2>3. HP!Min(Z) \in Nat
    <3>1. Z \in SUBSET Nat
      BY <1>3
    <3> HIDE DEF Z
    <3>2. PICK m \in Z : \A i \in Z : m <= i
      BY <2>2, <3>1, Least
    <3>3. HP!Min(Z) = m
      BY <3>1, <3>2, FirstPlace
    <3> QED BY <3>1, <3>2, <3>3
  <2>4. r.to = HP!Min(Z) + 1 \/ r.to = HP!Min(Z)
    <3> HIDE DEF h
    <3>1. \E m, s : r = HP!Upto(HP!Min(Z) + 1, s, m) \/ r = HP!Upto(HP!Min(Z), s, m)
      BY <2>1, <2>2 DEF HP!DecodeChunks
    <3> HIDE DEF Z
    <3> QED BY <3>1, <1>0
  <2> HIDE DEF Z
  <2> QED BY <2>3, <2>4
<1>5. CASE ~HP!ischunked(head)
  <2> DEFINE n == HP!contentlen(head)
  <2>1. r.to = h + n
    <3>1. HttpDecode(buf) = IF h + n > Len(buf) THEN {HP!Incomplete}
                            ELSE {HP!Upto(h + n, FALSE, HP!Message(head, HP!Body(buf, h, h + n)))}
      BY <1>1, <1>2, <1>5 DEF HttpDecode, HP!Decode
    <3> DEFINE u == HP!Upto(h + n, FALSE, HP!Message(head, HP!Body(buf, h, h + n)))
               x == HP!Incomplete
               c == h + n > Len(buf)
    <3>2. HttpDecode(buf) = (IF c THEN {x} ELSE {u}) /\ x.is = "buf" /\ u.to = h + n
      BY <3>1, <1>0, ZenonT(30)
    <3> HIDE DEF u, x, c
    <3>3. r = x \/ r = u
      BY <3>2
    <3> QED BY <3>2, <3>3
  <2>2. n \in Nat
    <3> DEFINE at == HP!Named(head, "Content-Length")
    <3>1. n = IF at = {} THEN 0 ELSE head[HP!Max(at)].value
      BY DEF HP!contentlen, HP!Latest
    <3>2. h \in 1 .. Len(buf) /\ Len(buf) \in Nat
      BY <1>3
    <3>3. DOMAIN head = 1 .. h /\ \A i \in 1 .. h : head[i] \in HQ!Token
      <4> DEFINE K == HQ!Token
      <4>1. buf \in Seq(K)
        OBVIOUS
      <4> HIDE DEF h, K
      <4>2. head \in Seq(K) /\ Len(head) = h
        BY <3>2, <4>1
      <4> HIDE DEF head
      <4>3. DOMAIN head = 1 .. h /\ \A i \in 1 .. h : head[i] \in K
        BY <4>2
      <4> QED BY <4>3 DEF K
    <3> HIDE DEF head, h
    <3>4. at \in SUBSET (0 .. h) /\ at \in SUBSET Nat
      BY <3>2, <3>3 DEF HP!Named
    <3>5. ASSUME at # {} PROVE head[HP!Max(at)].value \in Nat
      <4>1. h \in Nat
        BY <1>3
      <4>2. PICK m \in at : \A i \in at : i <= m
        <5> HIDE DEF at
        <5> QED BY <4>1, <3>4, <3>5, Greatest
      <4>3. HP!Max(at) = m
        <5> HIDE DEF at
        <5> QED BY <4>2, <3>4, LastPlace
      <4>4. head[m] \in HQ!Token /\ head[m].kind = "header" /\ head[m].key.name = "Content-Length"
        BY <3>3 DEF HP!Named
      <4>5. head[m].value \in Nat
        BY <4>4, LengthToken
      <4> HIDE DEF at
      <4> QED BY <4>3, <4>5
    <3> HIDE DEF at, n
    <3> QED BY <3>1, <3>5
  <2> HIDE DEF n
  <2> QED BY <2>1, <2>2, <1>3
<1> QED BY <1>4, <1>5

(* A buffer that begins with a message, or is within one, has the tokens of the message. *)
LEMMA AlikeOf ==
    ASSUME HQ!Encodes, NEW buf \in Seq(HQ!Token), NEW msg \in HttpMessage
    PROVE  /\ IsList(buf) /\ Len(buf) \in Nat
           /\ HQ!Begins(buf, msg) => Alike(buf, msg) /\ Len(HttpEncode(msg)) <= Len(buf)
           /\ HQ!Within(buf, msg) => Alike(buf, msg) /\ Len(buf) < Len(HttpEncode(msg))
<1> DEFINE w == HttpEncode(msg)
           S == HQ!Token
<1>1. /\ Len(w) \in Nat \ {0} /\ Len(buf) \in Nat
      /\ HQ!Begins(buf, msg) <=> Len(w) <= Len(buf) /\ \A i \in 1 .. Len(w) : buf[i] = w[i]
      /\ HQ!Within(buf, msg) <=> Len(buf) < Len(w) /\ \A i \in 1 .. Len(buf) : buf[i] = w[i]
  BY HQ!BeginsMeans
<1>2. IsList(buf)
  <2>1. buf \in Seq(S)
    OBVIOUS
  <2> HIDE DEF S
  <2>2. \A l \in Seq(S) : l \in Seq({l[i] : i \in DOMAIN l})
    OBVIOUS
  <2> QED BY <2>1, <2>2 DEF IsList
<1> HIDE DEF w
<1> QED BY <1>1, <1>2 DEF Alike, w

(* What the parser of HTTP keeps to. *)
THEOREM HttpTurn == HQ!InTurn /\ HQ!Patient
<1>1. HQ!Encodes
  <2> SUFFICES ASSUME NEW msg \in HttpMessage PROVE HttpEncode(msg) \in Seq(HQ!Token) /\ HttpEncode(msg) # <<>>
    BY DEF HQ!Encodes
  <2> DEFINE w == HttpEncode(msg)
  <2>1. w \in Seq(HQ!Token) /\ Len(w) # 0
    <3> DEFINE h == Len(HeadOf(msg))
               n == Len(msg.body)
    <3>1. w \in Seq(HQ!Token) /\ h \in Nat /\ h >= 3 /\ n \in Nat /\ (Len(w) = h + n \/ Len(w) = h + n + 4)
      BY HttpWire, SameTokens
    <3> HIDE DEF w, h, n
    <3> QED BY <3>1
  <2> HIDE DEF w
  <2>2. w # <<>>
    BY <2>1
  <2> QED BY <2>1, <2>2 DEF w
<1>2. HQ!Whole
  <2> SUFFICES ASSUME NEW buf \in Seq(HQ!Token), NEW msg \in HttpMessage, HQ!Begins(buf, msg)
               PROVE  \A r \in HttpDecode(buf) :
                        r.is = "next" /\ r.to = Len(HttpEncode(msg)) /\ ~r.skew /\ HttpSame(msg, r.msg)
    BY DEF HQ!Whole
  <2>1. IsList(buf) /\ Alike(buf, msg) /\ Len(HttpEncode(msg)) <= Len(buf)
    BY <1>1, AlikeOf
  <2> QED BY <2>1, HttpWhole
<1>3. HQ!Partial
  <2> SUFFICES ASSUME NEW buf \in Seq(HQ!Token), NEW msg \in HttpMessage, HQ!Within(buf, msg)
               PROVE  \A r \in HttpDecode(buf) : r.is # "next"
    BY DEF HQ!Partial
  <2>1. IsList(buf) /\ Alike(buf, msg) /\ Len(buf) < Len(HttpEncode(msg))
    BY <1>1, AlikeOf
  <2> QED BY <2>1, HttpPart
<1>4. ASSUME NEW msg \in HttpMessage PROVE HttpEncode(msg)[1].kind \in {"request", "status"}
  <2> DEFINE w == HttpEncode(msg)
             head == HeadOf(msg)
             h == Len(head)
  <2>1. h \in Nat /\ h >= 3 /\ \A i \in 1 .. h : w[i] = head[i]
    BY HttpWire
  <2>2. head[1].kind \in {"request", "status"}
    BY HttpHead
  <2>3. 1 \in 1 .. h
    <3> HIDE DEF h
    <3> QED BY <2>1
  <2> HIDE DEF w, head, h
  <2>4. w[1] = head[1]
    BY <2>1, <2>3
  <2> QED BY <2>2, <2>4 DEF w
<1>5. HQ!Waits
  <2> SUFFICES ASSUME NEW buf \in Seq(HQ!Token), NEW msg \in HttpMessage, NEW inside \in BOOLEAN, HQ!Within(buf, msg),
                      HQ!EndedAt(buf, HttpEncode(msg)[Len(buf) + 1], inside)
               PROVE  \A r \in HttpDecode(buf) : r.is = "buf"
    BY DEF HQ!Waits
  <2> DEFINE a == HttpEncode(msg)[Len(buf)]
             b == HttpEncode(msg)[Len(buf) + 1]
  <2>1. IsList(buf) /\ Alike(buf, msg) /\ Len(buf) < Len(HttpEncode(msg)) /\ Len(buf) \in Nat
    BY <1>1, AlikeOf
  <2>2. \A r \in HttpDecode(buf) : Len(buf) >= 1 /\ (SoundCut(a, b) \/ SoundInside(a, b)) => r.is = "buf"
    BY <2>1, HttpPart
  <2>3. /\ inside => \E t \in HQ!Token : SoundInside(t, b)
        /\ IF buf = <<>> THEN inside ELSE SoundCut(buf[Len(buf)], b) \/ (inside /\ SoundInside(buf[Len(buf)], b))
    BY DEF HQ!EndedAt
  <2>4. CASE buf = <<>>
    <3>1. Len(buf) + 1 = 1
      BY <2>4
    <3>2. b.kind \in {"request", "status"}
      BY <3>1, <1>4
    <3>3. \E t \in HQ!Token : SoundInside(t, b)
      BY <2>3, <2>4
    <3> HIDE DEF b
    <3> QED BY <3>2, <3>3 DEF SoundInside
  <2>5. CASE buf # <<>>
    <3>1. Len(buf) >= 1
      BY <2>1, <2>5
    <3>2. buf[Len(buf)] = a
      <4>1. HQ!Within(buf, msg) <=> /\ Len(buf) < Len(HttpEncode(msg))
                                    /\ \A i \in 1 .. Len(buf) : buf[i] = HttpEncode(msg)[i]
        BY <1>1, HQ!BeginsMeans
      <4>2. Len(buf) \in 1 .. Len(buf)
        BY <3>1, <2>1
      <4> QED BY <4>1, <4>2
    <3> HIDE DEF a, b
    <3> QED BY <2>2, <2>3, <2>5, <3>1, <3>2
  <2> QED BY <2>4, <2>5
<1>6. HQ!Fronts
  <2> SUFFICES ASSUME NEW msg \in HttpMessage, NEW a \in HQ!Token PROVE SoundCut(a, HttpEncode(msg)[1])
    BY DEF HQ!Fronts
  <2> QED BY <1>4 DEF SoundCut
<1> QED BY <1>1, <1>2, <1>3, <1>5, <1>6, HttpPlaces DEF HQ!InTurn, HQ!Patient

CQ == INSTANCE Sides_proofs WITH
    Message <- HttpMessage, Encode <- HttpEncode, Decode <- HttpDecode, Same <- HttpSame,
    CutBetween <- Anywhere, CutInside <- Anywhere, MayClose <- TRUE,
    Capacity <- CutsSide.capacity, Low <- CutsSide.low, MaxPacket <- CutsSide.packet,
    MaxSent <- CutsSide.messages, MaxConnects <- CutsSide.connects,
    Overlap <- FALSE, WriteCapacity <- QuietSide.capacity, Fits <- QuietSide.fits,
    MaxWrites <- QuietSide.writes, MaxConnections <- QuietSide.connections

(* The same parser, where cuts come anywhere. *)
THEOREM CutsTurn == CQ!InTurn
<1>1. CQ!Token = HQ!Token
  BY DEF CQ!Token, HQ!Token, CQ!Junk, HQ!Junk
<1>2. HQ!Encodes /\ HQ!Placed /\ HQ!Whole /\ HQ!Partial
  BY HttpTurn DEF HQ!InTurn
<1>3. CQ!Encodes
  BY <1>1, <1>2 DEF CQ!Encodes, HQ!Encodes
<1>4. CQ!Placed
  BY <1>1, <1>2 DEF CQ!Placed, HQ!Placed
<1>5. CQ!Whole
  BY <1>1, <1>2 DEF CQ!Whole, HQ!Whole, CQ!Begins, HQ!Begins
<1>6. CQ!Partial
  BY <1>1, <1>2 DEF CQ!Partial, HQ!Partial, CQ!Within, HQ!Within
<1> QED BY <1>3, <1>4, <1>5, <1>6 DEF CQ!InTurn

-----------------------------------------------------------------------------
(* The parser of thrift. *)

TO == INSTANCE Sides_proofs WITH
    Message <- ThriftMessage, Encode <- ThriftEncode, Decode <- ThriftDecode, Same <- ThriftSame,
    CutBetween <- Anywhere, CutInside <- Anywhere, MayClose <- FALSE,
    Capacity <- ThriftSide.capacity, Low <- ThriftSide.low, MaxPacket <- ThriftSide.packet,
    MaxSent <- ThriftSide.messages, MaxConnects <- ThriftSide.connects,
    Overlap <- TRUE, WriteCapacity <- OverlapSide.capacity, Fits <- OverlapSide.fits,
    MaxWrites <- OverlapSide.writes, MaxConnections <- OverlapSide.connections

(* What a message of thrift is on the wire: a head that tells how many tokens come, the name,
   the sequence id and the body. *)
LEMMA ThriftWire ==
    ASSUME NEW msg \in ThriftMessage
    PROVE  LET e == ThriftEncode(msg)
               n == Len(msg.body)
           IN  /\ ThriftFormed(msg)
               /\ n \in Nat /\ DOMAIN msg.body = 1 .. n
               /\ e \in Seq(TO!Token) /\ Len(e) = n + 3
               /\ e[1].kind = "head" /\ e[1].size = n + 2
               /\ e[1].type = IF msg.direction = "response" THEN TP!T_REPLY ELSE TP!T_CALL
               /\ e[2].kind = "method" /\ e[2].value = msg.method
               /\ e[3].kind = "seqid" /\ e[3].value = msg.seqid
               /\ \A i \in 1 .. n : e[3 + i].kind = "byte" /\ e[3 + i].value = msg.body[i]
<1> DEFINE n == Len(msg.body)
           two == <<[kind |-> "method", value |-> msg.method], [kind |-> "seqid", value |-> msg.seqid]>>
           bytes == [i \in DOMAIN msg.body |-> [kind |-> "byte", value |-> msg.body[i]]]
           head == [kind |-> "head", size |-> n + 2,
                    type |-> IF msg.direction = "response" THEN TP!T_REPLY ELSE TP!T_CALL]
           S == {two[1], two[2], head} \cup {[kind |-> "byte", value |-> msg.body[i]] : i \in DOMAIN msg.body}
           e == ThriftEncode(msg)
<1>1. ThriftFormed(msg)
  BY MessagesAssumption
<1>2. n \in Nat /\ DOMAIN msg.body = 1 .. n
  <2>1. msg.body \in Seq({msg.body[i] : i \in DOMAIN msg.body})
    BY <1>1 DEF ThriftFormed, IsList
  <2> QED BY <2>1
<1>3. bytes \in Seq(S)
  BY <1>2
<1>4. Len(bytes) = n
  BY <1>2
<1>5. two \in Seq(S)
  OBVIOUS
<1>6. Len(two) = 2
  OBVIOUS
<1> HIDE DEF n
<1> DEFINE rest == two \o bytes
<1>7. /\ rest \in Seq(S) /\ Len(rest) = n + 2 /\ rest[1] = two[1] /\ rest[2] = two[2]
      /\ \A i \in 1 .. n : rest[2 + i] = bytes[i]
  <2> HIDE DEF two, bytes, S, head, e
  <2>1. rest \in Seq(S) /\ Len(rest) = Len(two) + Len(bytes)
    BY <1>3, <1>5, ConcatFacts
  <2>2. DOMAIN two = 1 .. Len(two) /\ DOMAIN bytes = 1 .. Len(bytes)
    BY <1>3, <1>5, ConcatFacts
  <2>3. (\A i \in DOMAIN two : rest[i] = two[i]) /\ \A i \in DOMAIN bytes : rest[Len(two) + i] = bytes[i]
    BY <1>3, <1>5, ConcatFacts
  <2> HIDE DEF rest
  <2> QED BY <2>1, <2>2, <2>3, <1>2, <1>4, <1>6
<1> DEFINE one == <<head>>
<1>8. one \in Seq(S) /\ one[1] = head
  OBVIOUS
<1>80. Len(one) = 1
  OBVIOUS
<1>81. e = one \o rest
  <2>1. TP!Rest(msg) = rest
    BY DEF TP!Rest
  <2>2. Len(TP!Rest(msg)) = n + 2
    BY <2>1, <1>7
  <2> QED BY <2>1, <2>2 DEF ThriftEncode, TP!Encode
<1>82. e \in Seq(S) /\ Len(e) = n + 3 /\ e[1] = head /\ \A i \in 1 .. n + 2 : e[1 + i] = rest[i]
  <2> HIDE DEF head, rest, S, one, e, two, bytes
  <2>0. rest \in Seq(S)
    BY <1>7
  <2>1. e \in Seq(S) /\ Len(e) = Len(one) + Len(rest)
    BY <1>8, <1>81, <2>0, ConcatFacts
  <2>2. DOMAIN one = 1 .. Len(one) /\ DOMAIN rest = 1 .. Len(rest)
    BY <1>8, <2>0, ConcatFacts
  <2>3. (\A i \in DOMAIN one : e[i] = one[i]) /\ \A i \in DOMAIN rest : e[Len(one) + i] = rest[i]
    BY <1>8, <1>81, <2>0, ConcatFacts
  <2>4. Len(rest) = n + 2
    BY <1>7
  <2> HIDE DEF e
  <2>5. Len(e) = n + 3
    BY <2>1, <2>4, <1>2, <1>80
  <2>6. e[1] = head
    BY <2>2, <2>3, <1>8, <1>80
  <2>7. \A i \in 1 .. n + 2 : e[1 + i] = rest[i]
    BY <2>2, <2>3, <2>4, <1>80
  <2> QED BY <2>1, <2>5, <2>6, <2>7
<1>9. e \in Seq(TO!Token)
  <2> HIDE DEF e, S
  <2>1. \A i \in 1 .. Len(e) : e[i] \in TO!Token
    BY DEF e, TO!Token
  <2> QED BY <2>1, <1>82
<1>10. e[2] = two[1] /\ e[3] = two[2] /\ \A i \in 1 .. n : e[3 + i] = bytes[i]
  <2> HIDE DEF e, two, bytes, rest, head, S
  <2>1. e[1 + 1] = rest[1] /\ e[1 + 2] = rest[2] /\ \A i \in 1 .. n : e[1 + (2 + i)] = rest[2 + i]
    BY <1>2, <1>82
  <2>2. \A i \in 1 .. n : 1 + (2 + i) = 3 + i
    BY <1>2
  <2> QED BY <2>1, <2>2, <1>2, <1>7
<1>11. /\ e[1].kind = "head" /\ e[1].size = n + 2
       /\ e[1].type = IF msg.direction = "response" THEN TP!T_REPLY ELSE TP!T_CALL
  <2>1. e[1] = head
    BY <1>82
  <2> HIDE DEF e
  <2> QED BY <2>1
<1>12. /\ e[2].kind = "method" /\ e[2].value = msg.method /\ e[3].kind = "seqid" /\ e[3].value = msg.seqid
  <2> HIDE DEF e
  <2> QED BY <1>10
<1>13. \A i \in 1 .. n : e[3 + i].kind = "byte" /\ e[3 + i].value = msg.body[i]
  <2> TAKE i \in 1 .. n
  <2>1. i \in DOMAIN msg.body
    BY <1>2
  <2>2. bytes[i] = [kind |-> "byte", value |-> msg.body[i]]
    BY <2>1
  <2>3. e[3 + i] = bytes[i]
    BY <1>10
  <2> HIDE DEF e, bytes
  <2> QED BY <2>2, <2>3
<1>14. Len(e) = n + 3
  BY <1>82
<1> HIDE DEF e
<1> QED BY <1>1, <1>2, <1>14, <1>9, <1>11, <1>12, <1>13 DEF e, n

(* What the parser of thrift keeps to. *)
THEOREM ThriftTurn == TO!InTurn /\ TO!Patient
<1>1. TO!Encodes
  <2> SUFFICES ASSUME NEW msg \in ThriftMessage PROVE ThriftEncode(msg) \in Seq(TO!Token) /\ ThriftEncode(msg) # <<>>
    BY DEF TO!Encodes
  <2>1. Len(msg.body) \in Nat /\ ThriftEncode(msg) \in Seq(TO!Token) /\ Len(ThriftEncode(msg)) = Len(msg.body) + 3
    BY ThriftWire
  <2> QED BY <2>1
<1>2. TO!Placed
  <2> SUFFICES ASSUME NEW buf \in Seq(TO!Token), NEW r \in ThriftDecode(buf), r.is = "next" PROVE r.to \in Nat
    BY DEF TO!Placed
  <2>1. buf # <<>> /\ buf[1].kind = "head" /\ r.to = buf[1].size + 1
    BY DEF ThriftDecode, TP!Decode, TP!Incomplete, TP!Null
  <2>2. buf[1] \in TO!Token
    BY <2>1
  <2>3. buf[1].kind # "head" \/ buf[1].size \in Nat
    <3>1. CASE buf[1] = TO!Junk
      BY <3>1 DEF TO!Junk
    <3>2. ASSUME NEW msg \in ThriftMessage, NEW i \in 1 .. Len(ThriftEncode(msg)), buf[1] = ThriftEncode(msg)[i]
          PROVE  buf[1].kind # "head" \/ buf[1].size \in Nat
      <4> DEFINE n == Len(msg.body)
                 e == ThriftEncode(msg)
      <4>1. n \in Nat /\ Len(e) = n + 3 /\ e[1].size = n + 2 /\ e[2].kind = "method" /\ e[3].kind = "seqid"
            /\ \A j \in 1 .. n : e[3 + j].kind = "byte"
        BY ThriftWire
      <4> HIDE DEF n, e
      <4>2. i \in 1 .. Len(e) /\ buf[1] = e[i]
        BY <3>2 DEF e
      <4>3. i = 1 \/ i = 2 \/ i = 3 \/ (i - 3 \in 1 .. n /\ i = 3 + (i - 3))
        BY <4>1, <4>2
      <4>4. ASSUME i - 3 \in 1 .. n, i = 3 + (i - 3) PROVE e[i].kind = "byte"
        BY <4>1, <4>4
      <4>5. "byte" # "head" /\ "method" # "head" /\ "seqid" # "head"
        OBVIOUS
      <4> QED BY <4>1, <4>2, <4>3, <4>4, <4>5
    <3> QED BY <2>2, <3>1, <3>2 DEF TO!Token
  <2> QED BY <2>1, <2>3
<1>3. ASSUME NEW buf \in Seq(TO!Token), NEW msg \in ThriftMessage, TO!Begins(buf, msg)
      PROVE  \A r \in ThriftDecode(buf) :
               r.is = "next" /\ r.to = Len(ThriftEncode(msg)) /\ ~r.skew /\ ThriftSame(msg, r.msg)
  <2> DEFINE n == Len(msg.body)
             e == ThriftEncode(msg)
  <2>1. /\ n \in Nat /\ Len(e) = n + 3 /\ ThriftFormed(msg) /\ DOMAIN msg.body = 1 .. n
        /\ e[1].kind = "head" /\ e[1].size = n + 2
        /\ e[1].type = IF msg.direction = "response" THEN TP!T_REPLY ELSE TP!T_CALL
        /\ e[2].value = msg.method /\ e[3].value = msg.seqid
        /\ \A j \in 1 .. n : e[3 + j].value = msg.body[j]
    BY ThriftWire
  <2>2. Len(buf) \in Nat /\ Len(buf) >= n + 3 /\ \A i \in 1 .. n + 3 : buf[i] = e[i]
    <3>1. Len(e) <= Len(buf) /\ \A i \in 1 .. Len(e) : buf[i] = e[i]
      BY <1>1, <1>3, TO!BeginsMeans
    <3> QED BY <2>1, <3>1
  <2> HIDE DEF n, e
  <2>3. buf # <<>> /\ buf[1] = e[1] /\ buf[2] = e[2] /\ buf[3] = e[3] /\ \A j \in 1 .. n : buf[3 + j] = e[3 + j]
    BY <2>1, <2>2
  <2>4. ThriftDecode(buf) = {[is |-> "next", to |-> n + 3, skew |-> FALSE, msg |-> TP!Message(buf, n + 2)]}
    <3>1. buf[1].type \in {TP!T_CALL, TP!T_ONEWAY, TP!T_REPLY}
      BY <2>1, <2>3
    <3>2. ~(buf[1].size + 1 > Len(buf)) /\ buf[1].size + 1 = n + 3 /\ buf[1].size = n + 2
      BY <2>1, <2>2, <2>3
    <3> QED BY <2>1, <2>3, <3>1, <3>2 DEF ThriftDecode, TP!Decode
  <2>5. ThriftSame(msg, TP!Message(buf, n + 2))
    <3> DEFINE got == TP!Message(buf, n + 2)
    <3>1. /\ got.direction = (IF buf[1].type = TP!T_REPLY THEN "response" ELSE "request")
          /\ got.isheartbeat = (buf[2].value = "AllsparkHeartBeat") /\ got.method = buf[2].value
          /\ got.seqid = Reverse(buf[3].value) /\ got.body = [i \in 1 .. (n + 2) - 2 |-> buf[3 + i].value]
      BY SMTT(30) DEF TP!Message, TP!Reverse, Reverse
    <3> HIDE DEF got
    <3>2. got.direction = msg.direction
      BY <2>1, <2>3, <3>1 DEF ThriftFormed, TP!T_REPLY, TP!T_CALL
    <3>3. got.method = msg.method /\ got.isheartbeat = (msg.method = "AllsparkHeartBeat")
      BY <2>1, <2>3, <3>1
    <3>4. got.body = msg.body
      <4>1. (n + 2) - 2 = n
        BY <2>1
      <4>2. got.body = [i \in 1 .. n |-> msg.body[i]]
        BY <4>1, <2>1, <2>3, <3>1
      <4>3. msg.body \in Seq({msg.body[i] : i \in DOMAIN msg.body})
        BY <2>1 DEF ThriftFormed, IsList
      <4> QED BY <2>1, <4>2, <4>3
    <3>5. \A i \in 1 .. 4 : got.seqid[i] = msg.seqid[5 - i]
      <4>1. got.seqid = Reverse(msg.seqid)
        BY <2>1, <2>3, <3>1
      <4>2. msg.seqid \in [1 .. 4 -> 0 .. 255]
        BY <2>1, SMTT(30) DEF ThriftFormed
      <4> DEFINE q == msg.seqid
      <4>3. q \in [1 .. 4 -> 0 .. 255]
        BY <4>2
      <4> HIDE DEF q
      <4>4. Len(q) = 4
        BY <4>3
      <4>5. got.seqid = [i \in 1 .. 4 |-> q[(4 - i) + 1]]
        BY <4>1, <4>4 DEF Reverse, q
      <4>6. \A i \in 1 .. 4 : (4 - i) + 1 = 5 - i
        OBVIOUS
      <4> QED BY <4>5, <4>6 DEF q
    <3>6. ThriftSame(msg, got)
      BY <3>2, <3>3, <3>4, <3>5 DEF ThriftSame
    <3> QED BY <3>6 DEF got
  <2>6. ASSUME NEW r \in ThriftDecode(buf)
        PROVE  r.is = "next" /\ r.to = n + 3 /\ ~r.skew /\ ThriftSame(msg, r.msg)
    <3> DEFINE got == TP!Message(buf, n + 2)
    <3> HIDE DEF got
    <3>1. r = [is |-> "next", to |-> n + 3, skew |-> FALSE, msg |-> got]
      BY <2>4 DEF got
    <3>2. r.msg = got
      BY <3>1
    <3> QED BY <3>1, <3>2, <2>5 DEF got
  <2> QED BY <2>1, <2>6 DEF e
<1>4. ASSUME NEW buf \in Seq(TO!Token), NEW msg \in ThriftMessage, TO!Within(buf, msg)
      PROVE  \A r \in ThriftDecode(buf) : r.is = "buf"
  <2> DEFINE n == Len(msg.body)
             e == ThriftEncode(msg)
  <2>1. n \in Nat /\ Len(e) = n + 3 /\ e[1].kind = "head" /\ e[1].size = n + 2
    BY ThriftWire
  <2>2. Len(buf) \in Nat /\ Len(buf) < n + 3 /\ \A i \in 1 .. Len(buf) : buf[i] = e[i]
    <3>1. Len(buf) \in Nat /\ Len(buf) < Len(e) /\ \A i \in 1 .. Len(buf) : buf[i] = e[i]
      BY <1>1, <1>4, TO!BeginsMeans
    <3> QED BY <2>1, <3>1
  <2> HIDE DEF n, e
  <2>3. CASE buf = <<>>
    BY <2>3 DEF ThriftDecode, TP!Decode, TP!Incomplete
  <2>4. CASE buf # <<>>
    <3>1. buf[1] = e[1] /\ buf[1].size + 1 > Len(buf)
      <4>1. 1 \in 1 .. Len(buf)
        BY <2>4
      <4> QED BY <4>1, <2>1, <2>2
    <3> QED BY <2>1, <2>4, <3>1 DEF ThriftDecode, TP!Decode, TP!Incomplete
  <2> QED BY <2>3, <2>4
<1>5. TO!Whole
  BY <1>3 DEF TO!Whole
<1>6. TO!Partial
  BY <1>4 DEF TO!Partial
<1>7. TO!Waits
  BY <1>4 DEF TO!Waits
<1>8. TO!Fronts
  BY DEF TO!Fronts, Anywhere
<1> QED BY <1>1, <1>2, <1>5, <1>6, <1>7, <1>8 DEF TO!InTurn, TO!Patient

-----------------------------------------------------------------------------
(* The reading sides are those the invariants are about. *)

(* A step of the side with the parser of thrift. *)
LEMMA ThriftSteps == Thrift!Next => TO!Next
<1>1. ASSUME NEW msg \in ThriftMessage, Thrift!Send(msg) PROVE TO!Send(msg)
  BY <1>1
     DEF Thrift!Send, TO!Send, Thrift!conn, TO!conn
<1>2. Thrift!PeerCloses => TO!PeerCloses
  BY DEF Thrift!PeerCloses, TO!PeerCloses
<1>3. Thrift!Connect => TO!Connect
  BY DEF Thrift!Connect, TO!Connect
<1>4. Thrift!HandleReadError => TO!HandleReadError
  BY DEF Thrift!HandleReadError, TO!HandleReadError, Thrift!OnPeerClose, TO!OnPeerClose
<1>5. Thrift!ReadCompletes => TO!ReadCompletes
  <2> SUFFICES ASSUME NEW n \in 0 .. Len(wire), NEW inside \in BOOLEAN, Thrift!HandleRead(n, inside)
               PROVE  TO!HandleRead(n, inside)
    BY DEF Thrift!ReadCompletes, TO!ReadCompletes
  <2>1. Thrift!MayEnd(n, inside) => TO!MayEnd(n, inside)
    BY DEF Thrift!MayEnd, TO!MayEnd, Thrift!Free, TO!Free, Thrift!Junk, TO!Junk
  <2> QED
    BY <2>1
       DEF Thrift!HandleRead, TO!HandleRead, Thrift!OnPeerClose, TO!OnPeerClose
<1>6. Thrift!DecodeIllegal => TO!DecodeIllegal
  BY DEF Thrift!DecodeIllegal, TO!DecodeIllegal, Thrift!OnPeerClose, TO!OnPeerClose
<1>7. Thrift!DecodeWaits => TO!DecodeWaits
  BY DEF Thrift!DecodeWaits, TO!DecodeWaits, Thrift!ReadOn, TO!ReadOn
<1>8. Thrift!DecodedClosed => TO!DecodedClosed
  BY DEF Thrift!DecodedClosed, TO!DecodedClosed, Thrift!OnPeerClose, TO!OnPeerClose
<1>9. ASSUME NEW closes \in BOOLEAN, Thrift!Decoded(closes) PROVE TO!Decoded(closes)
  BY <1>9
     DEF Thrift!Decoded, TO!Decoded, Thrift!Consumed, TO!Consumed, Thrift!Junk, TO!Junk
<1>10. Thrift!Close => TO!Close
  BY DEF Thrift!Close, TO!Close, Thrift!OnPeerClose, TO!OnPeerClose
<1> QED
  BY <1>1, <1>2, <1>3, <1>4, <1>5, <1>6, <1>7, <1>8, <1>9, <1>10
     DEF Thrift!Next, TO!Next, Thrift!Loop, TO!Loop

(* A step of the side with the parser of HTTP. *)
LEMMA HttpSteps == Http!Next => HQ!Next
<1>1. ASSUME NEW msg \in HttpMessage, Http!Send(msg) PROVE HQ!Send(msg)
  BY <1>1
     DEF Http!Send, HQ!Send, Http!conn, HQ!conn
<1>2. Http!PeerCloses => HQ!PeerCloses
  BY DEF Http!PeerCloses, HQ!PeerCloses
<1>3. Http!Connect => HQ!Connect
  BY DEF Http!Connect, HQ!Connect
<1>4. Http!HandleReadError => HQ!HandleReadError
  BY DEF Http!HandleReadError, HQ!HandleReadError, Http!OnPeerClose, HQ!OnPeerClose
<1>5. Http!ReadCompletes => HQ!ReadCompletes
  <2> SUFFICES ASSUME NEW n \in 0 .. Len(wire), NEW inside \in BOOLEAN, Http!HandleRead(n, inside)
               PROVE  HQ!HandleRead(n, inside)
    BY DEF Http!ReadCompletes, HQ!ReadCompletes
  <2>1. Http!MayEnd(n, inside) => HQ!MayEnd(n, inside)
    BY DEF Http!MayEnd, HQ!MayEnd, Http!Free, HQ!Free, Http!Junk, HQ!Junk
  <2> QED
    BY <2>1
       DEF Http!HandleRead, HQ!HandleRead, Http!OnPeerClose, HQ!OnPeerClose
<1>6. Http!DecodeIllegal => HQ!DecodeIllegal
  BY DEF Http!DecodeIllegal, HQ!DecodeIllegal, Http!OnPeerClose, HQ!OnPeerClose
<1>7. Http!DecodeWaits => HQ!DecodeWaits
  BY DEF Http!DecodeWaits, HQ!DecodeWaits, Http!ReadOn, HQ!ReadOn
<1>8. Http!DecodedClosed => HQ!DecodedClosed
  BY DEF Http!DecodedClosed, HQ!DecodedClosed, Http!OnPeerClose, HQ!OnPeerClose
<1>9. ASSUME NEW closes \in BOOLEAN, Http!Decoded(closes) PROVE HQ!Decoded(closes)
  BY <1>9
     DEF Http!Decoded, HQ!Decoded, Http!Consumed, HQ!Consumed, Http!Junk, HQ!Junk
<1>10. Http!Close => HQ!Close
  BY DEF Http!Close, HQ!Close, Http!OnPeerClose, HQ!OnPeerClose
<1> QED
  BY <1>1, <1>2, <1>3, <1>4, <1>5, <1>6, <1>7, <1>8, <1>9, <1>10
     DEF Http!Next, HQ!Next, Http!Loop, HQ!Loop

(* A step of the side that is cut anywhere. *)
LEMMA CutsSteps == Cuts!Next => CQ!Next
<1>1. ASSUME NEW msg \in HttpMessage, Cuts!Send(msg) PROVE CQ!Send(msg)
  BY <1>1
     DEF Cuts!Send, CQ!Send, Cuts!conn, CQ!conn
<1>2. Cuts!PeerCloses => CQ!PeerCloses
  BY DEF Cuts!PeerCloses, CQ!PeerCloses
<1>3. Cuts!Connect => CQ!Connect
  BY DEF Cuts!Connect, CQ!Connect
<1>4. Cuts!HandleReadError => CQ!HandleReadError
  BY DEF Cuts!HandleReadError, CQ!HandleReadError, Cuts!OnPeerClose, CQ!OnPeerClose
<1>5. Cuts!ReadCompletes => CQ!ReadCompletes
  <2> SUFFICES ASSUME NEW n \in 0 .. Len(wire), NEW inside \in BOOLEAN, Cuts!HandleRead(n, inside)
               PROVE  CQ!HandleRead(n, inside)
    BY DEF Cuts!ReadCompletes, CQ!ReadCompletes
  <2>1. Cuts!MayEnd(n, inside) => CQ!MayEnd(n, inside)
    BY DEF Cuts!MayEnd, CQ!MayEnd, Cuts!Free, CQ!Free, Cuts!Junk, CQ!Junk
  <2> QED
    BY <2>1
       DEF Cuts!HandleRead, CQ!HandleRead, Cuts!OnPeerClose, CQ!OnPeerClose
<1>6. Cuts!DecodeIllegal => CQ!DecodeIllegal
  BY DEF Cuts!DecodeIllegal, CQ!DecodeIllegal, Cuts!OnPeerClose, CQ!OnPeerClose
<1>7. Cuts!DecodeWaits => CQ!DecodeWaits
  BY DEF Cuts!DecodeWaits, CQ!DecodeWaits, Cuts!ReadOn, CQ!ReadOn
<1>8. Cuts!DecodedClosed => CQ!DecodedClosed
  BY DEF Cuts!DecodedClosed, CQ!DecodedClosed, Cuts!OnPeerClose, CQ!OnPeerClose
<1>9. ASSUME NEW closes \in BOOLEAN, Cuts!Decoded(closes) PROVE CQ!Decoded(closes)
  BY <1>9
     DEF Cuts!Decoded, CQ!Decoded, Cuts!Consumed, CQ!Consumed, Cuts!Junk, CQ!Junk
<1>10. Cuts!Close => CQ!Close
  BY DEF Cuts!Close, CQ!Close, Cuts!OnPeerClose, CQ!OnPeerClose
<1> QED
  BY <1>1, <1>2, <1>3, <1>4, <1>5, <1>6, <1>7, <1>8, <1>9, <1>10
     DEF Cuts!Next, CQ!Next, Cuts!Loop, CQ!Loop

-----------------------------------------------------------------------------
(* The beginning of each side, and what its constants are. *)
LEMMA ReadersBegin ==
    /\ (Thrift!Init => TO!Init) /\ (Http!Init => HQ!Init) /\ (Cuts!Init => CQ!Init)
    /\ TO!FramingAssumption /\ HQ!FramingAssumption /\ CQ!FramingAssumption
    /\ TO!SmallMessages /\ HQ!SmallMessages
<1>1. (Thrift!Init => TO!Init) /\ (Http!Init => HQ!Init) /\ (Cuts!Init => CQ!Init)
  BY DEF Thrift!Init, TO!Init, Http!Init, HQ!Init, Cuts!Init, CQ!Init
<1>2. TO!FramingAssumption /\ HQ!FramingAssumption /\ CQ!FramingAssumption
  BY ConnectionsAssumption
     DEF ConnectionsAssumption, Thrift!FramingAssumption, TO!FramingAssumption, Http!FramingAssumption,
         HQ!FramingAssumption, Cuts!FramingAssumption, CQ!FramingAssumption
<1>3. TO!SmallMessages /\ HQ!SmallMessages
  BY MessagesAssumption DEF Thrift!SmallMessages, TO!SmallMessages, Http!SmallMessages, HQ!SmallMessages
<1> QED BY <1>1, <1>2, <1>3

(* The invariant of the side that runs; a side that does not stays as it begins. *)
ReadInv ==
    IF which = "thrift" THEN TO!RoomInv /\ TO!SoundInv
    ELSE IF which = "cuts" THEN CQ!RoomInv /\ CQ!OrderInv
    ELSE HQ!RoomInv /\ HQ!SoundInv

(* Each side begins with it. *)
LEMMA ReadInit == Init => ReadInv
<1> SUFFICES ASSUME Init PROVE ReadInv
  OBVIOUS
<1>1. CASE which = "thrift"
  <2>1. TO!Init
    BY <1>1, ReadersBegin DEF Init
  <2> QED BY <2>1, <1>1, ReadersBegin, TO!RoomInit, TO!SoundInit DEF ReadInv
<1>2. CASE which = "cuts"
  <2>1. CQ!Init
    BY <1>2, ReadersBegin DEF Init
  <2> QED BY <2>1, <1>2, ReadersBegin, CQ!RoomInit, CQ!OrderInit DEF ReadInv
<1>3. CASE which \notin {"thrift", "cuts"}
  <2>1. HQ!Init
    BY <1>3, ReadersBegin DEF Init
  <2> QED BY <2>1, <1>3, ReadersBegin, HQ!RoomInit, HQ!SoundInit DEF ReadInv
<1> QED BY <1>1, <1>2, <1>3

(* Every step keeps it, of this side or of another part. *)
LEMMA ReadStep == ReadInv /\ [Next]_all => ReadInv'
<1> SUFFICES ASSUME ReadInv, [Next]_all PROVE ReadInv'
  OBVIOUS
<1>1. which' = which
  BY DEF Next, all, Reading, Writing, InExamples
<1>2. CASE which = "thrift"
  <2>1. Thrift!Next \/ UNCHANGED readVars
    BY <1>2 DEF Next, all, Reading, Writing, InExamples
  <2>2. TO!Next \/ UNCHANGED TO!vars
    BY <2>1, ThriftSteps DEF readVars, TO!vars
  <2>3. TO!FramingAssumption /\ TO!InTurn /\ TO!Patient /\ TO!SmallMessages /\ TO!RoomInv /\ TO!SoundInv
    BY <1>2, ReadersBegin, ThriftTurn DEF ReadInv
  <2>4. TO!RoomInv'
    BY <2>2, <2>3, TO!RoomStep DEF TO!InTurn
  <2>5. TO!SoundInv'
    BY <2>2, <2>3, TO!SoundStep
  <2> QED BY <2>4, <2>5, <1>1, <1>2 DEF ReadInv
<1>3. CASE which = "cuts"
  <2>1. Cuts!Next \/ UNCHANGED readVars
    BY <1>3 DEF Next, all, Reading, Writing, InExamples
  <2>2. CQ!Next \/ UNCHANGED CQ!vars
    BY <2>1, CutsSteps DEF readVars, CQ!vars
  <2>3. CQ!FramingAssumption /\ CQ!InTurn /\ CQ!RoomInv /\ CQ!OrderInv
    BY <1>3, ReadersBegin, CutsTurn DEF ReadInv
  <2>4. CQ!RoomInv'
    BY <2>2, <2>3, CQ!RoomStep DEF CQ!InTurn
  <2>5. CQ!OrderInv'
    BY <2>2, <2>3, CQ!OrderStep
  <2> QED BY <2>4, <2>5, <1>1, <1>3 DEF ReadInv
<1>4. CASE which \notin {"thrift", "cuts"}
  <2>1. Http!Next \/ UNCHANGED readVars
    BY <1>4 DEF Next, all, Reading, Writing, InExamples
  <2>2. HQ!Next \/ UNCHANGED HQ!vars
    BY <2>1, HttpSteps DEF readVars, HQ!vars
  <2>3. HQ!FramingAssumption /\ HQ!InTurn /\ HQ!Patient /\ HQ!SmallMessages /\ HQ!RoomInv /\ HQ!SoundInv
    BY <1>4, ReadersBegin, HttpTurn DEF ReadInv
  <2>4. HQ!RoomInv'
    BY <2>2, <2>3, HQ!RoomStep DEF HQ!InTurn
  <2>5. HQ!SoundInv'
    BY <2>2, <2>3, HQ!SoundStep
  <2> QED BY <2>4, <2>5, <1>1, <1>4 DEF ReadInv
<1> QED BY <1>2, <1>3, <1>4

(* In every execution. *)
THEOREM ReadingInvariant == Spec => []ReadInv
BY ReadInit, ReadStep, PTL DEF Spec

(* CConnection, for every message that a peer may send, any size of the buffer and any number
   of messages and connections: the decode loop and a read never overlap, a read has a place to
   go, and the buffer holds nothing of an earlier connection that a read has ended. *)
THEOREM SpecBufferSound == Spec => []BufferSound
<1>1. ReadInv => BufferSound
  <2> SUFFICES ASSUME ReadInv PROVE BufferSound
    OBVIOUS
  <2>1. CASE which = "thrift"
    <3>1. TO!TypeOK /\ TO!Room /\ TO!NoStaleBytes
      BY <2>1, ThriftTurn, TO!RoomMeans, TO!SoundMeans DEF ReadInv
    <3>2. Thrift!TypeOK /\ Http!Room /\ Http!NoStaleBytes
      BY <3>1 DEF TO!TypeOK, Thrift!TypeOK, TO!Room, Http!Room, TO!NoStaleBytes, Http!NoStaleBytes, TO!Free, Http!Free
    <3> QED BY <2>1, <3>2 DEF BufferSound
  <2>2. CASE which = "cuts"
    <3>1. CQ!Room
      BY <2>2, CQ!RoomMeans DEF ReadInv
    <3>2. Http!Room
      BY <3>1 DEF CQ!Room, Http!Room, CQ!NoStaleBytes, Http!NoStaleBytes, CQ!Free, Http!Free
    <3> QED BY <2>2, <3>2 DEF BufferSound
  <2>3. CASE which \notin {"thrift", "cuts"}
    <3>1. HQ!TypeOK /\ HQ!Room /\ HQ!NoStaleBytes
      BY <2>3, HttpTurn, HQ!RoomMeans, HQ!SoundMeans DEF ReadInv
    <3>2. Http!TypeOK /\ Http!Room /\ Http!NoStaleBytes
      BY <3>1 DEF HQ!TypeOK, Http!TypeOK, HQ!Room, Http!Room, HQ!NoStaleBytes, Http!NoStaleBytes, HQ!Free, Http!Free
    <3> QED BY <2>3, <3>2 DEF BufferSound
  <2> QED BY <2>1, <2>2, <2>3
<1> QED BY <1>1, ReadingInvariant, PTL

(* CConnection and its parsers, for every message that a peer may send, any size of the buffer
   and any number of messages and connections: what is delivered is what the peer sent, in order;
   a connection that has read all that was sent and waits for more has delivered all of it; and a
   peer that cuts where the parser allows it is never closed as illegal. *)
THEOREM SpecDeliveredWhole == Spec => []DeliveredWhole
<1>1. ReadInv => DeliveredWhole
  <2> SUFFICES ASSUME ReadInv PROVE DeliveredWhole
    OBVIOUS
  <2>1. CASE which = "thrift"
    <3>1. TO!NeverIllegal /\ TO!NothingWithheld /\ TO!InOrder
      BY <2>1, ThriftTurn, TO!SoundMeans DEF ReadInv
    <3>2. Http!NeverIllegal /\ Http!NothingWithheld /\ Thrift!InOrder
      BY <3>1 DEF TO!NeverIllegal, Http!NeverIllegal, TO!NothingWithheld, Http!NothingWithheld,
                  TO!InOrder, Thrift!InOrder
    <3> QED BY <2>1, <3>2 DEF DeliveredWhole
  <2>2. CASE which = "cuts"
    <3>1. connects <= 1 => CQ!InOrder
      BY <2>2, CQ!OrderMeans DEF ReadInv
    <3>2. connects \in Nat
      BY <2>2, ReadersBegin DEF ReadInv, CQ!RoomInv, CQ!FramingAssumption
    <3>3. connects > 1 \/ Http!InOrder
      BY <3>1, <3>2 DEF CQ!InOrder, Http!InOrder
    <3> QED BY <2>2, <3>3 DEF DeliveredWhole
  <2>3. CASE which \notin {"thrift", "cuts"}
    <3>1. HQ!NeverIllegal /\ HQ!NothingWithheld /\ HQ!InOrder
      BY <2>3, HttpTurn, HQ!SoundMeans DEF ReadInv
    <3>2. Http!NeverIllegal /\ Http!NothingWithheld /\ Http!InOrder
      BY <3>1 DEF HQ!NeverIllegal, Http!NeverIllegal, HQ!NothingWithheld, Http!NothingWithheld,
                  HQ!InOrder, Http!InOrder
    <3> QED BY <2>3, <3>2 DEF DeliveredWhole
  <2> QED BY <2>1, <2>2, <2>3
<1> QED BY <1>1, ReadingInvariant, PTL

-----------------------------------------------------------------------------
(* The writing sides, in the same instances. *)

(* A step of the side whose writes wait for each other. *)
LEMMA QuietSteps == Quiet!WriteNext => HQ!WriteNext
<1>1. ASSUME NEW k \in Quiet!Takes, NEW close \in BOOLEAN, Quiet!AsyncWrite(close, k) PROVE HQ!WriteNext
  <2>1. k \in HQ!Takes
    BY SMTT(30) DEF Quiet!Takes, HQ!Takes
  <2>2. HQ!AsyncWrite(close, k)
    BY <1>1
       DEF  Quiet!AsyncWrite, HQ!AsyncWrite, Quiet!Outstanding, HQ!Outstanding, Quiet!EncodeNext,
            HQ!EncodeNext, Quiet!Start, HQ!Start, Quiet!WriteSome, HQ!WriteSome, Quiet!Conn, HQ!Conn,
            Quiet!allocate, HQ!allocate, Quiet!Tokens, HQ!Tokens, Quiet!Freed, HQ!Freed
  <2> QED BY <2>1, <2>2 DEF HQ!WriteNext
<1>2. ASSUME NEW k \in Quiet!Takes, Quiet!WriteCompletes(k) PROVE HQ!WriteNext
  <2>1. k \in HQ!Takes
    BY SMTT(30) DEF Quiet!Takes, HQ!Takes
  <2>2. HQ!WriteCompletes(k)
    BY <1>2
       DEF  Quiet!WriteCompletes, HQ!WriteCompletes, Quiet!HandleWrite, HQ!HandleWrite,
            Quiet!PeerClosed, HQ!PeerClosed, Quiet!deallocate, HQ!deallocate, Quiet!encoded,
            HQ!encoded, Quiet!WriteSome, HQ!WriteSome, Quiet!Conn, HQ!Conn, Quiet!allocate,
            HQ!allocate, Quiet!Tokens, HQ!Tokens, Quiet!Freed, HQ!Freed
  <2> QED BY <2>1, <2>2 DEF HQ!WriteNext
<1>3. ASSUME NEW k \in Quiet!Takes, NEW err \in BOOLEAN, Quiet!Writable(k, err) PROVE HQ!WriteNext
  <2>1. k \in HQ!Takes
    BY DEF Quiet!Takes, HQ!Takes
  <2>2. HQ!Writable(k, err)
    BY <1>3, SMTT(30) DEF Quiet!Writable, HQ!Writable, Quiet!Tokens, HQ!Tokens, Quiet!Freed, HQ!Freed, Quiet!Conn,
            HQ!Conn, Quiet!encoded, HQ!encoded, Quiet!history, HQ!history
  <2> QED BY <2>1, <2>2 DEF HQ!WriteNext
<1>4. Quiet!ReadErrorCloses => HQ!ReadErrorCloses
  BY DEF Quiet!ReadErrorCloses, HQ!ReadErrorCloses, Quiet!PeerClosed, HQ!PeerClosed,
            Quiet!Conn, HQ!Conn, Quiet!encoded, HQ!encoded, Quiet!history, HQ!history
<1>5. Quiet!AsyncConnect => HQ!AsyncConnect
  BY DEF Quiet!AsyncConnect, HQ!AsyncConnect, Quiet!Conn, HQ!Conn, Quiet!DialRest, HQ!DialRest,
            Quiet!encoded, HQ!encoded, Quiet!history, HQ!history
<1>6. Quiet!DialGoesOn => HQ!DialGoesOn
  BY DEF Quiet!DialGoesOn, HQ!DialGoesOn, Quiet!Resolved, HQ!Resolved, Quiet!Connected,
            HQ!Connected, Quiet!DialRest, HQ!DialRest, Quiet!encoded, HQ!encoded, Quiet!history,
            HQ!history
<1>7. Quiet!HandleResolve => HQ!HandleResolve
  BY DEF Quiet!HandleResolve, HQ!HandleResolve, Quiet!Resolved, HQ!Resolved, Quiet!DialRest,
            HQ!DialRest, Quiet!encoded, HQ!encoded, Quiet!history, HQ!history
<1>8. Quiet!HandleConnected => HQ!HandleConnected
  BY DEF Quiet!HandleConnected, HQ!HandleConnected, Quiet!Connected, HQ!Connected,
            Quiet!DialRest, HQ!DialRest, Quiet!encoded, HQ!encoded, Quiet!history, HQ!history
<1> QED BY <1>1, <1>2, <1>3, <1>4, <1>5, <1>6, <1>7, <1>8 DEF Quiet!WriteNext, HQ!WriteNext

(* A step of the side whose writes overlap. *)
LEMMA OverlappingSteps == Overlapping!WriteNext => TO!WriteNext
<1>1. ASSUME NEW k \in Overlapping!Takes, NEW close \in BOOLEAN, Overlapping!AsyncWrite(close, k) PROVE TO!WriteNext
  <2>1. k \in TO!Takes
    BY DEF Overlapping!Takes, TO!Takes
  <2>2. TO!AsyncWrite(close, k)
    BY <1>1
       DEF  Overlapping!AsyncWrite, TO!AsyncWrite, Overlapping!Outstanding, TO!Outstanding,
            Overlapping!EncodeNext, TO!EncodeNext, Overlapping!Start, TO!Start, Overlapping!WriteSome, TO!WriteSome,
            Overlapping!Conn, TO!Conn, Overlapping!allocate, TO!allocate, Overlapping!Tokens, TO!Tokens,
            Overlapping!Freed, TO!Freed
  <2> QED BY <2>1, <2>2 DEF TO!WriteNext
<1>2. ASSUME NEW k \in Overlapping!Takes, Overlapping!WriteCompletes(k) PROVE TO!WriteNext
  <2>1. k \in TO!Takes
    BY DEF Overlapping!Takes, TO!Takes
  <2>2. TO!WriteCompletes(k)
    BY <1>2
       DEF  Overlapping!WriteCompletes, TO!WriteCompletes, Overlapping!HandleWrite, TO!HandleWrite,
            Overlapping!PeerClosed, TO!PeerClosed, Overlapping!deallocate, TO!deallocate,
            Overlapping!encoded, TO!encoded, Overlapping!WriteSome, TO!WriteSome, Overlapping!Conn, TO!Conn,
            Overlapping!allocate, TO!allocate, Overlapping!Tokens, TO!Tokens, Overlapping!Freed, TO!Freed
  <2> QED BY <2>1, <2>2 DEF TO!WriteNext
<1>3. ASSUME NEW k \in Overlapping!Takes, NEW err \in BOOLEAN, Overlapping!Writable(k, err) PROVE TO!WriteNext
  <2>1. k \in TO!Takes
    BY DEF Overlapping!Takes, TO!Takes
  <2>2. TO!Writable(k, err)
    BY <1>3 DEF Overlapping!Writable, TO!Writable, Overlapping!Tokens, TO!Tokens, Overlapping!Freed, TO!Freed,
            Overlapping!Conn, TO!Conn, Overlapping!encoded, TO!encoded, Overlapping!history, TO!history
  <2> QED BY <2>1, <2>2 DEF TO!WriteNext
<1>4. Overlapping!ReadErrorCloses => TO!ReadErrorCloses
  BY DEF Overlapping!ReadErrorCloses, TO!ReadErrorCloses, Overlapping!PeerClosed, TO!PeerClosed,
            Overlapping!Conn, TO!Conn, Overlapping!encoded, TO!encoded, Overlapping!history, TO!history
<1>5. Overlapping!AsyncConnect => TO!AsyncConnect
  BY DEF Overlapping!AsyncConnect, TO!AsyncConnect, Overlapping!Conn, TO!Conn, Overlapping!DialRest,
            TO!DialRest, Overlapping!encoded, TO!encoded, Overlapping!history, TO!history
<1>6. Overlapping!DialGoesOn => TO!DialGoesOn
  BY DEF Overlapping!DialGoesOn, TO!DialGoesOn, Overlapping!Resolved, TO!Resolved, Overlapping!Connected,
            TO!Connected, Overlapping!DialRest, TO!DialRest, Overlapping!encoded, TO!encoded,
            Overlapping!history, TO!history
<1>7. Overlapping!HandleResolve => TO!HandleResolve
  BY DEF Overlapping!HandleResolve, TO!HandleResolve, Overlapping!Resolved, TO!Resolved,
            Overlapping!DialRest, TO!DialRest, Overlapping!encoded, TO!encoded, Overlapping!history, TO!history
<1>8. Overlapping!HandleConnected => TO!HandleConnected
  BY DEF Overlapping!HandleConnected, TO!HandleConnected, Overlapping!Connected, TO!Connected,
            Overlapping!DialRest, TO!DialRest, Overlapping!encoded, TO!encoded, Overlapping!history, TO!history
<1> QED BY <1>1, <1>2, <1>3, <1>4, <1>5, <1>6, <1>7, <1>8 DEF Overlapping!WriteNext, TO!WriteNext

(* The beginning of each side, and what its constants are. *)
LEMMA SidesBegin ==
    /\ Quiet!WriteInit => HQ!WriteInit
    /\ Overlapping!WriteInit => TO!WriteInit
    /\ HQ!WriteBufferAssumption /\ TO!WriteBufferAssumption
BY ConnectionsAssumption
   DEF ConnectionsAssumption, Quiet!WriteInit, HQ!WriteInit, Overlapping!WriteInit, TO!WriteInit, Quiet!WriteBufferAssumption,
       HQ!WriteBufferAssumption, Overlapping!WriteBufferAssumption, TO!WriteBufferAssumption

-----------------------------------------------------------------------------
(* The invariant of the side that runs. *)
WriteInv == IF which = "overlap" THEN TO!SafeInv ELSE HQ!SafeInv /\ HQ!QuietInv

(* Both sides begin with it. *)
LEMMA WriteInit == Init => WriteInv
<1> SUFFICES ASSUME Init PROVE WriteInv
  OBVIOUS
<1>1. CASE which = "overlap"
  <2>1. TO!WriteInit
    BY <1>1, SidesBegin DEF Init
  <2> QED BY <2>1, <1>1, SidesBegin, TO!SafeInit DEF WriteInv
<1>2. CASE which # "overlap"
  <2>1. HQ!WriteInit
    BY <1>2, SidesBegin DEF Init
  <2> QED BY <2>1, <1>2, SidesBegin, HQ!SafeInit, HQ!QuietInit DEF WriteInv
<1> QED BY <1>1, <1>2

(* Every step keeps it, of this side or of another part. *)
LEMMA WriteStep == WriteInv /\ [Next]_all => WriteInv'
<1> SUFFICES ASSUME WriteInv, [Next]_all PROVE WriteInv'
  OBVIOUS
<1>1. which' = which
  BY DEF Next, all, Reading, Writing, InExamples
<1>2. CASE which = "overlap"
  <2>1. Overlapping!WriteNext \/ UNCHANGED writeVars
    BY <1>2 DEF Next, all, Reading, Writing, InExamples
  <2>2. TO!WriteNext \/ UNCHANGED TO!writeVars
    BY <2>1, OverlappingSteps DEF writeVars, TO!writeVars, TO!encoded, TO!io, TO!history
  <2> QED BY <2>2, <1>1, <1>2, SidesBegin, TO!SafeStep DEF WriteInv
<1>3. CASE which # "overlap"
  <2>1. Quiet!WriteNext \/ UNCHANGED writeVars
    BY <1>3 DEF Next, all, Reading, Writing, InExamples
  <2>2. HQ!WriteNext \/ UNCHANGED HQ!writeVars
    BY <2>1, QuietSteps DEF writeVars, HQ!writeVars, HQ!encoded, HQ!io, HQ!history
  <2> QED BY <2>2, <1>1, <1>3, SidesBegin, HQ!SafeStep, HQ!QuietStep DEF WriteInv
<1> QED BY <1>2, <1>3

(* In every execution. *)
THEOREM WritingInvariant == Spec => []WriteInv
BY WriteInit, WriteStep, PTL DEF Spec

(* CConnection, for any capacity and any number of writes and connections: of writes that do
   not overlap each is carried in full and in turn, and the connection is closed behind the
   write that asked for it. *)
THEOREM SpecWrittenWhole == Spec => []WrittenWhole
<1>1. WriteInv => WrittenWhole
  <2> SUFFICES ASSUME WriteInv, which = "quiet" PROVE Quiet!IntactWhenQuiet /\ Quiet!FullBeforeClose
    BY DEF WrittenWhole
  <2>1. HQ!IntactWhenQuiet /\ HQ!FullBeforeClose
    BY HQ!QuietMeans, SMTT(30) DEF WriteInv
  <2>2. HQ!IntactWhenQuiet => Quiet!IntactWhenQuiet
    BY DEF HQ!IntactWhenQuiet, Quiet!IntactWhenQuiet, HQ!Conn, Quiet!Conn, HQ!Carried, Quiet!Carried,
           HQ!Upto, Quiet!Upto, HQ!PartOf, Quiet!PartOf
  <2>3. HQ!FullBeforeClose => Quiet!FullBeforeClose
    BY DEF HQ!FullBeforeClose, Quiet!FullBeforeClose
  <2> QED BY <2>1, <2>2, <2>3
<1> QED BY <1>1, WritingInvariant, PTL

(* CConnection and CHandlerAllocator, for any capacity and any number of writes and
   connections, whether writes overlap or not: the end of a write of an old connection never
   closes the new one, the session is told of each end once, and no two handlers share the
   allocator's block. *)
THEOREM SpecOldWritesSpare == Spec => []OldWritesSpare
<1>1. WriteInv => OldWritesSpare
  <2> SUFFICES ASSUME WriteInv PROVE Overlapping!NewConnectionSpared /\ Overlapping!ToldOnce /\ Overlapping!BlockOfOne
    BY DEF OldWritesSpare
  <2>1. CASE which = "overlap"
    <3>1. TO!NewConnectionSpared /\ TO!ToldOnce /\ TO!BlockOfOne
      BY <2>1, TO!SafeMeans DEF WriteInv
    <3> QED BY <3>1
         DEF TO!NewConnectionSpared, Overlapping!NewConnectionSpared, TO!ToldOnce, Overlapping!ToldOnce,
             TO!BlockOfOne, Overlapping!BlockOfOne, TO!Outstanding, Overlapping!Outstanding, TO!Conn, Overlapping!Conn,
             TO!Cardinality, Overlapping!Cardinality
  <2>2. CASE which # "overlap"
    <3>1. HQ!NewConnectionSpared /\ HQ!ToldOnce /\ HQ!BlockOfOne
      BY <2>2, HQ!SafeMeans DEF WriteInv
    <3> QED BY <3>1
         DEF HQ!NewConnectionSpared, Overlapping!NewConnectionSpared, HQ!ToldOnce, Overlapping!ToldOnce,
             HQ!BlockOfOne, Overlapping!BlockOfOne, HQ!Outstanding, Overlapping!Outstanding, HQ!Conn, Overlapping!Conn,
             HQ!Cardinality, Overlapping!Cardinality
  <2> QED BY <2>1, <2>2
<1> QED BY <1>1, WritingInvariant, PTL
=============================================================================
