----------------------------- MODULE BasicLemmas ------------------------------
(*****************************************************************************)
(* Facts that the proofs about several modules need: what Append and Tail    *)
(* do to a list, division with a remainder, induction over the natural       *)
(* numbers, that a function defined by recursion over them exists, and what  *)
(* Sorted makes of a finite set of them.                                     *)
(*****************************************************************************)
EXTENDS Integers, Sequences, TLAPS, WellFoundedInduction, FiniteSetTheorems, Sorting

-----------------------------------------------------------------------------
(* Lists. *)

(* What Append makes of a list. *)
LEMMA AppendFacts ==
    ASSUME NEW S, NEW list \in Seq(S), NEW e \in S
    PROVE  /\ Append(list, e) \in Seq(S)
           /\ Len(Append(list, e)) = Len(list) + 1
           /\ DOMAIN Append(list, e) = 1 .. Len(list) + 1
           /\ DOMAIN list = 1 .. Len(list)
           /\ \A i \in DOMAIN list : Append(list, e)[i] = list[i]
           /\ Append(list, e)[Len(list) + 1] = e
OBVIOUS

(* What Head and Tail make of a list that is not empty. *)
LEMMA TailFacts ==
    ASSUME NEW S, NEW list \in Seq(S), list # <<>>
    PROVE  /\ Tail(list) \in Seq(S)
           /\ Head(list) \in S /\ Head(list) = list[1]
           /\ Len(list) \in Nat \ {0}
           /\ Len(Tail(list)) = Len(list) - 1
           /\ DOMAIN Tail(list) = 1 .. Len(list) - 1
           /\ DOMAIN list = 1 .. Len(list)
           /\ \A i \in DOMAIN Tail(list) : Tail(list)[i] = list[i + 1]
<1>1. Len(list) \in Nat \ {0}
  OBVIOUS
<1> QED BY <1>1

(* x is in a list; a list holds nothing twice. *)
Holds(list, x) == \E i \in DOMAIN list : list[i] = x
Distinct(list) == \A i, j \in DOMAIN list : list[i] = list[j] => i = j

(* What is in a list with one more at its end. *)
LEMMA HoldsAppend ==
    ASSUME NEW S, NEW list \in Seq(S), NEW e \in S
    PROVE  /\ \A x : Holds(Append(list, e), x) <=> Holds(list, x) \/ x = e
           /\ Distinct(list) /\ ~Holds(list, e) => Distinct(Append(list, e))
<1>1. Len(list) \in Nat
  OBVIOUS
<1>2. \A x : Holds(Append(list, e), x) <=> Holds(list, x) \/ x = e
  <2>1. ASSUME NEW x PROVE Holds(list, x) => Holds(Append(list, e), x)
    BY <1>1, AppendFacts DEF Holds
  <2>2. Holds(Append(list, e), e)
    BY <1>1, AppendFacts DEF Holds
  <2>3. ASSUME NEW x, Holds(Append(list, e), x), x # e PROVE Holds(list, x)
    BY <1>1, <2>3, AppendFacts DEF Holds
  <2> QED BY <2>1, <2>2, <2>3
<1>3. Distinct(list) /\ ~Holds(list, e) => Distinct(Append(list, e))
  BY <1>1, AppendFacts DEF Holds, Distinct
<1> QED BY <1>2, <1>3

(* What is in a list without its first. *)
LEMMA HoldsTail ==
    ASSUME NEW S, NEW list \in Seq(S), list # <<>>, Distinct(list)
    PROVE  /\ \A x : Holds(Tail(list), x) <=> Holds(list, x) /\ x # Head(list)
           /\ Holds(list, Head(list))
           /\ Distinct(Tail(list))
<1>1. ASSUME NEW x, Holds(Tail(list), x) PROVE Holds(list, x) /\ x # Head(list)
  <2>1. PICK i \in DOMAIN Tail(list) : Tail(list)[i] = x
    BY <1>1 DEF Holds
  <2>2. i + 1 \in DOMAIN list /\ list[i + 1] = x /\ i + 1 # 1 /\ 1 \in DOMAIN list
    BY <2>1, TailFacts
  <2> QED BY <2>2, TailFacts DEF Distinct, Holds
<1>2. ASSUME NEW x, Holds(list, x), x # Head(list) PROVE Holds(Tail(list), x)
  <2>1. PICK i \in DOMAIN list : list[i] = x
    BY <1>2 DEF Holds
  <2>2. i - 1 \in DOMAIN Tail(list) /\ Tail(list)[i - 1] = x
    BY <1>2, <2>1, TailFacts
  <2> QED BY <2>2 DEF Holds
<1>3. Holds(list, Head(list))
  BY TailFacts DEF Holds
<1>4. Distinct(Tail(list))
  BY TailFacts DEF Distinct
<1> QED BY <1>1, <1>2, <1>3, <1>4

(* What two lists make of each other. *)
LEMMA ConcatFacts ==
    ASSUME NEW S, NEW first \in Seq(S), NEW second \in Seq(S)
    PROVE  /\ first \o second \in Seq(S)
           /\ Len(first) \in Nat /\ Len(second) \in Nat
           /\ Len(first \o second) = Len(first) + Len(second)
           /\ DOMAIN first = 1 .. Len(first) /\ DOMAIN second = 1 .. Len(second)
           /\ DOMAIN (first \o second) = 1 .. Len(first) + Len(second)
           /\ \A i \in DOMAIN first : (first \o second)[i] = first[i]
           /\ \A i \in DOMAIN second : (first \o second)[Len(first) + i] = second[i]
           /\ \A i \in DOMAIN (first \o second) :
                i \notin DOMAIN first => /\ i - Len(first) \in DOMAIN second
                                        /\ (first \o second)[i] = second[i - Len(first)]
OBVIOUS

(* Two lists with the same in each place are one. *)
LEMMA SameList ==
    ASSUME NEW S, NEW a \in Seq(S), NEW b \in Seq(S), Len(a) = Len(b), \A i \in 1 .. Len(a) : a[i] = b[i]
    PROVE  a = b
OBVIOUS

(* Lists one behind the other, in whichever order they are put together. *)
LEMMA Assoc ==
    ASSUME NEW S, NEW a \in Seq(S), NEW b \in Seq(S), NEW c \in Seq(S)
    PROVE  a \o (b \o c) = (a \o b) \o c
<1> DEFINE ab == a \o b
           bc == b \o c
           l == a \o bc
           r == ab \o c
<1>1. /\ Len(a) \in Nat /\ Len(b) \in Nat /\ Len(c) \in Nat
      /\ DOMAIN a = 1 .. Len(a) /\ DOMAIN b = 1 .. Len(b) /\ DOMAIN c = 1 .. Len(c)
  OBVIOUS
<1>2. /\ ab \in Seq(S) /\ Len(ab) = Len(a) + Len(b) /\ DOMAIN ab = 1 .. Len(a) + Len(b)
      /\ \A i \in DOMAIN a : ab[i] = a[i]
      /\ \A i \in DOMAIN b : ab[Len(a) + i] = b[i]
  BY ConcatFacts
<1>3. /\ bc \in Seq(S) /\ Len(bc) = Len(b) + Len(c) /\ DOMAIN bc = 1 .. Len(b) + Len(c)
      /\ \A i \in DOMAIN b : bc[i] = b[i]
      /\ \A i \in DOMAIN c : bc[Len(b) + i] = c[i]
  BY ConcatFacts
<1> HIDE DEF ab, bc
<1>4. /\ l \in Seq(S) /\ Len(l) = Len(a) + Len(bc)
      /\ \A i \in DOMAIN a : l[i] = a[i]
      /\ \A i \in DOMAIN bc : l[Len(a) + i] = bc[i]
  <2>1. l \in Seq(S) /\ Len(l) = Len(a) + Len(bc)
    BY <1>3
  <2>2. \A i \in DOMAIN a : l[i] = a[i]
    BY <1>3
  <2>3. \A i \in DOMAIN bc : l[Len(a) + i] = bc[i]
    BY <1>3
  <2> QED BY <2>1, <2>2, <2>3
<1>5. /\ r \in Seq(S) /\ Len(r) = Len(ab) + Len(c)
      /\ \A i \in DOMAIN ab : r[i] = ab[i]
      /\ \A i \in DOMAIN c : r[Len(ab) + i] = c[i]
  <2>1. r \in Seq(S) /\ Len(r) = Len(ab) + Len(c)
    BY <1>2, ConcatFacts
  <2>2. \A i \in DOMAIN ab : r[i] = ab[i]
    BY <1>2
  <2>3. \A i \in DOMAIN c : r[Len(ab) + i] = c[i]
    BY <1>2
  <2> QED BY <2>1, <2>2, <2>3
<1> HIDE DEF l, r
<1>6. ASSUME NEW i \in 1 .. Len(l) PROVE l[i] = r[i]
  <2>1. CASE i <= Len(a)
    <3>1. i \in DOMAIN a /\ i \in DOMAIN ab
      BY <2>1, <1>1, <1>2
    <3> QED BY <3>1, <1>2, <1>4, <1>5
  <2>2. CASE i > Len(a) /\ i <= Len(a) + Len(b)
    <3> DEFINE j == i - Len(a)
    <3>1. j \in DOMAIN b /\ j \in DOMAIN bc /\ Len(a) + j = i /\ i \in DOMAIN ab
      BY <2>2, <1>1, <1>2, <1>3
    <3> HIDE DEF j
    <3>2. l[Len(a) + j] = bc[j] /\ bc[j] = b[j]
      BY <3>1, <1>3, <1>4
    <3>3. ab[Len(a) + j] = b[j] /\ r[i] = ab[i]
      BY <3>1, <1>2, <1>5
    <3> QED BY <3>1, <3>2, <3>3
  <2>3. CASE i > Len(a) + Len(b)
    <3> DEFINE j == i - (Len(a) + Len(b))
    <3>1. j \in DOMAIN c /\ Len(b) + j \in DOMAIN bc /\ Len(a) + (Len(b) + j) = i /\ Len(ab) + j = i
      BY <2>3, <1>1, <1>2, <1>3, <1>4
    <3> HIDE DEF j
    <3>2. l[Len(a) + (Len(b) + j)] = bc[Len(b) + j] /\ bc[Len(b) + j] = c[j]
      BY <3>1, <1>3, <1>4
    <3>3. r[Len(ab) + j] = c[j]
      BY <3>1, <1>5
    <3> QED BY <3>1, <3>2, <3>3
  <2> QED BY <2>1, <2>2, <2>3, <1>1, <1>3, <1>4
<1>7. Len(l) = Len(r)
  BY <1>1, <1>2, <1>3, <1>4, <1>5
<1>8. l = r
  BY <1>4, <1>5, <1>6, <1>7, SameList
<1> QED BY <1>8 DEF l, r, ab, bc

(* What is in two lists. *)
LEMMA HoldsConcat ==
    ASSUME NEW S, NEW first \in Seq(S), NEW second \in Seq(S)
    PROVE  /\ \A x : Holds(first \o second, x) <=> Holds(first, x) \/ Holds(second, x)
           /\ Distinct(first) /\ Distinct(second) /\ (\A x : Holds(first, x) => ~Holds(second, x))
                => Distinct(first \o second)
<1> DEFINE n == Len(first)
           both == first \o second
<1>1. /\ n \in Nat /\ Len(second) \in Nat
      /\ DOMAIN first = 1 .. n /\ DOMAIN second = 1 .. Len(second) /\ DOMAIN both = 1 .. n + Len(second)
      /\ \A i \in DOMAIN first : both[i] = first[i]
      /\ \A i \in DOMAIN second : both[n + i] = second[i]
      /\ \A i \in DOMAIN both : i \notin DOMAIN first => i - n \in DOMAIN second /\ both[i] = second[i - n]
  BY ConcatFacts
<1> HIDE DEF n, both
<1>2. /\ \A i \in DOMAIN first : i \in DOMAIN both
      /\ \A i \in DOMAIN second : n + i \in DOMAIN both
  BY <1>1
<1>3. \A x : Holds(both, x) <=> Holds(first, x) \/ Holds(second, x)
  <2>1. ASSUME NEW x, Holds(both, x) PROVE Holds(first, x) \/ Holds(second, x)
    BY <1>1, <2>1 DEF Holds
  <2>2. ASSUME NEW x, Holds(first, x) PROVE Holds(both, x)
    BY <1>1, <1>2, <2>2 DEF Holds
  <2>3. ASSUME NEW x, Holds(second, x) PROVE Holds(both, x)
    BY <1>1, <1>2, <2>3 DEF Holds
  <2> QED BY <2>1, <2>2, <2>3
<1>4. ASSUME Distinct(first), Distinct(second), \A x : Holds(first, x) => ~Holds(second, x)
      PROVE  Distinct(both)
  <2> SUFFICES ASSUME NEW i \in DOMAIN both, NEW j \in DOMAIN both, both[i] = both[j] PROVE i = j
    BY DEF Distinct
  <2>1. CASE i \in DOMAIN first /\ j \in DOMAIN first
    BY <2>1, <1>1, <1>4 DEF Distinct
  <2>2. CASE i \notin DOMAIN first /\ j \notin DOMAIN first
    <3>1. i - n = j - n
      BY <2>2, <1>1, <1>4 DEF Distinct
    <3> QED BY <3>1, <1>1
  <2>3. CASE i \in DOMAIN first /\ j \notin DOMAIN first
    <3>1. j - n \in DOMAIN second /\ second[j - n] = first[i]
      BY <2>3, <1>1
    <3> QED BY <3>1, <2>3, <1>4 DEF Holds
  <2>4. CASE i \notin DOMAIN first /\ j \in DOMAIN first
    <3>1. i - n \in DOMAIN second /\ second[i - n] = first[j]
      BY <2>4, <1>1
    <3> QED BY <3>1, <2>4, <1>4 DEF Holds
  <2> QED BY <2>1, <2>2, <2>3, <2>4
<1> QED BY <1>3, <1>4 DEF both

-----------------------------------------------------------------------------
(* Products and quotients. *)

(* A number that is given as n * a + b has quotient a and remainder b. *)
LEMMA DivideOf ==
    ASSUME NEW n \in Nat \ {0}, NEW a \in Nat, NEW b \in 0 .. n - 1
    PROVE  (n * a + b) \div n = a /\ (n * a + b) % n = b
<1>1. (n * a + b) \div n = a
  OBVIOUS
<1>2. (n * a + b) % n = b
  OBVIOUS
<1> QED BY <1>1, <1>2

(* Every number is given so. *)
LEMMA Divide ==
    ASSUME NEW n \in Nat \ {0}, NEW i \in Nat
    PROVE  \E a \in Nat, b \in 0 .. n - 1 : i = n * a + b /\ i \div n = a /\ i % n = b
<1>1. i \div n \in Nat
  OBVIOUS
<1>2. i % n \in 0 .. n - 1
  OBVIOUS
<1>3. i % n = i - n * (i \div n)
  OBVIOUS
<1>4. n * (i \div n) \in Nat /\ i % n \in Nat
  BY <1>1, <1>2
<1>5. i = n * (i \div n) + (i % n)
  BY <1>3, <1>4
<1> WITNESS i \div n \in Nat, i % n \in 0 .. n - 1
<1> QED BY <1>5

(* A product of natural numbers is one. *)
LEMMA Product == \A a, b \in Nat : a * b \in Nat
OBVIOUS

(* A quotient is rounded down. *)
LEMMA Quotient == \A a \in Nat, b \in Nat \ {0} : a \div b \in Nat /\ (a \div b) * b <= a
<1> SUFFICES ASSUME NEW a \in Nat, NEW b \in Nat \ {0} PROVE a \div b \in Nat /\ (a \div b) * b <= a
  OBVIOUS
<1>1. a \div b \in Nat /\ a = b * (a \div b) + (a % b) /\ a % b \in Nat
  OBVIOUS
<1>2. PICK q \in Nat, r \in Nat : q = a \div b /\ a = b * q + r
  BY <1>1
<1>3. b * q = q * b /\ q * b \in Nat
  OBVIOUS
<1>4. q * b <= a
  BY <1>2, <1>3
<1> QED BY <1>2, <1>4

-----------------------------------------------------------------------------
(* Induction, for sets of numbers, and recursion. *)

(* The order of the natural numbers. *)
Less == {p \in Nat \X Nat : p[1] < p[2]}

(* There is no endless descent in the natural numbers. *)
LEMMA LessWF == IsWellFoundedOn(Less, Nat)
<1>1. OpToRel(<, Nat) = Less
  BY DEF OpToRel, Less
<1> QED BY <1>1, NatLessThanWellFounded

(* A set of numbers has a least one. *)
LEMMA Least == ASSUME NEW T \in SUBSET Nat, T # {} PROVE \E x \in T : \A y \in T : x <= y
<1>1. PICK x \in T : \A y \in T : ~(<<y, x>> \in Less)
  BY LessWF, WFMin
<1>2. ASSUME NEW y \in T PROVE x <= y
  <2>1. <<y, x>> \notin Less /\ y \in Nat /\ x \in Nat
    BY <1>1
  <2>2. <<y, x>> \in Nat \X Nat /\ <<y, x>>[1] = y /\ <<y, x>>[2] = x
    BY <2>1
  <2>3. ~(y < x)
    BY <2>1, <2>2 DEF Less
  <2> QED BY <2>1, <2>3
<1> QED BY <1>2

(* Induction, with a set in the place of a predicate. *)
LEMMA Induct == ASSUME NEW S \in SUBSET Nat, 0 \in S, \A n \in S : n + 1 \in S PROVE S = Nat
<1> SUFFICES ASSUME Nat \ S # {} PROVE FALSE
  OBVIOUS
<1>1. PICK x \in Nat \ S : \A y \in Nat \ S : x <= y
  BY Least
<1>2. x # 0 /\ x - 1 \in Nat
  BY <1>1
<1>3. x - 1 \in S
  BY <1>1, <1>2
<1>4. x \in S
  BY <1>3, <1>1
<1> QED BY <1>1, <1>4

(* Induction as far as n. *)
LEMMA InductUpto ==
    ASSUME NEW n \in Nat, NEW S, 0 \in S, \A k \in 0 .. n - 1 : k \in S => k + 1 \in S
    PROVE  0 .. n \subseteq S
<1> DEFINE T == {k \in Nat : k <= n => k \in S}
<1>1. 0 \in T
  OBVIOUS
<1>2. ASSUME NEW k \in T PROVE k + 1 \in T
  OBVIOUS
<1> HIDE DEF T
<1>3. T = Nat
  <2>1. T \in SUBSET Nat
    BY DEF T
  <2> QED BY <1>1, <1>2, <2>1, Induct
<1> QED BY <1>3 DEF T

(* A set of numbers as far as n has a greatest one. *)
LEMMA Greatest ==
    ASSUME NEW n \in Nat, NEW T \in SUBSET (0 .. n), T # {}
    PROVE  \E x \in T : \A y \in T : y <= x
<1> DEFINE U == {k \in Nat : n - k \in T}
<1>1. U \in SUBSET Nat /\ U # {}
  <2>1. PICK x \in T : TRUE
    OBVIOUS
  <2>2. n - x \in Nat /\ n - (n - x) = x
    OBVIOUS
  <2>3. n - x \in U
    BY <2>2
  <2> QED BY <2>3
<1>2. PICK k \in U : \A m \in U : k <= m
  <2> HIDE DEF U
  <2> QED BY <1>1, Least
<1>3. k \in Nat /\ n - k \in T
  OBVIOUS
<1>4. ASSUME NEW y \in T PROVE y <= n - k
  <2>1. n - y \in Nat /\ n - (n - y) = y
    OBVIOUS
  <2>2. k <= n - y
    BY <2>1, <1>2
  <2> QED BY <2>2, <1>3
<1> QED BY <1>3, <1>4

(* f is defined by its first value and a step. *)
Recurs(f, D, a, step) ==
    f \in [Nat -> D] /\ f[0] = a /\ \A n \in Nat : f[n + 1] = step[<<n, f[n]>>]

(* There is a function that is defined so. *)
LEMMA Recursion ==
    ASSUME NEW D, NEW a \in D, NEW step \in [Nat \X D -> D]
    PROVE  \E f : Recurs(f, D, a, step)
<1> DEFINE Upto(n) == {g \in [0 .. n -> D] : g[0] = a /\ \A m \in 0 .. n - 1 : g[m + 1] = step[<<m, g[m]>>]}
<1>1. \A n \in Nat : Upto(n) # {}
  <2> DEFINE S == {n \in Nat : Upto(n) # {}}
  <2>1. 0 \in S
    <3>1. [m \in 0 .. 0 |-> a] \in Upto(0)
      OBVIOUS
    <3> QED BY <3>1
  <2>2. ASSUME NEW n \in S PROVE n + 1 \in S
    <3>1. n \in Nat /\ n + 1 \in Nat
      OBVIOUS
    <3>2. PICK g \in Upto(n) : TRUE
      OBVIOUS
    <3>3. g \in [0 .. n -> D] /\ g[0] = a /\ \A m \in 0 .. n - 1 : g[m + 1] = step[<<m, g[m]>>]
      BY <3>2
    <3> DEFINE h == [m \in 0 .. n + 1 |-> IF m = n + 1 THEN step[<<n, g[n]>>] ELSE g[m]]
    <3>4. step[<<n, g[n]>>] \in D
      BY <3>1, <3>3
    <3>5. h \in [0 .. n + 1 -> D]
      BY <3>1, <3>3, <3>4
    <3>6. h[0] = a
      BY <3>1, <3>3
    <3>7. ASSUME NEW m \in 0 .. (n + 1) - 1 PROVE h[m + 1] = step[<<m, h[m]>>]
      <4>1. m \in 0 .. n /\ h[m] = g[m]
        BY <3>1
      <4>2. CASE m = n
        BY <4>1, <4>2, <3>1
      <4>3. CASE m # n
        <5>1. m \in 0 .. n - 1 /\ m + 1 \in 0 .. n /\ m + 1 # n + 1
          BY <4>1, <4>3, <3>1
        <5> QED BY <5>1, <4>1, <3>1, <3>3
      <4> QED BY <4>2, <4>3
    <3>8. h \in Upto(n + 1)
      BY <3>5, <3>6, <3>7
    <3> QED BY <3>1, <3>8
  <2> HIDE DEF S
  <2>3. S = Nat
    <3>1. S \in SUBSET Nat
      BY DEF S
    <3> QED BY <2>1, <2>2, <3>1, Induct
  <2> QED BY <2>3 DEF S
<1>2. ASSUME NEW n \in Nat, NEW k \in Nat, n <= k, NEW g \in Upto(n), NEW h \in Upto(k) PROVE g[n] = h[n]
  <2> DEFINE S == {m \in Nat : m <= n => g[m] = h[m]}
  <2>1. 0 \in S
    OBVIOUS
  <2>2. ASSUME NEW m \in S PROVE m + 1 \in S
    <3> SUFFICES ASSUME m + 1 <= n PROVE g[m + 1] = h[m + 1]
      OBVIOUS
    <3>1. m \in 0 .. n - 1 /\ m \in 0 .. k - 1 /\ g[m] = h[m]
      BY <1>2
    <3> QED BY <3>1
  <2> HIDE DEF S
  <2>3. S = Nat
    <3>1. S \in SUBSET Nat
      BY DEF S
    <3> QED BY <2>1, <2>2, <3>1, Induct
  <2> QED BY <2>3 DEF S
<1> DEFINE G(n) == CHOOSE g \in Upto(n) : TRUE
           f == [n \in Nat |-> G(n)[n]]
<1>3. \A n \in Nat : G(n) \in Upto(n)
  BY <1>1
<1>4. f \in [Nat -> D]
  <2>1. ASSUME NEW n \in Nat PROVE G(n)[n] \in D
    <3>1. G(n) \in [0 .. n -> D]
      BY <1>3
    <3> HIDE DEF G
    <3> QED BY <3>1
  <2> HIDE DEF G
  <2> QED BY <2>1
<1>5. f[0] = a
  BY <1>3
<1>6. ASSUME NEW n \in Nat PROVE f[n + 1] = step[<<n, f[n]>>]
  <2> HIDE DEF G
  <2>1. G(n) \in Upto(n) /\ G(n + 1) \in Upto(n + 1) /\ n + 1 \in Nat
    BY <1>3
  <2>2. G(n + 1)[n + 1] = step[<<n, G(n + 1)[n]>>]
    BY <2>1
  <2> HIDE DEF Upto
  <2>3. G(n)[n] = G(n + 1)[n]
    BY <2>1, <1>2
  <2>4. f[n] = G(n)[n] /\ f[n + 1] = G(n + 1)[n + 1]
    BY <2>1
  <2> QED BY <2>2, <2>3, <2>4
<1>7. Recurs(f, D, a, step)
  BY <1>4, <1>5, <1>6 DEF Recurs
<1> QED BY <1>7

(* The same, as far as n. *)
RecursUpto(f, n, D, a, step) ==
    f \in [0 .. n -> D] /\ f[0] = a /\ \A k \in 0 .. n - 1 : f[k + 1] = step[<<k, f[k]>>]

(* There is one as far as n. *)
LEMMA RecursionUpto ==
    ASSUME NEW D, NEW a \in D, NEW step \in [Nat \X D -> D], NEW n \in Nat
    PROVE  \E f : RecursUpto(f, n, D, a, step)
<1>1. PICK g : Recurs(g, D, a, step)
  BY Recursion
<1>2. g \in [Nat -> D] /\ g[0] = a /\ \A k \in Nat : g[k + 1] = step[<<k, g[k]>>]
  BY <1>1 DEF Recurs
<1> DEFINE f == [k \in 0 .. n |-> g[k]]
<1>3. f \in [0 .. n -> D] /\ f[0] = a
  BY <1>2
<1>4. ASSUME NEW k \in 0 .. n - 1 PROVE f[k + 1] = step[<<k, f[k]>>]
  BY <1>2
<1>5. RecursUpto(f, n, D, a, step)
  BY <1>3, <1>4 DEF RecursUpto
<1> QED BY <1>5

-----------------------------------------------------------------------------
(* Sorting. *)

(* A list has the numbers of a set, in their order. *)
Sorts(list, set) ==
    /\ list \in [1 .. Cardinality(set) -> set]
    /\ \A x \in set : \E i \in DOMAIN list : list[i] = x
    /\ \A i, j \in DOMAIN list : i < j => list[i] < list[j]

(* Sorted is such a list if there is one. *)
LEMMA SortedSorts ==
    ASSUME NEW set, NEW list, Sorts(list, set)
    PROVE  Sorts(Sorted(set), set)
<1>1. \E l \in [1 .. Cardinality(set) -> set] :
        /\ \A x \in set : \E i \in DOMAIN l : l[i] = x
        /\ \A i, j \in DOMAIN l : i < j => l[i] < l[j]
  BY DEF Sorts
<1> QED BY <1>1, Zenon DEF Sorts, Sorted

(* The empty set has such a list. *)
LEMMA SortsNothing == Sorts(<< >>, {})
<1>1. Cardinality({}) = 0
  BY FS_EmptySet
<1>2. << >> \in [1 .. 0 -> {}]
  OBVIOUS
<1> QED BY <1>1, <1>2 DEF Sorts

(* A sorted list is one of its set, without repetition. *)
LEMMA SortsFacts ==
    ASSUME NEW set \in SUBSET Nat, IsFiniteSet(set), NEW list, Sorts(list, set)
    PROVE  /\ list \in Seq(set) /\ Len(list) = Cardinality(set) /\ Len(list) \in Nat
           /\ DOMAIN list = 1 .. Len(list)
           /\ {list[i] : i \in DOMAIN list} = set
           /\ Distinct(list)
<1>1. Cardinality(set) \in Nat
  BY FS_CardinalityType
<1>2. PICK n \in Nat : n = Cardinality(set)
  BY <1>1
<1>3. list \in [1 .. n -> set]
  BY <1>2 DEF Sorts
<1>4. list \in Seq(set) /\ Len(list) = n /\ DOMAIN list = 1 .. n
  BY <1>3
<1>5. {list[i] : i \in DOMAIN list} = set
  BY <1>3 DEF Sorts
<1>6. Distinct(list)
  <2>1. ASSUME NEW i \in DOMAIN list, NEW j \in DOMAIN list, list[i] = list[j], i # j PROVE FALSE
    <3>1. i \in 1 .. n /\ j \in 1 .. n
      BY <1>4, <2>1
    <3>3. list[i] \in set /\ list[j] \in set
      BY <1>3, <3>1
    <3>5. list[i] \in Nat /\ list[j] \in Nat
      BY <3>3
    <3>6. n \in Nat
      OBVIOUS
    <3>7. i \in Nat /\ j \in Nat
      BY <3>1, <3>6
    <3>0. i \in Nat /\ j \in Nat /\ list[i] \in Nat /\ list[j] \in Nat
      BY <3>5, <3>7
    <3>2. i < j \/ j < i
      BY <2>1, <3>0
    <3>4. list[i] < list[j] \/ list[j] < list[i]
      BY <3>2, <2>1 DEF Sorts
    <3> QED BY <3>0, <3>4, <2>1
  <2> QED BY <2>1 DEF Distinct
<1> QED BY <1>1, <1>2, <1>4, <1>5, <1>6

(* With one more address there is a sorted list again. *)
LEMMA SortsMore ==
    ASSUME NEW set \in SUBSET Nat, IsFiniteSet(set), NEW list, Sorts(list, set), NEW a \in Nat, a \notin set
    PROVE  \E l : Sorts(l, set \cup {a})
<1>0. PICK n \in Nat : n = Cardinality(set)
  BY FS_CardinalityType
<1>1. Cardinality(set \cup {a}) = n + 1
  BY <1>0, FS_AddElement
<1>2. list \in [1 .. n -> set] /\ DOMAIN list = 1 .. n
  BY <1>0 DEF Sorts
<1>3. \A i, j \in 1 .. n : i < j => list[i] < list[j]
  BY <1>2 DEF Sorts
<1>4. \A x \in set : \E i \in 1 .. n : list[i] = x
  BY <1>2 DEF Sorts
<1>5. PICK k \in 0 .. n : \A i \in 1 .. n : list[i] < a <=> i <= k
  <2> DEFINE Below == {0} \cup {i \in 1 .. n : list[i] < a}
  <2>1. Below \in SUBSET (0 .. n) /\ Below # {}
    OBVIOUS
  <2>2. PICK k \in Below : \A y \in Below : y <= k
    <3> HIDE DEF Below
    <3> QED BY <2>1, Greatest
  <2>3. ASSUME NEW i \in 1 .. n PROVE list[i] < a <=> i <= k
    <3>1. CASE list[i] < a
      BY <3>1, <2>2
    <3>2. CASE ~(list[i] < a) /\ i <= k
      <4>1. k \in 1 .. n /\ list[k] < a
        BY <3>2
      <4>2. list[i] \in Nat /\ list[k] \in Nat
        BY <4>1, <1>2
      <4>3. i = k \/ list[i] < list[k]
        BY <4>1, <3>2, <1>3
      <4> QED BY <4>1, <4>2, <4>3, <3>2
    <3> QED BY <3>1, <3>2
  <2>4. k \in 0 .. n
    OBVIOUS
  <2> QED BY <2>3, <2>4
<1> DEFINE l == [i \in 1 .. n + 1 |-> IF i <= k THEN list[i] ELSE IF i = k + 1 THEN a ELSE list[i - 1]]
<1>6. l \in [1 .. n + 1 -> set \cup {a}]
  <2>1. ASSUME NEW i \in 1 .. n + 1 PROVE (IF i <= k THEN list[i] ELSE IF i = k + 1 THEN a ELSE list[i - 1]) \in set \cup {a}
    <3>1. CASE i <= k
      BY <3>1, <1>2
    <3>2. CASE i > k + 1
      <4>1. i - 1 \in 1 .. n
        BY <3>2
      <4> QED BY <3>2, <4>1, <1>2
    <3> QED BY <3>1, <3>2
  <2> QED BY <2>1
<1>7. \A x \in set \cup {a} : \E i \in DOMAIN l : l[i] = x
  <2>1. l[k + 1] = a /\ k + 1 \in DOMAIN l
    OBVIOUS
  <2>2. ASSUME NEW x \in set PROVE \E i \in DOMAIN l : l[i] = x
    <3>1. PICK i \in 1 .. n : list[i] = x
      BY <1>4
    <3>2. CASE i <= k
      <4>1. l[i] = x /\ i \in DOMAIN l
        BY <3>1, <3>2
      <4> QED BY <4>1
    <3>3. CASE i > k
      <4>1. i + 1 \in 1 .. n + 1 /\ ~(i + 1 <= k) /\ i + 1 # k + 1 /\ (i + 1) - 1 = i
        BY <3>3
      <4>2. l[i + 1] = x /\ i + 1 \in DOMAIN l
        BY <3>1, <4>1
      <4> QED BY <4>2
    <3> QED BY <3>2, <3>3
  <2> QED BY <2>1, <2>2
<1>8. \A i, j \in DOMAIN l : i < j => l[i] < l[j]
  <2>0. \A i \in 1 .. n : list[i] \in Nat /\ list[i] # a
    BY <1>2
  <2>1. ASSUME NEW i \in 1 .. n + 1, NEW j \in 1 .. n + 1, i < j PROVE l[i] < l[j]
    <3>1. CASE j <= k
      <4>1. i \in 1 .. n /\ j \in 1 .. n /\ i <= k
        BY <3>1, <2>1
      <4>2. l[i] = list[i] /\ l[j] = list[j]
        BY <4>1, <3>1
      <4> QED BY <4>1, <4>2, <1>3, <2>1
    <3>2. CASE i <= k /\ j = k + 1
      <4>1. i \in 1 .. n
        BY <3>2
      <4>2. l[i] = list[i] /\ l[j] = a
        BY <4>1, <3>2
      <4> QED BY <4>1, <4>2, <1>5, <3>2
    <3>3. CASE i <= k /\ j > k + 1
      <4>1. i \in 1 .. n /\ j - 1 \in 1 .. n /\ i < j - 1
        BY <3>3
      <4>2. l[i] = list[i] /\ l[j] = list[j - 1]
        BY <4>1, <3>3
      <4> QED BY <4>1, <4>2, <1>3
    <3>4. CASE i = k + 1
      <4>1. j - 1 \in 1 .. n /\ ~(j - 1 <= k)
        BY <3>4, <2>1
      <4>2. l[i] = a /\ l[j] = list[j - 1]
        BY <4>1, <3>4, <2>1
      <4>3. ~(list[j - 1] < a) /\ list[j - 1] # a /\ list[j - 1] \in Nat
        BY <4>1, <1>5, <2>0
      <4> QED BY <4>2, <4>3
    <3>5. CASE i > k + 1
      <4>1. i - 1 \in 1 .. n /\ j - 1 \in 1 .. n /\ i - 1 < j - 1
        BY <3>5, <2>1
      <4>2. l[i] = list[i - 1] /\ l[j] = list[j - 1]
        BY <4>1, <3>5, <2>1
      <4> QED BY <4>1, <4>2, <1>3
    <3> QED BY <3>1, <3>2, <3>3, <3>4, <3>5, <2>1
  <2>2. DOMAIN l = 1 .. n + 1
    OBVIOUS
  <2> HIDE DEF l
  <2> QED BY <2>1, <2>2
<1>9. Sorts(l, set \cup {a})
  <2> HIDE DEF l
  <2> QED BY <1>1, <1>6, <1>7, <1>8 DEF Sorts
<1> QED BY <1>9

(* Every finite set of numbers has a sorted list. *)
LEMMA SortsExists ==
    ASSUME NEW n \in Nat, NEW set \in SUBSET (0 .. n - 1)
    PROVE  Sorts(Sorted(set), set) /\ IsFiniteSet(set)
<1> DEFINE T == {k \in Nat : \A S \in SUBSET (0 .. k - 1) : IsFiniteSet(S) /\ \E l : Sorts(l, S)}
<1>1. 0 \in T
  <2>1. ASSUME NEW S \in SUBSET (0 .. 0 - 1) PROVE IsFiniteSet(S) /\ \E l : Sorts(l, S)
    <3>1. S = {}
      OBVIOUS
    <3> QED BY <3>1, SortsNothing, FS_EmptySet
  <2> QED BY <2>1
<1>2. ASSUME NEW k \in T PROVE k + 1 \in T
  <2>0. k \in Nat /\ \A S \in SUBSET (0 .. k - 1) : IsFiniteSet(S) /\ \E l : Sorts(l, S)
    OBVIOUS
  <2>1. ASSUME NEW S \in SUBSET (0 .. (k + 1) - 1) PROVE IsFiniteSet(S) /\ \E l : Sorts(l, S)
    <3> DEFINE R == S \ {k}
    <3>1. R \in SUBSET (0 .. k - 1) /\ R \in SUBSET Nat /\ k \notin R
      BY <2>0, <2>1
    <3>2. IsFiniteSet(R) /\ \E l : Sorts(l, R)
      BY <2>0, <3>1
    <3>3. S = R \/ S = R \cup {k}
      OBVIOUS
    <3> HIDE DEF R
    <3>4. \E l : Sorts(l, R \cup {k})
      BY <2>0, <3>1, <3>2, SortsMore
    <3>5. IsFiniteSet(R \cup {k})
      BY <3>2, FS_AddElement
    <3> QED BY <3>2, <3>3, <3>4, <3>5
  <2> QED BY <2>0, <2>1
<1>3. T = Nat
  <2>1. T \in SUBSET Nat
    OBVIOUS
  <2> HIDE DEF T
  <2> QED BY <1>1, <1>2, <2>1, Induct
<1>4. IsFiniteSet(set) /\ \E l : Sorts(l, set)
  BY <1>3
<1> QED BY <1>4, SortedSorts
=============================================================================
