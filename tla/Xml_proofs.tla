----------------------------- MODULE Xml_proofs -----------------------------
(***************************************************************************)
(* Proofs about tinyxml2.                                                  *)
(*                                                                         *)
(* The nodes of an XMLDocument (XmlNodes), for any nodes, names and values *)
(* of attributes: whatever calls the program makes, the lists of children, *)
(* the lookups, the pools, the attributes and the copies are in order      *)
(* (NodesSound).  The invariant is Sound: for every list there are places, *)
(* of which the links say the same.                                        *)
(*                                                                         *)
(* Character references and typed values (XmlChars, XmlValues), for ints   *)
(* of any width, any texts and numbers of as many digits as 32 bits hold   *)
(* (ValuesKept).  The invariants are CharsInv, the form of a reference,    *)
(* and ValuesInv: what was written last is what is there.                  *)
(***************************************************************************)
EXTENDS XmlNodes, XmlValues, BasicLemmas
-----------------------------------------------------------------------------
(* Lists of children. First: what the links say about them. *)

(* A node or none; and what a document is made of. *)
Node0 == Nodes \cup {Null}
Doms ==
    [parent : [Nodes -> Containers \cup {Null}], first : [Containers -> Node0], last : [Containers -> Node0],
     prev : [Nodes -> Node0], next : [Nodes -> Node0],
     attrs : [Elements -> Seq([name : Names, value : Values])], alive : SUBSET Nodes,
     current : [Pools -> Int], untracked : [Pools -> Int], error : BOOLEAN, failures : Nat]

(* The children of p stand at the places 1 to size[p] of at[p], with nothing in front and behind;
   index is where each node stands. *)
Places(size, at, index) ==
    /\ size \in [Containers -> Nat] /\ at \in [Containers -> [Int -> Node0]] /\ index \in [Nodes -> Int]
    /\ \A p \in Containers, i \in Int : at[p][i] \in Nodes <=> i \in 1 .. size[p]

(* The fields of the nodes say the same. *)
Linked(d, size, at, index) ==
    /\ \A p \in Containers : d.first[p] = at[p][1] /\ d.last[p] = at[p][size[p]]
    /\ \A p \in Containers : \A i \in 1 .. size[p] :
          /\ d.parent[at[p][i]] = p /\ index[at[p][i]] = i
          /\ d.prev[at[p][i]] = at[p][i - 1] /\ d.next[at[p][i]] = at[p][i + 1]
    /\ \A n \in Nodes : d.parent[n] # Null =>
          index[n] \in 1 .. size[d.parent[n]] /\ at[d.parent[n]][index[n]] = n

(* There are such places. *)
Listed(d) == \E size, at, index : Places(size, at, index) /\ Linked(d, size, at, index)

(* Only links differ. *)
SameRest(d, e) ==
    /\ e \in Doms
    /\ e.attrs = d.attrs /\ e.alive = d.alive /\ e.current = d.current
    /\ e.untracked = d.untracked /\ e.error = d.error /\ e.failures = d.failures

(* A list from which c was taken reads as the others do: what stood around it is linked. *)
LEMMA Cut ==
    ASSUME NEW d \in Doms, NEW e \in Doms, NEW c \in Nodes, NEW p \in Containers, d.parent[c] = p,
           NEW size, NEW at, NEW index, Places(size, at, index), Linked(d, size, at, index),
           \A n \in Nodes :
               /\ e.parent[n] = IF n = c THEN Null ELSE d.parent[n]
               /\ n # c => e.next[n] = (IF n = d.prev[c] THEN d.next[c] ELSE d.next[n])
               /\ n # c => e.prev[n] = (IF n = d.next[c] THEN d.prev[c] ELSE d.prev[n]),
           \A q \in Containers :
               /\ e.first[q] = IF q = p /\ d.first[q] = c THEN d.next[c] ELSE d.first[q]
               /\ e.last[q] = IF q = p /\ d.last[q] = c THEN d.prev[c] ELSE d.last[q]
    PROVE  Listed(e)
<1> DEFINE k == index[c]
           size1 == [size EXCEPT ![p] = @ - 1]
           at1 == [at EXCEPT ![p] = [i \in Int |-> IF i < k THEN at[p][i] ELSE at[p][i + 1]]]
           index1 == [n \in Nodes |-> IF d.parent[n] = p /\ index[n] > k THEN index[n] - 1 ELSE index[n]]
<1>0. /\ p # Null /\ Null \notin Nodes /\ Null \notin Containers
  BY DistinctAssumption DEF Nodes, Containers
<1>1. k \in 1 .. size[p] /\ at[p][k] = c /\ size[p] \in Nat /\ k \in Int
  BY <1>0 DEF Linked, Places
<1>2. d.prev[c] = at[p][k - 1] /\ d.next[c] = at[p][k + 1]
  BY <1>1 DEF Linked
<1>3. Places(size1, at1, index1)
  <2>1. size1 \in [Containers -> Nat] /\ index1 \in [Nodes -> Int]
    BY <1>1 DEF Places
  <2>2. at1 \in [Containers -> [Int -> Node0]]
    BY <1>1 DEF Places
  <2>3. ASSUME NEW q \in Containers, NEW i \in Int PROVE at1[q][i] \in Nodes <=> i \in 1 .. size1[q]
    <3>1. CASE q # p
      BY <3>1 DEF Places
    <3>2. CASE q = p
      <4>1. at1[q][i] = (IF i < k THEN at[p][i] ELSE at[p][i + 1]) /\ size1[q] = size[p] - 1
        BY <3>2 DEF Places
      <4>2. (at[p][i] \in Nodes <=> i \in 1 .. size[p]) /\ (at[p][i + 1] \in Nodes <=> i + 1 \in 1 .. size[p])
        BY DEF Places
      <4> QED
        BY <4>1, <4>2, <1>1
    <3> QED
      BY <3>1, <3>2
  <2> QED
    BY <2>1, <2>2, <2>3 DEF Places
<1>4. /\ \A q \in Containers : size1[q] = IF q = p THEN size[p] - 1 ELSE size[q]
      /\ \A i \in Int : at1[p][i] = IF i < k THEN at[p][i] ELSE at[p][i + 1]
      /\ \A q \in Containers : q # p => at1[q] = at[q]
      /\ \A n \in Nodes : index1[n] = IF d.parent[n] = p /\ index[n] > k THEN index[n] - 1 ELSE index[n]
  BY DEF Places
<1> HIDE DEF size1, at1, index1
<1>5a. ASSUME NEW q \in Containers, NEW i \in 1 .. size[q]
       PROVE  /\ at[q][i] \in Nodes /\ d.parent[at[q][i]] = q /\ index[at[q][i]] = i
              /\ d.prev[at[q][i]] = at[q][i - 1] /\ d.next[at[q][i]] = at[q][i + 1]
              /\ size[q] \in Nat
  BY DEF Linked, Places
<1>5. ASSUME NEW q \in Containers PROVE e.first[q] = at1[q][1] /\ e.last[q] = at1[q][size1[q]]
  <2>1. e.first[q] = (IF q = p /\ d.first[q] = c THEN d.next[c] ELSE d.first[q])
        /\ e.last[q] = (IF q = p /\ d.last[q] = c THEN d.prev[c] ELSE d.last[q])
        /\ d.first[q] = at[q][1] /\ d.last[q] = at[q][size[q]]
    BY DEF Linked
  <2>2. CASE q = p
    <3>1. at[p][1] = c <=> k = 1
      BY <1>1, <1>5a
    <3>2. at[p][size[p]] = c <=> k = size[p]
      BY <1>1, <1>5a
    <3> QED
      BY <1>1, <1>2, <1>4, <2>1, <2>2, <3>1, <3>2
  <2>3. CASE q # p
    BY <1>4, <2>1, <2>3
  <2> QED
    BY <2>2, <2>3
<1>6. ASSUME NEW q \in Containers, NEW i \in 1 .. size1[q]
      PROVE  /\ e.parent[at1[q][i]] = q /\ index1[at1[q][i]] = i
             /\ e.prev[at1[q][i]] = at1[q][i - 1] /\ e.next[at1[q][i]] = at1[q][i + 1]
  <2> DEFINE j == IF q = p /\ i >= k THEN i + 1 ELSE i
             m == at[q][j]
  <2>1. j \in 1 .. size[q] /\ (q = p => j # k) /\ at1[q][i] = m /\ i \in Int /\ size[q] \in Nat
    BY <1>1, <1>4 DEF Places
  <2>2. m \in Nodes /\ d.parent[m] = q /\ index[m] = j /\ d.prev[m] = at[q][j - 1] /\ d.next[m] = at[q][j + 1]
    BY <1>5a, <2>1
  <2>3. m # c
    BY <1>1, <2>1, <2>2
  <2>4. e.parent[m] = q /\ e.next[m] = (IF m = at[p][k - 1] THEN at[p][k + 1] ELSE at[q][j + 1])
        /\ e.prev[m] = (IF m = at[p][k + 1] THEN at[p][k - 1] ELSE at[q][j - 1])
    BY <1>2, <2>2, <2>3
  <2>5. m = at[p][k - 1] <=> q = p /\ j = k - 1
    <3>1. CASE k - 1 \in 1 .. size[p]
      BY <1>5a, <2>2, <3>1
    <3>2. CASE k - 1 \notin 1 .. size[p]
      <4>1. at[p][k - 1] \notin Nodes
        BY <1>1, <3>2 DEF Places
      <4> QED
        BY <1>1, <2>1, <2>2, <3>2, <4>1
    <3> QED
      BY <3>1, <3>2
  <2>6. m = at[p][k + 1] <=> q = p /\ j = k + 1
    <3>1. CASE k + 1 \in 1 .. size[p]
      BY <1>5a, <2>2, <3>1
    <3>2. CASE k + 1 \notin 1 .. size[p]
      <4>1. at[p][k + 1] \notin Nodes
        BY <1>1, <3>2 DEF Places
      <4> QED
        BY <1>1, <2>1, <2>2, <3>2, <4>1
    <3> QED
      BY <3>1, <3>2
  <2>7. index1[m] = i
    BY <1>1, <1>4, <2>1, <2>2
  <2>8. CASE q # p
    BY <1>4, <2>1, <2>4, <2>5, <2>6, <2>7, <2>8
  <2>9. CASE q = p
    <3>1. at1[p][i - 1] = (IF i - 1 < k THEN at[p][i - 1] ELSE at[p][i])
          /\ at1[p][i + 1] = (IF i + 1 < k THEN at[p][i + 1] ELSE at[p][i + 2])
      BY <1>4, <2>1
    <3>2. at1[p][i - 1] = IF j = k + 1 THEN at[p][k - 1] ELSE at[p][j - 1]
      BY <1>1, <2>1, <2>9, <3>1
    <3>3. at1[p][i + 1] = IF j = k - 1 THEN at[p][k + 1] ELSE at[p][j + 1]
      BY <1>1, <2>1, <2>9, <3>1
    <3> HIDE DEF m, j
    <3> QED
      BY <2>1, <2>4, <2>5, <2>6, <2>7, <2>9, <3>2, <3>3
  <2> QED
    BY <2>8, <2>9
<1>7. ASSUME NEW n \in Nodes, e.parent[n] # Null
      PROVE  index1[n] \in 1 .. size1[e.parent[n]] /\ at1[e.parent[n]][index1[n]] = n
  <2> DEFINE q == d.parent[n]
  <2>1. n # c /\ e.parent[n] = q /\ q \in Containers
    BY <1>7 DEF Doms
  <2>2. index[n] \in 1 .. size[q] /\ at[q][index[n]] = n /\ size[q] \in Nat /\ index[n] \in Int
    BY <1>7, <2>1 DEF Linked, Places
  <2>3. q = p => index[n] # k
    BY <1>1, <2>1, <2>2
  <2> HIDE DEF q
  <2>4. CASE q # p
    BY <1>4, <2>1, <2>2, <2>4 DEF q
  <2>5. CASE q = p
    <3>1. index1[n] = IF index[n] > k THEN index[n] - 1 ELSE index[n]
      BY <1>4, <2>5 DEF q
    <3> QED
      BY <1>1, <1>4, <2>1, <2>2, <2>3, <2>5, <3>1
  <2> QED
    BY <2>4, <2>5
<1> QED
  BY <1>3, <1>5, <1>6, <1>7 DEF Listed, Linked

(* So does one that c was put into, at place k, when both of its neighbours know of it. *)
LEMMA Splice ==
    ASSUME NEW d \in Doms, NEW e \in Doms, NEW c \in Nodes, NEW p \in Containers, d.parent[c] = Null,
           NEW size, NEW at, NEW index, Places(size, at, index), Linked(d, size, at, index),
           NEW k \in 1 .. size[p] + 1,
           \A n \in Nodes :
               /\ e.parent[n] = IF n = c THEN p ELSE d.parent[n]
               /\ e.next[n] = IF n = c THEN at[p][k] ELSE IF n = at[p][k - 1] THEN c ELSE d.next[n]
               /\ e.prev[n] = IF n = c THEN at[p][k - 1] ELSE IF n = at[p][k] THEN c ELSE d.prev[n],
           \A q \in Containers :
               /\ e.first[q] = IF q = p /\ at[p][k - 1] = Null THEN c ELSE d.first[q]
               /\ e.last[q] = IF q = p /\ at[p][k] = Null THEN c ELSE d.last[q]
    PROVE  Listed(e)
<1> DEFINE size1 == [size EXCEPT ![p] = @ + 1]
           at1 == [at EXCEPT ![p] = [i \in Int |-> IF i < k THEN at[p][i] ELSE IF i = k THEN c ELSE at[p][i - 1]]]
           index1 == [n \in Nodes |-> IF n = c THEN k ELSE IF d.parent[n] = p /\ index[n] >= k THEN index[n] + 1 ELSE index[n]]
<1>0. /\ p # Null /\ Null \notin Nodes /\ Null \notin Containers /\ c # Null
  BY DistinctAssumption DEF Nodes, Containers
<1>1. size[p] \in Nat /\ k \in Int /\ k \in 1 .. size[p] + 1
  BY DEF Places
<1>3. Places(size1, at1, index1)
  <2>1. size1 \in [Containers -> Nat] /\ index1 \in [Nodes -> Int]
    BY <1>1 DEF Places
  <2>2. at1 \in [Containers -> [Int -> Node0]]
    BY <1>1 DEF Places, Node0
  <2>3. ASSUME NEW q \in Containers, NEW i \in Int PROVE at1[q][i] \in Nodes <=> i \in 1 .. size1[q]
    <3>1. CASE q # p
      BY <3>1 DEF Places
    <3>2. CASE q = p
      <4>1. at1[q][i] = (IF i < k THEN at[p][i] ELSE IF i = k THEN c ELSE at[p][i - 1]) /\ size1[q] = size[p] + 1
        BY <3>2 DEF Places
      <4>2. (at[p][i] \in Nodes <=> i \in 1 .. size[p]) /\ (at[p][i - 1] \in Nodes <=> i - 1 \in 1 .. size[p])
        BY DEF Places
      <4> QED
        BY <4>1, <4>2, <1>1
    <3> QED
      BY <3>1, <3>2
  <2> QED
    BY <2>1, <2>2, <2>3 DEF Places
<1>4. /\ \A q \in Containers : size1[q] = IF q = p THEN size[p] + 1 ELSE size[q]
      /\ \A i \in Int : at1[p][i] = IF i < k THEN at[p][i] ELSE IF i = k THEN c ELSE at[p][i - 1]
      /\ \A q \in Containers : q # p => at1[q] = at[q]
      /\ \A n \in Nodes : index1[n] = IF n = c THEN k ELSE IF d.parent[n] = p /\ index[n] >= k THEN index[n] + 1 ELSE index[n]
  BY DEF Places
<1> HIDE DEF size1, at1, index1
<1>5a. ASSUME NEW q \in Containers, NEW i \in 1 .. size[q]
       PROVE  /\ at[q][i] \in Nodes /\ d.parent[at[q][i]] = q /\ index[at[q][i]] = i
              /\ d.prev[at[q][i]] = at[q][i - 1] /\ d.next[at[q][i]] = at[q][i + 1]
              /\ size[q] \in Nat
  BY DEF Linked, Places
<1>5b. ASSUME NEW i \in Int PROVE at[p][i] = Null <=> i \notin 1 .. size[p]
  BY <1>0 DEF Places, Node0
<1>5. ASSUME NEW q \in Containers PROVE e.first[q] = at1[q][1] /\ e.last[q] = at1[q][size1[q]]
  <2>1. e.first[q] = (IF q = p /\ at[p][k - 1] = Null THEN c ELSE d.first[q])
        /\ e.last[q] = (IF q = p /\ at[p][k] = Null THEN c ELSE d.last[q])
        /\ d.first[q] = at[q][1] /\ d.last[q] = at[q][size[q]]
    BY DEF Linked
  <2>2. CASE q = p
    <3>1. at[p][k - 1] = Null <=> k = 1
      BY <1>1, <1>5b
    <3>2. at[p][k] = Null <=> k = size[p] + 1
      BY <1>1, <1>5b
    <3> QED
      BY <1>1, <1>4, <2>1, <2>2, <3>1, <3>2
  <2>3. CASE q # p
    BY <1>4, <2>1, <2>3
  <2> QED
    BY <2>2, <2>3
<1>6. ASSUME NEW q \in Containers, NEW i \in 1 .. size1[q]
      PROVE  /\ e.parent[at1[q][i]] = q /\ index1[at1[q][i]] = i
             /\ e.prev[at1[q][i]] = at1[q][i - 1] /\ e.next[at1[q][i]] = at1[q][i + 1]
  <2>0. CASE q = p /\ i = k
    BY <1>1, <1>4, <2>0
  <2>a. CASE ~(q = p /\ i = k)
    <3> DEFINE j == IF q = p /\ i > k THEN i - 1 ELSE i
               m == at[q][j]
    <3>1. j \in 1 .. size[q] /\ at1[q][i] = m /\ i \in Int /\ size[q] \in Nat
      BY <1>1, <1>4, <2>a DEF Places
    <3>2. m \in Nodes /\ d.parent[m] = q /\ index[m] = j /\ d.prev[m] = at[q][j - 1] /\ d.next[m] = at[q][j + 1]
      BY <1>5a, <3>1
    <3>3. m # c
      BY <1>0, <3>2
    <3>4. e.parent[m] = q /\ e.next[m] = (IF m = at[p][k - 1] THEN c ELSE at[q][j + 1])
          /\ e.prev[m] = (IF m = at[p][k] THEN c ELSE at[q][j - 1])
      BY <3>2, <3>3
    <3>5. m = at[p][k - 1] <=> q = p /\ j = k - 1
      <4>1. CASE k - 1 \in 1 .. size[p]
        BY <1>5a, <3>2, <4>1
      <4>2. CASE k - 1 \notin 1 .. size[p]
        BY <1>0, <1>1, <1>5b, <3>1, <3>2, <4>2
      <4> QED
        BY <4>1, <4>2
    <3>6. m = at[p][k] <=> q = p /\ j = k
      <4>1. CASE k \in 1 .. size[p]
        BY <1>5a, <3>2, <4>1
      <4>2. CASE k \notin 1 .. size[p]
        BY <1>0, <1>1, <1>5b, <3>1, <3>2, <4>2
      <4> QED
        BY <4>1, <4>2
    <3>7. index1[m] = i
      BY <1>1, <1>4, <2>a, <3>1, <3>2, <3>3
    <3>8. CASE q # p
      BY <1>4, <3>1, <3>4, <3>5, <3>6, <3>7, <3>8
    <3>9. CASE q = p
      <4>2. at1[p][i - 1] = IF j = k THEN c ELSE at[p][j - 1]
        BY <1>1, <1>4, <2>a, <3>1, <3>9
      <4>3. at1[p][i + 1] = IF j = k - 1 THEN c ELSE at[p][j + 1]
        BY <1>1, <1>4, <2>a, <3>1, <3>9
      <4> HIDE DEF m, j
      <4> QED
        BY <3>1, <3>4, <3>5, <3>6, <3>7, <3>9, <4>2, <4>3
    <3> QED
      BY <3>8, <3>9
  <2> QED
    BY <2>0, <2>a
<1>7. ASSUME NEW n \in Nodes, e.parent[n] # Null
      PROVE  index1[n] \in 1 .. size1[e.parent[n]] /\ at1[e.parent[n]][index1[n]] = n
  <2>0. CASE n = c
    BY <1>1, <1>4, <2>0
  <2>a. CASE n # c
    <3> DEFINE q == d.parent[n]
    <3>1. e.parent[n] = q /\ q \in Containers
      BY <1>7, <2>a DEF Doms
    <3>2. index[n] \in 1 .. size[q] /\ at[q][index[n]] = n /\ size[q] \in Nat /\ index[n] \in Int
      BY <1>7, <3>1 DEF Linked, Places
    <3> HIDE DEF q
    <3>4. CASE q # p
      BY <1>4, <2>a, <3>1, <3>2, <3>4 DEF q
    <3>5. CASE q = p
      <4>1. index1[n] = IF index[n] >= k THEN index[n] + 1 ELSE index[n]
        BY <1>4, <2>a, <3>5 DEF q
      <4> QED
        BY <1>1, <1>4, <3>1, <3>2, <3>5, <4>1
    <3> QED
      BY <3>4, <3>5
  <2> QED
    BY <2>0, <2>a
<1> QED
  BY <1>3, <1>5, <1>6, <1>7 DEF Listed, Linked

(* What Unlink writes. *)
LEMMA UnlinkFields ==
    ASSUME NEW d \in Doms, NEW p \in Containers, NEW c \in Nodes
    PROVE  LET e == Unlink(d, p, c) IN
           /\ SameRest(d, e)
           /\ \A n \in Nodes :
                  /\ e.parent[n] = IF n = c THEN Null ELSE d.parent[n]
                  /\ e.next[n] = (IF n = d.prev[c] THEN d.next[c] ELSE d.next[n])
                  /\ e.prev[n] = (IF n = d.next[c] THEN d.prev[c] ELSE d.prev[n])
           /\ \A q \in Containers :
                  /\ e.first[q] = IF q = p /\ d.first[q] = c THEN d.next[c] ELSE d.first[q]
                  /\ e.last[q] = IF q = p /\ d.last[q] = c THEN d.prev[c] ELSE d.last[q]
<1> DEFINE a == [d EXCEPT !.first[p] = IF @ = c THEN d.next[c] ELSE @,
                          !.last[p]  = IF @ = c THEN d.prev[c] ELSE @]
           b == IF d.prev[c] = Null THEN a ELSE [a EXCEPT !.next[d.prev[c]] = d.next[c]]
           f == IF d.next[c] = Null THEN b ELSE [b EXCEPT !.prev[d.next[c]] = d.prev[c]]
           e == [f EXCEPT !.parent[c] = Null]
<1>0. Null \notin Nodes
  BY DistinctAssumption DEF Nodes
<1>a. d.prev[c] \in Node0 /\ d.next[c] \in Node0 /\ \A x \in Node0 : x = Null \/ x \in Nodes
  BY DEF Doms, Node0
<1>1. a \in Doms
  BY DEF Doms, Node0
<1>5. a.first = [d.first EXCEPT ![p] = IF @ = c THEN d.next[c] ELSE @]
      /\ a.last = [d.last EXCEPT ![p] = IF @ = c THEN d.prev[c] ELSE @]
      /\ a.next = d.next /\ a.prev = d.prev /\ a.parent = d.parent
      /\ a.attrs = d.attrs /\ a.alive = d.alive /\ a.current = d.current
      /\ a.untracked = d.untracked /\ a.error = d.error /\ a.failures = d.failures
  BY DEF Doms
<1> HIDE DEF a
<1>2. b \in Doms
  BY <1>1, <1>a DEF Doms
<1>6. b.next = (IF d.prev[c] = Null THEN d.next ELSE [d.next EXCEPT ![d.prev[c]] = d.next[c]])
      /\ b.first = a.first /\ b.last = a.last /\ b.prev = d.prev /\ b.parent = d.parent
      /\ b.attrs = d.attrs /\ b.alive = d.alive /\ b.current = d.current
      /\ b.untracked = d.untracked /\ b.error = d.error /\ b.failures = d.failures
  BY <1>1, <1>5 DEF Doms
<1> HIDE DEF b
<1>3. f \in Doms
  BY <1>2, <1>a DEF Doms
<1>7. f.prev = (IF d.next[c] = Null THEN d.prev ELSE [d.prev EXCEPT ![d.next[c]] = d.prev[c]])
      /\ f.first = a.first /\ f.last = a.last /\ f.next = b.next /\ f.parent = d.parent
      /\ f.attrs = d.attrs /\ f.alive = d.alive /\ f.current = d.current
      /\ f.untracked = d.untracked /\ f.error = d.error /\ f.failures = d.failures
  BY <1>2, <1>6 DEF Doms
<1> HIDE DEF f
<1>4. e \in Doms
  BY <1>3 DEF Doms
<1>8. e.parent = [d.parent EXCEPT ![c] = Null] /\ e.prev = f.prev /\ e.next = b.next
      /\ e.first = a.first /\ e.last = a.last
      /\ e.attrs = d.attrs /\ e.alive = d.alive /\ e.current = d.current
      /\ e.untracked = d.untracked /\ e.error = d.error /\ e.failures = d.failures
  BY <1>3, <1>7 DEF Doms
<1>9. e = Unlink(d, p, c)
  BY DEF Unlink, a, b, f
<1> HIDE DEF e
<1>10. \A n \in Nodes : e.parent[n] = IF n = c THEN Null ELSE d.parent[n]
  BY <1>8 DEF Doms
<1>11. \A n \in Nodes :
                  /\ e.next[n] = (IF n = d.prev[c] THEN d.next[c] ELSE d.next[n])
                  /\ e.prev[n] = (IF n = d.next[c] THEN d.prev[c] ELSE d.prev[n])
  BY <1>0, <1>6, <1>7, <1>8 DEF Doms
<1>12. \A q \in Containers :
                  /\ e.first[q] = (IF q = p /\ d.first[q] = c THEN d.next[c] ELSE d.first[q])
                  /\ e.last[q] = (IF q = p /\ d.last[q] = c THEN d.prev[c] ELSE d.last[q])
  BY <1>5, <1>8 DEF Doms
<1> QED
  BY <1>4, <1>8, <1>9, <1>10, <1>11, <1>12, ZenonT(30) DEF SameRest

(* A node that is in a list may be unlinked. *)
LEMMA UnlinkLists ==
    ASSUME NEW d \in Doms, Listed(d), NEW c \in Nodes, d.parent[c] # Null
    PROVE  Listed(Unlink(d, d.parent[c], c))
<1> DEFINE p == d.parent[c]
<1>1. p \in Containers
  BY DEF Doms
<1>2. PICK size, at, index : Places(size, at, index) /\ Linked(d, size, at, index)
  BY DEF Listed
<1> QED
  BY <1>1, <1>2, UnlinkFields, Cut DEF SameRest

(* A node without a parent has no siblings. *)
Parted(d) == \A n \in Nodes : d.parent[n] = Null => d.prev[n] = Null /\ d.next[n] = Null

(* Only links and the untracked nodes differ. *)
Alike(d, e) ==
    /\ e.attrs = d.attrs /\ e.alive = d.alive /\ e.current = d.current
    /\ e.error = d.error /\ e.failures = d.failures

(* What SetTracked writes. *)
LEMMA TrackedFields ==
    ASSUME NEW d \in Doms, NEW pool \in Pools
    PROVE  LET e == SetTracked(d, pool) IN
           /\ e \in Doms /\ Alike(d, e)
           /\ e.parent = d.parent /\ e.prev = d.prev /\ e.next = d.next /\ e.first = d.first /\ e.last = d.last
           /\ e.untracked = [d.untracked EXCEPT ![pool] = @ - 1]
<1> DEFINE e == SetTracked(d, pool)
<1>1. e = [d EXCEPT !.untracked = [d.untracked EXCEPT ![pool] = @ - 1]]
  BY DEF SetTracked
<1>2. [d.untracked EXCEPT ![pool] = @ - 1] \in [Pools -> Int]
  BY DEF Doms
<1> QED
  BY <1>1, <1>2 DEF Doms, Alike

(* A node is of one of the pools. *)
LEMMA PoolOfPools == \A n : PoolOf(n) \in Pools
BY DEF PoolOf, Pools

(* Lists are made of five fields. *)
LEMMA SameLists ==
    ASSUME NEW d, NEW e, Listed(d),
           e.parent = d.parent, e.prev = d.prev, e.next = d.next, e.first = d.first, e.last = d.last
    PROVE  Listed(e)
BY DEF Listed, Linked

(* What is untracked when c is taken. *)
Away(d, c) == IF d.parent[c] = Null THEN [d.untracked EXCEPT ![PoolOf(c)] = @ - 1] ELSE d.untracked

(* Before a node is inserted it is in no list, and the lists without it are in order. *)
LEMMA TakenFields ==
    ASSUME NEW d \in Doms, Listed(d), Parted(d), NEW c \in Nodes
    PROVE  LET u == Taken(d, c) IN
           /\ u \in Doms /\ Alike(d, u) /\ Listed(u)
           /\ \A n \in Nodes : u.parent[n] = IF n = c THEN Null ELSE d.parent[n]
           /\ \A n \in Nodes : n # c /\ u.parent[n] = Null => u.prev[n] = Null /\ u.next[n] = Null
           /\ u.untracked = Away(d, c)
<1> DEFINE u == Taken(d, c)
<1>1. CASE d.parent[c] = Null
  <2>1. u = SetTracked(d, PoolOf(c))
    BY <1>1 DEF Taken
  <2>2. /\ u \in Doms /\ Alike(d, u)
        /\ u.parent = d.parent /\ u.prev = d.prev /\ u.next = d.next /\ u.first = d.first /\ u.last = d.last
        /\ u.untracked = [d.untracked EXCEPT ![PoolOf(c)] = @ - 1]
    BY <2>1, TrackedFields, PoolOfPools
  <2>3. Listed(u)
    BY <2>2, SameLists
  <2> QED
    BY <1>1, <2>2, <2>3 DEF Away, Parted
<1>2. CASE d.parent[c] # Null
  <2> DEFINE p == d.parent[c]
  <2>0. p \in Containers
    BY <1>2 DEF Doms
  <2>1. u = Unlink(d, p, c)
    BY <1>2 DEF Taken
  <2>2. Listed(u)
    BY <1>2, <2>1, UnlinkLists
  <2>3. SameRest(d, u) /\ \A n \in Nodes :
                  /\ u.parent[n] = IF n = c THEN Null ELSE d.parent[n]
                  /\ u.next[n] = (IF n = d.prev[c] THEN d.next[c] ELSE d.next[n])
                  /\ u.prev[n] = (IF n = d.next[c] THEN d.prev[c] ELSE d.prev[n])
    BY <2>0, <2>1, UnlinkFields
  <2>4. \A n \in Nodes : n = d.prev[c] \/ n = d.next[c] => d.parent[n] # Null
    <3>1. PICK size, at, index : Places(size, at, index) /\ Linked(d, size, at, index)
      BY DEF Listed
    <3>2. LET i == index[c] IN i \in 1 .. size[p] /\ d.prev[c] = at[p][i - 1] /\ d.next[c] = at[p][i + 1] /\ size[p] \in Nat
      BY <1>2, <2>0, <3>1 DEF Linked, Places
    <3>3. \A i \in Int : at[p][i] \in Nodes => i \in 1 .. size[p] /\ d.parent[at[p][i]] = p
      BY <2>0, <3>1 DEF Linked, Places
    <3> QED
      BY <1>2, <3>2, <3>3
  <2> QED
    BY <1>2, <2>2, <2>3, <2>4 DEF SameRest, Alike, Away, Parted
<1> QED
  BY <1>1, <1>2

(* e is d with c as a child of p. *)
Inserted(d, e, p, c) ==
    /\ e \in Doms /\ Alike(d, e) /\ Listed(e) /\ Parted(e)
    /\ \A n \in Nodes : e.parent[n] = IF n = c THEN p ELSE d.parent[n]
    /\ e.untracked = Away(d, c)

(* What is left to show of an insertion: at which place it writes the links. *)
LEMMA SpliceInserts ==
    ASSUME NEW d \in Doms, Listed(d), Parted(d), NEW c \in Nodes, NEW p \in Containers,
           NEW size, NEW at, NEW index,
           Places(size, at, index), Linked(Taken(d, c), size, at, index), NEW k \in 1 .. size[p] + 1,
           NEW e, SameRest(Taken(d, c), e),
           \A n \in Nodes :
               /\ e.parent[n] = IF n = c THEN p ELSE Taken(d, c).parent[n]
               /\ e.next[n] = IF n = c THEN at[p][k] ELSE IF n = at[p][k - 1] THEN c ELSE Taken(d, c).next[n]
               /\ e.prev[n] = IF n = c THEN at[p][k - 1] ELSE IF n = at[p][k] THEN c ELSE Taken(d, c).prev[n],
           \A q \in Containers :
               /\ e.first[q] = IF q = p /\ at[p][k - 1] = Null THEN c ELSE Taken(d, c).first[q]
               /\ e.last[q] = IF q = p /\ at[p][k] = Null THEN c ELSE Taken(d, c).last[q]
    PROVE  Inserted(d, e, p, c)
<1> DEFINE u == Taken(d, c)
<1>0. Null \notin Containers
  BY DistinctAssumption DEF Containers
<1>1. u \in Doms /\ Alike(d, u) /\ Listed(u)
      /\ (\A n \in Nodes : u.parent[n] = IF n = c THEN Null ELSE d.parent[n])
      /\ (\A n \in Nodes : n # c /\ u.parent[n] = Null => u.prev[n] = Null /\ u.next[n] = Null)
      /\ u.untracked = Away(d, c)
  BY TakenFields
<1>2. e \in Doms
  BY DEF SameRest
<1>3. Linked(u, size, at, index) /\ SameRest(u, e) /\ u.parent[c] = Null
  BY <1>1
<1>4. \A n \in Nodes :
               /\ e.parent[n] = IF n = c THEN p ELSE u.parent[n]
               /\ e.next[n] = IF n = c THEN at[p][k] ELSE IF n = at[p][k - 1] THEN c ELSE u.next[n]
               /\ e.prev[n] = IF n = c THEN at[p][k - 1] ELSE IF n = at[p][k] THEN c ELSE u.prev[n]
  OBVIOUS
<1>5. \A q \in Containers :
               /\ e.first[q] = IF q = p /\ at[p][k - 1] = Null THEN c ELSE u.first[q]
               /\ e.last[q] = IF q = p /\ at[p][k] = Null THEN c ELSE u.last[q]
  OBVIOUS
<1> HIDE DEF u
<1>6. Listed(e)
  BY <1>1, <1>2, <1>3, <1>4, <1>5, Splice
<1>7. \A n \in Nodes : n = at[p][k - 1] \/ n = at[p][k] => u.parent[n] = p
  <2>1. size[p] \in Nat /\ \A i \in Int : at[p][i] \in Nodes => i \in 1 .. size[p] /\ u.parent[at[p][i]] = p
    BY <1>3 DEF Linked, Places
  <2> QED
    BY <2>1
<1>8. Parted(e)
  BY <1>0, <1>1, <1>4, <1>7 DEF Parted
<1> QED
  BY <1>1, <1>2, <1>3, <1>4, <1>6, <1>8 DEF Inserted, SameRest, Alike

(* InsertEndChild inserts behind the last child. *)
LEMMA EndInserts ==
    ASSUME NEW d \in Doms, Listed(d), Parted(d), NEW c \in Nodes, NEW p \in Containers
    PROVE  Inserted(d, InsertEndChild(d, p, c), p, c)
<1> DEFINE u == Taken(d, c)
           l == u.last[p]
           e == InsertEndChild(d, p, c)
<1>0. Null \notin Nodes /\ Null # c
  BY DistinctAssumption DEF Nodes
<1>1. u \in Doms /\ Listed(u) /\ u.parent[c] = Null
  BY TakenFields
<1>2. PICK size, at, index : Places(size, at, index) /\ Linked(u, size, at, index)
  BY <1>1 DEF Listed
<1> DEFINE k == size[p] + 1
<1>3. size[p] \in Nat /\ k \in 1 .. size[p] + 1 /\ at[p][k] = Null /\ at[p][k - 1] = l /\ u.first[p] = at[p][1]
      /\ (l = Null <=> size[p] = 0) /\ l \in Node0
  BY <1>0, <1>1, <1>2 DEF Places, Linked, Node0, Doms
<1>4. e = IF l = Null
          THEN [u EXCEPT !.first[p] = c, !.last[p] = c, !.prev[c] = Null, !.next[c] = Null, !.parent[c] = p]
          ELSE [u EXCEPT !.next[l] = c, !.prev[c] = l, !.last[p] = c, !.next[c] = Null, !.parent[c] = p]
  BY DEF InsertEndChild
<1> HIDE DEF u, k, e
<1>5. SameRest(u, e) /\ (\A n \in Nodes :
               /\ e.parent[n] = IF n = c THEN p ELSE u.parent[n]
               /\ e.next[n] = IF n = c THEN at[p][k] ELSE IF n = at[p][k - 1] THEN c ELSE u.next[n]
               /\ e.prev[n] = IF n = c THEN at[p][k - 1] ELSE IF n = at[p][k] THEN c ELSE u.prev[n])
         /\ \A q \in Containers :
               /\ e.first[q] = IF q = p /\ at[p][k - 1] = Null THEN c ELSE u.first[q]
               /\ e.last[q] = IF q = p /\ at[p][k] = Null THEN c ELSE u.last[q]
  <2>1. CASE l = Null
    <3>1. e = [u EXCEPT !.first[p] = c, !.last[p] = c, !.prev[c] = Null, !.next[c] = Null, !.parent[c] = p]
      BY <1>4, <2>1
    <3>2. e \in Doms
      BY <1>1, <3>1, ZenonT(30) DEF Doms, Node0
    <3>3. e.first = [u.first EXCEPT ![p] = c] /\ e.last = [u.last EXCEPT ![p] = c]
          /\ e.prev = [u.prev EXCEPT ![c] = Null] /\ e.next = [u.next EXCEPT ![c] = Null]
          /\ e.parent = [u.parent EXCEPT ![c] = p]
          /\ e.attrs = u.attrs /\ e.alive = u.alive /\ e.current = u.current
          /\ e.untracked = u.untracked /\ e.error = u.error /\ e.failures = u.failures
      BY <1>1, <3>1 DEF Doms
    <3>4. \A n \in Nodes :
               /\ e.parent[n] = IF n = c THEN p ELSE u.parent[n]
               /\ e.next[n] = IF n = c THEN at[p][k] ELSE IF n = at[p][k - 1] THEN c ELSE u.next[n]
               /\ e.prev[n] = IF n = c THEN at[p][k - 1] ELSE IF n = at[p][k] THEN c ELSE u.prev[n]
      BY <1>0, <1>1, <1>3, <2>1, <3>3 DEF Doms, Node0
    <3>5. \A q \in Containers :
               /\ e.first[q] = IF q = p /\ at[p][k - 1] = Null THEN c ELSE u.first[q]
               /\ e.last[q] = IF q = p /\ at[p][k] = Null THEN c ELSE u.last[q]
      BY <1>0, <1>1, <1>3, <2>1, <3>3 DEF Doms, Node0
    <3> QED
      BY <3>2, <3>3, <3>4, <3>5 DEF SameRest
  <2>2. CASE l # Null
    <3>1. e = [u EXCEPT !.next[l] = c, !.prev[c] = l, !.last[p] = c, !.next[c] = Null, !.parent[c] = p]
      BY <1>4, <2>2
    <3>2. e \in Doms
      BY <1>1, <1>3, <3>1 DEF Doms, Node0
    <3>3. e.first = u.first /\ e.last = [u.last EXCEPT ![p] = c]
          /\ e.prev = [u.prev EXCEPT ![c] = l] /\ e.next = [u.next EXCEPT ![l] = c, ![c] = Null]
          /\ e.parent = [u.parent EXCEPT ![c] = p]
          /\ e.attrs = u.attrs /\ e.alive = u.alive /\ e.current = u.current
          /\ e.untracked = u.untracked /\ e.error = u.error /\ e.failures = u.failures
      BY <1>1, <3>1 DEF Doms
    <3>4. \A n \in Nodes :
               /\ e.parent[n] = IF n = c THEN p ELSE u.parent[n]
               /\ e.next[n] = IF n = c THEN at[p][k] ELSE IF n = at[p][k - 1] THEN c ELSE u.next[n]
               /\ e.prev[n] = IF n = c THEN at[p][k - 1] ELSE IF n = at[p][k] THEN c ELSE u.prev[n]
      BY <1>0, <1>1, <1>3, <2>2, <3>3 DEF Doms, Node0
    <3>5. \A q \in Containers :
               /\ e.first[q] = IF q = p /\ at[p][k - 1] = Null THEN c ELSE u.first[q]
               /\ e.last[q] = IF q = p /\ at[p][k] = Null THEN c ELSE u.last[q]
      BY <1>0, <1>1, <1>3, <2>2, <3>3 DEF Doms, Node0
    <3> QED
      BY <3>2, <3>3, <3>4, <3>5 DEF SameRest
  <2> QED
    BY <2>1, <2>2
<1> QED
  BY <1>2, <1>3, <1>5, SpliceInserts DEF u, e

(* InsertFirstChild inserts in front of the first child. *)
LEMMA FirstInserts ==
    ASSUME NEW d \in Doms, Listed(d), Parted(d), NEW c \in Nodes, NEW p \in Containers
    PROVE  Inserted(d, InsertFirstChild(d, p, c), p, c)
<1> DEFINE u == Taken(d, c)
           f == u.first[p]
           e == InsertFirstChild(d, p, c)
<1>0. Null \notin Nodes /\ Null # c
  BY DistinctAssumption DEF Nodes
<1>1. u \in Doms /\ Listed(u) /\ u.parent[c] = Null
  BY TakenFields
<1>2. PICK size, at, index : Places(size, at, index) /\ Linked(u, size, at, index)
  BY <1>1 DEF Listed
<1>3. size[p] \in Nat /\ 1 \in 1 .. size[p] + 1 /\ at[p][1 - 1] = Null /\ at[p][1] = f /\ u.last[p] = at[p][size[p]]
      /\ (f = Null <=> size[p] = 0) /\ f \in Node0
  <2>1. size[p] \in Nat /\ at[p][1] = f /\ u.last[p] = at[p][size[p]]
    BY <1>2 DEF Places, Linked
  <2>2. \A i \in Int : at[p][i] \in Node0 /\ (at[p][i] \in Nodes <=> i \in 1 .. size[p])
    BY <1>2 DEF Places
  <2>3. at[p][0] = Null
    BY <2>1, <2>2 DEF Node0
  <2> QED
    BY <1>0, <2>1, <2>2, <2>3 DEF Node0
<1>4. e = IF f = Null
          THEN [u EXCEPT !.first[p] = c, !.last[p] = c, !.prev[c] = Null, !.next[c] = Null, !.parent[c] = p]
          ELSE [u EXCEPT !.prev[f] = c, !.next[c] = f, !.first[p] = c, !.prev[c] = Null, !.parent[c] = p]
  BY DEF InsertFirstChild
<1> HIDE DEF u, e
<1>5. SameRest(u, e) /\ (\A n \in Nodes :
               /\ e.parent[n] = IF n = c THEN p ELSE u.parent[n]
               /\ e.next[n] = IF n = c THEN at[p][1] ELSE IF n = at[p][1 - 1] THEN c ELSE u.next[n]
               /\ e.prev[n] = IF n = c THEN at[p][1 - 1] ELSE IF n = at[p][1] THEN c ELSE u.prev[n])
         /\ \A q \in Containers :
               /\ e.first[q] = IF q = p /\ at[p][1 - 1] = Null THEN c ELSE u.first[q]
               /\ e.last[q] = IF q = p /\ at[p][1] = Null THEN c ELSE u.last[q]
  <2>1. CASE f = Null
    <3>1. e = [u EXCEPT !.first[p] = c, !.last[p] = c, !.prev[c] = Null, !.next[c] = Null, !.parent[c] = p]
      BY <1>4, <2>1
    <3>2. e \in Doms
      BY <1>1, <3>1 DEF Doms, Node0
    <3>3. e.first = [u.first EXCEPT ![p] = c] /\ e.last = [u.last EXCEPT ![p] = c]
          /\ e.prev = [u.prev EXCEPT ![c] = Null] /\ e.next = [u.next EXCEPT ![c] = Null]
          /\ e.parent = [u.parent EXCEPT ![c] = p]
          /\ e.attrs = u.attrs /\ e.alive = u.alive /\ e.current = u.current
          /\ e.untracked = u.untracked /\ e.error = u.error /\ e.failures = u.failures
      BY <1>1, <3>1 DEF Doms
    <3>4. \A n \in Nodes :
               /\ e.parent[n] = IF n = c THEN p ELSE u.parent[n]
               /\ e.next[n] = IF n = c THEN at[p][1] ELSE IF n = at[p][1 - 1] THEN c ELSE u.next[n]
               /\ e.prev[n] = IF n = c THEN at[p][1 - 1] ELSE IF n = at[p][1] THEN c ELSE u.prev[n]
      BY <1>0, <1>1, <1>3, <2>1, <3>3 DEF Doms, Node0
    <3>5. \A q \in Containers :
               /\ e.first[q] = IF q = p /\ at[p][1 - 1] = Null THEN c ELSE u.first[q]
               /\ e.last[q] = IF q = p /\ at[p][1] = Null THEN c ELSE u.last[q]
      BY <1>0, <1>1, <1>3, <2>1, <3>3 DEF Doms, Node0
    <3> QED
      BY <3>2, <3>3, <3>4, <3>5 DEF SameRest
  <2>2. CASE f # Null
    <3>1. e = [u EXCEPT !.prev[f] = c, !.next[c] = f, !.first[p] = c, !.prev[c] = Null, !.parent[c] = p]
      BY <1>4, <2>2
    <3>2. e \in Doms
      BY <1>1, <1>3, <3>1 DEF Doms, Node0
    <3>3. e.last = u.last /\ e.first = [u.first EXCEPT ![p] = c]
          /\ e.next = [u.next EXCEPT ![c] = f] /\ e.prev = [u.prev EXCEPT ![f] = c, ![c] = Null]
          /\ e.parent = [u.parent EXCEPT ![c] = p]
          /\ e.attrs = u.attrs /\ e.alive = u.alive /\ e.current = u.current
          /\ e.untracked = u.untracked /\ e.error = u.error /\ e.failures = u.failures
      BY <1>1, <3>1 DEF Doms
    <3>4. \A n \in Nodes :
               /\ e.parent[n] = IF n = c THEN p ELSE u.parent[n]
               /\ e.next[n] = IF n = c THEN at[p][1] ELSE IF n = at[p][1 - 1] THEN c ELSE u.next[n]
               /\ e.prev[n] = IF n = c THEN at[p][1 - 1] ELSE IF n = at[p][1] THEN c ELSE u.prev[n]
      BY <1>0, <1>1, <1>3, <2>2, <3>3 DEF Doms, Node0
    <3>5. \A q \in Containers :
               /\ e.first[q] = IF q = p /\ at[p][1 - 1] = Null THEN c ELSE u.first[q]
               /\ e.last[q] = IF q = p /\ at[p][1] = Null THEN c ELSE u.last[q]
      BY <1>0, <1>1, <1>3, <2>2, <3>3 DEF Doms, Node0
    <3> QED
      BY <3>2, <3>3, <3>4, <3>5 DEF SameRest
  <2> QED
    BY <2>1, <2>2
<1> QED
  BY <1>2, <1>3, <1>5, SpliceInserts DEF u, e

(* InsertAfterChild inserts behind a, unless that ends the program. *)
LEMMA AfterInserts ==
    ASSUME NEW d \in Doms, Listed(d), Parted(d), NEW c \in Nodes, NEW a \in Nodes, a # c,
           NEW p \in Containers, d.parent[a] = p, ~FollowsNull(d, a, c)
    PROVE  Inserted(d, InsertAfterChild(d, p, a, c), p, c)
<1>0. Null \notin Nodes /\ Null # c /\ Null \notin Containers
  BY DistinctAssumption DEF Nodes, Containers
<1>1. CASE d.next[a] = Null
  BY <1>1, EndInserts DEF InsertAfterChild
<1>2. CASE d.next[a] # Null
  <2> DEFINE u == Taken(d, c)
             x == u.next[a]
             e == InsertAfterChild(d, p, a, c)
  <2>1. u \in Doms /\ Listed(u) /\ u.parent[c] = Null /\ u.parent[a] = p
    BY TakenFields
  <2>2. PICK size, at, index : Places(size, at, index) /\ Linked(u, size, at, index)
    BY <2>1 DEF Listed
  <2> DEFINE k == index[a] + 1
  <2>3. x # Null
    BY <1>2 DEF FollowsNull
  <2>4. size[p] \in Nat /\ index[a] \in 1 .. size[p] /\ at[p][k - 1] = a /\ at[p][k] = x /\ x \in Nodes /\ k \in 1 .. size[p] + 1
    BY <1>0, <2>1, <2>2, <2>3, SMTT(30) DEF Places, Linked, Doms, Node0
  <2>5. e = [u EXCEPT !.prev[c] = a, !.next[c] = x, !.prev[x] = c, !.next[a] = c, !.parent[c] = p]
    BY <1>2 DEF InsertAfterChild
  <2>6. x # c
    <3>1. k \in 1 .. size[p]
      BY <2>2, <2>4 DEF Places
    <3> QED
      BY <1>0, <2>1, <2>2, <2>4, <3>1 DEF Linked
  <2> HIDE DEF u, k, e
  <2>7. e \in Doms
    BY <2>1, <2>4, <2>5, ZenonT(30) DEF Doms, Node0
  <2>8. e.last = u.last /\ e.first = u.first
          /\ e.next = [u.next EXCEPT ![c] = x, ![a] = c] /\ e.prev = [u.prev EXCEPT ![c] = a, ![x] = c]
          /\ e.parent = [u.parent EXCEPT ![c] = p]
          /\ e.attrs = u.attrs /\ e.alive = u.alive /\ e.current = u.current
          /\ e.untracked = u.untracked /\ e.error = u.error /\ e.failures = u.failures
      BY <2>1, <2>5 DEF Doms
  <2>9. SameRest(u, e)
    BY <2>7, <2>8 DEF SameRest
  <2>10. \A n \in Nodes :
               /\ e.parent[n] = IF n = c THEN p ELSE u.parent[n]
               /\ e.next[n] = IF n = c THEN at[p][k] ELSE IF n = at[p][k - 1] THEN c ELSE u.next[n]
               /\ e.prev[n] = IF n = c THEN at[p][k - 1] ELSE IF n = at[p][k] THEN c ELSE u.prev[n]
    BY <2>1, <2>4, <2>6, <2>8 DEF Doms
  <2>11. \A q \in Containers :
               /\ e.first[q] = IF q = p /\ at[p][k - 1] = Null THEN c ELSE u.first[q]
               /\ e.last[q] = IF q = p /\ at[p][k] = Null THEN c ELSE u.last[q]
    BY <1>0, <2>4, <2>8
  <2> QED
    BY <2>2, <2>4, <2>9, <2>10, <2>11, SpliceInserts, SMTT(30) DEF u, e
<1> QED
  BY <1>1, <1>2

-----------------------------------------------------------------------------
(* What the pools count. *)

(* The parts of the invariant: the pools are right, no two attributes have one name, and only
   what is alive is linked and has attributes. *)
Counted(d) ==
    /\ IsFiniteSet(d.alive)
    /\ \A pool \in Pools : d.current[pool] = Cardinality(Held(d, d.alive, pool))
    /\ d.untracked["element"] = Cardinality(Loose(d, "element")) + d.failures
    /\ d.untracked["text"] = Cardinality(Loose(d, "text"))
    /\ d.untracked["attribute"] = 0

Named(d) ==
    \A e \in Elements : \A i, j \in DOMAIN d.attrs[e] : d.attrs[e][i].name = d.attrs[e][j].name => i = j

Living(d) ==
    /\ \A n \in Nodes : d.parent[n] # Null => n \in d.alive /\ d.parent[n] \in d.alive \cup {Doc}
    /\ \A e \in Elements : e \notin d.alive => d.attrs[e] = <<>>

(* The inductive invariant. *)
Sound(d) == d \in Doms /\ Listed(d) /\ Parted(d) /\ Living(d) /\ Counted(d) /\ Named(d)

(* Of its own pool a node holds itself. *)
LEMMA HeldNodes ==
    ASSUME NEW d, NEW S
    PROVE  /\ Held(d, S, "element") = S \cap Elements
           /\ Held(d, S, "text") = {n \in S : n \notin Elements}
BY DEF Held, PoolOf

(* Of the pool of attributes an element holds one for each place of its list. *)
LEMMA HeldAttributes ==
    ASSUME NEW d, NEW S, NEW x
    PROVE  x \in Held(d, S, "attribute") <=> \E e \in S \cap Elements : \E i \in DOMAIN d.attrs[e] : x = <<e, i>>
<1>1. Held(d, S, "attribute") = UNION {{e} \X DOMAIN d.attrs[e] : e \in S \cap Elements}
  BY DEF Held
<1> QED
  BY <1>1

(* Finitely many nodes hold finitely much. *)
LEMMA HeldFinite ==
    ASSUME NEW d \in Doms, NEW S, IsFiniteSet(S), NEW pool \in Pools
    PROVE  IsFiniteSet(Held(d, S, pool)) /\ Cardinality(Held(d, S, pool)) \in Nat
<1>1. CASE pool # "attribute"
  <2>1. Held(d, S, pool) \in SUBSET S
    BY <1>1 DEF Held
  <2> QED
    BY <2>1, FS_Subset, FS_CardinalityType
<1>2. CASE pool = "attribute"
  <2> DEFINE E == S \cap Elements
             f == [e \in E |-> {e} \X DOMAIN d.attrs[e]]
             T == {f[e] : e \in E}
  <2>1. IsFiniteSet(E)
    BY FS_Subset
  <2>2. f \in Surjection(E, T)
    BY DEF Surjection
  <2>3. IsFiniteSet(T)
    BY <2>1, <2>2, FS_Surjection
  <2>4. ASSUME NEW t \in T PROVE IsFiniteSet(t)
    <3>1. PICK e \in E : t = {e} \X DOMAIN d.attrs[e]
      OBVIOUS
    <3>2. d.attrs[e] \in Seq([name : Names, value : Values])
      BY DEF Doms
    <3>3. DOMAIN d.attrs[e] = 1 .. Len(d.attrs[e]) /\ Len(d.attrs[e]) \in Nat
      BY <3>2
    <3>4. IsFiniteSet(DOMAIN d.attrs[e])
      BY <3>3, FS_Interval
    <3> QED
      BY <3>1, <3>4, FS_Singleton, FS_Product
  <2>5. Held(d, S, pool) = UNION T
    BY <1>2 DEF Held
  <2>6. IsFiniteSet(UNION T)
    BY <2>3, <2>4, FS_UNION
  <2> QED
    BY <2>5, <2>6, FS_CardinalityType
<1> QED
  BY <1>1, <1>2

(* Finitely many nodes are loose. *)
LEMMA LooseFinite ==
    ASSUME NEW d \in Doms, IsFiniteSet(d.alive), NEW pool \in Pools
    PROVE  IsFiniteSet(Loose(d, pool)) /\ Cardinality(Loose(d, pool)) \in Nat
BY HeldFinite, FS_Subset, FS_CardinalityType DEF Loose

(* The loose nodes of a pool. *)
LEMMA LooseIs ==
    ASSUME NEW d, NEW pool \in {"element", "text"}
    PROVE  Loose(d, pool) = {n \in d.alive : PoolOf(n) = pool /\ d.parent[n] = Null}
BY DEF Loose, Held

(* An insertion leaves the document sound: the node is loose no more, and tracked. *)
LEMMA InsertedSound ==
    ASSUME NEW d, Sound(d), NEW c \in d.alive, NEW p \in (d.alive \cap Elements) \cup {Doc}, NEW e, Inserted(d, e, p, c)
    PROVE  Sound(e)
<1>0. d \in Doms /\ e \in Doms /\ c \in Nodes /\ p \in Containers /\ p # Null /\ Alike(d, e) /\ IsFiniteSet(d.alive)
  BY DistinctAssumption DEF Sound, Inserted, Doms, Containers, Counted
<1>1. \A n \in Nodes : e.parent[n] = IF n = c THEN p ELSE d.parent[n]
  BY DEF Inserted
<1>2. Living(e)
  BY <1>0, <1>1 DEF Living, Sound, Alike
<1>3. Named(e)
  BY <1>0 DEF Named, Sound, Alike
<1>4. \A pool \in Pools : Held(e, e.alive, pool) = Held(d, d.alive, pool)
  BY <1>0 DEF Alike, Held
<1>5. ASSUME NEW pool \in {"element", "text"}
      PROVE  Loose(e, pool) = IF d.parent[c] = Null /\ pool = PoolOf(c) THEN Loose(d, pool) \ {c} ELSE Loose(d, pool)
  <2>1. \A n \in e.alive : n \in d.alive /\ n \in Nodes
    BY <1>0 DEF Alike, Doms
  <2>2. Loose(e, pool) = {n \in d.alive : PoolOf(n) = pool /\ e.parent[n] = Null}
    BY <1>0, LooseIs DEF Alike
  <2>3. Loose(d, pool) = {n \in d.alive : PoolOf(n) = pool /\ d.parent[n] = Null}
    BY LooseIs
  <2>4. \A n \in d.alive : e.parent[n] = Null <=> n # c /\ d.parent[n] = Null
    BY <1>0, <1>1, <2>1 DEF Doms
  <2>5. Loose(e, pool) = {n \in d.alive : PoolOf(n) = pool /\ n # c /\ d.parent[n] = Null}
    BY <2>2, <2>4
  <2> QED
    BY <2>3, <2>5
<1>6. d.parent[c] = Null => c \in Loose(d, PoolOf(c)) /\ PoolOf(c) \in {"element", "text"}
  BY LooseIs DEF PoolOf
<1>7. \A pool \in {"element", "text"} :
         Cardinality(Loose(e, pool)) = Cardinality(Loose(d, pool))
                                      - (IF d.parent[c] = Null /\ pool = PoolOf(c) THEN 1 ELSE 0)
  <2>1. ASSUME NEW pool \in {"element", "text"}
        PROVE  IsFiniteSet(Loose(d, pool)) /\ Cardinality(Loose(d, pool)) \in Nat
    BY <1>0, LooseFinite DEF Pools
  <2> QED
    BY <1>5, <1>6, <2>1, FS_RemoveElement
<1>8. e.untracked["attribute"] = d.untracked["attribute"]
      /\ \A pool \in {"element", "text"} : e.untracked[pool] = d.untracked[pool]
                                      - (IF d.parent[c] = Null /\ pool = PoolOf(c) THEN 1 ELSE 0)
  <2>1. e.untracked = Away(d, c) /\ d.untracked \in [Pools -> Int]
    BY <1>0 DEF Inserted, Doms
  <2> QED
    BY <1>6, <2>1 DEF Away, Pools, PoolOf
<1>9. Counted(d)
  BY DEF Sound
<1>10. d.failures \in Nat /\ d.untracked["element"] \in Int /\ d.untracked["text"] \in Int
  BY <1>0 DEF Doms, Pools
<1>11. \A pool \in {"element", "text"} : Cardinality(Loose(d, pool)) \in Nat
  BY <1>0, LooseFinite DEF Pools
<1>12. Counted(e)
  <2>1. \A pool \in Pools : e.current[pool] = Cardinality(Held(e, e.alive, pool))
    BY <1>0, <1>4, <1>9 DEF Counted, Alike
  <2>2. e.untracked["element"] = Cardinality(Loose(e, "element")) + e.failures
    BY <1>0, <1>7, <1>8, <1>9, <1>10, <1>11 DEF Counted, Alike
  <2>3. e.untracked["text"] = Cardinality(Loose(e, "text"))
    BY <1>0, <1>7, <1>8, <1>9, <1>10, <1>11 DEF Counted, Alike
  <2> QED
    BY <1>0, <1>8, <1>9, <2>1, <2>2, <2>3 DEF Counted, Alike
<1> QED
  BY <1>0, <1>2, <1>3, <1>12 DEF Sound, Inserted

(* What NewNode writes. *)
LEMMA NewFields ==
    ASSUME NEW d \in Doms, NEW n \in Nodes
    PROVE  LET e == NewNode(d, n) IN
           /\ e \in Doms
           /\ e.parent = d.parent /\ e.prev = d.prev /\ e.next = d.next /\ e.first = d.first /\ e.last = d.last
           /\ e.attrs = d.attrs /\ e.error = d.error /\ e.failures = d.failures
           /\ e.alive = d.alive \cup {n}
           /\ e.current = [d.current EXCEPT ![PoolOf(n)] = @ + 1]
           /\ e.untracked = [d.untracked EXCEPT ![PoolOf(n)] = @ + 1]
<1> DEFINE e == NewNode(d, n)
           c == [d.current EXCEPT ![PoolOf(n)] = @ + 1]
           u == [d.untracked EXCEPT ![PoolOf(n)] = @ + 1]
           a == d.alive \cup {n}
<1>1. c \in [Pools -> Int] /\ u \in [Pools -> Int] /\ a \in SUBSET Nodes
  <2>1. d.current \in [Pools -> Int] /\ d.untracked \in [Pools -> Int] /\ d.alive \in SUBSET Nodes
    BY DEF Doms
  <2> QED
    BY <2>1, PoolOfPools
<1>2. e = [d EXCEPT !.current = c, !.untracked = u, !.alive = a]
  BY DEF NewNode, Alloc
<1> HIDE DEF c, u, a, e
<1>3. e \in Doms
  BY <1>1, <1>2 DEF Doms
<1>4. /\ e.parent = d.parent /\ e.prev = d.prev /\ e.next = d.next /\ e.first = d.first /\ e.last = d.last
      /\ e.attrs = d.attrs /\ e.error = d.error /\ e.failures = d.failures
      /\ e.alive = a /\ e.current = c /\ e.untracked = u
  BY <1>2 DEF Doms
<1> QED
  BY <1>3, <1>4 DEF e, c, u, a

(* A new node is loose, counted and not tracked. *)
LEMMA NewSound ==
    ASSUME NEW d, Sound(d), NEW n \in Nodes, n \notin d.alive
    PROVE  Sound(NewNode(d, n)) /\ NewNode(d, n).parent[n] = Null
<1> DEFINE e == NewNode(d, n)
<1>0. d \in Doms /\ Counted(d) /\ IsFiniteSet(d.alive) /\ Living(d)
  BY DEF Sound, Counted
<1>1. /\ e \in Doms
      /\ e.parent = d.parent /\ e.prev = d.prev /\ e.next = d.next /\ e.first = d.first /\ e.last = d.last
      /\ e.attrs = d.attrs /\ e.error = d.error /\ e.failures = d.failures
      /\ e.alive = d.alive \cup {n}
      /\ e.current = [d.current EXCEPT ![PoolOf(n)] = @ + 1]
      /\ e.untracked = [d.untracked EXCEPT ![PoolOf(n)] = @ + 1]
  BY <1>0, NewFields
<1> HIDE DEF e
<1>2. d.parent[n] = Null /\ (n \in Elements => d.attrs[n] = <<>>)
  BY <1>0 DEF Living
<1>3. Listed(e) /\ Parted(e) /\ Living(e) /\ Named(e)
  BY <1>1, SameLists DEF Sound, Parted, Living, Named
<1>4. Held(e, e.alive, "attribute") = Held(d, d.alive, "attribute")
  <2>1. \A x : x \in Held(e, e.alive, "attribute") <=> x \in Held(d, d.alive, "attribute")
    BY <1>1, <1>2, HeldAttributes
  <2> QED
    BY <2>1
<1>5. \A pool \in {"element", "text"} :
         Held(e, e.alive, pool) = IF pool = PoolOf(n) THEN Held(d, d.alive, pool) \cup {n} ELSE Held(d, d.alive, pool)
  BY <1>1 DEF Held
<1>6. \A pool \in {"element", "text"} :
         Loose(e, pool) = IF pool = PoolOf(n) THEN Loose(d, pool) \cup {n} ELSE Loose(d, pool)
  <2> TAKE pool \in {"element", "text"}
  <2>1. Loose(e, pool) = {m \in d.alive \cup {n} : PoolOf(m) = pool /\ d.parent[m] = Null}
    BY <1>1, LooseIs
  <2>2. Loose(d, pool) = {m \in d.alive : PoolOf(m) = pool /\ d.parent[m] = Null}
    BY LooseIs
  <2> QED
    BY <1>2, <2>1, <2>2
<1>7. \A pool \in {"element", "text"} :
         /\ IsFiniteSet(Held(d, d.alive, pool)) /\ Cardinality(Held(d, d.alive, pool)) \in Nat
         /\ IsFiniteSet(Loose(d, pool)) /\ Cardinality(Loose(d, pool)) \in Nat
         /\ n \notin Held(d, d.alive, pool) /\ n \notin Loose(d, pool)
  <2>1. \A pool \in {"element", "text"} :
         n \notin Held(d, d.alive, pool) /\ n \notin Loose(d, pool)
    BY DEF Held, Loose
  <2>2. \A pool \in {"element", "text"} :
         /\ IsFiniteSet(Held(d, d.alive, pool)) /\ Cardinality(Held(d, d.alive, pool)) \in Nat
         /\ IsFiniteSet(Loose(d, pool)) /\ Cardinality(Loose(d, pool)) \in Nat
    BY <1>0, HeldFinite, LooseFinite DEF Pools
  <2> QED
    BY <2>1, <2>2
<1>8. \A pool \in {"element", "text"} :
         /\ Cardinality(Held(e, e.alive, pool)) = Cardinality(Held(d, d.alive, pool)) + (IF pool = PoolOf(n) THEN 1 ELSE 0)
         /\ Cardinality(Loose(e, pool)) = Cardinality(Loose(d, pool)) + (IF pool = PoolOf(n) THEN 1 ELSE 0)
  <2> TAKE pool \in {"element", "text"}
  <2>1. CASE pool = PoolOf(n)
    <3>1. Held(e, e.alive, pool) = Held(d, d.alive, pool) \cup {n} /\ Loose(e, pool) = Loose(d, pool) \cup {n}
      BY <1>5, <1>6, <2>1
    <3>2. Cardinality(Held(d, d.alive, pool) \cup {n}) = Cardinality(Held(d, d.alive, pool)) + 1
      BY <1>7, FS_AddElement
    <3>3. Cardinality(Loose(d, pool) \cup {n}) = Cardinality(Loose(d, pool)) + 1
      BY <1>7, FS_AddElement
    <3> QED
      BY <2>1, <3>1, <3>2, <3>3
  <2>2. CASE pool # PoolOf(n)
    <3>1. Held(e, e.alive, pool) = Held(d, d.alive, pool) /\ Loose(e, pool) = Loose(d, pool)
      BY <1>5, <1>6, <2>2
    <3> QED
      BY <1>7, <2>2, <3>1
  <2> QED
    BY <2>1, <2>2
<1>9. PoolOf(n) \in {"element", "text"}
  BY DEF PoolOf
<1>10. d.failures \in Nat /\ \A pool \in Pools : d.untracked[pool] \in Int /\ d.current[pool] \in Int
  BY <1>0 DEF Doms
<1>11. /\ e.untracked["attribute"] = d.untracked["attribute"] /\ e.current["attribute"] = d.current["attribute"]
       /\ \A pool \in {"element", "text"} :
             /\ e.untracked[pool] = d.untracked[pool] + (IF pool = PoolOf(n) THEN 1 ELSE 0)
             /\ e.current[pool] = d.current[pool] + (IF pool = PoolOf(n) THEN 1 ELSE 0)
  <2>1. d.untracked \in [Pools -> Int] /\ d.current \in [Pools -> Int]
    BY <1>0 DEF Doms
  <2> QED
    BY <1>1, <1>9, <2>1 DEF Pools
<1>12. Counted(e)
  <2>1. \A pool \in Pools : e.current[pool] = Cardinality(Held(e, e.alive, pool))
    <3>1. e.current["attribute"] = Cardinality(Held(e, e.alive, "attribute"))
      BY <1>0, <1>4, <1>11 DEF Counted, Pools
    <3>2. \A pool \in {"element", "text"} : e.current[pool] = Cardinality(Held(e, e.alive, pool))
      BY <1>0, <1>7, <1>8, <1>11 DEF Counted, Pools
    <3> QED
      BY <3>1, <3>2 DEF Pools
  <2>2. e.untracked["element"] = Cardinality(Loose(e, "element")) + e.failures
    BY <1>0, <1>1, <1>7, <1>8, <1>10, <1>11 DEF Counted
  <2>3. e.untracked["text"] = Cardinality(Loose(e, "text"))
    BY <1>0, <1>7, <1>8, <1>10, <1>11 DEF Counted
  <2>4. IsFiniteSet(e.alive)
    BY <1>0, <1>1, FS_AddElement
  <2> QED
    BY <1>0, <1>11, <2>1, <2>2, <2>3, <2>4 DEF Counted
<1> QED
  BY <1>1, <1>2, <1>3, <1>12 DEF Sound, e

(* A node is beneath p exactly if its parent is p, or beneath p. *)
LEMMA BeneathClosed ==
    ASSUME NEW d \in Doms, NEW p
    PROVE  /\ Beneath(d, p) \in SUBSET Nodes
           /\ \A n \in Nodes : n \in Beneath(d, p) <=> d.parent[n] \in Beneath(d, p) \cup {p}
<1> DEFINE B == Beneath(d, p)
           Closed == {S \in SUBSET Nodes : \A n \in Nodes : d.parent[n] \in S \cup {p} => n \in S}
<1>1. B = {n \in Nodes : \A S \in Closed : n \in S}
  BY DEF Beneath
<1>2. B \in Closed
  <2>1. ASSUME NEW n \in Nodes, d.parent[n] \in B \cup {p} PROVE n \in B
    BY <1>1, <2>1
  <2> QED
    BY <1>1, <2>1
<1>3. ASSUME NEW n \in B PROVE d.parent[n] \in B \cup {p}
  <2> DEFINE S == {m \in B : d.parent[m] \in B \cup {p}}
  <2>1. S \in Closed
    BY <1>1, <1>2
  <2> QED
    BY <1>1, <2>1
<1> QED
  BY <1>1, <1>2, <1>3

-----------------------------------------------------------------------------
(* Nodes that are freed. *)

(* e is d without the nodes S and without the lists of Q. *)
FreedFrom(d, S, Q, e) ==
    /\ e \in Doms
    /\ \A n \in Nodes :
          /\ e.parent[n] = IF n \in S THEN Null ELSE d.parent[n]
          /\ e.prev[n] = IF n \in S THEN Null ELSE d.prev[n]
          /\ e.next[n] = IF n \in S THEN Null ELSE d.next[n]
    /\ \A q \in Containers :
          /\ e.first[q] = IF q \in Q THEN Null ELSE d.first[q]
          /\ e.last[q] = IF q \in Q THEN Null ELSE d.last[q]
    /\ \A x \in Elements : e.attrs[x] = IF x \in S THEN <<>> ELSE d.attrs[x]
    /\ e.alive = d.alive \ S
    /\ \A pool \in Pools : e.current[pool] = d.current[pool] - Cardinality(Held(d, S, pool))
    /\ e.untracked = d.untracked /\ e.error = d.error /\ e.failures = d.failures

(* What Freed writes. *)
LEMMA FreedFields ==
    ASSUME NEW d \in Doms, NEW S \in SUBSET d.alive, IsFiniteSet(d.alive)
    PROVE  FreedFrom(d, S, S, Freed(d, S))
<1> DEFINE Gone(f) == [n \in DOMAIN f |-> IF n \in S THEN Null ELSE f[n]]
           attrs == [e \in Elements |-> IF e \in S THEN <<>> ELSE d.attrs[e]]
           current == [pool \in Pools |-> d.current[pool] - Cardinality(Held(d, S, pool))]
           e == [d EXCEPT !.parent = Gone(d.parent), !.prev = Gone(d.prev), !.next = Gone(d.next),
                  !.first = Gone(d.first), !.last = Gone(d.last), !.attrs = attrs, !.alive = d.alive \ S, !.current = current]
<1>1. e = Freed(d, S)
  BY DEF Freed
<1>2. Gone(d.parent) \in [Nodes -> Containers \cup {Null}] /\ Gone(d.prev) \in [Nodes -> Node0]
      /\ Gone(d.next) \in [Nodes -> Node0] /\ Gone(d.first) \in [Containers -> Node0]
      /\ Gone(d.last) \in [Containers -> Node0]
  BY DEF Doms, Node0
<1>3. attrs \in [Elements -> Seq([name : Names, value : Values])]
  <2> DEFINE R == [name : Names, value : Values]
  <2>1. \A x \in Elements : d.attrs[x] \in Seq(R)
    BY DEF Doms
  <2> HIDE DEF R
  <2>2. << >> \in Seq(R)
    OBVIOUS
  <2>3. attrs \in [Elements -> Seq(R)]
    BY <2>1, <2>2
  <2> QED
    BY <2>3 DEF R
<1>4. current \in [Pools -> Int]
  <2>1. IsFiniteSet(S)
    BY FS_Subset
  <2>2. ASSUME NEW pool \in Pools PROVE Cardinality(Held(d, S, pool)) \in Int /\ d.current[pool] \in Int
    <3>1. Cardinality(Held(d, S, pool)) \in Nat
      BY <2>1, HeldFinite
    <3> QED
      BY <3>1 DEF Doms
  <2> QED
    BY <2>2
<1>5. \A n \in Nodes :
          /\ Gone(d.parent)[n] = IF n \in S THEN Null ELSE d.parent[n]
          /\ Gone(d.prev)[n] = IF n \in S THEN Null ELSE d.prev[n]
          /\ Gone(d.next)[n] = IF n \in S THEN Null ELSE d.next[n]
  BY DEF Doms
<1>6. \A q \in Containers :
          /\ Gone(d.first)[q] = IF q \in S THEN Null ELSE d.first[q]
          /\ Gone(d.last)[q] = IF q \in S THEN Null ELSE d.last[q]
  BY DEF Doms
<1>7. \A x \in Elements : attrs[x] = IF x \in S THEN <<>> ELSE d.attrs[x]
  OBVIOUS
<1>8. \A pool \in Pools : current[pool] = d.current[pool] - Cardinality(Held(d, S, pool))
  OBVIOUS
<1>9. d.alive \ S \in SUBSET Nodes
  BY DEF Doms
<1> DEFINE gp == Gone(d.parent)
           gv == Gone(d.prev)
           gn == Gone(d.next)
           gf == Gone(d.first)
           gl == Gone(d.last)
<1>10. e = [d EXCEPT !.parent = gp, !.prev = gv, !.next = gn, !.first = gf, !.last = gl, !.attrs = attrs,
                     !.alive = d.alive \ S, !.current = current]
  OBVIOUS
<1> HIDE DEF gp, gv, gn, gf, gl, attrs, current, e
<1>11. e \in Doms
  BY <1>2, <1>3, <1>4, <1>9, <1>10 DEF Doms, gp, gv, gn, gf, gl
<1>12. /\ e.parent = gp /\ e.prev = gv /\ e.next = gn /\ e.first = gf /\ e.last = gl /\ e.attrs = attrs
       /\ e.alive = d.alive \ S /\ e.current = current
       /\ e.untracked = d.untracked /\ e.error = d.error /\ e.failures = d.failures
  BY <1>10 DEF Doms
<1> QED
  BY <1>1, <1>5, <1>6, <1>7, <1>8, <1>11, <1>12, ZenonT(30) DEF FreedFrom, gp, gv, gn, gf, gl

(* The lists that are left when those of Q are freed with the nodes S in them. *)
LEMMA FreedLists ==
    ASSUME NEW d \in Doms, Listed(d), NEW S, NEW Q, NEW e, FreedFrom(d, S, Q, e),
           \A n \in Nodes : d.parent[n] # Null => (n \in S <=> d.parent[n] \in Q)
    PROVE  Listed(e)
<1>0. Null \notin Nodes /\ Null \notin Containers
  BY DistinctAssumption DEF Nodes, Containers
<1>1. PICK size, at, index : Places(size, at, index) /\ Linked(d, size, at, index)
  BY DEF Listed
<1> DEFINE size1 == [q \in Containers |-> IF q \in Q THEN 0 ELSE size[q]]
           at1 == [q \in Containers |-> IF q \in Q THEN [i \in Int |-> Null] ELSE at[q]]
<1>2. /\ \A q \in Containers : size1[q] = (IF q \in Q THEN 0 ELSE size[q]) /\ size[q] \in Nat
      /\ \A q \in Containers : q \notin Q => at1[q] = at[q]
      /\ \A q \in Containers, i \in Int : q \in Q => at1[q][i] = Null
  BY <1>1 DEF Places
<1>3. Places(size1, at1, index)
  <2>1. size1 \in [Containers -> Nat]
    BY <1>2
  <2>2. at1 \in [Containers -> [Int -> Node0]]
    BY <1>1 DEF Places, Node0
  <2> HIDE DEF size1, at1
  <2> QED
    BY <1>0, <1>1, <1>2, <2>1, <2>2 DEF Places
<1> HIDE DEF size1, at1
<1>4. ASSUME NEW q \in Containers PROVE e.first[q] = at1[q][1] /\ e.last[q] = at1[q][size1[q]]
  BY <1>1, <1>2 DEF FreedFrom, Linked
<1>5. ASSUME NEW q \in Containers, NEW i \in 1 .. size1[q]
      PROVE  /\ e.parent[at1[q][i]] = q /\ index[at1[q][i]] = i
             /\ e.prev[at1[q][i]] = at1[q][i - 1] /\ e.next[at1[q][i]] = at1[q][i + 1]
  <2>1. q \notin Q /\ i \in 1 .. size[q] /\ i \in Int
    BY <1>2
  <2> DEFINE m == at[q][i]
  <2>2. m \in Nodes /\ d.parent[m] = q /\ index[m] = i /\ d.prev[m] = at[q][i - 1] /\ d.next[m] = at[q][i + 1]
    BY <1>1, <2>1 DEF Places, Linked
  <2>3. m \notin S
    BY <1>0, <2>1, <2>2
  <2> QED
    BY <1>2, <2>1, <2>2, <2>3 DEF FreedFrom
<1>6. ASSUME NEW n \in Nodes, e.parent[n] # Null
      PROVE  index[n] \in 1 .. size1[e.parent[n]] /\ at1[e.parent[n]][index[n]] = n
  <2>1. n \notin S /\ e.parent[n] = d.parent[n]
    BY <1>6 DEF FreedFrom
  <2>2. d.parent[n] \in Containers /\ d.parent[n] \notin Q
    BY <1>6, <2>1 DEF Doms
  <2> QED
    BY <1>1, <1>2, <2>1, <2>2, <1>6 DEF Linked
<1> QED
  BY <1>3, <1>4, <1>5, <1>6 DEF Listed, Linked

(* To free the linked nodes S and the lists of Q leaves the document sound: the pools give back
   what S held. *)
LEMMA FreedSound ==
    ASSUME NEW d, Sound(d), NEW a \in Doms, Alike(d, a), a.untracked = d.untracked, Listed(a),
           NEW S \in SUBSET d.alive, NEW Q, S \subseteq Q, NEW e, FreedFrom(a, S, Q, e),
           \A n \in Nodes : n \notin S =>
               a.parent[n] = d.parent[n] /\ (a.parent[n] = Null => a.prev[n] = Null /\ a.next[n] = Null),
           \A n \in S : d.parent[n] # Null,
           \A n \in Nodes : a.parent[n] # Null => (n \in S <=> a.parent[n] \in Q)
    PROVE  Sound(e)
<1>0. d \in Doms /\ e \in Doms /\ Counted(d) /\ Living(d) /\ Named(d) /\ IsFiniteSet(d.alive) /\ Null \notin Nodes /\ S \subseteq Nodes
  BY DistinctAssumption DEF FreedFrom, Sound, Counted, Nodes, Doms
<1>1. Listed(e)
  BY FreedLists
<1>2. Parted(e)
  BY DEF Parted, FreedFrom
<1>3. Living(e)
  BY <1>0 DEF Living, FreedFrom, Alike
<1>4. Named(e)
  BY <1>0 DEF Named, FreedFrom, Alike
<1>5. \A pool \in Pools : e.current[pool] = Cardinality(Held(e, e.alive, pool))
  <2> TAKE pool \in Pools
  <2>1. Held(e, e.alive, pool) = Held(d, d.alive, pool) \ Held(a, S, pool) /\ Held(a, S, pool) \subseteq Held(d, d.alive, pool)
    <3>1. CASE pool = "attribute"
      <4>1. \A x : x \in Held(e, e.alive, pool) <=> x \in Held(d, d.alive, pool) /\ x \notin Held(a, S, pool)
        <5>1. \A x : x \in Held(e, e.alive, pool) <=> \E y \in e.alive \cap Elements : \E i \in DOMAIN e.attrs[y] : x = <<y, i>>
          BY <3>1, HeldAttributes
        <5>2. \A x : x \in Held(d, d.alive, pool) <=> \E y \in d.alive \cap Elements : \E i \in DOMAIN d.attrs[y] : x = <<y, i>>
          BY <3>1, HeldAttributes
        <5>3. \A x : x \in Held(a, S, pool) <=> \E y \in S \cap Elements : \E i \in DOMAIN d.attrs[y] : x = <<y, i>>
          BY <3>1, HeldAttributes DEF Alike
        <5>4. e.alive = d.alive \ S /\ \A y \in e.alive \cap Elements : e.attrs[y] = d.attrs[y]
          BY DEF FreedFrom, Alike
        <5>5. \A y, i, z, j : <<y, i>> = <<z, j>> => y = z
          OBVIOUS
        <5> TAKE x
        <5>6. ASSUME x \in Held(e, e.alive, pool) PROVE x \in Held(d, d.alive, pool) /\ x \notin Held(a, S, pool)
          BY <5>1, <5>2, <5>3, <5>4, <5>5, <5>6
        <5>7. ASSUME x \in Held(d, d.alive, pool), x \notin Held(a, S, pool) PROVE x \in Held(e, e.alive, pool)
          <6>1. PICK y \in d.alive \cap Elements : \E i \in DOMAIN d.attrs[y] : x = <<y, i>>
            BY <5>2, <5>7
          <6>2. PICK i \in DOMAIN d.attrs[y] : x = <<y, i>>
            BY <6>1
          <6>3. y \notin S
            BY <5>3, <5>7, <6>2
          <6>4. y \in e.alive \cap Elements /\ i \in DOMAIN e.attrs[y]
            BY <5>4, <6>2, <6>3
          <6> QED
            BY <5>1, <6>2, <6>4
        <5> QED
          BY <5>6, <5>7
      <4>2. \A x : x \in Held(a, S, pool) => x \in Held(d, d.alive, pool)
        BY <3>1, HeldAttributes DEF Alike
      <4> QED
        BY <4>1, <4>2
    <3>2. CASE pool # "attribute"
      BY <3>2 DEF Held, FreedFrom, Alike
    <3> QED
      BY <3>1, <3>2
  <2>2. IsFiniteSet(Held(d, d.alive, pool)) /\ Cardinality(Held(d, d.alive, pool)) \in Nat
    BY <1>0, HeldFinite
  <2>3. Cardinality(Held(e, e.alive, pool)) = Cardinality(Held(d, d.alive, pool)) - Cardinality(Held(a, S, pool))
    <3> DEFINE H == Held(d, d.alive, pool)
               G == Held(a, S, pool)
    <3> HIDE DEF H, G
    <3>1. H \cap G = G /\ IsFiniteSet(H)
      BY <2>1, <2>2 DEF H, G
    <3>2. Cardinality(H \ G) = Cardinality(H) - Cardinality(H \cap G)
      BY <3>1, FS_Difference
    <3> QED
      BY <2>1, <3>1, <3>2 DEF H, G
  <2>4. e.current[pool] = d.current[pool] - Cardinality(Held(a, S, pool))
    BY DEF FreedFrom, Alike
  <2> QED
    BY <1>0, <2>3, <2>4 DEF Counted
<1>6. \A pool \in {"element", "text"} : Loose(e, pool) = Loose(d, pool)
  <2> TAKE pool \in {"element", "text"}
  <2>1. \A n \in d.alive : (n \in e.alive /\ e.parent[n] = Null) <=> d.parent[n] = Null
    BY <1>0 DEF FreedFrom, Alike, Doms
  <2>2. e.alive \subseteq d.alive
    BY DEF FreedFrom, Alike
  <2>3. Loose(e, pool) = {n \in e.alive : PoolOf(n) = pool /\ e.parent[n] = Null}
    BY LooseIs
  <2>4. Loose(d, pool) = {n \in d.alive : PoolOf(n) = pool /\ d.parent[n] = Null}
    BY LooseIs
  <2> QED
    BY <2>1, <2>2, <2>3, <2>4
<1>7. IsFiniteSet(e.alive)
  BY <1>0, FS_Subset DEF FreedFrom, Alike
<1>8. Counted(e)
  BY <1>0, <1>5, <1>6, <1>7 DEF Counted, FreedFrom, Alike
<1> QED
  BY <1>0, <1>1, <1>2, <1>3, <1>4, <1>8 DEF Sound

(* A node that is linked may be deleted, with all that is beneath it. *)
LEMMA DeleteSound ==
    ASSUME NEW d, Sound(d), NEW n \in d.alive, d.parent[n] # Null
    PROVE  Sound(DeleteNode(d, n))
<1> DEFINE p == d.parent[n]
           a == Unlink(d, p, n)
           S == {n} \cup Beneath(a, n)
<1>0. d \in Doms /\ Listed(d) /\ Parted(d) /\ n \in Nodes /\ p \in Containers /\ Living(d) /\ IsFiniteSet(d.alive)
      /\ Null \notin Nodes
  BY DistinctAssumption DEF Sound, Counted, Doms, Nodes
<1>1. a = Taken(d, n) /\ d.untracked = Away(d, n)
  BY DEF Taken, Away
<1> HIDE DEF a, p
<1>2. a \in Doms /\ Alike(d, a) /\ Listed(a) /\ a.untracked = d.untracked
      /\ (\A m \in Nodes : a.parent[m] = IF m = n THEN Null ELSE d.parent[m])
      /\ (\A m \in Nodes : m # n /\ a.parent[m] = Null => a.prev[m] = Null /\ a.next[m] = Null)
  BY <1>0, <1>1, TakenFields
<1>3. /\ Beneath(a, n) \in SUBSET Nodes
      /\ \A m \in Nodes : m \in Beneath(a, n) <=> a.parent[m] \in S
  BY <1>2, BeneathClosed
<1>4. \A m \in S : d.parent[m] # Null /\ m \in d.alive
  BY <1>0, <1>2, <1>3 DEF Living, p
<1>5. FreedFrom(a, S, S, Freed(a, S))
  BY <1>0, <1>2, <1>4, FreedFields DEF Alike
<1>6. \A m \in Nodes : a.parent[m] # Null => (m \in S <=> a.parent[m] \in S)
  BY <1>2, <1>3
<1>7. Sound(Freed(a, S))
  BY <1>2, <1>4, <1>5, <1>6, FreedSound
<1> QED
  BY <1>7 DEF DeleteNode, a, p

(* The children of a node may be deleted; no node comes of it. *)
LEMMA EmptySound ==
    ASSUME NEW d, Sound(d), NEW p \in Containers
    PROVE  Sound(DeleteChildren(d, p)) /\ DeleteChildren(d, p).alive \subseteq d.alive
<1> DEFINE S == Beneath(d, p)
           f == Freed(d, S)
           e == DeleteChildren(d, p)
<1>0. d \in Doms /\ Listed(d) /\ Parted(d) /\ Living(d) /\ IsFiniteSet(d.alive) /\ Null \notin Nodes /\ p # Null
  BY DistinctAssumption DEF Sound, Counted, Doms, Nodes, Containers
<1>3. /\ S \in SUBSET Nodes
      /\ \A m \in Nodes : m \in S <=> d.parent[m] \in S \cup {p}
  BY <1>0, BeneathClosed
<1>4. \A m \in S : d.parent[m] # Null /\ m \in d.alive
  BY <1>0, <1>3 DEF Living
<1>5. FreedFrom(d, S, S, f)
  BY <1>0, <1>4, FreedFields
<1>6. e = [f EXCEPT !.first[p] = Null, !.last[p] = Null]
  BY DEF DeleteChildren
<1> HIDE DEF S, e, f
<1>7. f \in Doms
  BY <1>5 DEF FreedFrom
<1>8. e \in Doms
  BY <1>6, <1>7 DEF Doms, Node0
<1>9. /\ e.first = [f.first EXCEPT ![p] = Null] /\ e.last = [f.last EXCEPT ![p] = Null]
      /\ e.prev = f.prev /\ e.next = f.next /\ e.parent = f.parent
      /\ e.attrs = f.attrs /\ e.alive = f.alive /\ e.current = f.current
      /\ e.untracked = f.untracked /\ e.error = f.error /\ e.failures = f.failures
  BY <1>6, <1>7 DEF Doms
<1>10. f.first \in [Containers -> Node0] /\ f.last \in [Containers -> Node0]
  BY <1>7 DEF Doms
<1>11. FreedFrom(d, S, S \cup {p}, e)
  BY <1>5, <1>8, <1>9, <1>10 DEF FreedFrom
<1>12. \A m \in Nodes : d.parent[m] # Null => (m \in S <=> d.parent[m] \in S \cup {p})
  BY <1>3
<1>13. \A m \in Nodes : d.parent[m] = Null => d.prev[m] = Null /\ d.next[m] = Null
  BY <1>0 DEF Parted
<1>14. Alike(d, d)
  BY DEF Alike
<1>15. Sound(e)
  BY <1>0, <1>4, <1>11, <1>12, <1>13, <1>14, FreedSound
<1> QED
  BY <1>11, <1>15 DEF e, FreedFrom

-----------------------------------------------------------------------------
(* Attributes. *)

(* An attribute. *)
Item == [name : Names, value : Values]

(* The attributes of an element are a list of items. *)
LEMMA ItemLists ==
    ASSUME NEW d \in Doms, NEW x \in Elements
    PROVE  d.attrs[x] \in Seq(Item) /\ Len(d.attrs[x]) \in Nat /\ DOMAIN d.attrs[x] = 1 .. Len(d.attrs[x])
<1>1. d.attrs \in [Elements -> Seq(Item)]
  BY DEF Doms, Item
<1>2. d.attrs[x] \in Seq(Item)
  BY <1>1
<1> QED
  BY <1>2

(* FindAttribute gives the place of an attribute of that name, or 0 if there is none. *)
LEMMA FindFacts ==
    ASSUME NEW s \in Seq(Item), NEW name
    PROVE  /\ FindAttribute(s, name) \in 0 .. Len(s)
           /\ FindAttribute(s, name) = 0 <=> \A i \in 1 .. Len(s) : s[i].name # name
           /\ FindAttribute(s, name) # 0 => s[FindAttribute(s, name)].name = name
<1> DEFINE found == {i \in DOMAIN s : s[i].name = name}
<1>1. found \in SUBSET Nat /\ found \subseteq 1 .. Len(s) /\ Len(s) \in Nat /\ DOMAIN s = 1 .. Len(s)
  OBVIOUS
<1>2. FindAttribute(s, name) = IF found = {} THEN 0 ELSE CHOOSE i \in found : \A j \in found : i <= j
  BY DEF FindAttribute
<1>3. CASE found = {}
  BY <1>1, <1>2, <1>3
<1>4. CASE found # {}
  <2>1. \E i \in found : \A j \in found : i <= j
    <3> HIDE DEF found
    <3> QED
      BY <1>1, <1>4, Least
  <2>2. FindAttribute(s, name) \in found
    <3> HIDE DEF found
    <3> QED
      BY <1>2, <1>4, <2>1
  <2> QED
    BY <1>1, <2>2
<1> QED
  BY <1>3, <1>4

(* e is d with the attributes s of x. *)
SetTo(d, e, x, s) ==
    /\ e \in Doms
    /\ e.parent = d.parent /\ e.prev = d.prev /\ e.next = d.next /\ e.first = d.first /\ e.last = d.last
    /\ e.alive = d.alive /\ e.untracked = d.untracked /\ e.error = d.error /\ e.failures = d.failures
    /\ e.attrs = [d.attrs EXCEPT ![x] = s]
    /\ e.current = [d.current EXCEPT !["attribute"] = @ + Len(s) - Len(d.attrs[x])]

(* SetAttribute writes to the attribute of that name, or appends one. *)
LEMMA SetFields ==
    ASSUME NEW d \in Doms, NEW x \in Elements, NEW name \in Names, NEW value \in Values
    PROVE  \E s \in Seq(Item) :
              /\ SetTo(d, SetAttribute(d, x, name, value), x, s)
              /\ LET old == d.attrs[x]
                     i   == FindAttribute(old, name)
                 IN  s = IF i = 0 THEN Append(old, [name |-> name, value |-> value])
                         ELSE [old EXCEPT ![i].value = value]
<1> DEFINE old == d.attrs[x]
           i == FindAttribute(old, name)
           new == [name |-> name, value |-> value]
           e == SetAttribute(d, x, name, value)
<1>1. old \in Seq(Item) /\ new \in Item /\ Len(old) \in Nat
  <2>1. d.attrs \in [Elements -> Seq(Item)]
    BY DEF Doms, Item
  <2>2. new \in Item
    BY DEF Item
  <2> QED
    BY <2>1, <2>2
<1>2. i \in 0 .. Len(old)
  BY <1>1, FindFacts
<1>3. CASE i = 0
  <2> DEFINE s == Append(old, new)
             a == [d.attrs EXCEPT ![x] = s]
             c == [d.current EXCEPT !["attribute"] = @ + 1]
             u == [[d.untracked EXCEPT !["attribute"] = @ + 1] EXCEPT !["attribute"] = @ - 1]
  <2>1. s \in Seq(Item) /\ Len(s) = Len(old) + 1
    BY <1>1, AppendFacts
  <2>2. e = [d EXCEPT !.current = c, !.untracked = u, !.attrs = a]
    <3>1. Alloc(d, "attribute") = [d EXCEPT !.current = c, !.untracked = [d.untracked EXCEPT !["attribute"] = @ + 1]]
      BY DEF Alloc
    <3> DEFINE b == Alloc(d, "attribute")
    <3>2. b.untracked = [d.untracked EXCEPT !["attribute"] = @ + 1] /\ b.attrs = d.attrs
      BY <3>1 DEF Doms
    <3>3. SetTracked(b, "attribute") = [b EXCEPT !.untracked = u]
      BY <3>2 DEF SetTracked
    <3>4. SetTracked(b, "attribute") = [d EXCEPT !.current = c, !.untracked = u]
      BY <3>1, <3>3 DEF Doms
    <3>5. SetTracked(b, "attribute").attrs = d.attrs
      BY <3>4 DEF Doms
    <3>6. e = [SetTracked(b, "attribute") EXCEPT !.attrs = a]
      BY <1>3, <3>5 DEF SetAttribute
    <3> QED
      BY <3>4, <3>6
  <2>3. u = d.untracked /\ c \in [Pools -> Int] /\ d.untracked \in [Pools -> Int] /\ d.current \in [Pools -> Int]
    <3>1. d.untracked \in [Pools -> Int] /\ d.current \in [Pools -> Int] /\ "attribute" \in Pools
      BY DEF Doms, Pools
    <3>2. \A k \in Pools : u[k] = d.untracked[k]
      BY <3>1
    <3>3. u = d.untracked
      BY <3>1, <3>2
    <3>4. c \in [Pools -> Int]
      BY <3>1
    <3> QED
      BY <3>1, <3>3, <3>4
  <2>4. a \in [Elements -> Seq(Item)]
    BY <2>1 DEF Doms, Item
  <2>5. c = [d.current EXCEPT !["attribute"] = @ + Len(s) - Len(d.attrs[x])]
    BY <1>1, <2>1, <2>3 DEF Pools
  <2> HIDE DEF a, c, u, e, s, old
  <2>6. e \in Doms
    BY <2>2, <2>3, <2>4 DEF Doms, Item
  <2>7. /\ e.parent = d.parent /\ e.prev = d.prev /\ e.next = d.next /\ e.first = d.first /\ e.last = d.last
        /\ e.alive = d.alive /\ e.untracked = u /\ e.error = d.error /\ e.failures = d.failures
        /\ e.attrs = a /\ e.current = c
    BY <2>2 DEF Doms
  <2>8. SetTo(d, e, x, s)
    BY <2>3, <2>5, <2>6, <2>7 DEF SetTo, a
  <2> QED
    BY <1>3, <2>1, <2>8 DEF s, e, old
<1>4. CASE i # 0
  <2> DEFINE s == [old EXCEPT ![i].value = value]
             a == [d.attrs EXCEPT ![x] = s]
  <2>1. s \in Seq(Item) /\ Len(s) = Len(old)
    <3>1. i \in 1 .. Len(old) /\ old[i] \in Item
      BY <1>1, <1>2, <1>4
    <3>2. [old[i] EXCEPT !.value = value] \in Item
      BY <3>1 DEF Item
    <3>3. s = [old EXCEPT ![i] = [old[i] EXCEPT !.value = value]]
      OBVIOUS
    <3> HIDE DEF old, i, s
    <3> QED
      BY <1>1, <3>1, <3>2, <3>3
  <2>2. e = [d EXCEPT !.attrs = a]
    BY <1>4 DEF SetAttribute
  <2>3. d.current = [d.current EXCEPT !["attribute"] = @ + Len(s) - Len(d.attrs[x])]
    BY <1>1, <2>1 DEF Doms, Pools
  <2>4. a \in [Elements -> Seq(Item)]
    BY <2>1 DEF Doms, Item
  <2> HIDE DEF a, e, s, old
  <2>6. e \in Doms
    BY <2>2, <2>4 DEF Doms, Item
  <2>7. /\ e.parent = d.parent /\ e.prev = d.prev /\ e.next = d.next /\ e.first = d.first /\ e.last = d.last
        /\ e.alive = d.alive /\ e.untracked = d.untracked /\ e.error = d.error /\ e.failures = d.failures
        /\ e.attrs = a /\ e.current = d.current
    BY <2>2 DEF Doms
  <2>8. SetTo(d, e, x, s)
    BY <2>3, <2>6, <2>7 DEF SetTo, a
  <2> QED
    BY <1>4, <2>1, <2>8 DEF s, e, old
<1> QED
  BY <1>3, <1>4

(* An element may be given any list of attributes of different names, one more or less than
   before. *)
LEMMA SetSound ==
    ASSUME NEW d, Sound(d), NEW x \in d.alive \cap Elements, NEW s \in Seq(Item), NEW e, SetTo(d, e, x, s),
           Len(s) \in {Len(d.attrs[x]) - 1, Len(d.attrs[x]), Len(d.attrs[x]) + 1},
           \A i, j \in 1 .. Len(s) : s[i].name = s[j].name => i = j
    PROVE  Sound(e)
<1> DEFINE old == d.attrs[x]
<1>0. d \in Doms /\ Counted(d) /\ Living(d) /\ Named(d) /\ IsFiniteSet(d.alive) /\ e \in Doms /\ x \in Elements
  BY DEF Sound, Counted, SetTo
<1>1. Listed(e) /\ Parted(e)
  BY SameLists DEF Sound, Parted, SetTo
<1>2. \A y \in Elements : e.attrs[y] = IF y = x THEN s ELSE d.attrs[y]
  BY <1>0 DEF SetTo, Doms
<1>3. Living(e)
  BY <1>0, <1>2, SMTT(30) DEF Living, SetTo
<1>4. Named(e)
  <2>1. DOMAIN s = 1 .. Len(s)
    OBVIOUS
  <2> QED
    BY <1>0, <1>2, <2>1 DEF Named
<1>5. old \in Seq(Item) /\ Len(old) \in Nat /\ DOMAIN old = 1 .. Len(old) /\ Len(s) \in Nat /\ DOMAIN s = 1 .. Len(s)
  BY <1>0, ItemLists
<1> DEFINE H == Held(d, d.alive, "attribute")
           G == Held(e, e.alive, "attribute")
<1>6. IsFiniteSet(H) /\ Cardinality(H) \in Nat
  BY <1>0, HeldFinite DEF Pools
<1>7. \A z : z \in H <=> \E y \in d.alive \cap Elements : \E i \in DOMAIN d.attrs[y] : z = <<y, i>>
  BY HeldAttributes
<1>8. \A z : z \in G <=> \E y \in d.alive \cap Elements : \E i \in DOMAIN e.attrs[y] : z = <<y, i>>
  <2>1. e.alive = d.alive
    BY DEF SetTo
  <2> QED
    BY <2>1, HeldAttributes
<1> HIDE DEF H, G, old
<1>9. \A z : z \in G <=> (z \in H /\ \A i : z # <<x, i>>) \/ \E i \in 1 .. Len(s) : z = <<x, i>>
  <2> TAKE z
  <2>0. \A y, i, v, j : <<y, i>> = <<v, j>> => y = v /\ i = j
    OBVIOUS
  <2>1. ASSUME NEW y \in d.alive \cap Elements, y # x, NEW i, z = <<y, i>>
        PROVE  (z \in G <=> z \in H) /\ \A j : z # <<x, j>>
    BY <1>2, <1>7, <1>8, <2>0, <2>1
  <2>2. ASSUME NEW i, z = <<x, i>>
        PROVE  z \in G <=> i \in 1 .. Len(s)
    <3>1. DOMAIN e.attrs[x] = 1 .. Len(s) /\ x \in d.alive \cap Elements
      BY <1>0, <1>2, <1>5
    <3> QED
      BY <1>8, <2>0, <2>2, <3>1, SMTT(30)
  <2>3. z \in G \/ z \in H => \E y \in d.alive \cap Elements : \E i : z = <<y, i>>
    BY <1>7, <1>8
  <2> QED
    BY <2>0, <2>1, <2>2, <2>3
<1>10. \A i : <<x, i>> \in H <=> i \in 1 .. Len(old)
  <2>0. \A y, i, v, j : <<y, i>> = <<v, j>> => y = v /\ i = j
    OBVIOUS
  <2>1. DOMAIN d.attrs[x] = 1 .. Len(old)
    BY <1>5, ZenonT(30) DEF old
  <2> QED
    BY <1>7, <2>0, <2>1, SMTT(30)
<1> DEFINE n == Len(old)
           m == Len(s)
<1>11a. n \in Nat /\ m \in Nat /\ m \in {n - 1, n, n + 1}
  BY <1>5 DEF old
<1>11b. (\A i : <<x, i>> \in H <=> i \in 1 .. n)
        /\ \A z : z \in G <=> (z \in H /\ \A i : z # <<x, i>>) \/ \E i \in 1 .. m : z = <<x, i>>
  BY <1>9, <1>10
<1> HIDE DEF n, m
<1>11. Cardinality(G) = Cardinality(H) + m - n
  <2>0. \A i, j : <<x, i>> = <<x, j>> => i = j
    OBVIOUS
  <2>1. CASE m = n
    <3>1. \A z : z \in G <=> z \in H
      BY <1>11b, <2>1
    <3>2. G = H
      BY <3>1
    <3> QED
      BY <1>11a, <1>6, <2>1, <3>2
  <2>2. CASE m = n + 1
    <3>0. \A i : i \in 1 .. m <=> i \in 1 .. n \/ i = m
      BY <1>11a, <2>2
    <3>1. \A z : z \in G <=> z \in H \/ z = <<x, m>>
      BY <1>11b, <3>0
    <3>2. G = H \cup {<<x, m>>} /\ <<x, m>> \notin H
      BY <1>11a, <1>11b, <2>2, <3>1
    <3>3. Cardinality(H \cup {<<x, m>>}) = Cardinality(H) + 1
      BY <1>6, <3>2, FS_AddElement
    <3> QED
      BY <1>11a, <1>6, <2>2, <3>2, <3>3
  <2>3. CASE m = n - 1
    <3>0. (\A i : i \in 1 .. m <=> i \in 1 .. n /\ i # n) /\ n \in 1 .. n
      BY <1>11a, <2>3
    <3>1. \A z : z \in G <=> z \in H /\ z # <<x, n>>
      BY <1>11b, <2>0, <3>0
    <3>2. G = H \ {<<x, n>>} /\ <<x, n>> \in H
      BY <1>11b, <3>0, <3>1
    <3>3. Cardinality(H \ {<<x, n>>}) = Cardinality(H) - 1
      BY <1>6, <3>2, FS_RemoveElement
    <3> QED
      BY <1>11a, <1>6, <2>3, <3>2, <3>3
  <2> QED
    BY <1>11a, <2>1, <2>2, <2>3
<1>12. \A pool \in {"element", "text"} :
          /\ Held(e, e.alive, pool) = Held(d, d.alive, pool) /\ Loose(e, pool) = Loose(d, pool)
          /\ e.current[pool] = d.current[pool]
  <2>1. d.current \in [Pools -> Int]
    BY <1>0 DEF Doms
  <2> QED
    BY <2>1 DEF SetTo, Held, Loose, Pools
<1>13. e.current["attribute"] = d.current["attribute"] + Len(s) - Len(old)
  <2>1. d.current \in [Pools -> Int]
    BY <1>0 DEF Doms
  <2> QED
    BY <2>1 DEF SetTo, Pools, old
<1>14. d.current["attribute"] = Cardinality(H)
  BY <1>0 DEF Counted, Pools, H
<1>15. e.current["attribute"] = Cardinality(Held(e, e.alive, "attribute"))
  BY <1>11, <1>13, <1>14 DEF G, n, m
<1>16. \A pool \in Pools : e.current[pool] = Cardinality(Held(e, e.alive, pool))
  BY <1>0, <1>12, <1>15 DEF Counted, Pools
<1>17. Counted(e)
  BY <1>0, <1>12, <1>16 DEF Counted, SetTo
<1> QED
  BY <1>0, <1>1, <1>3, <1>4, <1>17 DEF Sound

(* An attribute may be set. *)
LEMMA AttributeSet ==
    ASSUME NEW d, Sound(d), NEW x \in d.alive \cap Elements, NEW name \in Names, NEW value \in Values
    PROVE  Sound(SetAttribute(d, x, name, value))
<1> DEFINE old == d.attrs[x]
           i == FindAttribute(old, name)
           e == SetAttribute(d, x, name, value)
<1>0. d \in Doms /\ x \in Elements /\ Named(d)
  BY DEF Sound
<1>1. PICK s \in Seq(Item) : /\ SetTo(d, e, x, s)
                             /\ s = IF i = 0 THEN Append(old, [name |-> name, value |-> value])
                                    ELSE [old EXCEPT ![i].value = value]
  BY <1>0, SetFields
<1>2. old \in Seq(Item) /\ Len(old) \in Nat /\ DOMAIN old = 1 .. Len(old)
  BY <1>0, ItemLists
<1>3. \A j, k \in 1 .. Len(old) : old[j].name = old[k].name => j = k
  BY <1>0, <1>2 DEF Named
<1> HIDE DEF old, e
<1>4. i \in 0 .. Len(old) /\ (i = 0 <=> \A j \in 1 .. Len(old) : old[j].name # name)
      /\ (i # 0 => old[i].name = name)
  BY <1>2, FindFacts
<1> HIDE DEF i
<1>5. CASE i = 0
  <2> DEFINE new == [name |-> name, value |-> value]
  <2>1. new \in Item /\ new.name = name /\ s = Append(old, new)
    BY <1>1, <1>5 DEF Item
  <2> HIDE DEF new
  <2>2. Len(s) = Len(old) + 1 /\ (\A j \in 1 .. Len(old) : s[j] = old[j]) /\ s[Len(old) + 1] = new
    BY <1>2, <2>1, AppendFacts
  <2>3. \A j, k \in 1 .. Len(s) : s[j].name = s[k].name => j = k
    BY <1>2, <1>3, <1>4, <1>5, <2>1, <2>2
  <2> QED
    BY <1>1, <2>2, <2>3, SetSound DEF old, e
<1>6. CASE i # 0
  <2>1. s = [old EXCEPT ![i] = [old[i] EXCEPT !.value = value]] /\ i \in 1 .. Len(old)
    BY <1>1, <1>2, <1>4, <1>6
  <2>2. \A j \in 1 .. Len(old) : old[j] \in Item
    BY <1>2
  <2>3. [old[i] EXCEPT !.value = value].name = old[i].name
    BY <2>1, <2>2 DEF Item
  <2>4. Len(s) = Len(old) /\ \A j \in 1 .. Len(old) : s[j].name = old[j].name
    BY <1>2, <2>1, <2>3
  <2>5. \A j, k \in 1 .. Len(s) : s[j].name = s[k].name => j = k
    BY <1>3, <2>4
  <2> QED
    BY <1>1, <1>2, <2>4, <2>5, SetSound, ZenonT(30) DEF old, e
<1> QED
  BY <1>5, <1>6 DEF e

(* An attribute may be deleted. *)
LEMMA AttributeDeleted ==
    ASSUME NEW d, Sound(d), NEW x \in d.alive \cap Elements, NEW name \in Names
    PROVE  Sound(DeleteAttribute(d, x, name))
<1> DEFINE old == d.attrs[x]
           i == FindAttribute(old, name)
           e == DeleteAttribute(d, x, name)
           s == Without(old, i)
<1>0. d \in Doms /\ x \in Elements /\ Named(d)
  BY DEF Sound
<1>1. CASE i = 0
  BY <1>1 DEF DeleteAttribute
<1>2. CASE i # 0
  <2>1. old \in Seq(Item) /\ Len(old) \in Nat /\ DOMAIN old = 1 .. Len(old)
    BY <1>0, ItemLists
  <2>2. i \in 1 .. Len(old)
    BY <1>2, <2>1, FindFacts
  <2>3. \A j, k \in 1 .. Len(old) : old[j].name = old[k].name => j = k
    BY <1>0, <2>1 DEF Named
  <2>4. s = [j \in 1 .. Len(old) - 1 |-> IF j < i THEN old[j] ELSE old[j + 1]]
    BY DEF Without
  <2>5. e = [d EXCEPT !.current = [d.current EXCEPT !["attribute"] = @ - 1], !.attrs = [d.attrs EXCEPT ![x] = s]]
    <3>1. Free(d, "attribute") = [d EXCEPT !.current = [d.current EXCEPT !["attribute"] = @ - 1]]
      BY DEF Free
    <3>2. Free(d, "attribute").attrs = d.attrs
      BY <1>0, <3>1 DEF Doms
    <3>3. e = [Free(d, "attribute") EXCEPT !.attrs = [d.attrs EXCEPT ![x] = s]]
      BY <1>2, <3>2 DEF DeleteAttribute
    <3> QED
      BY <3>1, <3>3
  <2> DEFINE c == [d.current EXCEPT !["attribute"] = @ - 1]
             a == [d.attrs EXCEPT ![x] = s]
  <2> HIDE DEF old, i, s, e
  <2>6. s \in Seq(Item) /\ Len(s) = Len(old) - 1
    <3>1. \A j \in 1 .. Len(old) - 1 : s[j] \in Item /\ Len(old) - 1 \in Nat
      BY <2>1, <2>2, <2>4
    <3>2. Len(old) - 1 \in Nat
      BY <2>1, <2>2
    <3> QED
      BY <2>4, <3>1, <3>2
  <2>7. \A j, k \in 1 .. Len(s) : s[j].name = s[k].name => j = k
    <3> SUFFICES ASSUME NEW j \in 1 .. Len(s), NEW k \in 1 .. Len(s), s[j].name = s[k].name PROVE j = k
      OBVIOUS
    <3> DEFINE Old(m) == IF m < i THEN m ELSE m + 1
    <3>1. Old(j) \in 1 .. Len(old) /\ Old(k) \in 1 .. Len(old) /\ s[j] = old[Old(j)] /\ s[k] = old[Old(k)]
      BY <2>1, <2>2, <2>4, <2>6
    <3>2. Old(j) = Old(k)
      BY <2>3, <3>1
    <3> QED
      BY <2>2, <3>2
  <2>8. c \in [Pools -> Int] /\ a \in [Elements -> Seq(Item)]
        /\ c = [d.current EXCEPT !["attribute"] = @ + Len(s) - Len(d.attrs[x])]
    <3>1. d.current \in [Pools -> Int] /\ "attribute" \in Pools
      BY <1>0 DEF Doms, Pools
    <3>2. d.attrs \in [Elements -> Seq(Item)]
      BY <1>0 DEF Doms, Item
    <3>3. d.current["attribute"] - 1 = d.current["attribute"] + Len(s) - Len(d.attrs[x])
      BY <2>1, <2>6, <3>1 DEF old
    <3>4. c \in [Pools -> Int]
      BY <3>1
    <3>5. a \in [Elements -> Seq(Item)]
      BY <2>6, <3>2
    <3> QED
      BY <3>3, <3>4, <3>5
  <2>9. e = [d EXCEPT !.current = c, !.attrs = a]
    BY <2>5
  <2> HIDE DEF c, a
  <2>10. e \in Doms
    BY <1>0, <2>8, <2>9 DEF Doms, Item
  <2>11. /\ e.parent = d.parent /\ e.prev = d.prev /\ e.next = d.next /\ e.first = d.first /\ e.last = d.last
         /\ e.alive = d.alive /\ e.untracked = d.untracked /\ e.error = d.error /\ e.failures = d.failures
         /\ e.attrs = a /\ e.current = c
    BY <1>0, <2>9 DEF Doms
  <2>12. SetTo(d, e, x, s)
    BY <2>8, <2>10, <2>11 DEF SetTo, a
  <2> QED
    BY <2>6, <2>7, <2>12, SetSound DEF old, e
<1> QED
  BY <1>1, <1>2

(* Attributes are copied one by one. *)
LEMMA CopiedSteps ==
    ASSUME NEW d \in Doms, NEW x \in Elements, NEW attrs \in Seq(Item)
    PROVE  /\ Copied(d, x, attrs)[0] = d
           /\ \A i \in 1 .. Len(attrs) :
                 Copied(d, x, attrs)[i] = SetAttribute(Copied(d, x, attrs)[i - 1], x, attrs[i].name, attrs[i].value)
<1> DEFINE n == Len(attrs)
           Set(k, b) == SetAttribute(b, x, attrs[k].name, attrs[k].value)
           step == [p \in Nat \X Doms |-> IF p[1] + 1 \in 1 .. n THEN Set(p[1] + 1, p[2]) ELSE p[2]]
<1>1. n \in Nat /\ \A k \in 1 .. n : attrs[k].name \in Names /\ attrs[k].value \in Values
  <2>1. \A k \in 1 .. n : attrs[k] \in Item
    OBVIOUS
  <2> QED
    BY <2>1 DEF Item
<1>2. ASSUME NEW k \in 1 .. n, NEW b \in Doms PROVE Set(k, b) \in Doms
  BY <1>1, SetFields DEF SetTo
<1> HIDE DEF n, Set
<1>3. step \in [Nat \X Doms -> Doms]
  <2>1. ASSUME NEW p \in Nat \X Doms PROVE (IF p[1] + 1 \in 1 .. n THEN Set(p[1] + 1, p[2]) ELSE p[2]) \in Doms
    <3>1. p[2] \in Doms
      OBVIOUS
    <3> QED
      BY <1>2, <3>1
  <2> QED
    BY <2>1
<1> HIDE DEF step
<1>4. PICK f : RecursUpto(f, n, Doms, d, step)
  BY <1>1, <1>3, RecursionUpto
<1>5. f \in [0 .. n -> Doms] /\ f[0] = d
  BY <1>4 DEF RecursUpto
<1>6. ASSUME NEW k \in 0 .. n, k # 0 PROVE f[k] = Set(k, f[k - 1])
  <2>1. k - 1 \in Nat /\ k - 1 \in 0 .. n /\ k - 1 \in 0 .. n - 1 /\ (k - 1) + 1 = k /\ k \in 1 .. n
    BY <1>6, <1>1
  <2>2. f[k - 1] \in Doms
    BY <2>1, <1>5, Zenon
  <2>3. f[(k - 1) + 1] = step[<<k - 1, f[k - 1]>>]
    BY <1>4, <2>1 DEF RecursUpto
  <2>4. <<k - 1, f[k - 1]>> \in Nat \X Doms
    BY <2>1, <2>2
  <2>5. step[<<k - 1, f[k - 1]>>] = Set((k - 1) + 1, f[k - 1])
    BY <2>1, <2>4 DEF step
  <2> QED
    BY <2>1, <2>3, <2>5
<1> DEFINE Defines(g) == g = [i \in 0 .. n |-> IF i = 0 THEN d ELSE SetAttribute(g[i - 1], x, attrs[i].name, attrs[i].value)]
<1>7. Defines(f)
  BY <1>5, <1>6 DEF Set
<1>8. Copied(d, x, attrs) = CHOOSE g : Defines(g)
  BY DEF Copied, n
<1>9. Defines(Copied(d, x, attrs))
  BY <1>7, <1>8, Zenon
<1> DEFINE g == Copied(d, x, attrs)
<1> HIDE DEF g
<1>10. g = [i \in 0 .. n |-> IF i = 0 THEN d ELSE SetAttribute(g[i - 1], x, attrs[i].name, attrs[i].value)]
  BY <1>9 DEF g
<1>11. g[0] = d
  BY <1>1, <1>10
<1>12. ASSUME NEW i \in 1 .. n PROVE g[i] = SetAttribute(g[i - 1], x, attrs[i].name, attrs[i].value)
  <2>1. i \in 0 .. n /\ i # 0
    BY <1>1
  <2> QED
    BY <1>10, <2>1
<1> QED
  BY <1>11, <1>12 DEF g, n

(* To an element without attributes a list of different names is copied as it is. *)
LEMMA CopySound ==
    ASSUME NEW d, Sound(d), NEW x \in d.alive \cap Elements, d.attrs[x] = <<>>, NEW attrs \in Seq(Item),
           \A i, j \in 1 .. Len(attrs) : attrs[i].name = attrs[j].name => i = j
    PROVE  /\ Sound(CopyAttributes(d, x, attrs)) /\ CopyAttributes(d, x, attrs).attrs[x] = attrs
           /\ \A y \in Elements : y # x => CopyAttributes(d, x, attrs).attrs[y] = d.attrs[y]
<1> DEFINE g == Copied(d, x, attrs)
           n == Len(attrs)
           Right(i) == /\ Sound(g[i]) /\ g[i].alive = d.alive
                       /\ Len(g[i].attrs[x]) = i /\ \A j \in 1 .. i : g[i].attrs[x][j] = attrs[j]
                       /\ \A y \in Elements : y # x => g[i].attrs[y] = d.attrs[y]
           S == {i \in 0 .. n : Right(i)}
<1>0. d \in Doms /\ x \in Elements /\ n \in Nat
  BY DEF Sound
<1>1. g[0] = d /\ \A i \in 1 .. n : g[i] = SetAttribute(g[i - 1], x, attrs[i].name, attrs[i].value)
  BY <1>0, CopiedSteps
<1> HIDE DEF g
<1>2. 0 \in S
  BY <1>0, <1>1
<1>3. ASSUME NEW k \in 0 .. n - 1, Right(k) PROVE Right(k + 1)
  <2> DEFINE b == g[k]
             e == g[k + 1]
             name == attrs[k + 1].name
             value == attrs[k + 1].value
             old == b.attrs[x]
             i == FindAttribute(old, name)
  <2>1. k + 1 \in 1 .. n /\ attrs[k + 1] \in Item /\ name \in Names /\ value \in Values /\ k \in Nat
        /\ attrs[k + 1] = [name |-> name, value |-> value]
    <3>1. k + 1 \in 1 .. n /\ k \in Nat
      BY <1>0
    <3>2. attrs[k + 1] \in Item
      BY <3>1
    <3> QED
      BY <3>1, <3>2 DEF Item
  <2>2. e = SetAttribute(b, x, name, value)
    BY <1>1, <2>1
  <2>3. /\ Sound(b) /\ b.alive = d.alive /\ Len(old) = k /\ (\A j \in 1 .. k : old[j] = attrs[j]) /\ b \in Doms
        /\ \A y \in Elements : y # x => b.attrs[y] = d.attrs[y]
    BY <1>3 DEF Sound
  <2> HIDE DEF b, e
  <2>4. Sound(e)
    BY <2>1, <2>2, <2>3, AttributeSet
  <2>5. PICK s \in Seq(Item) : /\ SetTo(b, e, x, s)
                               /\ s = IF i = 0 THEN Append(old, [name |-> name, value |-> value])
                                      ELSE [old EXCEPT ![i].value = value]
    BY <1>0, <2>1, <2>2, <2>3, SetFields, SMTT(30)
  <2>6. old \in Seq(Item)
    BY <1>0, <2>3, ItemLists
  <2>7. i = 0
    <3>1. \A j \in 1 .. Len(old) : old[j].name # name
      <4> SUFFICES ASSUME NEW j \in 1 .. k PROVE old[j].name # name
        BY <2>3
      <4>1. j \in 1 .. n /\ j # k + 1
        BY <2>1
      <4> QED
        BY <2>1, <2>3, <4>1
    <3> QED
      BY <2>6, <3>1, FindFacts
  <2>8. s = Append(old, attrs[k + 1])
    BY <2>1, <2>5, <2>7, SMTT(30)
  <2>9. /\ e.attrs[x] = s /\ e.alive = d.alive
        /\ \A y \in Elements : y # x => e.attrs[y] = d.attrs[y]
    <3>1. b.attrs \in [Elements -> Seq(Item)]
      BY <2>3 DEF Doms, Item
    <3> QED
      BY <1>0, <2>3, <2>5, <3>1 DEF SetTo
  <2>10. Len(s) = k + 1 /\ \A j \in 1 .. k + 1 : s[j] = attrs[j]
    <3>1. /\ Len(s) = Len(old) + 1 /\ (\A j \in DOMAIN old : s[j] = old[j]) /\ s[Len(old) + 1] = attrs[k + 1]
      BY <2>1, <2>6, <2>8, AppendFacts
    <3>2. DOMAIN old = 1 .. k
      BY <2>3, <2>6
    <3> QED
      BY <2>1, <2>3, <3>1, <3>2
  <2> QED
    BY <2>4, <2>9, <2>10 DEF e
<1>4. \A k \in 0 .. n - 1 : k \in S => k + 1 \in S
  <2> HIDE DEF Right
  <2> QED
    BY <1>0, <1>3
<1>5. n \in S
  <2> HIDE DEF S, n
  <2>1. 0 .. n \subseteq S
    BY <1>0, <1>2, <1>4, InductUpto
  <2> QED
    BY <1>0, <2>1
<1>6. CopyAttributes(d, x, attrs) = g[n]
  BY DEF CopyAttributes, g
<1>7. Right(n)
  BY <1>5
<1>8. g[n].attrs[x] = attrs
  <2>1. g[n].attrs[x] \in Seq(Item)
    BY <1>0, <1>7, ItemLists DEF Sound
  <2> HIDE DEF g
  <2> DEFINE a == g[n].attrs[x]
  <2>2. a \in Seq(Item) /\ Len(a) = Len(attrs) /\ \A i \in 1 .. Len(a) : a[i] = attrs[i]
    BY <1>7, <2>1
  <2> HIDE DEF a
  <2>3. a = attrs
    BY <2>2, SameList
  <2> QED
    BY <2>3 DEF a
<1> QED
  BY <1>6, <1>7, <1>8

-----------------------------------------------------------------------------
(* Lookups. *)

(* A walk has as many steps as there are nodes. *)
Count == Cardinality(dom.alive)

(* A walk goes on along link until there is nothing. *)
LEMMA WalkSteps ==
    ASSUME Count \in Nat, NEW link \in [Nodes -> Node0], NEW start \in Node0
    PROVE  /\ DOMAIN Walk(link, start) = 0 .. Count
           /\ Walk(link, start)[0] = start
           /\ \A k \in 1 .. Count :
                 Walk(link, start)[k] = IF Walk(link, start)[k - 1] = Null THEN Null ELSE link[Walk(link, start)[k - 1]]
<1> DEFINE n == Count
           To(x) == IF x = Null THEN Null ELSE link[x]
           step == [p \in Nat \X Node0 |-> To(p[2])]
<1>1. \A x \in Node0 : To(x) \in Node0
  BY DEF Node0
<1> HIDE DEF n, To
<1>3. step \in [Nat \X Node0 -> Node0]
  BY <1>1
<1> HIDE DEF step
<1>4. PICK f : RecursUpto(f, n, Node0, start, step)
  BY <1>1, <1>3, RecursionUpto DEF n
<1>5. f \in [0 .. n -> Node0] /\ f[0] = start /\ n \in Nat
  BY <1>4 DEF RecursUpto, n
<1>6. ASSUME NEW k \in 0 .. n, k # 0 PROVE f[k] = To(f[k - 1])
  <2>1. k - 1 \in Nat /\ k - 1 \in 0 .. n /\ k - 1 \in 0 .. n - 1 /\ (k - 1) + 1 = k /\ k \in 1 .. n
    BY <1>6, <1>5
  <2>2. f[k - 1] \in Node0
    BY <2>1, <1>5, Zenon
  <2>3. f[(k - 1) + 1] = step[<<k - 1, f[k - 1]>>]
    BY <1>4, <2>1 DEF RecursUpto
  <2>4. <<k - 1, f[k - 1]>> \in Nat \X Node0
    BY <2>1, <2>2
  <2>5. step[<<k - 1, f[k - 1]>>] = To(f[k - 1])
    BY <2>1, <2>4 DEF step
  <2> QED
    BY <2>1, <2>3, <2>5
<1> DEFINE Defines(g) == g = [k \in 0 .. n |-> IF k = 0 THEN start ELSE IF g[k - 1] = Null THEN Null ELSE link[g[k - 1]]]
<1>7. Defines(f)
  BY <1>5, <1>6 DEF To
<1>8. Walk(link, start) = CHOOSE g : Defines(g)
  BY DEF Walk, n, Count
<1>9. Defines(Walk(link, start))
  <2> HIDE DEF Defines
  <2>1. Defines(CHOOSE g : Defines(g))
    BY <1>7
  <2> QED
    BY <2>1, <1>8
<1> DEFINE g == Walk(link, start)
<1> HIDE DEF g
<1>10. g = [k \in 0 .. n |-> IF k = 0 THEN start ELSE IF g[k - 1] = Null THEN Null ELSE link[g[k - 1]]]
  BY <1>9 DEF g
<1>11. g[0] = start /\ DOMAIN g = 0 .. n
  BY <1>5, <1>10
<1>12. ASSUME NEW k \in 1 .. n PROVE g[k] = IF g[k - 1] = Null THEN Null ELSE link[g[k - 1]]
  <2>1. k \in 0 .. n /\ k # 0
    BY <1>5
  <2> QED
    BY <1>10, <2>1
<1> QED
  BY <1>11, <1>12 DEF g, n

Way(link, way, m) ==
    /\ m \in Nat /\ m <= Count
    /\ way \in [Nat -> Node0]
    /\ \A k \in Nat : way[k] # Null <=> k < m
    /\ \A k \in Nat : way[k] # Null => link[way[k]] = way[k + 1]

(* A walk is the way, as far as it goes. *)
LEMMA WalkIs ==
    ASSUME Count \in Nat, NEW link \in [Nodes -> Node0], NEW way, NEW m, Way(link, way, m)
    PROVE  DOMAIN Walk(link, way[0]) = 0 .. Count /\ \A k \in 0 .. Count : Walk(link, way[0])[k] = way[k]
<1> DEFINE g == Walk(link, way[0])
           S == {k \in 0 .. Count : g[k] = way[k]}
<1>0. way[0] \in Node0 /\ m \in Nat
  BY DEF Way
<1>1. DOMAIN g = 0 .. Count /\ g[0] = way[0]
      /\ \A k \in 1 .. Count : g[k] = IF g[k - 1] = Null THEN Null ELSE link[g[k - 1]]
  BY <1>0, WalkSteps
<1> HIDE DEF g
<1>2. 0 \in S
  BY <1>1
<1>3. ASSUME NEW k \in 0 .. Count - 1, k \in S PROVE k + 1 \in S
  <2>1. k + 1 \in 1 .. Count /\ k + 1 - 1 = k /\ k \in Nat /\ k + 1 \in Nat /\ g[k] = way[k] /\ k + 1 \in 0 .. Count
    BY <1>3
  <2>2. g[k + 1] = IF way[k] = Null THEN Null ELSE link[way[k]]
    BY <1>1, <2>1
  <2>3. way[k] = Null => way[k + 1] = Null
    BY <1>0, <2>1 DEF Way
  <2>4. way[k] # Null => link[way[k]] = way[k + 1]
    BY <2>1 DEF Way
  <2>5. g[k + 1] = way[k + 1]
    BY <2>2, <2>3, <2>4
  <2> QED
    BY <2>1, <2>5
<1>4. 0 .. Count \subseteq S
  <2> HIDE DEF S
  <2> QED
    BY <1>2, <1>3, InductUpto
<1> QED
  BY <1>1, <1>4 DEF g

(* A trail is the part of the way where there are nodes. *)
LEMMA TrailIs ==
    ASSUME Count \in Nat, NEW link \in [Nodes -> Node0], NEW way, NEW m, Way(link, way, m)
    PROVE  Trail(link, way[0]) = [i \in 1 .. m |-> way[i - 1]]
<1> DEFINE g == Walk(link, way[0])
           T == {k \in DOMAIN g : g[k] # Null}
<1>1. DOMAIN g = 0 .. Count /\ \A k \in 0 .. Count : g[k] = way[k]
  BY WalkIs
<1>2. m \in Nat /\ m <= Count /\ \A k \in Nat : way[k] # Null <=> k < m
  BY DEF Way
<1>0. Trail(link, way[0]) = [i \in 1 .. Cardinality(T) |-> g[i - 1]]
  BY DEF Trail
<1> HIDE DEF g
<1>3. \A k : k \in T <=> k \in 0 .. m - 1
  BY <1>1, <1>2
<1>4. T = 0 .. m - 1
  <2> HIDE DEF T
  <2> QED
    BY <1>3
<1>5. Cardinality(T) = m
  <2> HIDE DEF T
  <2>1. m - 1 \in Int /\ 0 \in Int
    BY <1>2
  <2>2. Cardinality(0 .. m - 1) = IF 0 > m - 1 THEN 0 ELSE m - 1 - 0 + 1
    BY <2>1, FS_Interval
  <2> QED
    BY <1>2, <1>4, <2>2
<1>6. \A i \in 1 .. m : g[i - 1] = way[i - 1]
  BY <1>1, <1>2
<1> QED
  BY <1>0, <1>5, <1>6

(* FirstElement gives the first element on the way, or nothing if there is none. *)
LEMMA FirstIs ==
    ASSUME Count \in Nat, NEW link \in [Nodes -> Node0], NEW way, NEW m, Way(link, way, m)
    PROVE  LET e == FirstElement(link, way[0]) IN
           \/ e = Null /\ \A k \in Nat : way[k] \notin Elements
           \/ \E k \in Nat : /\ e = way[k] /\ k < m /\ way[k] \in Elements
                             /\ \A j \in 0 .. k - 1 : way[j] \notin Elements
<1> DEFINE g == Walk(link, way[0])
           hits == {k \in DOMAIN g : g[k] \in Elements}
           e == FirstElement(link, way[0])
<1>0. Null \notin Elements
  BY DistinctAssumption
<1>1. DOMAIN g = 0 .. Count /\ \A k \in 0 .. Count : g[k] = way[k]
  BY WalkIs
<1>2. m \in Nat /\ m <= Count /\ \A k \in Nat : way[k] # Null <=> k < m
  BY DEF Way
<1>3. e = IF hits = {} THEN Null ELSE g[CHOOSE k \in hits : \A j \in hits : k <= j]
  BY DEF FirstElement
<1>4. \A k \in Nat : way[k] \in Elements => k < m /\ k \in 0 .. Count
  BY <1>0, <1>2
<1> HIDE DEF g, e
<1>5. hits \in SUBSET Nat /\ \A k \in Nat : k \in hits <=> way[k] \in Elements
  BY <1>1, <1>4
<1> HIDE DEF hits
<1>6. CASE hits = {}
  BY <1>3, <1>5, <1>6 DEF e
<1>7. CASE hits # {}
  <2>1. \E k \in hits : \A j \in hits : k <= j
    BY <1>5, <1>7, Least
  <2>2. PICK k \in hits : e = g[k] /\ \A j \in hits : k <= j
    BY <1>3, <1>7, <2>1
  <2>3. k \in Nat /\ way[k] \in Elements /\ k \in 0 .. Count
    BY <1>4, <1>5
  <2>4. \A j \in 0 .. k - 1 : way[j] \notin Elements
    BY <1>5, <2>2, <2>3
  <2> QED
    BY <1>1, <1>4, <2>2, <2>3, <2>4 DEF e
<1> QED
  BY <1>6, <1>7

(* The list of p, in terms of the fields of the nodes. *)
ListIs(size, at, index, p) ==
    /\ size[p] \in Nat /\ size[p] <= Count /\ Count \in Nat
    /\ \A i \in 1 .. size[p] :
              /\ at[p][i] \in Nodes /\ at[p][i] \in dom.alive /\ dom.parent[at[p][i]] = p /\ index[at[p][i]] = i
              /\ dom.next[at[p][i]] = at[p][i + 1] /\ dom.prev[at[p][i]] = at[p][i - 1]
    /\ \A i \in Int : at[p][i] \in Node0 /\ (at[p][i] = Null <=> i \notin 1 .. size[p])
    /\ \A n \in Nodes : dom.parent[n] = p => index[n] \in 1 .. size[p] /\ at[p][index[n]] = n
    /\ dom.first[p] = at[p][1] /\ dom.last[p] = at[p][size[p]]
    /\ {n \in dom.alive : dom.parent[n] = p} = {at[p][i] : i \in 1 .. size[p]}
    /\ Cardinality({n \in dom.alive : dom.parent[n] = p}) = size[p]

(* What the fields of the nodes say about the list of p. *)
LEMMA ListFacts ==
    ASSUME NEW size, NEW at, NEW index, Places(size, at, index), Linked(dom, size, at, index), Sound(dom),
           NEW p \in Containers
    PROVE  ListIs(size, at, index, p)
<1>0. Null \notin Nodes /\ p # Null /\ dom \in Doms /\ IsFiniteSet(dom.alive) /\ Living(dom) /\ dom.alive \subseteq Nodes
  BY DistinctAssumption DEF Nodes, Containers, Sound, Counted, Doms
<1> DEFINE n == size[p]
           f == [i \in 1 .. n |-> at[p][i]]
           C == {x \in dom.alive : dom.parent[x] = p}
<1>1. n \in Nat /\ \A i \in 1 .. n :
                 /\ at[p][i] \in Nodes /\ dom.parent[at[p][i]] = p /\ index[at[p][i]] = i
                 /\ dom.next[at[p][i]] = at[p][i + 1] /\ dom.prev[at[p][i]] = at[p][i - 1]
  BY DEF Places, Linked
<1>2. \A i \in 1 .. n : at[p][i] \in dom.alive
  BY <1>0, <1>1 DEF Living
<1>3. \A i \in Int : at[p][i] \in Node0 /\ (at[p][i] = Null <=> i \notin 1 .. n)
  BY <1>0 DEF Places, Node0
<1>4. \A x \in Nodes : dom.parent[x] = p => index[x] \in 1 .. n /\ at[p][index[x]] = x
  BY <1>0 DEF Linked
<1>5. dom.first[p] = at[p][1] /\ dom.last[p] = at[p][n]
  BY DEF Linked
<1> HIDE DEF n
<1>6. f \in [1 .. n -> C] /\ (\A i, j \in 1 .. n : f[i] = f[j] => i = j) /\ \A x \in C : \E i \in 1 .. n : f[i] = x
  <2>1. f \in [1 .. n -> C]
    BY <1>1, <1>2
  <2>2. \A i, j \in 1 .. n : f[i] = f[j] => i = j
    BY <1>1
  <2>3. \A x \in C : \E i \in 1 .. n : f[i] = x
    BY <1>0, <1>4
  <2> QED
    BY <2>1, <2>2, <2>3
<1>7. C = {at[p][i] : i \in 1 .. n}
  BY <1>1, <1>6
<1>8. IsFiniteSet(C) /\ Cardinality(C) <= Count /\ Count \in Nat
  <2>1. C \in SUBSET dom.alive
    OBVIOUS
  <2> HIDE DEF C
  <2> QED
    BY <1>0, <2>1, FS_Subset, FS_CardinalityType DEF Count
<1>9. Cardinality(C) = n
  <2>1. f \in Bijection(1 .. n, C)
    BY <1>6 DEF Bijection, Injection, IsInjective, Surjection
  <2> HIDE DEF C, f
  <2>2. ExistsBijection(1 .. n, C)
    BY <2>1 DEF ExistsBijection
  <2> QED
    BY <1>1, <2>2, FS_CountingElements
<1> QED
  BY <1>1, <1>2, <1>3, <1>4, <1>5, <1>7, <1>8, <1>9 DEF n, ListIs

(* The way from place i to the end. *)
LEMMA ForwardWay ==
    ASSUME NEW size, NEW at, NEW index, Places(size, at, index), Linked(dom, size, at, index), Sound(dom),
           NEW p \in Containers, NEW i \in 1 .. size[p] + 1
    PROVE  Way(dom.next, [k \in Nat |-> at[p][i + k]], size[p] + 1 - i)
<1>1. /\ size[p] \in Nat /\ size[p] <= Count /\ Count \in Nat
      /\ \A j \in 1 .. size[p] : dom.next[at[p][j]] = at[p][j + 1]
      /\ \A j \in Int : at[p][j] \in Node0 /\ (at[p][j] = Null <=> j \notin 1 .. size[p])
  <2>1. ListIs(size, at, index, p)
    BY ListFacts
  <2> QED
    BY <2>1 DEF ListIs
<1> QED
  BY <1>1 DEF Way

(* The way from place i to the front. *)
LEMMA BackwardWay ==
    ASSUME NEW size, NEW at, NEW index, Places(size, at, index), Linked(dom, size, at, index), Sound(dom),
           NEW p \in Containers, NEW i \in 0 .. size[p]
    PROVE  Way(dom.prev, [k \in Nat |-> at[p][i - k]], i)
<1>1. /\ size[p] \in Nat /\ size[p] <= Count /\ Count \in Nat
      /\ \A j \in 1 .. size[p] : dom.prev[at[p][j]] = at[p][j - 1]
      /\ \A j \in Int : at[p][j] \in Node0 /\ (at[p][j] = Null <=> j \notin 1 .. size[p])
  <2>1. ListIs(size, at, index, p)
    BY ListFacts
  <2> QED
    BY <2>1 DEF ListIs
<1> QED
  BY <1>1 DEF Way

(* In a sound document the lists read the same in both directions. *)
LEMMA SoundListsAgree == ASSUME Sound(dom) PROVE ListsAgree
<1>1. PICK size, at, index : Places(size, at, index) /\ Linked(dom, size, at, index)
  BY DEF Sound, Listed
<1> SUFFICES ASSUME NEW p \in Parents
             PROVE  LET s == Trail(dom.next, dom.first[p])
                    IN  /\ Trail(dom.prev, dom.last[p]) = [i \in DOMAIN s |-> s[Len(s) + 1 - i]]
                        /\ {s[i] : i \in DOMAIN s} = Children(p)
                        /\ Len(s) = Cardinality(Children(p))
  BY DEF ListsAgree
<1>2. p \in Containers /\ dom.next \in [Nodes -> Node0] /\ dom.prev \in [Nodes -> Node0]
  BY DEF Parents, Containers, Sound, Doms
<1> DEFINE n == size[p]
           s == [i \in 1 .. n |-> at[p][i]]
           fw == [k \in Nat |-> at[p][1 + k]]
           bw == [k \in Nat |-> at[p][n - k]]
<1>3. /\ n \in Nat /\ n <= Count /\ Count \in Nat
      /\ dom.first[p] = at[p][1] /\ dom.last[p] = at[p][n]
      /\ {x \in dom.alive : dom.parent[x] = p} = {at[p][i] : i \in 1 .. n}
      /\ Cardinality({x \in dom.alive : dom.parent[x] = p}) = n
  <2>1. ListIs(size, at, index, p)
    BY <1>1, <1>2, ListFacts
  <2> QED
    BY <2>1 DEF ListIs
<1>4. Way(dom.next, fw, n) /\ Way(dom.prev, bw, n)
  <2>1. 1 \in 1 .. n + 1 /\ n \in 0 .. n /\ n + 1 - 1 = n
    BY <1>3
  <2> QED
    BY <1>1, <1>2, <2>1, ForwardWay, BackwardWay
<1>5. fw[0] = dom.first[p] /\ bw[0] = dom.last[p]
  BY <1>3
<1>6. Trail(dom.next, dom.first[p]) = [i \in 1 .. n |-> fw[i - 1]]
      /\ Trail(dom.prev, dom.last[p]) = [i \in 1 .. n |-> bw[i - 1]]
  <2> HIDE DEF fw, bw
  <2> QED
    BY <1>2, <1>3, <1>4, <1>5, TrailIs
<1>7. \A i \in 1 .. n : fw[i - 1] = at[p][i] /\ bw[i - 1] = at[p][n + 1 - i]
  BY <1>3
<1>8. Trail(dom.next, dom.first[p]) = s /\ Trail(dom.prev, dom.last[p]) = [i \in 1 .. n |-> at[p][n + 1 - i]]
  <2> HIDE DEF fw, bw
  <2> QED
    BY <1>6, <1>7
<1> HIDE DEF n, fw, bw
<1>9. DOMAIN s = 1 .. n /\ Len(s) = n /\ \A i \in 1 .. n : s[i] = at[p][i] /\ s[n + 1 - i] = at[p][n + 1 - i]
  BY <1>3
<1> HIDE DEF s
<1>10. [i \in 1 .. n |-> at[p][n + 1 - i]] = [i \in DOMAIN s |-> s[Len(s) + 1 - i]]
  BY <1>9
<1>11. {s[i] : i \in DOMAIN s} = Children(p) /\ Len(s) = Cardinality(Children(p))
  <2>1. {s[i] : i \in DOMAIN s} = {at[p][i] : i \in 1 .. n}
    BY <1>9
  <2>2. Children(p) = {x \in dom.alive : dom.parent[x] = p}
    BY DEF Children
  <2> QED
    BY <2>1, <2>2, <1>3, <1>9
<1> QED
  BY <1>8, <1>10, <1>11

(* FirstElement finds, from place i on, the first element behind. *)
LEMMA ForwardFound ==
    ASSUME NEW size, NEW at, NEW index, Places(size, at, index), Linked(dom, size, at, index), Sound(dom),
           NEW p \in Containers, NEW i \in 1 .. size[p] + 1
    PROVE  LET e == FirstElement(dom.next, at[p][i]) IN
           \/ e = Null /\ \A k \in Nat : at[p][i + k] \notin Elements
           \/ \E k \in Nat : /\ e = at[p][i + k] /\ e \in Elements
                             /\ \A j \in 0 .. k - 1 : at[p][i + j] \notin Elements
<1> DEFINE way == [k \in Nat |-> at[p][i + k]]
           m   == size[p] + 1 - i
           e   == FirstElement(dom.next, way[0])
<1>1. Way(dom.next, way, m)
  BY ForwardWay
<1>2. dom.next \in [Nodes -> Node0] /\ size[p] \in Nat /\ Count \in Nat
  <2>1. ListIs(size, at, index, p)
    BY ListFacts
  <2> QED
    BY <2>1 DEF Sound, Doms, ListIs
<1>3. way[0] = at[p][i] /\ \A k \in Nat : way[k] = at[p][i + k]
  BY <1>2
<1> HIDE DEF way, m
<1>4. \/ e = Null /\ \A k \in Nat : way[k] \notin Elements
      \/ \E k \in Nat : /\ e = way[k] /\ k < m /\ way[k] \in Elements
                        /\ \A j \in 0 .. k - 1 : way[j] \notin Elements
  BY <1>1, <1>2, FirstIs
<1>5. CASE e = Null /\ \A k \in Nat : way[k] \notin Elements
  BY <1>3, <1>5
<1>6. CASE \E k \in Nat : /\ e = way[k] /\ k < m /\ way[k] \in Elements
                          /\ \A j \in 0 .. k - 1 : way[j] \notin Elements
  <2>1. PICK k \in Nat : e = way[k] /\ way[k] \in Elements /\ \A j \in 0 .. k - 1 : way[j] \notin Elements
    BY <1>6
  <2>2. \A j \in 0 .. k - 1 : j \in Nat
    OBVIOUS
  <2> QED
    BY <1>3, <2>1, <2>2
<1> QED
  BY <1>4, <1>5, <1>6

(* From place i back it finds the last element in front. *)
LEMMA BackwardFound ==
    ASSUME NEW size, NEW at, NEW index, Places(size, at, index), Linked(dom, size, at, index), Sound(dom),
           NEW p \in Containers, NEW i \in 0 .. size[p]
    PROVE  LET e == FirstElement(dom.prev, at[p][i]) IN
           \/ e = Null /\ \A k \in Nat : at[p][i - k] \notin Elements
           \/ \E k \in Nat : /\ e = at[p][i - k] /\ e \in Elements
                             /\ \A j \in 0 .. k - 1 : at[p][i - j] \notin Elements
<1> DEFINE way == [k \in Nat |-> at[p][i - k]]
           e   == FirstElement(dom.prev, way[0])
<1>1. Way(dom.prev, way, i)
  BY BackwardWay
<1>2. dom.prev \in [Nodes -> Node0] /\ size[p] \in Nat /\ Count \in Nat
  <2>1. ListIs(size, at, index, p)
    BY ListFacts
  <2> QED
    BY <2>1 DEF Sound, Doms, ListIs
<1>3. way[0] = at[p][i] /\ \A k \in Nat : way[k] = at[p][i - k]
  BY <1>2
<1> HIDE DEF way
<1>4. \/ e = Null /\ \A k \in Nat : way[k] \notin Elements
      \/ \E k \in Nat : /\ e = way[k] /\ k < i /\ way[k] \in Elements
                        /\ \A j \in 0 .. k - 1 : way[j] \notin Elements
  BY <1>1, <1>2, FirstIs
<1>5. CASE e = Null /\ \A k \in Nat : way[k] \notin Elements
  BY <1>3, <1>5
<1>6. CASE \E k \in Nat : /\ e = way[k] /\ k < i /\ way[k] \in Elements
                          /\ \A j \in 0 .. k - 1 : way[j] \notin Elements
  <2>1. PICK k \in Nat : e = way[k] /\ way[k] \in Elements /\ \A j \in 0 .. k - 1 : way[j] \notin Elements
    BY <1>6
  <2>2. \A j \in 0 .. k - 1 : j \in Nat
    OBVIOUS
  <2> QED
    BY <1>3, <2>1, <2>2
<1> QED
  BY <1>4, <1>5, <1>6

\* x stands before y in a list, and between them no element.
Adjacent(at, index, x, y) ==
    /\ dom.parent[x] # Null /\ dom.parent[y] = dom.parent[x] /\ index[x] < index[y]
    /\ \A l \in Int : index[x] < l /\ l < index[y] => at[dom.parent[x]][l] \notin Elements

(* The next element of x is the one that it stands before, with no element between. *)
LEMMA NextIsAdjacent ==
    ASSUME NEW size, NEW at, NEW index, Places(size, at, index), Linked(dom, size, at, index), Sound(dom),
           NEW x \in Elements, NEW y \in Elements, dom.parent[x] # Null
    PROVE  NextSiblingElement(x) = y <=> Adjacent(at, index, x, y)
<1> DEFINE p == dom.parent[x]
           i == index[x]
<1>1. p \in Containers /\ x \in Nodes /\ y \in Nodes
  BY DEF Sound, Doms, Nodes
<1>2. ListIs(size, at, index, p) /\ Null \notin Elements
  BY <1>1, ListFacts, DistinctAssumption
<1>3. /\ size[p] \in Nat
      /\ i \in 1 .. size[p] /\ at[p][i] = x /\ dom.next[x] = at[p][i + 1]
      /\ \A j \in Int : at[p][j] = Null <=> j \notin 1 .. size[p]
      /\ \A j \in 1 .. size[p] : dom.parent[at[p][j]] = p /\ index[at[p][j]] = j
      /\ dom.parent[y] = p => index[y] \in 1 .. size[p] /\ at[p][index[y]] = y
  BY <1>1, <1>2 DEF ListIs
<1> HIDE DEF p, i
<1> DEFINE e == FirstElement(dom.next, at[p][i + 1])
<1>4. \/ e = Null /\ \A k \in Nat : at[p][i + 1 + k] \notin Elements
      \/ \E k \in Nat : /\ e = at[p][i + 1 + k] /\ e \in Elements
                        /\ \A j \in 0 .. k - 1 : at[p][i + 1 + j] \notin Elements
  <2>1. i + 1 \in 1 .. size[p] + 1
    BY <1>3
  <2> QED
    BY <1>1, <2>1, ForwardFound
<1>5. NextSiblingElement(x) = e
  BY <1>3 DEF NextSiblingElement
<1> HIDE DEF e
<1>6. Adjacent(at, index, x, y) <=>
         /\ dom.parent[y] = p /\ i < index[y]
         /\ \A l \in Int : i < l /\ l < index[y] => at[p][l] \notin Elements
  BY DEF Adjacent, p, i
<1>7. ASSUME e = y PROVE Adjacent(at, index, x, y)
  <2>1. PICK k \in Nat : e = at[p][i + 1 + k] /\ \A j \in 0 .. k - 1 : at[p][i + 1 + j] \notin Elements
    BY <1>2, <1>4, <1>7
  <2>2. i + 1 + k \in 1 .. size[p]
    BY <1>2, <1>3, <1>7, <2>1
  <2>3. dom.parent[y] = p /\ index[y] = i + 1 + k
    BY <1>3, <1>7, <2>1, <2>2
  <2>4. ASSUME NEW l \in Int, i < l, l < index[y] PROVE at[p][l] \notin Elements
    <3>1. l - i - 1 \in 0 .. k - 1 /\ i + 1 + (l - i - 1) = l
      BY <1>3, <2>3, <2>4
    <3> QED
      BY <2>1, <3>1
  <2>5. i < index[y]
    BY <1>3, <2>3
  <2> QED
    BY <1>6, <2>3, <2>4, <2>5
<1>8. ASSUME Adjacent(at, index, x, y) PROVE e = y
  <2>1. /\ index[y] \in 1 .. size[p] /\ at[p][index[y]] = y /\ i < index[y]
        /\ \A l \in Int : i < l /\ l < index[y] => at[p][l] \notin Elements
    BY <1>3, <1>6, <1>8
  <2>2. index[y] - i - 1 \in Nat /\ i + 1 + (index[y] - i - 1) = index[y]
    BY <1>3, <2>1
  <2>3. PICK k \in Nat : /\ e = at[p][i + 1 + k] /\ e \in Elements
                         /\ \A j \in 0 .. k - 1 : at[p][i + 1 + j] \notin Elements
    BY <1>4, <2>1, <2>2
  <2>4. ~(i + 1 + k < index[y])
    BY <1>3, <2>1, <2>3
  <2>5. ~(index[y] < i + 1 + k)
    <3>1. SUFFICES ASSUME index[y] < i + 1 + k PROVE FALSE
      OBVIOUS
    <3>2. index[y] - i - 1 \in 0 .. k - 1
      BY <1>3, <2>1, <3>1
    <3> QED
      BY <2>1, <2>2, <2>3, <3>2
  <2>6. i + 1 + k = index[y]
    BY <1>3, <2>1, <2>4, <2>5
  <2> QED
    BY <2>1, <2>3, <2>6
<1> QED
  BY <1>5, <1>7, <1>8

(* The previous element of y is the one that stands before it, with no element between. *)
LEMMA PreviousIsAdjacent ==
    ASSUME NEW size, NEW at, NEW index, Places(size, at, index), Linked(dom, size, at, index), Sound(dom),
           NEW x \in Elements, NEW y \in Elements, dom.parent[y] # Null
    PROVE  PreviousSiblingElement(y) = x <=> Adjacent(at, index, x, y)
<1> DEFINE p == dom.parent[y]
           i == index[y]
<1>1. p \in Containers /\ x \in Nodes /\ y \in Nodes
  BY DEF Sound, Doms, Nodes
<1>2. ListIs(size, at, index, p) /\ Null \notin Elements
  BY <1>1, ListFacts, DistinctAssumption, SMTT(30)
<1>3. /\ size[p] \in Nat
      /\ i \in 1 .. size[p] /\ at[p][i] = y /\ dom.prev[y] = at[p][i - 1]
      /\ \A j \in Int : at[p][j] = Null <=> j \notin 1 .. size[p]
      /\ \A j \in 1 .. size[p] : dom.parent[at[p][j]] = p /\ index[at[p][j]] = j
      /\ dom.parent[x] = p => index[x] \in 1 .. size[p] /\ at[p][index[x]] = x
  BY <1>1, <1>2 DEF ListIs
<1>6. Adjacent(at, index, x, y) <=>
         /\ dom.parent[x] = p /\ index[x] < i
         /\ \A l \in Int : index[x] < l /\ l < i => at[p][l] \notin Elements
  BY DEF Adjacent
<1> HIDE DEF p, i
<1> DEFINE e == FirstElement(dom.prev, at[p][i - 1])
<1>4. \/ e = Null /\ \A k \in Nat : at[p][i - 1 - k] \notin Elements
      \/ \E k \in Nat : /\ e = at[p][i - 1 - k] /\ e \in Elements
                        /\ \A j \in 0 .. k - 1 : at[p][i - 1 - j] \notin Elements
  <2>1. i - 1 \in 0 .. size[p]
    BY <1>3
  <2> QED
    BY <1>1, <2>1, BackwardFound
<1>5. PreviousSiblingElement(y) = e
  BY <1>3 DEF PreviousSiblingElement
<1> HIDE DEF e
<1>7. ASSUME e = x PROVE Adjacent(at, index, x, y)
  <2>1. PICK k \in Nat : e = at[p][i - 1 - k] /\ \A j \in 0 .. k - 1 : at[p][i - 1 - j] \notin Elements
    BY <1>2, <1>4, <1>7
  <2>2. i - 1 - k \in 1 .. size[p]
    BY <1>2, <1>3, <1>7, <2>1
  <2>3. dom.parent[x] = p /\ index[x] = i - 1 - k
    BY <1>3, <1>7, <2>1, <2>2
  <2>4. ASSUME NEW l \in Int, index[x] < l, l < i PROVE at[p][l] \notin Elements
    <3>1. i - 1 - l \in 0 .. k - 1 /\ i - 1 - (i - 1 - l) = l
      BY <1>3, <2>3, <2>4
    <3> QED
      BY <2>1, <3>1
  <2>5. index[x] < i
    BY <1>3, <2>3
  <2> QED
    BY <1>6, <2>3, <2>4, <2>5
<1>8. ASSUME Adjacent(at, index, x, y) PROVE e = x
  <2>1. /\ index[x] \in 1 .. size[p] /\ at[p][index[x]] = x /\ index[x] < i
        /\ \A l \in Int : index[x] < l /\ l < i => at[p][l] \notin Elements
    BY <1>3, <1>6, <1>8
  <2>2. i - 1 - index[x] \in Nat /\ i - 1 - (i - 1 - index[x]) = index[x]
    BY <1>3, <2>1
  <2>3. PICK k \in Nat : /\ e = at[p][i - 1 - k] /\ e \in Elements
                         /\ \A j \in 0 .. k - 1 : at[p][i - 1 - j] \notin Elements
    BY <1>4, <2>1, <2>2
  <2>4. ~(index[x] < i - 1 - k)
    BY <1>3, <2>1, <2>3
  <2>5. ~(i - 1 - k < index[x])
    <3>1. SUFFICES ASSUME i - 1 - k < index[x] PROVE FALSE
      OBVIOUS
    <3>2. i - 1 - index[x] \in 0 .. k - 1
      BY <1>3, <2>1, <3>1
    <3> QED
      BY <2>1, <2>2, <2>3, <3>2
  <2>6. i - 1 - k = index[x]
    BY <1>3, <2>1, <2>4, <2>5
  <2> QED
    BY <2>1, <2>3, <2>6
<1> QED
  BY <1>5, <1>7, <1>8

(* Where there is nothing, nothing is found. *)
LEMMA NoWay ==
    ASSUME Count \in Nat, NEW link \in [Nodes -> Node0]
    PROVE  FirstElement(link, Null) = Null
<1> DEFINE way == [k \in Nat |-> Null]
<1>1. Way(link, way, 0) /\ way[0] = Null /\ \A k \in Nat : way[k] = Null
  BY DEF Way, Node0
<1> HIDE DEF way
<1>2. FirstElement(link, way[0]) = Null
  BY <1>1, FirstIs
<1> QED
  BY <1>1, <1>2

(* In a sound document the lookups of elements agree. *)
LEMMA SoundLookupsAgree == ASSUME Sound(dom) PROVE LookupsAgree
<1>1. PICK size, at, index : Places(size, at, index) /\ Linked(dom, size, at, index)
  BY DEF Sound, Listed
<1>2. dom.next \in [Nodes -> Node0] /\ dom.prev \in [Nodes -> Node0] /\ Null \notin Elements
  BY DistinctAssumption DEF Sound, Doms
<1>3. ASSUME NEW p \in Parents PROVE FirstChildElement(p) = Null <=> LastChildElement(p) = Null
  <2>1. p \in Containers
    BY DEF Parents, Containers, Sound, Doms
  <2>2. ListIs(size, at, index, p)
    BY <1>1, <2>1, ListFacts
  <2>3. /\ size[p] \in Nat /\ dom.first[p] = at[p][1] /\ dom.last[p] = at[p][size[p]]
        /\ \A j \in Int : at[p][j] = Null <=> j \notin 1 .. size[p]
    BY <2>2 DEF ListIs
  <2>4. 1 \in 1 .. size[p] + 1 /\ size[p] \in 0 .. size[p]
    BY <2>3
  <2> DEFINE f == FirstElement(dom.next, at[p][1])
             l == FirstElement(dom.prev, at[p][size[p]])
  <2>5. \/ f = Null /\ \A k \in Nat : at[p][1 + k] \notin Elements
        \/ \E k \in Nat : f = at[p][1 + k] /\ f \in Elements
    BY <1>1, <2>1, <2>4, ForwardFound
  <2>6. \/ l = Null /\ \A k \in Nat : at[p][size[p] - k] \notin Elements
        \/ \E k \in Nat : l = at[p][size[p] - k] /\ l \in Elements
    BY <1>1, <2>1, <2>4, BackwardFound
  <2>7. FirstChildElement(p) = f /\ LastChildElement(p) = l
    BY <2>3 DEF FirstChildElement, LastChildElement
  <2> HIDE DEF f, l
  <2>8. ASSUME f = Null, l # Null PROVE FALSE
    <3>1. PICK k \in Nat : l = at[p][size[p] - k] /\ l \in Elements
      BY <2>6, <2>8
    <3>2. size[p] - k \in 1 .. size[p]
      BY <1>2, <2>3, <3>1
    <3>3. size[p] - k - 1 \in Nat /\ 1 + (size[p] - k - 1) = size[p] - k
      BY <2>3, <3>2
    <3> QED
      BY <1>2, <2>5, <2>8, <3>1, <3>3
  <2>9. ASSUME l = Null, f # Null PROVE FALSE
    <3>1. PICK k \in Nat : f = at[p][1 + k] /\ f \in Elements
      BY <2>5, <2>9
    <3>2. 1 + k \in 1 .. size[p]
      BY <1>2, <2>3, <3>1
    <3>3. size[p] - (1 + k) \in Nat /\ size[p] - (size[p] - (1 + k)) = 1 + k
      BY <2>3, <3>2
    <3> QED
      BY <1>2, <2>6, <2>9, <3>1, <3>3
  <2> QED
    BY <2>7, <2>8, <2>9
<1>4. ASSUME NEW x \in dom.alive \cap Elements, NEW y \in dom.alive \cap Elements
      PROVE  NextSiblingElement(x) = y <=> PreviousSiblingElement(y) = x
  <2>0. x \in Elements /\ y \in Elements /\ x \in Nodes /\ y \in Nodes
    BY DEF Nodes
  <2>1. Count \in Nat
    BY FS_CardinalityType DEF Sound, Counted, Count
  <2>2. NextSiblingElement(x) = y <=> Adjacent(at, index, x, y)
    <3>1. CASE dom.parent[x] # Null
      BY <1>1, <2>0, <3>1, NextIsAdjacent
    <3>2. CASE dom.parent[x] = Null
      <4>1. dom.next[x] = Null
        BY <2>0, <3>2 DEF Sound, Parted
      <4>2. NextSiblingElement(x) = Null
        BY <1>2, <2>1, <4>1, NoWay DEF NextSiblingElement
      <4> QED
        BY <1>2, <2>0, <3>2, <4>2 DEF Adjacent
    <3> QED
      BY <3>1, <3>2
  <2>3. PreviousSiblingElement(y) = x <=> Adjacent(at, index, x, y)
    <3>1. CASE dom.parent[y] # Null
      BY <1>1, <2>0, <3>1, PreviousIsAdjacent
    <3>2. CASE dom.parent[y] = Null
      <4>1. dom.prev[y] = Null
        BY <2>0, <3>2 DEF Sound, Parted
      <4>2. PreviousSiblingElement(y) = Null
        BY <1>2, <2>1, <4>1, NoWay DEF PreviousSiblingElement
      <4> QED
        BY <1>2, <2>0, <3>2, <4>2 DEF Adjacent
    <3> QED
      BY <3>1, <3>2
  <2> QED
    BY <2>2, <2>3
<1> QED
  BY <1>3, <1>4 DEF LookupsAgree

-----------------------------------------------------------------------------
(* The steps of the program. *)

(* In a sound document a copy would equal its original. *)
LEMMA SoundCloneIsEqual == ASSUME Sound(dom) PROVE CloneIsEqual
<1> SUFFICES ASSUME NEW n \in dom.alive, NEW new \in Unused, PoolOf(n) = PoolOf(new)
             PROVE  LET d == ShallowClone(dom, n, new)
                    IN  ShallowEqual(d, n, new) /\ (n \in Elements => d.attrs[new] = dom.attrs[n])
  BY DEF CloneIsEqual
<1>1. dom \in Doms /\ n \in Nodes /\ new \in Nodes /\ new \notin dom.alive /\ (n \in Elements <=> new \in Elements)
  BY DEF Unused, Sound, Doms, PoolOf
<1>2. CASE n \notin Elements
  BY <1>1, <1>2 DEF ShallowEqual
<1>3. CASE n \in Elements
  <2> DEFINE b == NewNode(dom, new)
             d == CopyAttributes(b, new, dom.attrs[n])
  <2>1. Sound(b) /\ b.attrs = dom.attrs /\ b.alive = dom.alive \cup {new}
    BY <1>1, NewSound, NewFields
  <2>2. dom.attrs[new] = <<>> /\ dom.attrs[n] \in Seq(Item) /\ DOMAIN dom.attrs[n] = 1 .. Len(dom.attrs[n])
    BY <1>1, <1>3, ItemLists DEF Sound, Living
  <2>3. \A i, j \in 1 .. Len(dom.attrs[n]) : dom.attrs[n][i].name = dom.attrs[n][j].name => i = j
    BY <1>1, <1>3, <2>2 DEF Sound, Named
  <2>4. new \in b.alive \cap Elements /\ b.attrs[new] = <<>> /\ n # new
    BY <1>1, <1>3, <2>1, <2>2
  <2> HIDE DEF b
  <2>5. d.attrs[new] = dom.attrs[n] /\ \A y \in Elements : y # new => d.attrs[y] = b.attrs[y]
    BY <2>1, <2>2, <2>3, <2>4, CopySound, SMTT(30)
  <2>6. d.attrs[n] = dom.attrs[n]
    BY <1>3, <2>1, <2>4, <2>5
  <2>7. ShallowClone(dom, n, new) = d
    BY <1>3 DEF ShallowClone, b
  <2> HIDE DEF d
  <2> QED
    BY <1>1, <1>3, <2>5, <2>6, <2>7 DEF ShallowEqual
<1> QED
  BY <1>2, <1>3

(* A node may be copied. *)
LEMMA CloneSound ==
    ASSUME Sound(dom), NEW n \in dom.alive, NEW new \in Unused, PoolOf(n) = PoolOf(new)
    PROVE  Sound(ShallowClone(dom, n, new))
<1>1. dom \in Doms /\ n \in Nodes /\ new \in Nodes /\ new \notin dom.alive /\ (n \in Elements <=> new \in Elements)
  BY DEF Unused, Sound, Doms, PoolOf
<1> DEFINE b == NewNode(dom, new)
<1>2. Sound(b) /\ b.attrs = dom.attrs /\ b.alive = dom.alive \cup {new}
  BY <1>1, NewSound, NewFields
<1>3. CASE n \notin Elements
  BY <1>2, <1>3 DEF ShallowClone
<1>4. CASE n \in Elements
  <2>2. dom.attrs[new] = <<>> /\ dom.attrs[n] \in Seq(Item) /\ DOMAIN dom.attrs[n] = 1 .. Len(dom.attrs[n])
    BY <1>1, <1>4, ItemLists DEF Sound, Living
  <2>3. \A i, j \in 1 .. Len(dom.attrs[n]) : dom.attrs[n][i].name = dom.attrs[n][j].name => i = j
    BY <1>1, <1>4, <2>2 DEF Sound, Named
  <2>4. new \in b.alive \cap Elements /\ b.attrs[new] = <<>>
    BY <1>1, <1>4, <1>2, <2>2
  <2> HIDE DEF b
  <2>5. Sound(CopyAttributes(b, new, dom.attrs[n]))
    BY <1>2, <2>2, <2>3, <2>4, CopySound
  <2> QED
    BY <1>4, <2>5 DEF ShallowClone, b
<1> QED
  BY <1>3, <1>4

(* A sound document has the properties that are promised. *)
LEMMA SoundIs == ASSUME Sound(dom) PROVE NodesSound
<1>1. ListsAgree /\ LookupsAgree /\ CloneIsEqual
  BY SoundListsAgree, SoundLookupsAgree, SoundCloneIsEqual
<1>2. PoolsCount
  BY DEF Sound, Counted, PoolsCount
<1>3. NamedOnce
  BY DEF Sound, Named, NamedOnce
<1> QED
  BY <1>1, <1>2, <1>3 DEF NodesSound

(* A new document is sound. *)
LEMMA InitSound == Init => Sound(dom)
<1> SUFFICES ASSUME Init PROVE Sound(dom)
  OBVIOUS
<1>0. Nodes \cap {Null} = {} /\ MaxFailures \in Nat
  BY DistinctAssumption DEF Nodes
<1>1. /\ dom \in Doms
      /\ dom.parent = [n \in Nodes |-> Null] /\ dom.prev = [n \in Nodes |-> Null] /\ dom.next = [n \in Nodes |-> Null]
      /\ dom.first = [c \in Containers |-> Null] /\ dom.last = [c \in Containers |-> Null]
      /\ dom.attrs = [e \in Elements |-> <<>>] /\ dom.alive = {}
      /\ dom.current = [p \in Pools |-> 0] /\ dom.untracked = [p \in Pools |-> 0] /\ dom.failures = 0
  BY DEF Init, Doms, Node0
<1>2. Listed(dom)
  <2> DEFINE size == [p \in Containers |-> 0]
             at == [p \in Containers |-> [i \in Int |-> Null]]
             index == [n \in Nodes |-> 0]
  <2>1. Places(size, at, index)
    BY <1>0 DEF Places, Node0
  <2>2. Linked(dom, size, at, index)
    BY <1>1 DEF Linked
  <2> QED
    BY <2>1, <2>2 DEF Listed
<1>3. Parted(dom) /\ Living(dom) /\ Named(dom)
  BY <1>1 DEF Parted, Living, Named
<1>4. Counted(dom)
  <2>1. \A pool \in Pools : Held(dom, {}, pool) = {}
    BY DEF Held
  <2>2. Loose(dom, "element") = {} /\ Loose(dom, "text") = {}
    BY <1>1, LooseIs
  <2>3. IsFiniteSet({}) /\ Cardinality({}) = 0 /\ 0 + 0 = 0
    BY FS_EmptySet
  <2>4. "element" \in Pools /\ "text" \in Pools /\ "attribute" \in Pools
    BY DEF Pools
  <2>5. \A pool \in Pools : dom.current[pool] = 0 /\ dom.untracked[pool] = 0
    BY <1>1
  <2>6. dom.alive = {} /\ dom.failures = 0
    BY <1>1
  <2> QED
    BY <2>1, <2>2, <2>3, <2>4, <2>5, <2>6 DEF Counted
<1> QED
  BY <1>1, <1>2, <1>3, <1>4 DEF Sound

(* It stays sound when the error changes, and when an element is lost with a parse that fails. *)
LEMMA SameSound ==
    ASSUME NEW d, Sound(d), NEW e \in Doms,
           e.parent = d.parent, e.prev = d.prev, e.next = d.next, e.first = d.first, e.last = d.last,
           e.attrs = d.attrs, e.alive = d.alive, e.current = d.current,
           \A pool \in Pools :
               e.untracked[pool] = IF pool = "element" THEN d.untracked[pool] + e.failures - d.failures
                                   ELSE d.untracked[pool]
    PROVE  Sound(e)
<1>1. Listed(e)
  BY SameLists DEF Sound
<1>2. Parted(e) /\ Living(e) /\ Named(e)
  BY DEF Sound, Parted, Living, Named
<1>3. Counted(e)
  <2>1. \A pool \in Pools : Held(e, e.alive, pool) = Held(d, d.alive, pool) /\ Loose(e, pool) = Loose(d, pool)
    BY DEF Held, Loose
  <2>2. "element" \in Pools /\ "text" \in Pools /\ "attribute" \in Pools
    BY DEF Pools
  <2>3. Counted(d) /\ d.failures \in Nat /\ e.failures \in Nat
    BY DEF Sound, Doms
  <2>4. Cardinality(Loose(d, "element")) \in Nat
    BY <2>2, <2>3, LooseFinite DEF Sound, Counted
  <2>5. e.untracked["element"] = Cardinality(Loose(e, "element")) + e.failures
    BY <2>1, <2>2, <2>3, <2>4 DEF Counted
  <2> QED
    BY <2>1, <2>2, <2>3, <2>5 DEF Counted
<1> QED
  BY <1>1, <1>2, <1>3 DEF Sound

(* A document may be cleared. *)
LEMMA ClearedSound ==
    ASSUME NEW d, Sound(d)
    PROVE  Sound(Cleared(d)) /\ Cleared(d).alive \subseteq d.alive
<1> DEFINE a == DeleteChildren(d, Doc)
           e == Cleared(d)
<1>1. Sound(a) /\ a.alive \subseteq d.alive
  BY EmptySound DEF Containers
<1>2. e = [a EXCEPT !.error = FALSE]
  BY DEF Cleared
<1> HIDE DEF a, e
<1>3. a \in Doms
  BY <1>1 DEF Sound
<1>4. /\ e \in Doms
      /\ e.parent = a.parent /\ e.prev = a.prev /\ e.next = a.next /\ e.first = a.first /\ e.last = a.last
      /\ e.attrs = a.attrs /\ e.alive = a.alive /\ e.current = a.current /\ e.untracked = a.untracked
      /\ e.failures = a.failures
  BY <1>2, <1>3 DEF Doms
<1>5. Sound(e)
  <2>1. \A pool \in Pools :
           e.untracked[pool] = IF pool = "element" THEN a.untracked[pool] + e.failures - a.failures
                               ELSE a.untracked[pool]
    BY <1>3, <1>4 DEF Doms
  <2> QED
    BY <1>1, <1>4, <2>1, SameSound
<1> QED
  BY <1>1, <1>4, <1>5 DEF e

(* A parse that works leaves a sound document: the end tag is tracked and freed. *)
LEMMA ParsedSound ==
    ASSUME NEW d, Sound(d), NEW x \in Elements, x \notin d.alive
    PROVE  Sound(Free(SetTracked(Alloc(InsertEndChild(NewNode(d, x), Doc, x), "element"), "element"), "element"))
<1> DEFINE b == NewNode(d, x)
           c == InsertEndChild(b, Doc, x)
           e == Free(SetTracked(Alloc(c, "element"), "element"), "element")
<1>1. x \in Nodes /\ d \in Doms /\ Doc \in Containers
  BY DEF Nodes, Sound, Containers
<1>2. Sound(b) /\ x \in b.alive
  BY <1>1, NewSound, NewFields
<1> HIDE DEF b
<1>3. Inserted(b, c, Doc, x)
  BY <1>1, <1>2, EndInserts DEF Sound
<1>4. Sound(c)
  <2> HIDE DEF c
  <2> QED
    BY <1>2, <1>3, InsertedSound
<1> HIDE DEF c
<1>5. /\ e \in Doms
      /\ e.parent = c.parent /\ e.prev = c.prev /\ e.next = c.next /\ e.first = c.first /\ e.last = c.last
      /\ e.attrs = c.attrs /\ e.alive = c.alive /\ e.failures = c.failures
      /\ e.current = c.current /\ e.untracked = c.untracked
  <2>1. c \in Doms /\ "element" \in Pools
    BY <1>4 DEF Sound, Pools
  <2> DEFINE f == [Alloc(c, "element") EXCEPT !.untracked["element"] = @ - 1]
             cur == [c.current EXCEPT !["element"] = @ + 1]
             unt == [c.untracked EXCEPT !["element"] = @ + 1]
  <2>2. /\ cur \in [Pools -> Int] /\ unt \in [Pools -> Int]
        /\ [cur EXCEPT !["element"] = @ - 1] = c.current /\ [unt EXCEPT !["element"] = @ - 1] = c.untracked
    <3>1. c.current \in [Pools -> Int] /\ c.untracked \in [Pools -> Int]
      BY <2>1 DEF Doms
    <3> QED
      BY <2>1, <3>1
  <2>3. e = [c EXCEPT !.current = [cur EXCEPT !["element"] = @ - 1], !.untracked = [unt EXCEPT !["element"] = @ - 1]]
    BY <2>1, ZenonT(30) DEF Free, SetTracked, Alloc, Doms
  <2>4. e = [c EXCEPT !.current = c.current, !.untracked = c.untracked]
    BY <2>2, <2>3
  <2> QED
    BY <2>1, <2>4 DEF Doms
<1>6. \A pool \in Pools :
         e.untracked[pool] = IF pool = "element" THEN c.untracked[pool] + e.failures - c.failures
                             ELSE c.untracked[pool]
  <2>1. c.failures \in Nat /\ c.untracked \in [Pools -> Int]
    BY <1>4 DEF Sound, Doms
  <2> HIDE DEF e
  <2> QED
    BY <1>5, <2>1
<1>7. Sound(e)
  <2> HIDE DEF e
  <2> QED
    BY <1>4, <1>5, <1>6, SameSound
<1> QED
  BY <1>7 DEF b, c

(* So does one that fails, but that its element stays untracked. *)
LEMMA FailedSound ==
    ASSUME NEW d, Sound(d)
    PROVE  Sound([Free(Alloc(d, "element"), "element") EXCEPT !.error = TRUE, !.failures = @ + 1])
<1> DEFINE e == [Free(Alloc(d, "element"), "element") EXCEPT !.error = TRUE, !.failures = @ + 1]
           cur == [d.current EXCEPT !["element"] = @ + 1]
           unt == [d.untracked EXCEPT !["element"] = @ + 1]
<1>1. d \in Doms /\ "element" \in Pools
  BY DEF Sound, Pools
<1>2. d.current \in [Pools -> Int] /\ d.untracked \in [Pools -> Int] /\ d.failures \in Nat
  BY <1>1 DEF Doms
<1>3. unt \in [Pools -> Int] /\ [cur EXCEPT !["element"] = @ - 1] = d.current
  BY <1>1, <1>2
<1>4. e = [d EXCEPT !.current = [cur EXCEPT !["element"] = @ - 1], !.untracked = unt, !.error = TRUE,
                    !.failures = d.failures + 1]
  BY <1>1, ZenonT(30) DEF Free, Alloc, Doms
<1>5. e = [d EXCEPT !.current = d.current, !.untracked = unt, !.error = TRUE, !.failures = d.failures + 1]
  BY <1>3, <1>4
<1>6. /\ e \in Doms
      /\ e.parent = d.parent /\ e.prev = d.prev /\ e.next = d.next /\ e.first = d.first /\ e.last = d.last
      /\ e.attrs = d.attrs /\ e.alive = d.alive /\ e.failures = d.failures + 1
      /\ e.current = d.current /\ e.untracked = unt
  <2> HIDE DEF unt, cur, e
  <2>1. d.failures + 1 \in Nat
    BY <1>2
  <2> QED
    BY <1>1, <1>3, <1>5, <2>1 DEF Doms
<1>7. \A pool \in Pools :
         e.untracked[pool] = IF pool = "element" THEN d.untracked[pool] + e.failures - d.failures
                             ELSE d.untracked[pool]
  <2> HIDE DEF e
  <2> QED
    BY <1>2, <1>6
<1>8. Sound(e)
  <2> HIDE DEF e, unt
  <2> QED
    BY <1>6, <1>7, SameSound
<1> QED
  BY <1>8

(* Every call of the library leaves the document sound. *)
LEMMA StepSound == Sound(dom) /\ [Next]_vars => Sound(dom)'
<1> SUFFICES ASSUME Sound(dom), [Next]_vars PROVE Sound(dom')
  OBVIOUS
<1>0. dom \in Doms /\ Listed(dom) /\ Parted(dom) /\ dom.alive \subseteq Nodes
      /\ \A p \in Parents : p \in Containers /\ p \in (dom.alive \cap Elements) \cup {Doc}
  BY DEF Sound, Doms, Parents, Containers
<1>1. CASE New
  BY <1>1, NewSound DEF New, Call, Unused
<1>2. CASE InsertEnd
  <2>1. PICK p \in Parents, c \in dom.alive : dom' = InsertEndChild(dom, p, c)
    BY <1>2 DEF InsertEnd, Call
  <2>2. Inserted(dom, dom', p, c)
    BY <1>0, <2>1, EndInserts
  <2> QED
    BY <1>0, <2>2, InsertedSound
<1>3. CASE InsertFirst
  <2>1. PICK p \in Parents, c \in dom.alive : dom' = InsertFirstChild(dom, p, c)
    BY <1>3 DEF InsertFirst, Call
  <2>2. Inserted(dom, dom', p, c)
    BY <1>0, <2>1, FirstInserts
  <2> QED
    BY <1>0, <2>2, InsertedSound
<1>4. CASE InsertAfter
  <2>1. PICK a \in dom.alive, c \in dom.alive :
            /\ a # c /\ dom.parent[a] # Null
            /\ IF FollowsNull(dom, a, c) THEN dom' = dom ELSE dom' = InsertAfterChild(dom, dom.parent[a], a, c)
    BY <1>4 DEF InsertAfter, Call
  <2>2. CASE FollowsNull(dom, a, c)
    BY <2>1, <2>2
  <2>3. CASE ~FollowsNull(dom, a, c)
    <3>1. a \in Nodes /\ c \in Nodes /\ dom.parent[a] \in Containers
      BY <1>0, <2>1 DEF Doms
    <3>2. dom.parent[a] \in (dom.alive \cap Elements) \cup {Doc}
      BY <2>1, <3>1, DistinctAssumption DEF Sound, Living, Containers
    <3>3. Inserted(dom, dom', dom.parent[a], c)
      BY <1>0, <2>1, <2>3, <3>1, AfterInserts
    <3> QED
      BY <3>2, <3>3, InsertedSound
  <2> QED
    BY <2>2, <2>3
<1>5. CASE Delete
  BY <1>5, DeleteSound DEF Delete, Call
<1>6. CASE Empty
  BY <1>0, <1>6, EmptySound DEF Empty, Call
<1>7. CASE Clear
  BY <1>7, ClearedSound DEF Clear, Call
<1>8. CASE SetText
  <2>1. PICK e \in dom.alive \cap Elements, t \in Unused \cap Texts : dom' = InsertFirstChild(NewNode(dom, t), e, t)
    BY <1>8 DEF SetText, Call
  <2> DEFINE b == NewNode(dom, t)
  <2>2. e \in Containers /\ t \in Nodes /\ t \notin dom.alive
    BY DEF Containers, Unused
  <2>3. Sound(b) /\ b.alive = dom.alive \cup {t}
    BY <1>0, <2>2, NewSound, NewFields
  <2>4. dom' = InsertFirstChild(b, e, t)
    BY <2>1
  <2> HIDE DEF b
  <2>5. Inserted(b, dom', e, t)
    BY <2>2, <2>3, <2>4, FirstInserts DEF Sound
  <2> QED
    BY <2>3, <2>5, InsertedSound
<1>9. CASE Clone
  BY <1>9, CloneSound DEF Clone, Call
<1>10. CASE Attribute
  BY <1>10, AttributeSet, AttributeDeleted DEF Attribute, Call
<1>11. CASE ParseWorks
  <2>1. PICK x \in Elements \ Cleared(dom).alive :
            dom' = Free(SetTracked(Alloc(InsertEndChild(NewNode(Cleared(dom), x), Doc, x), "element"), "element"), "element")
    BY <1>11 DEF ParseWorks, Call
  <2>2. Sound(Cleared(dom))
    BY ClearedSound
  <2> QED
    BY <2>1, <2>2, ParsedSound
<1>12. CASE ParseFails
  <2>1. dom' = [Free(Alloc(Cleared(dom), "element"), "element") EXCEPT !.error = TRUE, !.failures = @ + 1]
    BY <1>12 DEF ParseFails, Call
  <2>2. Sound(Cleared(dom))
    BY ClearedSound
  <2> QED
    BY <2>1, <2>2, FailedSound
<1>13. CASE UNCHANGED vars
  BY <1>13 DEF vars
<1> QED
  BY <1>1, <1>2, <1>3, <1>4, <1>5, <1>6, <1>7, <1>8, <1>9, <1>10, <1>11, <1>12, <1>13 DEF Next

(* XMLNode, XMLElement and XMLDocument, for any nodes, names and values, and however often the
   calls of the library come: every list of children reads the same in both directions and holds
   its nodes, and the lookups of elements step through the same ones; the pools count the nodes
   and attributes in use; no element has two attributes of one name, and a copy equals its
   original. *)
THEOREM SpecNodesSound == Spec => []NodesSound
<1>1. Init => Sound(dom)
  BY InitSound
<1>2. Sound(dom) /\ [Next]_vars => Sound(dom)'
  BY StepSound
<1>3. Sound(dom) => NodesSound
  BY SoundIs
<1> QED
  BY <1>1, <1>2, <1>3, PTL DEF Spec

-----------------------------------------------------------------------------
(* Character references. *)

\* Numbers with two halves, and the number they are.
Halves == [hi : 0 .. Half - 1, lo : 0 .. Half - 1]
Whole32(w) == w.hi * Half + w.lo

\* Two bases, how many digits of each are read, and their powers.
Bases == {10, 16}
Reach(base) == IF base = 10 THEN 9 ELSE 8
Power(base, k) ==
    IF base = 10 THEN <<1, 10, 100, 1000, 10000, 100000, 1000000, 10000000, 100000000, 1000000000>>[k + 1]
    ELSE <<1, 16, 256, 4096, 65536, 1048576, 16777216, 268435456, 4294967296>>[k + 1]

(* Each power is the one before it times the base, and its product with a digit has 32 bits. *)
LEMMA PowerSteps ==
    ASSUME NEW base \in Bases
    PROVE  /\ Power(base, 0) = 1
           /\ \A k \in 0 .. Reach(base) - 1 :
                 /\ Power(base, k) \in Nat /\ Power(base, k + 1) = Power(base, k) * base
                 /\ Power(base, k) * 16 <= Half * Half
<1>1. CASE base = 10
  <2>1. Power(base, 0) = 1
    BY <1>1 DEF Power
  <2>2. ASSUME NEW k \in 0 .. 8
        PROVE  /\ Power(10, k) \in Nat /\ Power(10, k + 1) = Power(10, k) * 10
               /\ Power(10, k) * 16 <= Half * Half
    <3>1. k \in {0, 1, 2, 3, 4, 5, 6, 7, 8}
      OBVIOUS
    <3> QED
      BY <3>1 DEF Power, Half
  <2> QED
    BY <1>1, <2>1, <2>2 DEF Reach
<1>2. CASE base = 16
  <2>1. Power(base, 0) = 1
    BY <1>2 DEF Power
  <2>2. ASSUME NEW k \in 0 .. 7
        PROVE  /\ Power(16, k) \in Nat /\ Power(16, k + 1) = Power(16, k) * 16
               /\ Power(16, k) * 16 <= Half * Half
    <3>1. k \in {0, 1, 2, 3, 4, 5, 6, 7}
      OBVIOUS
    <3> QED
      BY <3>1 DEF Power, Half
  <2> QED
    BY <1>2, <2>1, <2>2 DEF Reach
<1> QED
  BY <1>1, <1>2 DEF Bases

(* A half has 16 bits. *)
LEMMA HalfIs == Half = 65536
BY DEF Half

(* It is what counts the numbers of a half. *)
LEMMA HalfIsNat == Half \in Nat /\ Half > 1
BY DEF Half

(* So a half is a natural number below it. *)
LEMMA HalvesAre == ASSUME NEW w \in Halves PROVE w.hi \in Nat /\ w.lo \in Nat /\ w.hi < 65536 /\ w.lo < 65536
<1>1. w.hi \in Nat /\ w.lo \in Nat /\ w.hi < Half /\ w.lo < Half
  BY HalfIsNat DEF Halves
<1> QED
  BY <1>1, HalfIs

(* A product that has 32 bits is what its halves are. *)
LEMMA TimesIs ==
    ASSUME NEW w \in Halves, NEW k \in Nat
    PROVE  /\ Times(w, k) \in Halves
           /\ Whole32(w) * k < Half * Half => Whole32(Times(w, k)) = Whole32(w) * k
<1>1. PICK h \in Nat, l \in Nat : h = w.hi /\ l = w.lo
  BY HalvesAre
<1>2. w.hi = h /\ w.lo = l
  BY <1>1
<1> DEFINE a == h * k
           b == l * k
<1>3. a \in Nat /\ b \in Nat
  BY Product, Zenon
<1>4. (h * 65536 + l) * k = a * 65536 + b
  OBVIOUS
<1>5. Times(w, k) = [hi |-> (a + b \div 65536) % 65536, lo |-> b % 65536]
  BY <1>2 DEF Times, Half
<1> HIDE DEF a, b
<1> DEFINE high == (a + b \div 65536) % 65536
           low  == b % 65536
<1>6. high \in Nat /\ high < 65536 /\ low \in Nat /\ low < 65536
  <2>1. b \div 65536 \in Nat
    BY <1>3
  <2>2. a + b \div 65536 \in Nat
    BY <1>3, <2>1
  <2> QED
    BY <1>3, <2>2
<1>7. Times(w, k) \in Halves
  <2>1. Times(w, k) = [hi |-> high, lo |-> low]
    BY <1>5
  <2> HIDE DEF high, low
  <2>2. high < Half /\ low < Half
    BY <1>6, HalfIs
  <2>3. high \in 0 .. Half - 1 /\ low \in 0 .. Half - 1
    BY <1>6, <2>2, HalfIsNat
  <2> QED
    BY <2>1, <2>3 DEF Halves
<1>8. ASSUME Whole32(w) * k < Half * Half PROVE Whole32(Times(w, k)) = Whole32(w) * k
  <2>1. a * 65536 + b < 65536 * 65536
    BY <1>2, <1>4, <1>8 DEF Whole32, Half
  <2>2. (a + b \div 65536) % 65536 = a + b \div 65536
    BY <1>3, <2>1
  <2>3. (a + b \div 65536) * 65536 + (b % 65536) = a * 65536 + b
    BY <1>3
  <2> QED
    BY <1>2, <1>4, <1>5, <2>2, <2>3 DEF Whole32, Half
<1> QED
  BY <1>7, <1>8

(* mult, step by step. *)
LEMMA MultSteps ==
    ASSUME NEW base \in Bases
    PROVE  /\ Mult(base)[0] = [hi |-> 0, lo |-> 1]
           /\ \A k \in 1 .. 15 : Mult(base)[k] = Times(Mult(base)[k - 1], base)
<1> DEFINE one == [hi |-> 0, lo |-> 1]
           step == [p \in Nat \X Halves |-> Times(p[2], base)]
<1>1. one \in Halves /\ step \in [Nat \X Halves -> Halves]
  <2>1. one \in Halves
    BY HalfIsNat DEF Halves
  <2>2. ASSUME NEW p \in Nat \X Halves PROVE Times(p[2], base) \in Halves
    BY TimesIs DEF Bases
  <2> QED
    BY <2>1, <2>2
<1> HIDE DEF one
<1>2. PICK f : RecursUpto(f, 15, Halves, one, step)
  <2> HIDE DEF step
  <2> QED
    BY <1>1, RecursionUpto
<1>3. f \in [0 .. 15 -> Halves] /\ f[0] = one /\ \A k \in 0 .. 14 : f[k + 1] = step[<<k, f[k]>>]
  BY <1>2 DEF RecursUpto
<1>4. ASSUME NEW k \in 0 .. 15, k # 0 PROVE f[k] = Times(f[k - 1], base)
  <2>1. k - 1 \in 0 .. 14 /\ k - 1 \in 0 .. 15 /\ k - 1 \in Nat /\ (k - 1) + 1 = k
    BY <1>4
  <2>2. f[k - 1] \in Halves
    BY <1>3, <2>1
  <2>3. f[(k - 1) + 1] = step[<<k - 1, f[k - 1]>>]
    BY <1>3, <2>1
  <2> QED
    BY <2>1, <2>2, <2>3
<1> DEFINE Defines(g) == g = [k \in 0 .. 15 |-> IF k = 0 THEN one ELSE Times(g[k - 1], base)]
<1>5. Defines(f)
  BY <1>3, <1>4
<1>6. Mult(base) = CHOOSE g : Defines(g)
  BY DEF Mult, one
<1>7. Defines(Mult(base))
  BY <1>5, <1>6, Zenon
<1> DEFINE g == Mult(base)
<1> HIDE DEF g
<1>8. g = [k \in 0 .. 15 |-> IF k = 0 THEN one ELSE Times(g[k - 1], base)]
  BY <1>7 DEF g
<1>9. g[0] = one
  BY <1>8
<1>10. ASSUME NEW k \in 1 .. 15 PROVE g[k] = Times(g[k - 1], base)
  BY <1>8
<1> QED
  BY <1>9, <1>10 DEF g, one

(* mult is the power of the base. *)
LEMMA MultIs ==
    ASSUME NEW base \in Bases
    PROVE  \A k \in 0 .. Reach(base) - 1 : Mult(base)[k] \in Halves /\ Whole32(Mult(base)[k]) = Power(base, k)
<1> DEFINE n == Reach(base) - 1
           S == {k \in 0 .. n : Mult(base)[k] \in Halves /\ Whole32(Mult(base)[k]) = Power(base, k)}
<1>1. n \in Nat /\ n <= 15 /\ base \in Nat /\ base <= 16
  BY DEF Bases, Reach
<1>2. 0 \in S
  <2>1. Mult(base)[0] = [hi |-> 0, lo |-> 1]
    BY MultSteps
  <2>2. Mult(base)[0] \in Halves /\ Whole32(Mult(base)[0]) = 1
    BY <2>1, HalfIsNat DEF Halves, Whole32
  <2> QED
    BY <1>1, <2>2, PowerSteps
<1>3. ASSUME NEW k \in 0 .. n - 1, k \in S PROVE k + 1 \in S
  <2>1. k \in 0 .. Reach(base) - 1 /\ k + 1 \in 0 .. Reach(base) - 1 /\ k + 1 \in 0 .. n
    BY <1>1
  <2>2. Mult(base)[k] \in Halves /\ Whole32(Mult(base)[k]) = Power(base, k)
    BY <1>3
  <2>3. k + 1 \in 1 .. 15 /\ (k + 1) - 1 = k
    BY <1>1
  <2>4. Mult(base)[k + 1] = Times(Mult(base)[k], base)
    BY <2>3, MultSteps
  <2>5. Power(base, k + 1) \in Nat /\ Power(base, k + 1) * 16 <= Half * Half
        /\ Power(base, k + 1) = Power(base, k) * base
    BY <2>1, PowerSteps
  <2>6. Power(base, k + 1) < Half * Half
    BY <2>5 DEF Half
  <2>7. Whole32(Mult(base)[k]) * base < Half * Half
    BY <2>2, <2>5, <2>6
  <2>8. Mult(base)[k + 1] \in Halves /\ Whole32(Mult(base)[k + 1]) = Power(base, k + 1)
    BY <1>1, <2>2, <2>4, <2>5, <2>7, TimesIs
  <2> QED
    BY <2>1, <2>8
<1> HIDE DEF S
<1>4. 0 .. n \subseteq S
  BY <1>1, <1>2, <1>3, InductUpto
<1> QED
  BY <1>4 DEF S

\* The least of a number and Cap.
UpToCap(x) == IF x > Cap THEN Cap ELSE x

(* What counts of an unsigned. *)
LEMMA CappedIs == ASSUME NEW w \in Halves PROVE Capped(w) = UpToCap(Whole32(w))
<1>1. PICK h \in Nat, l \in Nat : h = w.hi /\ l = w.lo /\ l < 65536
  BY HalvesAre
<1>2. w.hi = h /\ w.lo = l
  BY <1>1
<1>3. Cap \div Half = 32
  BY DEF Cap, Half
<1>4. Cap = 32 * 65536
  BY DEF Cap
<1> QED
  BY <1>1, <1>2, <1>3, <1>4, HalfIs DEF Capped, UpToCap, Whole32

(* The semicolon is no other symbol of a reference. *)
LEMMA SemicolonIsItself ==
    /\ Semicolon \notin {"&", "#", "x", "NUL"}
    /\ Semicolon \notin {"0", "1", "2", "3", "4", "5", "6", "7", "8", "9", "a", "b", "c", "d", "e", "f"}
    /\ Semicolon \notin {"0", "1", "2", "3", "4", "5", "6", "7", "8", "9", "A", "B", "C", "D", "E", "F"}
BY Zenon DEF Semicolon

(* Digits have values below 16, and are no other symbols of a reference. *)
LEMMA DigitFacts ==
    ASSUME NEW c \in DigitsOf(16)
    PROVE  DigitValue(c) \in 0 .. 15 /\ c \notin {"&", "#", "x", Semicolon, "NUL"}
<1>1. PICK i \in 1 .. 16 : c = Lower[i] \/ c = Upper[i]
  BY DEF DigitsOf
<1>2. \E v \in 0 .. 15 : c \in {Lower[v + 1], Upper[v + 1]}
  <2>1. i - 1 \in 0 .. 15 /\ (i - 1) + 1 = i
    OBVIOUS
  <2> QED
    BY <1>1, <2>1
<1>3. DigitValue(c) \in 0 .. 15
  BY <1>2, Zenon DEF DigitValue
<1>4. i \in {1, 2, 3, 4, 5, 6, 7, 8, 9, 10, 11, 12, 13, 14, 15, 16}
  OBVIOUS
<1>5. Lower[i] \in {"0", "1", "2", "3", "4", "5", "6", "7", "8", "9", "a", "b", "c", "d", "e", "f"}
  BY <1>4 DEF Lower
<1>6. Upper[i] \in {"0", "1", "2", "3", "4", "5", "6", "7", "8", "9", "A", "B", "C", "D", "E", "F"}
  BY <1>4 DEF Upper
<1>7. c \notin {"&", "#", "x", Semicolon, "NUL"}
  <2>1. CASE c = Lower[i]
    BY <1>5, <2>1, SemicolonIsItself
  <2>2. CASE c = Upper[i]
    BY <1>6, <2>2, SemicolonIsItself
  <2> QED
    BY <1>1, <2>1, <2>2
<1> QED
  BY <1>3, <1>7

(* The decimal digits are hexadecimal ones too. *)
LEMMA DecimalIsHex == DigitsOf(10) \subseteq DigitsOf(16)
BY DEF DigitsOf

\* The values of digits.
Worths(digits) == [i \in DOMAIN digits |-> DigitValue(digits[i])]

(* What a digit adds. *)
LEMMA AddedIs ==
    ASSUME NEW base \in Bases, NEW digits \in Seq(DigitsOf(16)), Len(digits) <= Reach(base),
           NEW i \in 1 .. Len(digits)
    PROVE  /\ Added(digits, base, i) = UpToCap(Power(base, Len(digits) - i) * Worths(digits)[i])
           /\ Worths(digits)[i] \in 0 .. 15 /\ Power(base, Len(digits) - i) * Worths(digits)[i] \in Nat
<1> DEFINE k == Len(digits) - i
           v == DigitValue(digits[i])
<1>1. k \in 0 .. Reach(base) - 1
  BY DEF Reach
<1>2. v \in 0 .. 15 /\ Worths(digits)[i] = v
  <2>1. digits[i] \in DigitsOf(16) /\ i \in DOMAIN digits
    OBVIOUS
  <2>2. v \in 0 .. 15
    BY <2>1, DigitFacts, Zenon
  <2> QED
    BY <2>1, <2>2 DEF Worths
<1> HIDE DEF k, v
<1>3. Mult(base)[k] \in Halves /\ Whole32(Mult(base)[k]) = Power(base, k)
  BY <1>1, MultIs
<1>4. Power(base, k) \in Nat /\ Power(base, k) * 16 <= Half * Half
  BY <1>1, PowerSteps
<1>5. Power(base, k) * v < Half * Half /\ Power(base, k) * v \in Nat
  <2>1. PICK p \in Nat : p = Power(base, k) /\ p * 16 <= 65536 * 65536
    BY <1>4 DEF Half
  <2>2. p * v <= p * 15
    BY <1>2
  <2>3. p * v \in Nat
    BY <1>2
  <2> QED
    BY <2>1, <2>2, <2>3 DEF Half
<1>6. Times(Mult(base)[k], v) \in Halves /\ Whole32(Times(Mult(base)[k], v)) = Power(base, k) * v
  BY <1>2, <1>3, <1>5, TimesIs
<1>7. Added(digits, base, i) = Capped(Times(Mult(base)[k], v))
  BY DEF Added, k, v
<1>8. Capped(Times(Mult(base)[k], v)) = UpToCap(Power(base, k) * v)
  BY <1>6, CappedIs
<1> QED
  BY <1>2, <1>5, <1>7, <1>8 DEF k

(* ucs, step by step. *)
LEMMA SumsSteps ==
    ASSUME NEW base \in Bases, NEW digits \in Seq(DigitsOf(16)), Len(digits) <= Reach(base)
    PROVE  /\ Sums(digits, base)[0] = 0
           /\ \A i \in 1 .. Len(digits) :
                 Sums(digits, base)[i] = UpToCap(Sums(digits, base)[i - 1] + Added(digits, base, i))
<1> DEFINE n == Len(digits)
           More(k) == Added(digits, base, k)
           step == [p \in Nat \X Nat |-> IF p[1] + 1 \in 1 .. n THEN UpToCap(p[2] + More(p[1] + 1)) ELSE 0]
<1>1. n \in Nat /\ \A k \in 1 .. n : More(k) \in Nat
  <2>1. ASSUME NEW k \in 1 .. n PROVE More(k) \in Nat
    BY AddedIs DEF UpToCap, Cap
  <2> QED
    BY <2>1
<1> HIDE DEF n, More
<1>2. step \in [Nat \X Nat -> Nat]
  <2>1. ASSUME NEW p \in Nat \X Nat
        PROVE  (IF p[1] + 1 \in 1 .. n THEN UpToCap(p[2] + More(p[1] + 1)) ELSE 0) \in Nat
    BY <1>1 DEF UpToCap, Cap
  <2> QED
    BY <2>1
<1>3. PICK f : RecursUpto(f, n, Nat, 0, step)
  <2> HIDE DEF step
  <2> QED
    BY <1>1, <1>2, RecursionUpto
<1>4. f \in [0 .. n -> Nat] /\ f[0] = 0 /\ \A k \in 0 .. n - 1 : f[k + 1] = step[<<k, f[k]>>]
  BY <1>3 DEF RecursUpto
<1>5. ASSUME NEW k \in 0 .. n, k # 0 PROVE f[k] = UpToCap(f[k - 1] + More(k))
  <2>1. k - 1 \in 0 .. n - 1 /\ k - 1 \in 0 .. n /\ k - 1 \in Nat /\ (k - 1) + 1 = k /\ k \in 1 .. n
    BY <1>1, <1>5
  <2>2. f[k - 1] \in Nat
    BY <1>4, <2>1
  <2>3. f[(k - 1) + 1] = step[<<k - 1, f[k - 1]>>]
    BY <1>4, <2>1
  <2> QED
    BY <2>1, <2>2, <2>3
<1> DEFINE Defines(g) == g = [i \in 0 .. n |-> IF i = 0 THEN 0
                                               ELSE LET s == g[i - 1] + Added(digits, base, i)
                                                    IN  IF s > Cap THEN Cap ELSE s]
<1>6. Defines(f)
  BY <1>4, <1>5 DEF More, UpToCap
<1>7. Sums(digits, base) = CHOOSE g : Defines(g)
  BY DEF Sums, n
<1>8. Defines(Sums(digits, base))
  BY <1>6, <1>7, Zenon
<1> DEFINE g == Sums(digits, base)
<1> HIDE DEF g
<1>9. g = [i \in 0 .. n |-> IF i = 0 THEN 0 ELSE UpToCap(g[i - 1] + Added(digits, base, i))]
  BY <1>8 DEF g, UpToCap
<1>10. g[0] = 0
  BY <1>1, <1>9
<1>11. ASSUME NEW i \in 1 .. n PROVE g[i] = UpToCap(g[i - 1] + Added(digits, base, i))
  BY <1>1, <1>9
<1> QED
  BY <1>10, <1>11 DEF g, n

(* A number read from the left, step by step. *)
LEMMA FromLeftSteps ==
    ASSUME NEW base \in Nat, NEW places \in Seq(Nat)
    PROVE  /\ FromLeft(places, base)[0] = 0
           /\ \A i \in 1 .. Len(places) :
                 /\ FromLeft(places, base)[i - 1] \in Nat /\ FromLeft(places, base)[i] \in Nat
                 /\ FromLeft(places, base)[i] = FromLeft(places, base)[i - 1] * base + places[i]
<1> DEFINE n == Len(places)
           step == [p \in Nat \X Nat |-> IF p[1] + 1 \in 1 .. n THEN p[2] * base + places[p[1] + 1] ELSE 0]
<1>1. n \in Nat /\ \A k \in 1 .. n : places[k] \in Nat
  OBVIOUS
<1> HIDE DEF n
<1>2. step \in [Nat \X Nat -> Nat]
  <2>1. ASSUME NEW p \in Nat \X Nat
        PROVE  (IF p[1] + 1 \in 1 .. n THEN p[2] * base + places[p[1] + 1] ELSE 0) \in Nat
    <3>1. p[2] * base \in Nat
      BY Product
    <3> QED
      BY <1>1, <3>1, SMTT(30)
  <2> QED
    BY <2>1
<1>3. PICK f : RecursUpto(f, n, Nat, 0, step)
  <2> HIDE DEF step
  <2> QED
    BY <1>1, <1>2, RecursionUpto
<1>4. f \in [0 .. n -> Nat] /\ f[0] = 0 /\ \A k \in 0 .. n - 1 : f[k + 1] = step[<<k, f[k]>>]
  BY <1>3 DEF RecursUpto
<1>5. ASSUME NEW k \in 0 .. n, k # 0 PROVE f[k] = f[k - 1] * base + places[k]
  <2>1. k - 1 \in 0 .. n - 1 /\ k - 1 \in 0 .. n /\ k - 1 \in Nat /\ (k - 1) + 1 = k /\ k \in 1 .. n
    BY <1>1, <1>5
  <2>2. f[k - 1] \in Nat
    BY <1>4, <2>1
  <2>3. f[(k - 1) + 1] = step[<<k - 1, f[k - 1]>>]
    BY <1>4, <2>1
  <2> QED
    BY <2>1, <2>2, <2>3
<1> DEFINE Defines(g) == g = [i \in 0 .. n |-> IF i = 0 THEN 0 ELSE g[i - 1] * base + places[i]]
<1>6. Defines(f)
  BY <1>4, <1>5
<1>7. FromLeft(places, base) = CHOOSE g : Defines(g)
  BY DEF FromLeft, n
<1> HIDE DEF Defines
<1>8. \A g : Defines(g) => g = f
  <2> SUFFICES ASSUME NEW g, Defines(g) PROVE g = f
    OBVIOUS
  <2>1. g = [i \in 0 .. n |-> IF i = 0 THEN 0 ELSE g[i - 1] * base + places[i]]
    BY DEF Defines
  <2> DEFINE S == {k \in 0 .. n : g[k] = f[k]}
  <2>2. 0 \in S
    BY <1>1, <1>4, <2>1
  <2>3. ASSUME NEW k \in 0 .. n - 1, k \in S PROVE k + 1 \in S
    <3>1. k + 1 \in 0 .. n /\ k + 1 # 0 /\ (k + 1) - 1 = k
      BY <1>1
    <3>2. g[k + 1] = g[k] * base + places[k + 1] /\ f[k + 1] = f[k] * base + places[k + 1]
      BY <1>5, <2>1, <3>1
    <3> QED
      BY <2>3, <3>1, <3>2
  <2> HIDE DEF S
  <2>4. 0 .. n \subseteq S
    BY <1>1, <2>2, <2>3, InductUpto
  <2>5. \A k \in 0 .. n : g[k] = f[k]
    BY <2>4 DEF S
  <2> QED
    BY <1>4, <2>1, <2>5
<1>9. FromLeft(places, base) = f
  BY <1>6, <1>7, <1>8, Zenon
<1>10. ASSUME NEW i \in 1 .. n PROVE f[i - 1] \in Nat /\ f[i] \in Nat /\ f[i] = f[i - 1] * base + places[i]
  <2>1. i \in 0 .. n /\ i # 0 /\ i - 1 \in 0 .. n
    BY <1>1
  <2> QED
    BY <1>4, <1>5, <2>1
<1> QED
  BY <1>4, <1>9, <1>10 DEF n

(* ucs is the number of the digits, as far as it counts. *)
LEMMA UcsIs ==
    ASSUME NEW base \in Bases, NEW digits \in Seq(DigitsOf(16)), Len(digits) <= Reach(base)
    PROVE  /\ Worth(Worths(digits), base) \in Nat
           /\ Ucs(digits, base) = UpToCap(Worth(Worths(digits), base))
<1> DEFINE n == Len(digits)
           places == Worths(digits)
           sum == Sums(digits, base)
           value == FromLeft(places, base)
           S == {i \in 0 .. n : value[i] \in Nat /\ sum[i] = UpToCap(value[i] * Power(base, n - i))}
<1>1. n \in Nat /\ places \in Seq(Nat) /\ Len(places) = n /\ base \in Nat
  <2>1. n \in Nat /\ DOMAIN digits = 1 .. n /\ base \in Nat
    BY DEF Bases
  <2>2. ASSUME NEW i \in 1 .. n PROVE DigitValue(digits[i]) \in Nat
    <3>1. digits[i] \in DigitsOf(16)
      BY <2>1
    <3> QED
      BY <3>1, DigitFacts, SMTT(30)
  <2> HIDE DEF n
  <2>3. places = [i \in 1 .. n |-> DigitValue(digits[i])]
    BY <2>1 DEF Worths
  <2> QED
    BY <2>1, <2>2, <2>3
<1>2. /\ value[0] = 0
      /\ \A i \in 1 .. n : /\ value[i - 1] \in Nat /\ value[i] \in Nat
                           /\ value[i] = value[i - 1] * base + places[i]
  BY <1>1, FromLeftSteps
<1>3. sum[0] = 0 /\ \A i \in 1 .. n : sum[i] = UpToCap(sum[i - 1] + Added(digits, base, i))
  BY SumsSteps
<1>4. ASSUME NEW i \in 1 .. n
      PROVE  /\ Added(digits, base, i) = UpToCap(Power(base, n - i) * places[i])
             /\ places[i] \in Nat /\ Power(base, n - i) * places[i] \in Nat
  <2>1. /\ Added(digits, base, i) = UpToCap(Power(base, n - i) * places[i])
        /\ places[i] \in 0 .. 15 /\ Power(base, n - i) * places[i] \in Nat
    BY AddedIs, Zenon
  <2> QED
    BY <2>1, SMTT(30)
<1>5. \A k \in 0 .. n - 1 : Power(base, k) \in Nat /\ Power(base, k + 1) = Power(base, k) * base
  <2>1. \A k \in 0 .. n - 1 : k \in 0 .. Reach(base) - 1
    BY <1>1 DEF Reach
  <2> QED
    BY <2>1, PowerSteps
<1> HIDE DEF n, places, sum, value
<1>6. Power(base, n) \in Nat
  <2>1. CASE n = 0
    BY <2>1, PowerSteps
  <2>2. CASE n # 0
    <3>1. n - 1 \in 0 .. n - 1 /\ (n - 1) + 1 = n
      BY <1>1, <2>2
    <3>2. Power(base, n) = Power(base, n - 1) * base /\ Power(base, n - 1) \in Nat
      BY <1>5, <3>1
    <3> QED
      BY <1>1, <3>2, Product
  <2> QED
    BY <2>1, <2>2
<1>7. 0 \in S
  <2>1. n - 0 = n
    BY <1>1
  <2>2. value[0] * Power(base, n - 0) = 0
    BY <1>2, <1>6, <2>1
  <2> QED
    BY <1>1, <1>2, <1>3, <2>2 DEF UpToCap, Cap
<1>8. ASSUME NEW i \in 0 .. n - 1, i \in S PROVE i + 1 \in S
  <2>1. i + 1 \in 1 .. n /\ i + 1 \in 0 .. n /\ (i + 1) - 1 = i /\ n - (i + 1) \in 0 .. n - 1
        /\ n - i = (n - (i + 1)) + 1
    BY <1>1
  <2> DEFINE v == value[i]
             p == Power(base, n - (i + 1))
             d == places[i + 1]
  <2>2. v \in Nat /\ p \in Nat /\ d \in Nat /\ p * d \in Nat
    BY <1>2, <1>4, <1>5, <2>1
  <2>3. value[i + 1] = v * base + d /\ value[i + 1] \in Nat
    BY <1>2, <2>1
  <2>4. Power(base, n - i) = p * base
    BY <1>5, <2>1
  <2>5. sum[i] = UpToCap(v * (p * base))
    BY <1>8, <2>4
  <2>6. sum[i + 1] = UpToCap(sum[i] + UpToCap(p * d))
    BY <1>3, <1>4, <2>1
  <2> HIDE DEF v, p, d
  <2>7. (v * base + d) * p = v * (p * base) + p * d
    <3>1. PICK b \in Nat : b = base
      BY <1>1
    <3>2. (v * b + d) * p = v * (p * b) + p * d
      BY <2>2
    <3> QED
      BY <3>1, <3>2
  <2>8. v * (p * base) \in Nat
    BY <1>1, <2>2, Product
  <2>9. \A x, y \in Nat : UpToCap(UpToCap(x) + UpToCap(y)) = UpToCap(x + y)
    BY DEF UpToCap, Cap
  <2>10. sum[i + 1] = UpToCap(value[i + 1] * p)
    <3> DEFINE a == v * (p * base)
               b == p * d
    <3>1. sum[i + 1] = UpToCap(UpToCap(a) + UpToCap(b))
      BY <2>5, <2>6
    <3>2. value[i + 1] * p = a + b
      BY <2>3, <2>7
    <3>3. a \in Nat /\ b \in Nat
      BY <2>2, <2>8
    <3> HIDE DEF a, b
    <3>4. UpToCap(UpToCap(a) + UpToCap(b)) = UpToCap(a + b)
      BY <2>9, <3>3
    <3> QED
      BY <3>1, <3>2, <3>4, Zenon
  <2> QED
    BY <2>1, <2>3, <2>10 DEF p
<1> HIDE DEF S
<1>9. 0 .. n \subseteq S
  BY <1>1, <1>7, <1>8, InductUpto
<1>10. value[n] \in Nat /\ sum[n] = UpToCap(value[n] * Power(base, n - n))
  BY <1>1, <1>9 DEF S
<1>11. value[n] * Power(base, n - n) = value[n]
  <2>1. n - n = 0
    BY <1>1
  <2>2. Power(base, n - n) = 1
    BY <2>1, PowerSteps
  <2> QED
    BY <1>10, <2>2
<1>12. Worth(places, base) = value[n]
  BY <1>1 DEF Worth, value
<1>13. Ucs(digits, base) = sum[n]
  BY DEF Ucs, sum, n
<1> QED
  BY <1>10, <1>11, <1>12, <1>13 DEF places

-----------------------------------------------------------------------------
(* UTF-8. *)

\* The six bits of each byte, or what is left for the first.
Sixes(bytes) == [i \in DOMAIN bytes |-> bytes[i] - IF i = 1 THEN FirstByteMark[Len(bytes)] ELSE 128]

(* A number is the last six bits and what is in front of them. *)
LEMMA Sixth == \A n \in Nat : n \div 64 \in Nat /\ n % 64 \in 0 .. 63 /\ n = (n \div 64) * 64 + (n % 64)
OBVIOUS

(* The sixes of a number, from its end. *)
LEMMA TwoSixths == \A n \in Nat : n \div (64 * 64) = (n \div 64) \div 64
<1> SUFFICES ASSUME NEW n \in Nat PROVE n \div (64 * 64) = (n \div 64) \div 64
  OBVIOUS
<1> QED
  BY SMTT(30)

(* And the six bits in front of them. *)
LEMMA ThreeSixths == \A n \in Nat : n \div (64 * 64 * 64) = ((n \div 64) \div 64) \div 64
<1> SUFFICES ASSUME NEW n \in Nat PROVE n \div (64 * 64 * 64) = ((n \div 64) \div 64) \div 64
  OBVIOUS
<1> QED
  BY SMTT(30)

(* Bytes mean the number they were made of. *)
LEMMA BytesMean ==
    ASSUME NEW n \in Nat, n < Cap
    PROVE  /\ ConvertUTF32ToUTF8(n) # <<>> /\ Len(ConvertUTF32ToUTF8(n)) = Utf8Length(n)
           /\ Utf8Length(n) \in 1 .. 4 /\ (n = 0 => Utf8Length(n) = 1)
           /\ Decoded(ConvertUTF32ToUTF8(n)) = n
<1> DEFINE len == Utf8Length(n)
           bytes == ConvertUTF32ToUTF8(n)
           places == [i \in 1 .. len |-> IF i = 1 THEN n \div Shift[len] ELSE (n \div Shift[len - i + 1]) % 64]
<1>1. n \in Nat /\ n < 2097152
  BY DEF Cap
<1>2. \/ n < 128 /\ len = 1
      \/ n < 2048 /\ n >= 128 /\ len = 2
      \/ n < 65536 /\ n >= 2048 /\ len = 3
      \/ n >= 65536 /\ len = 4
  <2>1. CASE n < 128
    BY <2>1 DEF Utf8Length
  <2>2. CASE n >= 128 /\ n < 2048
    BY <2>2 DEF Utf8Length
  <2>3. CASE n >= 2048 /\ n < 65536
    BY <2>3 DEF Utf8Length
  <2>4. CASE n >= 65536
    BY <2>4 DEF Utf8Length
  <2> QED
    BY <2>1, <2>2, <2>3, <2>4
<1>3. len \in 1 .. 4 /\ (n = 0 => len = 1)
  BY <1>2
<1> HIDE DEF len
<1>4. FirstByteMark[len] \in Int
  <2>1. len \in {1, 2, 3, 4}
    BY <1>3
  <2> QED
    BY <2>1 DEF FirstByteMark
<1>5. \A i \in 1 .. len : Shift[len] \in Nat \ {0} /\ Shift[len - i + 1] \in Nat \ {0}
  <2>1. \A j \in {1, 2, 3, 4} : Shift[j] \in Nat \ {0}
    BY DEF Shift
  <2>2. \A i \in 1 .. len : len - i + 1 \in {1, 2, 3, 4} /\ len \in {1, 2, 3, 4}
    BY <1>3
  <2> QED
    BY <2>1, <2>2
<1>6. bytes = [i \in 1 .. len |-> IF i = 1 THEN n \div Shift[len] + FirstByteMark[len]
                                  ELSE 128 + ((n \div Shift[len - i + 1]) % 64)]
  BY DEF ConvertUTF32ToUTF8, len
<1> HIDE DEF bytes
<1>7. bytes # <<>> /\ Len(bytes) = len /\ DOMAIN bytes = 1 .. len
  BY <1>3, <1>6
<1>8. ASSUME NEW i \in 1 .. len PROVE places[i] \in Nat /\ Sixes(bytes)[i] = places[i]
  <2>1. n \div Shift[len] \in Nat /\ n \div Shift[len - i + 1] \in Nat
    BY <1>1, <1>5, Quotient
  <2>2. (n \div Shift[len - i + 1]) % 64 \in Nat
    BY <2>1
  <2>3. Sixes(bytes)[i] = bytes[i] - IF i = 1 THEN FirstByteMark[len] ELSE 128
    BY <1>7 DEF Sixes
  <2>4. CASE i = 1
    BY <1>4, <1>6, <2>1, <2>3, <2>4
  <2>5. CASE i # 1
    BY <1>6, <2>2, <2>3, <2>5
  <2> QED
    BY <2>4, <2>5
<1>9. Sixes(bytes) = places /\ places \in Seq(Nat) /\ Len(places) = len
  <2>1. Sixes(bytes) = [i \in 1 .. len |-> Sixes(bytes)[i]]
    BY <1>7 DEF Sixes
  <2>2. Sixes(bytes) = places
    BY <1>8, <2>1
  <2>3. places \in [1 .. len -> Nat]
    <3>1. \A i \in 1 .. len : places[i] \in Nat
      BY <1>8
    <3> QED
      BY <3>1
  <2> HIDE DEF places
  <2> QED
    BY <1>3, <2>2, <2>3
<1> DEFINE value == FromLeft(places, 64)
<1>10. value[0] = 0 /\ \A i \in 1 .. len : value[i] = value[i - 1] * 64 + places[i]
  <2> HIDE DEF places
  <2>1. 64 \in Nat
    OBVIOUS
  <2>2. /\ FromLeft(places, 64)[0] = 0
        /\ \A i \in 1 .. Len(places) :
              /\ FromLeft(places, 64)[i - 1] \in Nat /\ FromLeft(places, 64)[i] \in Nat
              /\ FromLeft(places, 64)[i] = FromLeft(places, 64)[i - 1] * 64 + places[i]
    BY <1>9, <2>1, FromLeftSteps, Zenon
  <2> QED
    BY <1>9, <2>2
<1>11. Decoded(bytes) = value[len]
  <2> HIDE DEF places
  <2>1. Decoded(bytes) = Worth(Sixes(bytes), 64)
    BY DEF Decoded, Sixes
  <2> QED
    BY <1>9, <2>1 DEF Worth
<1>12. value[len] = n
  <2>1. \A i \in 1 .. len : i - 1 + 1 = i
    BY <1>3
  <2> HIDE DEF value
  <2>0. value[0] = 0
    BY <1>10
  <2>2. CASE len = 1
    <3>1. places[1] = n \div 1
      BY <2>2 DEF Shift
    <3>2. value[1] = value[0] * 64 + places[1]
      BY <1>10, <2>2
    <3> QED
      BY <1>1, <2>0, <2>2, <3>1, <3>2
  <2> DEFINE a == n \div 64
             b == n % 64
             c == a \div 64
             d == a % 64
             e == c \div 64
             f == c % 64
  <2>3. /\ a \in Nat /\ b \in 0 .. 63 /\ n = a * 64 + b
        /\ c \in Nat /\ d \in 0 .. 63 /\ a = c * 64 + d
        /\ e \in Nat /\ f \in 0 .. 63 /\ c = e * 64 + f
    <3>1. a \in Nat /\ b \in 0 .. 63 /\ n = a * 64 + b
      BY Sixth
    <3> HIDE DEF a, b
    <3>2. c \in Nat /\ d \in 0 .. 63 /\ a = c * 64 + d
      BY <3>1, Sixth
    <3> HIDE DEF c, d
    <3> QED
      BY <3>1, <3>2, Sixth
  <2>4. CASE len = 2
    <3>1. places[1] = a /\ places[2] = (n \div 1) % 64
      BY <2>4 DEF Shift
    <3>2. places[2] = b
      BY <1>1, <3>1
    <3>3. value[1] = value[0] * 64 + places[1] /\ value[2] = value[1] * 64 + places[2]
      BY <1>10, <2>4
    <3> HIDE DEF a, b, c, d, e, f, places
    <3> QED
      BY <2>0, <2>3, <2>4, <3>1, <3>2, <3>3
  <2>5. CASE len = 3
    <3>1. places[1] = n \div (64 * 64) /\ places[2] = d /\ places[3] = (n \div 1) % 64
      BY <2>5 DEF Shift
    <3> HIDE DEF places
    <3>2. places[1] = c /\ places[3] = b
      BY <1>1, <3>1, TwoSixths
    <3>3. /\ value[1] = value[0] * 64 + places[1] /\ value[2] = value[1] * 64 + places[2]
          /\ value[3] = value[2] * 64 + places[3]
      BY <1>10, <2>5
    <3> HIDE DEF a, b, c, d, e, f
    <3> QED
      BY <2>0, <2>3, <2>5, <3>1, <3>2, <3>3
  <2>6. CASE len = 4
    <3>1. /\ places[1] = n \div (64 * 64 * 64) /\ places[2] = (n \div (64 * 64)) % 64
          /\ places[3] = d /\ places[4] = (n \div 1) % 64
      BY <2>6 DEF Shift
    <3> HIDE DEF places
    <3>2. n \div (64 * 64 * 64) = e
      BY ThreeSixths
    <3>4. n \div (64 * 64) = c
      BY TwoSixths
    <3>5. places[1] = e
      BY <3>1, <3>2
    <3>6. places[2] = f
      BY <3>1, <3>4
    <3>7. places[4] = b
      BY <1>1, <3>1
    <3>3. /\ value[1] = value[0] * 64 + places[1] /\ value[2] = value[1] * 64 + places[2]
          /\ value[3] = value[2] * 64 + places[3] /\ value[4] = value[3] * 64 + places[4]
      BY <1>10, <2>6
    <3> HIDE DEF a, b, c, d, e, f
    <3> QED
      BY <2>0, <2>3, <2>6, <3>1, <3>3, <3>5, <3>6, <3>7
  <2> QED
    BY <1>2, <2>2, <2>4, <2>5, <2>6
<1> QED
  BY <1>3, <1>7, <1>11, <1>12 DEF len, bytes

(* A larger number has no bytes. *)
LEMMA NoBytes == ConvertUTF32ToUTF8(Cap) = <<>>
<1>1. Utf8Length(Cap) = 0
  BY DEF Utf8Length, Cap
<1> QED
  BY <1>1 DEF ConvertUTF32ToUTF8

-----------------------------------------------------------------------------
(* The text of a reference. *)

Symbols == {"&", "#", "x", Semicolon} \cup DigitsOf(16)
Radix(first) == IF first = 4 THEN 16 ELSE 10
Most(first)  == IF first = 4 THEN MaxHex ELSE MaxDecimal

\* It has n digits behind its beginning, and then a semicolon or none.
Ref(first, n, shut) ==
    /\ text \in Seq(Symbols)
    /\ Len(text) = first - 1 + n + shut
    /\ text[1] = "&" /\ text[2] = "#" /\ (first = 4 => text[3] = "x")
    /\ \A i \in first .. first + n - 1 : text[i] \in DigitsOf(Radix(first))
    /\ shut = 1 => text[first + n] = Semicolon
    /\ n <= Most(first)
CharsInv == \E first \in {3, 4}, shut \in {0, 1}, n \in Nat : Ref(first, n, shut)

(* What the text says of itself. *)
LEMMA RefFacts ==
    ASSUME NEW first \in {3, 4}, NEW shut \in {0, 1}, NEW n \in Nat, Ref(first, n, shut)
    PROVE  /\ (IsHex(text) <=> first = 4) /\ Base(text) = Radix(first)
           /\ (Finished <=> shut = 1)
           /\ \A i \in first .. first + n - 1 : text[i] \in DigitsOf(16)
<1>1. /\ text \in Seq(Symbols) /\ DOMAIN text = 1 .. Len(text) /\ Len(text) = first - 1 + n + shut
      /\ text[2] = "#" /\ (first = 4 => text[3] = "x")
      /\ (shut = 1 => text[first + n] = Semicolon)
  BY DEF Ref
<1>2. \A i \in first .. first + n - 1 : text[i] \in DigitsOf(16)
  BY DecimalIsHex DEF Ref, Radix
<1>3. IsHex(text) <=> first = 4
  <2>1. CASE first = 4
    <3>1. 3 \in DOMAIN text
      BY <1>1, <2>1
    <3> QED
      BY <1>1, <2>1, <3>1 DEF IsHex, At
  <2>2. CASE first = 3
    <3>2. CASE n > 0
      <4>1. text[3] \in DigitsOf(16)
        BY <1>2, <2>2, <3>2
      <4> QED
        BY <2>2, <4>1, DigitFacts DEF IsHex, At
    <3>3. CASE n = 0 /\ shut = 1
      <4>1. text[3] = Semicolon
        BY <1>1, <2>2, <3>3
      <4> QED
        BY <2>2, <4>1, SemicolonIsItself DEF IsHex, At
    <3>4. CASE n = 0 /\ shut = 0
      <4>1. Len(text) = 2
        BY <1>1, <2>2, <3>4
      <4>2. 3 \notin DOMAIN text
        BY <1>1, <4>1, SMTT(30)
      <4> QED
        BY <2>2, <4>2 DEF IsHex, At
    <3> QED
      BY <3>2, <3>3, <3>4
  <2> QED
    BY <2>1, <2>2
<1>4. Finished <=> shut = 1
  <2>1. CASE shut = 1
    <3>1. Len(text) = first + n
      BY <1>1, <2>1
    <3> QED
      BY <1>1, <2>1, <3>1 DEF Finished
  <2>2. CASE shut = 0
    <3>1. Len(text) = first + n - 1
      BY <1>1, <2>2
    <3>2. CASE n > 0
      <4>1. Len(text) \in first .. first + n - 1
        BY <3>1, <3>2 
      <4>2. text[Len(text)] \in DigitsOf(16)
        BY <1>2, <4>1
      <4> QED
        BY <2>2, <4>2, DigitFacts DEF Finished
    <3>3. CASE n = 0
      <4>1. text[Len(text)] \in {"#", "x"}
        <5>1. Len(text) = first - 1
          BY <3>1, <3>3
        <5> QED
          BY <1>1, <5>1
      <4> QED
        BY <2>2, <4>1, SemicolonIsItself DEF Finished
    <3> QED
      BY <3>2, <3>3
  <2> QED
    BY <2>1, <2>2
<1> QED
  BY <1>2, <1>3, <1>4 DEF Base, Radix

(* It begins without digits. *)
LEMMA CharsInitInv == CharsInit => CharsInv
<1> SUFFICES ASSUME CharsInit PROVE CharsInv
  OBVIOUS
<1>1. 0 <= MaxHex /\ 0 <= MaxDecimal
  BY DigitsAssumption
<1>2. CASE text = <<"&", "#">>
  <2>1. Ref(3, 0, 0)
    BY <1>1, <1>2 DEF Ref, Most, Symbols
  <2> QED
    BY <2>1 DEF CharsInv
<1>3. CASE text = <<"&", "#", "x">>
  <2>1. Ref(4, 0, 0)
    BY <1>1, <1>3 DEF Ref, Most, Symbols
  <2> QED
    BY <2>1 DEF CharsInv
<1> QED
  BY <1>2, <1>3 DEF CharsInit

(* Every character keeps the form. *)
LEMMA CharsStepInv == CharsInv /\ [CharsNext]_text => CharsInv'
<1> SUFFICES ASSUME CharsInv, [CharsNext]_text PROVE CharsInv'
  OBVIOUS
<1>1. PICK first \in {3, 4}, shut \in {0, 1}, n \in Nat : Ref(first, n, shut)
  BY DEF CharsInv
<1>2. (IsHex(text) <=> first = 4) /\ (Finished <=> shut = 1)
  BY <1>1, RefFacts
<1>3. text \in Seq(Symbols) /\ Len(text) = first - 1 + n + shut /\ first \in {3, 4}
  BY <1>1 DEF Ref
<1>4. ASSUME NEW c \in HexDigits \cup DecimalDigits, Digit(c) PROVE CharsInv'
  <2>1. shut = 0 /\ text' = Append(text, c)
    BY <1>2, <1>4 DEF Digit
  <2>2. c \in DigitsOf(Radix(first)) /\ c \in Symbols /\ n + 1 <= Most(first)
    <3>1. CASE first = 4
      <4>1. c \in HexDigits /\ Len(text) - 3 < MaxHex
        BY <1>2, <1>4, <3>1 DEF Digit
      <4>2. n < MaxHex
        BY <1>3, <2>1, <3>1, <4>1, DigitsAssumption 
      <4> QED
        <5>1. c \in DigitsOf(16)
          BY <4>1, DigitsAssumption
        <5>2. Radix(first) = 16 /\ Most(first) = MaxHex
          BY <3>1 DEF Radix, Most
        <5>3. n + 1 <= MaxHex
          BY <4>2, DigitsAssumption
        <5> QED
          BY <5>1, <5>2, <5>3 DEF Symbols
    <3>2. CASE first = 3
      <4>1. c \in DecimalDigits /\ Len(text) - 2 < MaxDecimal
        BY <1>2, <1>4, <3>2 DEF Digit
      <4>2. n < MaxDecimal
        BY <1>3, <2>1, <3>2, <4>1, DigitsAssumption 
      <4> QED
        <5>1. c \in DigitsOf(10) /\ c \in DigitsOf(16)
          BY <4>1, DigitsAssumption, DecimalIsHex
        <5>2. Radix(first) = 10 /\ Most(first) = MaxDecimal
          BY <3>2 DEF Radix, Most
        <5>3. n + 1 <= MaxDecimal
          BY <4>2, DigitsAssumption
        <5> QED
          BY <5>1, <5>2, <5>3 DEF Symbols
    <3> QED
      BY <3>1, <3>2
  <2>3. Ref(first, n + 1, 0)'
    <3>1. text' \in Seq(Symbols) /\ Len(text') = Len(text) + 1 /\ text'[Len(text) + 1] = c
          /\ \A i \in 1 .. Len(text) : text'[i] = text[i]
      BY <1>3, <2>1, <2>2
    <3>2. Len(text) = first - 1 + n
      BY <1>3, <2>1
    <3>3. ASSUME NEW i \in first .. first + (n + 1) - 1
          PROVE  text'[i] \in DigitsOf(Radix(first))
      <4>1. CASE i = first + n
        BY <1>3, <2>2, <3>1, <3>2, <4>1
      <4>2. CASE i # first + n
        <5>1. i \in first .. first + n - 1 /\ i \in 1 .. Len(text)
          BY <1>3, <3>2, <4>2
        <5>2. text[i] \in DigitsOf(Radix(first))
          BY <1>1, <5>1 DEF Ref
        <5> QED
          BY <3>1, <5>1, <5>2
      <4> QED
        BY <4>1, <4>2
    <3>4. text'[1] = "&" /\ text'[2] = "#" /\ (first = 4 => text'[3] = "x")
      <4>1. 1 \in 1 .. Len(text) /\ 2 \in 1 .. Len(text) /\ (first = 4 => 3 \in 1 .. Len(text))
        BY <1>3, <3>2 
      <4> QED
        BY <1>1, <3>1, <4>1 DEF Ref
    <3>5. Len(text') = first - 1 + (n + 1) + 0
      BY <1>3, <3>1, <3>2
    <3> QED
      BY <2>2, <3>1, <3>3, <3>4, <3>5 DEF Ref, Most
  <2>4. n + 1 \in Nat
    OBVIOUS
  <2> QED
    BY <2>3, <2>4 DEF CharsInv
<1>5. ASSUME EndRef PROVE CharsInv'
  <2>1. shut = 0 /\ text' = Append(text, Semicolon) /\ Semicolon \in Symbols
    BY <1>2, <1>5 DEF EndRef, Symbols
  <2>2. Ref(first, n, 1)'
    <3>1. text' \in Seq(Symbols) /\ Len(text') = Len(text) + 1 /\ text'[Len(text) + 1] = Semicolon
          /\ \A i \in 1 .. Len(text) : text'[i] = text[i]
      BY <1>3, <2>1
    <3>2. Len(text) = first - 1 + n
      BY <1>3, <2>1
    <3>3. ASSUME NEW i \in first .. first + n - 1
          PROVE  text'[i] \in DigitsOf(Radix(first))
      <4>1. i \in 1 .. Len(text)
        BY <1>3, <3>2
      <4>2. text[i] \in DigitsOf(Radix(first))
        BY <1>1 DEF Ref
      <4> QED
        BY <3>1, <4>1, <4>2
    <3>4. text'[1] = "&" /\ text'[2] = "#" /\ (first = 4 => text'[3] = "x")
      <4>1. 1 \in 1 .. Len(text) /\ 2 \in 1 .. Len(text) /\ (first = 4 => 3 \in 1 .. Len(text))
        BY <1>3, <3>2 
      <4> QED
        BY <1>1, <3>1, <4>1 DEF Ref
    <3>5. Len(text') = first - 1 + n + 1 /\ text'[first + n] = Semicolon
      BY <1>3, <3>1, <3>2
    <3>6. n <= Most(first)
      BY <1>1 DEF Ref
    <3> QED
      BY <3>1, <3>3, <3>4, <3>5, <3>6 DEF Ref, Most
  <2>3. TRUE
    OBVIOUS
  <2> QED
    BY <2>2, <2>3 DEF CharsInv
<1>6. ASSUME UNCHANGED text PROVE CharsInv'
  BY <1>6, SMTT(30) DEF CharsInv, Ref
<1> QED
  BY <1>4, <1>5, <1>6 DEF CharsNext

(* A closed reference is read as its number, and fits where it stood. *)
LEMMA CharsInvReads == ASSUME CharsInv PROVE ReferenceIsItsNumber /\ FitsInPlace
<1>1. PICK first \in {3, 4}, shut \in {0, 1}, n \in Nat : Ref(first, n, shut)
  BY DEF CharsInv
<1>2. /\ (IsHex(text) <=> first = 4) /\ Base(text) = Radix(first) /\ (Finished <=> shut = 1)
      /\ \A i \in first .. first + n - 1 : text[i] \in DigitsOf(16)
  BY <1>1, RefFacts
<1> SUFFICES ASSUME shut = 1 PROVE ReferenceIsItsNumber /\ FitsInPlace
  BY <1>2 DEF ReferenceIsItsNumber, FitsInPlace
<1> DEFINE q == first + n
           base == Base(text)
           digits == SubSeq(text, first, q - 1)
<1>3. /\ text \in Seq(Symbols) /\ Len(text) = q /\ text[2] = "#" /\ text[q] = Semicolon /\ n <= Most(first)
      /\ first \in {3, 4} /\ q \in Nat
  BY <1>1 DEF Ref
<1>4. base \in Bases /\ n <= Reach(base) /\ base = Radix(first)
  <2>1. MaxDecimal <= 9 /\ MaxHex <= 8 /\ MaxDecimal \in Nat /\ MaxHex \in Nat
    BY DigitsAssumption
  <2>2. CASE first = 4
    BY <1>2, <1>3, <2>1, <2>2 DEF Bases, Reach, Most, Radix
  <2>3. CASE first = 3
    BY <1>2, <1>3, <2>1, <2>3 DEF Bases, Reach, Most, Radix
  <2> QED
    BY <2>2, <2>3
<1>5. \A i \in first .. q - 1 : text[i] \in DigitsOf(base) /\ text[i] \in DigitsOf(16)
  BY <1>1, <1>2, <1>4 DEF Ref
<1> HIDE DEF base
<1>6. digits \in Seq(DigitsOf(16)) /\ Len(digits) = n /\ \A i \in 1 .. n : digits[i] \in DigitsOf(base)
  <2>1. digits = [i \in 1 .. n |-> text[first + i - 1]]
    BY <1>3
  <2>2. ASSUME NEW i \in 1 .. n PROVE text[first + i - 1] \in DigitsOf(base) /\ text[first + i - 1] \in DigitsOf(16)
    <3>1. first + i - 1 \in first .. q - 1
      BY <1>3
    <3> QED
      BY <1>5, <3>1
  <2>3. \A i \in 1 .. n : digits[i] = text[first + i - 1]
    BY <2>1
  <2>4. DOMAIN digits = 1 .. n
    BY <2>1
  <2> HIDE DEF digits, q
  <2>5. \A i \in 1 .. n : digits[i] \in DigitsOf(base) /\ digits[i] \in DigitsOf(16)
    BY <2>2, <2>3, Zenon
  <2>6. digits = [i \in 1 .. n |-> digits[i]]
    BY <2>1, <2>3
  <2> QED
    BY <2>5, <2>6
<1>7. Digits = digits
  <2>1. Len(text) - 1 = q - 1 /\ first = IF IsHex(text) THEN 4 ELSE 3
    BY <1>2, <1>3 
  <2> QED
    BY <2>1 DEF Digits
<1> DEFINE ends == {i \in first .. Len(text) : text[i] = Semicolon}
<1>8. ends = {q}
  <2>1. q \in ends
    BY <1>3
  <2>2. ASSUME NEW i \in ends, i # q PROVE FALSE
    <3>1. i \in first .. q - 1 /\ text[i] = Semicolon
      BY <1>3, <2>2
    <3>2. text[i] \in DigitsOf(16)
      BY <1>5, <3>1
    <3> QED
      BY <3>1, <3>2, DigitFacts
  <2> QED
    BY <2>1, <2>2
<1> DEFINE bytes == ConvertUTF32ToUTF8(Ucs(digits, base))
<1>9. GetCharacterRef(text) = [next |-> q + 1, bytes |-> bytes]
  <2>1. first = IF IsHex(text) THEN 4 ELSE 3
    BY <1>2 
  <2>2. (CHOOSE i \in ends : \A j \in ends : i <= j) = q
    <3> HIDE DEF ends, q
    <3>1. \A i \in ends : i = q
      BY <1>8
    <3>2. q \in ends /\ \A j \in ends : q <= j
      BY <1>3, <1>8
    <3> QED
      BY <3>1, <3>2, Zenon
  <2>3. At(text, 2) = "#" /\ At(text, 3) # "NUL"
    <3>1. 2 \in DOMAIN text /\ 3 \in DOMAIN text /\ text[3] \in Symbols
      BY <1>3
    <3>2. text[3] # "NUL"
      BY <3>1, DigitFacts, SemicolonIsItself DEF Symbols
    <3> QED
      BY <1>3, <3>1, <3>2 DEF At
  <2>4. ends # {}
    BY <1>8
  <2>5. ~\E i \in DOMAIN digits : digits[i] \notin DigitsOf(base)
    BY <1>6
  <2> DEFINE other == [next |-> q + 1, bytes |-> bytes]
             two == [next |-> 2, bytes |-> <<>>]
             none == [next |-> 0, bytes |-> <<>>]
  <2>6. GetCharacterRef(text) =
            IF At(text, 2) # "#" \/ At(text, 3) = "NUL" THEN two
            ELSE IF ends = {} \/ \E i \in DOMAIN digits : digits[i] \notin DigitsOf(base) THEN none
            ELSE other
    BY <2>1, <2>2, Zenon DEF GetCharacterRef, base
  <2> HIDE DEF two, none, other, ends, digits
  <2>7. GetCharacterRef(text) = other
    BY <2>3, <2>4, <2>5, <2>6
  <2> QED
    BY <2>7 DEF other
<1> HIDE DEF digits, q, bytes
<1>10. GetCharacterRef(text).bytes = bytes /\ GetCharacterRef(text).next = q + 1
  BY <1>9
<1>11. Meant = Worth(Worths(digits), base)
  BY <1>7 DEF Meant, Worths, base
<1>12. Meant \in Nat /\ Ucs(digits, base) = UpToCap(Meant)
  BY <1>4, <1>6, <1>11, UcsIs
<1>13. CASE Meant < Cap
  <2>1. Ucs(digits, base) = Meant /\ Meant < Cap
    BY <1>12, <1>13 DEF UpToCap, Cap
  <2>2. bytes # <<>> /\ Decoded(bytes) = Meant /\ Len(bytes) \in 1 .. 4 /\ (Meant = 0 => Len(bytes) = 1)
    BY <1>12, <2>1, BytesMean DEF bytes
  <2>3. n = 0 => Meant = 0
    <3> SUFFICES ASSUME n = 0 PROVE Meant = 0
      OBVIOUS
    <3>1. Worths(digits) = <<>>
      BY <1>6 DEF Worths
    <3>2. FromLeft(<<>>, base)[0] = 0
      <4>1. base \in Nat /\ <<>> \in Seq(Nat)
        BY <1>4 DEF Bases
      <4> QED
        BY <4>1, FromLeftSteps
    <3> QED
      BY <1>11, <3>1, <3>2 DEF Worth
  <2>4. Len(bytes) < q + 1
    <3>1. PICK l \in 1 .. 4 : l = Len(bytes)
      BY <2>2
    <3>2. n = 0 => l = 1
      BY <2>2, <2>3, <3>1
    <3>3. q = first + n /\ first >= 3
      BY <1>3 DEF q
    <3>4. l < q + 1
      BY <3>2, <3>3
    <3> QED
      BY <3>1, <3>4
  <2> QED
    BY <1>10, <1>13, <2>2, <2>4 DEF ReferenceIsItsNumber, FitsInPlace
<1>14. CASE ~(Meant < Cap)
  <2>1. Ucs(digits, base) = Cap
    BY <1>12, <1>14 DEF UpToCap, Cap
  <2>2. bytes = <<>> /\ Len(bytes) = 0
    BY <2>1, NoBytes DEF bytes
  <2>3. Len(bytes) < q + 1
    BY <1>3, <2>2
  <2> QED
    BY <1>10, <1>14, <2>2, <2>3 DEF ReferenceIsItsNumber, FitsInPlace
<1> QED
  BY <1>13, <1>14

-----------------------------------------------------------------------------
(* A number from -n to 2 * n, and its remainder. *)
LEMMA Remainder ==
    ASSUME NEW n \in Nat \ {0}, NEW i \in Int, -n <= i, i < 2 * n
    PROVE  i % n = IF i < 0 THEN i + n ELSE IF i < n THEN i ELSE i - n
<1>1. i % n \in 0 .. n - 1 /\ i \div n \in Int /\ i = n * (i \div n) + (i % n)
  OBVIOUS
<1>2. PICK q \in Int, r \in 0 .. n - 1 : q = i \div n /\ r = i % n /\ i = n * q + r
  BY <1>1
<1>3. q \in {-1, 0, 1}
  <2>1. ASSUME q <= -2 PROVE FALSE
    <3>1. n * q <= n * (-2)
      BY <2>1
    <3> QED
      BY <3>1, <1>2
  <2>2. ASSUME q >= 2 PROVE FALSE
    <3>1. n * q >= n * 2
      BY <2>2
    <3> QED
      BY <3>1, <1>2
  <2> QED
    BY <2>1, <2>2
<1> QED
  BY <1>2, <1>3

-----------------------------------------------------------------------------
(* Typed values. *)

(* The limits of the integer types. *)
LEMMA Limits ==
    /\ IntLimit \in Nat \ {0} /\ UnsignedLimit \in Nat \ {0} /\ UnsignedLimit = 2 * IntLimit
    /\ LongLimit \in Nat /\ UnsignedLimit <= LongLimit
    /\ ULongLimit \in Nat /\ LongLimit <= ULongLimit
<1>1. IntLimit \in Nat \ {0} /\ UnsignedLimit \in Nat \ {0} /\ UnsignedLimit = 2 * IntLimit
  BY WidthAssumption DEF UnsignedLimit
<1>2. UnsignedLimit * IntLimit \in Nat /\ UnsignedLimit <= UnsignedLimit * IntLimit
  BY <1>1
<1> QED
  BY <1>1, <1>2 DEF LongLimit, ULongLimit

(* The text of a number, by its sign. *)
LEMMA FromIntIs ==
    ASSUME NEW i \in Int
    PROVE  /\ i < 0 => FromInt(i) = Number(TRUE, -i, "")
           /\ ~(i < 0) => FromInt(i) = Number(FALSE, i, "")
<1>1. CASE i < 0
  <2>1. (i < 0) = TRUE
    BY <1>1
  <2> QED
    BY <2>1, Zenon DEF FromInt
<1>2. CASE ~(i < 0)
  <2>1. (i < 0) = FALSE
    BY <1>2
  <2> QED
    BY <2>1, Zenon DEF FromInt
<1> QED
  BY <1>1, <1>2, Zenon

(* What a text is made of. *)
LEMMA NumberFields ==
    ASSUME NEW neg, NEW n, NEW tail
    PROVE  Number(neg, n, tail).neg = neg /\ Number(neg, n, tail).digits = n /\ Number(neg, n, tail).tail = tail
BY DEF Number

(* The number of the text. *)
LEMMA FromIntFacts ==
    ASSUME NEW i \in Int
    PROVE  /\ FromInt(i).digits = (IF i < 0 THEN -i ELSE i) /\ FromInt(i).digits # NaN
           /\ Signed(FromInt(i)) = i
<1>1. CASE i < 0
  <2>1. FromInt(i) = Number(TRUE, -i, "")
    BY <1>1, FromIntIs, Zenon
  <2>2. FromInt(i).digits = -i
    <3>1. Number(TRUE, -i, "").digits = -i
      BY DEF Number
    <3> QED
      BY <2>1, <3>1, Zenon
  <2>3. FromInt(i).neg = TRUE
    <3>1. Number(TRUE, -i, "").neg = TRUE
      BY NumberFields, Zenon
    <3> QED
      BY <2>1, <3>1, Zenon
  <2> QED
    BY <1>1, <2>2, <2>3 DEF NaN, Signed
<1>2. CASE ~(i < 0)
  <2>1. FromInt(i) = Number(FALSE, i, "")
    BY <1>2, FromIntIs, Zenon
  <2>2. FromInt(i).digits = i
    <3>1. Number(FALSE, i, "").digits = i
      BY DEF Number
    <3> QED
      BY <2>1, <3>1, Zenon
  <2>3. FromInt(i).neg = FALSE
    <3>1. Number(FALSE, i, "").neg = FALSE
      BY NumberFields, ZenonT(30)
    <3> QED
      BY <2>1, <3>1, Zenon
  <2> QED
    BY <1>2, <2>2, <2>3 DEF NaN, Signed
<1> QED
  BY <1>1, <1>2

(* An int reads as itself, a larger unsigned as what is cut from it. *)
LEMMA IntRead ==
    ASSUME NEW i \in Int, -IntLimit <= i, i < UnsignedLimit
    PROVE  ToInt(FromInt(i)) = Read(FromInt(IF i < IntLimit THEN i ELSE i - UnsignedLimit))
<1> DEFINE t == FromInt(i)
<1>1. Signed(t) = i /\ t.digits # NaN
  BY FromIntFacts
<1>2. i < LongLimit /\ ~(i < -LongLimit) /\ ~(i >= LongLimit)
  BY Limits
<1>3. ((i + IntLimit) % UnsignedLimit) - IntLimit = IF i < IntLimit THEN i ELSE i - UnsignedLimit
  BY Limits, Remainder
<1> HIDE DEF t
<1>4. ToInt(t) = Read(FromInt(((i + IntLimit) % UnsignedLimit) - IntLimit))
  BY <1>1, <1>2 DEF ToInt
<1> QED
  BY <1>3, <1>4 DEF t

(* An unsigned reads as itself, a negative int as what it wraps around to. *)
LEMMA UnsignedRead ==
    ASSUME NEW i \in Int, -IntLimit <= i, i < UnsignedLimit
    PROVE  ToUnsigned(FromInt(i)) = Read(FromInt(IF i < 0 THEN i + UnsignedLimit ELSE i))
<1> DEFINE t == FromInt(i)
<1>1. Signed(t) = i /\ t.digits # NaN /\ t.digits = IF i < 0 THEN -i ELSE i
  BY FromIntFacts
<1>2. ~(t.digits >= ULongLimit)
  <2>1. (IF i < 0 THEN -i ELSE i) < ULongLimit
    BY Limits
  <2> QED
    BY <2>1, <1>1, Limits
<1>3. i % UnsignedLimit = IF i < 0 THEN i + UnsignedLimit ELSE i
  <2>1. -UnsignedLimit <= i /\ i < 2 * UnsignedLimit
    BY Limits
  <2> QED
    BY <2>1, Limits, Remainder
<1> HIDE DEF t
<1>4. ToUnsigned(t) = Read(FromInt(i % UnsignedLimit))
  BY <1>1, <1>2 DEF ToUnsigned
<1> QED
  BY <1>3, <1>4 DEF t

(* A number reads as true if it is not 0. *)
LEMMA BoolRead ==
    ASSUME NEW i \in Int, -IntLimit <= i, i < UnsignedLimit
    PROVE  ToBool(FromInt(i)) = Read(FromInt(IF i = 0 THEN 0 ELSE 1))
<1> DEFINE c == IF i < IntLimit THEN i ELSE i - UnsignedLimit
<1>1. c \in Int /\ (c = 0 <=> i = 0)
  BY Limits
<1>2. ToInt(FromInt(i)).ok /\ ToInt(FromInt(i)).num = FromInt(c)
  BY IntRead DEF Read
<1> HIDE DEF c
<1>3. FromInt(c).digits = 0 <=> i = 0
  <2>1. FromInt(c).digits = IF c < 0 THEN -c ELSE c
    BY <1>1, FromIntFacts
  <2> QED
    BY <1>1, <2>1
<1>4. ToBool(FromInt(i)) = Read(FromInt(IF ToInt(FromInt(i)).num.digits = 0 THEN 0 ELSE 1))
  BY <1>2, Zenon DEF ToBool
<1> QED
  BY <1>2, <1>3, <1>4

(* A number reads as a double, with what is behind its digits if that is a fraction. *)
LEMMA DoubleRead ==
    ASSUME NEW neg, NEW n \in Nat, NEW tail
    PROVE  /\ ToDouble(Number(neg, n, tail)).ok
           /\ tail \in Fractions \cup {".short", ""} =>
                 ToDouble(Number(neg, n, tail)) = Read(Number(neg, n, tail))
<1> DEFINE t == Number(neg, n, tail)
<1>1. t.digits = n /\ t.digits # NaN /\ t.neg = neg /\ t.tail = tail
  BY DEF Number, NaN
<1>2. tail = "" => Number(t.neg, t.digits, "") = t
  BY <1>1, Zenon
<1> HIDE DEF t
<1> DEFINE u == IF t.tail \in Fractions \cup {".short"} THEN t ELSE Number(t.neg, t.digits, "")
<1>3. ToDouble(t) = Read(u)
  BY <1>1, Zenon DEF ToDouble
<1>4. ToDouble(t).ok
  <2> HIDE DEF u
  <2> QED
    BY <1>3 DEF Read
<1>5. tail \in Fractions \cup {".short", ""} => ToDouble(t) = Read(t)
  BY <1>1, <1>2, <1>3
<1> QED
  BY <1>4, <1>5 DEF t

\* The numbers of the integer types.
NumbersOf(type) == CASE type = "int" -> -IntLimit .. IntLimit - 1
                 [] type = "unsigned" -> 0 .. UnsignedLimit - 1
                 [] OTHER -> {0, 1}

(* Typed values are numbers in the range of their type, or doubles. *)
LEMMA TypedIs ==
    ASSUME NEW v \in Typed
    PROVE  \/ /\ v.type \in {"int", "unsigned", "bool"}
              /\ \E i \in NumbersOf(v.type) : v.num = FromInt(i)
           \/ /\ v.type \in {"double", "float"}
              /\ \E neg \in BOOLEAN, n \in {1, UnsignedLimit}, f \in Fractions : v.num = Number(neg, n, f)
<1>1. CASE v \in [type : {"int"}, num : Ints]
  <2>1. v.type = "int" /\ v.num \in Ints
    BY <1>1
  <2>2. PICK i \in -IntLimit .. IntLimit - 1 : v.num = FromInt(i)
    BY <2>1 DEF Ints, FromInt
  <2> QED
    BY <2>1, <2>2 DEF NumbersOf
<1>2. CASE v \in [type : {"unsigned"}, num : Unsigneds]
  <2>1. v.type = "unsigned" /\ v.num \in Unsigneds
    BY <1>2
  <2>2. PICK i \in 0 .. UnsignedLimit - 1 : v.num = Number(FALSE, i, "")
    BY <2>1 DEF Unsigneds
  <2>3. i \in Int /\ ~(i < 0)
    BY Limits
  <2>4. v.num = FromInt(i)
    BY <2>2, <2>3, FromIntIs, Zenon
  <2> QED
    BY <2>1, <2>2, <2>4 DEF NumbersOf
<1>3. CASE v \in [type : {"bool"}, num : {Number(FALSE, i, "") : i \in {0, 1}}]
  <2>1. v.type = "bool"
    BY <1>3
  <2>2. PICK i \in {0, 1} : v.num = Number(FALSE, i, "")
    BY <1>3
  <2>3. i \in Int /\ ~(i < 0)
    OBVIOUS
  <2>4. v.num = FromInt(i)
    BY <2>2, <2>3, FromIntIs, Zenon
  <2> QED
    BY <2>1, <2>2, <2>4 DEF NumbersOf
<1>4. CASE v \in [type : {"double", "float"}, num : Doubles]
  <2>1. v.type \in {"double", "float"} /\ v.num \in Doubles
    BY <1>4
  <2> QED
    BY <2>1 DEF Doubles
<1> QED
  BY <1>1, <1>2, <1>3, <1>4 DEF Typed

(* Every number of a type is in reach of both integer types. *)
LEMMA InReach ==
    ASSUME NEW type \in {"int", "unsigned", "bool"}, NEW i \in NumbersOf(type)
    PROVE  i \in Int /\ -IntLimit <= i /\ i < UnsignedLimit
BY Limits DEF NumbersOf

(* What is written of a typed value reads back in its type. *)
LEMMA SameRead ==
    ASSUME NEW v \in Typed
    PROVE  ReadAs(v.type, ToStr(v)).ok /\ Same(v, ReadAs(v.type, ToStr(v)).num)
<1>1. ASSUME v.type \in {"int", "unsigned", "bool"}, NEW i \in NumbersOf(v.type), v.num = FromInt(i)
      PROVE  ReadAs(v.type, ToStr(v)).ok /\ Same(v, ReadAs(v.type, ToStr(v)).num)
  <2>1. ToStr(v) = FromInt(i)
    BY <1>1 DEF ToStr
  <2>2. i \in Int /\ -IntLimit <= i /\ i < UnsignedLimit
    BY <1>1, InReach
  <2>3. ReadAs(v.type, FromInt(i)) = Read(FromInt(i))
    <3>1. CASE v.type = "int"
      <4>1. i < IntLimit
        BY <3>1, Limits DEF NumbersOf
      <4> QED
        BY <2>2, <3>1, <4>1, IntRead DEF ReadAs
    <3>2. CASE v.type = "unsigned"
      <4>1. ~(i < 0)
        BY <3>2, Limits DEF NumbersOf
      <4> QED
        BY <2>2, <3>2, <4>1, UnsignedRead DEF ReadAs
    <3>3. CASE v.type = "bool"
      <4>1. i \in {0, 1}
        BY <3>3 DEF NumbersOf
      <4> QED
        BY <2>2, <3>3, <4>1, BoolRead DEF ReadAs
    <3> QED
      BY <1>1, <3>1, <3>2, <3>3
  <2> QED
    BY <1>1, <2>1, <2>3 DEF Read, Same
<1>2. ASSUME v.type \in {"double", "float"}, NEW neg \in BOOLEAN, NEW n \in {1, UnsignedLimit}, NEW f \in Fractions,
             v.num = Number(neg, n, f)
      PROVE  ReadAs(v.type, ToStr(v)).ok /\ Same(v, ReadAs(v.type, ToStr(v)).num)
  <2>1. n \in Nat
    BY Limits
  <2> DEFINE tail == IF v.type = "float" /\ f = ".long" THEN ".short" ELSE f
  <2>2. tail \in Fractions \cup {".short", ""}
    OBVIOUS
  <2>3. v.num.tail = f /\ [v.num EXCEPT !.tail = ".short"] = Number(neg, n, ".short")
    BY <1>2 DEF Number
  <2>4. ToStr(v) = Number(neg, n, tail)
    BY <1>2, <2>3 DEF ToStr
  <2>5. ReadAs(v.type, ToStr(v)) = Read(Number(neg, n, tail))
    <3>1. ReadAs(v.type, ToStr(v)) = ToDouble(Number(neg, n, tail))
      BY <1>2, <2>4 DEF ReadAs
    <3> HIDE DEF tail
    <3> QED
      BY <2>1, <2>2, <3>1, DoubleRead
  <2> QED
    BY <1>2, <2>3, <2>5 DEF Read, Same
<1> QED
  BY <1>1, <1>2, TypedIs

(* An integer that is written reads in another type as its cast. *)
LEMMA CastRead ==
    ASSUME NEW v \in Typed, v.type \in {"int", "unsigned", "bool"}
    PROVE  /\ Signed(ReadAs("unsigned", ToStr(v)).num) = Value(v) % UnsignedLimit
           /\ Signed(ReadAs("int", ToStr(v)).num) \in {Value(v), Value(v) - UnsignedLimit}
           /\ Signed(ReadAs("double", ToStr(v)).num) = Value(v)
           /\ (ReadAs("bool", ToStr(v)).num.digits = 1) <=> (Value(v) # 0)
<1>1. PICK i \in NumbersOf(v.type) : v.num = FromInt(i)
  BY TypedIs
<1>2. i \in Int /\ -IntLimit <= i /\ i < UnsignedLimit
  BY InReach
<1>3. ToStr(v) = FromInt(i) /\ Value(v) = i
  BY <1>1, <1>2, FromIntFacts DEF ToStr, Value
<1>4. Signed(ReadAs("unsigned", FromInt(i)).num) = i % UnsignedLimit
  <2>1. i % UnsignedLimit = IF i < 0 THEN i + UnsignedLimit ELSE i
    <3>1. -UnsignedLimit <= i /\ i < 2 * UnsignedLimit
      BY <1>2, Limits
    <3> QED
      BY <1>2, <3>1, Limits, Remainder
  <2>2. ReadAs("unsigned", FromInt(i)).num = FromInt(i % UnsignedLimit) /\ i % UnsignedLimit \in Int
    BY <1>2, <2>1, UnsignedRead, Limits DEF ReadAs, Read
  <2> QED
    BY <2>2, FromIntFacts
<1>5. Signed(ReadAs("int", FromInt(i)).num) \in {i, i - UnsignedLimit}
  <2> DEFINE c == IF i < IntLimit THEN i ELSE i - UnsignedLimit
  <2>1. c \in Int /\ c \in {i, i - UnsignedLimit}
    BY <1>2, Limits
  <2>2. ReadAs("int", FromInt(i)).num = FromInt(c)
    BY <1>2, IntRead DEF ReadAs, Read
  <2> HIDE DEF c
  <2> QED
    BY <2>1, <2>2, FromIntFacts
<1>6. Signed(ReadAs("double", FromInt(i)).num) = i
  <2>1. PICK neg \in BOOLEAN, n \in Nat : FromInt(i) = Number(neg, n, "")
    <3>1. CASE i < 0
      <4>1. -i \in Nat /\ TRUE \in BOOLEAN
        BY <1>2, <3>1
      <4> QED
        BY <1>2, <3>1, <4>1, FromIntIs, Zenon
    <3>2. CASE ~(i < 0)
      <4>1. i \in Nat /\ FALSE \in BOOLEAN
        BY <1>2, <3>2
      <4> QED
        BY <1>2, <3>2, <4>1, FromIntIs, Zenon
    <3> QED
      BY <3>1, <3>2
  <2>2. ToDouble(FromInt(i)) = Read(FromInt(i))
    BY <2>1, DoubleRead
  <2>3. ReadAs("double", FromInt(i)).num = FromInt(i)
    BY <2>2 DEF ReadAs, Read
  <2> QED
    BY <1>2, <2>3, FromIntFacts
<1>7. (ReadAs("bool", FromInt(i)).num.digits = 1) <=> (i # 0)
  <2>1. ReadAs("bool", FromInt(i)).num = FromInt(IF i = 0 THEN 0 ELSE 1)
    BY <1>2, BoolRead DEF ReadAs, Read
  <2>2. CASE i = 0
    <3>1. ReadAs("bool", FromInt(i)).num.digits = 0
      BY <2>1, <2>2, FromIntFacts
    <3> QED
      BY <2>2, <3>1
  <2>3. CASE i # 0
    <3>1. ReadAs("bool", FromInt(i)).num = FromInt(1)
      BY <2>1, <2>3
    <3>2. FromInt(1).digits = 1
      BY FromIntFacts
    <3> QED
      BY <2>3, <3>1, <3>2
  <2> QED
    BY <2>2, <2>3
<1> QED
  BY <1>3, <1>4, <1>5, <1>6, <1>7

-----------------------------------------------------------------------------
(* The element with its attribute and its children. *)

Child == {Elem} \cup {Text(ToStr(v)) : v \in Typed}

\* The attribute and the first child hold what was written last.
ValuesInv ==
    /\ kids \in Seq(Child)
    /\ attrSet # <<>> => \E v \in Typed : attrSet = <<v>> /\ attr = <<ToStr(v)>>
    /\ textSet # <<>> => \E v \in Typed : textSet = <<v>> /\ kids # <<>> /\ Head(kids) = Text(ToStr(v))

(* The element begins without any. *)
LEMMA ValuesInitInv == ValuesInit => ValuesInv
<1> SUFFICES ASSUME ValuesInit PROVE ValuesInv
  OBVIOUS
<1>1. <<>> \in Seq(Child)
  OBVIOUS
<1> QED
  BY <1>1 DEF ValuesInit, ValuesInv

(* Every call keeps them. *)
LEMMA ValuesStepInv == ValuesInv /\ [ValuesNext]_valueVars => ValuesInv'
<1> SUFFICES ASSUME ValuesInv, [ValuesNext]_valueVars PROVE ValuesInv'
  OBVIOUS
<1> USE DEF ValuesInv
<1>1. ASSUME NEW v \in Typed, SetTypedAttribute(v) PROVE ValuesInv'
  BY <1>1 DEF SetTypedAttribute
<1>2. ASSUME NEW v \in Typed, SetTypedText(v) PROVE ValuesInv'
  <2>1. Text(ToStr(v)) \in Child
    BY DEF Child
  <2>2. kids' \in Seq(Child) /\ kids' # <<>> /\ Head(kids') = Text(ToStr(v))
    <3>1. CASE HasText
      <4>1. kids # <<>> /\ kids' = <<Text(ToStr(v))>> \o Tail(kids)
        BY <1>2, <3>1 DEF SetTypedText, WithText, HasText
      <4>2. Tail(kids) \in Seq(Child)
        BY <4>1
      <4> QED
        BY <2>1, <4>1, <4>2
    <3>2. CASE ~HasText
      <4>1. kids' = <<Text(ToStr(v))>> \o kids
        BY <1>2, <3>2 DEF SetTypedText, WithText
      <4> QED
        BY <2>1, <4>1
    <3> QED
      BY <3>1, <3>2
  <2> QED
    BY <1>2, <2>2 DEF SetTypedText
<1>3. ASSUME NEW t \in Strings, SetAttributeString(t) PROVE ValuesInv'
  BY <1>3 DEF SetAttributeString
<1>4. ASSUME DropAttribute PROVE ValuesInv'
  BY <1>4 DEF DropAttribute
<1>5. ASSUME InsertChild PROVE ValuesInv'
  <2>1. Elem \in Child
    BY DEF Child
  <2>2. CASE kids' = Append(kids, Elem) /\ UNCHANGED textSet
    <3>1. kids' \in Seq(Child) /\ (kids # <<>> => kids' # <<>> /\ Head(kids') = Head(kids))
      BY <2>1, <2>2
    <3> QED
      BY <1>5, <2>2, <3>1 DEF InsertChild
  <2>3. CASE kids' = <<Elem>> \o kids /\ textSet' = <<>>
    <3>1. kids' \in Seq(Child)
      BY <2>1, <2>3
    <3> QED
      BY <1>5, <2>3, <3>1 DEF InsertChild
  <2> QED
    BY <1>5, <2>2, <2>3 DEF InsertChild
<1>6. ASSUME DeleteFirst PROVE ValuesInv'
  BY <1>6 DEF DeleteFirst
<1>7. ASSUME NEW type \in Types, QueryAttribute(type) \/ QueryText(type) PROVE ValuesInv'
  BY <1>7 DEF QueryAttribute, QueryText, Query
<1>8. ASSUME UNCHANGED valueVars PROVE ValuesInv'
  BY <1>8 DEF valueVars
<1> QED
  BY <1>1, <1>2, <1>3, <1>4, <1>5, <1>6, <1>7, <1>8 DEF ValuesNext

(* So what was written reads back, and as its cast. *)
LEMMA ValuesInvReads == ASSUME ValuesInv PROVE ReadsBack /\ ReadsAsCast
<1>1. ASSUME attrSet # <<>>
      PROVE  /\ ReadAs(attrSet[1].type, attr[1]).ok /\ Same(attrSet[1], ReadAs(attrSet[1].type, attr[1]).num)
             /\ attrSet[1].type \in {"int", "unsigned", "bool"} =>
                  /\ Signed(ReadAs("unsigned", attr[1]).num) = Value(attrSet[1]) % UnsignedLimit
                  /\ Signed(ReadAs("int", attr[1]).num) \in {Value(attrSet[1]), Value(attrSet[1]) - UnsignedLimit}
                  /\ Signed(ReadAs("double", attr[1]).num) = Value(attrSet[1])
                  /\ (ReadAs("bool", attr[1]).num.digits = 1) <=> (Value(attrSet[1]) # 0)
  <2>1. PICK v \in Typed : attrSet = <<v>> /\ attr = <<ToStr(v)>>
    BY <1>1 DEF ValuesInv
  <2>2. attrSet[1] = v /\ attr[1] = ToStr(v)
    BY <2>1
  <2> QED
    BY <2>2, SameRead, CastRead
<1>2. ASSUME textSet # <<>>
      PROVE  /\ HasText /\ ReadAs(textSet[1].type, Head(kids).text).ok
             /\ Same(textSet[1], ReadAs(textSet[1].type, Head(kids).text).num)
  <2>1. PICK v \in Typed : textSet = <<v>> /\ kids # <<>> /\ Head(kids) = Text(ToStr(v))
    BY <1>2 DEF ValuesInv
  <2>2. textSet[1] = v /\ Head(kids).kind = "text" /\ Head(kids).text = ToStr(v)
    BY <2>1 DEF Text
  <2> QED
    BY <2>1, <2>2, SameRead DEF HasText
<1> QED
  BY <1>1, <1>2 DEF ReadsBack, ReadsAsCast

(* XMLUtil, for an int of any width, any texts, and numeric references of as many digits as 32
   bits hold: a reference that is finished gives the bytes of its number, or none if UTF-8 has
   no form for it, and they fit where it stood; a value that is set is read back in its type,
   and in another as its cast. *)
THEOREM SpecValuesKept == CharsSpec /\ ValuesSpec => []ValuesKept
<1>1. CharsInit /\ ValuesInit => CharsInv /\ ValuesInv
  BY CharsInitInv, ValuesInitInv
<1>2. CharsInv /\ [CharsNext]_text => CharsInv'
  BY CharsStepInv
<1>3. ValuesInv /\ [ValuesNext]_valueVars => ValuesInv'
  BY ValuesStepInv
<1>4. CharsInv /\ ValuesInv => ValuesKept
  BY CharsInvReads, ValuesInvReads DEF ValuesKept
<1> QED
  BY <1>1, <1>2, <1>3, <1>4, PTL DEF CharsSpec, ValuesSpec
=============================================================================
