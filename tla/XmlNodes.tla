------------------------------ MODULE XmlNodes ------------------------------
(***************************************************************************)
(* The nodes of an XMLDocument (src/frame/tinyxml2/tinyxml2.cpp): doubly   *)
(* linked lists of children, nodes that were made and not yet linked, and  *)
(* the pools that count both.  A node is a piece of memory of its pool;    *)
(* dom holds every field of every node, and a step is a call of the        *)
(* library by the program that owns the document.                          *)
(***************************************************************************)
EXTENDS Integers, Sequences, FiniteSets

CONSTANTS Elements, Texts,        \* the nodes of the two pools
          Doc, Null,              \* the document itself; no node
          Names, Values,          \* of attributes
          MaxFailures             \* bound on the documents that do not parse

ASSUME DistinctAssumption ==
    /\ Doc \notin Elements \cup Texts \cup {Null} /\ Null \notin Elements \cup Texts
    /\ Elements \cap Texts = {}
    /\ MaxFailures \in Nat

VARIABLES dom, crashed
vars == <<dom, crashed>>

Nodes      == Elements \cup Texts
Containers == Elements \cup {Doc}
Pools      == {"element", "text", "attribute"}
PoolOf(n)  == IF n \in Elements THEN "element" ELSE "text"

Init ==
    /\ dom = [parent |-> [n \in Nodes |-> Null],
              first  |-> [c \in Containers |-> Null], last |-> [c \in Containers |-> Null],
              prev   |-> [n \in Nodes |-> Null],      next |-> [n \in Nodes |-> Null],
              attrs  |-> [e \in Elements |-> <<>>],   alive |-> {},
              current |-> [p \in Pools |-> 0],        untracked |-> [p \in Pools |-> 0],
              error  |-> FALSE, failures |-> 0]
    /\ crashed = FALSE

-----------------------------------------------------------------------------
(* The pools: a chunk that is allocated is untracked until its node is     *)
(* linked for the first time.                                              *)

Alloc(d, pool)      == [d EXCEPT !.current[pool] = @ + 1, !.untracked[pool] = @ + 1]
SetTracked(d, pool) == [d EXCEPT !.untracked[pool] = @ - 1]
Free(d, pool)       == [d EXCEPT !.current[pool] = @ - 1]

\* The constructor clears the pointers, so those of freed memory do not
\* matter.
NewNode(d, n) == [Alloc(d, PoolOf(n)) EXCEPT !.alive = @ \cup {n}]

-----------------------------------------------------------------------------
(* Links.                                                                  *)

\* The child keeps its own prev and next.
Unlink(d, p, c) ==
    LET a == [d EXCEPT !.first[p] = IF @ = c THEN d.next[c] ELSE @,
                       !.last[p]  = IF @ = c THEN d.prev[c] ELSE @]
        b == IF d.prev[c] = Null THEN a ELSE [a EXCEPT !.next[d.prev[c]] = d.next[c]]
        e == IF d.next[c] = Null THEN b ELSE [b EXCEPT !.prev[d.next[c]] = d.prev[c]]
    IN  [e EXCEPT !.parent[c] = Null]

\* A node that is moved is unlinked, one that is new becomes tracked.
Taken(d, c) == IF d.parent[c] # Null THEN Unlink(d, d.parent[c], c) ELSE SetTracked(d, PoolOf(c))

InsertEndChild(d, p, c) ==
    LET u == Taken(d, c)
        l == u.last[p]
    IN  IF l = Null
        THEN [u EXCEPT !.first[p] = c, !.last[p] = c, !.prev[c] = Null, !.next[c] = Null, !.parent[c] = p]
        ELSE [u EXCEPT !.next[l] = c, !.prev[c] = l, !.last[p] = c, !.next[c] = Null, !.parent[c] = p]

MutantInsertFirstChild(d, p, c) ==
    LET u == Taken(d, c)
        f == u.first[p]
    IN  IF f = Null
        THEN [u EXCEPT !.first[p] = c, !.last[p] = c, !.prev[c] = Null, !.next[c] = Null, !.parent[c] = p]
        ELSE [u EXCEPT !.next[c] = f, !.first[p] = c, !.prev[c] = Null, !.parent[c] = p]
InsertFirstChild(d, p, c) ==
    LET u == Taken(d, c)
        f == u.first[p]
    IN  IF f = Null
        THEN [u EXCEPT !.first[p] = c, !.last[p] = c, !.prev[c] = Null, !.next[c] = Null, !.parent[c] = p]
        ELSE [u EXCEPT !.prev[f] = c, !.next[c] = f, !.first[p] = c, !.prev[c] = Null, !.parent[c] = p]

\* afterThis->_next is tested before addThis is unlinked and followed after
\* that: if addThis was the last node, right behind afterThis, it is NULL.
FollowsNull(d, a, c) == d.next[a] # Null /\ Taken(d, c).next[a] = Null
InsertAfterChild(d, p, a, c) ==
    LET u == Taken(d, c)
        x == u.next[a]
    IN  IF d.next[a] = Null THEN InsertEndChild(d, p, c)
        ELSE [u EXCEPT !.prev[c] = a, !.next[c] = x, !.prev[x] = c, !.next[a] = c, !.parent[c] = p]

\* The nodes below p: the least set that holds the children of p and of every
\* node it holds.
Beneath(d, p) ==
    LET Closed == {S \in SUBSET Nodes : \A n \in Nodes : d.parent[n] \in S \cup {p} => n \in S}
    IN  {n \in Nodes : \A S \in Closed : n \in S}

\* What the nodes S hold of a pool: their own chunks, or their attributes.
Held(d, S, pool) ==
    IF pool = "attribute" THEN UNION {{e} \X DOMAIN d.attrs[e] : e \in S \cap Elements}
    ELSE {n \in S : PoolOf(n) = pool}

\* The destructors of the nodes S, none of which is in the list of another node
\* any more.
Freed(d, S) ==
    LET Gone(f) == [n \in DOMAIN f |-> IF n \in S THEN Null ELSE f[n]]
    IN  [d EXCEPT !.parent = Gone(@), !.prev = Gone(@), !.next = Gone(@),
                  !.first = Gone(@), !.last = Gone(@),
                  !.attrs = [e \in Elements |-> IF e \in S THEN <<>> ELSE @[e]],
                  !.alive = @ \ S,
                  !.current = [pool \in Pools |-> @[pool] - Cardinality(Held(d, S, pool))]]

\* DELETE_NODE takes the node out of its parent's list and frees it and all that
\* is below it; DeleteChildren does so with every child.
DeleteNode(d, n) ==
    LET a == IF d.parent[n] = Null THEN d ELSE Unlink(d, d.parent[n], n)
    IN  Freed(a, {n} \cup Beneath(a, n))
DeleteChildren(d, p) == [Freed(d, Beneath(d, p)) EXCEPT !.first[p] = Null, !.last[p] = Null]

-----------------------------------------------------------------------------
(* Lookups: loops that follow next, or prev, until it is NULL.             *)

Walk(link, start) ==
    LET at[k \in 0 .. Cardinality(dom.alive)] ==
            IF k = 0 THEN start ELSE IF at[k - 1] = Null THEN Null ELSE link[at[k - 1]]
    IN  at

\* The nodes on the way.
Trail(link, start) ==
    LET at == Walk(link, start)
    IN  [i \in 1 .. Cardinality({k \in DOMAIN at : at[k] # Null}) |-> at[i - 1]]
\* The first of them that is an element.
FirstElement(link, start) ==
    LET at   == Walk(link, start)
        hits == {k \in DOMAIN at : at[k] \in Elements}
    IN  IF hits = {} THEN Null ELSE at[CHOOSE k \in hits : \A j \in hits : k <= j]

FirstChildElement(p)      == FirstElement(dom.next, dom.first[p])
LastChildElement(p)       == FirstElement(dom.prev, dom.last[p])
NextSiblingElement(n)     == FirstElement(dom.next, dom.next[n])
PreviousSiblingElement(n) == FirstElement(dom.prev, dom.prev[n])

-----------------------------------------------------------------------------
(* Attributes.                                                             *)

\* Where the attribute is, 0 if there is none.
FindAttribute(attrs, name) ==
    LET found == {i \in DOMAIN attrs : attrs[i].name = name}
    IN  IF found = {} THEN 0 ELSE CHOOSE i \in found : \A j \in found : i <= j

\* FindOrCreateAttribute, and its value.
SetAttribute(d, e, name, value) ==
    LET i == FindAttribute(d.attrs[e], name)
    IN  IF i = 0
        THEN [SetTracked(Alloc(d, "attribute"), "attribute")
                 EXCEPT !.attrs[e] = Append(@, [name |-> name, value |-> value])]
        ELSE [d EXCEPT !.attrs[e][i].value = value]

Without(s, i) == [j \in 1 .. Len(s) - 1 |-> IF j < i THEN s[j] ELSE s[j + 1]]

DeleteAttribute(d, e, name) ==
    LET i == FindAttribute(d.attrs[e], name)
    IN  IF i = 0 THEN d ELSE [Free(d, "attribute") EXCEPT !.attrs[e] = Without(@, i)]

\* Element names are all the same here.  The values are compared in order,
\* the names are not.
ShallowEqual(d, x, y) ==
    /\ x \in Elements <=> y \in Elements
    /\ x \in Elements =>
          /\ Len(d.attrs[x]) = Len(d.attrs[y])
          /\ \A i \in DOMAIN d.attrs[x] : d.attrs[x][i].value = d.attrs[y][i].value

Copied(d, e, attrs) ==
    LET copied[i \in 0 .. Len(attrs)] ==
            IF i = 0 THEN d ELSE SetAttribute(copied[i - 1], e, attrs[i].name, attrs[i].value)
    IN  copied
CopyAttributes(d, e, attrs) == Copied(d, e, attrs)[Len(attrs)]
ShallowClone(d, n, new) ==
    IF n \in Elements THEN CopyAttributes(NewNode(d, new), new, d.attrs[n]) ELSE NewNode(d, new)

-----------------------------------------------------------------------------
(* The calls of a program.                                                 *)

Unused    == Nodes \ dom.alive
Parents   == (dom.alive \cap Elements) \cup {Doc}
Call(d)   == dom' = d /\ UNCHANGED crashed
\* A node is not put below itself.
MayHold(p, c) == p # c /\ p \notin Beneath(dom, c)

New       == \E n \in Unused : Call(NewNode(dom, n))
InsertEnd == \E p \in Parents, c \in dom.alive : MayHold(p, c) /\ Call(InsertEndChild(dom, p, c))
InsertFirst ==
    \E p \in Parents, c \in dom.alive : MayHold(p, c) /\ Call(InsertFirstChild(dom, p, c))
\* A node is not put behind itself. The last node of a list, put behind the one it
\* follows, ends the program.
InsertAfter ==
    \E a, c \in dom.alive :
        /\ a # c /\ dom.parent[a] # Null /\ MayHold(dom.parent[a], c)
        /\ IF FollowsNull(dom, a, c) THEN crashed' = TRUE /\ UNCHANGED dom
           ELSE Call(InsertAfterChild(dom, dom.parent[a], a, c))

\* DeleteNode follows the parent's pointer without a check: a node that was
\* never linked is not given to it.
Delete    == \E n \in dom.alive : dom.parent[n] # Null /\ Call(DeleteNode(dom, n))
Empty     == \E p \in Parents : Call(DeleteChildren(dom, p))
Cleared(d) == [DeleteChildren(d, Doc) EXCEPT !.error = FALSE]
Clear     == Call(Cleared(dom))

SetText   == \E e \in dom.alive \cap Elements : \E t \in Unused \cap Texts :
                 dom.first[e] \notin Texts /\ Call(InsertFirstChild(NewNode(dom, t), e, t))
Clone     == \E n \in dom.alive, new \in Unused :
                 PoolOf(n) = PoolOf(new) /\ Call(ShallowClone(dom, n, new))
Attribute == \E e \in dom.alive \cap Elements, name \in Names :
                 \/ \E v \in Values : Call(SetAttribute(dom, e, name, v))
                 \/ Call(DeleteAttribute(dom, e, name))

\* Parse of "<e></e>": the end tag is an element too, for a moment.
ParseWorks ==
    LET d == Cleared(dom)
    IN  \E e \in Elements \ d.alive :
            Call(Free(SetTracked(Alloc(InsertEndChild(NewNode(d, e), Doc, e), "element"), "element"),
                      "element"))

\* Parse of a text that fails: the element that was read last was never
\* linked and is deleted as it is.
ParseFails ==
    /\ dom.failures < MaxFailures
    /\ LET d == Cleared(dom)
       IN  Call([Free(Alloc(d, "element"), "element") EXCEPT !.error = TRUE, !.failures = @ + 1])

Next ==
    /\ ~crashed
    /\ \/ New \/ InsertEnd \/ InsertFirst \/ InsertAfter \/ Delete \/ Empty \/ Clear
       \/ SetText \/ Clone \/ Attribute \/ ParseWorks \/ ParseFails

Spec == Init /\ [][Next]_vars

-----------------------------------------------------------------------------

\* Every list of children reads the same forward and backward, ends at both
\* ends, holds every node that takes the list's owner for its parent, once,
\* and nothing that was freed.
Children(p) == {n \in dom.alive : dom.parent[n] = p}
ListsAgree ==
    \A p \in Parents :
        LET s == Trail(dom.next, dom.first[p])
        IN  /\ Trail(dom.prev, dom.last[p]) = [i \in DOMAIN s |-> s[Len(s) + 1 - i]]
            /\ {s[i] : i \in DOMAIN s} = Children(p)
            /\ Len(s) = Cardinality(Children(p))

\* The elements that the lookups step through are the same in both
\* directions.
LookupsAgree ==
    /\ \A p \in Parents : FirstChildElement(p) = Null <=> LastChildElement(p) = Null
    /\ \A x, y \in dom.alive \cap Elements :
          NextSiblingElement(x) = y <=> PreviousSiblingElement(y) = x

\* The pools count what is in use, attributes included, and the untracked
\* nodes are those that were made and never linked, and one for every parse
\* that failed.
Loose(d, pool) == {n \in Held(d, d.alive, pool) : d.parent[n] = Null}
PoolsCount ==
    /\ \A pool \in Pools : dom.current[pool] = Cardinality(Held(dom, dom.alive, pool))
    /\ dom.untracked["element"] = Cardinality(Loose(dom, "element")) + dom.failures
    /\ dom.untracked["text"] = Cardinality(Loose(dom, "text"))
    /\ dom.untracked["attribute"] = 0

\* However attributes are set and deleted, no element has two of one name.
NamedOnce ==
    \A e \in Elements : \A i, j \in DOMAIN dom.attrs[e] :
        dom.attrs[e][i].name = dom.attrs[e][j].name => i = j

\* A copy equals its original when it is made, and the order of attributes
\* is kept.
CloneIsEqual ==
    \A n \in dom.alive, new \in Unused :
        PoolOf(n) = PoolOf(new) =>
            LET d == ShallowClone(dom, n, new)
            IN  ShallowEqual(d, n, new) /\ (n \in Elements => d.attrs[new] = dom.attrs[n])

(* XMLNode and XMLElement: every list of children reads the same in both directions and holds
   its nodes, and the lookups of elements step through the same ones; the pools count the
   nodes in use; no element has two attributes of one name, and a copy equals its original. *)
NodesSound == ListsAgree /\ LookupsAgree /\ PoolsCount /\ NamedOnce /\ CloneIsEqual
=============================================================================
