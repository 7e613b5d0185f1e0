------------------------- MODULE HttpSession_proofs -------------------------
(***************************************************************************)
(* Proofs about HttpSession: the deque of requests and the requests the    *)
(* handler still holds agree, the responses leave in order, and the        *)
(* session implements OrderedResponses.                                    *)
(***************************************************************************)
EXTENDS HttpSession, SequenceTheorems, TLAPS

(* The deque holds the latest requests, numbered without a gap; its head is not
   answered yet, and the unanswered ones are those the handler holds. *)
Deque ==
  /\ Len(requests) <= dwseq
  /\ \A j \in 1..Len(requests) : requests[j].no = dwseq - Len(requests) + j
  /\ inmap /\ Len(requests) > 0 => requests[1].response = "none"
  /\ inmap => \A n \in Nat :
       n \in asked <=> \E j \in 1..Len(requests) :
                         requests[j].no = n /\ requests[j].response = "none"

(* What has been written is what left the deque. *)
Written ==
  /\ \A i \in 1..Len(out) : out[i] = i
  /\ connected => Len(out) = dwseq - Len(requests)

(* The session, its connection and the manager agree. *)
Attached ==
  /\ connected => inmap /\ linked
  /\ status = "CLOSED" => ~connected
  /\ ~inmap => ~linked /\ requests = <<>>

IInv == TypeOK /\ Deque /\ Written /\ Attached

(* Lengths, elements and numbers of the deque, for the arithmetic below. *)
LEMMA DequeFacts ==
  ASSUME IInv
  PROVE  /\ requests \in Seq(Items) /\ Len(requests) \in Nat /\ dwseq \in Nat
         /\ out \in Seq(Nat) /\ Len(out) \in Nat
         /\ DOMAIN requests = 1..Len(requests) /\ DOMAIN out = 1..Len(out)
         /\ \A j \in 1..Len(requests) : /\ requests[j] \in Items
                                        /\ requests[j].no \in Nat
                                        /\ requests[j].response \in Kinds
<1>1. requests \in Seq(Items) /\ Len(requests) \in Nat /\ DOMAIN requests = 1..Len(requests)
  BY DEF IInv, TypeOK
<1>2. \A j \in 1..Len(requests) : requests[j] \in Items
  BY <1>1
<1> QED
  BY <1>1, <1>2 DEF IInv, TypeOK, Items

(* What OnPeerClose leaves. *)
LEMMA PeerCloseFacts ==
  ASSUME IInv, OnPeerClose
  PROVE  /\ connected' = FALSE /\ linked' \in BOOLEAN /\ sockUp' \in BOOLEAN
         /\ status' \in {status, "CLOSED"}
         /\ (~linked => ~linked')
BY DEF OnPeerClose, IInv, TypeOK

(* A request is numbered and queued. *)
LEMMA ReadStep ==
  ASSUME IInv, OnRead
  PROVE  IInv'
<1> DEFINE L == Len(requests)
           it == Item(dwseq + 1, "none")
<1>1. /\ connected /\ dwseq' = dwseq + 1 /\ requests' = Append(requests, it)
      /\ asked' = asked \cup {dwseq + 1} /\ status' = "CONNECTED"
      /\ UNCHANGED <<inmap, connected, linked, sockUp, out, writes, closeAfter>>
  BY DEF OnRead, socketVars
<1>2. /\ it \in Items /\ it.no = dwseq + 1 /\ it.response = "none"
      /\ requests \in Seq(Items) /\ L \in Nat /\ dwseq \in Nat
  BY DequeFacts DEF Item, Items, Kinds
<1>3. /\ requests' \in Seq(Items) /\ Len(requests') = L + 1
      /\ \A j \in 1..L : requests'[j] = requests[j]
      /\ requests'[L + 1] = it
  <2> HIDE DEF it
  <2> QED
    BY <1>1, <1>2, AppendProperties
<1> HIDE DEF it
<1>4. \A j \in 1..(L + 1) : j \in 1..L \/ j = L + 1
  BY <1>2
<1>5. inmap /\ linked /\ Len(out) = dwseq - L
  BY <1>1 DEF IInv, Attached, Written
<1>6. L <= dwseq /\ \A j \in 1..L : requests[j].no = dwseq - L + j
  BY DEF IInv, Deque
<1>7. \A j \in 1..(L + 1) : requests'[j].no = (dwseq + 1) - (L + 1) + j
  <2>1. ASSUME NEW j \in 1..L PROVE requests'[j].no = (dwseq + 1) - (L + 1) + j
    <3>1. requests'[j].no = dwseq - L + j
      BY <1>3, <1>6
    <3> QED
      BY <1>2, <3>1
  <2>2. requests'[L + 1].no = (dwseq + 1) - (L + 1) + (L + 1)
    BY <1>2, <1>3
  <2> QED
    BY <1>4, <2>1, <2>2
<1>8. requests'[1].response = "none"
  <2>1. CASE L = 0
    BY <1>2, <1>3, <2>1
  <2>2. CASE L > 0
    <3>1. 1 \in 1..L
      BY <1>2, <2>2
    <3> QED
      BY <1>3, <1>5, <2>2, <3>1 DEF IInv, Deque
  <2> QED
    BY <1>2, <2>1, <2>2
<1>9. \A n \in Nat :
        n \in asked' <=> \E j \in 1..(L + 1) :
                           requests'[j].no = n /\ requests'[j].response = "none"
  <2>1. \A n \in Nat :
          n \in asked <=> \E j \in 1..L : requests[j].no = n /\ requests[j].response = "none"
    BY <1>5 DEF IInv, Deque
  <2>2. (\A j \in 1..L : j \in 1..(L + 1)) /\ L + 1 \in 1..(L + 1)
    BY <1>2
  <2> QED
    BY <1>1, <1>2, <1>3, <1>4, <2>1, <2>2
<1>10. TypeOK'
  <2>1. asked' \subseteq 1..(dwseq + 1)
    BY <1>1, <1>2 DEF IInv, TypeOK
  <2>2. dwseq' \in Nat /\ asked' \subseteq 1..dwseq'
    BY <1>1, <1>2, <2>1
  <2> QED
    BY <1>1, <1>3, <2>2 DEF IInv, TypeOK
<1>11. Deque'
  <2>1. Len(requests') <= dwseq'
    BY <1>1, <1>2, <1>3, <1>6
  <2>2. \A j \in 1..Len(requests') : requests'[j].no = dwseq' - Len(requests') + j
    BY <1>1, <1>3, <1>7
  <2>3. \A n \in Nat : n \in asked' <=>
           \E j \in 1..Len(requests') : requests'[j].no = n /\ requests'[j].response = "none"
    BY <1>3, <1>9
  <2> QED
    BY <1>8, <2>1, <2>2, <2>3 DEF Deque
<1>12. Written'
  <2>1. out' = out /\ Len(out) = dwseq' - Len(requests')
    BY <1>1, <1>2, <1>3, <1>5
  <2>2. \A i \in 1..Len(out) : out[i] = i
    BY DEF IInv, Written
  <2> QED
    BY <2>1, <2>2 DEF Written
<1>13. Attached'
  BY <1>1, <1>5 DEF Attached
<1> QED
  BY <1>10, <1>11, <1>12, <1>13 DEF IInv

(* The session's part of DoSendBack, when its connection is up or down. *)
LEMMA SendBackStep ==
  ASSUME IInv, NEW n \in asked, NEW kind \in {"close", "keep"}, DoSendBack(n, kind), inmap
  PROVE  /\ IInv'
         /\ connected => /\ Len(out') \in Nat
                         /\ \A i \in 1..Len(out') : i \notin asked'
                         /\ Len(out') + 1 \in asked' \/ Len(out') = dwseq
         /\ ~connected => out' = out
<1> DEFINE L == Len(requests)
<1>1. /\ SessionSendBack(n, kind) /\ asked' = asked \ {n}
      /\ UNCHANGED <<status, inmap, connected, linked, sockUp, dwseq>>
  BY DEF DoSendBack, sessionVars, socketVars
<1>2. /\ requests \in Seq(Items) /\ L \in Nat /\ dwseq \in Nat /\ L <= dwseq
      /\ \A j \in 1..L : requests[j] \in Items /\ requests[j].no = dwseq - L + j
      /\ out \in Seq(Nat) /\ Len(out) \in Nat /\ writes \in Nat
      /\ asked \subseteq 1..dwseq /\ connected \in BOOLEAN
      /\ DOMAIN requests = 1..L
  BY DequeFacts DEF IInv, Deque, TypeOK
<1>3. \A q \in Nat : q \in asked <=>
        \E j \in 1..L : requests[j].no = q /\ requests[j].response = "none"
  BY DEF IInv, Deque
<1>4. PICK m \in 1..L : requests[m].no = n /\ requests[m].response = "none"
  BY <1>2, <1>3
<1>5. 1 \in 1..L /\ requests[1].response = "none" /\ L > 0
  <2>1. 1 \in 1..L /\ L > 0
    BY <1>2, <1>4
  <2> QED
    BY <2>1 DEF IInv, Deque
<1>6. /\ \A i \in 1..Len(out) : out[i] = i
      /\ connected => Len(out) = dwseq - L
  BY DEF IInv, Written
<1>7. kind # "none" /\ kind \in Kinds
  BY DEF Kinds
<1>8. Attached'
  BY <1>1 DEF IInv, Attached
<1>9. asked' \subseteq 1..dwseq'
  BY <1>1, <1>2
<1>10. CASE requests[1].no = n
  <2>1. PICK k \in 1..L : Flushes(k, kind)
    BY <1>1, <1>10, <1>2 DEF SessionSendBack
  <2> DEFINE items == [i \in 1..k |-> IF i = 1 THEN Item(requests[1].no, kind) ELSE requests[i]]
  <2>2. /\ \A i \in 2..k : requests[i].response # "none"
        /\ k < L => requests[k + 1].response = "none"
        /\ WriteAll(items)
        /\ requests' = SubSeq(requests, k + 1, L)
    BY <2>1 DEF Flushes
  <2>3. /\ items \in Seq(Items) /\ Len(items) = k
        /\ \A i \in 1..k : items[i].no = requests[i].no
    <3>1. Item(requests[1].no, kind) \in Items
      BY <1>2, <1>5, <1>7, DequeFacts DEF Item, Items
    <3>2. \A i \in 1..k : i \in 1..L
      BY <1>2
    <3>3. items \in [1..k -> Items]
      BY <1>2, <3>1, <3>2
    <3>4. items \in Seq(Items) /\ Len(items) = k
      BY <3>3
    <3>5. \A i \in 1..k : items[i].no = requests[i].no
      BY DEF Item
    <3> QED
      BY <3>4, <3>5
  <2> HIDE DEF items
  <2>4. /\ requests' \in Seq(Items) /\ Len(requests') = L - k
        /\ \A j \in 1..(L - k) : requests'[j] = requests[k + j] /\ k + j \in 1..L
    <3>1. \A i \in (k + 1)..L : requests[i] \in Items
      BY <1>2
    <3>2. k + 1 \in Int /\ L \in Int
      BY <1>2
    <3>3. /\ requests' \in Seq(Items)
          /\ Len(requests') = IF k + 1 <= L THEN L - (k + 1) + 1 ELSE 0
          /\ \A j \in 1..(L - (k + 1) + 1) : requests'[j] = requests[(k + 1) + j - 1]
      BY <2>2, <3>1, <3>2, SubSeqProperties
    <3>4. L - (k + 1) + 1 = L - k /\ Len(requests') = L - k
      <4> HIDE DEF L
      <4>1. k \in Nat /\ L \in Nat /\ k <= L
        BY <1>2
      <4>2. L - (k + 1) + 1 = L - k /\ (k + 1 <= L \/ L - k = 0)
        BY <4>1
      <4> QED
        BY <3>3, <4>1, <4>2
    <3>5. \A j \in 1..(L - k) : (k + 1) + j - 1 = k + j /\ k + j \in 1..L
      BY <1>2
    <3> QED
      BY <3>3, <3>4, <3>5
  <2>5. \A j \in 1..(L - k) : requests'[j].no = dwseq - (L - k) + j
    <3> SUFFICES ASSUME NEW j \in 1..(L - k) PROVE requests'[j].no = dwseq - (L - k) + j
      OBVIOUS
    <3>1. requests'[j].no = dwseq - L + (k + j)
      BY <1>2, <2>4
    <3> QED
      BY <1>2, <3>1
  <2>6. L - k > 0 => requests'[1].response = "none"
    <3> SUFFICES ASSUME L - k > 0 PROVE requests'[1].response = "none"
      OBVIOUS
    <3>1. 1 \in 1..(L - k) /\ k < L
      BY <1>2
    <3> QED
      BY <2>2, <2>4, <3>1
  <2>7. \A q \in Nat : q \in asked' <=>
          \E j \in 1..(L - k) : requests'[j].no = q /\ requests'[j].response = "none"
    <3>1. ASSUME NEW q \in Nat, q \in asked'
          PROVE  \E j \in 1..(L - k) : requests'[j].no = q /\ requests'[j].response = "none"
      <4>1. PICK i \in 1..L : requests[i].no = q /\ requests[i].response = "none"
        BY <1>1, <1>3, <3>1
      <4>2. i # 1
        BY <1>1, <1>10, <3>1, <4>1
      <4>3. i \notin 2..k
        BY <2>2, <4>1
      <4>4. i - k \in 1..(L - k) /\ k + (i - k) = i
        BY <1>2, <4>2, <4>3
      <4>5. requests'[i - k] = requests[i]
        BY <2>4, <4>4
      <4> QED
        BY <4>1, <4>4, <4>5
    <3>2. ASSUME NEW q \in Nat, NEW j \in 1..(L - k),
                 requests'[j].no = q, requests'[j].response = "none"
          PROVE  q \in asked'
      <4>1. k + j \in 1..L /\ requests[k + j].no = q /\ requests[k + j].response = "none"
        BY <2>4, <3>2
      <4>2. q \in asked
        BY <1>3, <4>1
      <4>3. q # n
        <5>1. q = dwseq - L + (k + j) /\ n = dwseq - L + 1
          BY <1>2, <1>5, <1>10, <4>1
        <5> QED
          BY <1>2, <5>1
      <4> QED
        BY <1>1, <4>2, <4>3
    <3> QED
      BY <3>1, <3>2
  <2>8. Deque'
    <3>1. Len(requests') <= dwseq'
      BY <1>1, <1>2, <2>4
    <3>2. \A j \in 1..Len(requests') : requests'[j].no = dwseq' - Len(requests') + j
      BY <1>1, <2>4, <2>5
    <3>3. \A q \in Nat : q \in asked' <=>
            \E j \in 1..Len(requests') : requests'[j].no = q /\ requests'[j].response = "none"
      BY <2>4, <2>7
    <3> QED
      BY <2>4, <2>6, <3>1, <3>2, <3>3 DEF Deque
  <2>9. CASE connected
    <3> DEFINE nos == [i \in 1..Len(items) |-> items[i].no]
    <3>1. /\ out' = out \o nos /\ writes' = writes + Len(items)
          /\ closeAfter' = (items[Len(items)].response = "close")
      BY <2>2, <2>9 DEF WriteAll
    <3>2. \A i \in 1..k : items[i].no = Len(out) + i /\ items[i].no \in Nat
      <4> HIDE DEF L
      <4>1. \A i \in 1..k : i \in 1..L /\ i \in Nat
        BY <1>2
      <4>2. \A i \in 1..k : items[i].no = dwseq - L + i
        BY <1>2, <2>3, <4>1
      <4>3. Len(out) = dwseq - L
        BY <1>6, <2>9
      <4> QED
        BY <1>2, <4>1, <4>2, <4>3, SMTT(30)
    <3>3. nos \in Seq(Nat) /\ Len(nos) = k /\ \A i \in 1..k : nos[i] = Len(out) + i
      <4>1. nos \in [1..k -> Nat]
        BY <2>3, <3>2
      <4>2. \A i \in 1..k : nos[i] = Len(out) + i
        BY <2>3, <3>2
      <4>3. nos \in Seq(Nat) /\ Len(nos) = k
        <5> HIDE DEF nos, L
        <5>1. k \in Nat
          BY <1>2
        <5> QED
          BY <4>1, <5>1
      <4> QED
        BY <4>2, <4>3
    <3> HIDE DEF nos
    <3>4. /\ out' \in Seq(Nat) /\ Len(out') = Len(out) + k
          /\ \A i \in 1..(Len(out) + k) :
               out'[i] = IF i <= Len(out) THEN out[i] ELSE nos[i - Len(out)]
      BY <1>2, <3>1, <3>3, ConcatProperties
    <3>5. \A i \in 1..(Len(out) + k) : out'[i] = i
      <4> SUFFICES ASSUME NEW i \in 1..(Len(out) + k) PROVE out'[i] = i
        OBVIOUS
      <4>1. CASE i <= Len(out)
        <5> HIDE DEF L
        <5>1. i \in 1..Len(out)
          BY <1>2, <4>1
        <5> QED
          BY <1>6, <3>4, <4>1, <5>1
      <4>2. CASE i > Len(out)
        <5>1. i - Len(out) \in 1..k
          BY <1>2, <4>2
        <5> QED
          BY <1>2, <3>3, <3>4, <4>2, <5>1, SMTT(30)
      <4> QED
        BY <1>2, <4>1, <4>2
    <3>6. Len(out') = dwseq - (L - k)
      <4>1. Len(out') = dwseq - L + k
        BY <1>6, <2>9, <3>4
      <4>2. dwseq \in Nat /\ L \in Nat /\ k \in Nat
        BY <1>2
      <4> HIDE DEF L
      <4> QED
        BY <4>1, <4>2
    <3>7. Written'
      BY <1>1, <2>4, <3>4, <3>5, <3>6 DEF Written
    <3>8. TypeOK'
      <4>1. writes' \in Nat /\ closeAfter' \in BOOLEAN
        BY <1>2, <2>3, <3>1
      <4> QED
        BY <1>1, <1>9, <2>4, <3>4, <4>1 DEF IInv, TypeOK
    <3>9. \A i \in 1..Len(out') : i \notin asked'
      <4> SUFFICES ASSUME NEW i \in 1..Len(out'), i \in asked' PROVE FALSE
        OBVIOUS
      <4>1. PICK j \in 1..(L - k) : requests'[j].no = i
        <5> HIDE DEF L
        <5>1. i \in Nat
          BY <1>2, <3>4
        <5> QED
          BY <2>7, <5>1
      <4>2. i = dwseq - (L - k) + j
        BY <2>5, <4>1
      <4> QED
        BY <1>2, <3>6, <4>2
    <3>10. Len(out') + 1 \in asked' \/ Len(out') = dwseq
      <4>1. CASE L - k > 0
        <5>1. 1 \in 1..(L - k) /\ requests'[1].no = Len(out') + 1 /\ requests'[1].response = "none"
          BY <1>2, <2>5, <2>6, <3>6, <4>1
        <5>2. Len(out') + 1 \in Nat
          BY <1>2, <3>4
        <5> QED
          BY <2>7, <5>1, <5>2
      <4>2. CASE ~(L - k > 0)
        <5> HIDE DEF L
        <5>1. k \in Nat /\ k <= L
          BY <1>2
        <5>2. L - k = 0
          BY <1>2, <4>2, <5>1
        <5> QED
          BY <1>2, <3>6, <5>2
      <4> QED
        BY <4>1, <4>2
    <3> QED
      BY <1>8, <2>8, <2>9, <3>4, <3>7, <3>8, <3>9, <3>10 DEF IInv
  <2>10. CASE ~connected
    <3>1. UNCHANGED <<out, writes, closeAfter>>
      BY <2>2, <2>10 DEF WriteAll
    <3>2. Written'
      BY <1>1, <1>6, <2>10, <3>1 DEF Written
    <3>3. TypeOK'
      BY <1>1, <1>9, <2>4, <3>1 DEF IInv, TypeOK
    <3> QED
      BY <1>8, <2>8, <2>10, <3>1, <3>2, <3>3 DEF IInv
  <2> QED
    BY <2>9, <2>10
<1>11. CASE requests[1].no # n
  <2>1. PICK i \in 2..L : /\ requests[i].no = n
                          /\ requests' = [requests EXCEPT ![i].response = kind]
                          /\ UNCHANGED <<out, writes, closeAfter>>
    BY <1>1, <1>11, <1>2 DEF SessionSendBack
  <2>2. i \in 1..L /\ i # 1
    BY <1>2
  <2>3. /\ requests' \in Seq(Items) /\ Len(requests') = L
        /\ \A j \in 1..L : /\ requests'[j].no = requests[j].no
                           /\ j # i => requests'[j].response = requests[j].response
        /\ requests'[i].response = kind
    <3>1. requests' = [requests EXCEPT ![i] = [requests[i] EXCEPT !.response = kind]]
      BY <2>1
    <3>2. [requests[i] EXCEPT !.response = kind] \in Items
      BY <1>2, <1>7, <2>2 DEF Items
    <3>3. requests' \in Seq(Items) /\ Len(requests') = L
      BY <1>2, <2>2, <3>1, <3>2, ExceptSeq
    <3>4. \A j \in 1..L : requests'[j] = IF j = i THEN [requests[i] EXCEPT !.response = kind]
                                                  ELSE requests[j]
      BY <1>2, <3>1
    <3>5. \A j \in 1..L : requests[j] \in Items
      BY <1>2
    <3> QED
      BY <2>2, <3>3, <3>4, <3>5 DEF Items
  <2>4. \A q \in Nat : q \in asked' <=>
          \E j \in 1..L : requests'[j].no = q /\ requests'[j].response = "none"
    <3>1. \A j \in 1..L : j = i <=> requests[j].no = n
      BY <1>2, <2>1, <2>2
    <3> QED
      BY <1>1, <1>3, <1>7, <2>3, <3>1
  <2>5. Deque'
    <3>1. \A j \in 1..Len(requests') : requests'[j].no = dwseq' - Len(requests') + j
      BY <1>1, <1>2, <2>3
    <3>2. \A q \in Nat : q \in asked' <=>
            \E j \in 1..Len(requests') : requests'[j].no = q /\ requests'[j].response = "none"
      BY <2>3, <2>4
    <3>3. requests'[1].response = "none"
      BY <1>5, <2>2, <2>3
    <3>4. Len(requests') <= dwseq'
      BY <1>1, <1>2, <2>3
    <3> QED
      BY <3>1, <3>2, <3>3, <3>4 DEF Deque
  <2>6. Written'
    BY <1>1, <1>6, <2>1, <2>3 DEF Written
  <2>7. TypeOK'
    BY <1>1, <1>9, <2>1, <2>3 DEF IInv, TypeOK
  <2>8. connected => /\ \A q \in 1..Len(out') : q \notin asked'
                     /\ Len(out') + 1 \in asked'
    <3> SUFFICES ASSUME connected
                 PROVE  /\ \A q \in 1..Len(out') : q \notin asked'
                        /\ Len(out') + 1 \in asked'
      OBVIOUS
    <3>1. Len(out') = dwseq - L /\ Len(out') \in Nat
      BY <1>2, <1>6, <2>1
    <3>2. \A q \in 1..Len(out') : q \notin asked
      <4> SUFFICES ASSUME NEW q \in 1..Len(out'), q \in asked PROVE FALSE
        OBVIOUS
      <4>1. PICK j \in 1..L : requests[j].no = q
        BY <1>3, <3>1
      <4> QED
        BY <1>2, <3>1, <4>1
    <3>3. requests[1].no = Len(out') + 1
      BY <1>2, <1>5, <3>1
    <3>4. Len(out') + 1 \in asked
      BY <1>3, <1>5, <3>1, <3>3
    <3> QED
      BY <1>1, <1>11, <3>2, <3>3, <3>4
  <2> QED
    BY <1>2, <1>8, <2>1, <2>5, <2>6, <2>7, <2>8 DEF IInv
<1> QED
  BY <1>10, <1>11

(* A response to a session that is gone is dropped. *)
LEMMA SendBackLate ==
  ASSUME IInv, NEW n \in asked, NEW kind \in {"close", "keep"}, DoSendBack(n, kind), ~inmap
  PROVE  IInv'
<1>1. /\ asked' = asked \ {n}
      /\ UNCHANGED <<status, inmap, connected, linked, sockUp, dwseq, requests, out,
                     writes, closeAfter>>
  BY DEF DoSendBack, sessionVars, socketVars
<1>2. asked' \subseteq 1..dwseq'
  BY <1>1 DEF IInv, TypeOK
<1> QED
  BY <1>1, <1>2 DEF IInv, TypeOK, Deque, Written, Attached

(* The other actions leave the deque and what was written alone, or close the
   connection, or delete the session. *)
LEMMA OtherStep ==
  ASSUME IInv, OnReadStray \/ HandleWrite \/ HandleReadError \/ CheckSession
  PROVE  IInv' /\ (connected' => connected) /\ UNCHANGED <<dwseq, asked, out>>
<1>1. CASE OnReadStray
  BY <1>1 DEF OnReadStray, socketVars, IInv, TypeOK, Deque, Written, Attached
<1>2. ASSUME UNCHANGED <<inmap, dwseq, requests, asked, out, closeAfter>>, writes' \in Nat,
             OnPeerClose
      PROVE  IInv' /\ (connected' => connected) /\ UNCHANGED <<dwseq, asked, out>>
  <2>1. /\ connected' = FALSE /\ linked' \in BOOLEAN /\ sockUp' \in BOOLEAN
        /\ status' \in {status, "CLOSED"} /\ (~linked => ~linked')
    BY <1>2, PeerCloseFacts
  <2>2. TypeOK'
    BY <1>2, <2>1 DEF IInv, TypeOK
  <2>3. Deque' /\ Written' /\ Attached'
    BY <1>2, <2>1 DEF IInv, Deque, Written, Attached
  <2> QED
    BY <1>2, <2>1, <2>2, <2>3 DEF IInv
<1>3. CASE HandleWrite
  <2>1. writes' \in Nat
    <3>1. writes' = writes - 1 /\ writes > 0 /\ writes \in Nat
      BY <1>3 DEF HandleWrite, IInv, TypeOK
    <3> QED
      BY <3>1
  <2>2. CASE OnPeerClose
    BY <1>2, <1>3, <2>1, <2>2 DEF HandleWrite
  <2>3. CASE UNCHANGED <<status, socketVars>>
    <3>1. UNCHANGED <<status, connected, linked, sockUp, inmap, dwseq, requests, asked, out,
                      closeAfter>>
      BY <1>3, <2>3 DEF HandleWrite, socketVars
    <3>2. TypeOK'
      BY <2>1, <3>1 DEF IInv, TypeOK
    <3>3. Deque' /\ Written' /\ Attached'
      BY <3>1 DEF IInv, Deque, Written, Attached
    <3> QED
      BY <3>1, <3>2, <3>3 DEF IInv
  <2> QED
    BY <1>3, <2>2, <2>3 DEF HandleWrite
<1>4. CASE HandleReadError
  <2>1. /\ UNCHANGED <<inmap, dwseq, requests, asked, out, closeAfter, writes>>
        /\ writes' \in Nat /\ OnPeerClose
    BY <1>4 DEF HandleReadError, IInv, TypeOK
  <2> QED
    BY <1>2, <2>1
<1>5. CASE CheckSession
  <2>1. UNCHANGED <<dwseq, asked, out, writes, closeAfter>> /\ inmap
    BY <1>5 DEF CheckSession
  <2>2. CASE status = "CONNECTED"
    <3>1. status' = "TIME_OUT" /\ UNCHANGED <<inmap, connected, linked, sockUp, requests>>
      BY <1>5, <2>2 DEF CheckSession, socketVars
    <3> QED
      BY <2>1, <3>1 DEF IInv, TypeOK, Deque, Written, Attached
  <2>3. CASE status \in {"TIME_OUT", "CLOSED"}
    <3>1. /\ status' = "CLOSED" /\ linked' = FALSE /\ inmap' = FALSE /\ requests' = <<>>
      BY <1>5, <2>3 DEF CheckSession
    <3>2. connected' = FALSE /\ sockUp' \in BOOLEAN
      <4>1. CASE status = "CLOSED"
        <5>1. connected' = connected /\ sockUp' = sockUp /\ ~connected
          BY <1>5, <4>1 DEF CheckSession, IInv, Attached
        <5> QED
          BY <5>1 DEF IInv, TypeOK
      <4>2. CASE status = "TIME_OUT"
        BY <1>5, <4>2 DEF CheckSession
      <4> QED
        BY <2>3, <4>1, <4>2
    <3>3. requests' \in Seq(Items) /\ Len(requests') = 0
      BY <3>1
    <3>4. TypeOK'
      BY <2>1, <3>1, <3>2, <3>3 DEF IInv, TypeOK
    <3>5. Deque'
      <4>1. Len(requests') <= dwseq' /\ \A j \in 1..Len(requests') : FALSE
        BY <2>1, <3>3 DEF IInv, TypeOK
      <4> QED
        BY <3>1, <4>1 DEF Deque
    <3>6. Written' /\ Attached'
      BY <2>1, <3>1, <3>2 DEF IInv, Written, Attached
    <3> QED
      BY <2>1, <3>2, <3>4, <3>5, <3>6 DEF IInv
  <2> QED
    BY <2>2, <2>3 DEF IInv, TypeOK
<1> QED
  BY <1>1, <1>3, <1>4, <1>5

(* The initial state. *)
LEMMA InitInv == Init => IInv
<1> SUFFICES ASSUME Init PROVE IInv
  OBVIOUS
<1>1. requests = <<>> /\ Len(requests) = 0 /\ out = <<>> /\ Len(out) = 0 /\ dwseq = 0
  BY DEF Init
<1>2. TypeOK
  <2>1. requests \in Seq(Items) /\ out \in Seq(Nat)
    BY <1>1
  <2> QED
    BY <2>1 DEF Init, TypeOK
<1>3. (\A j \in 1..Len(requests) : FALSE) /\ (\A i \in 1..Len(out) : FALSE)
  BY <1>1
<1>4. Deque
  <2>1. asked = {} /\ \A n \in Nat : ~\E j \in 1..Len(requests) :
                         requests[j].no = n /\ requests[j].response = "none"
    BY <1>3 DEF Init
  <2>2. Len(requests) <= dwseq /\ ~(Len(requests) > 0)
    BY <1>1
  <2> QED
    BY <1>3, <2>1, <2>2 DEF Deque
<1>5. Written
  <2>1. Len(out) = 0 /\ Len(requests) = 0 /\ dwseq = 0
    BY <1>1
  <2>2. Len(out) = dwseq - Len(requests)
    BY <2>1
  <2> QED
    BY <1>3, <2>2 DEF Written
<1>6. Attached
  BY DEF Init, Attached
<1> QED
  BY <1>2, <1>4, <1>5, <1>6 DEF IInv

(* The invariant is inductive. *)
THEOREM Inductive == Spec => []IInv
<1>1. IInv /\ [Next]_vars => IInv'
  <2>1. ASSUME IInv, UNCHANGED vars PROVE IInv'
    BY <2>1 DEF vars, sessionVars, socketVars, IInv, TypeOK, Deque, Written, Attached
  <2>2. ASSUME IInv, NEW n \in asked, NEW kind \in {"close", "keep"}, DoSendBack(n, kind)
        PROVE  IInv'
    <3>1. CASE inmap
      BY <2>2, <3>1, SendBackStep
    <3>2. CASE ~inmap
      BY <2>2, <3>2, SendBackLate
    <3> QED
      BY <3>1, <3>2
  <2> QED
    BY <2>1, <2>2, ReadStep, OtherStep DEF Next
<1> QED
  BY <1>1, InitInv, PTL DEF Spec

(* Responses leave in the order of the requests, none skipped, none twice. *)
THEOREM ResponsesInOrder == Spec => []InOrder
<1>1. IInv => InOrder
  BY DequeFacts DEF IInv, Written, InOrder
<1> QED
  BY <1>1, Inductive, PTL

(* Every variable keeps its type; a request the handler may still answer was read
   from this connection. *)
THEOREM TypeCorrect == Spec => []TypeOK
<1>1. IInv => TypeOK
  BY DEF IInv
<1> QED
  BY <1>1, Inductive, PTL

(* The requests the handler holds are the unanswered ones of the deque, so
   DoSendBack never looks at the front of an empty deque. *)
THEOREM DequeMatchesHandler == Spec => []AskedMatches
<1>1. IInv => AskedMatches
  <2> SUFFICES ASSUME IInv, inmap
               PROVE  /\ asked = {requests[i].no : i \in {j \in DOMAIN requests :
                                                        requests[j].response = "none"}}
                      /\ asked = {} => requests = <<>>
    BY DEF AskedMatches
  <2>1. \A n \in Nat : n \in asked <=> \E j \in 1..Len(requests) :
                          requests[j].no = n /\ requests[j].response = "none"
    BY DEF IInv, Deque
  <2>2. asked \subseteq Nat
    BY DEF IInv, TypeOK
  <2>3. asked = {requests[i].no : i \in {j \in DOMAIN requests : requests[j].response = "none"}}
    BY <2>1, <2>2, DequeFacts
  <2>4. ASSUME asked = {}, requests # <<>> PROVE FALSE
    <3>1. Len(requests) > 0 /\ 1 \in 1..Len(requests)
      BY <2>4, DequeFacts, EmptySeq
    <3>2. requests[1].response = "none" /\ requests[1].no \in Nat
      BY <3>1, DequeFacts DEF IInv, Deque
    <3> QED
      BY <2>1, <2>4, <3>1, <3>2
  <2> QED
    BY <2>3, <2>4
<1> QED
  BY <1>1, Inductive, PTL

(* A deleted session leaves a closed connection that does not point at it. *)
THEOREM DeletedIsClosed == Spec => []ClosedWhenDeleted
<1>1. IInv => ClosedWhenDeleted
  BY DEF IInv, Attached, ClosedWhenDeleted
<1> QED
  BY <1>1, Inductive, PTL

(* The session implements what its client is promised: OnRead receives a
   request, DoSendBack answers one and sends all that is then in order, and the
   connection is closed once. *)
THEOREM Implements == Spec => KeepsPromise
<1>1. Init => Promise!Init
  BY DEF Init, Promise!Init
<1>2. IInv /\ [Next]_vars => [Promise!Next]_(Promise!vars)
  <2> SUFFICES ASSUME IInv, [Next]_vars PROVE [Promise!Next]_(Promise!vars)
    OBVIOUS
  <2> USE DEF Promise!vars
  <2>t. /\ dwseq \in Nat /\ asked \subseteq 1..dwseq /\ connected \in BOOLEAN
        /\ Len(out) \in Nat
    BY DequeFacts DEF IInv, TypeOK
  <2>1. CASE UNCHANGED vars
    BY <2>1 DEF vars, sessionVars, socketVars
  <2>2. CASE OnRead
    <3>1. /\ dwseq' = dwseq + 1 /\ connected /\ connected' /\ Len(out') = Len(out)
          /\ asked' = asked \cup {dwseq + 1}
      BY <2>2 DEF OnRead, socketVars
    <3>2. (1..dwseq') \ asked' = (1..dwseq) \ asked
      BY <2>t, <3>1
    <3> QED
      BY <2>t, <2>2, <3>1, <3>2 DEF OnRead, socketVars, Promise!Next, Promise!Receive
  <2>3. CASE OnReadStray \/ HandleWrite \/ HandleReadError \/ CheckSession
    <3>1. (connected' => connected) /\ UNCHANGED <<dwseq, asked, out>> /\ connected' \in BOOLEAN
      BY <2>3, OtherStep DEF IInv, TypeOK
    <3>2. CASE connected' = connected
      BY <3>1, <3>2
    <3>3. CASE connected' # connected
      <4>1. connected = TRUE /\ connected' = FALSE
        BY <2>t, <3>1, <3>3
      <4> QED
        BY <3>1, <4>1 DEF Promise!Next, Promise!Shut
    <3> QED
      BY <3>2, <3>3
  <2>4. ASSUME NEW n \in asked, NEW kind \in {"close", "keep"}, DoSendBack(n, kind)
        PROVE  \E m \in 1..dwseq : Promise!Answer(m)
    <3>1. n \in 1..dwseq /\ asked' = asked \ {n} /\ dwseq' = dwseq /\ connected' = connected
      BY <2>t, <2>4 DEF DoSendBack, sessionVars, socketVars
    <3>2. (1..dwseq') \ asked' = ((1..dwseq) \ asked) \cup {n}
      BY <3>1
    <3>3. CASE connected
      <4>1. inmap
        BY <3>3 DEF IInv, Attached
      <4>2. /\ Len(out') \in Nat
            /\ \A i \in 1..Len(out') : i \notin asked'
            /\ Len(out') + 1 \in asked' \/ Len(out') = dwseq
        BY <2>4, <3>3, <4>1, SendBackStep
      <4>3. Len(out') <= dwseq
        <5>1. IInv'
          BY <2>4, <4>1, SendBackStep
        <5>2. Len(out') = dwseq' - Len(requests') /\ Len(requests') \in Nat
          BY <3>1, <3>3, <5>1 DEF IInv, Written, TypeOK
        <5> QED
          BY <2>t, <3>1, <4>2, <5>2
      <4>4. Promise!Gapless(Len(out'), (1..dwseq') \ asked')
        <5>1. \A i \in 1..Len(out') : i \in (1..dwseq') \ asked'
          BY <2>t, <3>1, <4>2, <4>3
        <5>2. Len(out') + 1 \notin (1..dwseq') \ asked'
          BY <2>t, <3>1, <4>2
        <5> QED
          BY <5>1, <5>2 DEF Promise!Gapless
      <4> QED
        BY <3>1, <3>2, <3>3, <4>2, <4>4 DEF Promise!Answer
    <3>4. CASE ~connected
      <4>1. out' = out
        <5>1. CASE inmap
          BY <2>4, <3>4, <5>1, SendBackStep
        <5>2. CASE ~inmap
          BY <2>4, <5>2 DEF DoSendBack
        <5> QED
          BY <5>1, <5>2
      <4> QED
        BY <2>t, <3>1, <3>2, <3>4, <4>1 DEF Promise!Answer
    <3> QED
      BY <3>3, <3>4
  <2> QED
    BY <2>1, <2>2, <2>3, <2>4 DEF Next, Promise!Next
<1> QED
  BY <1>1, <1>2, Inductive, PTL DEF Spec, KeepsPromise, Promise!Spec

=============================================================================
