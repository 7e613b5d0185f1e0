---------------------------- MODULE Sides_proofs ----------------------------
(***************************************************************************)
(* Proofs about the two sides of a connection. The reading side (Framing), *)
(* for any parser that keeps to what is stated here of it: that what it    *)
(* returns for the whole of a message is that message and its end, and     *)
(* that it waits for the rest of one. Then the writing side (WriteBuffer), *)
(* for any capacity, any number of writes and of connections: the block of *)
(* the allocator has one owner, a new connection is spared by old writes,  *)
(* the session is told of each end once, and writes that do not overlap    *)
(* are carried whole, with the close behind them.                          *)
(***************************************************************************)
EXTENDS Framing, WriteBuffer, BasicLemmas, FiniteSetTheorems, TLAPS

-----------------------------------------------------------------------------
(* What a parser keeps to. *)

Token == {Junk} \cup UNION {{Encode(msg)[i] : i \in 1 .. Len(Encode(msg))} : msg \in Message}

\* The buffer begins with the whole of a message, or is a part of it that is not the whole.
Begins(buf, msg) == Len(Encode(msg)) <= Len(buf) /\ SubSeq(buf, 1, Len(Encode(msg))) = Encode(msg)
Within(buf, msg) == Len(buf) < Len(Encode(msg)) /\ SubSeq(Encode(msg), 1, Len(buf)) = buf

\* The last read ended between the two tokens, or (inside) inside the second.
EndedAt(buf, next, inside) ==
    /\ inside => \E a \in Token : CutInside(a, next)
    /\ IF buf = <<>> THEN inside
       ELSE CutBetween(buf[Len(buf)], next) \/ (inside /\ CutInside(buf[Len(buf)], next))

\* It returns a place that is in front of the data or in it.
Placed == \A buf \in Seq(Token) : \A r \in Decode(buf) : r.is = "next" => r.to \in Nat

Encodes == \A msg \in Message : Encode(msg) \in Seq(Token) /\ Encode(msg) # <<>>

Whole ==
    \A buf \in Seq(Token), msg \in Message : Begins(buf, msg) =>
        \A r \in Decode(buf) :
            r.is = "next" /\ r.to = Len(Encode(msg)) /\ ~r.skew /\ Same(msg, r.msg)

Partial ==
    \A buf \in Seq(Token), msg \in Message : Within(buf, msg) =>
        \A r \in Decode(buf) : r.is # "next"

\* Where a read may end, the parser waits; and it may end in front of each message.
Waits ==
    \A buf \in Seq(Token), msg \in Message, inside \in BOOLEAN :
        Within(buf, msg) /\ EndedAt(buf, Encode(msg)[Len(buf) + 1], inside) =>
            \A r \in Decode(buf) : r.is = "buf"
Fronts == \A msg \in Message, a \in Token : CutBetween(a, Encode(msg)[1])

InTurn  == Encodes /\ Placed /\ Whole /\ Partial
Patient == Waits /\ Fronts

-----------------------------------------------------------------------------
(* What may be delivered. *)
Given == UNION {{r.msg : r \in Decode(buf)} : buf \in Seq(Token)}

(* The buffer has a place for what is read. *)
RoomInv ==
    /\ connected \in BOOLEAN /\ linked \in BOOLEAN /\ dealing \in BOOLEAN /\ reading \in BOOLEAN
    /\ socket \in {"up", "down", "broken"} /\ part \in BOOLEAN /\ illegal \in BOOLEAN
    /\ connects \in 0 .. MaxConnects /\ sent \in Seq(Message) /\ delivered \in Seq(Given)
    /\ buffer \in Seq(Token) /\ wire \in Seq(Token) /\ fresh \in 0 .. Len(buffer)
    /\ capacity \in Nat /\ capacity >= Capacity /\ Len(buffer) < capacity
    /\ reading => ~dealing /\ (NoStaleBytes => Free >= 1)

(* What is in front of a place of a list, and what is behind it. *)
LEMMA Pieces ==
    ASSUME NEW S, NEW list \in Seq(S), NEW n \in 0 .. Len(list)
    PROVE  LET front == SubSeq(list, 1, n)
               back == SubSeq(list, n + 1, Len(list))
           IN  /\ front \in Seq(S) /\ Len(front) = n
               /\ back \in Seq(S) /\ Len(back) = Len(list) - n
               /\ \A i \in 1 .. n : front[i] = list[i]
               /\ \A i \in 1 .. Len(list) - n : back[i] = list[n + i]
               /\ \A l \in Seq(S) : (l \o front) \o back = l \o list
<1>1. Len(list) \in Nat /\ \A i \in 1 .. Len(list) : list[i] \in S
  OBVIOUS
<1> DEFINE front == SubSeq(list, 1, n)
           back == SubSeq(list, n + 1, Len(list))
<1>2. front \in Seq(S) /\ Len(front) = n /\ \A i \in 1 .. n : front[i] = list[i]
  BY <1>1
<1>3. back \in Seq(S) /\ Len(back) = Len(list) - n /\ \A i \in 1 .. Len(list) - n : back[i] = list[n + i]
  BY <1>1
<1>4. ASSUME NEW l \in Seq(S) PROVE (l \o front) \o back = l \o list
  <2> HIDE DEF front, back
  <2> DEFINE whole == (l \o front) \o back
  <2>0. l \o front \in Seq(S) /\ Len(l \o front) = Len(l) + n
    BY <1>2, ConcatFacts
  <2>1. whole \in Seq(S) /\ Len(whole) = Len(l) + Len(list)
    <3>1. whole \in Seq(S) /\ Len(whole) = Len(l \o front) + Len(back)
      BY <2>0, <1>3, ConcatFacts
    <3> QED BY <3>1, <2>0, <1>1, <1>3
  <2>2. l \o list \in Seq(S) /\ Len(l \o list) = Len(l) + Len(list)
    BY <1>1
  <2>3. ASSUME NEW i \in 1 .. Len(l) + Len(list) PROVE whole[i] = (l \o list)[i]
    <3>1. CASE i <= Len(l)
      <4>1. (l \o front)[i] = l[i] /\ (l \o list)[i] = l[i]
        BY <3>1, <1>2, ConcatFacts
      <4>2. i \in DOMAIN (l \o front)
        BY <3>1, <1>2, ConcatFacts
      <4> QED BY <4>1, <4>2, <2>0, <1>3, ConcatFacts
    <3>2. CASE i > Len(l) /\ i <= Len(l) + n
      <4>1. (l \o front)[i] = front[i - Len(l)] /\ (l \o list)[i] = list[i - Len(l)]
        BY <3>2, <1>2, ConcatFacts
      <4>2. i \in DOMAIN (l \o front)
        BY <3>2, <1>2, ConcatFacts
      <4> QED BY <4>1, <4>2, <2>0, <1>2, <1>3, ConcatFacts, <3>2
    <3>3. CASE i > Len(l) + n
      <4>1. (l \o list)[i] = list[i - Len(l)]
        BY <3>3, ConcatFacts
      <4>2. i \notin DOMAIN (l \o front) /\ i \in DOMAIN whole
        BY <3>3, <2>0, <2>1, <1>1, <1>2, <1>3, ConcatFacts
      <4>3. i \in DOMAIN ((l \o front) \o back)
        BY <4>2 DEF whole
      <4>4. ((l \o front) \o back)[i] = back[i - Len(l \o front)]
        BY <4>2, <4>3, <2>0, <1>3, ConcatFacts
      <4>5. i - Len(l) = n + (i - (Len(l) + n)) /\ i - (Len(l) + n) \in 1 .. Len(list) - n
        BY <3>3, <1>1
      <4>6. back[i - (Len(l) + n)] = list[i - Len(l)]
        BY <4>5, <1>3
      <4>7. i - Len(l \o front) = i - (Len(l) + n)
        BY <2>0
      <4>8. back[i - Len(l \o front)] = list[i - Len(l)]
        BY <4>6, <4>7
      <4>9. whole[i] = list[i - Len(l)]
        BY <4>4, <4>8 DEF whole
      <4> QED BY <4>1, <4>9
    <3>4. i \in Nat /\ Len(l) \in Nat /\ n \in Nat
      BY <1>1
    <3>5. i <= Len(l) \/ (i > Len(l) /\ i <= Len(l) + n) \/ i > Len(l) + n
      BY <3>4
    <3> QED BY <3>1, <3>2, <3>3, <3>5, Zenon
  <2>4. ASSUME NEW a \in Seq(S), NEW b \in Seq(S), Len(a) = Len(b), \A i \in 1 .. Len(a) : a[i] = b[i]
        PROVE  a = b
    BY <2>4
  <2>5. Len(whole) = Len(l \o list) /\ \A i \in 1 .. Len(whole) : whole[i] = (l \o list)[i]
    BY <2>1, <2>2, <2>3
  <2> DEFINE other == l \o list
  <2>6. whole \in Seq(S) /\ other \in Seq(S) /\ Len(whole) = Len(other)
        /\ \A i \in 1 .. Len(whole) : whole[i] = other[i]
    BY <2>1, <2>2, <2>5
  <2>7. whole = other
    <3> HIDE DEF whole, other
    <3> QED BY <2>6, <2>4
  <2> QED BY <2>7
<1> QED BY <1>2, <1>3, <1>4

(* The connection begins with an empty buffer. *)
LEMMA RoomInit == FramingAssumption /\ Init => RoomInv
<1> SUFFICES ASSUME FramingAssumption, Init PROVE RoomInv
  OBVIOUS
<1>1. buffer = <<>> /\ wire = <<>> /\ sent = <<>> /\ fresh = 0 /\ connects = 0 /\ capacity = Capacity /\ ~reading
      /\ delivered = <<>>
  BY DEF Init
<1>2. buffer \in Seq(Token) /\ wire \in Seq(Token) /\ sent \in Seq(Message) /\ delivered \in Seq(Given)
      /\ Len(buffer) = 0
  BY <1>1
<1>3. capacity \in Nat /\ capacity >= Capacity /\ capacity > 0 /\ connects \in 0 .. MaxConnects /\ fresh \in 0 .. 0
  BY <1>1 DEF FramingAssumption
<1>4. connected \in BOOLEAN /\ linked \in BOOLEAN /\ dealing \in BOOLEAN /\ reading \in BOOLEAN
      /\ socket \in {"up", "down", "broken"} /\ part \in BOOLEAN /\ illegal \in BOOLEAN
  BY DEF Init
<1> QED BY <1>1, <1>2, <1>3, <1>4 DEF RoomInv

(* Every step leaves a place in the buffer. *)
LEMMA RoomStep == FramingAssumption /\ Encodes /\ Placed /\ RoomInv /\ [Next]_vars => RoomInv'
<1> SUFFICES ASSUME FramingAssumption, Encodes, Placed, RoomInv, [Next]_vars PROVE RoomInv'
  OBVIOUS
<1> USE DEF RoomInv, NoStaleBytes, Free
<1>1. ASSUME NEW msg \in Message, Send(msg) PROVE RoomInv'
  BY <1>1 DEF Send, conn, Encodes
<1>2. CASE PeerCloses
  BY <1>2 DEF PeerCloses
<1>3. CASE Connect
  <2>1. connected' \in BOOLEAN /\ linked' \in BOOLEAN /\ dealing' \in BOOLEAN /\ reading' \in BOOLEAN
        /\ socket' \in {"up", "down", "broken"} /\ part' \in BOOLEAN /\ illegal' \in BOOLEAN
    BY <1>3 DEF Connect
  <2>2. sent' = <<>> /\ delivered' = <<>> /\ wire' = <<>> /\ fresh' = 0 /\ ~dealing' /\ UNCHANGED <<buffer, capacity>>
    BY <1>3 DEF Connect
  <2>3. connects' \in 0 .. MaxConnects
    BY <1>3 DEF Connect, FramingAssumption
  <2>4. sent' \in Seq(Message) /\ wire' \in Seq(Token) /\ delivered' \in Seq(Given)
    BY <2>2
  <2>5. fresh' = Len(buffer') => capacity' - Len(buffer') - 1 >= 1
    BY <2>2 DEF FramingAssumption
  <2> QED BY <2>1, <2>2, <2>3, <2>4, <2>5
<1>4. CASE HandleReadError
  <2>1. connected' \in BOOLEAN /\ linked' \in BOOLEAN /\ dealing' \in BOOLEAN /\ reading' \in BOOLEAN
        /\ socket' \in {"up", "down", "broken"} /\ part' \in BOOLEAN /\ illegal' \in BOOLEAN
    BY <1>4 DEF HandleReadError, OnPeerClose
  <2>2. buffer' = <<>> /\ fresh' = 0 /\ ~reading' /\ UNCHANGED <<wire, capacity, delivered, sent, connects>>
    BY <1>4 DEF HandleReadError
  <2>3. buffer' \in Seq(Token) /\ Len(buffer') = 0
    BY <2>2
  <2>4. capacity' > 0
    BY <2>2 DEF FramingAssumption
  <2> QED BY <2>1, <2>2, <2>3, <2>4
<1>5. ASSUME NEW n \in 0 .. Len(wire), NEW inside \in BOOLEAN, HandleRead(n, inside) PROVE RoomInv'
  <2> DEFINE front == SubSeq(wire, 1, n)
             back == SubSeq(wire, n + 1, Len(wire))
  <2>1. front \in Seq(Token) /\ Len(front) = n /\ back \in Seq(Token)
    BY Pieces
  <2>2. wire' = back /\ buffer' = buffer \o front /\ fresh' = fresh + n /\ ~reading' /\ n <= capacity - Len(buffer) - 1
    BY <1>5 DEF HandleRead, MayEnd
  <2>3. buffer' \in Seq(Token) /\ Len(buffer') = Len(buffer) + n
    BY <2>1, <2>2
  <2>4. /\ connected' \in BOOLEAN /\ linked' \in BOOLEAN /\ dealing' \in BOOLEAN /\ reading' \in BOOLEAN
        /\ socket' \in {"up", "down", "broken"}
    BY <1>5 DEF HandleRead, OnPeerClose
  <2>5. UNCHANGED <<capacity, delivered, sent, connects, illegal>> /\ part' = inside
    BY <1>5 DEF HandleRead
  <2>6. fresh' \in 0 .. Len(buffer') /\ Len(buffer') < capacity
    BY <2>2, <2>3
  <2> HIDE DEF front, back
  <2> QED BY <2>1, <2>2, <2>3, <2>4, <2>5, <2>6
<1>6. CASE DecodeIllegal \/ DecodedClosed \/ Close
  <2>1. connected' \in BOOLEAN /\ linked' \in BOOLEAN /\ dealing' \in BOOLEAN /\ reading' \in BOOLEAN
        /\ socket' \in {"up", "down", "broken"} /\ part' \in BOOLEAN /\ illegal' \in BOOLEAN
    BY <1>6 DEF DecodeIllegal, DecodedClosed, Close, OnPeerClose
  <2>2. ~dealing' /\ UNCHANGED <<reading, wire, buffer, capacity, delivered, fresh, sent, connects>>
    BY <1>6 DEF DecodeIllegal, DecodedClosed, Close, OnPeerClose
  <2> QED BY <2>1, <2>2
<1>7. CASE DecodeWaits
  <2>1. connected' \in BOOLEAN /\ linked' \in BOOLEAN /\ dealing' \in BOOLEAN /\ reading' \in BOOLEAN
        /\ socket' \in {"up", "down", "broken"} /\ part' \in BOOLEAN /\ illegal' \in BOOLEAN
    BY <1>7 DEF DecodeWaits, ReadOn
  <2>2. ~dealing' /\ UNCHANGED <<wire, buffer, delivered, fresh, sent, connects>>
        /\ capacity' = IF capacity - Len(buffer) <= Low THEN 2 * capacity ELSE capacity
    BY <1>7 DEF DecodeWaits, ReadOn
  <2>3. capacity' \in Nat /\ capacity' >= capacity /\ capacity' - Len(buffer) - 1 >= 1
    BY <2>2 DEF FramingAssumption
  <2> QED BY <2>1, <2>2, <2>3 DEF FramingAssumption
<1>8. ASSUME NEW closes \in BOOLEAN, Decoded(closes) PROVE RoomInv'
  <2>1. PICK r \in Decode(buffer) :
          /\ r.is = "next"
          /\ delivered' = Append(delivered, r.msg)
          /\ LET left == SubSeq(buffer, r.to + 1, Len(buffer))
             IN  /\ buffer' = IF r.skew /\ left # <<>> THEN <<Junk>> \o Tail(left) ELSE left
                 /\ fresh' = (IF fresh <= Len(left) THEN fresh ELSE Len(left))
    BY <1>8 DEF Decoded, Consumed
  <2> DEFINE left == SubSeq(buffer, r.to + 1, Len(buffer))
  <2>2. r.to \in Nat
    BY <2>1 DEF Placed
  <2>3. left \in Seq(Token) /\ Len(left) <= Len(buffer)
    BY <2>2, SMTT(30)
  <2> HIDE DEF left
  <2>4. buffer' \in Seq(Token) /\ Len(buffer') = Len(left)
    <3>1. CASE r.skew /\ left # <<>>
      <4>1. Tail(left) \in Seq(Token) /\ Len(Tail(left)) = Len(left) - 1
        BY <2>3, <3>1, TailFacts
      <4>2. <<Junk>> \in Seq(Token) /\ Len(<<Junk>>) = 1
        BY DEF Token
      <4>3. buffer' = <<Junk>> \o Tail(left)
        BY <2>1, <3>1 DEF left
      <4> HIDE DEF Junk
      <4>4. buffer' \in Seq(Token) /\ Len(buffer') = 1 + Len(Tail(left))
        BY <4>1, <4>2, <4>3, ConcatFacts
      <4> QED BY <4>1, <4>4, <2>3
    <3>2. CASE ~(r.skew /\ left # <<>>)
      BY <2>1, <2>3, <3>2 DEF left
    <3> QED BY <3>1, <3>2
  <2>5. fresh' \in 0 .. Len(left)
    <3>1. fresh' = (IF fresh <= Len(left) THEN fresh ELSE Len(left)) /\ Len(left) \in Nat /\ fresh \in Nat
      BY <2>1, <2>3, SMTT(30) DEF left
    <3> QED BY <3>1
  <2>6. /\ connected' \in BOOLEAN /\ linked' \in BOOLEAN /\ socket' \in {"up", "down", "broken"}
        /\ dealing /\ UNCHANGED <<dealing, reading, wire, part, capacity, sent, connects, illegal>>
    BY <1>8 DEF Decoded
  <2>7. delivered' \in Seq(Given)
    <3>1. r.msg \in Given
      BY DEF Given
    <3> QED BY <2>1, <3>1, AppendFacts
  <2> QED BY <2>3, <2>4, <2>5, <2>6, <2>7
<1>9. CASE UNCHANGED vars
  BY <1>9 DEF vars
<1> QED
  BY <1>1, <1>2, <1>3, <1>4, <1>5, <1>6, <1>7, <1>8, <1>9
     DEF Next, ReadCompletes, Loop, FramingAssumption

-----------------------------------------------------------------------------
(* What was delivered, and what is still to come. *)

\* A stream is the messages of a list, one behind the other; at says where each ends.
Ends(stream, list, at) ==
    /\ at \in [0 .. Len(list) -> Nat] /\ at[0] = 0 /\ at[Len(list)] = Len(stream)
    /\ \A i \in 0 .. Len(list), j \in 0 .. Len(list) : i <= j => at[i] <= at[j]
    /\ \A j \in 1 .. Len(list) :
         /\ at[j] = at[j - 1] + Len(Encode(list[j]))
         /\ \A i \in 1 .. Len(Encode(list[j])) : stream[at[j - 1] + i] = Encode(list[j])[i]
Carries(stream, list) == \E at \in [0 .. Len(list) -> Nat] : Ends(stream, list, at)

(* A buffer begins with a message, or is within one, if each place has its token. *)
LEMMA BeginsMeans ==
    ASSUME NEW buf \in Seq(Token), NEW msg \in Message, Encodes
    PROVE  LET all == Encode(msg)
           IN  /\ Len(all) \in Nat \ {0} /\ Len(buf) \in Nat
               /\ Begins(buf, msg) <=> Len(all) <= Len(buf) /\ \A i \in 1 .. Len(all) : buf[i] = all[i]
               /\ Within(buf, msg) <=> Len(buf) < Len(all) /\ \A i \in 1 .. Len(buf) : buf[i] = all[i]
<1> DEFINE all == Encode(msg)
<1>1. all \in Seq(Token) /\ Len(all) \in Nat \ {0} /\ Len(buf) \in Nat
  <2>1. all \in Seq(Token) /\ all # <<>>
    BY DEF Encodes
  <2> HIDE DEF all
  <2> QED BY <2>1
<1> HIDE DEF all
<1>2. ASSUME NEW x \in Seq(Token), NEW y \in Seq(Token), Len(x) <= Len(y)
      PROVE  SubSeq(y, 1, Len(x)) = x <=> \A i \in 1 .. Len(x) : y[i] = x[i]
  <2>1. Len(x) \in 0 .. Len(y)
    BY <1>2
  <2> DEFINE front == SubSeq(y, 1, Len(x))
  <2>2. front \in Seq(Token) /\ Len(front) = Len(x) /\ \A i \in 1 .. Len(x) : front[i] = y[i]
    BY <2>1, Pieces
  <2> HIDE DEF front
  <2>3. (\A i \in 1 .. Len(x) : y[i] = x[i]) => front = x
    BY <2>2, SameList
  <2>4. front = x => \A i \in 1 .. Len(x) : y[i] = x[i]
    BY <2>2
  <2> QED BY <2>3, <2>4 DEF front
<1>3. Begins(buf, msg) <=> Len(all) <= Len(buf) /\ \A i \in 1 .. Len(all) : buf[i] = all[i]
  BY <1>1, <1>2 DEF Begins, all
<1>4. Within(buf, msg) <=> Len(buf) < Len(all) /\ \A i \in 1 .. Len(buf) : buf[i] = all[i]
  <2>1. CASE Len(buf) < Len(all)
    <3>1. SubSeq(all, 1, Len(buf)) = buf <=> \A i \in 1 .. Len(buf) : all[i] = buf[i]
      BY <1>1, <1>2, <2>1
    <3> QED BY <2>1, <3>1 DEF Within, all
  <2>2. CASE ~(Len(buf) < Len(all))
    BY <2>2 DEF Within, all
  <2> QED BY <2>1, <2>2
<1> QED BY <1>1, <1>3, <1>4 DEF all

(* Nothing is carried by an empty stream, and by no other. *)
LEMMA CarriesNothing ==
    /\ Carries(<<>>, <<>>)
    /\ \A stream \in Seq(Token) : Carries(stream, <<>>) => stream = <<>>
<1>1. Carries(<<>>, <<>>)
  <2> DEFINE at == [i \in 0 .. 0 |-> 0]
  <2>1. at \in [0 .. Len(<<>>) -> Nat] /\ at[0] = 0 /\ at[Len(<<>>)] = Len(<<>>)
    OBVIOUS
  <2>2. \A i \in 0 .. Len(<<>>), j \in 0 .. Len(<<>>) : i <= j => at[i] <= at[j]
    OBVIOUS
  <2>3. \A j \in 1 .. Len(<<>>) : FALSE
    OBVIOUS
  <2> HIDE DEF at
  <2> QED BY <2>1, <2>2, <2>3 DEF Carries, Ends
<1>2. ASSUME NEW stream \in Seq(Token), Carries(stream, <<>>) PROVE stream = <<>>
  <2>1. PICK at \in [0 .. Len(<<>>) -> Nat] : Ends(stream, <<>>, at)
    BY <1>2 DEF Carries
  <2>2. Len(stream) = 0
    BY <2>1 DEF Ends
  <2> QED BY <2>2
<1> QED BY <1>1, <1>2

(* A message more at the end of the list and of the stream. *)
LEMMA CarriesMore ==
    ASSUME NEW stream \in Seq(Token), NEW list \in Seq(Message), NEW msg \in Message,
           Encodes, Carries(stream, list)
    PROVE  Carries(stream \o Encode(msg), Append(list, msg))
<1> DEFINE n == Len(list)
           code == Encode(msg)
           longer == Append(list, msg)
           both == stream \o code
<1>1. PICK at \in [0 .. Len(list) -> Nat] : Ends(stream, list, at)
  BY DEF Carries
<1> DEFINE ends == [i \in 0 .. n + 1 |-> IF i <= n THEN at[i] ELSE Len(stream) + Len(code)]
<1>2. n \in Nat /\ Len(longer) = n + 1 /\ longer[n + 1] = msg /\ \A j \in 1 .. n : longer[j] = list[j]
  BY AppendFacts
<1>3. code \in Seq(Token) /\ Len(code) \in Nat /\ Len(stream) \in Nat
  <2>1. code \in Seq(Token)
    BY DEF Encodes
  <2> HIDE DEF code
  <2> QED BY <2>1
<1> HIDE DEF longer, code
<1>4. /\ Len(both) = Len(stream) + Len(code)
      /\ \A i \in 1 .. Len(stream) : both[i] = stream[i]
      /\ \A i \in 1 .. Len(code) : both[Len(stream) + i] = code[i]
  BY <1>3, ConcatFacts
<1> HIDE DEF both, n
<1>5. /\ at \in [0 .. n -> Nat] /\ at[0] = 0 /\ at[n] = Len(stream)
      /\ \A i \in 0 .. n, j \in 0 .. n : i <= j => at[i] <= at[j]
      /\ \A j \in 1 .. n :
           /\ at[j] = at[j - 1] + Len(Encode(list[j]))
           /\ \A i \in 1 .. Len(Encode(list[j])) : stream[at[j - 1] + i] = Encode(list[j])[i]
  BY <1>1 DEF Ends, n
<1>6. ends \in [0 .. n + 1 -> Nat]
  BY <1>2, <1>3, <1>5
<1>7. \A i \in 0 .. n : ends[i] = at[i]
  BY <1>2
<1>8. ends[n + 1] = Len(stream) + Len(code) /\ ends[0] = 0
  BY <1>2, <1>5
<1> HIDE DEF ends
<1>9. \A i \in 0 .. n + 1, j \in 0 .. n + 1 : i <= j => ends[i] <= ends[j]
  <2> SUFFICES ASSUME NEW i \in 0 .. n + 1, NEW j \in 0 .. n + 1, i <= j PROVE ends[i] <= ends[j]
    OBVIOUS
  <2>1. CASE j <= n
    BY <2>1, <1>2, <1>5, <1>7
  <2>2. CASE i <= n /\ j = n + 1
    <3>1. at[i] <= at[n]
      BY <2>2, <1>2, <1>5
    <3> QED BY <3>1, <2>2, <1>2, <1>3, <1>5, <1>7, <1>8
  <2>3. CASE i = n + 1 /\ j = n + 1
    BY <2>3, <1>8, <1>3
  <2> QED BY <2>1, <2>2, <2>3, <1>2
<1>10. ASSUME NEW j \in 1 .. n + 1
       PROVE  /\ ends[j] = ends[j - 1] + Len(Encode(longer[j]))
              /\ \A i \in 1 .. Len(Encode(longer[j])) : both[ends[j - 1] + i] = Encode(longer[j])[i]
  <2>1. CASE j <= n
    <3>1. longer[j] = list[j] /\ ends[j] = at[j] /\ ends[j - 1] = at[j - 1] /\ j \in 1 .. n
      BY <2>1, <1>2, <1>7
    <3>2. /\ at[j] = at[j - 1] + Len(Encode(list[j]))
          /\ \A i \in 1 .. Len(Encode(list[j])) : stream[at[j - 1] + i] = Encode(list[j])[i]
          /\ at[j - 1] \in Nat /\ at[j] <= at[n]
      BY <3>1, <1>2, <1>5, SMTT(30)
    <3>3. Len(Encode(list[j])) \in Nat
      <4>1. Encode(list[j]) \in Seq(Token)
        BY <3>1 DEF Encodes, n
      <4> QED BY <4>1
    <3>4. ASSUME NEW i \in 1 .. Len(Encode(list[j])) PROVE at[j - 1] + i \in 1 .. Len(stream)
      BY <3>2, <3>3, <1>5, <1>3, SMTT(30)
    <3> QED BY <3>1, <3>2, <3>4, <1>4
  <2>2. CASE j = n + 1
    <3>1. ends[j - 1] = Len(stream) /\ Encode(longer[j]) = code
      BY <2>2, <1>2, <1>5, <1>7 DEF code
    <3> QED BY <3>1, <2>2, <1>3, <1>4, <1>8
  <2> QED BY <2>1, <2>2, <1>2
<1>11. Ends(both, longer, ends)
  BY <1>2, <1>4, <1>6, <1>8, <1>9, <1>10 DEF Ends
<1> QED BY <1>2, <1>6, <1>11 DEF Carries, both, longer, code

(* A stream begins with the first of the messages it carries, and carries the others
   behind it. *)
LEMMA CarriesFirst ==
    ASSUME NEW stream \in Seq(Token), NEW list \in Seq(Message), list # <<>>,
           Encodes, Carries(stream, list)
    PROVE  /\ list[1] \in Message /\ Begins(stream, list[1])
           /\ Carries(SubSeq(stream, Len(Encode(list[1])) + 1, Len(stream)), Tail(list))
<1> DEFINE n == Len(list)
           first == Len(Encode(list[1]))
           others == Tail(list)
           back == SubSeq(stream, first + 1, Len(stream))
<1>1. PICK at \in [0 .. Len(list) -> Nat] : Ends(stream, list, at)
  BY DEF Carries
<1> DEFINE ends == [i \in 0 .. n - 1 |-> at[i + 1] - first]
<1>2. n \in Nat \ {0} /\ Len(others) = n - 1 /\ \A j \in 1 .. n - 1 : others[j] = list[j + 1]
  BY TailFacts
<1>3. list[1] \in Message /\ \A j \in 1 .. n : list[j] \in Message /\ Len(Encode(list[j])) \in Nat
  <2>1. \A j \in 1 .. n : list[j] \in Message
    OBVIOUS
  <2>2. \A msg \in Message : Len(Encode(msg)) \in Nat
    <3> SUFFICES ASSUME NEW msg \in Message PROVE Len(Encode(msg)) \in Nat
      OBVIOUS
    <3>1. Encode(msg) \in Seq(Token)
      BY DEF Encodes
    <3> QED BY <3>1
  <2> QED BY <1>2, <2>1, <2>2
<1> HIDE DEF others, n
<1>4. /\ at \in [0 .. n -> Nat] /\ at[0] = 0 /\ at[n] = Len(stream)
      /\ \A i \in 0 .. n, j \in 0 .. n : i <= j => at[i] <= at[j]
      /\ \A j \in 1 .. n :
           /\ at[j] = at[j - 1] + Len(Encode(list[j]))
           /\ \A i \in 1 .. Len(Encode(list[j])) : stream[at[j - 1] + i] = Encode(list[j])[i]
  BY <1>1 DEF Ends, n
<1>5. first \in Nat /\ at[1] = first /\ first <= Len(stream) /\ Len(stream) \in Nat
  <2>1. at[1] = at[0] + first /\ first \in Nat
    BY <1>2, <1>3, <1>4
  <2>2. at[1] <= at[n]
    BY <1>2, <1>4
  <2> QED BY <2>1, <2>2, <1>2, <1>4
<1>6. Begins(stream, list[1])
  <2>1. \A i \in 1 .. first : stream[at[0] + i] = Encode(list[1])[i]
    BY <1>2, <1>4, SMTT(30)
  <2>2. \A i \in 1 .. first : stream[i] = Encode(list[1])[i]
    BY <2>1, <1>4, <1>5
  <2> QED BY <2>2, <1>3, <1>5, BeginsMeans
<1> HIDE DEF first
<1>7. Len(back) = Len(stream) - first /\ \A i \in 1 .. Len(stream) - first : back[i] = stream[first + i]
  BY <1>5, Pieces
<1> HIDE DEF back
<1>8. \A j \in 1 .. n : at[j] \in Nat /\ first <= at[j] /\ at[j] <= Len(stream)
  BY <1>2, <1>4, <1>5, SMTT(30)
<1>9. ends \in [0 .. n - 1 -> Nat] /\ \A i \in 0 .. n - 1 : ends[i] = at[i + 1] - first
  BY <1>2, <1>5, <1>8
<1> HIDE DEF ends
<1>10. ends[0] = 0 /\ ends[n - 1] = Len(back)
  <2>1. 0 \in 0 .. n - 1 /\ n - 1 \in 0 .. n - 1 /\ 0 + 1 = 1 /\ (n - 1) + 1 = n
    BY <1>2
  <2>2. ends[0] = at[1] - first /\ ends[n - 1] = at[n] - first
    BY <2>1, <1>9
  <2> QED BY <2>2, <1>4, <1>5, <1>7
<1>11. \A i \in 0 .. n - 1, j \in 0 .. n - 1 : i <= j => ends[i] <= ends[j]
  <2> SUFFICES ASSUME NEW i \in 0 .. n - 1, NEW j \in 0 .. n - 1, i <= j PROVE ends[i] <= ends[j]
    OBVIOUS
  <2>1. at[i + 1] <= at[j + 1] /\ at[i + 1] \in Nat /\ at[j + 1] \in Nat
    BY <1>2, <1>4, SMTT(30)
  <2> QED BY <2>1, <1>5, <1>9
<1>12. ASSUME NEW j \in 1 .. n - 1
       PROVE  /\ ends[j] = ends[j - 1] + Len(Encode(others[j]))
              /\ \A i \in 1 .. Len(Encode(others[j])) : back[ends[j - 1] + i] = Encode(others[j])[i]
  <2> DEFINE code == Encode(list[j + 1])
  <2>1. others[j] = list[j + 1] /\ j + 1 \in 1 .. n /\ j \in 1 .. n
    BY <1>2
  <2>2. /\ at[j + 1] = at[j] + Len(code) /\ Len(code) \in Nat
        /\ \A i \in 1 .. Len(code) : stream[at[j] + i] = code[i]
    <3>1. (j + 1) - 1 = j
      BY <1>2
    <3> QED BY <3>1, <2>1, <1>3, <1>4
  <2>3. ends[j] = at[j + 1] - first /\ ends[j - 1] = at[j] - first
    BY <1>2, <1>9, SMTT(30)
  <2>4. /\ at[j] \in Nat /\ first <= at[j] /\ at[j + 1] \in Nat /\ at[j + 1] <= Len(stream)
    BY <2>1, <1>8
  <2> HIDE DEF code
  <2>5. ASSUME NEW i \in 1 .. Len(code) PROVE back[ends[j - 1] + i] = code[i]
    <3>1. ends[j - 1] + i \in 1 .. Len(stream) - first /\ first + (ends[j - 1] + i) = at[j] + i
      <4>1. at[j] + i <= at[j + 1] /\ i \in Nat \ {0}
        BY <2>2, <2>4
      <4>2. ends[j - 1] + i = (at[j] + i) - first
        BY <4>1, <2>3, <2>4, <1>5
      <4> QED BY <4>1, <4>2, <2>4, <1>5, SMTT(30)
    <3> QED BY <3>1, <2>2, <1>7
  <2>6. ends[j] = ends[j - 1] + Len(code)
    BY <2>2, <2>3, <2>4, <1>5
  <2>7. code = Encode(others[j])
    BY <2>1 DEF code
  <2> QED BY <2>5, <2>6, <2>7
<1>13. Ends(back, others, ends)
  BY <1>2, <1>9, <1>10, <1>11, <1>12 DEF Ends
<1> QED BY <1>2, <1>3, <1>6, <1>9, <1>13 DEF Carries, back, others, first

(* What is behind place k of a list, when the list grows and when the place moves on. *)
LEMMA Behind ==
    ASSUME NEW S, NEW list \in Seq(S), NEW k \in 0 .. Len(list)
    PROVE  LET back == SubSeq(list, k + 1, Len(list))
           IN  /\ back \in Seq(S)
               /\ \A e \in S : SubSeq(Append(list, e), k + 1, Len(list) + 1) = Append(back, e)
               /\ k < Len(list) => /\ back # <<>> /\ back[1] = list[k + 1]
                                   /\ SubSeq(list, k + 2, Len(list)) = Tail(back)
               /\ k = Len(list) => back = <<>>
<1> DEFINE back == SubSeq(list, k + 1, Len(list))
<1>1. Len(list) \in Nat /\ k \in Nat
  OBVIOUS
<1>2. back \in Seq(S) /\ Len(back) = Len(list) - k /\ \A i \in 1 .. Len(list) - k : back[i] = list[k + i]
  BY Pieces
<1> HIDE DEF back
<1>3. ASSUME NEW e \in S PROVE SubSeq(Append(list, e), k + 1, Len(list) + 1) = Append(back, e)
  <2> DEFINE longer == Append(list, e)
             more == SubSeq(longer, k + 1, Len(longer))
             other == Append(back, e)
  <2>1. longer \in Seq(S) /\ Len(longer) = Len(list) + 1 /\ longer[Len(list) + 1] = e
        /\ \A i \in 1 .. Len(list) : longer[i] = list[i]
    BY AppendFacts
  <2> HIDE DEF longer
  <2>2. k \in 0 .. Len(longer)
    BY <2>1, <1>1
  <2>3. /\ more \in Seq(S) /\ Len(more) = Len(longer) - k
        /\ \A i \in 1 .. Len(longer) - k : more[i] = longer[k + i]
    BY <2>1, <2>2, Pieces
  <2>4. other \in Seq(S) /\ Len(other) = (Len(list) - k) + 1 /\ other[(Len(list) - k) + 1] = e
        /\ \A i \in 1 .. Len(list) - k : other[i] = back[i]
    BY <1>2, AppendFacts
  <2> HIDE DEF more, other
  <2>5. Len(more) = Len(other) /\ \A i \in 1 .. Len(more) : more[i] = other[i]
    <3>1. Len(more) = Len(other) /\ Len(more) = (Len(list) - k) + 1
      BY <2>1, <2>3, <2>4, <1>1
    <3>2. ASSUME NEW i \in 1 .. Len(more) PROVE more[i] = other[i]
      <4>1. CASE i <= Len(list) - k
        BY <4>1, <3>1, <2>1, <2>3, <2>4, <1>1, <1>2
      <4>2. CASE i = (Len(list) - k) + 1
        BY <4>2, <3>1, <2>1, <2>3, <2>4, <1>1
      <4> QED BY <4>1, <4>2, <3>1, <1>1
    <3> QED BY <3>1, <3>2
  <2>6. more = other
    BY <2>3, <2>4, <2>5, SameList
  <2> QED BY <2>1, <2>6 DEF more, other, longer
<1>4. ASSUME k < Len(list)
      PROVE  back # <<>> /\ back[1] = list[k + 1] /\ SubSeq(list, k + 2, Len(list)) = Tail(back)
  <2>1. back # <<>> /\ back[1] = list[k + 1]
    BY <1>1, <1>2, <1>4
  <2> DEFINE more == SubSeq(list, (k + 1) + 1, Len(list))
  <2>2. k + 1 \in 0 .. Len(list)
    BY <1>1, <1>4
  <2>3. more \in Seq(S) /\ Len(more) = Len(list) - (k + 1)
        /\ \A i \in 1 .. Len(list) - (k + 1) : more[i] = list[(k + 1) + i]
    BY <2>2, Pieces
  <2> HIDE DEF more
  <2>4. Tail(back) \in Seq(S) /\ Len(Tail(back)) = Len(back) - 1
        /\ \A i \in 1 .. Len(back) - 1 : Tail(back)[i] = back[i + 1]
    BY <1>2, <2>1, TailFacts
  <2>5. Len(more) = Len(Tail(back)) /\ \A i \in 1 .. Len(more) : more[i] = Tail(back)[i]
    BY <1>1, <1>2, <1>4, <2>3, <2>4
  <2>6. more = Tail(back)
    BY <2>3, <2>4, <2>5, SameList
  <2>7. (k + 1) + 1 = k + 2
    BY <1>1
  <2> QED BY <2>1, <2>6, <2>7 DEF more
<1>5. k = Len(list) => back = <<>>
  BY <1>1, <1>2
<1> QED BY <1>2, <1>3, <1>4, <1>5 DEF back

(* The buffer has the whole of the first message that is to come, or waits for the rest of
   it, whose next token is the first to be read; with the whole gone, the others are to
   come. *)
LEMMA FirstOf ==
    ASSUME NEW buf \in Seq(Token), NEW tail \in Seq(Token), NEW list \in Seq(Message), list # <<>>,
           Encodes, Carries(buf \o tail, list)
    PROVE  LET all == Encode(list[1])
           IN  /\ list[1] \in Message
               /\ \/ Begins(buf, list[1])
                  \/ Within(buf, list[1]) /\ tail # <<>> /\ tail[1] = all[Len(buf) + 1]
               /\ Begins(buf, list[1]) => Carries(SubSeq(buf, Len(all) + 1, Len(buf)) \o tail, Tail(list))
<1> DEFINE all == Encode(list[1])
           stream == buf \o tail
           left == SubSeq(buf, Len(all) + 1, Len(buf))
<1>1. /\ stream \in Seq(Token) /\ Len(stream) = Len(buf) + Len(tail) /\ Len(buf) \in Nat /\ Len(tail) \in Nat
      /\ \A i \in 1 .. Len(buf) : stream[i] = buf[i]
      /\ \A i \in 1 .. Len(tail) : stream[Len(buf) + i] = tail[i]
  BY ConcatFacts
<1> HIDE DEF stream
<1>2. /\ list[1] \in Message /\ Begins(stream, list[1])
      /\ Carries(SubSeq(stream, Len(all) + 1, Len(stream)), Tail(list))
  BY <1>1, CarriesFirst DEF stream
<1>3. /\ Len(all) \in Nat \ {0} /\ Len(all) <= Len(stream) /\ \A i \in 1 .. Len(all) : stream[i] = all[i]
      /\ Begins(buf, list[1]) <=> Len(all) <= Len(buf) /\ \A i \in 1 .. Len(all) : buf[i] = all[i]
      /\ Within(buf, list[1]) <=> Len(buf) < Len(all) /\ \A i \in 1 .. Len(buf) : buf[i] = all[i]
  BY <1>1, <1>2, BeginsMeans
<1> HIDE DEF all
<1>4. CASE Len(all) <= Len(buf)
  <2>1. Begins(buf, list[1])
    BY <1>1, <1>3, <1>4
  <2>2. SubSeq(stream, Len(all) + 1, Len(stream)) = left \o tail
    <3> DEFINE front == SubSeq(buf, 1, Len(all))
               back == SubSeq(stream, Len(all) + 1, Len(stream))
               other == left \o tail
    <3>1. Len(all) \in 0 .. Len(buf) /\ Len(all) \in 0 .. Len(stream)
      BY <1>1, <1>3, <1>4
    <3>2. left \in Seq(Token) /\ Len(left) = Len(buf) - Len(all)
          /\ \A i \in 1 .. Len(buf) - Len(all) : left[i] = buf[Len(all) + i]
      BY <3>1, Pieces
    <3>3. back \in Seq(Token) /\ Len(back) = Len(stream) - Len(all)
          /\ \A i \in 1 .. Len(stream) - Len(all) : back[i] = stream[Len(all) + i]
      BY <3>1, <1>1, Pieces
    <3> HIDE DEF left, back
    <3>4. other \in Seq(Token) /\ Len(other) = Len(left) + Len(tail)
          /\ (\A i \in 1 .. Len(left) : other[i] = left[i])
          /\ \A i \in 1 .. Len(tail) : other[Len(left) + i] = tail[i]
      <4>1. left \in Seq(Token) /\ tail \in Seq(Token)
        BY <3>2
      <4> QED BY <4>1, ConcatFacts
    <3> HIDE DEF other
    <3>5. Len(back) = Len(other)
      BY <3>2, <3>3, <3>4, <1>1, <1>3
    <3>6. ASSUME NEW i \in 1 .. Len(back) PROVE back[i] = other[i]
      <4>1. back[i] = stream[Len(all) + i]
        BY <3>3
      <4>2. CASE i <= Len(left)
        <5>1. Len(all) + i \in 1 .. Len(buf) /\ i \in 1 .. Len(left)
          BY <4>2, <3>2, <1>1, <1>3
        <5> QED BY <5>1, <4>1, <3>2, <3>4, <1>1
      <4>3. CASE i > Len(left)
        <5> DEFINE j == i - Len(left)
        <5>1. j \in 1 .. Len(tail) /\ Len(left) + j = i /\ Len(buf) + j = Len(all) + i
          BY <4>3, <3>2, <3>4, <3>5, <1>1, <1>3
        <5> HIDE DEF j
        <5>2. other[Len(left) + j] = tail[j] /\ stream[Len(buf) + j] = tail[j]
          BY <5>1, <3>4, <1>1
        <5> QED BY <5>1, <5>2, <4>1
      <4> QED BY <4>2, <4>3, <3>2, <1>1, <1>3
    <3>7. back = other
      BY <3>3, <3>4, <3>5, <3>6, SameList
    <3> QED BY <3>7 DEF back, other
  <2> QED BY <2>1, <2>2, <1>2 DEF all
<1>5. CASE Len(buf) < Len(all)
  <2>1. Within(buf, list[1]) /\ ~Begins(buf, list[1])
    BY <1>1, <1>3, <1>5
  <2>2. 1 \in 1 .. Len(tail) /\ Len(buf) + 1 \in 1 .. Len(all)
    BY <1>1, <1>3, <1>5
  <2>3. tail[1] = all[Len(buf) + 1] /\ tail # <<>>
    BY <2>2, <1>1, <1>3
  <2> QED BY <2>1, <2>3, <1>2 DEF all
<1> QED BY <1>1, <1>3, <1>4, <1>5

Rest == SubSeq(sent, Len(delivered) + 1, Len(sent))

Ordered ==
    /\ Len(delivered) \in 0 .. Len(sent)
    /\ \A i \in 1 .. Len(delivered) : Same(sent[i], delivered[i])
    /\ connected => Carries(buffer \o wire, Rest)
    /\ dealing /\ linked => connected
    /\ socket = "up" => connected

OrderInv ==
    /\ connects = 0 => buffer = <<>> /\ ~connected /\ ~reading /\ ~dealing
    /\ connects <= 1 => Ordered

(* What is still to come. *)
LEMMA RestFacts ==
    ASSUME RoomInv, Ordered
    PROVE  /\ Len(delivered) \in Nat /\ Len(sent) \in Nat /\ Rest \in Seq(Message)
           /\ Rest = <<>> <=> Len(delivered) = Len(sent)
           /\ Rest # <<>> => /\ Rest[1] = sent[Len(delivered) + 1]
                            /\ SubSeq(sent, Len(delivered) + 2, Len(sent)) = Tail(Rest)
           /\ \A msg \in Message : SubSeq(Append(sent, msg), Len(delivered) + 1, Len(sent) + 1) = Append(Rest, msg)
<1>1. sent \in Seq(Message) /\ Len(delivered) \in 0 .. Len(sent) /\ Len(sent) \in Nat
  BY DEF RoomInv, Ordered
<1> DEFINE k == Len(delivered)
<1>2. k \in 0 .. Len(sent)
  BY <1>1
<1> HIDE DEF k
<1>3. /\ Rest \in Seq(Message)
      /\ \A e \in Message : SubSeq(Append(sent, e), k + 1, Len(sent) + 1) = Append(Rest, e)
      /\ k < Len(sent) => /\ Rest # <<>> /\ Rest[1] = sent[k + 1]
                          /\ SubSeq(sent, k + 2, Len(sent)) = Tail(Rest)
      /\ k = Len(sent) => Rest = <<>>
  BY <1>1, <1>2, Behind DEF Rest, k
<1>4. k \in Nat /\ (k < Len(sent) \/ k = Len(sent))
  BY <1>1, <1>2
<1>5. Rest = <<>> <=> k = Len(sent)
  BY <1>3, <1>4
<1> QED BY <1>1, <1>3, <1>4, <1>5 DEF k

(* One turn of the loop that delivers a message delivers the first that is to come, and
   goes on behind it. *)
LEMMA Turn ==
    ASSUME RoomInv, Ordered, InTurn, NEW closes \in BOOLEAN, Decoded(closes)
    PROVE  /\ Rest # <<>> /\ Rest[1] \in Message /\ Begins(buffer, Rest[1])
           /\ \E r \in Decode(buffer) : delivered' = Append(delivered, r.msg) /\ Same(Rest[1], r.msg)
           /\ buffer' = SubSeq(buffer, Len(Encode(Rest[1])) + 1, Len(buffer))
           /\ fresh' = (IF fresh <= Len(buffer') THEN fresh ELSE Len(buffer'))
           /\ Rest' = Tail(Rest)
           /\ Carries(buffer' \o wire', Rest')
<1>1. /\ connected /\ buffer # <<>> /\ wire' = wire /\ sent' = sent
      /\ buffer \in Seq(Token) /\ wire \in Seq(Token) /\ delivered \in Seq(Given)
  BY DEF Decoded, Ordered, RoomInv
<1>2. Rest \in Seq(Message) /\ Carries(buffer \o wire, Rest)
  BY <1>1, RestFacts DEF Ordered
<1>3. Rest # <<>>
  <2> SUFFICES ASSUME Rest = <<>> PROVE FALSE
    OBVIOUS
  <2>1. buffer \o wire \in Seq(Token) /\ Carries(buffer \o wire, <<>>)
    BY <1>1, <1>2, ConcatFacts
  <2>2. buffer \o wire = <<>>
    BY <2>1, CarriesNothing
  <2>3. Len(buffer \o wire) = Len(buffer) + Len(wire) /\ Len(buffer) \in Nat \ {0} /\ Len(wire) \in Nat
    BY <1>1, ConcatFacts
  <2>4. Len(buffer \o wire) = 0
    BY <2>2
  <2> QED BY <2>3, <2>4
<1>4. PICK r \in Decode(buffer) :
        /\ r.is = "next"
        /\ delivered' = Append(delivered, r.msg)
        /\ LET left == SubSeq(buffer, r.to + 1, Len(buffer))
           IN  /\ buffer' = IF r.skew /\ left # <<>> THEN <<Junk>> \o Tail(left) ELSE left
               /\ fresh' = (IF fresh <= Len(left) THEN fresh ELSE Len(left))
  BY DEF Decoded, Consumed
<1>5. /\ Rest[1] \in Message /\ (Begins(buffer, Rest[1]) \/ Within(buffer, Rest[1]))
      /\ Begins(buffer, Rest[1])
           => Carries(SubSeq(buffer, Len(Encode(Rest[1])) + 1, Len(buffer)) \o wire, Tail(Rest))
  BY <1>1, <1>2, <1>3, FirstOf DEF InTurn
<1>6. Begins(buffer, Rest[1])
  BY <1>1, <1>4, <1>5 DEF InTurn, Partial
<1>7. r.to = Len(Encode(Rest[1])) /\ ~r.skew /\ Same(Rest[1], r.msg)
  BY <1>1, <1>4, <1>5, <1>6 DEF InTurn, Whole
<1>8. /\ buffer' = SubSeq(buffer, Len(Encode(Rest[1])) + 1, Len(buffer))
      /\ fresh' = (IF fresh <= Len(buffer') THEN fresh ELSE Len(buffer'))
  BY <1>4, <1>7
<1>9. Rest' = Tail(Rest)
  <2>1. Len(delivered') = Len(delivered) + 1 /\ Len(delivered) \in Nat
    <3>1. r.msg \in Given
      BY <1>1 DEF Given
    <3> QED BY <3>1, <1>1, <1>4, AppendFacts
  <2>2. Rest' = SubSeq(sent, (Len(delivered) + 1) + 1, Len(sent))
    BY <1>1, <2>1 DEF Rest
  <2>3. (Len(delivered) + 1) + 1 = Len(delivered) + 2
    BY <2>1
  <2> QED BY <1>3, <2>2, <2>3, RestFacts
<1> QED BY <1>1, <1>3, <1>4, <1>5, <1>6, <1>7, <1>8, <1>9

(* A step keeps the order, if a connection begins with an empty buffer. *)
LEMMA OrderedStep ==
    ASSUME FramingAssumption, InTurn, RoomInv, Ordered, Next, Connect => buffer = <<>>
    PROVE  Ordered'
<1>1. /\ buffer \in Seq(Token) /\ wire \in Seq(Token) /\ sent \in Seq(Message) /\ delivered \in Seq(Given)
      /\ Len(delivered) \in 0 .. Len(sent) /\ Len(sent) \in Nat /\ Len(delivered) \in Nat
      /\ Rest \in Seq(Message)
  BY RestFacts DEF RoomInv, Ordered
<1>2. ASSUME NEW msg \in Message, Send(msg) PROVE Ordered'
  <2>1. /\ sent' = Append(sent, msg) /\ wire' = wire \o Encode(msg)
        /\ UNCHANGED <<connected, linked, dealing, socket, buffer, delivered>>
    BY <1>2 DEF Send, conn
  <2>2. Len(sent') = Len(sent) + 1 /\ \A i \in 1 .. Len(sent) : sent'[i] = sent[i]
    BY <1>1, <2>1, AppendFacts
  <2>3. Encode(msg) \in Seq(Token)
    BY DEF InTurn, Encodes
  <2>4. Rest' = Append(Rest, msg)
    BY <1>1, <2>1, <2>2, RestFacts DEF Rest
  <2>5. connected => Carries(buffer' \o wire', Rest')
    <3> SUFFICES ASSUME connected PROVE Carries(buffer' \o wire', Rest')
      OBVIOUS
    <3>1. Carries((buffer \o wire) \o Encode(msg), Append(Rest, msg))
      <4>1. buffer \o wire \in Seq(Token) /\ Carries(buffer \o wire, Rest)
        BY <1>1, ConcatFacts DEF Ordered
      <4> QED BY <1>1, <4>1, CarriesMore DEF InTurn
    <3>2. buffer' \o wire' = (buffer \o wire) \o Encode(msg)
      <4>1. buffer \o (wire \o Encode(msg)) = (buffer \o wire) \o Encode(msg)
        BY <1>1, <2>3, Assoc, SMTT(30)
      <4> QED BY <2>1, <4>1
    <3> QED BY <3>1, <3>2, <2>4
  <2>6. Len(delivered') \in 0 .. Len(sent') /\ \A i \in 1 .. Len(delivered') : Same(sent'[i], delivered'[i])
    BY <1>1, <2>1, <2>2 DEF Ordered
  <2> QED BY <2>1, <2>5, <2>6 DEF Ordered
<1>3. CASE PeerCloses
  <2>1. socket' = "broken" /\ UNCHANGED <<connected, linked, dealing, wire, buffer, delivered, sent>>
    BY <1>3 DEF PeerCloses
  <2>2. Rest' = Rest
    BY <2>1 DEF Rest
  <2> QED BY <2>1, <2>2 DEF Ordered
<1>4. CASE Connect
  <2>1. connected' /\ wire' = <<>> /\ buffer' = <<>> /\ sent' = <<>> /\ delivered' = <<>>
    BY <1>4 DEF Connect
  <2>2. Len(<<>>) = 0 /\ <<>> \o <<>> = <<>> /\ SubSeq(<<>>, 1, 0) = <<>>
    OBVIOUS
  <2>3. Rest' = <<>>
    <3>1. Rest' = SubSeq(<<>>, 0 + 1, 0)
      BY <2>1, <2>2 DEF Rest
    <3> QED BY <2>2, <3>1
  <2>4. Carries(buffer' \o wire', Rest')
    BY <2>1, <2>2, <2>3, CarriesNothing
  <2> QED BY <2>1, <2>2, <2>4 DEF Ordered
<1>5. CASE HandleReadError \/ DecodeIllegal \/ DecodedClosed \/ Close
  <2>1. UNCHANGED <<sent, delivered>> /\ OnPeerClose
    BY <1>5 DEF HandleReadError, DecodeIllegal, DecodedClosed, Close
  <2>2. ~connected' /\ ~dealing' /\ socket' # "up"
    BY <2>1 DEF OnPeerClose, Ordered
  <2> QED BY <2>1, <2>2 DEF Ordered
<1>6. ASSUME NEW n \in 0 .. Len(wire), NEW inside \in BOOLEAN, HandleRead(n, inside) PROVE Ordered'
  <2> DEFINE front == SubSeq(wire, 1, n)
             back == SubSeq(wire, n + 1, Len(wire))
  <2>1. /\ wire' = back /\ buffer' = buffer \o front /\ UNCHANGED <<sent, delivered>> /\ connected
    BY <1>6 DEF HandleRead, Ordered
  <2>2. buffer' \o wire' = buffer \o wire
    BY <2>1, <1>1, Pieces, ZenonT(30)
  <2>3. Rest' = Rest
    BY <2>1 DEF Rest
  <2>4. (~connected' /\ ~dealing' /\ socket' # "up") \/ UNCHANGED <<connected, linked, socket>>
    BY <1>6, <2>1 DEF HandleRead, OnPeerClose
  <2> HIDE DEF front, back
  <2> QED BY <2>1, <2>2, <2>3, <2>4 DEF Ordered
<1>7. CASE DecodeWaits
  <2>1. ~dealing' /\ UNCHANGED <<connected, linked, socket, wire, buffer, delivered, sent>>
    BY <1>7 DEF DecodeWaits, ReadOn
  <2>2. Rest' = Rest
    BY <2>1 DEF Rest
  <2> QED BY <2>1, <2>2 DEF Ordered
<1>8. ASSUME NEW closes \in BOOLEAN, Decoded(closes) PROVE Ordered'
  <2>1. /\ Rest # <<>> /\ Rest[1] \in Message /\ Carries(buffer' \o wire', Rest')
    BY <1>8, Turn
  <2>2. PICK r \in Decode(buffer) : delivered' = Append(delivered, r.msg) /\ Same(Rest[1], r.msg)
    BY <1>8, Turn
  <2>3. /\ dealing /\ linked /\ connected /\ UNCHANGED <<dealing, sent>>
        /\ (~connected' /\ ~linked' /\ socket' = "down") \/ UNCHANGED <<connected, linked, socket>>
    BY <1>8 DEF Decoded, Ordered
  <2>4. Rest[1] = sent[Len(delivered) + 1] /\ Len(delivered) # Len(sent)
    BY <2>1, RestFacts
  <2>5. Len(delivered') = Len(delivered) + 1 /\ delivered'[Len(delivered) + 1] = r.msg
        /\ \A i \in 1 .. Len(delivered) : delivered'[i] = delivered[i]
    <3>1. r.msg \in Given
      BY <1>1 DEF Given
    <3> QED BY <3>1, <1>1, <2>2, AppendFacts
  <2>6. Len(delivered') \in 0 .. Len(sent') /\ \A i \in 1 .. Len(delivered') : Same(sent'[i], delivered'[i])
    <3>1. Len(delivered') \in 0 .. Len(sent)
      BY <1>1, <2>4, <2>5
    <3>2. ASSUME NEW i \in 1 .. Len(delivered') PROVE Same(sent[i], delivered'[i])
      <4>1. CASE i <= Len(delivered)
        BY <4>1, <1>1, <2>5 DEF Ordered
      <4>2. CASE i = Len(delivered) + 1
        BY <4>2, <2>2, <2>4, <2>5
      <4> QED BY <4>1, <4>2, <1>1, <2>5
    <3> QED BY <3>1, <3>2, <2>3
  <2> QED BY <2>1, <2>3, <2>6 DEF Ordered
<1> QED
  BY <1>2, <1>3, <1>4, <1>5, <1>6, <1>7, <1>8 DEF Next, ReadCompletes, Loop, FramingAssumption

-----------------------------------------------------------------------------
(* A connection that has what it waits for in pieces, and no connection before that left a
   part of them. *)
CutInv ==
    IF wire = <<>> THEN ~part
    ELSE /\ part => \E a \in Token : CutInside(a, wire[1])
         /\ buffer # <<>> => \/ CutBetween(buffer[Len(buffer)], wire[1])
                             \/ part /\ CutInside(buffer[Len(buffer)], wire[1])

\* The buffer holds less than the message that is next to come; it is no larger than it
\* was, or than the messages that have made it grow.
Short == buffer = <<>> \/ (Rest # <<>> /\ Len(buffer) < Len(Encode(Rest[1])))
Moderate == capacity <= Capacity \/ \E msg \in Message : capacity <= 2 * (Len(Encode(msg)) - 1 + Low)

SoundInv ==
    /\ Ordered /\ ~illegal /\ fresh = Len(buffer)
    /\ dealing => connected
    /\ connected => linked /\ (reading \/ dealing) /\ CutInv
    /\ ~connected /\ ~reading => buffer = <<>>
    /\ reading /\ connected => Short
    /\ Moderate

(* A list that has something behind a place ends with what the list ends with. *)
LEMMA LastBehind ==
    ASSUME NEW S, NEW list \in Seq(S), NEW n \in Nat
    PROVE  LET left == SubSeq(list, n + 1, Len(list))
           IN  /\ left \in Seq(S) /\ Len(left) \in Nat /\ Len(left) <= Len(list)
               /\ left # <<>> => list # <<>> /\ left[Len(left)] = list[Len(list)]
<1>1. Len(list) \in Nat
  OBVIOUS
<1> DEFINE left == SubSeq(list, n + 1, Len(list))
<1>2. CASE n <= Len(list)
  <2>1. n \in 0 .. Len(list)
    BY <1>1, <1>2
  <2>2. left \in Seq(S) /\ Len(left) = Len(list) - n /\ \A i \in 1 .. Len(list) - n : left[i] = list[n + i]
    BY <2>1, Pieces
  <2> HIDE DEF left
  <2>3. ASSUME left # <<>> PROVE list # <<>> /\ left[Len(left)] = list[Len(list)]
    <3>1. Len(left) \in 1 .. Len(list) - n /\ n + Len(left) = Len(list)
      BY <2>1, <2>2, <2>3, <1>1
    <3>2. left[Len(left)] = list[n + Len(left)] /\ list # <<>>
      BY <3>1, <2>2, <1>1
    <3> QED BY <3>1, <3>2
  <2>4. Len(left) \in Nat /\ Len(left) <= Len(list)
    BY <2>1, <2>2, <1>1
  <2> QED BY <2>2, <2>3, <2>4 DEF left
<1>3. CASE n > Len(list)
  <2>1. left = <<>>
    BY <1>1, <1>3
  <2>2. Len(<<>>) = 0 /\ <<>> \in Seq(S) /\ 0 \in Nat /\ 0 <= Len(list)
    BY <1>1
  <2> HIDE DEF left
  <2> QED BY <2>1, <2>2 DEF left
<1>4. n <= Len(list) \/ n > Len(list)
  BY <1>1
<1> QED BY <1>2, <1>3, <1>4, Zenon

(* The connection begins in order. *)
LEMMA OrderInit == Init => OrderInv
<1> SUFFICES ASSUME Init PROVE OrderInv
  OBVIOUS
<1>1. ~connected /\ ~reading /\ ~dealing /\ buffer = <<>> /\ socket = "down" /\ delivered = <<>> /\ sent = <<>>
  BY DEF Init
<1>2. Len(<<>>) = 0
  OBVIOUS
<1>3. Ordered
  BY <1>1, <1>2 DEF Ordered
<1> QED BY <1>1, <1>3 DEF OrderInv

(* Every step keeps the order of what is delivered on the first connection. *)
LEMMA OrderStep == FramingAssumption /\ InTurn /\ RoomInv /\ OrderInv /\ [Next]_vars => OrderInv'
<1> SUFFICES ASSUME FramingAssumption, InTurn, RoomInv, OrderInv, [Next]_vars PROVE OrderInv'
  OBVIOUS
<1>1. connects \in Nat
  BY DEF RoomInv, FramingAssumption
<1>2. CASE UNCHANGED vars
  <2>1. OrderInv' = OrderInv
    BY <1>2 DEF vars, OrderInv, Ordered, Rest
  <2> QED BY <2>1
<1>3. CASE Connect
  <2>1. connects' = connects + 1
    BY <1>3 DEF Connect
  <2>2. connects' <= 1 => Ordered'
    <3> SUFFICES ASSUME connects' <= 1 PROVE Ordered'
      OBVIOUS
    <3>1. connects = 0
      BY <1>1, <2>1
    <3>2. Ordered /\ buffer = <<>>
      BY <3>1 DEF OrderInv
    <3>3. Next
      BY <1>3 DEF Next
    <3> QED BY <3>2, <3>3, OrderedStep
  <2> QED BY <1>1, <2>1, <2>2 DEF OrderInv
<1>4. CASE Next /\ ~Connect
  <2>1. connects' = connects
    BY <1>4 DEF Next, Send, conn, PeerCloses, HandleReadError, ReadCompletes, HandleRead, Loop, DecodeIllegal,
                DecodeWaits, DecodedClosed, Decoded, Close
  <2>2. connects' <= 1 => Ordered'
    BY <1>4, <2>1, OrderedStep DEF OrderInv
  <2>3. ASSUME connects = 0 PROVE buffer' = <<>> /\ ~connected' /\ ~reading' /\ ~dealing'
    <3>1. buffer = <<>> /\ ~connected /\ ~reading /\ ~dealing /\ socket # "up"
      BY <2>3 DEF OrderInv, Ordered
    <3> QED BY <1>4, <3>1
         DEF Next, Send, conn, PeerCloses, HandleReadError, ReadCompletes, HandleRead, Loop, DecodeIllegal,
             DecodeWaits, DecodedClosed, Decoded, Close
  <2> QED BY <2>1, <2>2, <2>3, SMTT(30) DEF OrderInv
<1> QED BY <1>2, <1>3, <1>4

(* What is delivered on a first connection is what was sent, in order. *)
LEMMA OrderMeans == RoomInv /\ OrderInv /\ connects <= 1 => InOrder
<1> SUFFICES ASSUME RoomInv, OrderInv, connects <= 1 PROVE InOrder
  OBVIOUS
<1>1. /\ Ordered /\ DOMAIN delivered = 1 .. Len(delivered) /\ DOMAIN sent = 1 .. Len(sent)
  BY DEF OrderInv, RoomInv
<1>2. Len(sent) \in Nat /\ Len(delivered) \in 0 .. Len(sent)
  BY <1>1 DEF RoomInv, Ordered
<1> QED BY <1>1, <1>2 DEF InOrder, Ordered

-----------------------------------------------------------------------------
(* The parser and a connection that has what it waits for in pieces. *)

(* What the parser says of a buffer that a connection comes to: the message that is next to
   come, or that it waits for the rest of it. *)
LEMMA Answers ==
    ASSUME InTurn, Patient, RoomInv, SoundInv, dealing, buffer # <<>> \/ part
    PROVE  /\ Rest # <<>> /\ Rest[1] \in Message /\ Encode(Rest[1]) \in Seq(Token)
           /\ \/ Begins(buffer, Rest[1]) /\ \A r \in Decode(buffer) : r.is = "next"
              \/ Within(buffer, Rest[1]) /\ \A r \in Decode(buffer) : r.is = "buf"
<1>1. connected /\ Ordered /\ CutInv /\ buffer \in Seq(Token) /\ wire \in Seq(Token) /\ part \in BOOLEAN
  BY DEF SoundInv, RoomInv
<1>2. Rest \in Seq(Message) /\ Carries(buffer \o wire, Rest)
  BY <1>1, RestFacts DEF Ordered
<1>3. Rest # <<>>
  <2> SUFFICES ASSUME Rest = <<>> PROVE FALSE
    OBVIOUS
  <2>1. buffer \o wire = <<>>
    <3>1. buffer \o wire \in Seq(Token) /\ Carries(buffer \o wire, <<>>)
      BY <1>1, <1>2, ConcatFacts
    <3> QED BY <3>1, CarriesNothing
  <2>2. Len(buffer \o wire) = Len(buffer) + Len(wire) /\ Len(buffer) \in Nat /\ Len(wire) \in Nat
    BY <1>1, ConcatFacts
  <2>3. Len(buffer) = 0 /\ Len(wire) = 0
    BY <2>1, <2>2
  <2>4. buffer = <<>> /\ wire = <<>>
    BY <1>1, <2>3
  <2> QED BY <1>1, <2>4 DEF CutInv
<1>4. /\ Rest[1] \in Message
      /\ \/ Begins(buffer, Rest[1])
         \/ Within(buffer, Rest[1]) /\ wire # <<>> /\ wire[1] = Encode(Rest[1])[Len(buffer) + 1]
  BY <1>1, <1>2, <1>3, FirstOf DEF InTurn
<1>5. Encode(Rest[1]) \in Seq(Token)
  BY <1>4 DEF InTurn, Encodes
<1>6. CASE Begins(buffer, Rest[1])
  BY <1>1, <1>3, <1>4, <1>5, <1>6 DEF InTurn, Whole
<1>7. CASE Within(buffer, Rest[1]) /\ wire # <<>> /\ wire[1] = Encode(Rest[1])[Len(buffer) + 1]
  <2>1. EndedAt(buffer, Encode(Rest[1])[Len(buffer) + 1], part)
    BY <1>1, <1>7 DEF CutInv, EndedAt
  <2> QED BY <1>1, <1>3, <1>4, <1>5, <1>7, <2>1 DEF Patient, Waits
<1> QED BY <1>4, <1>6, <1>7

(* The connection begins with nothing in pieces. *)
LEMMA SoundInit == FramingAssumption /\ Init => SoundInv
<1> SUFFICES ASSUME FramingAssumption, Init PROVE SoundInv
  OBVIOUS
<1>1. ~connected /\ ~reading /\ ~dealing /\ buffer = <<>> /\ ~illegal /\ fresh = 0 /\ capacity = Capacity /\ connects = 0
  BY DEF Init
<1>2. Ordered
  BY <1>1, OrderInit DEF OrderInv
<1>3. Moderate
  BY <1>1 DEF Moderate, FramingAssumption
<1>4. Len(<<>>) = 0
  OBVIOUS
<1> QED BY <1>1, <1>2, <1>3, <1>4 DEF SoundInv

(* Every step of a connection to a peer that sends small messages, which cuts them where the
   parser waits, and of a handler that does not close. *)
LEMMA SoundStep ==
    FramingAssumption /\ InTurn /\ Patient /\ SmallMessages /\ MayClose = FALSE /\ RoomInv /\ SoundInv /\ [Next]_vars
        => SoundInv'
<1> SUFFICES ASSUME FramingAssumption, InTurn, Patient, SmallMessages, MayClose = FALSE, RoomInv, SoundInv, [Next]_vars
             PROVE  SoundInv'
  OBVIOUS
<1>1. /\ buffer \in Seq(Token) /\ wire \in Seq(Token) /\ part \in BOOLEAN /\ Len(buffer) \in Nat /\ Len(wire) \in Nat
      /\ capacity \in Nat /\ Len(buffer) < capacity /\ Capacity <= capacity /\ Ordered /\ Rest \in Seq(Message)
      /\ Capacity \in Nat /\ Low \in Nat \ {0} /\ Low < Capacity
  <2>1. Ordered
    BY DEF SoundInv
  <2> QED BY <2>1, RestFacts DEF RoomInv, FramingAssumption
<1>2. Connect => buffer = <<>>
  BY DEF Connect, SoundInv
<1>3. Next => Ordered'
  BY <1>1, <1>2, OrderedStep
<1>4. ASSUME NEW msg \in Message, Send(msg) PROVE SoundInv'
  <2> DEFINE code == Encode(msg)
  <2>1. /\ wire' = wire \o code /\ sent' = Append(sent, msg)
        /\ UNCHANGED <<connected, linked, dealing, reading, part, buffer, capacity, delivered, fresh, illegal>>
    BY <1>4 DEF Send, conn
  <2>2. code \in Seq(Token) /\ code # <<>>
    BY DEF InTurn, Encodes
  <2>3. Rest' = Append(Rest, msg)
    <3>1. Len(sent') = Len(sent) + 1
      BY <2>1, AppendFacts DEF RoomInv
    <3> QED BY <1>1, <2>1, <3>1, RestFacts DEF Rest
  <2>4. connected => CutInv'
    <3> SUFFICES ASSUME connected PROVE CutInv'
      OBVIOUS
    <3>1. CutInv
      BY DEF SoundInv
    <3>2. wire' # <<>>
      <4>1. wire' \in Seq(Token) /\ Len(wire') = Len(wire) + Len(code) /\ Len(code) \in Nat \ {0}
        BY <1>1, <2>1, <2>2, ConcatFacts
      <4> QED BY <1>1, <4>1
    <3>3. CASE wire = <<>>
      <4>1. wire' = code
        BY <2>1, <2>2, <3>3
      <4>2. \A a \in Token : CutBetween(a, wire'[1])
        BY <4>1 DEF Patient, Fronts
      <4>3. buffer # <<>> => buffer[Len(buffer)] \in Token
        BY <1>1
      <4>4. ~part
        BY <3>1, <3>3 DEF CutInv
      <4> QED BY <2>1, <3>2, <4>2, <4>3, <4>4 DEF CutInv
    <3>4. CASE wire # <<>>
      <4>1. wire'[1] = wire[1]
        <5>1. 1 \in DOMAIN wire
          BY <1>1, <3>4
        <5> QED BY <1>1, <2>1, <2>2, <5>1, ConcatFacts
      <4> QED BY <2>1, <3>1, <3>2, <3>4, <4>1 DEF CutInv
    <3> QED BY <3>3, <3>4
  <2>5. Short => Short'
    <3> SUFFICES ASSUME Rest # <<>> PROVE Rest' # <<>> /\ Rest'[1] = Rest[1]
      BY <2>1, <2>3 DEF Short
    <3>1. 1 \in DOMAIN Rest
      BY <1>1
    <3> QED BY <1>1, <2>3, <3>1, AppendFacts
  <2>6. Moderate'
    BY <2>1 DEF SoundInv, Moderate
  <2>7. Ordered'
    BY <1>3, <1>4 DEF Next
  <2> QED BY <2>1, <2>4, <2>5, <2>6, <2>7 DEF SoundInv
<1>5. CASE PeerCloses
  <2>1. /\ UNCHANGED <<connected, linked, dealing, reading, wire, part, buffer, capacity, delivered, sent, fresh, illegal>>
    BY <1>5 DEF PeerCloses
  <2>2. CutInv' = CutInv /\ Short' = Short /\ Moderate' = Moderate
    BY <2>1 DEF CutInv, Short, Moderate, Rest
  <2>3. Ordered'
    BY <1>3, <1>5 DEF Next
  <2> QED BY <2>1, <2>2, <2>3 DEF SoundInv
<1>6. CASE Connect
  <2>1. /\ connected' /\ linked' /\ reading' /\ ~dealing' /\ wire' = <<>> /\ part' = FALSE /\ fresh' = 0
        /\ buffer' = <<>> /\ UNCHANGED <<capacity, illegal>>
    BY <1>2, <1>6 DEF Connect
  <2>2. CutInv' /\ Short'
    BY <2>1 DEF CutInv, Short
  <2>3. Moderate'
    BY <2>1 DEF SoundInv, Moderate
  <2>4. Ordered'
    BY <1>3, <1>6 DEF Next
  <2>5. Len(<<>>) = 0
    OBVIOUS
  <2> QED BY <2>1, <2>2, <2>3, <2>4, <2>5 DEF SoundInv
<1>7. CASE HandleReadError
  <2>1. ~connected' /\ ~dealing' /\ ~reading' /\ buffer' = <<>> /\ fresh' = 0 /\ UNCHANGED <<capacity, illegal>>
    BY <1>7 DEF HandleReadError, OnPeerClose
  <2>2. Moderate'
    BY <2>1 DEF SoundInv, Moderate
  <2>3. Ordered'
    BY <1>3, <1>7 DEF Next
  <2>4. Len(<<>>) = 0
    OBVIOUS
  <2> QED BY <2>1, <2>2, <2>3, <2>4 DEF SoundInv
<1>8. ASSUME NEW n \in 0 .. Len(wire), NEW inside \in BOOLEAN, HandleRead(n, inside) PROVE SoundInv'
  <2> DEFINE front == SubSeq(wire, 1, n)
             back == SubSeq(wire, n + 1, Len(wire))
  <2>1. /\ front \in Seq(Token) /\ Len(front) = n /\ back \in Seq(Token) /\ Len(back) = Len(wire) - n
        /\ \A i \in 1 .. n : front[i] = wire[i]
        /\ \A i \in 1 .. Len(wire) - n : back[i] = wire[n + i]
    BY <1>1, Pieces, SMTT(30)
  <2>2. /\ wire' = back /\ buffer' = buffer \o front /\ fresh' = fresh + n /\ ~reading' /\ part' = inside
        /\ n <= capacity - Len(buffer) - 1 /\ socket = "up" /\ reading /\ UNCHANGED <<capacity, illegal>>
        /\ MayEnd(n, inside) /\ (n = 0 => ~part)
    BY <1>8 DEF HandleRead, MayEnd, Free
  <2>3. connected /\ linked /\ ~illegal /\ fresh = Len(buffer) /\ CutInv /\ Moderate
    BY <2>2 DEF SoundInv, Ordered
  <2> HIDE DEF front, back
  <2>4. /\ buffer' \in Seq(Token) /\ Len(buffer') = Len(buffer) + n
        /\ \A i \in 1 .. n : buffer'[Len(buffer) + i] = wire[i]
    <3>1. front \in Seq(Token) /\ DOMAIN front = 1 .. n
      BY <2>1
    <3>2. /\ buffer \o front \in Seq(Token) /\ Len(buffer \o front) = Len(buffer) + Len(front)
          /\ \A i \in DOMAIN front : (buffer \o front)[Len(buffer) + i] = front[i]
      BY <1>1, <3>1, ConcatFacts
    <3> QED BY <2>1, <2>2, <3>1, <3>2
  <2>5. Len(buffer') <= MaxPacket
    <3>1. Len(buffer') <= capacity - 1
      BY <1>1, <2>2, <2>4
    <3>2. capacity - 1 <= MaxPacket
      <4>1. CASE capacity <= Capacity
        BY <4>1, <1>1 DEF SmallMessages, FramingAssumption
      <4>2. ASSUME NEW msg \in Message, capacity <= 2 * (Len(Encode(msg)) - 1 + Low) PROVE capacity - 1 <= MaxPacket
        <5>1. Len(Encode(msg)) \in Nat
          <6>1. Encode(msg) \in Seq(Token)
            BY DEF InTurn, Encodes
          <6> QED BY <6>1
        <5>2. 2 * (Len(Encode(msg)) - 1 + Low) - 1 <= MaxPacket
          BY DEF SmallMessages
        <5> QED BY <4>2, <5>1, <5>2, <1>1 DEF FramingAssumption
      <4> QED BY <4>1, <4>2, <2>3 DEF Moderate
    <3>3. MaxPacket \in Nat /\ Len(buffer') \in Nat
      BY <1>1, <2>1, <2>4 DEF FramingAssumption
    <3> QED BY <1>1, <3>1, <3>2, <3>3
  <2>6. dealing' /\ UNCHANGED <<connected, linked, socket>>
    <3>1. ~(Len(buffer') > MaxPacket)
      BY <1>1, <2>1, <2>4, <2>5 DEF FramingAssumption
    <3> QED BY <1>8, <3>1 DEF HandleRead
  <2>7. CutInv'
    <3>1. CASE n = 0
      <4>1. CASE Len(wire) = 0
        <5>1. wire' = <<>> /\ ~part'
          BY <1>1, <2>1, <2>2, <3>1, <4>1 DEF MayEnd
        <5> QED BY <5>1 DEF CutInv
      <4>2. CASE Len(wire) > 0
        <5>1. wire' # <<>> /\ wire'[1] = wire[1] /\ wire # <<>>
          <6>1. 1 \in 1 .. Len(wire) - n /\ n + 1 = 1
            BY <1>1, <3>1, <4>2
          <6> QED BY <6>1, <1>1, <2>1, <2>2, <4>2
        <5>2. buffer' = buffer
          <6>1. Len(buffer') = Len(buffer)
            BY <1>1, <2>4, <3>1
          <6>2. \A i \in 1 .. Len(buffer) : buffer'[i] = buffer[i]
            BY <1>1, <2>1, <2>2, ConcatFacts
          <6> QED BY <6>1, <6>2, <1>1, <2>4, SameList
        <5>3. buffer # <<>> => CutBetween(buffer[Len(buffer)], wire[1])
          BY <2>2, <2>3, <3>1, <5>1 DEF CutInv
        <5>4. inside => CutInside(Junk, wire[1])
          <6>1. 0 + 1 = 1
            OBVIOUS
          <6> QED BY <2>2, <3>1, <6>1 DEF MayEnd
        <5>5. Junk \in Token
          BY DEF Token
        <5> QED BY <2>2, <5>1, <5>2, <5>3, <5>4, <5>5 DEF CutInv
      <4> QED BY <1>1, <4>1, <4>2
    <3>2. CASE n # 0 /\ n = Len(wire)
      <4>1. wire' = <<>> /\ ~part'
        BY <1>1, <2>1, <2>2, <3>2 DEF MayEnd
      <4> QED BY <4>1 DEF CutInv
    <3>3. CASE n # 0 /\ n # Len(wire)
      <4>1. n \in 1 .. Len(wire) - 1
        BY <1>1, <3>3
      <4>2. wire' # <<>> /\ wire'[1] = wire[n + 1]
        <5>1. 1 \in 1 .. Len(wire) - n
          BY <1>1, <4>1
        <5> QED BY <5>1, <1>1, <2>1, <2>2, <4>1
      <4>3. buffer'[Len(buffer')] = wire[n] /\ wire[n] \in Token
        BY <1>1, <2>4, <4>1
      <4>4. IF inside THEN CutInside(wire[n], wire[n + 1]) ELSE CutBetween(wire[n], wire[n + 1])
        BY <1>1, <2>2, <4>1 DEF MayEnd
      <4> QED BY <2>2, <4>2, <4>3, <4>4 DEF CutInv
    <3> QED BY <3>1, <3>2, <3>3
  <2>8. fresh' = Len(buffer')
    BY <2>2, <2>3, <2>4
  <2>9. Moderate'
    BY <2>2, <2>3 DEF Moderate
  <2>10. Ordered'
    BY <1>3, <1>8 DEF Next, ReadCompletes
  <2> QED BY <2>2, <2>3, <2>6, <2>7, <2>8, <2>9, <2>10 DEF SoundInv
<1>9. ~DecodeIllegal
  <2> SUFFICES ASSUME DecodeIllegal PROVE FALSE
    OBVIOUS
  <2>1. dealing /\ (buffer # <<>> \/ part) /\ \E r \in Decode(buffer) : r.is \in {"NULL", "beyond"}
    BY DEF DecodeIllegal
  <2>2. \A r \in Decode(buffer) : r.is = "next" \/ r.is = "buf"
    BY <2>1, Answers
  <2> QED BY <2>1, <2>2
<1>10. CASE DecodeWaits
  <2>1. /\ dealing /\ ~dealing' /\ reading' = connected
        /\ capacity' = IF capacity - Len(buffer) <= Low THEN 2 * capacity ELSE capacity
        /\ UNCHANGED <<connected, linked, wire, part, buffer, delivered, sent, fresh, illegal>>
        /\ (buffer = <<>> /\ ~part) \/ \E r \in Decode(buffer) : r.is = "buf"
    BY <1>10 DEF DecodeWaits, ReadOn
  <2>2. connected /\ linked /\ ~illegal /\ fresh = Len(buffer) /\ CutInv /\ Moderate
    BY <2>1 DEF SoundInv
  <2>3. Short
    <3> SUFFICES ASSUME buffer # <<>> PROVE Rest # <<>> /\ Len(buffer) < Len(Encode(Rest[1]))
      BY DEF Short
    <3>1. /\ Rest # <<>>
          /\ \/ \A r \in Decode(buffer) : r.is = "next"
             \/ Within(buffer, Rest[1])
      BY <2>1, Answers
    <3>2. Within(buffer, Rest[1])
      BY <2>1, <3>1
    <3> QED BY <3>1, <3>2 DEF Within
  <2>4. Short' /\ CutInv'
    <3>1. Short' = Short /\ CutInv' = CutInv
      BY <2>1 DEF Short, CutInv, Rest
    <3> QED BY <2>2, <2>3, <3>1
  <2>5. Moderate'
    <3>1. CASE capacity - Len(buffer) <= Low
      <4>1. buffer # <<>>
        <5> SUFFICES ASSUME buffer = <<>> PROVE FALSE
          OBVIOUS
        <5>1. Len(buffer) = 0
          OBVIOUS
        <5> QED BY <5>1, <3>1, <1>1
      <4>2. Rest # <<>> /\ Len(buffer) < Len(Encode(Rest[1])) /\ Rest[1] \in Message /\ Len(Encode(Rest[1])) \in Nat
        <5>1. Rest[1] \in Message /\ Encode(Rest[1]) \in Seq(Token)
          BY <2>1, <4>1, Answers
        <5>2. Len(Encode(Rest[1])) \in Nat
          BY <5>1
        <5> QED BY <2>3, <4>1, <5>1, <5>2 DEF Short
      <4>3. capacity' <= 2 * (Len(Encode(Rest[1])) - 1 + Low)
        <5> DEFINE m == Len(Encode(Rest[1]))
        <5>1. m \in Nat /\ Len(buffer) <= m - 1
          BY <4>2, <1>1
        <5> HIDE DEF m
        <5>2. capacity <= (m - 1) + Low
          BY <5>1, <3>1, <1>1
        <5>3. capacity' = 2 * capacity
          BY <2>1, <3>1
        <5> QED BY <5>1, <5>2, <5>3, <1>1 DEF m
      <4> QED BY <4>2, <4>3 DEF Moderate
    <3>2. CASE ~(capacity - Len(buffer) <= Low)
      BY <2>1, <2>2, <3>2 DEF Moderate
    <3> QED BY <3>1, <3>2
  <2>6. Ordered'
    BY <1>3, <1>10 DEF Next, Loop
  <2> QED BY <2>1, <2>2, <2>4, <2>5, <2>6 DEF SoundInv
<1>11. ~DecodedClosed
  BY DEF DecodedClosed, SoundInv
<1>12. ASSUME Decoded(FALSE) PROVE SoundInv'
  <2>1. /\ Rest # <<>> /\ Rest[1] \in Message /\ fresh' = (IF fresh <= Len(buffer') THEN fresh ELSE Len(buffer'))
        /\ buffer' = SubSeq(buffer, Len(Encode(Rest[1])) + 1, Len(buffer))
    BY <1>1, <1>12, Turn
  <2>2. dealing /\ UNCHANGED <<connected, linked, dealing, reading, wire, part, capacity, illegal>>
    BY <1>12 DEF Decoded
  <2>3. connected /\ linked /\ ~illegal /\ fresh = Len(buffer) /\ CutInv /\ Moderate /\ ~reading
    BY <2>2 DEF SoundInv, RoomInv
  <2>4. Len(Encode(Rest[1])) \in Nat
    <3>1. Encode(Rest[1]) \in Seq(Token)
      BY <2>1 DEF InTurn, Encodes
    <3> QED BY <3>1
  <2>5. /\ Len(buffer') \in Nat /\ Len(buffer') <= Len(buffer)
        /\ buffer' # <<>> => buffer # <<>> /\ buffer'[Len(buffer')] = buffer[Len(buffer)]
    BY <1>1, <2>1, <2>4, LastBehind
  <2>6. fresh' = Len(buffer')
    <3>1. (IF fresh <= Len(buffer') THEN fresh ELSE Len(buffer')) = IF fresh <= Len(buffer') THEN fresh ELSE Len(buffer')
      BY <1>1, <2>3, <2>5
    <3> QED BY <1>1, <2>1, <2>3, <2>5, <3>1
  <2>7. CutInv'
    BY <2>2, <2>3, <2>5 DEF CutInv
  <2>8. Moderate'
    BY <2>2, <2>3 DEF Moderate
  <2>9. Ordered'
    BY <1>3, <1>12 DEF Next, Loop
  <2> QED BY <2>2, <2>3, <2>6, <2>7, <2>8, <2>9 DEF SoundInv
<1>13. CASE Close
  <2>1. ~connected' /\ ~dealing' /\ connected /\ ~dealing /\ UNCHANGED <<reading, buffer, capacity, fresh, illegal>>
    BY <1>13 DEF Close, OnPeerClose
  <2>2. reading /\ ~illegal /\ fresh = Len(buffer) /\ Moderate
    BY <2>1 DEF SoundInv
  <2>3. Moderate'
    BY <2>1, <2>2 DEF Moderate
  <2>4. Ordered'
    BY <1>3, <1>13 DEF Next
  <2> QED BY <2>1, <2>2, <2>3, <2>4 DEF SoundInv
<1>14. CASE UNCHANGED vars
  <2>1. SoundInv' = SoundInv
    BY <1>14, SMTT(30) DEF vars, SoundInv, Ordered, CutInv, Short, Moderate, Rest
  <2> QED BY <2>1
<1> QED
  BY <1>4, <1>5, <1>6, <1>7, <1>8, <1>9, <1>10, <1>11, <1>12, <1>13, <1>14
     DEF Next, ReadCompletes, Loop

(* A connection that keeps to it is what its properties say. *)
LEMMA SoundMeans == InTurn /\ RoomInv /\ SoundInv => NeverIllegal /\ NothingWithheld /\ NoStaleBytes /\ InOrder
<1> SUFFICES ASSUME InTurn, RoomInv, SoundInv PROVE NeverIllegal /\ NothingWithheld /\ NoStaleBytes /\ InOrder
  OBVIOUS
<1>1. /\ Ordered /\ ~illegal /\ fresh = Len(buffer) /\ buffer \in Seq(Token) /\ Len(buffer) \in Nat
      /\ DOMAIN delivered = 1 .. Len(delivered) /\ DOMAIN sent = 1 .. Len(sent)
      /\ Len(sent) \in Nat /\ Len(delivered) \in 0 .. Len(sent) /\ Rest \in Seq(Message)
  <2>1. Ordered /\ ~illegal /\ fresh = Len(buffer)
    BY DEF SoundInv
  <2>2. buffer \in Seq(Token) /\ sent \in Seq(Message) /\ delivered \in Seq(Given)
    BY DEF RoomInv
  <2> QED BY <2>1, <2>2, RestFacts DEF Ordered
<1>2. InOrder
  BY <1>1, SMTT(30) DEF InOrder, Ordered
<1>3. ASSUME reading, connected, wire = <<>>, ~part PROVE Len(delivered) = Len(sent)
  <2>1. Carries(buffer, Rest)
    <3>1. buffer \o <<>> = buffer
      BY <1>1
    <3> QED BY <1>1, <1>3, <3>1 DEF Ordered
  <2>2. Short
    BY <1>3 DEF SoundInv
  <2>3. Rest = <<>>
    <3> SUFFICES ASSUME Rest # <<>> PROVE FALSE
      OBVIOUS
    <3>1. Rest[1] \in Message /\ Begins(buffer, Rest[1])
      BY <1>1, <2>1, CarriesFirst DEF InTurn
    <3>2. Len(Encode(Rest[1])) \in Nat \ {0} /\ Len(Encode(Rest[1])) <= Len(buffer)
      BY <1>1, <3>1, BeginsMeans DEF InTurn
    <3>3. Len(buffer) < Len(Encode(Rest[1]))
      <4>1. CASE buffer = <<>>
        <5>1. Len(buffer) = 0
          BY <4>1
        <5> QED BY <5>1, <3>2
      <4> QED BY <4>1, <2>2 DEF Short
    <3> QED BY <1>1, <3>2, <3>3
  <2> QED BY <1>1, <2>3, RestFacts
<1> QED BY <1>1, <1>2, <1>3 DEF NeverIllegal, NothingWithheld, NoStaleBytes

(* A buffer with a place is what the reading side says of it. *)
LEMMA RoomMeans == RoomInv => TypeOK /\ Room
BY DEF RoomInv, TypeOK, Room

(* CConnection, with any parser that takes messages in turn, reads that end anywhere, packets
   that are too big and a handler that closes: a read has a place to go, and the messages of a
   first connection are delivered in their order. *)
THEOREM InTurnDelivered ==
    ASSUME FramingAssumption, InTurn
    PROVE  Spec => [](TypeOK /\ Room /\ (connects <= 1 => InOrder))
<1>1. Init => RoomInv /\ OrderInv
  BY RoomInit, OrderInit
<1>2. RoomInv /\ OrderInv /\ [Next]_vars => RoomInv' /\ OrderInv'
  BY RoomStep, OrderStep DEF InTurn
<1>3. RoomInv /\ OrderInv => TypeOK /\ Room /\ (connects <= 1 => InOrder)
  BY RoomMeans, OrderMeans
<1> QED BY <1>1, <1>2, <1>3, PTL DEF Spec

(* CConnection, with any parser that also waits wherever a read may end, messages that fit and
   a handler that does not close: on every connection each message is delivered whole and in its
   order, none is withheld, none is closed as illegal, and no bytes of an old one are read. *)
THEOREM PatientDelivered ==
    ASSUME FramingAssumption, InTurn, Patient, SmallMessages, MayClose = FALSE
    PROVE  Spec => [](TypeOK /\ Room /\ NoStaleBytes /\ NeverIllegal /\ NothingWithheld /\ InOrder)
<1>1. Init => RoomInv /\ SoundInv
  BY RoomInit, SoundInit
<1>2. RoomInv /\ SoundInv /\ [Next]_vars => RoomInv' /\ SoundInv'
  BY RoomStep, SoundStep DEF InTurn
<1>3. RoomInv /\ SoundInv => TypeOK /\ Room /\ NoStaleBytes /\ NeverIllegal /\ NothingWithheld /\ InOrder
  BY RoomMeans, SoundMeans
<1> QED BY <1>1, <1>2, <1>3, PTL DEF Spec

-----------------------------------------------------------------------------
(* The writing side. *)

Write == [moved : Nat, len : Nat, sent : Nat, at : {"new", "waiting", "posted", "done"},
          err : BOOLEAN, block : {"none", "storage", "heap"}, conn : Nat]

-----------------------------------------------------------------------------
(* What a connection carries. *)

(* Carried goes from write to write. *)
LEMMA CarriedSteps ==
    ASSUME NEW all \in Seq(Write), NEW c
    PROVE  /\ Carried(all, c) \in [0 .. Len(all) -> Seq(Nat)]
           /\ Carried(all, c)[0] = <<>>
           /\ \A k \in 1 .. Len(all) :
                Carried(all, c)[k] = IF all[k].conn = c THEN Carried(all, c)[k - 1] \o Upto(all[k].len)
                                     ELSE Carried(all, c)[k - 1]
<1> DEFINE n == Len(all)
           More(k, s) == IF all[k].conn = c THEN s \o Upto(all[k].len) ELSE s
           step == [p \in Nat \X Seq(Nat) |-> IF p[1] + 1 \in 1 .. n THEN More(p[1] + 1, p[2]) ELSE p[2]]
<1>1. n \in Nat /\ \A k \in 1 .. n : all[k] \in Write
  OBVIOUS
<1>2. \A k \in 1 .. n : all[k].len \in Nat
  BY <1>1 DEF Write
<1> HIDE DEF n
<1>3. ASSUME NEW k \in 1 .. n, NEW s \in Seq(Nat) PROVE More(k, s) \in Seq(Nat)
  <2>1. Upto(all[k].len) \in Seq(Nat)
    BY <1>2 DEF Upto
  <2> QED BY <2>1, ConcatFacts
<1> HIDE DEF More
<1>4. step \in [Nat \X Seq(Nat) -> Seq(Nat)]
  <2>1. ASSUME NEW p \in Nat \X Seq(Nat)
        PROVE  (IF p[1] + 1 \in 1 .. n THEN More(p[1] + 1, p[2]) ELSE p[2]) \in Seq(Nat)
    <3>1. p[2] \in Seq(Nat)
      BY <2>1
    <3> QED BY <3>1, <1>3
  <2> QED BY <2>1
<1> HIDE DEF step
<1>5. PICK f : RecursUpto(f, n, Seq(Nat), <<>>, step)
  <2>1. <<>> \in Seq(Nat)
    OBVIOUS
  <2> QED BY <2>1, <1>1, <1>4, RecursionUpto
<1>6. f \in [0 .. n -> Seq(Nat)] /\ f[0] = <<>>
  BY <1>5 DEF RecursUpto
<1>7. ASSUME NEW k \in 0 .. n, k # 0 PROVE f[k] = More(k, f[k - 1])
  <2>1. k - 1 \in Nat /\ k - 1 \in 0 .. n /\ k - 1 \in 0 .. n - 1 /\ (k - 1) + 1 = k /\ k \in 1 .. n
    BY <1>7, <1>1
  <2>2. f[k - 1] \in Seq(Nat)
    BY <2>1, <1>6, Zenon
  <2>3. f[(k - 1) + 1] = step[<<k - 1, f[k - 1]>>]
    BY <1>5, <2>1 DEF RecursUpto
  <2>4. <<k - 1, f[k - 1]>> \in Nat \X Seq(Nat)
    BY <2>1, <2>2
  <2>5. step[<<k - 1, f[k - 1]>>] = More((k - 1) + 1, f[k - 1])
    BY <2>1, <2>4 DEF step
  <2> QED BY <2>1, <2>3, <2>5
<1> DEFINE Defines(g) == g = [k \in 0 .. n |-> IF k = 0 THEN <<>> ELSE IF all[k].conn = c
                                             THEN g[k - 1] \o Upto(all[k].len) ELSE g[k - 1]]
<1>8. Defines(f)
  BY <1>6, <1>7 DEF More
<1>9. Carried(all, c) = CHOOSE g : Defines(g)
  BY DEF Carried, n
<1>10. Defines(Carried(all, c))
  BY <1>8, <1>9, Zenon
<1> DEFINE g == Carried(all, c)
<1> HIDE DEF g
<1>11. Defines(g)
  BY <1>10 DEF g
<1>12. /\ DOMAIN g = 0 .. n /\ g = [k \in 0 .. n |-> g[k]] /\ g[0] = <<>>
       /\ \A k \in 1 .. n : g[k] = IF all[k].conn = c THEN g[k - 1] \o Upto(all[k].len) ELSE g[k - 1]
  BY <1>11, <1>1, SMTT(30)
<1>13. \A k \in 0 .. n : g[k] \in Seq(Nat)
  <2> DEFINE T == {k \in 0 .. n : g[k] \in Seq(Nat)}
  <2>1. 0 \in T
    <3>1. <<>> \in Seq(Nat) /\ 0 \in 0 .. n
      BY <1>1
    <3> QED BY <3>1, <1>12
  <2>2. ASSUME NEW k \in 0 .. n - 1, k \in T PROVE k + 1 \in T
    <3>1. k + 1 \in 1 .. n /\ (k + 1) - 1 = k
      BY <1>1
    <3>2. g[k + 1] = More(k + 1, g[k])
      BY <1>12, <3>1 DEF More
    <3> QED BY <3>1, <3>2, <2>2, <1>3
  <2> HIDE DEF T
  <2>3. 0 .. n \subseteq T
    BY <2>1, <2>2, <1>1, InductUpto
  <2> QED BY <2>3 DEF T
<1> QED BY <1>12, <1>13 DEF g, n

(* What is carried of the first writes depends on these alone. *)
LEMMA CarriedSame ==
    ASSUME NEW all \in Seq(Write), NEW more \in Seq(Write), NEW c, Len(all) <= Len(more),
           \A k \in 1 .. Len(all) : all[k].conn = more[k].conn /\ all[k].len = more[k].len
    PROVE  \A k \in 0 .. Len(all) : Carried(all, c)[k] = Carried(more, c)[k]
<1> DEFINE T == {k \in 0 .. Len(all) : Carried(all, c)[k] = Carried(more, c)[k]}
<1>1. Len(all) \in Nat /\ Len(more) \in Nat
  OBVIOUS
<1>2. 0 \in T
  BY <1>1, CarriedSteps
<1>3. ASSUME NEW k \in 0 .. Len(all) - 1, k \in T PROVE k + 1 \in T
  <2>1. k + 1 \in 1 .. Len(all) /\ k + 1 \in 1 .. Len(more) /\ (k + 1) - 1 = k
    BY <1>1
  <2>2. Carried(all, c)[k + 1] = IF all[k + 1].conn = c THEN Carried(all, c)[k] \o Upto(all[k + 1].len)
                                 ELSE Carried(all, c)[k]
    BY <2>1, CarriedSteps
  <2>3. Carried(more, c)[k + 1] = IF more[k + 1].conn = c THEN Carried(more, c)[k] \o Upto(more[k + 1].len)
                                 ELSE Carried(more, c)[k]
    BY <2>1, CarriedSteps
  <2> QED BY <2>1, <2>2, <2>3, <1>3
<1> HIDE DEF T
<1>4. 0 .. Len(all) \subseteq T
  BY <1>1, <1>2, <1>3, InductUpto
<1> QED BY <1>4 DEF T

(* A connection without a write carries nothing. *)
LEMMA CarriedNone ==
    ASSUME NEW all \in Seq(Write), NEW c, \A k \in 1 .. Len(all) : all[k].conn # c
    PROVE  Carried(all, c)[Len(all)] = <<>>
<1> DEFINE T == {k \in 0 .. Len(all) : Carried(all, c)[k] = <<>>}
<1>1. Len(all) \in Nat
  OBVIOUS
<1>2. 0 \in T
  BY <1>1, CarriedSteps
<1>3. ASSUME NEW k \in 0 .. Len(all) - 1, k \in T PROVE k + 1 \in T
  <2>1. k + 1 \in 1 .. Len(all) /\ (k + 1) - 1 = k
    BY <1>1
  <2>2. Carried(all, c)[k + 1] = Carried(all, c)[k]
    BY <2>1, CarriedSteps
  <2> QED BY <2>1, <2>2, <1>3
<1> HIDE DEF T
<1>4. 0 .. Len(all) \subseteq T
  BY <1>1, <1>2, <1>3, InductUpto
<1> QED BY <1>1, <1>4 DEF T

(* The beginning of a message is one of the whole message. *)
LEMMA PrefixUpto ==
    ASSUME NEW s \in Seq(Nat), NEW m \in Nat, NEW n \in Nat, m <= n
    PROVE  PartOf(s \o Upto(m), s \o Upto(n)) /\ PartOf(s, s)
<1>1. /\ Upto(m) \in Seq(Nat) /\ Len(Upto(m)) = m /\ \A i \in 1 .. m : Upto(m)[i] = i
      /\ Upto(n) \in Seq(Nat) /\ Len(Upto(n)) = n /\ \A i \in 1 .. n : Upto(n)[i] = i
  BY DEF Upto
<1> DEFINE a == s \o Upto(m)
           b == s \o Upto(n)
<1>2. /\ Len(s) \in Nat /\ a \in Seq(Nat) /\ b \in Seq(Nat)
      /\ Len(a) = Len(s) + m /\ Len(b) = Len(s) + n
      /\ \A i \in 1 .. Len(s) + m : a[i] = b[i]
  <2>1. /\ a \in Seq(Nat) /\ b \in Seq(Nat) /\ Len(s) \in Nat /\ DOMAIN s = 1 .. Len(s)
        /\ Len(a) = Len(s) + m /\ Len(b) = Len(s) + n
    <3>1. Len(s) \in Nat /\ DOMAIN s = 1 .. Len(s)
      OBVIOUS
    <3>2. a \in Seq(Nat) /\ Len(a) = Len(s) + m
      BY <1>1
    <3>3. b \in Seq(Nat) /\ Len(b) = Len(s) + n
      BY <1>1, SMTT(30)
    <3> QED BY <3>1, <3>2, <3>3
  <2>2. ASSUME NEW i \in 1 .. Len(s) + m PROVE a[i] = b[i]
    <3>1. CASE i \in 1 .. Len(s)
      BY <3>1, <2>1, <1>1, ConcatFacts
    <3>2. CASE i \notin 1 .. Len(s)
      <4>1. i - Len(s) \in 1 .. m /\ i - Len(s) \in 1 .. n
        BY <3>2, <2>1
      <4>2. a[i] = Upto(m)[i - Len(s)]
        BY <3>2, <2>1, <1>1
      <4>3. b[i] = Upto(n)[i - Len(s)]
        BY <3>2, <2>1, <1>1
      <4> QED BY <4>1, <4>2, <4>3, <1>1
    <3> QED BY <3>1, <3>2
  <2> QED BY <2>1, <2>2
<1> HIDE DEF a, b
<1>3. PartOf(a, b)
  BY <1>2 DEF PartOf
<1>4. PartOf(s, s)
  BY DEF PartOf
<1> QED BY <1>3, <1>4 DEF a, b

(* A message in two parts. *)
LEMMA UptoMore ==
    ASSUME NEW s \in Seq(Nat), NEW m \in Nat, NEW k \in Nat
    PROVE  (s \o Upto(m)) \o [j \in 1 .. k |-> m + j] = s \o Upto(m + k)
BY DEF Upto

-----------------------------------------------------------------------------
(* The state. *)

WriteTypes ==
  /\ writable \in BOOLEAN /\ close_after_write \in BOOLEAN /\ in_use \in BOOLEAN
  /\ room \in Nat /\ moved \in Nat /\ requested \in Nat /\ closedby \in Nat
  /\ writebuf \in Seq(Nat) /\ reactor \in Seq(Nat) /\ posted \in Seq(Nat) /\ told \in Seq(Nat)
  /\ ops \in Seq(Write) /\ kernel \in Seq(Seq(Nat)) /\ Conn >= 1
  /\ dial \in {"none", "resolving", "connecting", "posted"}

(* writebuf_ is never reset: it holds every message in order, and write number i
   was told the length of the first i. *)
Numbered(all) ==
  /\ Len(all) <= MaxWrites
  /\ \A i \in DOMAIN all :
       all[i].len = i /\ all[i].sent <= i /\ all[i].conn \in 1 .. Conn
Buffered ==
  /\ Len(writebuf) = Len(ops) /\ \A j \in DOMAIN writebuf : writebuf[j] = j
  /\ Numbered(ops) /\ \A i \in DOMAIN ops : ops[i].at # "new"

(* The writes, those in S apart, are in the list that at says. *)
Lists(all, waits, ready, S) ==
  /\ Distinct(waits) /\ Distinct(ready)
  /\ \A p \in DOMAIN waits : waits[p] \in DOMAIN all \ S
  /\ \A p \in DOMAIN ready : ready[p] \in (DOMAIN all \ S) \cup {Resolved, Connected}
  /\ \A i \in DOMAIN all \ S :
       (all[i].at = "waiting" <=> Holds(waits, i)) /\ (all[i].at = "posted" <=> Holds(ready, i))
Queued == Lists(ops, reactor, posted, {})

(* The block of the allocator has one owner among the writes. *)
Owned(all, used, S) ==
  \A i, j \in DOMAIN all \ S :
    /\ all[i].at # "done" /\ all[i].block = "storage" => used
    /\ all[i].at # "done" /\ all[i].block = "storage" /\ all[j].at # "done" /\ all[j].block = "storage" => i = j

(* A write that has nothing left to do but to tell of its end. *)
Settled(op) == op.err \/ op.sent = op.len

(* A dial goes through the loop twice. The writes of the connection that is gone are
   behind the first handler only if they are settled, and all of them are in front of the
   second. *)
Dialled(all, ready, d) ==
  /\ d = "posted" <=> Holds(ready, Resolved) \/ Holds(ready, Connected)
  /\ \A p, q \in DOMAIN ready : ready[p] = Resolved /\ p < q => ready[q] \in DOMAIN all /\ Settled(all[ready[q]])
  /\ d = "connecting" \/ Holds(ready, Connected) => \A p \in DOMAIN ready : ready[p] \in DOMAIN all => Settled(all[ready[p]])
  /\ \A p \in DOMAIN ready : ready[p] = Connected => p = Len(ready)
Spared ==
  /\ writable => dial = "none" /\ \A i \in DOMAIN ops : ops[i].at # "done" => ops[i].conn = Conn
  /\ ~writable => reactor = <<>>
  /\ Dialled(ops, posted, dial)

SafeInv == WriteTypes /\ Buffered /\ Queued /\ Owned(ops, in_use, {}) /\ Spared /\ ToldOnce

(* When writes do not overlap: only the last of them is under way, and points to where
   writebuf_ is; a connection carries the writes before it in full and what was sent of it;
   and it ends behind the write that asked for it. *)
Mine == Len(ops) > 0 /\ ops[Len(ops)].conn = Conn
OneAtATime == \A i \in DOMAIN ops : ops[i].at # "done" => i = Len(ops) /\ ops[i].moved = moved
WireSound ==
  /\ \A c \in 1 .. Conn - 1 : PartOf(kernel[c], Carried(ops, c)[Len(ops)])
  /\ Mine => kernel[Conn] = Carried(ops, Conn)[Len(ops) - 1] \o Upto(ops[Len(ops)].sent)
  /\ ~Mine => kernel[Conn] = Carried(ops, Conn)[Len(ops)]
EndSound ==
  /\ writable /\ Mine /\ ops[Len(ops)].at = "done" => ops[Len(ops)].sent = Len(ops)
  /\ writable => closedby = 0
  /\ writable /\ Mine => requested = IF close_after_write THEN Len(ops) ELSE 0
  /\ closedby # 0 => Mine /\ closedby = Len(ops) /\ requested = Len(ops) /\ ops[Len(ops)].sent = Len(ops)
Turns == OneAtATime /\ WireSound /\ EndSound
QuietInv == ~Overlap => Turns

-----------------------------------------------------------------------------
(* A step of a write. *)

(* What async_write_some does with write i of all: its handler is allocated, and it fails,
   waits, or sends k tokens. *)
Effect(i, all, used, rest, k) ==
  \E op \in Write :
    /\ ops' = [all EXCEPT ![i] = op]
    /\ op.len = all[i].len /\ op.conn = all[i].conn /\ op.moved = all[i].moved /\ op.block = allocate(used)
    /\ in_use' = (used \/ op.block = "storage")
    /\ \/ /\ ~writable /\ op.at = "posted" /\ op.err /\ op.sent = all[i].sent
          /\ posted' = Append(rest, i) /\ reactor' = reactor /\ kernel' = kernel
       \/ /\ writable /\ op.at = "waiting" /\ op.err = all[i].err /\ op.sent = all[i].sent
          /\ posted' = rest /\ reactor' = Append(reactor, i) /\ kernel' = kernel
       \/ /\ writable /\ op.at = "posted" /\ op.err = all[i].err /\ op.sent = all[i].sent + k
          /\ k \in 1 .. op.len - all[i].sent
          /\ posted' = Append(rest, i) /\ reactor' = reactor
          /\ kernel' = [kernel EXCEPT ![Conn] = @ \o Tokens(all[i], k)]

(* async_write_some has such an effect. *)
LEMMA WriteSomeEffect ==
    ASSUME NEW all \in Seq(Write), NEW i \in DOMAIN all, NEW used \in BOOLEAN, NEW rest, NEW k \in Nat,
           writable \in BOOLEAN, WriteSome(i, all, used, rest, k)
    PROVE  Effect(i, all, used, rest, k)
<1> DEFINE block == allocate(used)
           op == [all[i] EXCEPT !.block = block]
<1>1. all[i] \in Write
  OBVIOUS
<1>2. block \in {"storage", "heap"}
  BY DEF allocate
<1>3. /\ op \in Write /\ op.len = all[i].len /\ op.conn = all[i].conn /\ op.moved = all[i].moved
      /\ op.block = block /\ op.err = all[i].err /\ op.sent = all[i].sent
  BY <1>1, <1>2 DEF Write
<1>4. Tokens(op, k) = Tokens(all[i], k)
  BY <1>3 DEF Tokens
<1>5. in_use' = (used \/ block = "storage")
  BY DEF WriteSome
<1>6. CASE ~writable
  <2> DEFINE new == [op EXCEPT !.at = "posted", !.err = TRUE]
  <2>1. /\ posted' = Append(rest, i) /\ reactor' = reactor /\ kernel' = kernel
        /\ ops' = [all EXCEPT ![i] = new]
    BY <1>6 DEF WriteSome
  <2>2. /\ new \in Write /\ new.len = op.len /\ new.conn = op.conn /\ new.moved = op.moved
        /\ new.block = op.block /\ new.sent = op.sent /\ new.at = "posted" /\ new.err
    <3> HIDE DEF op
    <3> QED BY <1>3 DEF Write
  <2> HIDE DEF new, op, block
  <2> QED BY <1>3, <1>5, <1>6, <2>1, <2>2 DEF Effect, block
<1>7. CASE writable /\ (k = 0 \/ reactor # <<>>)
  <2> DEFINE new == [op EXCEPT !.at = "waiting"]
  <2>1. /\ posted' = rest /\ reactor' = Append(reactor, i) /\ kernel' = kernel
        /\ ops' = [all EXCEPT ![i] = new]
    BY <1>7 DEF WriteSome
  <2>2. /\ new \in Write /\ new.len = op.len /\ new.conn = op.conn /\ new.moved = op.moved
        /\ new.block = op.block /\ new.sent = op.sent /\ new.at = "waiting" /\ new.err = op.err
    <3> HIDE DEF op
    <3> QED BY <1>3 DEF Write
  <2> HIDE DEF new, op, block
  <2> QED BY <1>3, <1>5, <1>7, <2>1, <2>2 DEF Effect, block
<1>8. CASE writable /\ ~(k = 0 \/ reactor # <<>>)
  <2> DEFINE new == [op EXCEPT !.at = "posted", !.sent = @ + k]
  <2>1. /\ posted' = Append(rest, i) /\ reactor' = reactor
        /\ ops' = [all EXCEPT ![i] = new] /\ k <= op.len - op.sent
        /\ kernel' = [kernel EXCEPT ![Conn] = @ \o Tokens(op, k)]
    BY <1>8 DEF WriteSome
  <2>2. /\ new \in Write /\ new.len = op.len /\ new.conn = op.conn /\ new.moved = op.moved
        /\ new.block = op.block /\ new.sent = op.sent + k /\ new.at = "posted" /\ new.err = op.err
    <3> HIDE DEF op
    <3>0. op.sent \in Nat
      BY <1>3 DEF Write
    <3>1. op.sent + k \in Nat
      BY <3>0
    <3> QED BY <1>3, <3>1 DEF Write
  <2>3. k \in 1 .. new.len - all[i].sent
    <3> HIDE DEF new, op
    <3> QED BY <1>1, <1>3, <1>8, <2>1, <2>2 DEF Write
  <2> HIDE DEF new, op, block
  <2> QED BY <1>3, <1>4, <1>5, <1>8, <2>1, <2>2, <2>3 DEF Effect, block
<1> QED BY <1>6, <1>7, <1>8

(* A write joins the list of those that wait, or of those whose handlers are ready. *)
LEMMA ListsJoin ==
    ASSUME NEW all \in Seq(Write), NEW i \in DOMAIN all, NEW op \in Write,
           NEW waits \in Seq(Nat), NEW ready \in Seq(Nat), Lists(all, waits, ready, {i}),
           WriteBufferAssumption, Len(all) <= MaxWrites
    PROVE  /\ op.at = "waiting" => Lists([all EXCEPT ![i] = op], Append(waits, i), ready, {})
           /\ op.at = "posted" => Lists([all EXCEPT ![i] = op], waits, Append(ready, i), {})
<1> DEFINE new == [all EXCEPT ![i] = op]
<1>1. /\ DOMAIN all \subseteq Nat /\ i \in Nat /\ DOMAIN new = DOMAIN all /\ new[i] = op
      /\ \A j \in DOMAIN all : j # i => new[j] = all[j]
  OBVIOUS
<1>2. i \notin {Resolved, Connected}
  <2>1. MaxWrites \in Nat /\ i <= Len(all) /\ Len(all) \in Nat
    BY DEF WriteBufferAssumption
  <2> QED BY <2>1, <1>1 DEF Resolved, Connected
<1>20. ASSUME NEW j \in DOMAIN all, j # i
       PROVE  (all[j].at = "waiting" <=> Holds(waits, j)) /\ (all[j].at = "posted" <=> Holds(ready, j))
  <2>1. j \in DOMAIN all \ {i}
    BY <1>20
  <2>2. all[j].at = "waiting" <=> Holds(waits, j)
    BY <2>1 DEF Lists
  <2>3. all[j].at = "posted" <=> Holds(ready, j)
    BY <2>1 DEF Lists
  <2> QED BY <2>2, <2>3
<1>3. ~Holds(waits, i) /\ ~Holds(ready, i)
  BY <1>2 DEF Lists, Holds
<1> HIDE DEF new
<1>4. ASSUME op.at = "waiting" PROVE Lists(new, Append(waits, i), ready, {})
  <2>1. Distinct(Append(waits, i)) /\ \A x : Holds(Append(waits, i), x) <=> Holds(waits, x) \/ x = i
    BY <1>1, <1>3, HoldsAppend DEF Lists
  <2>2. \A p \in DOMAIN Append(waits, i) : Append(waits, i)[p] \in DOMAIN new
    BY <1>1, AppendFacts DEF Lists
  <2>3. \A j \in DOMAIN new : new[j].at = "waiting" <=> Holds(Append(waits, i), j)
    <3>1. ASSUME NEW j \in DOMAIN new PROVE new[j].at = "waiting" <=> Holds(Append(waits, i), j)
      <4>1. CASE j = i
        BY <4>1, <1>1, <1>4, <2>1
      <4>2. CASE j # i
        <5>1. j \in DOMAIN all /\ new[j] = all[j]
          BY <4>2, <1>1
        <5>2. all[j].at = "waiting" <=> Holds(waits, j)
          BY <4>2, <5>1, <1>20
        <5>3. Holds(Append(waits, i), j) <=> Holds(waits, j)
          BY <4>2, <2>1
        <5> QED BY <5>1, <5>2, <5>3
      <4> QED BY <4>1, <4>2
    <3> QED BY <3>1
  <2>4. \A j \in DOMAIN new : new[j].at = "posted" <=> Holds(ready, j)
    <3>1. ASSUME NEW j \in DOMAIN new PROVE new[j].at = "posted" <=> Holds(ready, j)
      <4>1. CASE j = i
        BY <4>1, <1>1, <1>3, <1>4
      <4>2. CASE j # i
        <5>1. j \in DOMAIN all /\ new[j] = all[j]
          BY <4>2, <1>1
        <5>2. all[j].at = "posted" <=> Holds(ready, j)
          BY <4>2, <5>1, <1>20
        <5> QED BY <5>1, <5>2
      <4> QED BY <4>1, <4>2
    <3> QED BY <3>1
  <2> QED BY <1>1, <2>1, <2>2, <2>3, <2>4 DEF Lists
<1>5. ASSUME op.at = "posted" PROVE Lists(new, waits, Append(ready, i), {})
  <2>1. Distinct(Append(ready, i)) /\ \A x : Holds(Append(ready, i), x) <=> Holds(ready, x) \/ x = i
    BY <1>1, <1>3, HoldsAppend DEF Lists
  <2>2. \A p \in DOMAIN Append(ready, i) : Append(ready, i)[p] \in DOMAIN new \cup {Resolved, Connected}
    BY <1>1, AppendFacts DEF Lists
  <2>3. \A j \in DOMAIN new : new[j].at = "posted" <=> Holds(Append(ready, i), j)
    <3>1. ASSUME NEW j \in DOMAIN new PROVE new[j].at = "posted" <=> Holds(Append(ready, i), j)
      <4>1. CASE j = i
        BY <4>1, <1>1, <1>5, <2>1
      <4>2. CASE j # i
        <5>1. j \in DOMAIN all /\ new[j] = all[j]
          BY <4>2, <1>1
        <5>2. all[j].at = "posted" <=> Holds(ready, j)
          BY <4>2, <5>1, <1>20
        <5>3. Holds(Append(ready, i), j) <=> Holds(ready, j)
          BY <4>2, <2>1
        <5> QED BY <5>1, <5>2, <5>3
      <4> QED BY <4>1, <4>2
    <3> QED BY <3>1
  <2>4. \A j \in DOMAIN new : new[j].at = "waiting" <=> Holds(waits, j)
    <3>1. ASSUME NEW j \in DOMAIN new PROVE new[j].at = "waiting" <=> Holds(waits, j)
      <4>1. CASE j = i
        BY <4>1, <1>1, <1>3, <1>5
      <4>2. CASE j # i
        <5>1. j \in DOMAIN all /\ new[j] = all[j]
          BY <4>2, <1>1
        <5>2. all[j].at = "waiting" <=> Holds(waits, j)
          BY <4>2, <5>1, <1>20
        <5> QED BY <5>1, <5>2
      <4> QED BY <4>1, <4>2
    <3> QED BY <3>1
  <2> QED BY <1>1, <2>1, <2>2, <2>3, <2>4 DEF Lists
<1> QED BY <1>4, <1>5 DEF new

(* The first of a list is taken out of it. *)
LEMMA ListsTake ==
    ASSUME NEW all \in Seq(Write), NEW waits \in Seq(Nat), NEW ready \in Seq(Nat), Lists(all, waits, ready, {})
    PROVE  /\ waits # <<>> => /\ Head(waits) \in DOMAIN all /\ all[Head(waits)].at = "waiting"
                             /\ Lists(all, Tail(waits), ready, {Head(waits)})
           /\ ready # <<>> /\ Head(ready) \in DOMAIN all =>
                /\ all[Head(ready)].at = "posted"
                /\ ~Holds(Tail(ready), Head(ready))
                /\ Lists(all, waits, Tail(ready), {Head(ready)})
           /\ ready # <<>> /\ Head(ready) \notin DOMAIN all => Lists(all, waits, Tail(ready), {})
<1>1. ASSUME waits # <<>>
      PROVE  /\ Head(waits) \in DOMAIN all /\ all[Head(waits)].at = "waiting"
             /\ Lists(all, Tail(waits), ready, {Head(waits)})
  <2> DEFINE i == Head(waits)
  <2>1. /\ Distinct(Tail(waits)) /\ Holds(waits, i)
        /\ \A x : Holds(Tail(waits), x) <=> Holds(waits, x) /\ x # i
    BY <1>1, HoldsTail DEF Lists
  <2>2. i \in DOMAIN all /\ all[i].at = "waiting"
    <3>1. 1 \in DOMAIN waits /\ waits[1] = i
      BY <1>1, TailFacts
    <3>2. i \in DOMAIN all
      BY <3>1 DEF Lists
    <3> QED BY <3>2, <2>1 DEF Lists
  <2> HIDE DEF i
  <2>3. \A p \in DOMAIN Tail(waits) : Tail(waits)[p] \in DOMAIN all \ {i}
    BY <2>1, <1>1 DEF Lists, Holds
  <2>4. \A p \in DOMAIN ready : ready[p] \in (DOMAIN all \ {i}) \cup {Resolved, Connected}
    BY <2>2 DEF Lists, Holds
  <2>5. Lists(all, Tail(waits), ready, {i})
    BY <2>1, <2>3, <2>4 DEF Lists
  <2> QED BY <2>2, <2>5 DEF i
<1>2. ASSUME ready # <<>>, Head(ready) \in DOMAIN all
      PROVE  /\ all[Head(ready)].at = "posted" /\ ~Holds(Tail(ready), Head(ready))
             /\ Lists(all, waits, Tail(ready), {Head(ready)})
  <2> DEFINE i == Head(ready)
  <2>1. /\ Distinct(Tail(ready)) /\ Holds(ready, i)
        /\ \A x : Holds(Tail(ready), x) <=> Holds(ready, x) /\ x # i
    BY <1>2, HoldsTail DEF Lists
  <2>2. i \in DOMAIN all /\ all[i].at = "posted"
    BY <1>2, <2>1 DEF Lists
  <2> HIDE DEF i
  <2>3. \A p \in DOMAIN Tail(ready) : Tail(ready)[p] \in (DOMAIN all \ {i}) \cup {Resolved, Connected}
    BY <2>1, <1>2, ZenonT(30) DEF Lists, Holds
  <2>4. \A p \in DOMAIN waits : waits[p] \in DOMAIN all \ {i}
    <3>1. ~Holds(waits, i)
      BY <2>2 DEF Lists
    <3>2. \A p \in DOMAIN waits : waits[p] \in DOMAIN all
      BY DEF Lists
    <3> QED BY <3>1, <3>2 DEF Holds
  <2>5. Lists(all, waits, Tail(ready), {i})
    BY <2>1, <2>3, <2>4 DEF Lists
  <2> QED BY <2>1, <2>2, <2>5 DEF i
<1>3. ASSUME ready # <<>>, Head(ready) \notin DOMAIN all PROVE Lists(all, waits, Tail(ready), {})
  <2>1. /\ Distinct(Tail(ready))
        /\ \A x : Holds(Tail(ready), x) <=> Holds(ready, x) /\ x # Head(ready)
    BY <1>3, HoldsTail DEF Lists
  <2>3. \A p \in DOMAIN Tail(ready) : Tail(ready)[p] \in DOMAIN all \cup {Resolved, Connected}
    BY <2>1, <1>3 DEF Lists, Holds
  <2> QED BY <2>1, <2>3, <1>3 DEF Lists
<1> QED BY <1>1, <1>2, <1>3

(* allocate gives the block away only when nobody has it. *)
LEMMA OwnedJoin ==
    ASSUME NEW all \in Seq(Write), NEW i \in DOMAIN all, NEW op \in Write, NEW used \in BOOLEAN,
           Owned(all, used, {i}), op.block = allocate(used)
    PROVE  Owned([all EXCEPT ![i] = op], used \/ op.block = "storage", {})
<1> DEFINE new == [all EXCEPT ![i] = op]
<1>1. DOMAIN new = DOMAIN all /\ new[i] = op /\ \A j \in DOMAIN all : j # i => new[j] = all[j]
  OBVIOUS
<1>2. op.block = "storage" => ~used
  BY DEF allocate
<1> HIDE DEF new
<1>3. ASSUME NEW j \in DOMAIN new, new[j].at # "done", new[j].block = "storage", j # i PROVE used
  BY <1>1, <1>3 DEF Owned
<1>4. ASSUME NEW j \in DOMAIN new, NEW h \in DOMAIN new,
             new[j].at # "done", new[j].block = "storage", new[h].at # "done", new[h].block = "storage"
      PROVE  j = h
  <2>1. CASE j = i \/ h = i
    BY <2>1, <1>1, <1>2, <1>3, <1>4
  <2>2. CASE j # i /\ h # i
    BY <2>2, <1>1, <1>4 DEF Owned
  <2> QED BY <2>1, <2>2
<1>5. ASSUME NEW j \in DOMAIN new, new[j].at # "done", new[j].block = "storage" PROVE used \/ op.block = "storage"
  BY <1>1, <1>3, <1>5
<1> QED BY <1>4, <1>5 DEF Owned, new

(* deallocate takes the block back only from the handler that has it. *)
LEMMA OwnedTake ==
    ASSUME NEW all \in Seq(Write), NEW i \in DOMAIN all, in_use \in BOOLEAN,
           Owned(all, in_use, {}), all[i].at # "done"
    PROVE  Owned(all, deallocate(all[i]), {i}) /\ deallocate(all[i]) \in BOOLEAN
BY DEF Owned, deallocate

(* What a step of write i leaves as it has to be. *)
LEMMA EffectSafe ==
    ASSUME WriteTypes, WriteBufferAssumption,
           NEW all \in Seq(Write), NEW i \in DOMAIN all, NEW used \in BOOLEAN, NEW rest \in Seq(Nat), NEW k \in Nat,
           Numbered(all), Lists(all, reactor, rest, {i}), Owned(all, used, {i}),
           \A j \in DOMAIN all : j # i => all[j].at # "new",
           writebuf' \in Seq(Nat), Len(writebuf') = Len(all), Effect(i, all, used, rest, k)
    PROVE  /\ ops' \in Seq(Write) /\ Len(ops') = Len(all) /\ DOMAIN ops' = DOMAIN all
           /\ reactor' \in Seq(Nat) /\ posted' \in Seq(Nat) /\ in_use' \in BOOLEAN
           /\ kernel' \in Seq(Seq(Nat)) /\ Conn' = Conn
           /\ Numbered(ops)' /\ Queued' /\ Owned(ops, in_use, {})'
           /\ \A j \in DOMAIN ops' : ops'[j].at # "new"
<1>1. PICK op \in Write :
        /\ ops' = [all EXCEPT ![i] = op]
        /\ op.len = all[i].len /\ op.conn = all[i].conn /\ op.moved = all[i].moved /\ op.block = allocate(used)
        /\ in_use' = (used \/ op.block = "storage")
        /\ \/ /\ ~writable /\ op.at = "posted" /\ op.err /\ op.sent = all[i].sent
              /\ posted' = Append(rest, i) /\ reactor' = reactor /\ kernel' = kernel
           \/ /\ writable /\ op.at = "waiting" /\ op.err = all[i].err /\ op.sent = all[i].sent
              /\ posted' = rest /\ reactor' = Append(reactor, i) /\ kernel' = kernel
           \/ /\ writable /\ op.at = "posted" /\ op.err = all[i].err /\ op.sent = all[i].sent + k
              /\ k \in 1 .. op.len - all[i].sent
              /\ posted' = Append(rest, i) /\ reactor' = reactor
              /\ kernel' = [kernel EXCEPT ![Conn] = @ \o Tokens(all[i], k)]
  BY DEF Effect
<1>2. /\ ops' \in Seq(Write) /\ Len(ops') = Len(all) /\ DOMAIN ops' = DOMAIN all
      /\ ops'[i] = op /\ \A j \in DOMAIN all : j # i => ops'[j] = all[j]
  BY <1>1
<1>3. /\ i \in Nat /\ i <= Len(all) /\ all[i] \in Write
      /\ reactor \in Seq(Nat) /\ kernel \in Seq(Seq(Nat)) /\ Conn \in Nat /\ Conn >= 1 /\ writable \in BOOLEAN
  BY SMTT(30) DEF WriteTypes, Conn
<1>30. /\ posted' \in {rest, Append(rest, i)} /\ reactor' \in {reactor, Append(reactor, i)}
       /\ op.len = all[i].len /\ all[i].sent \in Nat /\ all[i].len = i /\ all[i].sent <= i /\ Len(all) \in Nat
  <2>1. posted' \in {rest, Append(rest, i)} /\ reactor' \in {reactor, Append(reactor, i)}
    BY <1>1, Zenon
  <2>2. op.len = all[i].len
    BY <1>1
  <2>3. all[i].sent \in Nat /\ all[i].len = i /\ all[i].sent <= i /\ Len(all) \in Nat
    BY <1>3 DEF Write, Numbered
  <2> QED BY <2>1, <2>2, <2>3
<1>4. reactor' \in Seq(Nat) /\ posted' \in Seq(Nat)
  <2>1. Append(rest, i) \in Seq(Nat) /\ Append(reactor, i) \in Seq(Nat)
    BY <1>3, AppendFacts
  <2> QED BY <2>1, <1>3, <1>30
<1>5. in_use' \in BOOLEAN
  BY <1>1
<1>6. kernel' \in Seq(Seq(Nat)) /\ Len(kernel') = Len(kernel)
  <2>1. CASE kernel' = kernel
    BY <2>1, <1>3
  <2>2. CASE k \in 1 .. op.len - all[i].sent /\ kernel' = [kernel EXCEPT ![Conn] = @ \o Tokens(all[i], k)]
    <3>2. ASSUME NEW j \in 1 .. k PROVE writebuf'[all[i].sent + j] \in Nat
      <4>1. all[i].sent + j \in 1 .. Len(writebuf')
        <5>1. k <= i - all[i].sent /\ k \in Nat /\ j \in Nat /\ 1 <= j /\ j <= k
          BY <2>2, <1>30
        <5> HIDE <2>2
        <5> QED BY <5>1, <1>3, <1>30, SMTT(30)
      <4> QED BY <4>1
    <3>3. Tokens(all[i], k) \in Seq(Nat)
      <4>1. k \in Nat /\ \A j \in 1 .. k : (IF all[i].moved = moved' THEN writebuf'[all[i].sent + j] ELSE Freed) \in Nat
        BY <3>2 DEF Freed
      <4>2. Tokens(all[i], k) = [j \in 1 .. k |-> IF all[i].moved = moved' THEN writebuf'[all[i].sent + j] ELSE Freed]
        BY DEF Tokens
      <4> QED BY <4>1, <4>2
    <3>4. Conn \in DOMAIN kernel /\ kernel[Conn] \in Seq(Nat)
      BY <1>3 DEF Conn
    <3>5. kernel[Conn] \o Tokens(all[i], k) \in Seq(Nat)
      BY <3>3, <3>4, ConcatFacts
    <3> QED BY <3>4, <3>5, <2>2, <1>3, SMTT(30)
  <2> QED BY <2>1, <2>2, <1>1
<1>7. Numbered(ops)'
  <2>1. op.sent <= i
    <3>1. CASE op.sent = all[i].sent
      BY <3>1, <1>30
    <3>2. CASE op.sent = all[i].sent + k /\ k \in 1 .. op.len - all[i].sent
      BY <3>2, <1>3, <1>30, SMTT(30)
    <3> QED BY <3>1, <3>2, <1>1
  <2> QED BY <2>1, <1>1, <1>2, <1>6 DEF Numbered, Conn
<1>8. Queued'
  <2>1. /\ op.at = "waiting" => Lists(ops', Append(reactor, i), rest, {})
        /\ op.at = "posted" => Lists(ops', reactor, Append(rest, i), {})
    BY <1>1, <1>3, ListsJoin DEF Numbered
  <2> QED BY <2>1, <1>1 DEF Queued
<1>9. Owned(ops, in_use, {})'
  <2>1. Owned(ops', in_use', {})
    BY <1>1, OwnedJoin
  <2> QED BY <2>1 DEF Owned
<1>10. \A j \in DOMAIN ops' : ops'[j].at # "new"
  BY <1>1, <1>2
<1> QED BY <1>2, <1>4, <1>5, <1>6, <1>7, <1>8, <1>9, <1>10 DEF Conn

-----------------------------------------------------------------------------
(* The actions. *)

(* AsyncWrite keeps the invariant. *)
LEMMA AsyncWriteSafe ==
    ASSUME WriteBufferAssumption, SafeInv, NEW close \in BOOLEAN, NEW k \in Takes, AsyncWrite(close, k)
    PROVE  SafeInv'
<1> DEFINE n == Len(ops) + 1
           op == [moved |-> moved', len |-> Len(writebuf'), sent |-> 0, at |-> "new", err |-> FALSE,
                  block |-> "none", conn |-> Conn]
           all == Append(ops, op)
<1>1. /\ writable /\ Len(ops) < MaxWrites /\ EncodeNext(n) /\ close_after_write' = close
      /\ requested' = (IF close THEN n ELSE 0)
      /\ WriteSome(n, all, in_use, posted, k) /\ UNCHANGED <<writable, dial, told, closedby>>
  BY DEF AsyncWrite, Start
<1>2. /\ ops \in Seq(Write) /\ Len(ops) \in Nat /\ n \in Nat /\ Conn \in Nat /\ Conn >= 1 /\ k \in Nat
      /\ writebuf \in Seq(Nat) /\ room \in Nat /\ moved \in Nat /\ Len(writebuf) = Len(ops)
      /\ reactor \in Seq(Nat) /\ posted \in Seq(Nat) /\ in_use \in BOOLEAN
  BY DEF SafeInv, WriteTypes, Buffered, Conn, Takes
<1>3. /\ writebuf' = Append(writebuf, n) /\ writebuf' \in Seq(Nat) /\ Len(writebuf') = n
      /\ \A j \in DOMAIN writebuf' : writebuf'[j] = j
  <2>1. writebuf' = Append(writebuf, n)
    BY <1>1 DEF EncodeNext
  <2>2. \A j \in DOMAIN writebuf : writebuf[j] = j
    BY DEF SafeInv, Buffered
  <2> QED BY <2>1, <2>2, <1>2
<1>4. room' \in Nat /\ moved' \in Nat
  BY <1>1, <1>2, SMTT(30) DEF EncodeNext
<1>5. op \in Write
  BY <1>2, <1>3, <1>4 DEF Write
<1>6. op.len = n /\ op.sent = 0 /\ op.conn = Conn
  BY <1>3
<1> HIDE DEF op
<1>7. /\ all \in Seq(Write) /\ Len(all) = n /\ DOMAIN all = 1 .. n /\ DOMAIN ops = 1 .. Len(ops)
      /\ all[n] = op /\ \A j \in DOMAIN ops : all[j] = ops[j]
  BY <1>2, <1>5, AppendFacts
<1> HIDE DEF all
<1>8. n \in DOMAIN all /\ \A j \in DOMAIN all : j # n => j \in DOMAIN ops /\ all[j] = ops[j]
  <2>1. n \in DOMAIN all
    BY <1>2, <1>7
  <2>2. ASSUME NEW j \in DOMAIN all, j # n PROVE j \in DOMAIN ops
    BY <2>2, <1>2, <1>7
  <2> QED BY <2>1, <2>2, <1>7
<1>9. Effect(n, all, in_use, posted, k)
  <2>1. writable \in BOOLEAN
    BY DEF SafeInv, WriteTypes
  <2> HIDE DEF n
  <2> QED BY <2>1, <1>1, <1>2, <1>7, <1>8, WriteSomeEffect
<1>10. Numbered(all)
  <2>1. Len(all) <= MaxWrites
    BY <1>1, <1>2, <1>7 DEF WriteBufferAssumption
  <2>2. ASSUME NEW j \in DOMAIN all
        PROVE  all[j].len = j /\ all[j].sent <= j /\ all[j].conn \in 1 .. Conn
    <3>1. CASE j = n
      BY <3>1, <1>2, <1>6, <1>7
    <3>2. CASE j # n
      BY <3>2, <1>8 DEF SafeInv, Buffered, Numbered
    <3> QED BY <3>1, <3>2
  <2> QED BY <2>1, <2>2 DEF Numbered
<1>11. Lists(all, reactor, posted, {n})
  <2>1. DOMAIN all \ {n} = DOMAIN ops
    BY <1>2, <1>7
  <2>2. Lists(ops, reactor, posted, {})
    BY DEF SafeInv, Queued
  <2>3. /\ Distinct(reactor) /\ Distinct(posted)
        /\ \A p \in DOMAIN reactor : reactor[p] \in DOMAIN ops
        /\ \A p \in DOMAIN posted : posted[p] \in DOMAIN ops \cup {Resolved, Connected}
    BY <2>2 DEF Lists
  <2>4. ASSUME NEW j \in DOMAIN ops PROVE all[j].at = "waiting" <=> Holds(reactor, j)
    BY <2>2, <1>7 DEF Lists
  <2>5. ASSUME NEW j \in DOMAIN ops PROVE all[j].at = "posted" <=> Holds(posted, j)
    BY <2>2, <1>7 DEF Lists
  <2> HIDE DEF n
  <2> QED BY <2>1, <2>3, <2>4, <2>5 DEF Lists
<1>12. Owned(all, in_use, {n})
  <2>1. DOMAIN all \ {n} = DOMAIN ops
    BY <1>2, <1>7
  <2> HIDE DEF n
  <2> QED BY <2>1, <1>7 DEF SafeInv, Owned
<1>13. \A j \in DOMAIN all : j # n => all[j].at # "new"
  BY <1>8 DEF SafeInv, Buffered
<1>14. WriteTypes
  BY DEF SafeInv
<1>15. /\ ops' \in Seq(Write) /\ Len(ops') = n /\ DOMAIN ops' = DOMAIN all
       /\ reactor' \in Seq(Nat) /\ posted' \in Seq(Nat) /\ in_use' \in BOOLEAN
       /\ kernel' \in Seq(Seq(Nat)) /\ Conn' = Conn
       /\ Numbered(ops)' /\ Queued' /\ Owned(ops, in_use, {})'
       /\ \A j \in DOMAIN ops' : ops'[j].at # "new"
  <2> HIDE DEF n
  <2>1. /\ k \in Nat /\ in_use \in BOOLEAN /\ posted \in Seq(Nat) /\ writebuf' \in Seq(Nat)
        /\ Len(writebuf') = Len(all) /\ all \in Seq(Write) /\ n \in DOMAIN all /\ Len(all) = n
    BY <1>2, <1>3, <1>7, <1>8
  <2>2. /\ ops' \in Seq(Write) /\ Len(ops') = Len(all) /\ DOMAIN ops' = DOMAIN all
        /\ reactor' \in Seq(Nat) /\ posted' \in Seq(Nat) /\ in_use' \in BOOLEAN
        /\ kernel' \in Seq(Seq(Nat)) /\ Conn' = Conn
        /\ Numbered(ops)' /\ Queued' /\ Owned(ops, in_use, {})'
        /\ \A j \in DOMAIN ops' : ops'[j].at # "new"
    BY <2>1, <1>9, <1>10, <1>11, <1>12, <1>13, <1>14, EffectSafe
  <2> QED BY <2>1, <2>2
<1>16. WriteTypes'
  BY <1>1, <1>2, <1>3, <1>4, <1>15 DEF SafeInv, WriteTypes
<1>17. Buffered'
  BY <1>3, <1>15 DEF Buffered
<1>18. Spared'
  <2>1. PICK new \in Write :
          /\ ops' = [all EXCEPT ![n] = new] /\ new.conn = op.conn
          /\ posted' \in {posted, Append(posted, n)}
    BY <1>1, <1>7, <1>9 DEF Effect
  <2>2. \A j \in DOMAIN ops' : ops'[j].conn = all[j].conn /\ (j # n => ops'[j] = all[j])
    BY <2>1, <1>7, <1>8, <1>15
  <2>3. \A j \in DOMAIN ops' : ops'[j].at # "done" => ops'[j].conn = Conn'
    <3>1. /\ DOMAIN ops' = DOMAIN all /\ Conn' = Conn
          /\ \A j \in DOMAIN ops : ops[j].at # "done" => ops[j].conn = Conn
      BY <1>1, <1>15 DEF SafeInv, Spared
    <3>2. ASSUME NEW j \in DOMAIN ops', j # n, ops'[j].at # "done" PROVE ops'[j].conn = Conn
      <4>1. j \in DOMAIN ops /\ ops'[j] = ops[j]
        BY <3>1, <3>2, <2>2, <1>8
      <4> QED BY <4>1, <3>1, <3>2
    <3>3. ops'[n].conn = Conn
      BY <3>1, <2>2, <1>6, <1>7, <1>8
    <3> QED BY <3>1, <3>2, <3>3
  <2>4. dial = "none" /\ ~Holds(posted, Resolved) /\ ~Holds(posted, Connected)
    BY <1>1 DEF SafeInv, Spared, Dialled
  <2>5. n \notin {Resolved, Connected}
    BY <1>1, <1>2 DEF Resolved, Connected, WriteBufferAssumption
  <2>6. ~Holds(posted', Resolved) /\ ~Holds(posted', Connected)
    <3>1. \A x : Holds(Append(posted, n), x) <=> Holds(posted, x) \/ x = n
      <4> HIDE DEF n
      <4> QED BY <1>2, HoldsAppend
    <3> QED BY <3>1, <2>1, <2>4, <2>5
  <2>7. Dialled(ops, posted, dial)'
    BY <2>4, <2>6, <1>1 DEF Dialled, Holds
  <2> QED BY <2>3, <2>4, <2>7, <1>1 DEF Spared
<1>19. ToldOnce'
  BY <1>1, <1>15 DEF SafeInv, ToldOnce
<1> QED BY <1>15, <1>16, <1>17, <1>18, <1>19 DEF SafeInv

(* What is left of the old writes is still in its place when one of them is taken. *)
LEMMA DialledTail ==
    ASSUME WriteBufferAssumption, NEW old \in Seq(Write), NEW all \in Seq(Write), NEW ready \in Seq(Nat), NEW d,
           Len(all) = Len(old), Len(all) <= MaxWrites, ready # <<>>, Head(ready) \in DOMAIN old, Distinct(ready),
           \A j \in DOMAIN all : j # Head(ready) /\ Settled(old[j]) => Settled(all[j]),
           Dialled(old, ready, d)
    PROVE  Dialled(all, Tail(ready), d)
<1> DEFINE i == Head(ready)
<1>1. /\ DOMAIN all = DOMAIN old /\ DOMAIN all = 1 .. Len(all) /\ Len(all) \in Nat /\ i = ready[1] /\ 1 \in DOMAIN ready
      /\ Len(ready) \in Nat \ {0} /\ Len(Tail(ready)) = Len(ready) - 1
      /\ DOMAIN Tail(ready) = 1 .. Len(ready) - 1 /\ DOMAIN ready = 1 .. Len(ready)
      /\ \A p \in DOMAIN Tail(ready) : Tail(ready)[p] = ready[p + 1] /\ p + 1 \in DOMAIN ready /\ p + 1 # 1
  BY TailFacts
<1>2. i \notin {Resolved, Connected}
  BY <1>1 DEF Resolved, Connected, WriteBufferAssumption
<1>3. \A x : Holds(Tail(ready), x) <=> Holds(ready, x) /\ x # i
  BY HoldsTail
<1>4. \A p \in DOMAIN Tail(ready) : Tail(ready)[p] # i
  BY <1>1 DEF Distinct
<1> HIDE DEF i
<1>5. d = "posted" <=> Holds(Tail(ready), Resolved) \/ Holds(Tail(ready), Connected)
  BY <1>2, <1>3 DEF Dialled
<1>6. ASSUME NEW p \in DOMAIN Tail(ready), NEW q \in DOMAIN Tail(ready), Tail(ready)[p] = Resolved, p < q
      PROVE  Tail(ready)[q] \in DOMAIN all /\ Settled(all[Tail(ready)[q]])
  <2>1. /\ p + 1 \in DOMAIN ready /\ q + 1 \in DOMAIN ready /\ ready[p + 1] = Resolved
        /\ Tail(ready)[q] = ready[q + 1] /\ p + 1 < q + 1
    BY <1>1, <1>6
  <2>2. ready[q + 1] \in DOMAIN old /\ Settled(old[ready[q + 1]])
    BY <2>1 DEF Dialled
  <2> QED BY <1>1, <1>4, <2>1, <2>2 DEF i
<1>7. ASSUME d = "connecting" \/ Holds(Tail(ready), Connected), NEW p \in DOMAIN Tail(ready),
             Tail(ready)[p] \in DOMAIN all
      PROVE  Settled(all[Tail(ready)[p]])
  <2>1. Settled(old[ready[p + 1]])
    BY <1>1, <1>3, <1>7 DEF Dialled
  <2> QED BY <1>1, <1>4, <1>7, <2>1 DEF i
<1>8. ASSUME NEW p \in DOMAIN Tail(ready), Tail(ready)[p] = Connected PROVE p = Len(Tail(ready))
  <2>1. p + 1 = Len(ready)
    BY <1>1, <1>8 DEF Dialled
  <2> QED BY <2>1, <1>1
<1> QED BY <1>5, <1>6, <1>7, <1>8 DEF Dialled

(* A settled write may come behind the others before the socket is dialled. *)
LEMMA DialledAppend ==
    ASSUME WriteBufferAssumption, NEW all \in Seq(Write), NEW ready \in Seq(Nat), NEW d, NEW i \in DOMAIN all,
           Len(all) <= MaxWrites, Settled(all[i]), ~Holds(ready, Connected), Dialled(all, ready, d)
    PROVE  Dialled(all, Append(ready, i), d)
<1>1. /\ Len(all) \in Nat /\ DOMAIN all = 1 .. Len(all) /\ i \in Nat
      /\ Len(ready) \in Nat /\ DOMAIN ready = 1 .. Len(ready) /\ DOMAIN Append(ready, i) = 1 .. Len(ready) + 1
      /\ \A p \in DOMAIN ready : Append(ready, i)[p] = ready[p]
      /\ Append(ready, i)[Len(ready) + 1] = i
  BY AppendFacts
<1>2. i \notin {Resolved, Connected}
  BY <1>1 DEF Resolved, Connected, WriteBufferAssumption
<1>3. \A x : Holds(Append(ready, i), x) <=> Holds(ready, x) \/ x = i
  BY <1>1, HoldsAppend
<1>4. \A p \in DOMAIN Append(ready, i) : p \in DOMAIN ready \/ p = Len(ready) + 1
  BY <1>1
<1>5. d = "posted" <=> Holds(Append(ready, i), Resolved) \/ Holds(Append(ready, i), Connected)
  BY <1>2, <1>3 DEF Dialled
<1>6. ASSUME NEW p \in DOMAIN Append(ready, i), NEW q \in DOMAIN Append(ready, i), Append(ready, i)[p] = Resolved, p < q
      PROVE  Append(ready, i)[q] \in DOMAIN all /\ Settled(all[Append(ready, i)[q]])
  <2>1. p \in DOMAIN ready /\ ready[p] = Resolved
    BY <1>1, <1>2, <1>4, <1>6
  <2>2. CASE q \in DOMAIN ready
    BY <2>1, <2>2, <1>1, <1>6 DEF Dialled
  <2>3. CASE q = Len(ready) + 1
    BY <2>3, <1>1
  <2> QED BY <2>2, <2>3, <1>4
<1>7. ASSUME d = "connecting" \/ Holds(Append(ready, i), Connected), NEW p \in DOMAIN Append(ready, i),
             Append(ready, i)[p] \in DOMAIN all
      PROVE  Settled(all[Append(ready, i)[p]])
  <2>1. CASE p \in DOMAIN ready
    BY <2>1, <1>1, <1>2, <1>3, <1>7 DEF Dialled
  <2>2. CASE p = Len(ready) + 1
    BY <2>2, <1>1
  <2> QED BY <2>1, <2>2, <1>4
<1>8. ASSUME NEW p \in DOMAIN Append(ready, i) PROVE Append(ready, i)[p] # Connected
  BY <1>1, <1>2, <1>4 DEF Holds
<1> QED BY <1>5, <1>6, <1>7, <1>8 DEF Dialled

(* A connection that ends, or was ended before: of the writes all, those that wait fail. *)
LEMMA PeerCloseSafe ==
    ASSUME WriteTypes, WriteBufferAssumption, NEW all \in Seq(Write), NEW rest \in Seq(Nat),
           Numbered(all), Lists(all, reactor, rest, {}), ToldOnce, ~writable => reactor = <<>>,
           writable => ~Holds(rest, Resolved) /\ ~Holds(rest, Connected),
           kernel' = kernel, PeerClosed(all, rest)
    PROVE  /\ ops' \in Seq(Write) /\ Len(ops') = Len(all) /\ DOMAIN ops' = DOMAIN all
           /\ \A j \in DOMAIN all : /\ ops'[j].len = all[j].len /\ ops'[j].sent = all[j].sent
                                    /\ ops'[j].conn = all[j].conn /\ ops'[j].moved = all[j].moved
                                    /\ ops'[j].block = all[j].block
                                    /\ ops'[j].at = IF all[j].at = "waiting" THEN "posted" ELSE all[j].at
           /\ writable' = FALSE /\ reactor' = <<>> /\ posted' \in Seq(Nat) /\ told' \in Seq(Nat)
           /\ Numbered(ops)' /\ Queued' /\ ToldOnce'
           /\ writable => ~Holds(posted', Resolved) /\ ~Holds(posted', Connected)
           /\ ~writable => posted' = rest /\ ops' = all
<1>1. /\ writable \in BOOLEAN /\ reactor \in Seq(Nat) /\ told \in Seq(Nat) /\ Conn \in Nat /\ Conn >= 1
      /\ \A j \in DOMAIN all : all[j] \in Write
      /\ DOMAIN all = 1 .. Len(all) /\ Len(all) \in Nat
  BY DEF WriteTypes, Conn
<1>2. writable' = FALSE /\ Conn' = Conn /\ told' = IF writable THEN Append(told, Conn) ELSE told
  BY DEF PeerClosed, Conn
<1>3. told' \in Seq(Nat)
  BY <1>1, <1>2, AppendFacts
<1>4. ToldOnce'
  <2>1. CASE writable
    <3>1. told' = Append(told, Conn) /\ Len(told) = Conn - 1 /\ \A c \in DOMAIN told : told[c] = c
      BY <2>1, <1>2 DEF ToldOnce
    <3>2. Len(told') = Conn /\ DOMAIN told' = 1 .. Conn /\ \A c \in 1 .. Conn : told'[c] = c
      BY <3>1, <1>1, AppendFacts
    <3>3. told' = [c \in DOMAIN told' |-> c]
      BY <1>3, <3>2
    <3> QED BY <3>2, <3>3, <1>2 DEF ToldOnce
  <2>2. CASE ~writable
    BY <2>2, <1>2 DEF ToldOnce
  <2> QED BY <2>1, <2>2, <1>1
<1>5. CASE ~writable
  <2>1. reactor' = <<>> /\ posted' = rest /\ ops' = all
    BY <1>5 DEF PeerClosed
  <2>2. \A j \in DOMAIN all : all[j].at # "waiting"
    BY <1>5 DEF Lists, Holds
  <2>3. Queued'
    BY <1>5, <2>1 DEF Queued
  <2>4. Numbered(ops)'
    BY <2>1, <1>2 DEF Numbered
  <2> QED BY <1>1, <1>2, <1>3, <1>4, <1>5, <2>1, <2>2, <2>3, <2>4
<1>6. CASE writable
  <2> DEFINE new(j) == IF all[j].at = "waiting" THEN [all[j] EXCEPT !.at = "posted", !.err = TRUE] ELSE all[j]
  <2>1. reactor' = <<>> /\ posted' = rest \o reactor /\ ops' = [j \in DOMAIN all |-> new(j)]
    BY <1>6 DEF PeerClosed
  <2>2. ASSUME NEW j \in DOMAIN all
        PROVE  /\ new(j) \in Write
               /\ new(j).len = all[j].len /\ new(j).sent = all[j].sent /\ new(j).conn = all[j].conn
               /\ new(j).moved = all[j].moved /\ new(j).block = all[j].block
               /\ new(j).at = IF all[j].at = "waiting" THEN "posted" ELSE all[j].at
    <3>1. all[j] \in Write
      BY <1>1
    <3>2. CASE all[j].at = "waiting"
      <4> DEFINE op == [all[j] EXCEPT !.at = "posted", !.err = TRUE]
      <4>1. /\ op \in Write /\ op.at = "posted"
            /\ op.len = all[j].len /\ op.sent = all[j].sent /\ op.conn = all[j].conn
            /\ op.moved = all[j].moved /\ op.block = all[j].block
        BY <3>1 DEF Write
      <4> QED BY <3>2, <4>1
    <3>3. CASE all[j].at # "waiting"
      BY <3>1, <3>3
    <3> QED BY <3>2, <3>3
  <2> HIDE DEF new
  <2>3. /\ ops' \in Seq(Write) /\ Len(ops') = Len(all) /\ DOMAIN ops' = DOMAIN all
        /\ \A j \in DOMAIN all : ops'[j] = new(j)
    BY <2>1, <2>2, <1>1
  <2>4. posted' \in Seq(Nat) /\ \A x : Holds(posted', x) <=> Holds(rest, x) \/ Holds(reactor, x)
    BY <2>1, <1>1, ConcatFacts, HoldsConcat
  <2>5. \A p \in DOMAIN reactor : reactor[p] \in DOMAIN all
    BY DEF Lists
  <2>6. Resolved \notin DOMAIN all /\ Connected \notin DOMAIN all
    BY <1>1 DEF Numbered, Resolved, Connected, WriteBufferAssumption
  <2>7. ~Holds(posted', Resolved) /\ ~Holds(posted', Connected)
    BY <1>6, <2>4, <2>5, <2>6 DEF Holds
  <2>8. Distinct(posted')
    <3>1. ASSUME NEW x, Holds(rest, x) PROVE ~Holds(reactor, x)
      <4>1. SUFFICES ASSUME Holds(reactor, x) PROVE FALSE
        OBVIOUS
      <4>2. x \in DOMAIN all
        BY <4>1, <2>5 DEF Holds
      <4>3. all[x].at = "waiting"
        BY <4>1, <4>2 DEF Lists
      <4>4. all[x].at = "posted"
        BY <3>1, <4>2 DEF Lists
      <4> QED BY <4>3, <4>4
    <3>2. Distinct(rest) /\ Distinct(reactor)
      BY DEF Lists
    <3> QED BY <3>1, <3>2, <2>1, <1>1, HoldsConcat
  <2>9. \A p \in DOMAIN posted' : posted'[p] \in DOMAIN all
    <3>1. ASSUME NEW x, Holds(rest, x) PROVE x \in DOMAIN all
      BY <1>6, <3>1 DEF Lists, Holds
    <3>2. ASSUME NEW p \in DOMAIN posted' PROVE posted'[p] \in DOMAIN all
      <4>1. Holds(posted', posted'[p])
        BY DEF Holds
      <4>2. CASE Holds(rest, posted'[p])
        BY <4>2, <3>1
      <4>3. CASE Holds(reactor, posted'[p])
        BY <4>3, <2>5 DEF Holds
      <4> QED BY <4>1, <4>2, <4>3, <2>4
    <3> QED BY <3>2
  <2>10. ASSUME NEW j \in DOMAIN all
         PROVE  (ops'[j].at = "waiting" <=> Holds(reactor', j)) /\ (ops'[j].at = "posted" <=> Holds(posted', j))
    <3>1. (all[j].at = "waiting" <=> Holds(reactor, j))
      BY DEF Lists
    <3>2. (all[j].at = "posted" <=> Holds(rest, j))
      BY DEF Lists
    <3>3. ops'[j].at = IF all[j].at = "waiting" THEN "posted" ELSE all[j].at
      BY <2>2, <2>3
    <3>4. ~Holds(reactor', j)
      BY <2>1 DEF Holds
    <3>5. ops'[j].at # "waiting"
      BY <3>3
    <3>6. ops'[j].at = "posted" <=> Holds(posted', j)
      BY <3>1, <3>2, <3>3, <2>4
    <3> QED BY <3>4, <3>5, <3>6
  <2>11. Queued'
    <3>1. Distinct(reactor') /\ \A p \in DOMAIN reactor' : reactor'[p] \in DOMAIN ops'
      BY <2>1 DEF Distinct
    <3> QED BY <3>1, <2>3, <2>8, <2>9, <2>10 DEF Queued, Lists
  <2>12. Numbered(ops)'
    BY <2>2, <2>3, <1>2, SMTT(30) DEF Numbered
  <2> QED BY <1>2, <1>3, <1>4, <1>6, <2>1, <2>2, <2>3, <2>4, <2>7, <2>11, <2>12
<1> QED BY <1>1, <1>5, <1>6

(* A loop that runs what is posted keeps the invariant. *)
LEMMA WriteCompletesSafe ==
    ASSUME WriteBufferAssumption, SafeInv, NEW k \in Takes, WriteCompletes(k)
    PROVE  SafeInv'
<1> DEFINE i == Head(posted)
           rest == Tail(posted)
           used == deallocate(ops[i])
<1>1. /\ posted # <<>> /\ i \in DOMAIN ops /\ UNCHANGED <<encoded, close_after_write, dial, requested>>
      /\ IF ops[i].err \/ ops[i].sent = ops[i].len
         THEN k = 0 /\ HandleWrite(i) /\ in_use' = used /\ UNCHANGED kernel
         ELSE WriteSome(i, ops, used, rest, k) /\ UNCHANGED <<writable, told, closedby>>
  BY DEF WriteCompletes
<1>2. /\ ops \in Seq(Write) /\ Len(ops) \in Nat /\ Len(ops) <= MaxWrites /\ DOMAIN ops = 1 .. Len(ops)
      /\ k \in Nat /\ posted \in Seq(Nat) /\ reactor \in Seq(Nat) /\ in_use \in BOOLEAN /\ writable \in BOOLEAN
      /\ rest \in Seq(Nat) /\ writebuf \in Seq(Nat) /\ Len(writebuf) = Len(ops)
      /\ Lists(ops, reactor, posted, {}) /\ Distinct(posted)
      /\ \A j \in DOMAIN ops : ops[j].at # "new"
  <2>1. Lists(ops, reactor, posted, {})
    BY DEF SafeInv, Queued
  <2>2. Distinct(posted)
    BY <2>1 DEF Lists
  <2>3. rest \in Seq(Nat)
    BY <1>1, TailFacts DEF SafeInv, WriteTypes
  <2> QED BY <2>1, <2>2, <2>3 DEF SafeInv, WriteTypes, Buffered, Numbered, Takes
<1>3. ops[i].at = "posted" /\ ~Holds(rest, i) /\ Lists(ops, reactor, rest, {i})
  BY <1>1, <1>2, ListsTake
<1>4. Owned(ops, used, {i}) /\ used \in BOOLEAN
  <2>1. Owned(ops, in_use, {})
    BY DEF SafeInv
  <2> QED BY <2>1, <1>1, <1>2, <1>3, OwnedTake
<1>5. \A x : Holds(rest, x) <=> Holds(posted, x) /\ x # i
  BY <1>1, <1>2, HoldsTail
<1>6. writable => dial = "none" /\ ~Holds(posted, Resolved) /\ ~Holds(posted, Connected)
  BY DEF SafeInv, Spared, Dialled
<1>7. UNCHANGED <<writebuf, room, moved, close_after_write, dial, requested>>
  BY <1>1 DEF encoded
<1> HIDE DEF i, rest, used
<1>8. CASE ops[i].err \/ ops[i].sent = ops[i].len
  <2> DEFINE all == [ops EXCEPT ![i].at = "done"]
  <2>1. HandleWrite(i) /\ in_use' = used /\ kernel' = kernel
    BY <1>1, <1>8
  <2>2. ops[i] \in Write
    BY <1>1, <1>2
  <2>3. /\ all \in Seq(Write) /\ Len(all) = Len(ops) /\ DOMAIN all = DOMAIN ops
        /\ all[i] = [ops[i] EXCEPT !.at = "done"]
        /\ \A j \in DOMAIN ops : j # i => all[j] = ops[j]
    <3>1. [ops[i] EXCEPT !.at = "done"] \in Write
      BY <2>2 DEF Write
    <3> QED BY <3>1, <1>1, <1>2
  <2>4. /\ all[i].at = "done" /\ all[i].len = ops[i].len /\ all[i].sent = ops[i].sent /\ all[i].conn = ops[i].conn
        /\ all[i].err = ops[i].err /\ all[i].moved = ops[i].moved
    BY <2>2, <2>3 DEF Write
  <2>5. \/ PeerClosed(all, rest) /\ closedby' = (IF ops[i].err \/ ~writable THEN closedby ELSE i)
        \/ ops' = all /\ posted' = rest /\ UNCHANGED <<writable, told, reactor, closedby>>
    BY <2>1 DEF HandleWrite, rest, i
  <2> HIDE DEF all
  <2>6. Numbered(all)
    <3>1. Numbered(ops)
      BY DEF SafeInv, Buffered
    <3> QED BY <3>1, <2>3, <2>4 DEF Numbered
  <2>7. Lists(all, reactor, rest, {})
    <3>1. /\ \A p \in DOMAIN reactor : reactor[p] \in DOMAIN ops \ {i}
          /\ \A p \in DOMAIN rest : rest[p] \in (DOMAIN ops \ {i}) \cup {Resolved, Connected}
          /\ Distinct(reactor) /\ Distinct(rest)
      BY <1>3 DEF Lists
    <3>2. ASSUME NEW j \in DOMAIN all PROVE all[j].at = "waiting" <=> Holds(reactor, j)
      <4>1. CASE j = i
        BY <4>1, <2>4, <3>1 DEF Holds
      <4>2. CASE j # i
        BY <4>2, <1>3, <2>3 DEF Lists
      <4> QED BY <4>1, <4>2
    <3>3. ASSUME NEW j \in DOMAIN all PROVE all[j].at = "posted" <=> Holds(rest, j)
      <4>1. CASE j = i
        BY <4>1, <2>4, <1>3
      <4>2. CASE j # i
        BY <4>2, <1>3, <2>3 DEF Lists
      <4> QED BY <4>1, <4>2
    <3> QED BY <3>1, <3>2, <3>3, <2>3 DEF Lists
  <2>8. Owned(all, used, {})
    <3>1. ASSUME NEW j \in DOMAIN all, all[j].at # "done" PROVE j \in DOMAIN ops \ {i} /\ all[j] = ops[j]
      BY <3>1, <2>3, <2>4
    <3> QED BY <3>1, <1>4 DEF Owned
  <2>9. Dialled(all, rest, dial)
    <3>1. \A j \in DOMAIN all : j # i /\ Settled(ops[j]) => Settled(all[j])
      BY <2>3
    <3>2. Dialled(ops, posted, dial)
      BY DEF SafeInv, Spared
    <3> QED BY <3>1, <3>2, <1>1, <1>2, <2>3, DialledTail DEF i, rest
  <2>10. closedby' \in Nat /\ Conn' = Conn
    BY <2>1, <2>5, <1>1, <1>2, SMTT(30) DEF SafeInv, WriteTypes, Conn
  <2>11. CASE PeerClosed(all, rest)
    <3>1. /\ ops' \in Seq(Write) /\ Len(ops') = Len(all) /\ DOMAIN ops' = DOMAIN all
          /\ \A j \in DOMAIN all : /\ ops'[j].block = all[j].block
                                   /\ ops'[j].at = IF all[j].at = "waiting" THEN "posted" ELSE all[j].at
          /\ writable' = FALSE /\ reactor' = <<>> /\ posted' \in Seq(Nat) /\ told' \in Seq(Nat)
          /\ Numbered(ops)' /\ Queued' /\ ToldOnce'
          /\ writable => ~Holds(posted', Resolved) /\ ~Holds(posted', Connected)
          /\ ~writable => posted' = rest /\ ops' = all
      <4>1. /\ WriteTypes /\ ToldOnce /\ (~writable => reactor = <<>>)
            /\ writable => ~Holds(rest, Resolved) /\ ~Holds(rest, Connected)
        BY <1>5, <1>6 DEF SafeInv, Spared
      <4> QED BY <4>1, <1>2, <2>1, <2>3, <2>6, <2>7, <2>11, PeerCloseSafe
    <3>2. WriteTypes'
      <4>1. WriteTypes
        BY DEF SafeInv
      <4>2. kernel' \in Seq(Seq(Nat)) /\ Conn' >= 1 /\ in_use' \in BOOLEAN /\ closedby' \in Nat
        BY <4>1, <2>1, <2>10, <1>4 DEF WriteTypes
      <4>3. reactor' \in Seq(Nat) /\ writable' \in BOOLEAN
        <5>1. reactor' = <<>> /\ writable' = FALSE
          BY <3>1
        <5>2. <<>> \in Seq(Nat)
          OBVIOUS
        <5> QED BY <5>1, <5>2
      <4> QED BY <3>1, <4>1, <4>2, <4>3, <1>7 DEF WriteTypes
    <3>3. Buffered'
      <4>1. \A j \in DOMAIN ops' : ops'[j].at # "new"
        BY <3>1, <2>3, <2>4, <1>2, ZenonT(30)
      <4> QED BY <4>1, <3>1, <2>3, <1>7 DEF SafeInv, Buffered
    <3>4. Owned(ops, in_use, {})'
      BY <3>1, <2>1, <2>8, SMTT(30) DEF Owned
    <3>5. Dialled(ops, posted, dial)'
      <4>1. CASE writable
        <5>1. dial' = "none" /\ ~Holds(posted', Resolved) /\ ~Holds(posted', Connected)
          BY <4>1, <3>1, <1>6, <1>7
        <5> QED BY <5>1 DEF Dialled, Holds
      <4>2. CASE ~writable
        <5>1. Dialled(ops', posted', dial')
          BY <4>2, <3>1, <2>9, <1>7
        <5> QED BY <5>1 DEF Dialled
      <4> QED BY <4>1, <4>2, <1>2
    <3> QED BY <3>1, <3>2, <3>3, <3>4, <3>5 DEF SafeInv, Spared
  <2>12. CASE ops' = all /\ posted' = rest /\ UNCHANGED <<writable, told, reactor, closedby>>
    <3>1. WriteTypes'
      BY <2>12, <2>1, <2>3, <2>10, <1>2, <1>4, <1>7 DEF SafeInv, WriteTypes
    <3>2. Buffered'
      <4>1. \A j \in DOMAIN ops' : ops'[j].at # "new"
        BY <2>12, <2>3, <2>4, <1>2
      <4>2. Numbered(ops)'
        BY <2>6, <2>10, <2>12 DEF Numbered
      <4> QED BY <4>1, <4>2, <2>3, <2>12, <1>7 DEF SafeInv, Buffered
    <3>3. Queued'
      BY <2>7, <2>12 DEF Queued
    <3>4. Owned(ops, in_use, {})'
      BY <2>1, <2>8, <2>12 DEF Owned
    <3>5. Spared'
      <4>1. Dialled(ops', posted', dial')
        BY <2>9, <2>12, <1>7
      <4>2. Dialled(ops, posted, dial)'
        BY <4>1 DEF Dialled
      <4>3. writable' => dial' = "none" /\ \A j \in DOMAIN ops' : ops'[j].at # "done" => ops'[j].conn = Conn'
        BY <2>3, <2>4, <2>10, <2>12, <1>7 DEF SafeInv, Spared
      <4> QED BY <4>2, <4>3, <2>12 DEF SafeInv, Spared
    <3>6. ToldOnce'
      BY <2>10, <2>12 DEF SafeInv, ToldOnce
    <3> QED BY <3>1, <3>2, <3>3, <3>4, <3>5, <3>6 DEF SafeInv
  <2> QED BY <2>5, <2>11, <2>12
<1>9. CASE ~(ops[i].err \/ ops[i].sent = ops[i].len)
  <2>1. WriteSome(i, ops, used, rest, k) /\ UNCHANGED <<writable, told, closedby>>
    BY <1>1, <1>9
  <2>2. Effect(i, ops, used, rest, k)
    BY <2>1, <1>1, <1>2, <1>4, WriteSomeEffect
  <2>3. /\ ops' \in Seq(Write) /\ Len(ops') = Len(ops) /\ DOMAIN ops' = DOMAIN ops
        /\ reactor' \in Seq(Nat) /\ posted' \in Seq(Nat) /\ in_use' \in BOOLEAN
        /\ kernel' \in Seq(Seq(Nat)) /\ Conn' = Conn
        /\ Numbered(ops)' /\ Queued' /\ Owned(ops, in_use, {})'
        /\ \A j \in DOMAIN ops' : ops'[j].at # "new"
    <3>1. WriteTypes /\ Numbered(ops) /\ writebuf' \in Seq(Nat) /\ Len(writebuf') = Len(ops)
      BY <1>2, <1>7 DEF SafeInv, Buffered
    <3> QED BY <3>1, <2>2, <1>1, <1>2, <1>3, <1>4, EffectSafe
  <2>4. PICK op \in Write :
          /\ ops' = [ops EXCEPT ![i] = op] /\ op.len = ops[i].len /\ op.conn = ops[i].conn
          /\ \/ ~writable /\ op.err /\ posted' = Append(rest, i) /\ reactor' = reactor
             \/ writable /\ posted' \in {rest, Append(rest, i)}
    BY <2>2 DEF Effect
  <2>5. WriteTypes'
    BY <2>1, <2>3, <1>7 DEF SafeInv, WriteTypes
  <2>6. Buffered'
    BY <2>3, <1>7 DEF SafeInv, Buffered
  <2>7. ToldOnce'
    BY <2>1, <2>3 DEF SafeInv, ToldOnce
  <2>8. i \in Nat /\ i \notin {Resolved, Connected}
    BY <1>1, <1>2, SMTT(30) DEF Resolved, Connected, WriteBufferAssumption
  <2>9. Spared'
    <3>1. CASE writable
      <4>1. dial' = "none" /\ ~Holds(rest, Resolved) /\ ~Holds(rest, Connected)
        BY <3>1, <1>5, <1>6, <1>7
      <4>2. \A x : Holds(Append(rest, i), x) <=> Holds(rest, x) \/ x = i
        BY <2>8, <1>2, HoldsAppend
      <4>3. ~Holds(posted', Resolved) /\ ~Holds(posted', Connected)
        BY <4>1, <4>2, <2>4, <2>8, <3>1
      <4>4. Dialled(ops, posted, dial)'
        BY <4>1, <4>3 DEF Dialled, Holds
      <4>5. \A j \in DOMAIN ops' : ops'[j].conn = Conn'
                 \/ (ops'[j] = ops[j] /\ j \in DOMAIN ops)
        <5>1. ops[i].conn = Conn
          BY <1>1, <1>3, <3>1 DEF SafeInv, Spared
        <5> QED BY <5>1, <1>1, <1>2, <2>3, <2>4
      <4>6. \A j \in DOMAIN ops' : ops'[j].at # "done" => ops'[j].conn = Conn'
        BY <4>5, <2>3, <3>1 DEF SafeInv, Spared
      <4> QED BY <4>1, <4>4, <4>6, <2>1, <3>1 DEF Spared
    <3>2. CASE ~writable
      <4>1. posted' = Append(rest, i) /\ op.err /\ reactor' = reactor
        BY <2>4, <3>2
      <4>2. ops'[i] = op /\ (\A j \in DOMAIN ops : j # i => ops'[j] = ops[j])
        BY <2>4, <1>1, <1>2
      <4>3. Dialled(ops, posted, dial)
        BY DEF SafeInv, Spared
      <4>4. Dialled(ops', rest, dial)
        BY <4>2, <4>3, <2>3, <1>1, <1>2, DialledTail DEF i, rest
      <4>5. ~Holds(posted, Connected)
        <5>1. ~Settled(ops[i])
          BY <1>9 DEF Settled
        <5>2. 1 \in DOMAIN posted /\ posted[1] = i
          BY <1>1, <1>2, TailFacts DEF i
        <5> QED BY <5>1, <5>2, <4>3, <1>1 DEF Dialled
      <4>6. Settled(ops'[i])
        BY <4>1, <4>2 DEF Settled
      <4>7. Dialled(ops', Append(rest, i), dial)
        BY <4>4, <4>5, <4>6, <1>1, <1>2, <1>5, <2>3, DialledAppend
      <4>8. Dialled(ops, posted, dial)'
        BY <4>1, <4>7, <1>7 DEF Dialled
      <4> QED BY <4>1, <4>8, <2>1, <3>2 DEF SafeInv, Spared
    <3> QED BY <3>1, <3>2, <1>2
  <2> QED BY <2>3, <2>5, <2>6, <2>7, <2>9 DEF SafeInv
<1> QED BY <1>8, <1>9

(* The socket takes more of a write that waits, or the write fails. *)
LEMMA WritableSafe ==
    ASSUME WriteBufferAssumption, SafeInv, NEW k \in Takes, NEW err \in BOOLEAN, Writable(k, err)
    PROVE  SafeInv'
<1> DEFINE i == Head(reactor)
           op == [ops[i] EXCEPT !.at = "posted", !.sent = @ + k, !.err = err]
<1>1. /\ reactor # <<>> /\ reactor' = Tail(reactor) /\ posted' = Append(posted, i)
      /\ UNCHANGED <<writable, encoded, close_after_write, in_use, dial, told, history>>
      /\ IF err THEN k = 0 ELSE k \in 1 .. (ops[i].len - ops[i].sent)
      /\ kernel' = [kernel EXCEPT ![Conn] = @ \o Tokens(ops[i], k)]
      /\ ops' = [ops EXCEPT ![i] = op]
  <2>1. /\ reactor # <<>> /\ reactor' = Tail(reactor) /\ posted' = Append(posted, i)
        /\ UNCHANGED <<writable, encoded, close_after_write, in_use, dial, told, history>>
    BY DEF Writable
  <2>2. IF err THEN k = 0 ELSE k \in 1 .. (ops[i].len - ops[i].sent)
    BY DEF Writable
  <2>3. kernel' = [kernel EXCEPT ![Conn] = @ \o Tokens(ops[i], k)]
    BY DEF Writable
  <2>4. ops' = [ops EXCEPT ![i] = op]
    BY DEF Writable
  <2> QED BY <2>1, <2>2, <2>3, <2>4
<1>2. /\ ops \in Seq(Write) /\ Len(ops) \in Nat /\ Len(ops) <= MaxWrites /\ DOMAIN ops = 1 .. Len(ops)
      /\ k \in Nat /\ posted \in Seq(Nat) /\ reactor \in Seq(Nat) /\ writable
      /\ writebuf \in Seq(Nat) /\ Len(writebuf) = Len(ops) /\ kernel \in Seq(Seq(Nat)) /\ Conn \in DOMAIN kernel
      /\ Lists(ops, reactor, posted, {})
  BY <1>1, SMTT(30) DEF SafeInv, WriteTypes, Buffered, Numbered, Takes, Queued, Spared, Conn
<1>3. /\ i \in DOMAIN ops /\ ops[i].at = "waiting" /\ Lists(ops, Tail(reactor), posted, {i})
      /\ Tail(reactor) \in Seq(Nat)
  BY <1>1, <1>2, ListsTake, TailFacts
<1>4. UNCHANGED <<writable, writebuf, room, moved, close_after_write, in_use, dial, told, requested, closedby>>
  BY <1>1 DEF encoded, history
<1> HIDE DEF i
<1>5. ops[i] \in Write /\ ops[i].len = i /\ ops[i].sent \in Nat /\ ops[i].sent <= i /\ i \in Nat /\ i <= Len(ops)
  <2>1. ops[i] \in Write /\ i \in Nat /\ i <= Len(ops)
    BY <1>2, <1>3
  <2>2. ops[i].len = i /\ ops[i].sent <= i
    BY <1>3 DEF SafeInv, Buffered, Numbered
  <2>3. ops[i].sent \in Nat
    BY <2>1 DEF Write
  <2> QED BY <2>1, <2>2, <2>3
<1>6. k + ops[i].sent <= i /\ ops[i].sent + k \in Nat
  <2>1. CASE err
    BY <2>1, <1>1, <1>5
  <2>2. CASE ~err
    <3>1. k \in 1 .. i - ops[i].sent
      BY <2>2, <1>1, <1>5
    <3> QED BY <3>1, <1>5
  <2> QED BY <2>1, <2>2
<1>7. /\ op \in Write /\ op.at = "posted" /\ op.len = i /\ op.conn = ops[i].conn /\ op.moved = ops[i].moved
      /\ op.block = ops[i].block /\ op.sent = ops[i].sent + k
  BY <1>5, <1>6 DEF Write
<1> HIDE DEF op
<1>8. /\ ops' \in Seq(Write) /\ Len(ops') = Len(ops) /\ DOMAIN ops' = DOMAIN ops
      /\ ops'[i] = op /\ \A j \in DOMAIN ops : j # i => ops'[j] = ops[j]
  BY <1>1, <1>2, <1>3, <1>7
<1>9. kernel' \in Seq(Seq(Nat)) /\ Conn' = Conn
  <2>1. ASSUME NEW j \in 1 .. k
        PROVE  (IF ops[i].moved = moved' THEN writebuf'[ops[i].sent + j] ELSE Freed) \in Nat
    <3>1. j \in Nat /\ 1 <= j /\ j <= k /\ k \in Nat
      BY <1>2
    <3>2. ops[i].sent + j \in 1 .. Len(writebuf)
      <4>1. ops[i].sent \in Nat /\ k + ops[i].sent <= Len(writebuf) /\ Len(writebuf) \in Nat
        BY <1>2, <1>5, <1>6, SMTT(30)
      <4> QED BY <3>1, <4>1
    <3>3. writebuf[ops[i].sent + j] \in Nat
      <4>1. writebuf \in Seq(Nat)
        BY <1>2
      <4> QED BY <3>2, <4>1
    <3> QED BY <3>3, <1>4 DEF Freed
  <2>2. Tokens(ops[i], k) \in Seq(Nat)
    <3>1. Tokens(ops[i], k) =
            [j \in 1 .. k |-> IF ops[i].moved = moved' THEN writebuf'[ops[i].sent + j] ELSE Freed]
      BY DEF Tokens
    <3> QED BY <3>1, <2>1, <1>2
  <2>3. kernel[Conn] \o Tokens(ops[i], k) \in Seq(Nat)
    BY <2>2, <1>2, ConcatFacts
  <2>4. kernel' \in Seq(Seq(Nat)) /\ Len(kernel') = Len(kernel)
    BY <2>3, <1>1, <1>2, SMTT(30)
  <2> QED BY <2>4 DEF Conn
<1>10. reactor' \in Seq(Nat) /\ posted' \in Seq(Nat)
  BY <1>1, <1>2, <1>3, <1>5, AppendFacts
<1>11. WriteTypes'
  BY <1>4, <1>8, <1>9, <1>10 DEF SafeInv, WriteTypes
<1>12. Buffered'
  <2>1. Numbered(ops)'
    <3>1. Numbered(ops)
      BY DEF SafeInv, Buffered
    <3>2. ops[i].conn \in 1 .. Conn /\ op.sent <= i /\ Len(ops') <= MaxWrites
      <4>1. ops[i].conn \in 1 .. Conn
        BY <3>1, <1>3 DEF Numbered
      <4>2. op.sent <= i
        BY <1>2, <1>5, <1>6, <1>7
      <4> QED BY <4>1, <4>2, <1>2, <1>8
    <3> QED BY <3>1, <3>2, <1>7, <1>8, <1>9 DEF Numbered
  <2>2. \A j \in DOMAIN ops' : ops'[j].at # "new"
    BY <1>7, <1>8 DEF SafeInv, Buffered
  <2> QED BY <2>1, <2>2, <1>4, <1>8 DEF SafeInv, Buffered
<1>13. Queued'
  <2>1. Lists(ops', Tail(reactor), Append(posted, i), {})
    BY <1>1, <1>2, <1>3, <1>7, ListsJoin
  <2> QED BY <2>1, <1>1 DEF Queued
<1>14. Owned(ops, in_use, {})'
  <2>1. \A j \in DOMAIN ops' : ops'[j].block = ops[j].block /\ (ops'[j].at # "done" => ops[j].at # "done")
    BY <1>3, <1>7, <1>8
  <2> QED BY <2>1, <1>4, <1>8 DEF SafeInv, Owned
<1>15. Spared'
  <2>1. dial' = "none" /\ ~Holds(posted, Resolved) /\ ~Holds(posted, Connected)
    BY <1>2, <1>4 DEF SafeInv, Spared, Dialled
  <2>2. i \notin {Resolved, Connected}
    BY <1>2, <1>5, SMTT(30) DEF Resolved, Connected, WriteBufferAssumption
  <2>3. ~Holds(posted', Resolved) /\ ~Holds(posted', Connected)
    <3>1. \A x : Holds(Append(posted, i), x) <=> Holds(posted, x) \/ x = i
      BY <1>2, <1>5, HoldsAppend
    <3> QED BY <3>1, <2>1, <2>2, <1>1
  <2>4. Dialled(ops, posted, dial)'
    BY <2>1, <2>3 DEF Dialled, Holds
  <2>5. \A j \in DOMAIN ops' : ops'[j].at # "done" => ops'[j].conn = Conn'
    <3>1. \A j \in DOMAIN ops : ops[j].at # "done" => ops[j].conn = Conn
      BY <1>2 DEF SafeInv, Spared
    <3>2. op.conn = Conn
      BY <3>1, <1>3, <1>7
    <3> QED BY <3>1, <3>2, <1>8, <1>9
  <2> QED BY <2>1, <2>4, <2>5, <1>2, <1>4 DEF Spared
<1>16. ToldOnce'
  BY <1>4, <1>9 DEF SafeInv, ToldOnce
<1> QED BY <1>11, <1>12, <1>13, <1>14, <1>15, <1>16 DEF SafeInv

(* The peer closes the connection, or a read fails. *)
LEMMA ReadErrorSafe ==
    ASSUME WriteBufferAssumption, SafeInv, ReadErrorCloses
    PROVE  SafeInv'
<1>1. writable /\ PeerClosed(ops, posted)
  BY DEF ReadErrorCloses
<1>2. UNCHANGED <<writebuf, room, moved, close_after_write, in_use, kernel, dial, requested, closedby>>
  BY DEF ReadErrorCloses, encoded, history
<1>3. /\ WriteTypes /\ ops \in Seq(Write) /\ posted \in Seq(Nat) /\ Numbered(ops) /\ Lists(ops, reactor, posted, {})
      /\ ToldOnce /\ dial = "none" /\ ~Holds(posted, Resolved) /\ ~Holds(posted, Connected)
      /\ Conn' = Conn /\ in_use \in BOOLEAN
  BY <1>1, <1>2 DEF SafeInv, WriteTypes, Buffered, Queued, Spared, Dialled, Conn
<1>4. /\ ops' \in Seq(Write) /\ Len(ops') = Len(ops) /\ DOMAIN ops' = DOMAIN ops
      /\ \A j \in DOMAIN ops : /\ ops'[j].block = ops[j].block
                               /\ ops'[j].at = IF ops[j].at = "waiting" THEN "posted" ELSE ops[j].at
      /\ writable' = FALSE /\ reactor' = <<>> /\ posted' \in Seq(Nat) /\ told' \in Seq(Nat)
      /\ Numbered(ops)' /\ Queued' /\ ToldOnce'
      /\ ~Holds(posted', Resolved) /\ ~Holds(posted', Connected)
  BY <1>1, <1>2, <1>3, PeerCloseSafe
<1>5. WriteTypes'
  <2>1. reactor' \in Seq(Nat) /\ writable' \in BOOLEAN
    <3>1. reactor' = <<>> /\ writable' = FALSE
      BY <1>4
    <3>2. <<>> \in Seq(Nat)
      OBVIOUS
    <3> QED BY <3>1, <3>2
  <2> QED BY <2>1, <1>2, <1>3, <1>4 DEF WriteTypes
<1>6. Buffered'
  BY <1>2, <1>4 DEF SafeInv, Buffered
<1>7. Owned(ops, in_use, {})'
  BY <1>2, <1>4 DEF SafeInv, Owned
<1>8. Spared'
  <2>1. Dialled(ops, posted, dial)'
    BY <1>2, <1>3, <1>4 DEF Dialled, Holds
  <2> QED BY <2>1, <1>4 DEF Spared
<1> QED BY <1>4, <1>5, <1>6, <1>7, <1>8 DEF SafeInv

(* The next connection is dialled. *)
LEMMA DialSafe ==
    ASSUME WriteBufferAssumption, SafeInv, AsyncConnect \/ DialGoesOn \/ HandleResolve \/ HandleConnected
    PROVE  SafeInv'
<1>1. /\ posted \in Seq(Nat) /\ Lists(ops, reactor, posted, {}) /\ Distinct(posted)
      /\ Dialled(ops, posted, dial) /\ Conn \in Nat /\ Conn >= 1 /\ kernel \in Seq(Seq(Nat)) /\ MaxWrites \in Nat
      /\ DOMAIN ops = 1 .. Len(ops) /\ Len(ops) \in Nat /\ Len(ops) <= MaxWrites /\ writable \in BOOLEAN
  BY DEF SafeInv, WriteTypes, Queued, Lists, Spared, Conn, WriteBufferAssumption, Buffered, Numbered
<1>2. /\ UNCHANGED <<writebuf, room, moved, close_after_write, ops, reactor, in_use, told>> /\ ~writable
      /\ reactor = <<>>
  BY DEF AsyncConnect, DialGoesOn, HandleResolve, HandleConnected, DialRest, encoded, SafeInv, Spared, Dialled, Holds
<1>3. Resolved \in Nat /\ Connected \in Nat /\ Resolved # Connected /\ Resolved \notin DOMAIN ops /\ Connected \notin DOMAIN ops
  BY <1>1 DEF Resolved, Connected
<1>4. SUFFICES /\ posted' \in Seq(Nat) /\ dial' \in {"none", "resolving", "connecting", "posted"}
               /\ Lists(ops, reactor, posted', {}) /\ Dialled(ops, posted', dial')
               /\ \/ UNCHANGED <<writable, kernel, history>>
                  \/ /\ writable' = TRUE /\ kernel' = Append(kernel, <<>>) /\ requested' = 0 /\ closedby' = 0
                     /\ dial' = "none" /\ \A i \in DOMAIN ops : ops[i].at = "done"
  <2> SUFFICES ASSUME /\ posted' \in Seq(Nat) /\ dial' \in {"none", "resolving", "connecting", "posted"}
                      /\ Lists(ops, reactor, posted', {}) /\ Dialled(ops, posted', dial')
                      /\ \/ UNCHANGED <<writable, kernel, history>>
                         \/ /\ writable' = TRUE /\ kernel' = Append(kernel, <<>>) /\ requested' = 0 /\ closedby' = 0
                            /\ dial' = "none" /\ \A i \in DOMAIN ops : ops[i].at = "done"
               PROVE  SafeInv'
    OBVIOUS
  <2>1. /\ kernel' \in Seq(Seq(Nat)) /\ requested' \in Nat /\ closedby' \in Nat /\ writable' \in BOOLEAN
        /\ (~writable' /\ Conn' = Conn) \/ (writable' /\ Conn' = Conn + 1)
    <3>1. <<>> \in Seq(Nat)
      OBVIOUS
    <3>2. CASE UNCHANGED <<writable, kernel, history>>
      BY <3>2, <1>1, <1>2 DEF Conn, SafeInv, WriteTypes, history
    <3>3. CASE writable' = TRUE /\ kernel' = Append(kernel, <<>>) /\ requested' = 0 /\ closedby' = 0
      <4>1. kernel' \in Seq(Seq(Nat)) /\ Len(kernel') = Len(kernel) + 1
        BY <3>1, <3>3, <1>1, AppendFacts
      <4> QED BY <4>1, <3>3 DEF Conn
    <3> QED BY <3>2, <3>3
  <2>2. WriteTypes'
    <3>1. Conn' >= 1
      BY <2>1, <1>1
    <3> QED BY <2>1, <3>1, <1>2 DEF SafeInv, WriteTypes
  <2>3. Buffered'
    <3>1. Numbered(ops)'
      BY <2>1, <1>1, <1>2 DEF SafeInv, Buffered, Numbered
    <3> QED BY <3>1, <1>2 DEF SafeInv, Buffered
  <2>4. Queued'
    BY <1>2 DEF Queued
  <2>5. Owned(ops, in_use, {})'
    BY <1>2 DEF SafeInv, Owned
  <2>6. Spared'
    <3>1. Dialled(ops, posted, dial)'
      BY <1>2 DEF Dialled
    <3> QED BY <3>1, <1>2 DEF Spared
  <2>7. ToldOnce'
    BY <2>1, <1>1, <1>2, SMTT(30) DEF SafeInv, ToldOnce
  <2> QED BY <2>2, <2>3, <2>4, <2>5, <2>6, <2>7 DEF SafeInv
<1>5. CASE AsyncConnect
  <2>1. UNCHANGED <<writable, posted, kernel, history>> /\ dial = "none" /\ dial' = "resolving"
    BY <1>5 DEF AsyncConnect
  <2> QED BY <2>1, <1>1 DEF Dialled
<1>6. CASE DialGoesOn
  <2> DEFINE e == IF dial = "resolving" THEN Resolved ELSE Connected
  <2>1. /\ posted' = Append(posted, e) /\ dial' = "posted" /\ UNCHANGED <<writable, kernel, history>>
        /\ dial \in {"resolving", "connecting"}
    BY <1>6 DEF DialGoesOn
  <2>2. e \in {Resolved, Connected} /\ e \in Nat /\ (e = Connected => dial = "connecting")
    BY <1>3, <2>1
  <2> HIDE DEF e
  <2>3. ~Holds(posted, Resolved) /\ ~Holds(posted, Connected)
    BY <1>1, <2>1 DEF Dialled
  <2>4. /\ posted' \in Seq(Nat) /\ DOMAIN posted' = 1 .. Len(posted) + 1 /\ Len(posted') = Len(posted) + 1
        /\ DOMAIN posted = 1 .. Len(posted) /\ Len(posted) \in Nat
        /\ posted'[Len(posted) + 1] = e /\ \A p \in DOMAIN posted : posted'[p] = posted[p]
    BY <1>1, <2>1, <2>2, AppendFacts
  <2>5. Distinct(posted') /\ \A x : Holds(posted', x) <=> Holds(posted, x) \/ x = e
    BY <1>1, <2>1, <2>2, <2>3, HoldsAppend
  <2>6. \A p \in DOMAIN posted' : p \in DOMAIN posted \/ p = Len(posted) + 1
    BY <2>4
  <2>7. Lists(ops, reactor, posted', {})
    <3>1. \A p \in DOMAIN posted' : posted'[p] \in DOMAIN ops \cup {Resolved, Connected}
      BY <1>1, <2>2, <2>4, <2>6 DEF Lists
    <3>2. \A j \in DOMAIN ops : Holds(posted', j) <=> Holds(posted, j)
      BY <1>3, <2>2, <2>5
    <3>3. Distinct(reactor) /\ \A p \in DOMAIN reactor : reactor[p] \in DOMAIN ops
      BY <1>1 DEF Lists
    <3>4. ASSUME NEW j \in DOMAIN ops
          PROVE  (ops[j].at = "waiting" <=> Holds(reactor, j)) /\ (ops[j].at = "posted" <=> Holds(posted', j))
      <4>1. ops[j].at = "waiting" <=> Holds(reactor, j)
        BY <1>1 DEF Lists
      <4>2. ops[j].at = "posted" <=> Holds(posted, j)
        BY <1>1 DEF Lists
      <4> QED BY <4>1, <4>2, <3>2
    <3> QED BY <3>1, <3>3, <3>4, <2>5 DEF Lists
  <2>8. Dialled(ops, posted', dial')
    <3>1. \A p \in DOMAIN posted : posted'[p] \notin {Resolved, Connected}
      BY <2>3, <2>4 DEF Holds
    <3>2. dial' = "posted" <=> Holds(posted', Resolved) \/ Holds(posted', Connected)
      BY <2>1, <2>2, <2>5
    <3>3. \A p, q \in DOMAIN posted' : ~(posted'[p] = Resolved /\ p < q)
      BY <2>4, <2>6, <3>1
    <3>4. \A p \in DOMAIN posted' : posted'[p] = Connected => p = Len(posted')
      BY <2>4, <2>6, <3>1
    <3>5. ASSUME dial' = "connecting" \/ Holds(posted', Connected), NEW p \in DOMAIN posted', posted'[p] \in DOMAIN ops
          PROVE  Settled(ops[posted'[p]])
      <4>1. e = Connected /\ dial = "connecting"
        BY <3>5, <2>1, <2>2, <2>3, <2>5
      <4>2. p \in DOMAIN posted /\ posted'[p] = posted[p]
        BY <3>5, <4>1, <2>4, <2>6, <1>3
      <4> QED BY <4>1, <4>2, <3>5, <1>1 DEF Dialled
    <3> QED BY <3>2, <3>3, <3>4, <3>5 DEF Dialled
  <2> QED BY <2>1, <2>4, <2>7, <2>8
<1>7. ASSUME posted # <<>>, Head(posted) \in {Resolved, Connected}
      PROVE  /\ Tail(posted) \in Seq(Nat) /\ Lists(ops, reactor, Tail(posted), {})
             /\ \A x : Holds(Tail(posted), x) <=> Holds(posted, x) /\ x # Head(posted)
             /\ ~Holds(Tail(posted), Resolved) /\ ~Holds(Tail(posted), Connected)
             /\ \A p \in DOMAIN Tail(posted) : Tail(posted)[p] \in DOMAIN ops => Settled(ops[Tail(posted)[p]])
             /\ Head(posted) = Connected => Tail(posted) = <<>>
  <2>1. Tail(posted) \in Seq(Nat) /\ Lists(ops, reactor, Tail(posted), {})
    <3>1. ops \in Seq(Write) /\ reactor \in Seq(Nat) /\ Head(posted) \notin DOMAIN ops
      BY <1>3, <1>7 DEF SafeInv, WriteTypes
    <3> QED BY <3>1, <1>1, <1>7, ListsTake, TailFacts
  <2>2. \A x : Holds(Tail(posted), x) <=> Holds(posted, x) /\ x # Head(posted)
    BY <1>1, <1>7, HoldsTail
  <2>3. /\ 1 \in DOMAIN posted /\ posted[1] = Head(posted) /\ Len(posted) \in Nat \ {0}
        /\ Len(Tail(posted)) = Len(posted) - 1
        /\ \A p \in DOMAIN Tail(posted) : Tail(posted)[p] = posted[p + 1] /\ p + 1 \in DOMAIN posted /\ 1 < p + 1
    BY <1>1, <1>7, TailFacts
  <2>4. CASE Head(posted) = Connected
    <3>1. Len(posted) = 1
      BY <2>3, <2>4, <1>1 DEF Dialled
    <3>2. Tail(posted) = <<>>
      BY <3>1, <2>1, <2>3
    <3> QED BY <3>2, <2>1, <2>2 DEF Holds
  <2>5. CASE Head(posted) = Resolved
    <3>1. \A p \in DOMAIN Tail(posted) : Tail(posted)[p] \in DOMAIN ops /\ Settled(ops[Tail(posted)[p]])
      BY <2>3, <2>5, <1>1 DEF Dialled
    <3>2. ~Holds(Tail(posted), Resolved) /\ ~Holds(Tail(posted), Connected)
      BY <3>1, <1>3 DEF Holds
    <3> QED BY <3>1, <3>2, <2>1, <2>2, <2>5, <1>3
  <2> QED BY <2>4, <2>5, <1>7
<1>8. CASE HandleResolve
  <2>1. /\ posted # <<>> /\ Head(posted) = Resolved /\ posted' = Tail(posted) /\ dial' \in {"connecting", "none"}
        /\ UNCHANGED <<writable, kernel, history>>
    BY <1>8 DEF HandleResolve
  <2>2. Dialled(ops, posted', dial')
    BY <2>1, <1>7 DEF Dialled, Holds
  <2> QED BY <2>1, <2>2, <1>7
<1>9. CASE HandleConnected
  <2>1. /\ posted # <<>> /\ Head(posted) = Connected /\ posted' = Tail(posted) /\ dial' = "none"
        /\ \/ writable' = TRUE /\ kernel' = Append(kernel, <<>>) /\ requested' = 0 /\ closedby' = 0
           \/ UNCHANGED <<writable, kernel, history>>
    BY <1>9 DEF HandleConnected
  <2>2. Dialled(ops, posted', dial')
    BY <2>1, <1>7 DEF Dialled, Holds
  <2>3. ASSUME NEW i \in DOMAIN ops PROVE ops[i].at = "done"
    <3>1. posted' = <<>> /\ Lists(ops, reactor, posted', {}) /\ reactor = <<>>
      BY <2>1, <1>2, <1>7
    <3>2. ~Holds(posted', i) /\ ~Holds(reactor, i)
      BY <3>1 DEF Holds
    <3>3. ops[i].at # "waiting" /\ ops[i].at # "posted"
      BY <3>1, <3>2 DEF Lists
    <3>4. ops[i].at \in {"new", "waiting", "posted", "done"} /\ ops[i].at # "new"
      <4>1. ops[i] \in Write /\ ops[i].at # "new"
        BY DEF SafeInv, WriteTypes, Buffered
      <4> QED BY <4>1 DEF Write
    <3> QED BY <3>3, <3>4
  <2> QED BY <2>1, <2>2, <2>3, <1>7
<1> QED BY <1>5, <1>6, <1>8, <1>9

(* Every step keeps the invariant, whether writes overlap or not. *)
LEMMA SafeStep == WriteBufferAssumption /\ SafeInv /\ [WriteNext]_writeVars => SafeInv'
<1> SUFFICES ASSUME WriteBufferAssumption, SafeInv, [WriteNext]_writeVars PROVE SafeInv'
  OBVIOUS
<1>1. CASE UNCHANGED writeVars
  <2>1. UNCHANGED <<writable, writebuf, room, moved, close_after_write, ops, reactor, posted, in_use, kernel, dial,
                    told, requested, closedby>>
    BY <1>1 DEF writeVars, encoded, io, history
  <2>2. WriteTypes' /\ ToldOnce'
    BY <2>1 DEF SafeInv, WriteTypes, ToldOnce, Conn
  <2>3. Buffered' /\ Queued'
    BY <2>1 DEF SafeInv, Buffered, Numbered, Queued, Conn
  <2>4. Owned(ops, in_use, {})' /\ Spared'
    BY <2>1 DEF SafeInv, Owned, Spared, Dialled, Conn
  <2> QED BY <2>2, <2>3, <2>4 DEF SafeInv
<1>2. ASSUME NEW k \in Takes, NEW close \in BOOLEAN, AsyncWrite(close, k) PROVE SafeInv'
  BY <1>2, AsyncWriteSafe
<1>3. ASSUME NEW k \in Takes, WriteCompletes(k) PROVE SafeInv'
  BY <1>3, WriteCompletesSafe
<1>4. ASSUME NEW k \in Takes, NEW err \in BOOLEAN, Writable(k, err) PROVE SafeInv'
  BY <1>4, WritableSafe
<1>5. CASE ReadErrorCloses
  BY <1>5, ReadErrorSafe
<1>6. CASE AsyncConnect \/ DialGoesOn \/ HandleResolve \/ HandleConnected
  BY <1>6, DialSafe
<1> QED BY <1>1, <1>2, <1>3, <1>4, <1>5, <1>6 DEF WriteNext

(* A connection begins with nothing written. *)
LEMMA SafeInit == WriteBufferAssumption /\ WriteInit => SafeInv
<1> SUFFICES ASSUME WriteBufferAssumption, WriteInit PROVE SafeInv
  OBVIOUS
<1>1. /\ writable = TRUE /\ writebuf = <<>> /\ room = WriteCapacity /\ moved = 0
      /\ close_after_write = FALSE /\ ops = <<>> /\ reactor = <<>> /\ posted = <<>> /\ in_use = FALSE
      /\ kernel = <<<<>>>> /\ dial = "none" /\ told = <<>> /\ requested = 0 /\ closedby = 0
  BY DEF WriteInit
<1>2. kernel \in Seq(Seq(Nat)) /\ Len(kernel) = 1
  <2>1. <<>> \in Seq(Nat)
    OBVIOUS
  <2> QED BY <2>1, <1>1
<1>3. WriteTypes
  <2>1. writebuf \in Seq(Nat) /\ reactor \in Seq(Nat) /\ posted \in Seq(Nat) /\ told \in Seq(Nat) /\ ops \in Seq(Write)
    BY <1>1
  <2>2. room \in Nat /\ moved \in Nat /\ requested \in Nat /\ closedby \in Nat
    BY <1>1 DEF WriteBufferAssumption
  <2>3. /\ writable \in BOOLEAN /\ close_after_write \in BOOLEAN /\ in_use \in BOOLEAN
        /\ dial \in {"none", "resolving", "connecting", "posted"}
    BY <1>1
  <2>4. Conn >= 1
    BY <1>2 DEF Conn
  <2> QED BY <2>1, <2>2, <2>3, <2>4, <1>2 DEF WriteTypes
<1>4. Buffered
  BY <1>1, <1>2 DEF Buffered, Numbered, WriteBufferAssumption
<1>5. Queued
  BY <1>1 DEF Queued, Lists, Distinct, Holds
<1>6. Owned(ops, in_use, {})
  BY <1>1 DEF Owned
<1>7. Spared
  BY <1>1 DEF Spared, Dialled, Holds
<1>8. ToldOnce
  <2>1. told = [c \in DOMAIN told |-> c] /\ Len(told) = 0
    BY <1>1
  <2> QED BY <2>1, <1>1, <1>2 DEF ToldOnce, Conn
<1> QED BY <1>3, <1>4, <1>5, <1>6, <1>7, <1>8 DEF SafeInv

(* What the invariant means: the block has one owner, old writes spare a new connection, and
   the session is told of each end once. *)
LEMMA SafeMeans == SafeInv => NewConnectionSpared /\ ToldOnce /\ BlockOfOne
<1> SUFFICES ASSUME SafeInv PROVE NewConnectionSpared /\ ToldOnce /\ BlockOfOne
  OBVIOUS
<1>1. NewConnectionSpared
  BY DEF SafeInv, Spared, NewConnectionSpared, Outstanding
<1> DEFINE held == {i \in Outstanding : ops[i].block = "storage"}
<1>2. held # {} => in_use
  BY DEF SafeInv, Owned, Outstanding
<1>3. \A i, j \in held : i = j
  BY DEF SafeInv, Owned, Outstanding
<1>4. Cardinality(held) <= 1
  <2> HIDE DEF held
  <2>1. CASE held = {}
    BY <2>1, FS_EmptySet
  <2>2. CASE held # {}
    <3>1. PICK x \in held : TRUE
      BY <2>2
    <3>2. held = {x}
      BY <3>1, <1>3
    <3> QED BY <3>2, FS_Singleton
  <2> QED BY <2>1, <2>2
<1>5. BlockOfOne
  BY <1>2, <1>4 DEF BlockOfOne
<1> QED BY <1>1, <1>5 DEF SafeInv

-----------------------------------------------------------------------------
(* Writes that do not overlap. *)

(* What is known of the connections and the writes. *)
LEMMA QuietFacts ==
    ASSUME SafeInv
    PROVE  /\ ops \in Seq(Write) /\ Len(ops) \in Nat /\ DOMAIN ops = 1 .. Len(ops)
           /\ kernel \in Seq(Seq(Nat)) /\ DOMAIN kernel = 1 .. Conn /\ Conn \in Nat /\ Conn >= 1
           /\ \A i \in DOMAIN ops : /\ ops[i] \in Write /\ ops[i].len = i /\ ops[i].sent \in Nat
                                    /\ ops[i].sent <= i /\ ops[i].conn \in 1 .. Conn
           /\ \A c : /\ \A k \in 0 .. Len(ops) : Carried(ops, c)[k] \in Seq(Nat)
                     /\ Len(ops) > 0 => Carried(ops, c)[Len(ops)] =
                          IF ops[Len(ops)].conn = c THEN Carried(ops, c)[Len(ops) - 1] \o Upto(Len(ops))
                          ELSE Carried(ops, c)[Len(ops) - 1]
<1>1. /\ ops \in Seq(Write) /\ Len(ops) \in Nat /\ DOMAIN ops = 1 .. Len(ops)
      /\ kernel \in Seq(Seq(Nat)) /\ DOMAIN kernel = 1 .. Conn /\ Conn \in Nat /\ Conn >= 1
  BY DEF SafeInv, WriteTypes, Conn
<1>2. ASSUME NEW i \in DOMAIN ops
      PROVE  ops[i] \in Write /\ ops[i].len = i /\ ops[i].sent \in Nat /\ ops[i].sent <= i /\ ops[i].conn \in 1 .. Conn
  <2>1. ops[i] \in Write
    BY <1>1
  <2>2. ops[i].sent \in Nat
    BY <2>1 DEF Write
  <2> QED BY <2>1, <2>2 DEF SafeInv, Buffered, Numbered
<1>3. ASSUME NEW c
      PROVE  /\ \A k \in 0 .. Len(ops) : Carried(ops, c)[k] \in Seq(Nat)
             /\ Len(ops) > 0 => Carried(ops, c)[Len(ops)] =
                  IF ops[Len(ops)].conn = c THEN Carried(ops, c)[Len(ops) - 1] \o Upto(Len(ops))
                  ELSE Carried(ops, c)[Len(ops) - 1]
  <2>1. \A k \in 0 .. Len(ops) : Carried(ops, c)[k] \in Seq(Nat)
    BY <1>1, CarriedSteps, ZenonT(30)
  <2>2. ASSUME Len(ops) > 0
        PROVE  Carried(ops, c)[Len(ops)] =
                  IF ops[Len(ops)].conn = c THEN Carried(ops, c)[Len(ops) - 1] \o Upto(Len(ops))
                  ELSE Carried(ops, c)[Len(ops) - 1]
    <3> DEFINE n == Len(ops)
    <3>1. n \in Nat /\ n > 0 /\ DOMAIN ops = 1 .. n
      BY <1>1, <2>2
    <3> HIDE DEF n
    <3>2. n \in 1 .. n
      BY <3>1
    <3>3. ops[n].len = n
      BY <3>1, <3>2, <1>2
    <3>4. Carried(ops, c)[n] = IF ops[n].conn = c THEN Carried(ops, c)[n - 1] \o Upto(ops[n].len)
                               ELSE Carried(ops, c)[n - 1]
      <4>1. n \in 1 .. Len(ops)
        BY <3>2 DEF n
      <4>2. \A k \in 1 .. Len(ops) :
              Carried(ops, c)[k] = IF ops[k].conn = c THEN Carried(ops, c)[k - 1] \o Upto(ops[k].len)
                                   ELSE Carried(ops, c)[k - 1]
        BY <1>1, CarriedSteps
      <4> QED BY <4>1, <4>2
    <3> QED BY <3>3, <3>4 DEF n
  <2> QED BY <2>1, <2>2
<1> QED BY <1>1, <1>2, <1>3

(* A connection has carried a beginning of what it was given; all of it, if the last write
   is complete. *)
LEMMA WirePrefix ==
    ASSUME SafeInv, WireSound
    PROVE  /\ \A c \in 1 .. Conn : PartOf(kernel[c], Carried(ops, c)[Len(ops)])
           /\ (Mine => ops[Len(ops)].sent = Len(ops)) => kernel[Conn] = Carried(ops, Conn)[Len(ops)]
<1>1. CASE ~Mine
  <2>1. kernel[Conn] = Carried(ops, Conn)[Len(ops)]
    BY <1>1 DEF WireSound
  <2>2. PartOf(kernel[Conn], Carried(ops, Conn)[Len(ops)])
    <3>1. Carried(ops, Conn)[Len(ops)] \in Seq(Nat) /\ 0 \in Nat
      BY QuietFacts
    <3> QED BY <2>1, <3>1, PrefixUpto
  <2>3. ASSUME NEW c \in 1 .. Conn, c # Conn PROVE PartOf(kernel[c], Carried(ops, c)[Len(ops)])
    <3>1. c \in 1 .. Conn - 1
      BY <2>3, QuietFacts
    <3> QED BY <3>1 DEF WireSound
  <2> QED BY <2>1, <2>2, <2>3
<1>2. CASE Mine
  <2> DEFINE n == Len(ops)
             before == Carried(ops, Conn)[n - 1]
  <2>1. n > 0 /\ n \in Nat /\ n \in DOMAIN ops /\ n - 1 \in 0 .. n /\ ops[n].conn = Conn
    BY <1>2, QuietFacts DEF Mine
  <2>2. before \in Seq(Nat) /\ ops[n].sent \in Nat /\ ops[n].sent <= n
    BY <2>1, QuietFacts
  <2>3. Carried(ops, Conn)[n] = before \o Upto(n) /\ kernel[Conn] = before \o Upto(ops[n].sent)
    BY <1>2, <2>1, QuietFacts DEF WireSound
  <2> HIDE DEF n, before
  <2>4. PartOf(kernel[Conn], Carried(ops, Conn)[n])
    BY <2>1, <2>2, <2>3, PrefixUpto
  <2>5. ASSUME NEW c \in 1 .. Conn, c # Conn PROVE PartOf(kernel[c], Carried(ops, c)[n])
    <3>1. c \in 1 .. Conn - 1
      BY <2>5, QuietFacts
    <3> QED BY <3>1 DEF WireSound, n
  <2>6. ops[n].sent = n => kernel[Conn] = Carried(ops, Conn)[n]
    BY <2>3
  <2> QED BY <2>4, <2>5, <2>6, <1>2 DEF n
<1> QED BY <1>1, <1>2

(* A step that leaves what was sent. *)
LEMMA QuietSame ==
    ASSUME SafeInv, SafeInv', OneAtATime, WireSound, kernel' = kernel, moved' = moved, Len(ops') = Len(ops),
           \A j \in DOMAIN ops : /\ ops'[j].conn = ops[j].conn /\ ops'[j].sent = ops[j].sent
                                 /\ ops'[j].moved = ops[j].moved
                                 /\ ops'[j].at # "done" => ops[j].at # "done"
    PROVE  OneAtATime' /\ WireSound' /\ (Mine' <=> Mine) /\ Conn' = Conn
<1>1. /\ ops' \in Seq(Write) /\ DOMAIN ops' = DOMAIN ops /\ Conn' = Conn /\ Len(ops) \in Nat
      /\ DOMAIN ops = 1 .. Len(ops) /\ ops \in Seq(Write)
      /\ \A j \in DOMAIN ops : ops'[j].len = ops[j].len
  <2>1. ops' \in Seq(Write)
    BY DEF SafeInv, WriteTypes
  <2>2. \A j \in DOMAIN ops' : ops'[j].len = j
    BY DEF SafeInv, Buffered, Numbered
  <2> QED BY <2>1, <2>2, QuietFacts DEF Conn
<1>2. Mine' <=> Mine
  BY <1>1 DEF Mine
<1>3. OneAtATime'
  BY <1>1 DEF OneAtATime
<1>4. \A c : \A k \in 0 .. Len(ops) : Carried(ops', c)[k] = Carried(ops, c)[k]
  BY <1>1, CarriedSame
<1>5. WireSound'
  <2>1. ASSUME NEW c \in 1 .. Conn - 1 PROVE PartOf(kernel'[c], Carried(ops', c)[Len(ops')])
    BY <1>1, <1>4 DEF WireSound
  <2>2. ASSUME Mine PROVE kernel'[Conn'] = Carried(ops', Conn')[Len(ops') - 1] \o Upto(ops'[Len(ops')].sent)
    <3>1. Len(ops) - 1 \in 0 .. Len(ops) /\ Len(ops) \in DOMAIN ops
      BY <2>2, <1>1 DEF Mine
    <3>2. kernel[Conn] = Carried(ops, Conn)[Len(ops) - 1] \o Upto(ops[Len(ops)].sent)
      BY <2>2 DEF WireSound
    <3>3. Carried(ops', Conn)[Len(ops) - 1] = Carried(ops, Conn)[Len(ops) - 1] /\ ops'[Len(ops)].sent = ops[Len(ops)].sent
      BY <3>1, <1>4
    <3> QED BY <3>2, <3>3, <1>1
  <2>3. ASSUME ~Mine PROVE kernel'[Conn'] = Carried(ops', Conn')[Len(ops')]
    <3>1. Carried(ops', Conn)[Len(ops)] = Carried(ops, Conn)[Len(ops)]
      BY <1>1, <1>4
    <3> QED BY <2>3, <3>1, <1>1 DEF WireSound
  <2> QED BY <2>1, <2>2, <2>3, <1>1, <1>2 DEF WireSound
<1> QED BY <1>1, <1>2, <1>3, <1>5

(* A step that sends k tokens of the last write. *)
LEMMA QuietSends ==
    ASSUME SafeInv, SafeInv', OneAtATime, WireSound, NEW k \in Nat, NEW i \in DOMAIN ops, ops[i].at # "done",
           writable, writebuf' = writebuf, moved' = moved, Len(ops') = Len(ops),
           k <= ops[i].len - ops[i].sent,
           kernel' = [kernel EXCEPT ![Conn] = @ \o Tokens(ops[i], k)],
           \A j \in DOMAIN ops : /\ ops'[j].conn = ops[j].conn /\ ops'[j].moved = ops[j].moved
                                 /\ j # i => ops'[j].sent = ops[j].sent
                                 /\ ops'[j].at # "done" => ops[j].at # "done",
           ops'[i].sent = ops[i].sent + k
    PROVE  OneAtATime' /\ WireSound' /\ Mine /\ Mine' /\ Conn' = Conn /\ i = Len(ops)
<1> DEFINE n == Len(ops)
           before == Carried(ops, Conn)[n - 1]
           taken == ops[n].sent
<1>1. i = n /\ ops[i].moved = moved
  BY DEF OneAtATime
<1>2. /\ n \in Nat /\ n > 0 /\ n \in DOMAIN ops /\ n - 1 \in 0 .. n /\ taken \in Nat /\ ops[n].len = n
      /\ DOMAIN ops = 1 .. n /\ ops \in Seq(Write) /\ kernel \in Seq(Seq(Nat)) /\ DOMAIN kernel = 1 .. Conn
      /\ Conn \in Nat /\ Conn >= 1 /\ before \in Seq(Nat)
  <2>1. n \in Nat /\ n > 0 /\ n \in DOMAIN ops /\ n - 1 \in 0 .. n
    BY <1>1, QuietFacts
  <2> QED BY <2>1, QuietFacts
<1>3. Mine
  BY <1>1, <1>2 DEF SafeInv, Spared, Mine
<1> HIDE DEF n, before, taken
<1>4. Tokens(ops[i], k) = [j \in 1 .. k |-> taken + j]
  <2>1. Tokens(ops[i], k) =
          [j \in 1 .. k |-> IF ops[i].moved = moved' THEN writebuf'[ops[i].sent + j] ELSE Freed]
    BY DEF Tokens
  <2>2. ASSUME NEW j \in 1 .. k PROVE writebuf[taken + j] = taken + j
    <3>1. Len(writebuf) = n /\ \A h \in DOMAIN writebuf : writebuf[h] = h
      BY DEF SafeInv, Buffered, n
    <3>2. writebuf \in Seq(Nat)
      BY DEF SafeInv, WriteTypes
    <3>3. k <= n - taken /\ j \in Nat /\ 1 <= j /\ j <= k
      BY <1>1, <1>2 DEF taken
    <3>4. taken + j \in 1 .. n
      BY <3>3, <1>2
    <3>5. taken + j \in DOMAIN writebuf
      BY <3>1, <3>2, <3>4
    <3> QED BY <3>1, <3>5
  <2> QED BY <2>1, <2>2, <1>1 DEF taken
<1>5. kernel[Conn] = before \o Upto(taken)
  BY <1>3 DEF WireSound, n, before, taken
<1>6. kernel[Conn] \o Tokens(ops[i], k) = before \o Upto(taken + k)
  <2>1. before \in Seq(Nat) /\ taken \in Nat /\ k \in Nat
    BY <1>2
  <2>2. (before \o Upto(taken)) \o [j \in 1 .. k |-> taken + j] = before \o Upto(taken + k)
    BY <2>1, UptoMore, Zenon
  <2> QED BY <2>2, <1>4, <1>5
<1>7. Conn \in DOMAIN kernel
  BY <1>2
<1>8. kernel'[Conn] = before \o Upto(taken + k) /\ Len(kernel') = Len(kernel)
      /\ \A c \in 1 .. Conn - 1 : kernel'[c] = kernel[c]
  BY <1>2, <1>6, <1>7, SMTT(30)
<1>9. /\ ops' \in Seq(Write) /\ DOMAIN ops' = DOMAIN ops /\ Conn' = Conn
      /\ \A j \in DOMAIN ops : ops'[j].len = ops[j].len
  <2>1. ops' \in Seq(Write)
    BY DEF SafeInv, WriteTypes
  <2>2. \A j \in DOMAIN ops' : ops'[j].len = j
    BY DEF SafeInv, Buffered, Numbered
  <2>3. DOMAIN ops' = DOMAIN ops /\ \A j \in DOMAIN ops : ops[j].len = j
    BY <2>1, QuietFacts
  <2> QED BY <2>1, <2>2, <2>3, <1>8 DEF Conn
<1>10. Mine'
  BY <1>2, <1>3, <1>9 DEF Mine, n
<1>11. OneAtATime'
  BY <1>9 DEF OneAtATime
<1>12. \A c : \A h \in 0 .. n : Carried(ops', c)[h] = Carried(ops, c)[h]
  <2>1. /\ ops \in Seq(Write) /\ ops' \in Seq(Write) /\ Len(ops) <= Len(ops') /\ Len(ops) = n
        /\ \A j \in 1 .. Len(ops) : ops[j].conn = ops'[j].conn /\ ops[j].len = ops'[j].len
    <3>1. Len(ops) = n /\ Len(ops') = n
      BY DEF n
    <3>2. Len(ops) <= Len(ops') /\ 1 .. Len(ops) = DOMAIN ops
      BY <3>1, <1>2
    <3>3. \A j \in DOMAIN ops : ops[j].conn = ops'[j].conn /\ ops[j].len = ops'[j].len
      BY <1>9
    <3> QED BY <3>1, <3>2, <3>3, <1>2, <1>9
  <2> QED BY <2>1, CarriedSame
<1>13. WireSound'
  <2>1. ASSUME NEW c \in 1 .. Conn - 1 PROVE PartOf(kernel'[c], Carried(ops', c)[Len(ops')])
    <3>1. PartOf(kernel[c], Carried(ops, c)[n])
      BY DEF WireSound, n
    <3>2. Carried(ops', c)[n] = Carried(ops, c)[n] /\ Len(ops') = n /\ kernel'[c] = kernel[c]
      BY <1>2, <1>8, <1>12, SMTT(30) DEF n
    <3> QED BY <3>1, <3>2
  <2>2. kernel'[Conn'] = Carried(ops', Conn')[Len(ops') - 1] \o Upto(ops'[Len(ops')].sent)
    <3>1. Carried(ops', Conn)[n - 1] = before
      BY <1>2, <1>12 DEF before
    <3>2. ops'[n].sent = taken + k /\ Len(ops') = n
      BY <1>1 DEF taken, n
    <3> QED BY <3>1, <3>2, <1>8, <1>9
  <2> QED BY <2>1, <2>2, <1>9, <1>10 DEF WireSound
<1> QED BY <1>1, <1>3, <1>9, <1>10, <1>11, <1>13 DEF n

(* Closing the connection moves writes from one list to the other, and that is all. *)
LEMMA OnPeerCloseWrites ==
    ASSUME NEW all \in Seq(Write), NEW rest, PeerClosed(all, rest)
    PROVE  /\ Len(ops') = Len(all)
           /\ \A j \in DOMAIN all : /\ ops'[j].conn = all[j].conn /\ ops'[j].sent = all[j].sent
                                    /\ ops'[j].moved = all[j].moved
                                    /\ ops'[j].at # "done" => all[j].at # "done"
<1>1. CASE ~writable
  BY <1>1 DEF PeerClosed
<1>2. CASE writable
  <2> DEFINE new(j) == IF all[j].at = "waiting" THEN [all[j] EXCEPT !.at = "posted", !.err = TRUE] ELSE all[j]
  <2>1. ops' = [j \in DOMAIN all |-> new(j)]
    BY <1>2 DEF PeerClosed
  <2>2. ASSUME NEW j \in DOMAIN all
        PROVE  /\ new(j).conn = all[j].conn /\ new(j).sent = all[j].sent /\ new(j).moved = all[j].moved
               /\ new(j).at # "done" => all[j].at # "done"
    <3>1. all[j] \in Write
      OBVIOUS
    <3> QED BY <3>1 DEF Write
  <2> HIDE DEF new
  <2>3. Len(ops') = Len(all) /\ \A j \in DOMAIN all : ops'[j] = new(j)
    BY <2>1
  <2> QED BY <2>2, <2>3
<1> QED BY <1>1, <1>2

(* A write that starts finds the others done, and the connection with all of theirs. *)
LEMMA QuietAsync ==
    ASSUME WriteBufferAssumption, SafeInv, SafeInv', ~Overlap, Turns,
           NEW close \in BOOLEAN, NEW k \in Takes, AsyncWrite(close, k)
    PROVE  Turns'
<1> DEFINE n == Len(ops)
           m == n + 1
           op == [moved |-> moved', len |-> Len(writebuf'), sent |-> 0, at |-> "new", err |-> FALSE,
                  block |-> "none", conn |-> Conn]
           all == Append(ops, op)
<1>1. /\ writable /\ Outstanding = {} /\ EncodeNext(m) /\ close_after_write' = close
      /\ requested' = (IF close THEN m ELSE 0)
      /\ WriteSome(m, all, in_use, posted, k) /\ UNCHANGED <<writable, dial, told, closedby>>
  BY DEF AsyncWrite, Start
<1>2. /\ ops \in Seq(Write) /\ ops' \in Seq(Write) /\ n \in Nat /\ DOMAIN ops = 1 .. n /\ k \in Nat
      /\ Conn \in Nat /\ Conn >= 1 /\ moved' \in Nat /\ writebuf \in Seq(Nat) /\ Len(writebuf) = n
      /\ writebuf' \in Seq(Nat) /\ Len(writebuf') = Len(ops') /\ in_use \in BOOLEAN /\ writable \in BOOLEAN
      /\ kernel \in Seq(Seq(Nat)) /\ DOMAIN kernel = 1 .. Conn
      /\ \A j \in DOMAIN writebuf' : writebuf'[j] = j
  BY QuietFacts DEF SafeInv, WriteTypes, Buffered, Takes
<1>3. Len(writebuf') = m
  BY <1>1, <1>2, AppendFacts DEF EncodeNext
<1>4. op \in Write
  BY <1>2, <1>3 DEF Write
<1>5. op.sent = 0 /\ op.conn = Conn /\ op.moved = moved'
  OBVIOUS
<1> HIDE DEF op
<1>6. /\ all \in Seq(Write) /\ Len(all) = m /\ DOMAIN all = 1 .. m /\ m \in DOMAIN all
      /\ all[m] = op /\ \A j \in DOMAIN ops : j \in DOMAIN all /\ all[j] = ops[j] /\ j # m
  BY <1>2, <1>4, AppendFacts
<1> HIDE DEF all, m
<1>7. PICK new \in Write :
        /\ ops' = [all EXCEPT ![m] = new]
        /\ new.conn = op.conn /\ new.moved = op.moved /\ new.at # "done"
        /\ \/ new.sent = op.sent /\ kernel' = kernel
           \/ /\ new.sent = op.sent + k /\ k \in Nat
              /\ k <= new.len - op.sent
              /\ kernel' = [kernel EXCEPT ![Conn] = @ \o Tokens(op, k)]
  <2>1. Effect(m, all, in_use, posted, k)
    <3>1. /\ all \in Seq(Write) /\ m \in DOMAIN all /\ in_use \in BOOLEAN /\ k \in Nat /\ writable \in BOOLEAN
          /\ WriteSome(m, all, in_use, posted, k)
      BY <1>1, <1>2, <1>6
    <3> QED BY <3>1, WriteSomeEffect, Zenon
  <2>2. PICK new \in Write :
          /\ ops' = [all EXCEPT ![m] = new]
          /\ new.conn = op.conn /\ new.moved = op.moved /\ new.len = op.len
          /\ \/ new.at = "posted" /\ new.sent = op.sent /\ kernel' = kernel
             \/ new.at = "waiting" /\ new.sent = op.sent /\ kernel' = kernel
             \/ /\ new.at = "posted" /\ new.sent = op.sent + k /\ k \in 1 .. new.len - op.sent
                /\ kernel' = [kernel EXCEPT ![Conn] = @ \o Tokens(op, k)]
    BY <2>1, <1>6 DEF Effect
  <2>3. k \in 1 .. new.len - op.sent => k <= new.len - op.sent
    BY <1>5, <2>2 DEF Write
  <2> QED BY <2>2, <2>3, <1>2
<1>8. /\ Len(ops') = m /\ DOMAIN ops' = 1 .. m /\ ops'[m] = new
      /\ \A j \in DOMAIN ops : ops'[j] = ops[j]
  BY <1>6, <1>7
<1>9. m = n + 1 /\ m \in Nat /\ m > 0 /\ m - 1 = n /\ m \in DOMAIN ops'
  BY <1>2, <1>8 DEF m
<1>10. new.sent \in Nat /\ new.len = m /\ new.sent <= m
  <2>1. new.sent \in Nat
    BY DEF Write
  <2>2. ops'[m].len = m /\ ops'[m].sent <= m
    BY <1>9 DEF SafeInv, Buffered, Numbered
  <2> QED BY <2>1, <2>2, <1>8
<1> HIDE DEF n
<1>11. /\ kernel'[Conn] = kernel[Conn] \o Upto(new.sent) /\ Len(kernel') = Len(kernel)
       /\ \A c \in 1 .. Conn - 1 : kernel'[c] = kernel[c]
  <2>1. kernel[Conn] \in Seq(Nat)
    BY <1>2
  <2>2. CASE new.sent = op.sent /\ kernel' = kernel
    <3>1. Upto(new.sent) = <<>>
      BY <2>2, <1>5 DEF Upto
    <3> QED BY <2>1, <2>2, <3>1
  <2>3. CASE new.sent = op.sent + k /\ kernel' = [kernel EXCEPT ![Conn] = @ \o Tokens(op, k)]
    <3>1. new.sent = k
      BY <2>3, <1>2, <1>5
    <3>2. Tokens(op, k) = [j \in 1 .. k |-> writebuf'[0 + j]]
      BY <1>5 DEF Tokens
    <3>3. ASSUME NEW j \in 1 .. k PROVE writebuf'[0 + j] = j
      <4>1. j \in 1 .. Len(writebuf') /\ 0 + j = j
        BY <3>1, <1>2, <1>3, <1>9, <1>10
      <4> QED BY <4>1, <1>2
    <3>4. Tokens(op, k) = Upto(k)
      BY <3>2, <3>3 DEF Upto
    <3>5. Conn \in DOMAIN kernel /\ \A c \in 1 .. Conn - 1 : c \in DOMAIN kernel /\ c # Conn
      BY <1>2
    <3>6. kernel' = [kernel EXCEPT ![Conn] = kernel[Conn] \o Upto(new.sent)]
      BY <2>3, <3>1, <3>4
    <3>7. kernel'[Conn] = kernel[Conn] \o Upto(new.sent) /\ \A c \in 1 .. Conn - 1 : kernel'[c] = kernel[c]
      BY <3>5, <3>6
    <3>8. Len(kernel') = Len(kernel)
      BY <3>6, <1>2
    <3> QED BY <3>7, <3>8
  <2> QED BY <2>2, <2>3, <1>7
<1>12. Conn' = Conn
  BY <1>11 DEF Conn
<1>13. Mine'
  BY <1>5, <1>7, <1>8, <1>9, <1>12 DEF Mine
<1>14. kernel[Conn] = Carried(ops, Conn)[n]
  <2>1. ASSUME Mine PROVE ops[n].sent = n
    <3>1. n \in DOMAIN ops
      BY <2>1, <1>2 DEF Mine, n
    <3>2. ops[n].at = "done"
      BY <3>1, <1>1 DEF Outstanding
    <3> QED BY <2>1, <3>2, <1>1 DEF Turns, EndSound, n
  <2> QED BY <2>1, WirePrefix DEF Turns, n
<1>15. \A c : Carried(ops', c)[n] = Carried(ops, c)[n]
  <2>1. Len(ops) <= Len(ops') /\ n \in 0 .. Len(ops) /\ 1 .. Len(ops) = DOMAIN ops
    BY <1>2, <1>8, <1>9 DEF n
  <2>2. \A j \in DOMAIN ops : ops[j].conn = ops'[j].conn /\ ops[j].len = ops'[j].len
    BY <1>8
  <2>3. \A j \in 1 .. Len(ops) : ops[j].conn = ops'[j].conn /\ ops[j].len = ops'[j].len
    BY <2>1, <2>2
  <2>4. ops \in Seq(Write) /\ ops' \in Seq(Write)
    BY <1>2
  <2>5. \A c : \A j \in 0 .. Len(ops) : Carried(ops, c)[j] = Carried(ops', c)[j]
    BY <2>1, <2>3, <2>4, CarriedSame
  <2> QED BY <2>1, <2>5
<1>16. WireSound'
  <2>1. ASSUME NEW c \in 1 .. Conn - 1 PROVE PartOf(kernel'[c], Carried(ops', c)[Len(ops')])
    <3>1. ops'[m].conn # c /\ m \in 1 .. Len(ops')
      BY <1>2, <1>5, <1>7, <1>8, <1>9
    <3>2. Carried(ops', c)[m] = Carried(ops', c)[m - 1]
      <4>1. \A j \in 1 .. Len(ops') :
              Carried(ops', c)[j] = IF ops'[j].conn = c THEN Carried(ops', c)[j - 1] \o Upto(ops'[j].len)
                                    ELSE Carried(ops', c)[j - 1]
        <5>1. ops' \in Seq(Write)
          BY <1>2
        <5> QED BY <5>1, CarriedSteps
      <4>2. m \in 1 .. Len(ops')
        BY <1>8, <1>9
      <4> QED BY <4>1, <4>2, <3>1
    <3>3. Carried(ops', c)[m] = Carried(ops, c)[n]
      BY <3>2, <1>9, <1>15
    <3>4. PartOf(kernel[c], Carried(ops, c)[n])
      BY DEF Turns, WireSound, n
    <3> QED BY <3>3, <3>4, <1>8, <1>11
  <2>2. kernel'[Conn'] = Carried(ops', Conn')[Len(ops') - 1] \o Upto(ops'[Len(ops')].sent)
    BY <1>8, <1>9, <1>11, <1>12, <1>14, <1>15
  <2> QED BY <2>1, <2>2, <1>12, <1>13 DEF WireSound
<1>17. OneAtATime'
  <2>1. ASSUME NEW j \in DOMAIN ops', ops'[j].at # "done" PROVE j = m
    <3>1. CASE j \in DOMAIN ops
      BY <3>1, <2>1, <1>1, <1>8 DEF Outstanding
    <3>2. CASE j \notin DOMAIN ops
      BY <3>2, <1>2, <1>8, <1>9
    <3> QED BY <3>1, <3>2
  <2>2. ops'[m].moved = moved'
    BY <1>5, <1>7, <1>8
  <2> QED BY <2>1, <2>2, <1>8 DEF OneAtATime
<1>18. EndSound'
  <2>1. closedby' = 0
    BY <1>1 DEF Turns, EndSound
  <2>2. requested' = IF close_after_write' THEN m ELSE 0
    BY <1>1
  <2>3. ops'[m].at # "done"
    BY <1>7, <1>8
  <2> QED BY <2>1, <2>2, <2>3, <1>8 DEF EndSound
<1> QED BY <1>16, <1>17, <1>18 DEF Turns

(* A write that is gone on with is the last one; if it is done, and closes the connection,
   all of it was sent. *)
LEMMA QuietCompletes ==
    ASSUME WriteBufferAssumption, SafeInv, SafeInv', Turns, NEW k \in Takes, WriteCompletes(k)
    PROVE  Turns'
<1> DEFINE i == Head(posted)
           n == Len(ops)
           used == deallocate(ops[i])
<1>1. /\ posted # <<>> /\ i \in DOMAIN ops /\ UNCHANGED <<encoded, close_after_write, dial, requested>>
      /\ IF ops[i].err \/ ops[i].sent = ops[i].len
         THEN HandleWrite(i) /\ kernel' = kernel
         ELSE WriteSome(i, ops, used, Tail(posted), k) /\ UNCHANGED <<writable, told, closedby>>
  BY DEF WriteCompletes
<1>2. /\ ops \in Seq(Write) /\ ops[i] \in Write /\ n \in Nat /\ DOMAIN ops = 1 .. n /\ k \in Nat
      /\ ops[i].len = i /\ ops[i].sent \in Nat /\ ops[i].sent <= i /\ writable \in BOOLEAN
      /\ kernel \in Seq(Seq(Nat)) /\ used \in BOOLEAN
  <2>1. k \in Nat /\ writable \in BOOLEAN
    BY DEF Takes, SafeInv, WriteTypes
  <2>2. used \in BOOLEAN
    BY DEF SafeInv, WriteTypes, deallocate
  <2>3. ops \in Seq(Write) /\ n \in Nat /\ DOMAIN ops = 1 .. n /\ kernel \in Seq(Seq(Nat))
    BY QuietFacts
  <2>4. ops[i] \in Write /\ ops[i].len = i /\ ops[i].sent \in Nat /\ ops[i].sent <= i
    BY <1>1, QuietFacts
  <2> QED BY <2>1, <2>2, <2>3, <2>4
<1>3. ops[i].at = "posted"
  <2>1. ops \in Seq(Write) /\ reactor \in Seq(Nat) /\ posted \in Seq(Nat) /\ Lists(ops, reactor, posted, {})
    BY DEF SafeInv, WriteTypes, Queued
  <2> QED BY <2>1, <1>1, ListsTake
<1>4. i = n /\ n > 0
  BY <1>1, <1>2, <1>3 DEF Turns, OneAtATime
<1>5. writable => ops[i].conn = Conn /\ Mine
  <2>1. writable => ops[i].conn = Conn
    BY <1>1, <1>3 DEF SafeInv, Spared
  <2> QED BY <2>1, <1>4 DEF Mine
<1>6. UNCHANGED <<writebuf, room, moved, close_after_write, requested>>
  BY <1>1 DEF encoded
<1> HIDE DEF i, n, used
<1>7. CASE ops[i].err \/ ops[i].sent = ops[i].len
  <2> DEFINE all == [ops EXCEPT ![i].at = "done"]
  <2>1. /\ HandleWrite(i) /\ kernel' = kernel
    BY <1>1, <1>7
  <2>2. /\ all \in Seq(Write) /\ Len(all) = Len(ops) /\ DOMAIN all = DOMAIN ops
        /\ all[i] = [ops[i] EXCEPT !.at = "done"]
        /\ \A j \in DOMAIN ops : j # i => all[j] = ops[j]
    <3>1. [ops[i] EXCEPT !.at = "done"] \in Write
      BY <1>2 DEF Write
    <3> QED BY <3>1, <1>1, <1>2
  <2>3. \A j \in DOMAIN ops : /\ all[j].conn = ops[j].conn /\ all[j].sent = ops[j].sent /\ all[j].moved = ops[j].moved
                              /\ all[j].at # "done" => ops[j].at # "done"
    <3>1. /\ all[i].at = "done" /\ all[i].conn = ops[i].conn /\ all[i].sent = ops[i].sent
          /\ all[i].moved = ops[i].moved
      BY <1>2, <2>2 DEF Write
    <3> QED BY <3>1, <2>2
  <2>4. \/ /\ PeerClosed(all, Tail(posted)) /\ (ops[i].err \/ close_after_write)
           /\ closedby' = (IF ops[i].err \/ ~writable THEN closedby ELSE i)
        \/ ops' = all /\ ~ops[i].err /\ writable' = writable /\ closedby' = closedby
    BY <2>1 DEF HandleWrite
  <2> HIDE DEF all
  <2>5. /\ Len(ops') = Len(ops)
        /\ \A j \in DOMAIN ops : /\ ops'[j].conn = ops[j].conn /\ ops'[j].sent = ops[j].sent /\ ops'[j].moved = ops[j].moved
                                 /\ ops'[j].at # "done" => ops[j].at # "done"
    <3>1. CASE ops' = all
      BY <3>1, <2>2, <2>3
    <3>2. CASE PeerClosed(all, Tail(posted))
      <4>1. /\ Len(ops') = Len(all)
            /\ \A j \in DOMAIN all : /\ ops'[j].conn = all[j].conn /\ ops'[j].sent = all[j].sent
                                     /\ ops'[j].moved = all[j].moved
                                     /\ ops'[j].at # "done" => all[j].at # "done"
        BY <3>2, <2>2, <1>2, OnPeerCloseWrites
      <4> QED BY <4>1, <2>2, <2>3
    <3> QED BY <3>1, <3>2, <2>4
  <2>6. OneAtATime' /\ WireSound' /\ (Mine' <=> Mine) /\ Conn' = Conn
    BY <2>1, <2>5, <1>6, QuietSame DEF Turns
  <2>7. n \in DOMAIN ops /\ Len(ops') = n /\ ops'[n].sent = ops[n].sent
    BY <2>5, <1>1, <1>4 DEF n
  <2>8. EndSound'
    <3>1. CASE ops' = all /\ ~ops[i].err /\ writable' = writable /\ closedby' = closedby
      <4>1. ops[n].sent = n
        BY <3>1, <1>2, <1>4, <1>7
      <4> QED BY <3>1, <4>1, <2>6, <2>7, <1>6 DEF Turns, EndSound, n
    <3>2. CASE /\ PeerClosed(all, Tail(posted)) /\ (ops[i].err \/ close_after_write)
               /\ closedby' = (IF ops[i].err \/ ~writable THEN closedby ELSE i)
      <4>1. writable' = FALSE
        BY <3>2 DEF PeerClosed
      <4>2. CASE closedby' = closedby
        BY <4>1, <4>2, <2>6, <2>7, <1>6 DEF Turns, EndSound, n
      <4>3. CASE ~ops[i].err /\ writable
        <5>1. closedby' = n /\ Mine /\ close_after_write /\ ops[n].sent = n
          BY <4>3, <3>2, <1>2, <1>4, <1>5, <1>7
        <5>2. requested = n
          BY <4>3, <5>1 DEF Turns, EndSound, n
        <5> QED BY <4>1, <5>1, <5>2, <2>6, <2>7, <1>6 DEF EndSound
      <4> QED BY <4>2, <4>3, <3>2
    <3> QED BY <3>1, <3>2, <2>4
  <2> QED BY <2>6, <2>8 DEF Turns
<1>8. CASE ~(ops[i].err \/ ops[i].sent = ops[i].len)
  <2>1. WriteSome(i, ops, used, Tail(posted), k) /\ UNCHANGED <<writable, told, closedby>>
    BY <1>1, <1>8
  <2>2. Effect(i, ops, used, Tail(posted), k)
    BY <2>1, <1>1, <1>2, WriteSomeEffect
  <2>3. PICK op \in Write :
          /\ ops' = [ops EXCEPT ![i] = op]
          /\ op.conn = ops[i].conn /\ op.moved = ops[i].moved /\ op.at # "done" /\ op.len = ops[i].len
          /\ \/ op.sent = ops[i].sent /\ kernel' = kernel
             \/ /\ writable /\ op.sent = ops[i].sent + k /\ k \in 1 .. op.len - ops[i].sent
                /\ kernel' = [kernel EXCEPT ![Conn] = @ \o Tokens(ops[i], k)]
    BY <2>2 DEF Effect
  <2>4. Len(ops') = Len(ops) /\ ops'[i] = op /\ \A j \in DOMAIN ops : j # i => ops'[j] = ops[j]
    BY <2>3, <1>1, <1>2
  <2>5. \A j \in DOMAIN ops : /\ ops'[j].conn = ops[j].conn /\ ops'[j].moved = ops[j].moved
                              /\ ops'[j].at # "done" => ops[j].at # "done"
    BY <2>3, <2>4, <1>3
  <2>6. OneAtATime' /\ WireSound' /\ (Mine' <=> Mine) /\ Conn' = Conn
    <3>1. CASE op.sent = ops[i].sent /\ kernel' = kernel
      <4>1. \A j \in DOMAIN ops : ops'[j].sent = ops[j].sent
        BY <3>1, <2>4
      <4> QED BY <3>1, <4>1, <2>4, <2>5, <1>6, QuietSame DEF Turns
    <3>2. CASE /\ writable /\ op.sent = ops[i].sent + k /\ k \in 1 .. op.len - ops[i].sent
               /\ kernel' = [kernel EXCEPT ![Conn] = @ \o Tokens(ops[i], k)]
      <4>1. k <= ops[i].len - ops[i].sent
        <5>1. k \in 1 .. i - ops[i].sent /\ i \in Nat
          BY <3>2, <2>3, <1>1, <1>2
        <5> QED BY <5>1, <1>2
      <4>2. ops'[i].sent = ops[i].sent + k /\ \A j \in DOMAIN ops : j # i => ops'[j].sent = ops[j].sent
        BY <3>2, <2>4
      <4> QED BY <3>2, <4>1, <4>2, <2>4, <2>5, <1>1, <1>2, <1>3, <1>6, QuietSends DEF Turns
    <3> QED BY <3>1, <3>2, <2>3
  <2>7. Len(ops') = n /\ ops'[n].at # "done"
    BY <2>3, <2>4, <1>4 DEF n
  <2>8. closedby # 0 => ops[n].sent = n
    BY DEF Turns, EndSound, n
  <2>9. ops[n].sent # n
    BY <1>2, <1>4, <1>8
  <2>10. closedby' = 0
    BY <2>1, <2>8, <2>9
  <2>11. EndSound'
    BY <2>1, <2>6, <2>7, <2>10, <1>6 DEF Turns, EndSound, n
  <2> QED BY <2>6, <2>11 DEF Turns
<1> QED BY <1>7, <1>8

(* What the socket takes is of the last write. *)
LEMMA QuietWritable ==
    ASSUME WriteBufferAssumption, SafeInv, SafeInv', Turns, NEW k \in Takes, NEW err \in BOOLEAN, Writable(k, err)
    PROVE  Turns'
<1> DEFINE i == Head(reactor)
           n == Len(ops)
           op == [ops[i] EXCEPT !.at = "posted", !.sent = @ + k, !.err = err]
<1>1. /\ reactor # <<>> /\ UNCHANGED <<writable, encoded, close_after_write, in_use, dial, told, history>>
      /\ (IF err THEN k = 0 ELSE k \in 1 .. (ops[i].len - ops[i].sent))
      /\ kernel' = [kernel EXCEPT ![Conn] = @ \o Tokens(ops[i], k)]
      /\ ops' = [ops EXCEPT ![i] = op]
  BY DEF Writable
<1>2. i \in DOMAIN ops /\ ops[i].at = "waiting" /\ writable
  <2>1. /\ reactor \in Seq(Nat) /\ \A p \in DOMAIN reactor : reactor[p] \in DOMAIN ops
        /\ \A j \in DOMAIN ops : ops[j].at = "waiting" <=> Holds(reactor, j)
    BY DEF SafeInv, WriteTypes, Queued, Lists
  <2>2. 1 \in DOMAIN reactor /\ reactor[1] = i
    BY <2>1, <1>1
  <2>3. Holds(reactor, i)
    BY <2>2 DEF Holds
  <2> QED BY <2>1, <2>2, <2>3, <1>1 DEF SafeInv, Spared
<1>3. /\ ops \in Seq(Write) /\ ops[i] \in Write /\ n \in Nat /\ DOMAIN ops = 1 .. n
      /\ ops[i].len \in Nat /\ ops[i].sent \in Nat /\ ops[i].sent <= ops[i].len
  <2>1. ops \in Seq(Write) /\ n \in Nat /\ DOMAIN ops = 1 .. n
    BY QuietFacts
  <2>2. ops[i] \in Write /\ ops[i].len = i /\ ops[i].sent \in Nat /\ ops[i].sent <= i
    BY <1>2, QuietFacts
  <2>3. i \in Nat
    BY <2>1, <1>2
  <2> QED BY <2>1, <2>2, <2>3
<1>4. k \in Nat /\ k <= ops[i].len - ops[i].sent
  <2>1. k \in Nat
    BY DEF Takes
  <2> QED BY <2>1, <1>1, <1>3
<1>5. op.at = "posted" /\ op.sent = ops[i].sent + k /\ op.conn = ops[i].conn /\ op.moved = ops[i].moved
  BY <1>3 DEF Write
<1> HIDE DEF i, n, op
<1>6. Len(ops') = Len(ops) /\ ops'[i] = op /\ \A j \in DOMAIN ops : j # i => ops'[j] = ops[j]
  BY <1>1, <1>2, <1>3
<1>7. UNCHANGED <<writebuf, moved, close_after_write, requested, closedby, writable>>
  BY <1>1 DEF encoded, history
<1>8. \A j \in DOMAIN ops : /\ ops'[j].conn = ops[j].conn /\ ops'[j].moved = ops[j].moved
                            /\ j # i => ops'[j].sent = ops[j].sent
                            /\ ops'[j].at # "done" => ops[j].at # "done"
  BY <1>2, <1>5, <1>6
<1>9. ops'[i].sent = ops[i].sent + k /\ ops[i].at # "done"
  BY <1>2, <1>5, <1>6
<1>10. OneAtATime' /\ WireSound' /\ Mine /\ Mine' /\ i = Len(ops)
  BY <1>1, <1>2, <1>4, <1>6, <1>7, <1>8, <1>9, QuietSends DEF Turns
<1>11. EndSound'
  <2>1. closedby = 0 /\ requested = IF close_after_write THEN Len(ops) ELSE 0
    BY <1>2, <1>10 DEF Turns, EndSound
  <2>2. ops'[Len(ops')].at # "done"
    BY <1>5, <1>6, <1>10
  <2> QED BY <2>1, <2>2, <1>6, <1>7 DEF EndSound
<1> QED BY <1>10, <1>11 DEF Turns

(* A read that fails ends the connection, but not behind a write. *)
LEMMA QuietReadError ==
    ASSUME SafeInv, SafeInv', Turns, ReadErrorCloses
    PROVE  Turns'
<1>1. /\ writable /\ PeerClosed(ops, posted)
      /\ UNCHANGED <<writebuf, moved, close_after_write, kernel, requested, closedby>>
  BY DEF ReadErrorCloses, encoded, history
<1>2. /\ Len(ops') = Len(ops)
      /\ \A j \in DOMAIN ops : /\ ops'[j].conn = ops[j].conn /\ ops'[j].sent = ops[j].sent
                               /\ ops'[j].moved = ops[j].moved
                               /\ ops'[j].at # "done" => ops[j].at # "done"
  <2>1. ops \in Seq(Write)
    BY QuietFacts
  <2> QED BY <2>1, <1>1, OnPeerCloseWrites
<1>3. OneAtATime' /\ WireSound'
  BY <1>1, <1>2, QuietSame DEF Turns
<1>4. closedby' = 0 /\ ~writable'
  BY <1>1 DEF PeerClosed, Turns, EndSound
<1> QED BY <1>3, <1>4 DEF Turns, EndSound

(* The steps of a dial leave the writes; the connection that comes of it has carried
   nothing, and the ones before are as they were. *)
LEMMA QuietDial ==
    ASSUME SafeInv, SafeInv', Turns, AsyncConnect \/ DialGoesOn \/ HandleResolve \/ HandleConnected
    PROVE  Turns'
<1> DEFINE n == Len(ops)
<1>1. /\ UNCHANGED <<writebuf, moved, close_after_write, ops>> /\ ~writable
      /\ \/ UNCHANGED <<writable, kernel, history>>
         \/ writable' = TRUE /\ kernel' = Append(kernel, <<>>) /\ requested' = 0 /\ closedby' = 0
  BY DEF AsyncConnect, DialGoesOn, HandleResolve, HandleConnected, DialRest, encoded, SafeInv, Spared, Dialled, Holds
<1>2. CASE UNCHANGED <<writable, kernel, history>>
  <2>1. OneAtATime' /\ WireSound' /\ (Mine' <=> Mine) /\ Conn' = Conn
    BY <1>1, <1>2, QuietSame DEF Turns
  <2>2. EndSound'
    BY <2>1, <1>1, <1>2 DEF Turns, EndSound, history
  <2> QED BY <2>1, <2>2 DEF Turns
<1>3. CASE writable' = TRUE /\ kernel' = Append(kernel, <<>>) /\ requested' = 0 /\ closedby' = 0
  <2>1. /\ ops' = ops /\ ops \in Seq(Write) /\ n \in Nat /\ DOMAIN ops = 1 .. n
        /\ kernel \in Seq(Seq(Nat)) /\ Conn \in Nat /\ Conn >= 1
        /\ \A i \in DOMAIN ops : ops[i].conn \in 1 .. Conn
    BY <1>1, QuietFacts
  <2>2. /\ Conn' = Conn + 1 /\ kernel'[Conn + 1] = <<>> /\ \A c \in 1 .. Conn : kernel'[c] = kernel[c]
    <3>1. Conn' = Len(kernel')
      BY DEF Conn
    <3>2. <<>> \in Seq(Nat)
      OBVIOUS
    <3>3. Conn = Len(kernel) /\ Len(kernel) \in Nat /\ DOMAIN kernel = 1 .. Len(kernel)
      BY <2>1 DEF Conn
    <3>4. Len(kernel') = Len(kernel) + 1 /\ kernel'[Len(kernel) + 1] = <<>> /\ \A c \in 1 .. Len(kernel) : kernel'[c] = kernel[c]
      BY <1>3, <2>1, <3>2, AppendFacts
    <3> QED BY <3>1, <3>3, <3>4
  <2>3. ~Mine'
    BY <2>1, <2>2 DEF Mine
  <2>4. OneAtATime'
    <3>1. \A i \in DOMAIN ops' : ops'[i].at # "done" => ops'[i].conn = Conn'
      BY <1>3 DEF SafeInv, Spared
    <3>2. \A i \in DOMAIN ops : ops[i].conn # Conn'
      BY <2>1, <2>2
    <3>3. \A i \in DOMAIN ops' : ops'[i].at = "done"
      BY <3>1, <3>2, <2>1
    <3> QED BY <3>3 DEF OneAtATime
  <2>6. WireSound'
    <3>1. ASSUME NEW c \in 1 .. Conn' - 1 PROVE PartOf(kernel'[c], Carried(ops', c)[Len(ops')])
      <4>1. c \in 1 .. Conn
        BY <2>1, <2>2
      <4>2. PartOf(kernel[c], Carried(ops, c)[Len(ops)])
        BY <4>1, WirePrefix DEF Turns
      <4> QED BY <4>1, <4>2, <2>1, <2>2
    <3>2. kernel'[Conn'] = Carried(ops', Conn')[Len(ops')]
      <4>1. ASSUME NEW j \in 1 .. Len(ops) PROVE ops[j].conn # Conn'
        <5>1. ops[j].conn \in 1 .. Conn
          BY <2>1
        <5>2. Conn \in Nat /\ Conn' = Conn + 1
          BY <2>1, <2>2
        <5> QED BY <5>1, <5>2
      <4>2. Carried(ops, Conn')[Len(ops)] = <<>>
        BY <4>1, <2>1, CarriedNone
      <4> QED BY <4>2, <2>1, <2>2
    <3> QED BY <3>1, <3>2, <2>3 DEF WireSound
  <2>7. EndSound'
    BY <1>3, <2>3 DEF EndSound
  <2> QED BY <2>4, <2>6, <2>7 DEF Turns
<1> QED BY <1>1, <1>2, <1>3

(* Every step keeps it, if writes do not overlap. *)
LEMMA QuietStep == WriteBufferAssumption /\ SafeInv /\ QuietInv /\ [WriteNext]_writeVars => QuietInv'
<1> SUFFICES ASSUME WriteBufferAssumption, SafeInv, Turns, ~Overlap, [WriteNext]_writeVars PROVE Turns'
  BY DEF QuietInv
<1>1. SafeInv'
  BY SafeStep
<1>2. CASE UNCHANGED writeVars
  <2>1. UNCHANGED <<writable, writebuf, moved, close_after_write, ops, kernel, requested, closedby>>
    BY <1>2 DEF writeVars, encoded, io, history
  <2>2. OneAtATime' /\ WireSound' /\ (Mine' <=> Mine) /\ Conn' = Conn
    BY <2>1, <1>1, QuietSame DEF Turns
  <2>3. EndSound'
    BY <2>1, <2>2 DEF Turns, EndSound
  <2> QED BY <2>2, <2>3 DEF Turns
<1>3. ASSUME NEW k \in Takes, NEW close \in BOOLEAN, AsyncWrite(close, k) PROVE Turns'
  BY <1>1, <1>3, QuietAsync
<1>4. ASSUME NEW k \in Takes, WriteCompletes(k) PROVE Turns'
  BY <1>1, <1>4, QuietCompletes
<1>5. ASSUME NEW k \in Takes, NEW err \in BOOLEAN, Writable(k, err) PROVE Turns'
  BY <1>1, <1>5, QuietWritable
<1>6. CASE ReadErrorCloses
  BY <1>1, <1>6, QuietReadError
<1>7. CASE AsyncConnect \/ DialGoesOn \/ HandleResolve \/ HandleConnected
  BY <1>1, <1>7, QuietDial
<1> QED BY <1>2, <1>3, <1>4, <1>5, <1>6, <1>7 DEF WriteNext

(* A connection begins with nothing sent. *)
LEMMA QuietInit == WriteInit => QuietInv
<1> SUFFICES ASSUME WriteInit PROVE Turns
  BY DEF QuietInv
<1>1. ops = <<>> /\ kernel = <<<<>>>> /\ requested = 0 /\ closedby = 0
  BY DEF WriteInit
<1>2. ops \in Seq(Write) /\ Len(ops) = 0 /\ Conn = 1 /\ kernel[1] = <<>>
  BY <1>1 DEF Conn
<1>3. Carried(ops, Conn)[Len(ops)] = <<>>
  <2>1. \A k \in 1 .. Len(ops) : ops[k].conn # Conn
    BY <1>2
  <2> QED BY <2>1, <1>2, CarriedNone
<1>4. ~Mine
  BY <1>2 DEF Mine
<1>5. OneAtATime
  BY <1>1 DEF OneAtATime
<1>6. WireSound
  <2>1. 1 .. Conn - 1 = {}
    BY <1>2
  <2> QED BY <2>1, <1>2, <1>3, <1>4 DEF WireSound
<1>7. EndSound
  BY <1>1, <1>4 DEF EndSound
<1> QED BY <1>5, <1>6, <1>7 DEF Turns

(* What it means: each write is carried in full and in turn, and the close that was asked
   for comes behind all of the write that asked. *)
LEMMA QuietMeans == SafeInv /\ QuietInv => IntactWhenQuiet /\ FullBeforeClose
<1> SUFFICES ASSUME SafeInv, Turns, ~Overlap PROVE IntactWhenQuiet /\ FullBeforeClose
  BY DEF QuietInv, IntactWhenQuiet, FullBeforeClose
<1>1. IntactWhenQuiet
  BY WirePrefix DEF Turns, IntactWhenQuiet
<1>2. ASSUME closedby # 0
      PROVE  /\ closedby = requested /\ ops[closedby].sent = ops[closedby].len
             /\ LET carried == kernel[ops[closedby].conn] IN carried[Len(carried)] = closedby
  <2> DEFINE n == Len(ops)
             before == Carried(ops, Conn)[n - 1]
  <2>1. Mine /\ closedby = n /\ requested = n /\ ops[n].sent = n
    BY <1>2 DEF Turns, EndSound
  <2>2. n \in Nat /\ n > 0 /\ n \in DOMAIN ops /\ n - 1 \in 0 .. n /\ ops[n].conn = Conn
    BY <2>1, QuietFacts DEF Mine
  <2>3. ops[n].len = n /\ before \in Seq(Nat)
    BY <2>2, QuietFacts
  <2>4. kernel[Conn] = before \o Upto(n)
    BY <2>1 DEF Turns, WireSound
  <2> HIDE DEF n, before
  <2>5. (before \o Upto(n))[Len(before \o Upto(n))] = n
    <3>1. Upto(n) \in Seq(Nat) /\ Len(Upto(n)) = n /\ Upto(n)[n] = n /\ n \in 1 .. n
      BY <2>2 DEF Upto
    <3>2. Len(before \o Upto(n)) = Len(before) + n /\ Len(before) \in Nat
      BY <3>1, <2>3, ConcatFacts
    <3>3. (before \o Upto(n))[Len(before) + n] = n
      BY <3>1, <3>2, <2>2, <2>3
    <3> QED BY <3>2, <3>3
  <2> QED BY <2>1, <2>2, <2>3, <2>4, <2>5
<1> QED BY <1>1, <1>2 DEF FullBeforeClose
=============================================================================
