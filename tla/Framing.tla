------------------------------ MODULE Framing ------------------------------
(***************************************************************************)
(* The reading side of a CConnection (frame/net/connection.cc): bytes that  *)
(* arrive in any pieces, the growable buffer they are read into, the loop   *)
(* that decodes messages from it, and what closes the connection. The       *)
(* parser is a parameter: Decode gives what it may return for the tokens in *)
(* the buffer. The peer sends messages of its own parser's making, a new    *)
(* list of them on each connection.                                         *)
(***************************************************************************)
EXTENDS Integers, Sequences, FiniteSets

CONSTANTS
  Message,         \* what a peer may send
  Encode(_), Decode(_),
  Same(_, _),      \* whether a message that was read is one that was sent
  CutBetween(_, _),\* whether a read may end between two tokens
  CutInside(_, _), \* whether it may end inside the second of two
  Capacity, Low,   \* of the buffer at first, and what must be free before a read
  MaxPacket,       \* MAX_PACKET_SIZE
  MayClose,        \* whether the handler closes the session from OnRead
  MaxSent, MaxConnects

FramingAssumption ==
  /\ Low \in Nat \ {0} /\ Capacity \in Nat /\ Capacity > Low /\ MaxPacket \in Nat /\ MayClose \in BOOLEAN
  /\ MaxSent \in Nat /\ MaxConnects \in Nat

(* No message is so long that the buffer that holds all but its end is too large a packet. *)
SmallMessages ==
  /\ Capacity - 1 <= MaxPacket
  /\ \A msg \in Message : 2 * (Len(Encode(msg)) - 1 + Low) - 1 <= MaxPacket

VARIABLES
  connected, linked,  \* connected_; session_ is not NULL
  dealing,            \* the decode loop is at work (is_dealing_read_ is set)
  reading,            \* an async_read_some is outstanding
  socket,             \* "up", "down" or "broken": closed by the peer
  wire,               \* tokens the peer has sent and that were not read
  part,               \* a part of the first of them was
  buffer, capacity,   \* buffer_ from the pointer p on, and its size
  delivered,          \* messages given to the session, on this connection
  (* History. *)
  sent,               \* messages sent on this connection
  fresh,              \* tokens of buffer read on this connection
  connects, illegal   \* connections so far; Decode said NULL or a place behind the data

conn == <<connected, linked, socket, connects>>
vars == <<connected, linked, dealing, reading, socket, wire, part, buffer, capacity,
          delivered, sent, fresh, connects, illegal>>

Init ==
  /\ connected = FALSE /\ linked = TRUE /\ dealing = FALSE /\ reading = FALSE
  /\ socket = "down" /\ wire = <<>> /\ part = FALSE /\ buffer = <<>> /\ capacity = Capacity
  /\ delivered = <<>> /\ sent = <<>> /\ fresh = 0 /\ connects = 0 /\ illegal = FALSE

-----------------------------------------------------------------------------
(* The peer. *)

Send(msg) ==
  /\ socket = "up" /\ Len(sent) < MaxSent
  /\ wire' = wire \o Encode(msg) /\ sent' = Append(sent, msg)
  /\ UNCHANGED <<conn, dealing, reading, part, buffer, capacity, delivered, fresh, illegal>>

PeerCloses ==
  /\ socket = "up"
  /\ socket' = "broken"
  /\ UNCHANGED <<connected, linked, dealing, reading, wire, part, buffer, capacity, delivered,
                 sent, fresh, connects, illegal>>

-----------------------------------------------------------------------------
(* The connection. *)

(* ConnectFinish of a dial, or AsyncRead of an accepted connection; a session that
   dials again takes the same CConnection and, in DoConnect, links itself to it. *)
Connect ==
  /\ ~connected /\ ~reading /\ ~dealing /\ connects < MaxConnects
  /\ connected' = TRUE /\ linked' = TRUE /\ reading' = TRUE /\ socket' = "up"
  /\ connects' = connects + 1 /\ wire' = <<>> /\ part' = FALSE
  /\ sent' = <<>> /\ delivered' = <<>> /\ fresh' = 0
  /\ UNCHANGED <<dealing, buffer, capacity, illegal>>

(* OnPeerClose; the read that is outstanding ends with an error. *)
OnPeerClose ==
  /\ dealing' = FALSE /\ connected' = FALSE /\ linked' = (linked /\ ~connected)
  /\ socket' = IF connected THEN "down" ELSE socket

(* Mutant: the buffer keeps what was read on the connection that broke. *)
MutantHandleReadError ==
  /\ reading /\ socket # "up" /\ ~dealing
  /\ reading' = FALSE /\ OnPeerClose
  /\ UNCHANGED <<wire, part, buffer, capacity, delivered, sent, fresh, connects, illegal>>

HandleReadError ==
  /\ reading /\ socket # "up" /\ ~dealing
  /\ reading' = FALSE /\ buffer' = <<>> /\ fresh' = 0 /\ OnPeerClose
  /\ UNCHANGED <<wire, part, capacity, delivered, sent, connects, illegal>>

Junk == [kind |-> "junk"]

(* What is free, but for a byte that stays free. *)
Free == capacity - Len(buffer) - 1

(* A read ends behind token n, or inside the one behind it; with no place left in the
   buffer it reads nothing, and ends. *)
MayEnd(n, inside) ==
  LET before == IF n > 0 THEN wire[n] ELSE Junk
  IN  /\ n <= Free /\ n <= Len(wire)
      /\ IF inside THEN n < Len(wire) /\ CutInside(before, wire[n + 1])
         ELSE (n > 0 \/ Free = 0) /\ IF n \in {0, Len(wire)} THEN TRUE ELSE CutBetween(before, wire[n + 1])

HandleRead(n, inside) ==
  /\ reading /\ socket = "up" /\ ~dealing /\ MayEnd(n, inside)
  /\ (n = 0 => ~part)
  /\ reading' = FALSE /\ part' = inside
  /\ wire' = SubSeq(wire, n + 1, Len(wire))
  /\ buffer' = buffer \o SubSeq(wire, 1, n) /\ fresh' = fresh + n
  /\ IF Len(buffer') > MaxPacket
     THEN OnPeerClose
     ELSE dealing' = TRUE /\ UNCHANGED <<connected, linked, socket>>
  /\ UNCHANGED <<capacity, delivered, sent, connects, illegal>>

(* One turn of the loop: Decode at p, which is not yet at the end of the data. *)
DecodeIllegal ==
  /\ dealing /\ (buffer # <<>> \/ part)
  /\ \E r \in Decode(buffer) : r.is \in {"NULL", "beyond"}
  /\ illegal' = TRUE /\ OnPeerClose
  /\ UNCHANGED <<reading, wire, part, buffer, capacity, delivered, sent, fresh, connects>>

(* Behind the loop: what is left moves to the front of the buffer, the buffer grows when it
   is nearly full, and the next read is started. *)
ReadOn ==
  /\ dealing' = FALSE
  /\ capacity' = IF capacity - Len(buffer) <= Low THEN 2 * capacity ELSE capacity
  /\ reading' = connected

(* Mutant: the loop is left after the first message of a read. *)
MutantDecodeWaits ==
  /\ dealing
  /\ (buffer = <<>> /\ ~part) \/ (\E r \in Decode(buffer) : r.is = "buf") \/ delivered # <<>>
  /\ ReadOn
  /\ UNCHANGED <<connected, linked, socket, wire, part, buffer, delivered, sent, fresh,
                 connects, illegal>>

DecodeWaits ==
  /\ dealing
  /\ (buffer = <<>> /\ ~part) \/ \E r \in Decode(buffer) : r.is = "buf"
  /\ ReadOn
  /\ UNCHANGED <<connected, linked, socket, wire, part, buffer, delivered, sent, fresh,
                 connects, illegal>>

Consumed(r) == r.to

Decoded(closes) ==
  /\ dealing /\ linked /\ buffer # <<>>
  /\ \E r \in Decode(buffer) :
       /\ r.is = "next"
       /\ delivered' = Append(delivered, r.msg)
       /\ LET left == SubSeq(buffer, Consumed(r) + 1, Len(buffer))
          IN  /\ buffer' = IF r.skew /\ left # <<>> THEN <<Junk>> \o Tail(left) ELSE left
              /\ fresh' = IF fresh <= Len(left) THEN fresh ELSE Len(left)
  /\ IF closes
     THEN connected' = FALSE /\ linked' = FALSE /\ socket' = "down"
     ELSE UNCHANGED <<connected, linked, socket>>
  /\ UNCHANGED <<dealing, reading, wire, part, capacity, sent, connects, illegal>>

(* The handler closed the session: the next message is thrown away and the loop left. *)
DecodedClosed ==
  /\ dealing /\ ~linked /\ buffer # <<>>
  /\ \E r \in Decode(buffer) : r.is = "next"
  /\ OnPeerClose
  /\ UNCHANGED <<reading, wire, part, buffer, capacity, delivered, sent, fresh, connects, illegal>>

(* The session is closed by another task than the reading. *)
Close ==
  /\ connected /\ ~dealing
  /\ OnPeerClose
  /\ UNCHANGED <<reading, wire, part, buffer, capacity, delivered, sent, fresh, connects, illegal>>

ReadCompletes == \E n \in 0..Len(wire), inside \in BOOLEAN : HandleRead(n, inside)

Loop == DecodeIllegal \/ DecodeWaits \/ DecodedClosed
        \/ \E closes \in {FALSE, MayClose} : Decoded(closes)

Next ==
  \/ \E msg \in Message : Send(msg)
  \/ PeerCloses \/ Connect \/ HandleReadError \/ ReadCompletes \/ Loop \/ Close

(* A task ends, and what has arrived is read. *)
Fairness == WF_vars(Loop) /\ WF_vars(ReadCompletes) /\ WF_vars(HandleReadError)

Spec == Init /\ [][Next]_vars
LiveSpec == Spec /\ Fairness

-----------------------------------------------------------------------------
(* Properties. *)

TypeOK ==
  /\ connected \in BOOLEAN /\ linked \in BOOLEAN /\ dealing \in BOOLEAN /\ reading \in BOOLEAN
  /\ socket \in {"up", "down", "broken"} /\ part \in BOOLEAN
  /\ illegal \in BOOLEAN /\ capacity \in Nat /\ capacity >= Capacity /\ fresh \in 0..Len(buffer)
  /\ connects \in 0..MaxConnects /\ sent \in Seq(Message)

(* The buffer holds nothing of an earlier connection. *)
NoStaleBytes == fresh = Len(buffer)

(* The loop is never at work while a read is outstanding, and there is a place for what
   it reads, unless bytes of an earlier connection have filled the buffer. *)
Room == (reading => ~dealing /\ (NoStaleBytes => Free >= 1)) /\ Len(buffer) < capacity

(* A connection whose peer sends well-formed messages is never closed as illegal. *)
NeverIllegal == ~illegal

(* What is delivered is what the peer sent, in order. *)
InOrder == \A i \in DOMAIN delivered : i \in DOMAIN sent /\ Same(sent[i], delivered[i])

(* A connection that has read all that was sent and waits for more has delivered it all:
   no message stays in the buffer until the next one comes. *)
NothingWithheld == reading /\ connected /\ wire = <<>> /\ ~part => Len(delivered) = Len(sent)

(* A message that was sent is delivered, however it was cut, or the connection ends. *)
AllDelivered ==
  \A n \in 1..MaxSent : connected /\ Len(sent) >= n ~> Len(delivered) >= n \/ ~connected
=============================================================================
