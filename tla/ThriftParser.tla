---------------------------- MODULE ThriftParser ----------------------------
(***************************************************************************)
(* CThriftParser (frame/protocol/thriftparser.cc): a message is a head of   *)
(* twelve bytes, which names the length of the whole, then the method, the  *)
(* sequence id and the body. The wire is the head as one token and the rest *)
(* as single ones.                                                          *)
(***************************************************************************)
EXTENDS Integers, SequencesExt

T_CALL == 1
T_REPLY == 2
T_ONEWAY == 4

NoMessage == [direction |-> "none"]
Null == [is |-> "NULL", to |-> 0, skew |-> FALSE, msg |-> NoMessage]
Incomplete == [is |-> "buf", to |-> 0, skew |-> FALSE, msg |-> NoMessage]

Rest(msg) == <<[kind |-> "method", value |-> msg.method], [kind |-> "seqid", value |-> msg.seqid]>>
             \o [i \in DOMAIN msg.body |-> [kind |-> "byte", value |-> msg.body[i]]]

Encode(msg) ==
  LET type == IF msg.direction = "response" THEN T_REPLY ELSE T_CALL
  IN  <<[kind |-> "head", size |-> Len(Rest(msg)), type |-> type]>> \o Rest(msg)

(* The four bytes of the sequence id, the most significant first on the wire, are taken
   as they are by a machine that has the least significant first. Only a heartbeat of another name
   than CreateHeartBeatMessage gives it is seen as one. *)
Message(buf, size) ==
  [direction |-> IF buf[1].type = T_REPLY THEN "response" ELSE "request",
   isheartbeat |-> buf[2].value = "AllsparkHeartBeat", method |-> buf[2].value,
   seqid |-> Reverse(buf[3].value),
   body |-> [i \in 1..(size - 2) |-> buf[3 + i].value]]

Decode(buf) ==
  IF buf = <<>> THEN {Incomplete}
  ELSE IF buf[1].kind # "head" THEN {Null}
  ELSE IF buf[1].size + 1 > Len(buf) THEN {Incomplete}
  ELSE IF buf[1].type \notin {T_CALL, T_ONEWAY, T_REPLY} THEN {Null}
  ELSE {[is |-> "next", to |-> buf[1].size + 1, skew |-> FALSE, msg |-> Message(buf, buf[1].size)]}

CreateHeartBeatMessage(direction) ==
  [direction |-> direction, method |-> "HeartBeat", seqid |-> <<0, 0, 0, 0>>, body |-> <<>>]
=============================================================================
