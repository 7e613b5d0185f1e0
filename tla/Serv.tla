-------------------------------- MODULE Serv --------------------------------
(***************************************************************************)
(* The generated code of the student service (student_gen_cpp), over the    *)
(* binary protocol: a struct is a sequence of fields with a type and an id, *)
(* closed by a stop. Readers skip what they do not know, and a struct that  *)
(* ends early throws. Both examples hold the same files.                    *)
(***************************************************************************)
EXTENDS Integers, SequencesExt, FiniteSetsExt

Field(type, id, value) == [type |-> type, id |-> id, value |-> value]
Struct(id, bytes) == [type |-> "struct", id |-> id, struct |-> bytes]
Stop == [type |-> "stop"]

(* The fields before the first stop; of equal ones the last is kept. *)
Ends(bytes) == {i \in DOMAIN bytes : bytes[i] = Stop}
Throws(bytes) == Ends(bytes) = {}
Before(bytes) == SubSeq(bytes, 1, Min(Ends(bytes)) - 1)
Found(bytes, type, id) ==
  {i \in DOMAIN Before(bytes) : bytes[i].type = type /\ bytes[i].id = id}
Read(bytes, type, id, default) ==
  LET at == Found(bytes, type, id) IN IF at = {} THEN default ELSE bytes[Max(at)].value

-----------------------------------------------------------------------------
(* Student, the arguments and the result of QueryByNo. *)

Students == [no : STRING, name : STRING, age : -32768..32767]
NoStudent == [no |-> "", name |-> "", age |-> 0]

Student_write(s) ==
  <<Field("string", 1, s.no), Field("string", 2, s.name), Field("i16", 3, s.age), Stop>>

Student_read(bytes) ==
  [no |-> Read(bytes, "string", 1, ""), name |-> Read(bytes, "string", 2, ""),
   age |-> Read(bytes, "i16", 3, 0)]

args_write(no) == <<Field("string", 1, no), Stop>>

args_read(bytes) == [no |-> Read(bytes, "string", 1, ""), isset |-> Found(bytes, "string", 1) # {}]

(* pargs and presult hold pointers to the values instead of the values. *)
pargs_write(no) == args_write(no)

result_write(success) ==
  (IF success.isset THEN <<Struct(0, Student_write(success.value))>> ELSE <<>>) \o <<Stop>>

result_read(bytes) ==
  LET at == Found(bytes, "struct", 0)
  IN  [isset |-> at # {},
       value |-> IF at = {} THEN NoStudent ELSE Student_read(bytes[Max(at)].struct)]

presult_read(bytes) == result_read(bytes)

-----------------------------------------------------------------------------
(* ServProcessor and ServClient: one message each way. *)

T_Message(name, type, seqid, body) == [name |-> name, type |-> type, seqid |-> seqid, body |-> body]

processMap == {"QueryByNo"}

(* The handler, a function of numbers, returns a student or throws. *)
process_QueryByNo(seqid, body, iface) ==
  LET result == iface[args_read(body).no]
  IN  IF result.throws THEN T_Message("QueryByNo", "exception", seqid, <<Stop>>)
      ELSE T_Message("QueryByNo", "reply", seqid, result_write([isset |-> TRUE, value |-> result.value]))

dispatchCall(msg, iface) ==
  IF msg.name \in processMap THEN process_QueryByNo(msg.seqid, msg.body, iface)
  ELSE T_Message(msg.name, "exception", msg.seqid, <<Stop>>)

send_QueryByNo(no) == T_Message("QueryByNo", "call", 0, pargs_write(no))

(* What the caller gets for the message that comes back, with the structs behind it in the
   transport: a message that is not a reply, or not of this method, is skipped, and then
   a result is read all the same. *)
Skipped(msg) == (IF msg.type # "reply" THEN 1 ELSE 0) + (IF msg.name # "QueryByNo" THEN 1 ELSE 0)

Thrown == [throws |-> TRUE, value |-> NoStudent]

recv_QueryByNo(msg, behind) ==
  LET structs == <<msg.body>> \o behind
      n == Skipped(msg) + 1
  IN  IF msg.type = "exception" \/ n > Len(structs) \/ Throws(structs[n]) THEN Thrown
      ELSE LET result == presult_read(structs[n])
           IN  IF result.isset THEN [throws |-> FALSE, value |-> result.value] ELSE Thrown

(* Every interface of ServMultiface is called with the same student to fill, and what the
   last one returns is returned. *)
Multiface(ifaces, no) ==
  IF \E i \in DOMAIN ifaces : ifaces[i][no].throws THEN Thrown ELSE Last(ifaces)[no]
=============================================================================
