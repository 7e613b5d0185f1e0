--------------------------- MODULE Session_proofs ---------------------------
(***************************************************************************)
(* Proofs about Session.                                                   *)
(***************************************************************************)
EXTENDS Session, SequenceTheorems, TLAPS

-----------------------------------------------------------------------------
(* The stack of the running task. *)

(* A task that calls something puts one more frame on its stack. *)
LEMMA PushFacts ==
  ASSUME NEW s \in Seq(Frames), NEW f \in Frames
  PROVE  /\ Append(s, f) \in Seq(Frames)
         /\ Len(Append(s, f)) = Len(s) + 1
         /\ \A i \in 1..Len(s) : Append(s, f)[i] = s[i]
         /\ Append(s, f)[Len(s) + 1] = f
OBVIOUS

(* A task that goes on takes its last frame off. *)
LEMMA RestFacts ==
  ASSUME NEW s \in Seq(Frames), s # <<>>
  PROVE  /\ Len(s) \in Nat \ {0}
         /\ SubSeq(s, 1, Len(s) - 1) \in Seq(Frames)
         /\ Len(SubSeq(s, 1, Len(s) - 1)) = Len(s) - 1
         /\ \A i \in 1..(Len(s) - 1) : SubSeq(s, 1, Len(s) - 1)[i] = s[i]
         /\ s[Len(s)] \in Frames
<1>1. Len(s) \in Nat \ {0}
  BY EmptySeq
<1>2. \A i \in 1..(Len(s) - 1) : s[i] \in Frames
  BY <1>1
<1>3. s[Len(s)] \in Frames
  BY <1>1
<1> DEFINE n == Len(s) - 1
           t == SubSeq(s, 1, n)
<1>4. n \in Nat /\ \A i \in 1..n : s[i] \in Frames
  BY <1>1, <1>2
<1>5. /\ t \in Seq(Frames)
      /\ Len(t) = IF 1 <= n THEN n - 1 + 1 ELSE 0
      /\ \A i \in 1..(n - 1 + 1) : t[i] = s[1 + i - 1]
  <2> HIDE DEF n
  <2> QED
    BY <1>4, SubSeqProperties
<1>6. Len(t) = n /\ \A i \in 1..n : t[i] = s[i]
  <2> HIDE DEF n, t
  <2> QED
    BY <1>4, <1>5
<1> QED
  BY <1>1, <1>3, <1>5, <1>6

(* Every operation of the model has a frame. *)
LEMMA FrameFacts ==
  /\ \A op \in Ops : Frame(op) \in Frames
  /\ \A op \in {"SendTo", "Erase"}, r \in Request : FrameOf(op, r) \in Frames
  /\ <<>> \in Seq(Frames)
  /\ \A f \in Frames : <<f>> \in Seq(Frames)
BY DEF Frame, FrameOf, Frames

(* The same for the operators the actions use. *)
LEMMA StackFacts ==
  ASSUME stack \in Seq(Frames)
  PROVE  /\ \A s \in Seq(Frames), op \in Ops : Push(s, op) \in Seq(Frames)
         /\ \A s \in Seq(Frames),
            r \in Request : Append(s, FrameOf("SendTo", r)) \in Seq(Frames)
         /\ stack # <<>> => Rest \in Seq(Frames) /\ Top \in Frames
BY PushFacts, RestFacts, FrameFacts DEF Push, Rest, Top, Ops

-----------------------------------------------------------------------------
(* Types. *)

(* What ConnectResult leaves in the variables it sets. *)
LEMMA ConnectResultType ==
  ASSUME TypeOK, owner' \in BOOLEAN, NEW s \in Seq(Frames), NEW ok \in BOOLEAN,
         ConnectResult(ok, s)
  PROVE  /\ status' \in Statuses
         /\ hbTimer' \in BOOLEAN /\ reconn' \in BOOLEAN
         /\ stack' \in Seq(Frames)
<1>1. status' \in Statuses
  BY DEF ConnectResult, TypeOK, Statuses
<1>2. hbTimer' \in BOOLEAN
  BY DEF ConnectResult
<1>3. reconn' \in BOOLEAN
  BY DEF ConnectResult
<1>4. stack' \in Seq(Frames)
  BY StackFacts DEF ConnectResult, TypeOK, Ops
<1> QED
  BY <1>1, <1>2, <1>3, <1>4

(* The same for ConnectFinish. *)
LEMMA ConnectFinishType ==
  ASSUME TypeOK, owner' \in BOOLEAN, NEW s \in Seq(Frames), NEW ok \in BOOLEAN,
         NEW lk \in BOOLEAN, ConnectFinish(ok, lk, s)
  PROVE  /\ status' \in Statuses
         /\ hbTimer' \in BOOLEAN /\ reconn' \in BOOLEAN
         /\ stack' \in Seq(Frames)
         /\ connTimer' \subseteq {"armed", "queued"}
         /\ connected' \in BOOLEAN
         /\ reads' \in Nat
<1>1. connected' \in BOOLEAN
  BY DEF ConnectFinish
<1>2. reads' \in Nat
  BY DEF ConnectFinish, TypeOK
<1>3. connTimer' \subseteq {"armed", "queued"}
  BY DEF ConnectFinish, TypeOK
<1>4. CASE lk
  BY <1>1, <1>2, <1>3, <1>4, ConnectResultType DEF ConnectFinish
<1>5. CASE ~lk
  BY <1>1, <1>2, <1>3, <1>5 DEF ConnectFinish, TypeOK
<1> QED
  BY <1>4, <1>5

(* The same for DoConnect. *)
LEMMA DoConnectType ==
  ASSUME TypeOK, owner' \in BOOLEAN, NEW s \in Seq(Frames), NEW b \in BOOLEAN,
         DoConnect(b, s)
  PROVE  /\ linked' \in BOOLEAN /\ reconn' \in BOOLEAN /\ hbTimer' \in BOOLEAN
         /\ connected' \in BOOLEAN
         /\ status' \in Statuses
         /\ reads' \in Nat /\ dials' \in Nat
         /\ connTimer' \subseteq {"armed", "queued"}
         /\ stack' \in Seq(Frames)
<1>1. CASE status \in {"CONNECTED", "CONNECTING"}
  BY <1>1 DEF DoConnect, TypeOK
<1>2. CASE status \notin {"CONNECTED", "CONNECTING"} /\ connected
  <2>1. linked' \in BOOLEAN /\ dials' \in Nat /\ ConnectFinish(TRUE, TRUE, s)
    BY <1>2 DEF DoConnect, TypeOK
  <2> QED
    BY <2>1, ConnectFinishType
<1>3. CASE status \notin {"CONNECTED", "CONNECTING"} /\ ~connected
  <2>1. /\ linked' = TRUE /\ reconn' = b /\ hbTimer' = hbTimer /\ connected' = connected
        /\ status' = "CONNECTING" /\ reads' = reads /\ dials' = dials + 1
        /\ connTimer' = connTimer \cup {"armed"} /\ stack' = s
    BY <1>3 DEF DoConnect
  <2>2. dials \in Nat /\ connTimer \subseteq {"armed", "queued"}
    BY DEF TypeOK
  <2>3. dials' \in Nat
    BY <2>1, <2>2
  <2>4. connTimer' \subseteq {"armed", "queued"}
    BY <2>1, <2>2
  <2> QED
    BY <2>1, <2>3, <2>4 DEF TypeOK, Statuses
<1> QED
  BY <1>1, <1>2, <1>3

(* The same for AsyncWrite. *)
LEMMA AsyncWriteType ==
  ASSUME TypeOK, NEW b \in BOOLEAN, NEW S \in SUBSET Request, AsyncWrite(S, b)
  PROVE  /\ writing' \in BOOLEAN
         /\ writebuf' \subseteq Request /\ owed' \subseteq Request
BY DEF AsyncWrite, writeVars, TypeOK

(* The same for DoSendTo. *)
LEMMA DoSendToType ==
  ASSUME TypeOK, NEW s \in Seq(Frames), NEW r \in Request, DoSendTo(r, s)
  PROVE  /\ waitinglist' \in Seq(Request)
         /\ ticket' \in [Request -> Nat] /\ inserts' \in Nat
         /\ armed' \subseteq Request /\ writebuf' \subseteq Request /\ owed' \subseteq Request
         /\ writing' \in BOOLEAN /\ crashed' \in BOOLEAN
         /\ fate' \in [Request -> Fates]
         /\ stack' \in Seq(Frames)
<1>1. CASE status \in {"CONNECTING", "WAITING"}
  <2>1. waitinglist' = Append(waitinglist, r) /\ fate' = [fate EXCEPT ![r] = "pending"]
    BY <1>1 DEF DoSendTo
  <2>2. waitinglist' \in Seq(Request) /\ fate' \in [Request -> Fates]
    BY <2>1, AppendProperties DEF TypeOK, Fates
  <2> QED
    BY <1>1, <2>2 DEF DoSendTo, TypeOK, writeVars
<1>2. CASE status = "CONNECTED"
  <2>1. AsyncWrite({r}, connected)
    BY <1>2 DEF DoSendTo
  <2>2. /\ writing' \in BOOLEAN
        /\ writebuf' \subseteq Request /\ owed' \subseteq Request
    BY <2>1, AsyncWriteType DEF TypeOK
  <2>3. /\ armed' = armed \cup {r} /\ inserts' = inserts + 1
        /\ ticket' = [ticket EXCEPT ![r] = inserts + 1]
        /\ fate' = [fate EXCEPT ![r] = "pending"]
        /\ waitinglist' = waitinglist /\ crashed' = crashed /\ stack' = s
    BY <1>2 DEF DoSendTo, StartTimer, Remember
  <2>4. /\ armed' \subseteq Request /\ inserts' \in Nat /\ ticket' \in [Request -> Nat]
        /\ fate' \in [Request -> Fates]
    BY <2>3 DEF TypeOK, Fates
  <2> QED
    BY <2>2, <2>3, <2>4 DEF TypeOK
<1>3. CASE status \in {"TIME_OUT", "CLOSED"}
  <2>1. stack' \in Seq(Frames)
    BY <1>3, StackFacts DEF DoSendTo, TypeOK, Ops
  <2>2. crashed' \in BOOLEAN
    BY <1>3 DEF DoSendTo
  <2> QED
    BY <1>3, <2>1, <2>2 DEF DoSendTo, TypeOK, writeVars, Fates
<1> QED
  BY <1>1, <1>2, <1>3 DEF TypeOK, Statuses

(* Notify, ConnPeerClose and CloseSocket keep the types of what they set. *)
LEMMA NotifyType ==
  ASSUME TypeOK, NEW s \in Seq(Frames)
  PROVE  Notify(s) \in Seq(Frames)
BY StackFacts DEF Notify, TypeOK, Ops

(* The same for the connection's OnPeerClose. *)
LEMMA PeerCloseType ==
  ASSUME TypeOK, NEW s \in Seq(Frames), NEW b \in BOOLEAN, ConnPeerClose(b, s)
  PROVE  dealing' \in BOOLEAN /\ status' \in Statuses /\ stack' \in Seq(Frames)
<1>1. CASE b /\ linked
  <2>1. /\ dealing' = FALSE /\ status' = "CLOSED"
        /\ stack' = Push(Push(Push(s, "Drop"), "Reconnect"), "CleanHistory")
    BY <1>1 DEF ConnPeerClose
  <2>2. Push(Push(Push(s, "Drop"), "Reconnect"), "CleanHistory") \in Seq(Frames)
    BY StackFacts DEF TypeOK, Ops
  <2> QED
    BY <2>1, <2>2 DEF Statuses
<1>2. CASE ~(b /\ linked)
  <2>1. /\ dealing' = FALSE /\ status' = status
        /\ stack' = IF b THEN Push(s, "Drop") ELSE s
    BY <1>2 DEF ConnPeerClose
  <2>2. Push(s, "Drop") \in Seq(Frames)
    BY StackFacts DEF TypeOK, Ops
  <2> QED
    BY <2>1, <2>2 DEF TypeOK
<1> QED
  BY <1>1, <1>2

(* Actions of the business code. *)
LEMMA UserType ==
  ASSUME TypeOK, User
  PROVE  TypeOK'
<1>1. CASE UserConnect
  <2>1. owner' \in BOOLEAN /\ reconn \in BOOLEAN /\ stack \in Seq(Frames)
        /\ DoConnect(reconn, stack)
    BY <1>1 DEF UserConnect, TypeOK
  <2>2. calls' \in Nat
    BY <1>1 DEF UserConnect, TypeOK
  <2> QED
    BY <1>1, <2>1, <2>2, DoConnectType DEF UserConnect, TypeOK, reqVars, writeVars
<1>2. ASSUME NEW r \in Request, UserSendTo(r) PROVE TypeOK'
  <2>1. stack \in Seq(Frames) /\ DoSendTo(r, stack)
    BY <1>2 DEF UserSendTo, TypeOK
  <2> QED
    BY <1>2, <2>1, DoSendToType DEF UserSendTo, TypeOK, sessVars, connVars
<1>3. ASSUME NEW r \in Request, UserCall(r) PROVE TypeOK'
  <2>1. /\ owner' \in BOOLEAN /\ reconn \in BOOLEAN
        /\ Append(stack, FrameOf("SendTo", r)) \in Seq(Frames)
        /\ DoConnect(reconn, Append(stack, FrameOf("SendTo", r)))
    BY <1>3, StackFacts DEF UserCall, TypeOK
  <2>2. fate' = [fate EXCEPT ![r] = "pending"]
    BY <1>3 DEF UserCall
  <2>3. fate' \in [Request -> Fates]
    BY <2>2 DEF TypeOK, Fates
  <2> QED
    BY <1>3, <2>1, <2>3, DoConnectType DEF UserCall, TypeOK, writeVars
<1>4. CASE UserClose
  <2>1. /\ linked' = FALSE /\ owner' = FALSE
        /\ status' \in {status, "CLOSED"}
        /\ stack' \in {stack, Push(Push(stack, "Shut"), "CleanHistory")}
    BY <1>4 DEF UserClose, Close
  <2>2. Push(Push(stack, "Shut"), "CleanHistory") \in Seq(Frames)
    BY StackFacts DEF TypeOK, Ops
  <2>3. calls' \in Nat
    BY <1>4 DEF UserClose, TypeOK
  <2> QED
    BY <1>4, <2>1, <2>2, <2>3, ZenonT(30) DEF UserClose, TypeOK, Statuses, reqVars, writeVars
<1> QED
  BY <1>1, <1>2, <1>3, <1>4 DEF User

(* Forgetting a request, stopping its timer and delivering it. *)
LEMMA SettleType ==
  ASSUME TypeOK, NEW r \in Request, NEW o \in Fates
  PROVE  /\ Forget(r) => ticket' \in [Request -> Nat]
         /\ StopTimer(r) => armed' \subseteq Request
         /\ Deliver(r, o) => fate' \in [Request -> Fates]
<1>1. Forget(r) => ticket' \in [Request -> Nat]
  BY DEF Forget, TypeOK
<1>2. StopTimer(r) => armed' \subseteq Request
  BY DEF StopTimer, TypeOK
<1>3. Deliver(r, o) => fate' \in [Request -> Fates]
  BY DEF Deliver, TypeOK, Fates
<1> QED
  BY <1>1, <1>2, <1>3

(* What is at the head of the waiting list, and what follows it. *)
LEMMA WaitingType ==
  ASSUME TypeOK, waitinglist # <<>>
  PROVE  Head(waitinglist) \in Request /\ Tail(waitinglist) \in Seq(Request)
BY HeadTailProperties DEF TypeOK

(* The rest of a task. *)
LEMMA ContinueType ==
  ASSUME TypeOK, Continue
  PROVE  TypeOK'
<1>0. stack \in Seq(Frames)
  BY DEF TypeOK
<1>1. CASE HandlerReturn
  <2>1. stack' \in Seq(Frames)
    BY <1>0, <1>1, StackFacts DEF HandlerReturn, Running
  <2> QED
    BY <1>1, <2>1 DEF HandlerReturn, TypeOK, sessVars, reqVars, writeVars, connVars
<1>2. CASE SendStep
  <2>1. Rest \in Seq(Frames) /\ Top \in Frames /\ DoSendTo(Top.req, Rest) /\ Top.op = "SendTo"
    BY <1>0, <1>2, StackFacts DEF SendStep, Running
  <2>2. Top.req \in Request
    BY <2>1 DEF Frames, Ops
  <2> QED
    BY <1>2, <2>1, <2>2, DoSendToType DEF SendStep, TypeOK, sessVars, connVars
<1>3. CASE CleanHistory
  <2>1. CASE Hist = {} /\ stack' = Push(Rest, "CleanWaiting") /\ UNCHANGED <<reqVars, crashed>>
    <3>1. stack' \in Seq(Frames)
      BY <1>0, <1>3, <2>1, StackFacts DEF CleanHistory, Running, Ops
    <3> QED
      BY <1>3, <2>1, <3>1 DEF CleanHistory, TypeOK, sessVars, reqVars, writeVars, connVars
  <2>2. ASSUME NEW r \in Hist,
               Forget(r), StopTimer(r), Deliver(r, "closed"), crashed' = (fate[r] # "pending"),
               stack' = Notify(stack), UNCHANGED <<waitinglist, inserts>>
        PROVE  TypeOK'
    <3>1. stack' \in Seq(Frames)
      BY <1>0, <2>2, NotifyType
    <3>2. /\ ticket' \in [Request -> Nat] /\ armed' \subseteq Request
          /\ fate' \in [Request -> Fates]
      BY <2>2, SettleType DEF Hist, Fates
    <3>3. crashed' \in BOOLEAN
      BY <2>2
    <3> QED
      BY <1>3, <2>2, <3>1, <3>2, <3>3 DEF CleanHistory, TypeOK, sessVars, writeVars, connVars
  <2> QED
    BY <1>3, <2>1, <2>2 DEF CleanHistory
<1>4. CASE CleanWaiting
  <2>1. CASE waitinglist = <<>>
    <3>1. stack' \in Seq(Frames)
      BY <1>0, <1>4, <2>1, StackFacts DEF CleanWaiting, Running
    <3> QED
      BY <1>4, <2>1, <3>1 DEF CleanWaiting, TypeOK, sessVars, reqVars, writeVars, connVars
  <2>2. CASE waitinglist # <<>>
    <3>1. stack' \in Seq(Frames)
      BY <1>0, <1>4, <2>2, NotifyType DEF CleanWaiting
    <3>2. fate' \in [Request -> Fates] /\ waitinglist' \in Seq(Request)
      BY <1>4, <2>2, WaitingType, SettleType DEF CleanWaiting, Fates
    <3>3. crashed' \in BOOLEAN
      BY <1>4, <2>2 DEF CleanWaiting
    <3> QED
      BY <1>4, <2>2, <3>1, <3>2, <3>3 DEF CleanWaiting, TypeOK, sessVars, writeVars, connVars
  <2> QED
    BY <2>1, <2>2
<1>5. CASE DealWaitingList
  <2> DEFINE r == Head(waitinglist)
  <2>1. CASE waitinglist = <<>>
    <3>1. stack' \in Seq(Frames)
      BY <1>0, <1>5, <2>1, StackFacts DEF DealWaitingList, Running
    <3> QED
      BY <1>5, <2>1, <3>1 DEF DealWaitingList, TypeOK, sessVars, reqVars, writeVars, connVars
  <2>2. CASE waitinglist # <<>> /\ status = "CONNECTED"
    <3>1. /\ r \in Request /\ waitinglist' \in Seq(Request)
      BY <1>5, <2>2, WaitingType DEF DealWaitingList
    <3>2. /\ StartTimer(r) /\ Remember(r) /\ AsyncWrite({r}, connected)
          /\ stack' = stack /\ fate' = fate
      BY <1>5, <2>2 DEF DealWaitingList
    <3> HIDE DEF r
    <3>3. armed' = armed \cup {r} /\ inserts' = inserts + 1
          /\ ticket' = [ticket EXCEPT ![r] = inserts + 1]
      BY <3>2 DEF StartTimer, Remember
    <3>4. armed' \subseteq Request /\ inserts' \in Nat /\ ticket' \in [Request -> Nat]
      BY <3>1, <3>3 DEF TypeOK
    <3>5. writing' \in BOOLEAN /\ writebuf' \subseteq Request /\ owed' \subseteq Request
      BY <3>1, <3>2, AsyncWriteType DEF TypeOK
    <3>6. crashed' \in BOOLEAN
      BY <1>5, <2>2 DEF DealWaitingList
    <3> QED
      BY <1>5, <3>1, <3>2, <3>4, <3>5, <3>6 DEF DealWaitingList, TypeOK, sessVars, connVars
  <2>3. CASE waitinglist # <<>> /\ status # "CONNECTED"
    <3>1. stack' \in Seq(Frames)
      BY <1>0, <1>5, <2>3, NotifyType DEF DealWaitingList
    <3>2. fate' \in [Request -> Fates] /\ waitinglist' \in Seq(Request)
      BY <1>5, <2>3, WaitingType, SettleType DEF DealWaitingList, Fates
    <3>3. crashed' \in BOOLEAN
      BY <1>5, <2>3 DEF DealWaitingList
    <3>4. UNCHANGED <<ticket, inserts, armed, writeVars>>
      BY <1>5, <2>3 DEF DealWaitingList
    <3> QED
      BY <1>5, <3>1, <3>2, <3>3, <3>4 DEF DealWaitingList, TypeOK, sessVars, writeVars, connVars
  <2> QED
    BY <2>1, <2>2, <2>3
<1>6. CASE ReconnectLater
  <2>1. stack' \in Seq(Frames)
    BY <1>0, <1>6, StackFacts, NotifyType DEF ReconnectLater, Running
  <2>2. status' \in Statuses /\ reconn' \in BOOLEAN
    BY <1>6 DEF ReconnectLater, TypeOK, Statuses
  <2> QED
    BY <1>6, <2>1, <2>2 DEF ReconnectLater, TypeOK, reqVars, writeVars, connVars
<1>7. CASE DropConnection
  <2>1. stack' \in Seq(Frames)
    BY <1>0, <1>7, StackFacts DEF DropConnection, Running
  <2>2. sockUp' \in {sockUp, FALSE} /\ owed' \in {owed, {}}
    BY <1>7 DEF DropConnection, CloseSocket
  <2>3. sockUp' \in BOOLEAN /\ owed' \subseteq Request
    BY <2>2 DEF TypeOK
  <2> QED
    BY <1>7, <2>1, <2>3 DEF DropConnection, TypeOK, sessVars, reqVars
<1>8. CASE ShutConnection
  <2>1. dealing' \in BOOLEAN /\ status' \in Statuses /\ stack' \in Seq(Frames)
    <3>1. Rest \in Seq(Frames) /\ connected \in BOOLEAN /\ ConnPeerClose(connected, Rest)
      BY <1>0, <1>8, StackFacts DEF ShutConnection, Running, TypeOK
    <3> QED
      BY <3>1, PeerCloseType
  <2> QED
    BY <1>8, <2>1 DEF ShutConnection, TypeOK, reqVars, writeVars
<1>9. CASE EraseEntry
  <2>1. stack' \in Seq(Frames) /\ Top \in Frames
    BY <1>0, <1>9, StackFacts DEF EraseEntry, Running
  <2>2. ticket' = [ticket EXCEPT ![Top.req] = 0] /\ crashed' = (Top.req \notin Hist)
    BY <1>9 DEF EraseEntry, Forget
  <2>3. ticket' \in [Request -> Nat] /\ crashed' \in BOOLEAN
    BY <2>2 DEF TypeOK
  <2> QED
    BY <1>9, <2>1, <2>3 DEF EraseEntry, TypeOK, sessVars, writeVars, connVars
<1>10. CASE ReadOn
  <2>1. stack' \in Seq(Frames)
    BY <1>0, <1>10, StackFacts DEF ReadOn, Running
  <2>2. dealing' = FALSE /\ reads' \in {reads, reads + 1}
    BY <1>10 DEF ReadOn
  <2>3. reads' \in Nat
    BY <2>2 DEF TypeOK
  <2> QED
    BY <1>10, <2>1, <2>2, <2>3 DEF ReadOn, TypeOK, sessVars, reqVars, writeVars
<1>11. CASE DeleteSession
  <2>1. stack' \in Seq(Frames)
    BY <1>0, <1>11, StackFacts DEF DeleteSession, Running
  <2> QED
    BY <1>11, <2>1 DEF DeleteSession, TypeOK, reqVars, writeVars, connVars
<1> QED
  BY <1>1, <1>2, <1>3, <1>4, <1>5, <1>6, <1>7, <1>8, <1>9, <1>10, <1>11 DEF Continue

(* The types of the messages the parser makes. *)
LEMMA MessageType ==
  /\ \A r \in Request, ok \in BOOLEAN : Response(r, ok) \in Messages
  /\ \A kind \in {"none", "hbreq", "hbres", "illegal"} : Plain(kind) \in Messages
  /\ NoMessage \in Messages
  /\ \A m \in Messages : m.kind = "response" => m.req \in Request /\ m.ok \in BOOLEAN
BY DEF Response, Plain, NoMessage, Messages

(* Completed operations of the connection. *)
LEMMA NetworkType ==
  ASSUME TypeOK, Network
  PROVE  TypeOK'
<1>0. <<>> \in Seq(Frames) /\ stack \in Seq(Frames)
  BY DEF TypeOK
<1>1. CASE HandleDial
  <2>1. PICK ok \in BOOLEAN : ConnectFinish(ok, linked, <<>>) /\ sockUp' = (sockUp \/ ok)
    BY <1>1 DEF HandleDial
  <2>2. /\ status' \in Statuses /\ hbTimer' \in BOOLEAN /\ reconn' \in BOOLEAN
        /\ stack' \in Seq(Frames) /\ connTimer' \subseteq {"armed", "queued"}
        /\ connected' \in BOOLEAN /\ reads' \in Nat
    <3>1. owner' \in BOOLEAN /\ linked \in BOOLEAN
      BY <1>1 DEF HandleDial, TypeOK
    <3> QED
      BY <1>0, <2>1, <3>1, ConnectFinishType
  <2>3. sockUp' \in BOOLEAN
    BY <2>1
  <2>4. dials' \in Nat
    <3>1. dials' = dials - 1 /\ dials > 0 /\ dials \in Nat
      BY <1>1 DEF HandleDial, TypeOK
    <3> QED
      BY <3>1
  <2> QED
    BY <1>1, <2>2, <2>3, <2>4 DEF HandleDial, TypeOK, reqVars, writeVars
<1>2. CASE HandleDialNext
  BY <1>2 DEF HandleDialNext, CloseSocket, TypeOK, sessVars, reqVars, connVars
<1>3. CASE ConnTimerExpires
  <2>1. connTimer' \subseteq {"armed", "queued"}
    BY <1>3 DEF ConnTimerExpires
  <2> QED
    BY <1>3, <2>1 DEF ConnTimerExpires, TypeOK, sessVars, reqVars, writeVars
<1>4. CASE HandleConnectTimeout
  <2>1. /\ status' \in Statuses /\ hbTimer' \in BOOLEAN /\ reconn' \in BOOLEAN
        /\ stack' \in Seq(Frames)
    <3>1. CASE linked
      <4>1. ConnectResult(FALSE, <<>>) /\ owner' \in BOOLEAN
        BY <1>4, <3>1 DEF HandleConnectTimeout, TypeOK
      <4> QED
        BY <1>0, <4>1, ConnectResultType
    <3>2. CASE ~linked
      BY <1>4, <3>2 DEF HandleConnectTimeout, TypeOK
    <3> QED
      BY <3>1, <3>2
  <2>2. sockUp' = FALSE /\ owed' = {} /\ connTimer' = {}
    BY <1>4 DEF HandleConnectTimeout, CloseSocket
  <2> QED
    BY <1>4, <2>1, <2>2 DEF HandleConnectTimeout, TypeOK, reqVars
<1>5. CASE ReadCompletes
  <2>1. reads' \in Nat
    <3>1. reads' = reads - 1 /\ reads > 0 /\ reads \in Nat
      BY <1>5 DEF ReadCompletes, TypeOK
    <3> QED
      BY <3>1
  <2>2. owed' \subseteq Request
    BY <1>5 DEF ReadCompletes, TypeOK
  <2>3. arrived' \in Messages
    BY <1>5, MessageType DEF ReadCompletes, TypeOK
  <2> QED
    BY <1>5, <2>1, <2>2, <2>3 DEF ReadCompletes, TypeOK, sessVars, reqVars
<1>6. CASE HandleRead
  <2>1. CASE linked /\ arrived.kind = "response"
    <3>1. OnReadResponse /\ dealing' = TRUE
      BY <1>6, <2>1 DEF HandleRead
    <3>2. Frame("ReadOn") \in Frames /\ <<Frame("ReadOn")>> \in Seq(Frames)
      BY FrameFacts DEF Ops
    <3>3. /\ status' \in Statuses /\ crashed' \in BOOLEAN /\ stack' \in Seq(Frames)
          /\ ticket' \in [Request -> Nat] /\ armed' \subseteq Request
          /\ fate' \in [Request -> Fates]
      <4>1. CASE /\ status' = IF arrived.ok THEN "CONNECTED" ELSE status
                 /\ stack' = <<Frame("ReadOn")>>
                 /\ UNCHANGED <<ticket, armed, fate, crashed>>
        BY <3>2, <4>1 DEF TypeOK, Statuses
      <4>2. ASSUME NEW r \in Hist,
                   crashed' = (fate[r] # "pending"),
                   Forget(r), StopTimer(r),
                   status' = IF arrived.ok \/ owner THEN "CONNECTED" ELSE status,
                   Deliver(r, IF r = arrived.req THEN "answered" ELSE "misanswered"),
                   stack' = Notify(<<Frame("ReadOn")>>)
            PROVE  /\ status' \in Statuses /\ crashed' \in BOOLEAN /\ stack' \in Seq(Frames)
                   /\ ticket' \in [Request -> Nat] /\ armed' \subseteq Request
                   /\ fate' \in [Request -> Fates]
        <5>1. stack' \in Seq(Frames)
          BY <3>2, <4>2, NotifyType
        <5>2. (IF r = arrived.req THEN "answered" ELSE "misanswered") \in Fates /\ r \in Request
          BY DEF Fates, Hist
        <5>3. /\ ticket' \in [Request -> Nat] /\ armed' \subseteq Request
              /\ fate' \in [Request -> Fates]
          BY <4>2, <5>2, SettleType
        <5>4. crashed' \in BOOLEAN
          BY <4>2
        <5>5. status' \in Statuses
          BY <4>2 DEF TypeOK, Statuses
        <5> QED
          BY <5>1, <5>3, <5>4, <5>5
      <4> QED
        BY <3>1, <4>1, <4>2 DEF OnReadResponse
    <3>4. UNCHANGED <<waitinglist, inserts, writing, writebuf, owed>>
      BY <3>1 DEF OnReadResponse, writeVars
    <3>5. arrived' \in Messages /\ connected' \in BOOLEAN
      BY <1>6, MessageType DEF HandleRead
    <3> QED
      BY <1>6, <3>1, <3>3, <3>4, <3>5 DEF HandleRead, TypeOK
  <2>2. CASE linked /\ arrived.kind \notin {"response", "illegal"}
    <3>1. OnReadHeartbeat /\ dealing' = TRUE
      BY <1>6, <2>2 DEF HandleRead
    <3>2. Frame("ReadOn") \in Frames /\ <<Frame("ReadOn")>> \in Seq(Frames)
      BY FrameFacts DEF Ops
    <3>3. status' \in Statuses /\ stack' \in Seq(Frames)
      BY <3>1, <3>2 DEF OnReadHeartbeat, Statuses
    <3>4. writing' \in BOOLEAN /\ writebuf' \subseteq Request /\ owed' \subseteq Request
      <4>1. AsyncWrite({}, arrived.kind = "hbreq")
        BY <3>1 DEF OnReadHeartbeat
      <4>2. (arrived.kind = "hbreq") \in BOOLEAN /\ {} \in SUBSET Request
        OBVIOUS
      <4> QED
        BY <4>1, <4>2, AsyncWriteType
    <3>5. arrived' \in Messages /\ connected' \in BOOLEAN
      BY <1>6, MessageType DEF HandleRead
    <3> QED
      BY <1>6, <3>1, <3>3, <3>4, <3>5 DEF HandleRead, OnReadHeartbeat, TypeOK, reqVars
  <2>3. CASE ~linked \/ arrived.kind = "illegal"
    <3>1. ConnPeerClose(TRUE, <<>>)
      BY <1>6, <2>3 DEF HandleRead
    <3>2. dealing' \in BOOLEAN /\ status' \in Statuses /\ stack' \in Seq(Frames)
      BY <1>0, <3>1, PeerCloseType
    <3>3. UNCHANGED <<reqVars, writeVars, crashed>>
      BY <1>6, <2>3 DEF HandleRead
    <3>4. arrived' \in Messages /\ connected' \in BOOLEAN
      BY <1>6, MessageType DEF HandleRead
    <3> QED
      BY <1>6, <3>2, <3>3, <3>4 DEF HandleRead, TypeOK, reqVars, writeVars
  <2> QED
    BY <2>1, <2>2, <2>3
<1>7. CASE HandleReadError
  <2>1. dealing' \in BOOLEAN /\ status' \in Statuses /\ stack' \in Seq(Frames)
    BY <1>0, <1>7, PeerCloseType DEF HandleReadError, TypeOK
  <2>2. reads' \in Nat
    <3>1. reads' = reads - 1 /\ reads > 0 /\ reads \in Nat
      BY <1>7 DEF HandleReadError, TypeOK
    <3> QED
      BY <3>1
  <2> QED
    BY <1>7, <2>1, <2>2 DEF HandleReadError, TypeOK, reqVars, writeVars
<1>8. CASE HandleWrite
  <2>1. dealing' \in BOOLEAN /\ status' \in Statuses /\ stack' \in Seq(Frames)
    <3>1. CASE ConnPeerClose(connected, <<>>)
      BY <1>0, <3>1, PeerCloseType DEF TypeOK
    <3>2. CASE UNCHANGED <<status, dealing, stack>>
      BY <3>2 DEF TypeOK
    <3> QED
      BY <1>8, <3>1, <3>2 DEF HandleWrite
  <2>2. writing' \in BOOLEAN
    BY <1>8 DEF HandleWrite
  <2> QED
    BY <1>8, <2>1, <2>2 DEF HandleWrite, TypeOK, reqVars
<1> QED
  BY <1>1, <1>2, <1>3, <1>4, <1>5, <1>6, <1>7, <1>8 DEF Network

(* The timers and the container's check. *)
LEMMA TimerType ==
  ASSUME TypeOK, Timer
  PROVE  TypeOK'
<1>0. <<>> \in Seq(Frames) /\ stack \in Seq(Frames)
  BY DEF TypeOK
<1>1. ASSUME NEW r \in Request, RequestTimer(r) PROVE TypeOK'
  <2>1. CASE r \notin Hist
    <3>1. Crash
      BY <1>1, <2>1 DEF RequestTimer
    <3>2. crashed' \in BOOLEAN
      BY <3>1 DEF Crash
    <3> QED
      BY <3>1, <3>2 DEF Crash, TypeOK, sessVars, reqVars, writeVars, connVars
  <2>2. CASE r \in Hist
    <3>1. stack' \in Seq(Frames)
      <4>1. PICK e \in Hist : stack' = Notify(<<FrameOf("Erase", e)>>)
        BY <1>1, <2>2 DEF RequestTimer
      <4>2. <<FrameOf("Erase", e)>> \in Seq(Frames)
        <5>1. e \in Request
          BY DEF Hist
        <5> QED
          BY <5>1, FrameFacts
      <4> QED
        BY <4>1, <4>2, NotifyType
    <3>2. armed' \subseteq Request /\ fate' \in [Request -> Fates]
      BY <1>1, <2>2, SettleType DEF RequestTimer, Fates
    <3>3. crashed' \in BOOLEAN
      BY <1>1, <2>2 DEF RequestTimer
    <3> QED
      BY <1>1, <2>2, <3>1, <3>2, <3>3, ZenonT(30) DEF RequestTimer, TypeOK, sessVars, writeVars, connVars
  <2> QED
    BY <2>1, <2>2
<1>2. CASE ReconnectTimer
  <2>1. owner' \in BOOLEAN /\ FALSE \in BOOLEAN /\ DoConnect(FALSE, <<>>)
    BY <1>2 DEF ReconnectTimer, TypeOK
  <2>2. /\ linked' \in BOOLEAN /\ reconn' \in BOOLEAN /\ hbTimer' \in BOOLEAN
        /\ connected' \in BOOLEAN /\ status' \in Statuses /\ reads' \in Nat /\ dials' \in Nat
        /\ connTimer' \subseteq {"armed", "queued"} /\ stack' \in Seq(Frames)
    BY <1>0, <2>1, DoConnectType
  <2> QED
    BY <1>2, <2>1, <2>2 DEF ReconnectTimer, TypeOK, reqVars, writeVars
<1>3. CASE DoHeartBeat
  <2>1. AsyncWrite({}, connected) /\ connected \in BOOLEAN /\ {} \in SUBSET Request
    BY <1>3 DEF DoHeartBeat, TypeOK
  <2>2. writing' \in BOOLEAN /\ writebuf' \subseteq Request /\ owed' \subseteq Request
    BY <2>1, AsyncWriteType
  <2> QED
    BY <1>3, <2>2 DEF DoHeartBeat, TypeOK, sessVars, reqVars, connVars
<1>4. CASE CheckSession
  <2> DEFINE rest == <<Frame("Delete"), Frame("CleanHistory")>>
  <2>1. /\ owner' \in {owner, FALSE} /\ linked' \in {linked, FALSE}
        /\ status' \in {"TIME_OUT", "CLOSED", status}
        /\ stack' \in {stack, rest, Push(Push(rest, "Shut"), "CleanHistory")}
    BY <1>4 DEF CheckSession, Close
  <2>2. rest \in Seq(Frames) /\ Push(Push(rest, "Shut"), "CleanHistory") \in Seq(Frames)
    <3>1. Frame("Delete") \in Frames /\ Frame("CleanHistory") \in Frames
      BY FrameFacts DEF Ops
    <3>2. rest \in Seq(Frames)
      BY <3>1
    <3> QED
      BY <1>0, <3>2, StackFacts DEF Ops
  <2>3. /\ owner' \in BOOLEAN /\ linked' \in BOOLEAN /\ status' \in Statuses
        /\ stack' \in Seq(Frames)
    BY <2>1, <2>2 DEF TypeOK, Statuses
  <2> QED
    BY <1>4, <2>3 DEF CheckSession, TypeOK, reqVars, writeVars
<1> QED
  BY <1>1, <1>2, <1>3, <1>4 DEF Timer

(* The initial state is well typed. *)
LEMMA InitType == Init => TypeOK
<1> SUFFICES ASSUME Init PROVE TypeOK
  OBVIOUS
<1>1. /\ ticket \in [Request -> Nat] /\ fate \in [Request -> Fates]
      /\ waitinglist \in Seq(Request) /\ stack \in Seq(Frames)
  BY DEF Init, Fates
<1>2. /\ inserts \in Nat /\ reads \in Nat /\ dials \in Nat /\ calls \in Nat
      /\ connTimer \subseteq {"armed", "queued"} /\ status \in Statuses
      /\ arrived \in Messages
  BY MessageType DEF Init, Statuses
<1> QED
  BY <1>1, <1>2 DEF Init, TypeOK

(* Every variable keeps its type. *)
THEOREM TypeCorrect == Spec => []TypeOK
<1>1. Init => TypeOK
  BY InitType
<1>2. TypeOK /\ [Next]_vars => TypeOK'
  <2>1. ASSUME TypeOK, UNCHANGED vars PROVE TypeOK'
    BY <2>1 DEF TypeOK, vars, sessVars, reqVars, writeVars, connVars
  <2> QED
    BY <2>1, UserType, ContinueType, NetworkType, TimerType DEF Next
<1> QED
  BY <1>1, <1>2, PTL DEF Spec

-----------------------------------------------------------------------------
(* The inductive invariant. *)

(* What the proofs ask of the business code: its sequence ids are distinct, it
   does not call DoClose from inside OnEvent, and it does not send on a session
   it closed without DoConnect. *)
Disciplined ==
  /\ \A q, r \in Request : SeqOf[q] = SeqOf[r] => q = r
  /\ "Close" \notin Nested
  /\ "SendTo" \in Posted => "Close" \notin Posted

(* The requests the running task is about to send, and the one whose entry it is
   about to erase. *)
Sending(s) == {r \in Request : \E i \in 1..Len(s) : s[i] = FrameOf("SendTo", r)}
Erasing(s) == {r \in Request : \E i \in 1..Len(s) : s[i] = FrameOf("Erase", r)}

(* How a task's frames can be stacked: no request is about to be sent twice, the
   handler runs and requests are sent only for an owner, and a timeout is the
   start of its task, in which nothing can clean the history. *)
Shape(s, own) ==
  /\ \A i, j \in 1..Len(s) : s[i].op = "SendTo" /\ s[j] = s[i] => i = j
  /\ \A i \in 1..Len(s) : s[i].op = "Erase" => i = 1
  /\ \A i \in 2..Len(s) : s[1].op = "Erase" => s[i].op \in {"Handler", "SendTo", "Deal"}
  /\ \A i \in 1..Len(s) : s[i].op \in {"Handler", "SendTo"} => own

(* The task will delete the session when all else is done. *)
Deleting(s) == Len(s) > 0 /\ s[1].op = "Delete"

(* Where the requests are. *)
Placed ==
  /\ \A i, j \in 1..Len(waitinglist) : waitinglist[i] = waitinglist[j] => i = j
  /\ \A r \in Waiting : fate[r] = "pending" /\ r \notin Hist /\ r \notin Sending(stack)
  /\ \A r \in Sending(stack) : fate[r] = "pending" /\ r \notin Hist
  /\ \A r \in Request :
       fate[r] = "pending" => r \in Waiting \/ r \in Hist \/ r \in Sending(stack)
  /\ armed \subseteq Hist
  /\ Erasing(stack) \subseteq Hist
  /\ \A r \in Hist : \/ fate[r] = "pending" /\ r \in armed /\ r \notin Erasing(stack)
                     \/ fate[r] \in {"timeout", "freed"} /\ r \notin armed
                        /\ r \in Erasing(stack)

(* A session loses its owner only by a close. *)
Owned == "Close" \notin Posted /\ ~owner => ~alive \/ Deleting(stack)

IInv ==
  /\ TypeOK
  /\ Shape(stack, owner)
  /\ Placed
  /\ Owned
  /\ ~crashed
  /\ \A r \in Request : fate[r] # "misanswered"

(* A frame that holds no request changes nothing of what the stack holds. *)
LEMMA PushKeeps ==
  ASSUME NEW s \in Seq(Frames), NEW op \in Ops, NEW own \in BOOLEAN, Shape(s, own)
  PROVE  /\ Push(s, op) \in Seq(Frames)
         /\ Sending(Push(s, op)) = Sending(s)
         /\ Erasing(Push(s, op)) = Erasing(s)
         /\ Deleting(s) => Deleting(Push(s, op))
         /\ /\ op = "Handler" => own
            /\ op \in {"Handler", "Deal"} \/ Erasing(s) = {}
            => Shape(Push(s, op), own)
<1> DEFINE t == Push(s, op)
           n == Len(s)
<1>1. /\ t \in Seq(Frames) /\ n \in Nat /\ Len(t) = n + 1
      /\ \A i \in 1..n : t[i] = s[i]
      /\ t[n + 1] = Frame(op)
  BY PushFacts, FrameFacts DEF Push
<1>2. Frame(op).op = op /\ op \notin {"SendTo", "Erase"}
  BY DEF Frame, Ops
<1>3. \A r \in Request : /\ Frame(op) # FrameOf("SendTo", r)
                         /\ Frame(op) # FrameOf("Erase", r)
  BY <1>2 DEF Frame, FrameOf
<1> HIDE DEF t
<1>4. \A i \in 1..Len(t) : i \in 1..n \/ i = n + 1
  BY <1>1
<1>5. \A i \in 1..n : i \in 1..Len(t)
  BY <1>1
<1>6. Sending(t) = Sending(s)
  BY <1>1, <1>3, <1>4, <1>5 DEF Sending
<1>7. Erasing(t) = Erasing(s)
  BY <1>1, <1>3, <1>4, <1>5 DEF Erasing
<1>8. Deleting(s) => Deleting(t)
  BY <1>1 DEF Deleting
<1>9. ASSUME op = "Handler" => own,
             op \in {"Handler", "Deal"} \/ Erasing(s) = {}
      PROVE  Shape(t, own)
  <2>1. \A i, j \in 1..Len(t) : t[i].op = "SendTo" /\ t[j] = t[i] => i = j
    <3> SUFFICES ASSUME NEW i \in 1..Len(t), NEW j \in 1..Len(t),
                        t[i].op = "SendTo", t[j] = t[i]
                 PROVE  i = j
      OBVIOUS
    <3>1. i # n + 1 /\ j # n + 1
      BY <1>1, <1>2
    <3>2. i \in 1..n /\ j \in 1..n
      BY <1>4, <3>1
    <3> QED
      BY <1>1, <3>2 DEF Shape
  <2>2. \A i \in 1..Len(t) : t[i].op = "Erase" => i = 1
    BY <1>1, <1>2, <1>4 DEF Shape
  <2>3. \A i \in 2..Len(t) : t[1].op = "Erase" => t[i].op \in {"Handler", "SendTo", "Deal"}
    <3> SUFFICES ASSUME NEW i \in 2..Len(t), t[1].op = "Erase"
                 PROVE  t[i].op \in {"Handler", "SendTo", "Deal"}
      OBVIOUS
    <3>1. 1 \in 1..n /\ s[1].op = "Erase"
      BY <1>1, <1>2
    <3>2. s[1] \in Frames
      BY <3>1
    <3>3. PICK r \in Request : s[1] = FrameOf("Erase", r)
      BY <3>1, <3>2 DEF Frames, FrameOf, Ops
    <3>4. Erasing(s) # {}
      BY <3>1, <3>3 DEF Erasing
    <3>5. CASE i \in 1..n
      BY <1>1, <3>1, <3>5 DEF Shape
    <3>6. CASE i = n + 1
      BY <1>1, <1>2, <1>9, <3>4, <3>6
    <3> QED
      BY <1>4, <3>5, <3>6, <1>1
  <2>4. \A i \in 1..Len(t) : t[i].op \in {"Handler", "SendTo"} => own
    BY <1>1, <1>2, <1>4, <1>9 DEF Shape
  <2> QED
    BY <2>1, <2>2, <2>3, <2>4 DEF Shape
<1> QED
  BY <1>1, <1>6, <1>7, <1>8, <1>9 DEF t

(* A task about to send one more request. *)
LEMMA SendKeeps ==
  ASSUME NEW s \in Seq(Frames), NEW r \in Request, NEW own \in BOOLEAN, Shape(s, own)
  PROVE  LET t == Append(s, FrameOf("SendTo", r))
         IN  /\ t \in Seq(Frames)
             /\ Sending(t) = Sending(s) \cup {r}
             /\ Erasing(t) = Erasing(s)
             /\ Deleting(s) => Deleting(t)
             /\ own /\ r \notin Sending(s) => Shape(t, own)
<1> DEFINE t == Append(s, FrameOf("SendTo", r))
           n == Len(s)
<1>1. /\ t \in Seq(Frames) /\ n \in Nat /\ Len(t) = n + 1
      /\ \A i \in 1..n : t[i] = s[i]
      /\ t[n + 1] = FrameOf("SendTo", r)
  BY PushFacts, FrameFacts
<1>2. FrameOf("SendTo", r).op = "SendTo" /\ FrameOf("SendTo", r).req = r
  BY DEF FrameOf
<1>3. \A q \in Request : /\ FrameOf("SendTo", r) # FrameOf("Erase", q)
                         /\ FrameOf("SendTo", r) = FrameOf("SendTo", q) => q = r
  BY DEF FrameOf
<1> HIDE DEF t
<1>4. \A i \in 1..Len(t) : i \in 1..n \/ i = n + 1
  BY <1>1
<1>5. (\A i \in 1..n : i \in 1..Len(t)) /\ n + 1 \in 1..Len(t)
  BY <1>1
<1>6. Sending(t) = Sending(s) \cup {r}
  BY <1>1, <1>3, <1>4, <1>5 DEF Sending
<1>7. Erasing(t) = Erasing(s)
  BY <1>1, <1>3, <1>4, <1>5 DEF Erasing
<1>8. Deleting(s) => Deleting(t)
  BY <1>1 DEF Deleting
<1>9. ASSUME own, r \notin Sending(s) PROVE Shape(t, own)
  <2>1. \A i, j \in 1..Len(t) : t[i].op = "SendTo" /\ t[j] = t[i] => i = j
    <3> SUFFICES ASSUME NEW i \in 1..Len(t), NEW j \in 1..Len(t),
                        t[i].op = "SendTo", t[j] = t[i]
                 PROVE  i = j
      OBVIOUS
    <3>1. CASE i \in 1..n /\ j \in 1..n
      BY <1>1, <3>1 DEF Shape
    <3>2. CASE i \in 1..n /\ j = n + 1
      BY <1>1, <1>9, <3>2 DEF Sending
    <3>3. CASE i = n + 1 /\ j \in 1..n
      BY <1>1, <1>9, <3>3 DEF Sending
    <3> QED
      BY <1>4, <3>1, <3>2, <3>3
  <2>2. \A i \in 1..Len(t) : t[i].op = "Erase" => i = 1
    BY <1>1, <1>2, <1>4 DEF Shape
  <2>3. \A i \in 2..Len(t) : t[1].op = "Erase" => t[i].op \in {"Handler", "SendTo", "Deal"}
    BY <1>1, <1>2, <1>4 DEF Shape
  <2>4. \A i \in 1..Len(t) : t[i].op \in {"Handler", "SendTo"} => own
    BY <1>9
  <2> QED
    BY <2>1, <2>2, <2>3, <2>4 DEF Shape
<1> QED
  BY <1>1, <1>6, <1>7, <1>8, <1>9 DEF t

(* What is left of the stack when its last frame is done. *)
LEMMA RestKeeps ==
  ASSUME NEW own \in BOOLEAN, stack \in Seq(Frames), stack # <<>>, Shape(stack, own)
  PROVE  /\ Rest \in Seq(Frames) /\ Top \in Frames
         /\ Shape(Rest, own)
         /\ Top.op \in {"Handler", "SendTo"} => own
         /\ Top.op # "Delete" /\ Deleting(stack) => Deleting(Rest)
         /\ Top.op = "SendTo" => Top.req \in Sending(stack)
         /\ Sending(Rest) = IF Top.op = "SendTo" THEN Sending(stack) \ {Top.req}
                                                 ELSE Sending(stack)
         /\ Top.op = "Erase" => Erasing(stack) = {Top.req} /\ Rest = <<>>
         /\ Top.op # "Erase" => Erasing(Rest) = Erasing(stack)
         /\ Top.op \notin {"Handler", "SendTo", "Deal", "Erase"} => Erasing(stack) = {}
<1> DEFINE n == Len(stack)
<1>1. /\ n \in Nat \ {0} /\ Rest \in Seq(Frames) /\ Len(Rest) = n - 1
      /\ \A i \in 1..(n - 1) : Rest[i] = stack[i]
      /\ stack[n] \in Frames /\ Top = stack[n]
  BY RestFacts DEF Rest, Top
<1>2. \A i \in 1..n : i \in 1..(n - 1) \/ i = n
  BY <1>1
<1>3. (\A i \in 1..(n - 1) : i \in 1..n) /\ n \in 1..n
  BY <1>1
<1>4. \A i \in 1..n : /\ stack[i].op = "Erase" => i = 1
                      /\ i # 1 /\ stack[1].op = "Erase" =>
                           stack[i].op \in {"Handler", "SendTo", "Deal"}
  BY <1>1 DEF Shape
<1>5. \A i, j \in 1..n : stack[i].op = "SendTo" /\ stack[j] = stack[i] => i = j
  BY DEF Shape
<1>6. \A r \in Request : /\ FrameOf("SendTo", r).op = "SendTo" /\ FrameOf("SendTo", r).req = r
                         /\ FrameOf("Erase", r).op = "Erase" /\ FrameOf("Erase", r).req = r
  BY DEF FrameOf
<1>7. /\ Top.op = "SendTo" => Top.req \in Request /\ Top = FrameOf("SendTo", Top.req)
      /\ Top.op = "Erase" => Top.req \in Request /\ Top = FrameOf("Erase", Top.req)
  BY <1>1 DEF Frames, FrameOf, Ops
<1>8. Shape(Rest, own)
  <2>1. \A i \in 2..(n - 1) : i \in 1..(n - 1) /\ i \in 2..n /\ 1 \in 1..(n - 1)
    BY <1>1
  <2>2. \A i, j \in 1..Len(Rest) : Rest[i].op = "SendTo" /\ Rest[j] = Rest[i] => i = j
    BY <1>1, <1>3, <1>5
  <2>3. \A i \in 1..Len(Rest) : Rest[i].op = "Erase" => i = 1
    BY <1>1, <1>3, <1>4
  <2>4. \A i \in 2..Len(Rest) : Rest[1].op = "Erase" =>
                                   Rest[i].op \in {"Handler", "SendTo", "Deal"}
    BY <1>1, <1>4, <2>1
  <2>5. \A i \in 1..Len(Rest) : Rest[i].op \in {"Handler", "SendTo"} => own
    BY <1>1, <1>3 DEF Shape
  <2> QED
    BY <2>2, <2>3, <2>4, <2>5 DEF Shape
<1>9. Top.op \in {"Handler", "SendTo"} => own
  BY <1>1, <1>3 DEF Shape
<1>10. Top.op # "Delete" /\ Deleting(stack) => Deleting(Rest)
  <2> SUFFICES ASSUME Top.op # "Delete", Deleting(stack) PROVE Deleting(Rest)
    OBVIOUS
  <2>1. stack[1].op = "Delete" /\ n # 1
    BY <1>1 DEF Deleting
  <2>2. n - 1 > 0 /\ 1 \in 1..(n - 1)
    BY <1>1, <2>1
  <2> QED
    BY <1>1, <2>1, <2>2 DEF Deleting
<1>11. Top.op = "SendTo" => Top.req \in Sending(stack)
  BY <1>1, <1>3, <1>7 DEF Sending
<1>12. CASE Top.op = "SendTo"
  <2>1. Sending(Rest) = Sending(stack) \ {Top.req}
    <3>1. ASSUME NEW r \in Sending(Rest) PROVE r \in Sending(stack) \ {Top.req}
      <4>1. PICK i \in 1..(n - 1) : stack[i] = FrameOf("SendTo", r) /\ r \in Request
        BY <1>1, <3>1 DEF Sending
      <4>2. i \in 1..n /\ i # n
        BY <1>1
      <4>3. r # Top.req
        BY <1>1, <1>3, <1>5, <1>7, <1>12, <4>1, <4>2
      <4> QED
        BY <4>1, <4>2, <4>3 DEF Sending
    <3>2. ASSUME NEW r \in Sending(stack) \ {Top.req} PROVE r \in Sending(Rest)
      <4>1. PICK i \in 1..n : stack[i] = FrameOf("SendTo", r) /\ r \in Request
        BY <3>2 DEF Sending
      <4>2. i # n
        BY <1>1, <1>6, <4>1, <3>2
      <4> QED
        BY <1>1, <1>2, <4>1, <4>2 DEF Sending
    <3> QED
      BY <3>1, <3>2
  <2>2. Erasing(Rest) = Erasing(stack)
    BY <1>1, <1>2, <1>3, <1>6, <1>12, SMTT(30) DEF Erasing
  <2> QED
    BY <1>1, <1>8, <1>9, <1>10, <1>11, <1>12, <2>1, <2>2
<1>13. CASE Top.op = "Erase"
  <2>1. n = 1 /\ stack[1] = Top
    BY <1>1, <1>3, <1>4, <1>13
  <2>2. Rest = <<>>
    BY <1>1, <2>1, EmptySeq
  <2>3. Erasing(stack) = {Top.req}
    <3>1. \A i \in 1..n : i = 1
      BY <2>1
    <3>2. \A r \in Request : FrameOf("Erase", r) = Top => r = Top.req
      BY <1>6
    <3> QED
      BY <1>3, <1>7, <1>13, <2>1, <3>1, <3>2 DEF Erasing
  <2>4. Sending(stack) = {} /\ Sending(Rest) = {}
    <3>1. \A i \in 1..n : stack[i].op = "Erase"
      BY <1>13, <2>1
    <3>2. \A i \in 1..(n - 1) : FALSE
      BY <2>1
    <3> QED
      BY <1>1, <1>6, <3>1, <3>2 DEF Sending
  <2> QED
    BY <1>1, <1>8, <1>9, <1>10, <1>13, <2>2, <2>3, <2>4
<1>14. CASE Top.op \notin {"SendTo", "Erase"}
  <2>1. Sending(Rest) = Sending(stack)
    BY <1>1, <1>2, <1>3, <1>6, <1>14, SMTT(30) DEF Sending
  <2>2. Erasing(Rest) = Erasing(stack)
    BY <1>1, <1>2, <1>3, <1>6, <1>14 DEF Erasing
  <2>3. Top.op \notin {"Handler", "SendTo", "Deal", "Erase"} => Erasing(stack) = {}
    <3> SUFFICES ASSUME Top.op \notin {"Handler", "SendTo", "Deal", "Erase"},
                        NEW r \in Erasing(stack)
                 PROVE  FALSE
      OBVIOUS
    <3>1. PICK i \in 1..n : stack[i] = FrameOf("Erase", r) /\ r \in Request
      BY DEF Erasing
    <3>2. i = 1 /\ stack[1].op = "Erase"
      BY <1>4, <1>6, <3>1
    <3> QED
      BY <1>1, <1>3, <1>4, <3>2
  <2> QED
    BY <1>1, <1>8, <1>9, <1>10, <1>14, <2>1, <2>2, <2>3
<1> QED
  BY <1>12, <1>13, <1>14

(* Between tasks there is nothing on the stack. *)
LEMMA EmptyStack ==
  /\ \A own \in BOOLEAN : Shape(<<>>, own)
  /\ Sending(<<>>) = {} /\ Erasing(<<>>) = {} /\ ~Deleting(<<>>)
BY DEF Shape, Sending, Erasing, Deleting

(* t continues s: the same requests are held, and it is still a legal stack. *)
Continues(t, s, own) ==
  /\ t \in Seq(Frames)
  /\ Sending(t) = Sending(s) /\ Erasing(t) = Erasing(s)
  /\ Shape(t, own)
  /\ Deleting(s) => Deleting(t)

(* One more frame goes on top of a task that continues. *)
LEMMA ContinuesPush ==
  ASSUME NEW s, NEW t \in Seq(Frames), NEW own \in BOOLEAN, NEW op \in Ops,
         Continues(t, s, own), op = "Handler" => own,
         op \in {"Handler", "Deal"} \/ Erasing(s) = {}
  PROVE  Continues(Push(t, op), s, own)
BY PushKeeps DEF Continues

(* The handler is called on top of any task, if there is an owner. *)
LEMMA ContinuesNotify ==
  ASSUME NEW s, NEW t \in Seq(Frames), owner \in BOOLEAN, Continues(t, s, owner)
  PROVE  Continues(Notify(t), s, owner)
<1>1. CASE owner
  BY <1>1, ContinuesPush DEF Notify, Ops
<1>2. CASE ~owner
  BY <1>2 DEF Notify
<1> QED
  BY <1>1, <1>2

(* The connection calls the session back. *)
LEMMA ContinuesConnect ==
  ASSUME NEW s, NEW t \in Seq(Frames), NEW ok \in BOOLEAN, owner' \in BOOLEAN,
         Continues(t, s, owner'), ConnectResult(ok, t)
  PROVE  Continues(stack', s, owner')
<1>1. Continues(Push(t, "Deal"), s, owner') /\ Push(t, "Deal") \in Seq(Frames)
  <2>1. Continues(Push(t, "Deal"), s, owner')
    BY ContinuesPush DEF Ops
  <2> QED
    BY <2>1 DEF Continues
<1>2. CASE owner'
  <2>1. stack' = Push(Push(t, "Deal"), "Handler")
    BY <1>2 DEF ConnectResult
  <2> QED
    BY <1>1, <1>2, <2>1, ContinuesPush DEF Ops
<1>3. CASE ~owner'
  BY <1>1, <1>3 DEF ConnectResult
<1> QED
  BY <1>2, <1>3

(* DoConnect goes on with the task, or reports a connection it already has. *)
LEMMA ContinuesDoConnect ==
  ASSUME NEW s, NEW t \in Seq(Frames), NEW b \in BOOLEAN, owner' \in BOOLEAN,
         Continues(t, s, owner'), DoConnect(b, t)
  PROVE  Continues(stack', s, owner')
<1>1. CASE stack' = t
  BY <1>1
<1>2. CASE ConnectFinish(TRUE, TRUE, t)
  <2>1. ConnectResult(TRUE, t)
    BY <1>2 DEF ConnectFinish
  <2> QED
    BY <2>1, ContinuesConnect
<1> QED
  BY <1>1, <1>2 DEF DoConnect

(* The connection closes; between tasks and in a close no timeout is running. *)
LEMMA ContinuesPeerClose ==
  ASSUME NEW s, NEW t \in Seq(Frames), NEW own \in BOOLEAN, NEW b \in BOOLEAN,
         Continues(t, s, own), Erasing(s) = {}, ConnPeerClose(b, t)
  PROVE  Continues(stack', s, own)
<1> DEFINE t1 == Push(t, "Drop")
           t2 == Push(t1, "Reconnect")
           t3 == Push(t2, "CleanHistory")
<1>1. t1 \in Seq(Frames) /\ Continues(t1, s, own)
  <2>1. Continues(t1, s, own)
    BY ContinuesPush DEF Ops
  <2> QED
    BY <2>1 DEF Continues
<1>2. t2 \in Seq(Frames) /\ Continues(t2, s, own)
  <2> HIDE DEF t1
  <2>1. Continues(t2, s, own)
    BY <1>1, ContinuesPush DEF Ops
  <2> QED
    BY <2>1 DEF Continues
<1>3. Continues(t3, s, own)
  <2> HIDE DEF t2
  <2> QED
    BY <1>2, ContinuesPush DEF Ops
<1>4. stack' \in {t, t1, t3}
  BY DEF ConnPeerClose
<1> QED
  BY <1>1, <1>3, <1>4

(* A close cleans the session and shuts its connection. *)
LEMMA ContinuesClose ==
  ASSUME NEW s, NEW t, NEW own \in BOOLEAN, Continues(t, s, own), Erasing(s) = {}
  PROVE  Continues(Push(Push(t, "Shut"), "CleanHistory"), s, own)
<1> DEFINE t1 == Push(t, "Shut")
<1>1. Continues(t1, s, own) /\ t1 \in Seq(Frames)
  <2>1. t \in Seq(Frames)
    BY DEF Continues
  <2>2. Continues(t1, s, own)
    BY <2>1, ContinuesPush DEF Ops
  <2> QED
    BY <2>2 DEF Continues
<1> HIDE DEF t1
<1>2. Continues(Push(t1, "CleanHistory"), s, own)
  BY <1>1, ContinuesPush DEF Ops
<1> QED
  BY <1>2 DEF t1

(* The requests stay where they are when nothing that holds them changes. *)
LEMMA PlacedKept ==
  ASSUME Placed, UNCHANGED <<waitinglist, ticket, armed, fate>>,
         Sending(stack') = Sending(stack), Erasing(stack') = Erasing(stack)
  PROVE  Placed'
<1>1. Waiting' = Waiting /\ Hist' = Hist
  BY DEF Waiting, Hist
<1> QED
  BY <1>1 DEF Placed

(* A session that keeps its owner, or is being deleted, stays owned. *)
LEMMA OwnedKept ==
  ASSUME Owned, owner => owner', UNCHANGED alive, Deleting(stack) => Deleting(stack')
  PROVE  Owned'
BY DEF Owned

(* A step that moves no request. *)
LEMMA QuietStep ==
  ASSUME IInv, TypeOK', UNCHANGED <<waitinglist, ticket, armed, fate, crashed>>,
         Sending(stack') = Sending(stack), Erasing(stack') = Erasing(stack),
         Shape(stack', owner'), Owned'
  PROVE  IInv'
BY PlacedKept DEF IInv

(* A request is parked. *)
LEMMA ParkFacts ==
  ASSUME TypeOK, Placed, NEW r \in Request, r \notin Waiting,
         waitinglist' = Append(waitinglist, r)
  PROVE  /\ Waiting' = Waiting \cup {r}
         /\ \A i, j \in 1..Len(waitinglist') : waitinglist'[i] = waitinglist'[j] => i = j
<1> DEFINE n == Len(waitinglist)
<1>1. /\ n \in Nat /\ Len(waitinglist') = n + 1
      /\ \A i \in 1..n : waitinglist'[i] = waitinglist[i]
      /\ waitinglist'[n + 1] = r
      /\ DOMAIN waitinglist = 1..n /\ DOMAIN waitinglist' = 1..(n + 1)
  BY AppendProperties DEF TypeOK
<1>2. \A i \in 1..(n + 1) : i \in 1..n \/ i = n + 1
  BY <1>1
<1>3. (\A i \in 1..n : i \in 1..(n + 1)) /\ n + 1 \in 1..(n + 1)
  BY <1>1
<1>4. Waiting' = Waiting \cup {r}
  BY <1>1, <1>2, <1>3 DEF Waiting
<1>5. \A i \in 1..n : waitinglist[i] # r
  BY <1>1 DEF Waiting
<1>6. \A i, j \in 1..n : waitinglist[i] = waitinglist[j] => i = j
  BY DEF Placed
<1>7. \A i, j \in 1..(n + 1) : waitinglist'[i] = waitinglist'[j] => i = j
  BY <1>1, <1>2, <1>5, <1>6
<1> QED
  BY <1>1, <1>4, <1>7

(* The first request that waits is taken. *)
LEMMA UnparkFacts ==
  ASSUME TypeOK, Placed, waitinglist # <<>>, waitinglist' = Tail(waitinglist)
  PROVE  /\ Head(waitinglist) \in Request /\ Head(waitinglist) \in Waiting
         /\ Waiting' = Waiting \ {Head(waitinglist)}
         /\ \A i, j \in 1..Len(waitinglist') : waitinglist'[i] = waitinglist'[j] => i = j
<1> DEFINE n == Len(waitinglist)
<1>1. /\ n \in Nat \ {0} /\ Len(waitinglist') = n - 1
      /\ \A i \in 1..(n - 1) : waitinglist'[i] = waitinglist[i + 1]
      /\ Head(waitinglist) = waitinglist[1] /\ Head(waitinglist) \in Request
      /\ DOMAIN waitinglist = 1..n /\ DOMAIN waitinglist' = 1..(n - 1)
  BY HeadTailProperties, EmptySeq DEF TypeOK
<1>2. \A i \in 1..n : i = 1 \/ (i - 1 \in 1..(n - 1) /\ (i - 1) + 1 = i)
  BY <1>1
<1>3. (\A i \in 1..(n - 1) : i + 1 \in 1..n /\ i + 1 # 1) /\ 1 \in 1..n
  BY <1>1
<1>4. \A i, j \in 1..n : waitinglist[i] = waitinglist[j] => i = j
  BY DEF Placed
<1>5. Waiting' = Waiting \ {waitinglist[1]}
  <2>1. ASSUME NEW q \in Waiting' PROVE q \in Waiting \ {waitinglist[1]}
    <3>1. PICK i \in 1..(n - 1) : q = waitinglist[i + 1]
      BY <1>1, <2>1 DEF Waiting
    <3>2. i + 1 \in 1..n /\ i + 1 # 1
      BY <1>3
    <3>3. q \in Waiting
      BY <1>1, <3>1, <3>2 DEF Waiting
    <3>4. q # waitinglist[1]
      BY <1>3, <1>4, <3>1, <3>2
    <3> QED
      BY <3>3, <3>4
  <2>2. ASSUME NEW q \in Waiting \ {waitinglist[1]} PROVE q \in Waiting'
    <3>1. PICK i \in 1..n : q = waitinglist[i]
      BY <1>1, <2>2 DEF Waiting
    <3>2. i - 1 \in 1..(n - 1) /\ (i - 1) + 1 = i
      BY <1>2, <2>2, <3>1
    <3>3. waitinglist'[i - 1] = q
      BY <1>1, <3>1, <3>2
    <3> QED
      BY <1>1, <3>2, <3>3 DEF Waiting
  <2> QED
    BY <2>1, <2>2
<1>6. \A i, j \in 1..(n - 1) : waitinglist'[i] = waitinglist'[j] => i = j
  <2> SUFFICES ASSUME NEW i \in 1..(n - 1), NEW j \in 1..(n - 1),
                      waitinglist'[i] = waitinglist'[j]
               PROVE  i = j
    OBVIOUS
  <2>1. i + 1 = j + 1
    BY <1>1, <1>3, <1>4
  <2> QED
    BY <2>1
<1> QED
  BY <1>1, <1>3, <1>5, <1>6 DEF Waiting

(* The history and the timers, as the actions change them. *)
LEMMA HistFacts ==
  ASSUME TypeOK, NEW r \in Request
  PROVE  /\ Remember(r) => Hist' = Hist \cup {r}
         /\ Forget(r) => Hist' = Hist \ {r}
         /\ UNCHANGED ticket => Hist' = Hist
<1>1. ASSUME Remember(r) PROVE Hist' = Hist \cup {r}
  <2>1. ticket' = [ticket EXCEPT ![r] = inserts + 1] /\ inserts + 1 > 0
    BY <1>1 DEF Remember, TypeOK
  <2> QED
    BY <2>1 DEF Hist, TypeOK
<1>2. ASSUME Forget(r) PROVE Hist' = Hist \ {r}
  <2>1. ticket' = [ticket EXCEPT ![r] = 0]
    BY <1>2 DEF Forget
  <2> QED
    BY <2>1 DEF Hist, TypeOK
<1> QED
  BY <1>1, <1>2 DEF Hist

(* A request about to be sent ends up in one place, or is settled. *)
LEMMA SendPlaced ==
  ASSUME TypeOK, owner, Placed, NEW r \in Request, NEW s \in Seq(Frames),
         r \notin Waiting, r \notin Hist,
         Sending(s) = Sending(stack) \ {r}, Erasing(s) = Erasing(stack),
         Shape(s, owner), DoSendTo(r, s)
  PROVE  /\ Placed' /\ Shape(stack', owner) /\ (Deleting(s) => Deleting(stack'))
         /\ crashed' \in {crashed, FALSE}
         /\ \A q \in Request : fate'[q] # fate[q] => fate'[q] \in {"pending", "closed"}
<1> r \notin Erasing(stack)
  BY DEF Placed
<1>1. CASE status \in {"CONNECTING", "WAITING"}
  <2>1. /\ waitinglist' = Append(waitinglist, r) /\ fate' = [fate EXCEPT ![r] = "pending"]
        /\ stack' = s /\ UNCHANGED <<ticket, armed, crashed>>
    BY <1>1 DEF DoSendTo
  <2>2. /\ Waiting' = Waiting \cup {r}
        /\ \A i, j \in 1..Len(waitinglist') : waitinglist'[i] = waitinglist'[j] => i = j
    BY <2>1, ParkFacts
  <2>3. Hist' = Hist /\ fate'[r] = "pending" /\ \A q \in Request \ {r} : fate'[q] = fate[q]
    BY <2>1, HistFacts DEF TypeOK
  <2>4. Hist \subseteq Request /\ Sending(stack) \subseteq Request /\ Waiting \subseteq Request
    BY ElementOfSeq DEF Hist, Sending, Waiting, TypeOK
  <2>5. Placed'
    BY <2>1, <2>2, <2>3, <2>4 DEF Placed
  <2> QED
    BY <2>1, <2>3, <2>5
<1>2. CASE status = "CONNECTED"
  <2>1. /\ StartTimer(r) /\ Remember(r) /\ fate' = [fate EXCEPT ![r] = "pending"]
        /\ stack' = s /\ UNCHANGED <<waitinglist, crashed>>
    BY <1>2 DEF DoSendTo
  <2>2. Hist' = Hist \cup {r} /\ Waiting' = Waiting /\ armed' = armed \cup {r}
    BY <2>1, HistFacts DEF Waiting, StartTimer
  <2>3. fate'[r] = "pending" /\ \A q \in Request \ {r} : fate'[q] = fate[q]
    BY <2>1 DEF TypeOK
  <2>4. Hist \subseteq Request /\ Sending(stack) \subseteq Request
    BY DEF Hist, Sending
  <2>5. Placed'
    BY <2>1, <2>2, <2>3, <2>4 DEF Placed
  <2> QED
    BY <2>1, <2>3, <2>5
<1>3. CASE status \in {"TIME_OUT", "CLOSED"}
  <2>1. /\ fate' = [fate EXCEPT ![r] = "closed"] /\ crashed' = ~owner
        /\ stack' = Push(s, "Handler") /\ UNCHANGED <<waitinglist, ticket, armed>>
    BY <1>3 DEF DoSendTo
  <2>2. /\ Sending(stack') = Sending(s) /\ Erasing(stack') = Erasing(s)
        /\ Shape(stack', owner) /\ (Deleting(s) => Deleting(stack'))
    BY <2>1, PushKeeps DEF Ops
  <2>3. Hist' = Hist /\ Waiting' = Waiting
    BY <2>1 DEF Hist, Waiting
  <2>4. fate'[r] = "closed" /\ \A q \in Request \ {r} : fate'[q] = fate[q]
    BY <2>1 DEF TypeOK
  <2>5. /\ Hist \subseteq Request /\ Sending(stack) \subseteq Request
        /\ \A q \in Waiting : q # r /\ fate[q] = "pending"
    BY DEF Hist, Sending, Placed
  <2>6. Waiting \subseteq Request
    BY ElementOfSeq DEF Waiting, TypeOK
  <2>7. Placed'
    BY <2>1, <2>2, <2>3, <2>4, <2>5, <2>6 DEF Placed
  <2> QED
    BY <2>1, <2>2, <2>4, <2>7
<1> QED
  BY <1>1, <1>2, <1>3 DEF TypeOK, Statuses

(* The places of the requests are sets of requests. *)
LEMMA PlacesType ==
  ASSUME TypeOK
  PROVE  /\ Waiting \subseteq Request /\ Hist \subseteq Request
         /\ \A s : Sending(s) \subseteq Request /\ Erasing(s) \subseteq Request
BY ElementOfSeq DEF Waiting, Hist, Sending, Erasing, TypeOK

(* Delivering a request changes its fate and no other. *)
LEMMA DeliverFacts ==
  ASSUME TypeOK, NEW r \in Request, NEW o, Deliver(r, o)
  PROVE  /\ fate'[r] \in {o, "freed"}
         /\ \A q \in Request \ {r} : fate'[q] = fate[q]
BY DEF Deliver, TypeOK

(* A request on the wire is settled by an answer or a close. *)
LEMMA SettlePlaced ==
  ASSUME TypeOK, Placed, NEW r \in Hist, NEW o \in Fates \ {"pending", "unsent"},
         Forget(r), StopTimer(r), Deliver(r, o), UNCHANGED waitinglist,
         Sending(stack') = Sending(stack), Erasing(stack) = {}, Erasing(stack') = {}
  PROVE  Placed' /\ fate[r] = "pending"
<1>1. r \in Request /\ fate[r] = "pending" /\ r \notin Waiting /\ r \notin Sending(stack)
  BY DEF Hist, Placed
<1>2. Hist' = Hist \ {r} /\ Waiting' = Waiting /\ armed' = armed \ {r}
  BY <1>1, HistFacts DEF Waiting, StopTimer
<1>3. fate'[r] # "pending" /\ \A q \in Request \ {r} : fate'[q] = fate[q]
  BY <1>1, DeliverFacts
<1>4. Placed'
  BY <1>1, <1>2, <1>3, PlacesType DEF Placed
<1> QED
  BY <1>1, <1>4

(* The first request that waits is failed. *)
LEMMA FailPlaced ==
  ASSUME TypeOK, Placed, waitinglist # <<>>, waitinglist' = Tail(waitinglist),
         Deliver(Head(waitinglist), "closed"), UNCHANGED <<ticket, armed>>,
         Sending(stack') = Sending(stack), Erasing(stack') = Erasing(stack)
  PROVE  Placed' /\ fate[Head(waitinglist)] = "pending"
<1> DEFINE r == Head(waitinglist)
<1>1. /\ r \in Request /\ r \in Waiting /\ Waiting' = Waiting \ {r}
      /\ \A i, j \in 1..Len(waitinglist') : waitinglist'[i] = waitinglist'[j] => i = j
  BY UnparkFacts
<1>2. Deliver(r, "closed")
  OBVIOUS
<1> HIDE DEF r
<1>3. Hist' = Hist
  BY DEF Hist
<1>4. fate[r] = "pending" /\ r \notin Hist /\ r \notin Sending(stack)
  BY <1>1 DEF Placed
<1>5. fate'[r] # "pending" /\ \A q \in Request \ {r} : fate'[q] = fate[q]
  BY <1>1, <1>2, DeliverFacts
<1>6. Placed'
  BY <1>1, <1>3, <1>4, <1>5, PlacesType DEF Placed
<1> QED
  BY <1>4, <1>6 DEF r

(* The first request that waits is sent. *)
LEMMA DealPlaced ==
  ASSUME TypeOK, Placed, waitinglist # <<>>, waitinglist' = Tail(waitinglist),
         StartTimer(Head(waitinglist)), Remember(Head(waitinglist)), UNCHANGED <<fate, stack>>
  PROVE  Placed' /\ fate[Head(waitinglist)] = "pending"
<1> DEFINE r == Head(waitinglist)
<1>1. /\ r \in Request /\ r \in Waiting /\ Waiting' = Waiting \ {r}
      /\ \A i, j \in 1..Len(waitinglist') : waitinglist'[i] = waitinglist'[j] => i = j
  BY UnparkFacts
<1>2. StartTimer(r) /\ Remember(r)
  OBVIOUS
<1> HIDE DEF r
<1>3. Hist' = Hist \cup {r} /\ armed' = armed \cup {r}
  BY <1>1, <1>2, HistFacts DEF StartTimer
<1>4. fate[r] = "pending" /\ r \notin Hist /\ r \notin Sending(stack)
  BY <1>1 DEF Placed
<1>5. r \notin Erasing(stack)
  BY <1>4 DEF Placed
<1>6. Placed'
  BY <1>1, <1>3, <1>4, <1>5, PlacesType DEF Placed
<1> QED
  BY <1>4, <1>6 DEF r

(* The actions of the business code. *)
LEMMA UserInv ==
  ASSUME Disciplined, IInv, User
  PROVE  IInv'
<1> USE DEF IInv
<1>0. TypeOK'
  BY UserType
<1>s. stack \in Seq(Frames) /\ owner \in BOOLEAN
  BY DEF TypeOK
<1>u. ASSUME NEW call \in Calls, MayCall(call), call # "Close" \/ stack = <<>>
      PROVE  call = "SendTo" => owner
  <2>1. CASE stack = <<>>
    BY <1>u, <2>1, EmptyStack DEF MayCall, Owned, Disciplined
  <2>2. CASE stack # <<>>
    BY <1>s, <1>u, <2>2, RestKeeps DEF MayCall
  <2> QED
    BY <2>1, <2>2
<1>1. CASE UserConnect
  <2>1. owner' = TRUE /\ DoConnect(reconn, stack)
    BY <1>1 DEF UserConnect
  <2>2. Continues(stack, stack, owner')
    BY <1>s, <2>1 DEF Continues, Shape
  <2>3. Continues(stack', stack, owner')
    <3>1. owner' \in BOOLEAN /\ reconn \in BOOLEAN
      BY <2>1 DEF TypeOK
    <3> QED
      BY <1>s, <2>1, <2>2, <3>1, ContinuesDoConnect
  <2>4. UNCHANGED <<waitinglist, ticket, armed, fate, crashed, alive>>
    BY <1>1 DEF UserConnect, reqVars
  <2>5. Owned'
    BY <2>1 DEF Owned
  <2> QED
    BY <1>0, <2>3, <2>4, <2>5, QuietStep DEF Continues
<1>2. ASSUME NEW r \in Request, UserSendTo(r) PROVE IInv'
  <2>1. /\ MayCall("SendTo") /\ fate[r] = "unsent" /\ DoSendTo(r, stack)
        /\ owner' = owner /\ alive' = alive
    BY <1>2 DEF UserSendTo, sessVars
  <2>2. owner
    BY <1>u, <2>1 DEF Calls
  <2>3. r \notin Waiting /\ r \notin Hist /\ r \notin Sending(stack)
    BY <2>1 DEF Placed
  <2>4. /\ Placed' /\ Shape(stack', owner) /\ (Deleting(stack) => Deleting(stack'))
        /\ crashed' \in {crashed, FALSE}
        /\ \A q \in Request : fate'[q] # fate[q] => fate'[q] \in {"pending", "closed"}
    <3>1. Sending(stack) = Sending(stack) \ {r}
      BY <2>3
    <3> QED
      BY <1>s, <2>1, <2>2, <2>3, <3>1, SendPlaced
  <2>5. Owned'
    BY <2>1, <2>4, OwnedKept
  <2>6. ~crashed'
    BY <2>4
  <2>7. \A q \in Request : fate'[q] # "misanswered"
    BY <2>4
  <2> QED
    BY <1>0, <2>1, <2>4, <2>5, <2>6, <2>7
<1>3. ASSUME NEW r \in Request, UserCall(r) PROVE IInv'
  <2> DEFINE t == Append(stack, FrameOf("SendTo", r))
  <2>1. /\ owner' = TRUE /\ DoConnect(reconn, t) /\ fate[r] = "unsent"
        /\ fate' = [fate EXCEPT ![r] = "pending"]
        /\ UNCHANGED <<waitinglist, ticket, armed, crashed, alive>>
    BY <1>3 DEF UserCall
  <2>2. r \notin Waiting /\ r \notin Hist /\ r \notin Sending(stack)
    BY <2>1 DEF Placed
  <2>3. Shape(stack, owner')
    BY <2>1 DEF Shape
  <2>4. /\ t \in Seq(Frames) /\ Sending(t) = Sending(stack) \cup {r}
        /\ Erasing(t) = Erasing(stack) /\ Shape(t, owner')
    BY <1>s, <2>1, <2>2, <2>3, SendKeeps
  <2>5. Continues(t, t, owner')
    BY <2>4 DEF Continues
  <2> HIDE DEF t
  <2>6. Continues(stack', t, owner')
    <3>1. owner' \in BOOLEAN /\ reconn \in BOOLEAN
      BY <2>1 DEF TypeOK
    <3> QED
      BY <2>1, <2>4, <2>5, <3>1, ContinuesDoConnect
  <2>7. /\ Sending(stack') = Sending(stack) \cup {r} /\ Erasing(stack') = Erasing(stack)
        /\ Shape(stack', owner')
    BY <2>4, <2>6 DEF Continues
  <2>8. fate'[r] = "pending" /\ \A q \in Request \ {r} : fate'[q] = fate[q]
    BY <2>1 DEF TypeOK
  <2>9. Waiting' = Waiting /\ Hist' = Hist
    BY <2>1 DEF Waiting, Hist
  <2>10. r \notin Erasing(stack)
    BY <2>2 DEF Placed
  <2>11. Placed'
    BY <2>1, <2>2, <2>7, <2>8, <2>9, <2>10, PlacesType DEF Placed
  <2> QED
    BY <1>0, <2>1, <2>7, <2>8, <2>11 DEF Owned
<1>4. CASE UserClose
  <2>1. MayCall("Close") /\ Close(stack)
    BY <1>4 DEF UserClose
  <2>2. stack = <<>> /\ "Close" \in Posted
    BY <2>1 DEF MayCall, Disciplined
  <2>3. Continues(<<>>, <<>>, FALSE)
    BY EmptyStack, FrameFacts DEF Continues
  <2>4. Continues(Push(Push(<<>>, "Shut"), "CleanHistory"), <<>>, FALSE)
    BY <2>3, EmptyStack, ContinuesClose
  <2>5. stack' \in {<<>>, Push(Push(<<>>, "Shut"), "CleanHistory")}
    BY <2>1, <2>2 DEF Close
  <2>6. Continues(stack', stack, FALSE) /\ owner' = FALSE
    BY <2>1, <2>2, <2>3, <2>4, <2>5 DEF Close
  <2>7. UNCHANGED <<waitinglist, ticket, armed, fate, crashed>>
    BY <1>4 DEF UserClose, reqVars
  <2>8. Owned'
    BY <2>2 DEF Owned
  <2> QED
    BY <1>0, <2>6, <2>7, <2>8, QuietStep DEF Continues
<1> QED
  BY <1>1, <1>2, <1>3, <1>4 DEF User

(* A step that takes the last frame off and puts back others. *)
LEMMA ContinuesRest ==
  ASSUME IInv, NEW op, Running(op), op \notin {"SendTo", "Erase", "Delete"}
  PROVE  /\ Continues(Rest, stack, owner)
         /\ Rest \in Seq(Frames) /\ stack # <<>>
         /\ op \notin {"Handler", "Deal"} => Erasing(stack) = {}
         /\ Continues(stack, stack, owner)
BY RestKeeps DEF IInv, TypeOK, Running, Continues

(* The rest of a task. *)
LEMMA ContinueInv ==
  ASSUME IInv, Continue
  PROVE  IInv'
<1> USE DEF IInv
<1>0. TypeOK'
  BY ContinueType
<1>s. stack \in Seq(Frames) /\ owner \in BOOLEAN /\ connected \in BOOLEAN
  BY DEF TypeOK
<1>1. CASE HandlerReturn
  <2>1. /\ Running("Handler") /\ stack' = Rest
        /\ UNCHANGED <<waitinglist, ticket, armed, fate, crashed, owner, alive>>
    BY <1>1 DEF HandlerReturn, sessVars, reqVars
  <2>2. Continues(stack', stack, owner)
    BY <2>1, ContinuesRest
  <2>3. Owned'
    BY <2>1, <2>2, OwnedKept DEF Continues
  <2> QED
    BY <1>0, <2>1, <2>2, <2>3, QuietStep DEF Continues
<1>2. CASE SendStep
  <2> DEFINE r == Top.req
  <2>1. /\ stack # <<>> /\ Top.op = "SendTo" /\ DoSendTo(r, Rest)
        /\ owner' = owner /\ alive' = alive
    BY <1>2 DEF SendStep, Running, sessVars
  <2>2. /\ Rest \in Seq(Frames) /\ Shape(Rest, owner) /\ owner
        /\ (Deleting(stack) => Deleting(Rest))
        /\ r \in Sending(stack) /\ Sending(Rest) = Sending(stack) \ {r}
        /\ Erasing(Rest) = Erasing(stack)
    BY <1>s, <2>1, RestKeeps
  <2>3. r \in Request /\ r \notin Waiting /\ r \notin Hist
    BY <2>2, PlacesType DEF Placed
  <2> HIDE DEF r
  <2>4. /\ Placed' /\ Shape(stack', owner) /\ (Deleting(Rest) => Deleting(stack'))
        /\ crashed' \in {crashed, FALSE}
        /\ \A q \in Request : fate'[q] # fate[q] => fate'[q] \in {"pending", "closed"}
    BY <2>1, <2>2, <2>3, SendPlaced
  <2>5. Owned'
    BY <2>1, <2>2, <2>4, OwnedKept
  <2>6. ~crashed'
    BY <2>4
  <2>7. \A q \in Request : fate'[q] # "misanswered"
    BY <2>4
  <2> QED
    BY <1>0, <2>1, <2>4, <2>5, <2>6, <2>7
<1>3. CASE CleanHistory
  <2>1. Running("CleanHistory") /\ owner' = owner /\ alive' = alive
    BY <1>3 DEF CleanHistory, sessVars
  <2>2. /\ Continues(Rest, stack, owner) /\ Rest \in Seq(Frames) /\ Erasing(stack) = {}
        /\ Continues(stack, stack, owner)
    BY <2>1, ContinuesRest
  <2>3. CASE stack' = Push(Rest, "CleanWaiting") /\ UNCHANGED <<reqVars, crashed>>
    <3>1. Continues(stack', stack, owner)
      BY <1>s, <2>2, <2>3, ContinuesPush DEF Ops
    <3>2. Owned'
      BY <2>1, <3>1, OwnedKept DEF Continues
    <3> QED
      BY <1>0, <2>1, <2>3, <3>1, <3>2, QuietStep DEF Continues, reqVars
  <2>4. ASSUME NEW r \in Hist, Forget(r), StopTimer(r), Deliver(r, "closed"),
               crashed' = (fate[r] # "pending"), stack' = Notify(stack),
               UNCHANGED <<waitinglist, inserts>>
        PROVE  IInv'
    <3>1. Continues(stack', stack, owner)
      BY <1>s, <2>2, <2>4, ContinuesNotify
    <3>2. Owned'
      BY <2>1, <3>1, OwnedKept DEF Continues
    <3>3. Placed' /\ fate[r] = "pending"
      BY <2>2, <2>4, <3>1, SettlePlaced DEF Continues, Fates
    <3>4. \A q \in Request : fate'[q] # "misanswered"
      BY <2>4, DeliverFacts, PlacesType
    <3> QED
      BY <1>0, <2>1, <2>4, <3>1, <3>2, <3>3, <3>4 DEF Continues
  <2> QED
    BY <1>3, <2>3, <2>4 DEF CleanHistory
<1>4. CASE CleanWaiting
  <2>1. Running("CleanWaiting") /\ owner' = owner /\ alive' = alive
    BY <1>4 DEF CleanWaiting, sessVars
  <2>2. /\ Continues(Rest, stack, owner) /\ Rest \in Seq(Frames)
        /\ Continues(stack, stack, owner)
    BY <2>1, ContinuesRest
  <2>3. CASE waitinglist = <<>>
    <3>1. Continues(stack', stack, owner) /\ UNCHANGED <<reqVars, crashed>>
      BY <1>4, <2>2, <2>3 DEF CleanWaiting
    <3>2. Owned'
      BY <2>1, <3>1, OwnedKept DEF Continues
    <3> QED
      BY <1>0, <2>1, <3>1, <3>2, QuietStep DEF Continues, reqVars
  <2>4. CASE waitinglist # <<>>
    <3> DEFINE r == Head(waitinglist)
    <3>1. /\ waitinglist' = Tail(waitinglist) /\ Deliver(r, "closed")
          /\ crashed' = (fate[r] # "pending") /\ stack' = Notify(stack)
          /\ UNCHANGED <<ticket, inserts, armed>>
      BY <1>4, <2>4 DEF CleanWaiting
    <3>2. Continues(stack', stack, owner)
      BY <1>s, <2>2, <3>1, ContinuesNotify
    <3>3. Owned'
      BY <2>1, <3>2, OwnedKept DEF Continues
    <3>4. Placed' /\ fate[r] = "pending"
      BY <2>4, <3>1, <3>2, FailPlaced DEF Continues
    <3>5. \A q \in Request : fate'[q] # "misanswered"
      BY <2>4, <3>1, DeliverFacts, UnparkFacts
    <3> QED
      BY <1>0, <2>1, <3>1, <3>2, <3>3, <3>4, <3>5 DEF Continues
  <2> QED
    BY <2>3, <2>4
<1>5. CASE DealWaitingList
  <2>1. Running("Deal") /\ owner' = owner /\ alive' = alive
    BY <1>5 DEF DealWaitingList, sessVars
  <2>2. /\ Continues(Rest, stack, owner) /\ Rest \in Seq(Frames)
        /\ Continues(stack, stack, owner)
    BY <2>1, ContinuesRest
  <2>3. CASE waitinglist = <<>>
    <3>1. Continues(stack', stack, owner) /\ UNCHANGED <<reqVars, crashed>>
      BY <1>5, <2>2, <2>3 DEF DealWaitingList
    <3>2. Owned'
      BY <2>1, <3>1, OwnedKept DEF Continues
    <3> QED
      BY <1>0, <2>1, <3>1, <3>2, QuietStep DEF Continues, reqVars
  <2> DEFINE r == Head(waitinglist)
  <2>4. CASE waitinglist # <<>> /\ status = "CONNECTED"
    <3>1. /\ waitinglist' = Tail(waitinglist) /\ crashed' = (fate[r] # "pending")
          /\ StartTimer(r) /\ Remember(r) /\ UNCHANGED <<fate, stack>>
      BY <1>5, <2>4 DEF DealWaitingList
    <3>2. Placed' /\ fate[r] = "pending"
      BY <2>4, <3>1, DealPlaced
    <3>3. Owned'
      BY <2>1, <3>1, OwnedKept
    <3> QED
      BY <1>0, <2>1, <3>1, <3>2, <3>3
  <2>5. CASE waitinglist # <<>> /\ status # "CONNECTED"
    <3>1. /\ waitinglist' = Tail(waitinglist) /\ Deliver(r, "closed")
          /\ crashed' = (fate[r] # "pending") /\ stack' = Notify(stack)
          /\ UNCHANGED <<ticket, inserts, armed>>
      BY <1>5, <2>5 DEF DealWaitingList
    <3>2. Continues(stack', stack, owner)
      BY <1>s, <2>2, <3>1, ContinuesNotify
    <3>3. Owned'
      BY <2>1, <3>2, OwnedKept DEF Continues
    <3>4. Placed' /\ fate[r] = "pending"
      BY <2>5, <3>1, <3>2, FailPlaced DEF Continues
    <3>5. \A q \in Request : fate'[q] # "misanswered"
      BY <2>5, <3>1, DeliverFacts, UnparkFacts
    <3> QED
      BY <1>0, <2>1, <3>1, <3>2, <3>3, <3>4, <3>5 DEF Continues
  <2> QED
    BY <2>3, <2>4, <2>5
<1>6. CASE ReconnectLater
  <2>1. /\ Running("Reconnect")
        /\ UNCHANGED <<waitinglist, ticket, armed, fate, crashed, owner, alive>>
    BY <1>6 DEF ReconnectLater, reqVars
  <2>2. Continues(Rest, stack, owner) /\ Rest \in Seq(Frames)
    BY <2>1, ContinuesRest
  <2>3. Continues(stack', stack, owner)
    BY <1>6, <1>s, <2>2, ContinuesNotify DEF ReconnectLater
  <2>4. Owned'
    BY <2>1, <2>3, OwnedKept DEF Continues
  <2> QED
    BY <1>0, <2>1, <2>3, <2>4, QuietStep DEF Continues
<1>7. CASE DropConnection
  <2>1. /\ Running("Drop") /\ stack' = Rest
        /\ UNCHANGED <<waitinglist, ticket, armed, fate, crashed, owner, alive>>
    BY <1>7 DEF DropConnection, sessVars, reqVars
  <2>2. Continues(stack', stack, owner)
    BY <2>1, ContinuesRest
  <2>3. Owned'
    BY <2>1, <2>2, OwnedKept DEF Continues
  <2> QED
    BY <1>0, <2>1, <2>2, <2>3, QuietStep DEF Continues
<1>8. CASE ShutConnection
  <2>1. /\ Running("Shut") /\ ConnPeerClose(connected, Rest)
        /\ UNCHANGED <<waitinglist, ticket, armed, fate, crashed, owner, alive>>
    BY <1>8 DEF ShutConnection, reqVars
  <2>2. Continues(Rest, stack, owner) /\ Rest \in Seq(Frames) /\ Erasing(stack) = {}
    BY <2>1, ContinuesRest
  <2>3. Continues(stack', stack, owner)
    BY <1>s, <2>1, <2>2, ContinuesPeerClose
  <2>4. Owned'
    BY <2>1, <2>3, OwnedKept DEF Continues
  <2> QED
    BY <1>0, <2>1, <2>3, <2>4, QuietStep DEF Continues
<1>9. CASE EraseEntry
  <2> DEFINE e == Top.req
  <2>1. /\ stack # <<>> /\ Top.op = "Erase" /\ Forget(e) /\ stack' = Rest
        /\ crashed' = (e \notin Hist)
        /\ UNCHANGED <<waitinglist, armed, fate, owner, alive>>
    BY <1>9 DEF EraseEntry, Running, sessVars
  <2>2. /\ Erasing(stack) = {e} /\ stack' = <<>> /\ Shape(stack', owner)
        /\ Sending(stack') = Sending(stack) /\ (Deleting(stack) => Deleting(stack'))
    BY <1>s, <2>1, RestKeeps
  <2>3. e \in Hist /\ e \in Request
    BY <2>2, PlacesType DEF Placed
  <2> HIDE DEF e
  <2>4. Hist' = Hist \ {e} /\ Waiting' = Waiting /\ Erasing(stack') = {}
    BY <2>1, <2>2, <2>3, HistFacts, EmptyStack DEF Waiting
  <2>5. e \notin armed /\ fate[e] # "pending"
    BY <2>2, <2>3 DEF Placed
  <2>6. Placed'
    BY <2>1, <2>2, <2>3, <2>4, <2>5 DEF Placed
  <2>7. Owned'
    BY <2>1, <2>2, OwnedKept
  <2> QED
    BY <1>0, <2>1, <2>2, <2>3, <2>6, <2>7
<1>10. CASE ReadOn
  <2>1. /\ Running("ReadOn") /\ stack' = Rest
        /\ UNCHANGED <<waitinglist, ticket, armed, fate, crashed, owner, alive>>
    BY <1>10 DEF ReadOn, sessVars, reqVars
  <2>2. Continues(stack', stack, owner)
    BY <2>1, ContinuesRest
  <2>3. Owned'
    BY <2>1, <2>2, OwnedKept DEF Continues
  <2> QED
    BY <1>0, <2>1, <2>2, <2>3, QuietStep DEF Continues
<1>11. CASE DeleteSession
  <2>1. /\ stack # <<>> /\ Top.op = "Delete" /\ stack' = Rest /\ alive' = FALSE
        /\ UNCHANGED <<waitinglist, ticket, armed, fate, crashed, owner>>
    BY <1>11 DEF DeleteSession, Running, reqVars
  <2>2. /\ Shape(stack', owner) /\ Sending(stack') = Sending(stack)
        /\ Erasing(stack') = Erasing(stack)
    BY <1>s, <2>1, RestKeeps
  <2>3. Owned'
    BY <2>1 DEF Owned
  <2> QED
    BY <1>0, <2>1, <2>2, <2>3, QuietStep
<1> QED
  BY <1>1, <1>2, <1>3, <1>4, <1>5, <1>6, <1>7, <1>8, <1>9, <1>10, <1>11 DEF Continue

(* Between tasks a new one can start. *)
LEMMA ContinuesIdle ==
  ASSUME TypeOK, Idle
  PROVE  /\ stack = <<>> /\ Continues(<<>>, stack, owner) /\ <<>> \in Seq(Frames)
         /\ Erasing(stack) = {} /\ Sending(stack) = {} /\ ~Deleting(stack)
BY EmptyStack, FrameFacts DEF Idle, Continues, TypeOK

(* Completed operations of the connection. *)
LEMMA NetworkInv ==
  ASSUME Disciplined, IInv, Network
  PROVE  IInv'
<1> USE DEF IInv
<1>0. TypeOK'
  BY NetworkType
<1>s. Idle /\ UNCHANGED <<owner, alive>>
  BY DEF Network, HandleDial, HandleDialNext, ConnTimerExpires, HandleConnectTimeout,
         ReadCompletes, HandleRead, HandleReadError, HandleWrite, sessVars
<1>i. /\ stack = <<>> /\ Continues(<<>>, stack, owner) /\ <<>> \in Seq(Frames)
      /\ Erasing(stack) = {} /\ Sending(stack) = {} /\ ~Deleting(stack)
      /\ owner \in BOOLEAN /\ owner' \in BOOLEAN /\ connected \in BOOLEAN
  BY <1>s, ContinuesIdle DEF TypeOK
<1>o. Owned'
  BY <1>s, <1>i, OwnedKept
<1>q. ASSUME Continues(stack', stack, owner),
             UNCHANGED <<waitinglist, ticket, armed, fate, crashed>>
      PROVE  IInv'
  BY <1>0, <1>s, <1>o, <1>q, QuietStep DEF Continues
<1>1. CASE HandleDial
  <2>1. PICK ok \in BOOLEAN : ConnectFinish(ok, linked, <<>>)
    BY <1>1 DEF HandleDial
  <2>2. Continues(<<>>, stack, owner')
    BY <1>s, <1>i
  <2>3. ASSUME ConnectResult(ok, <<>>) PROVE Continues(stack', stack, owner')
    BY <1>i, <2>2, <2>3, ContinuesConnect
  <2>4. Continues(stack', stack, owner)
    BY <1>s, <1>i, <2>1, <2>3 DEF ConnectFinish
  <2> QED
    BY <1>q, <1>1, <2>4 DEF HandleDial, reqVars
<1>2. CASE HandleDialNext
  BY <1>q, <1>i, <1>2 DEF HandleDialNext, reqVars
<1>3. CASE ConnTimerExpires
  BY <1>q, <1>i, <1>3 DEF ConnTimerExpires, reqVars
<1>4. CASE HandleConnectTimeout
  <2>1. Continues(<<>>, stack, owner')
    BY <1>s, <1>i
  <2>2. ASSUME ConnectResult(FALSE, <<>>) PROVE Continues(stack', stack, owner')
    BY <1>i, <2>1, <2>2, ContinuesConnect
  <2>3. Continues(stack', stack, owner)
    BY <1>s, <1>i, <1>4, <2>2 DEF HandleConnectTimeout
  <2> QED
    BY <1>q, <1>4, <2>3 DEF HandleConnectTimeout, reqVars
<1>5. CASE ReadCompletes
  BY <1>q, <1>i, <1>5 DEF ReadCompletes, reqVars
<1>6. CASE HandleRead
  <2> DEFINE t == <<Frame("ReadOn")>>
  <2>1. t \in Seq(Frames) /\ Continues(t, stack, owner)
    <3>1. t = Push(<<>>, "ReadOn")
      BY DEF Push
    <3>2. Continues(Push(<<>>, "ReadOn"), stack, owner)
      BY <1>i, ContinuesPush DEF Ops
    <3> QED
      BY <3>1, <3>2 DEF Continues
  <2> HIDE DEF t
  <2>2. CASE linked /\ arrived.kind = "response"
    <3>1. OnReadResponse
      BY <1>6, <2>2 DEF HandleRead
    <3>2. arrived.req \in Request
      BY <2>2, MessageType DEF TypeOK
    <3>3. CASE stack' = t /\ UNCHANGED <<ticket, armed, fate, crashed>>
      <4>1. UNCHANGED waitinglist
        BY <3>1 DEF OnReadResponse
      <4> QED
        BY <1>q, <2>1, <3>3, <4>1
    <3>4. ASSUME NEW r \in Hist, IsFound(SeqOf[arrived.req], r),
                 crashed' = (fate[r] # "pending"), Forget(r), StopTimer(r),
                 Deliver(r, IF r = arrived.req THEN "answered" ELSE "misanswered"),
                 stack' = Notify(t)
          PROVE  IInv'
      <4>1. r = arrived.req
        BY <3>2, <3>4, PlacesType DEF IsFound, Disciplined
      <4>2. Deliver(r, "answered") /\ UNCHANGED waitinglist
        BY <3>1, <3>4, <4>1 DEF OnReadResponse
      <4>3. Continues(stack', stack, owner)
        BY <1>i, <2>1, <3>4, ContinuesNotify
      <4>4. Placed' /\ fate[r] = "pending"
        BY <1>i, <3>4, <4>2, <4>3, SettlePlaced DEF Continues, Fates
      <4>5. \A q \in Request : fate'[q] # "misanswered"
        BY <4>2, DeliverFacts, PlacesType
      <4> QED
        BY <1>0, <1>s, <1>o, <3>4, <4>3, <4>4, <4>5 DEF Continues
    <3> QED
      BY <3>1, <3>3, <3>4 DEF OnReadResponse, t
  <2>3. CASE linked /\ arrived.kind \notin {"response", "illegal"}
    <3>1. OnReadHeartbeat
      BY <1>6, <2>3 DEF HandleRead
    <3>2. stack' = t /\ UNCHANGED <<reqVars, crashed>>
      BY <3>1 DEF OnReadHeartbeat, t
    <3> QED
      BY <1>q, <2>1, <3>2 DEF reqVars
  <2>4. CASE ~linked \/ arrived.kind = "illegal"
    <3>1. ConnPeerClose(TRUE, <<>>) /\ UNCHANGED <<reqVars, crashed>>
      BY <1>6, <2>4 DEF HandleRead
    <3>2. Continues(stack', stack, owner)
      BY <1>i, <3>1, ContinuesPeerClose
    <3> QED
      BY <1>q, <3>1, <3>2 DEF reqVars
  <2> QED
    BY <2>2, <2>3, <2>4
<1>7. CASE HandleReadError
  <2>1. Continues(stack', stack, owner)
    BY <1>i, <1>7, ContinuesPeerClose DEF HandleReadError
  <2> QED
    BY <1>q, <1>7, <2>1 DEF HandleReadError, reqVars
<1>8. CASE HandleWrite
  <2>1. ASSUME ConnPeerClose(connected, <<>>) PROVE Continues(stack', stack, owner)
    BY <1>i, <2>1, ContinuesPeerClose
  <2>2. Continues(stack', stack, owner)
    BY <1>i, <1>8, <2>1 DEF HandleWrite
  <2> QED
    BY <1>q, <1>8, <2>2 DEF HandleWrite, reqVars
<1> QED
  BY <1>1, <1>2, <1>3, <1>4, <1>5, <1>6, <1>7, <1>8 DEF Network

(* The timers and the container's check. *)
LEMMA TimerInv ==
  ASSUME Disciplined, IInv, Timer
  PROVE  IInv'
<1> USE DEF IInv
<1>0. TypeOK'
  BY TimerType
<1>s. Idle
  BY DEF Timer, RequestTimer, ReconnectTimer, DoHeartBeat, CheckSession
<1>i. /\ stack = <<>> /\ Continues(<<>>, stack, owner) /\ <<>> \in Seq(Frames)
      /\ Erasing(stack) = {} /\ Sending(stack) = {} /\ ~Deleting(stack)
      /\ owner \in BOOLEAN /\ owner' \in BOOLEAN
  BY <1>0, <1>s, ContinuesIdle DEF TypeOK
<1>1. ASSUME NEW r \in Request, RequestTimer(r) PROVE IInv'
  <2>1. r \in armed /\ r \in Hist /\ fate[r] = "pending"
    BY <1>1, <1>i DEF RequestTimer, Placed
  <2>2. /\ StopTimer(r) /\ crashed' = (fate[r] # "pending") /\ Deliver(r, "timeout")
        /\ UNCHANGED <<waitinglist, ticket, owner, alive>>
    BY <1>1, <2>1 DEF RequestTimer, sessVars
  <2>3. stack' = Notify(<<FrameOf("Erase", r)>>)
    BY <1>1, <2>1, PlacesType DEF RequestTimer, IsFound, Disciplined
  <2> DEFINE t == <<FrameOf("Erase", r)>>
  <2>4. t \in Seq(Frames) /\ Len(t) = 1 /\ t[1] = FrameOf("Erase", r)
    BY FrameFacts
  <2>5. /\ Sending(t) = {} /\ Erasing(t) = {r} /\ Shape(t, owner)
    <3> HIDE DEF t
    <3>1. \A i \in 1..Len(t) : i = 1
      BY <2>4
    <3>2. 1 \in 1..Len(t)
      BY <2>4
    <3>3. \A q \in Request : /\ FrameOf("Erase", r) # FrameOf("SendTo", q)
                             /\ FrameOf("Erase", r) = FrameOf("Erase", q) => q = r
      BY DEF FrameOf
    <3>4. Sending(t) = {}
      BY <2>4, <3>1, <3>3 DEF Sending
    <3>5. Erasing(t) = {r}
      BY <2>4, <3>1, <3>2, <3>3 DEF Erasing
    <3>6. t[1].op = "Erase" /\ \A i \in 2..Len(t) : FALSE
      BY <2>4 DEF FrameOf
    <3>7. Shape(t, owner)
      BY <3>1, <3>6 DEF Shape
    <3> QED
      BY <3>4, <3>5, <3>7
  <2>6. Continues(t, t, owner)
    BY <2>4, <2>5 DEF Continues
  <2>7. Continues(stack', t, owner)
    BY <1>i, <2>3, <2>4, <2>6, ContinuesNotify
  <2>8. Sending(stack') = {} /\ Erasing(stack') = {r} /\ Shape(stack', owner)
    BY <2>5, <2>7 DEF Continues
  <2> HIDE DEF t
  <2>9. Hist' = Hist /\ Waiting' = Waiting /\ armed' = armed \ {r}
    BY <2>2 DEF Hist, Waiting, StopTimer
  <2>10. fate'[r] \in {"timeout", "freed"} /\ \A q \in Request \ {r} : fate'[q] = fate[q]
    BY <2>2, DeliverFacts
  <2>11. Placed'
    BY <1>i, <2>1, <2>2, <2>8, <2>9, <2>10, PlacesType DEF Placed
  <2>12. Owned'
    BY <1>i, <2>2, OwnedKept
  <2> QED
    BY <1>0, <2>1, <2>2, <2>8, <2>10, <2>11, <2>12
<1>2. CASE ReconnectTimer
  <2>1. /\ DoConnect(FALSE, <<>>) /\ FALSE \in BOOLEAN
        /\ UNCHANGED <<owner, alive, waitinglist, ticket, armed, fate, crashed>>
    BY <1>2 DEF ReconnectTimer, reqVars
  <2>2. Continues(<<>>, stack, owner')
    BY <1>i, <2>1
  <2>3. Continues(stack', stack, owner')
    BY <1>i, <2>1, <2>2, ContinuesDoConnect
  <2>4. Owned'
    BY <1>i, <2>1, OwnedKept
  <2> QED
    BY <1>0, <2>1, <2>3, <2>4, QuietStep DEF Continues
<1>3. CASE DoHeartBeat
  <2>1. UNCHANGED <<stack, owner, alive, waitinglist, ticket, armed, fate, crashed>>
    BY <1>3 DEF DoHeartBeat, reqVars, sessVars
  <2>2. Owned'
    BY <2>1 DEF Owned
  <2> QED
    BY <1>0, <2>1, <2>2, QuietStep
<1>4. CASE CheckSession
  <2> DEFINE t == <<Frame("Delete"), Frame("CleanHistory")>>
  <2>1. UNCHANGED <<alive, waitinglist, ticket, armed, fate, crashed>>
    BY <1>4 DEF CheckSession, reqVars
  <2>2. CASE UNCHANGED <<owner, stack>>
    <3>1. Owned'
      BY <1>i, <2>1, <2>2, OwnedKept
    <3> QED
      BY <1>0, <2>1, <2>2, <3>1, QuietStep
  <2>3. CASE Close(t)
    <3>1. t = Push(Push(<<>>, "Delete"), "CleanHistory")
      BY DEF Push
    <3>2. Continues(<<>>, stack, FALSE)
      BY <1>i, EmptyStack DEF Continues
    <3>3. Continues(Push(<<>>, "Delete"), stack, FALSE)
      BY <1>i, <3>2, ContinuesPush DEF Ops
    <3>4. Push(<<>>, "Delete") \in Seq(Frames) /\ Deleting(Push(<<>>, "Delete"))
      BY <3>3 DEF Continues, Deleting, Push, Frame
    <3>5. Continues(t, stack, FALSE) /\ t \in Seq(Frames) /\ Deleting(t)
      <4>1. Continues(Push(Push(<<>>, "Delete"), "CleanHistory"), stack, FALSE)
        BY <1>i, <3>3, <3>4, ContinuesPush DEF Ops
      <4>2. Deleting(t)
        BY DEF Deleting, Frame
      <4> QED
        BY <3>1, <4>1, <4>2 DEF Continues
    <3> HIDE DEF t
    <3>6. Continues(t, t, FALSE)
      BY <3>5 DEF Continues
    <3>7. Continues(Push(Push(t, "Shut"), "CleanHistory"), t, FALSE)
      BY <1>i, <3>5, <3>6, ContinuesClose DEF Continues
    <3>8. stack' \in {t, Push(Push(t, "Shut"), "CleanHistory")} /\ owner' = FALSE
      BY <2>3 DEF Close
    <3>9. Continues(stack', t, FALSE)
      BY <3>6, <3>7, <3>8
    <3>10. /\ Sending(stack') = Sending(stack) /\ Erasing(stack') = Erasing(stack)
           /\ Shape(stack', owner') /\ Deleting(stack')
      BY <3>5, <3>8, <3>9 DEF Continues
    <3>11. Owned'
      BY <3>10 DEF Owned
    <3> QED
      BY <1>0, <2>1, <3>10, <3>11, QuietStep
  <2> QED
    BY <1>4, <2>2, <2>3 DEF CheckSession
<1> QED
  BY <1>1, <1>2, <1>3, <1>4 DEF Timer

(* The invariant is inductive. *)
THEOREM Inductive ==
  ASSUME Disciplined
  PROVE  Spec => []IInv
<1>1. Init => IInv
  <2> SUFFICES ASSUME Init PROVE IInv
    OBVIOUS
  <2>1. TypeOK
    BY InitType
  <2>2. Hist = {} /\ Waiting = {}
    BY DEF Init, Hist, Waiting
  <2>3. stack = <<>> /\ waitinglist = <<>> /\ owner /\ armed = {} /\ ~crashed
    BY DEF Init
  <2>4. \A r \in Request : fate[r] = "unsent"
    BY DEF Init
  <2>5. Placed
    BY <2>2, <2>3, <2>4, EmptyStack DEF Placed
  <2>6. Shape(stack, owner) /\ Owned
    BY <2>1, <2>3, EmptyStack DEF Owned, TypeOK
  <2> QED
    BY <2>1, <2>3, <2>4, <2>5, <2>6 DEF IInv
<1>2. IInv /\ [Next]_vars => IInv'
  <2>1. ASSUME IInv, UNCHANGED vars PROVE IInv'
    <3>1. TypeOK'
      BY <2>1 DEF IInv, TypeOK, vars, sessVars, reqVars, writeVars, connVars
    <3>2. UNCHANGED <<waitinglist, ticket, armed, fate, crashed, stack, owner, alive>>
      BY <2>1 DEF vars, sessVars, reqVars
    <3>3. Owned'
      BY <2>1, <3>2 DEF IInv, Owned
    <3> QED
      BY <2>1, <3>1, <3>2, <3>3, QuietStep DEF IInv
  <2> QED
    BY <2>1, UserInv, ContinueInv, NetworkInv, TimerInv DEF Next
<1> QED
  BY <1>1, <1>2, PTL DEF Spec

-----------------------------------------------------------------------------
(* What the invariant gives. *)

(* InStack, of the properties, and Sending and Erasing, of the proofs, agree. *)
LEMMA InStackFacts ==
  ASSUME TypeOK, NEW r \in Request
  PROVE  /\ InStack("SendTo", r) <=> r \in Sending(stack)
         /\ InStack("Erase", r) <=> r \in Erasing(stack)
<1>1. DOMAIN stack = 1..Len(stack)
  BY DEF TypeOK
<1> QED
  BY <1>1 DEF InStack, Sending, Erasing

(* A disciplined caller makes the session use nothing it has given away: no null
   owner, freed message, destroyed timer or dead iterator. *)
THEOREM Safe ==
  ASSUME Disciplined
  PROVE  Spec => []NoCrash
<1>1. IInv => NoCrash
  BY DEF IInv, NoCrash
<1> QED
  BY <1>1, Inductive, PTL

(* Every request whose fate is open is in exactly one place. *)
THEOREM RequestsAccounted ==
  ASSUME Disciplined
  PROVE  Spec => []Accounted
<1>1. IInv => Accounted
  <2> SUFFICES ASSUME IInv, NEW r \in Request, fate[r] = "pending"
               PROVE  \/ r \in Waiting /\ r \notin Hist /\ ~InStack("SendTo", r)
                      \/ r \notin Waiting /\ r \in Hist /\ ~InStack("SendTo", r)
                      \/ r \notin Waiting /\ r \notin Hist /\ InStack("SendTo", r)
    BY DEF Accounted
  <2> QED
    BY InStackFacts DEF IInv, Placed
<1> QED
  BY <1>1, Inductive, PTL

(* The session holds no request it has given back or deleted. *)
THEOREM RequestsHeldAlive ==
  ASSUME Disciplined
  PROVE  Spec => []HeldAlive
<1>1. IInv => HeldAlive
  BY InStackFacts, PlacesType DEF IInv, Placed, HeldAlive
<1> QED
  BY <1>1, Inductive, PTL

(* The timers in the wheel are those of the requests on the wire. *)
THEOREM TimersAreThoseOfHistory ==
  ASSUME Disciplined
  PROVE  Spec => []TimersMatch
<1>1. IInv => TimersMatch
  BY InStackFacts, PlacesType DEF IInv, Placed, TimersMatch
<1> QED
  BY <1>1, Inductive, PTL

(* The handler gets with a request the peer's answer to that request. *)
THEOREM RepliesAreTheirOwn ==
  ASSUME Disciplined
  PROVE  Spec => []RepliesMatch
<1>1. IInv => RepliesMatch
  BY DEF IInv, RepliesMatch
<1> QED
  BY <1>1, Inductive, PTL

-----------------------------------------------------------------------------
(* What is on the stack, by the operations alone. *)

(* No drop, and no deletion, is left to do. *)
NoDrop(s) == \A i \in 1..Len(s) : s[i].op # "Drop"
NoDelete(s) == \A i \in 1..Len(s) : s[i].op # "Delete"

(* The frames the actions push. *)
LEMMA FrameOps ==
  /\ <<>> \in Seq(Frames) /\ NoDrop(<<>>) /\ NoDelete(<<>>)
  /\ \A f \in Frames : /\ <<f>> \in Seq(Frames)
                       /\ f.op # "Drop" => NoDrop(<<f>>)
                       /\ f.op # "Delete" => NoDelete(<<f>>)
  /\ \A op \in Ops : Frame(op) \in Frames /\ Frame(op).op = op
  /\ \A op \in {"SendTo", "Erase"}, r \in Request :
       FrameOf(op, r) \in Frames /\ FrameOf(op, r).op = op
BY DEF Frame, FrameOf, Frames, NoDrop, NoDelete

-----------------------------------------------------------------------------
(* The session that says CONNECTED. *)

(* The handler does not dial from inside OnEvent. *)
NoRedial == Nested \cap {"Connect", "Call"} = {}

(* While a session's connection is being dropped, the session is not CONNECTED, and
   nothing before the drop can make it so: the handler dials only after the session
   waits for its own timer to dial again (s is the stack, st the status, al whether
   the session is alive). *)
Guarded(s, st, al) ==
  \A i \in 1..Len(s) : s[i].op = "Drop" =>
    \/ AutoReconnect /\ i < Len(s) /\ s[i + 1].op = "Reconnect"
    \/ (st # "CONNECTED" \/ ~al) /\ (i = Len(s) \/ NoRedial)

(* The frame on top may call something that ends in the handler. *)
Ready(s) == s = <<>> \/ s[Len(s)].op # "Drop" \/ NoRedial

(* A session that says CONNECTED has its connection, while a task runs as well. *)
UInv == /\ TypeOK /\ Guarded(stack, status, alive)
        /\ status = "CONNECTED" /\ alive => connected /\ linked

(* A frame put on the stack keeps what is guarded. *)
LEMMA GuardedPush ==
  ASSUME NEW s \in Seq(Frames), NEW f \in Frames, NEW st, NEW al \in BOOLEAN,
         Guarded(s, st, al), Ready(s), f.op # "Drop"
  PROVE  Append(s, f) \in Seq(Frames) /\ Guarded(Append(s, f), st, al) /\ Ready(Append(s, f))
<1> DEFINE n == Len(s)
           t == Append(s, f)
<1>1. n \in Nat /\ Len(t) = n + 1 /\ t \in Seq(Frames) /\ t[n + 1] = f
      /\ \A i \in 1..n : t[i] = s[i]
  BY PushFacts
<1>2. s = <<>> => n = 0
  OBVIOUS
<1> HIDE DEF t
<1>3. Ready(t)
  BY <1>1 DEF Ready
<1>4. ASSUME NEW i \in 1..(n + 1), t[i].op = "Drop"
      PROVE  \/ AutoReconnect /\ i < n + 1 /\ t[i + 1].op = "Reconnect"
             \/ (st # "CONNECTED" \/ ~al) /\ (i = n + 1 \/ NoRedial)
  <2>1. i \in 1..n /\ s[i].op = "Drop"
    BY <1>1, <1>4
  <2>2. CASE AutoReconnect /\ i < n /\ s[i + 1].op = "Reconnect"
    <3>1. i + 1 \in 1..n
      BY <2>1, <2>2, <1>1
    <3> QED
      BY <3>1, <2>2, <1>1
  <2>3. CASE (st # "CONNECTED" \/ ~al) /\ (i = n \/ NoRedial)
    BY <2>1, <2>3, <1>1, <1>2 DEF Ready
  <2> QED
    BY <2>1, <2>2, <2>3 DEF Guarded
<1>5. Guarded(t, st, al)
  BY <1>1, <1>4 DEF Guarded
<1> QED
  BY <1>1, <1>3, <1>5 DEF t

(* The drop itself may be put on the stack of a session that is not CONNECTED. *)
LEMMA GuardedDrop ==
  ASSUME NEW s \in Seq(Frames), NEW st, NEW al \in BOOLEAN, Guarded(s, st, al), Ready(s),
         st # "CONNECTED" \/ ~al
  PROVE  Push(s, "Drop") \in Seq(Frames) /\ Guarded(Push(s, "Drop"), st, al)
<1> DEFINE n == Len(s)
           t == Push(s, "Drop")
<1>0. Frame("Drop") \in Frames /\ Frame("Drop").op = "Drop"
  BY DEF Frame, Frames, Ops
<1>1. n \in Nat /\ Len(t) = n + 1 /\ t \in Seq(Frames) /\ \A i \in 1..n : t[i] = s[i]
  BY <1>0, PushFacts DEF Push
<1>2. s = <<>> => n = 0
  OBVIOUS
<1> HIDE DEF t
<1>4. ASSUME NEW i \in 1..(n + 1), t[i].op = "Drop"
      PROVE  \/ AutoReconnect /\ i < n + 1 /\ t[i + 1].op = "Reconnect"
             \/ (st # "CONNECTED" \/ ~al) /\ (i = n + 1 \/ NoRedial)
  <2>0. CASE i = n + 1
    BY <2>0
  <2>1. CASE i # n + 1
    <3>1. i \in 1..n /\ s[i].op = "Drop"
      BY <1>1, <1>4, <2>1
    <3>2. CASE AutoReconnect /\ i < n /\ s[i + 1].op = "Reconnect"
      <4>1. i + 1 \in 1..n
        BY <3>1, <3>2, <1>1
      <4> QED
        BY <4>1, <3>2, <1>1
    <3>3. CASE (st # "CONNECTED" \/ ~al) /\ (i = n \/ NoRedial)
      BY <3>1, <3>3, <1>1, <1>2 DEF Ready
    <3> QED
      BY <3>1, <3>2, <3>3 DEF Guarded
  <2> QED
    BY <2>0, <2>1
<1>5. Guarded(t, st, al)
  BY <1>1, <1>4 DEF Guarded
<1> QED
  BY <1>1, <1>5 DEF t

(* A frame taken off the stack keeps what is guarded. *)
LEMMA GuardedRest ==
  ASSUME stack \in Seq(Frames), stack # <<>>, NEW st, NEW al \in BOOLEAN,
         Guarded(stack, st, al), Top.op # "Reconnect"
  PROVE  Rest \in Seq(Frames) /\ Guarded(Rest, st, al) /\ Ready(Rest)
<1> DEFINE n == Len(stack)
           t == Rest
<1>1. /\ n \in Nat \ {0} /\ Len(t) = n - 1 /\ t \in Seq(Frames)
         /\ \A i \in 1..(n - 1) : t[i] = stack[i]
      /\ stack[n].op # "Reconnect"
  BY RestFacts DEF Rest, Top
<1> HIDE DEF t
<1>2. ASSUME NEW i \in 1..(n - 1), t[i].op = "Drop"
      PROVE  \/ AutoReconnect /\ i < n - 1 /\ t[i + 1].op = "Reconnect"
             \/ (st # "CONNECTED" \/ ~al) /\ NoRedial
  <2>1. i \in 1..n /\ stack[i].op = "Drop" /\ i # n
    BY <1>1, <1>2
  <2>2. CASE AutoReconnect /\ i < n /\ stack[i + 1].op = "Reconnect"
    <3>1. i + 1 \in 1..(n - 1)
      BY <2>1, <2>2, <1>1
    <3> QED
      BY <3>1, <2>2, <1>1
  <2>3. CASE (st # "CONNECTED" \/ ~al) /\ (i = n \/ NoRedial)
    BY <2>1, <2>3, <1>1
  <2> QED
    BY <2>1, <2>2, <2>3 DEF Guarded
<1>3. Guarded(t, st, al)
  BY <1>1, <1>2 DEF Guarded
<1>4. Ready(t)
  <2>1. SUFFICES ASSUME t # <<>>, t[n - 1].op = "Drop" PROVE NoRedial
    BY <1>1 DEF Ready
  <2>2. n - 1 \in 1..(n - 1)
    <3>1. Len(t) # 0
      BY <2>1, <1>1
    <3> QED
      BY <3>1, <1>1
  <2> QED
    BY <1>2, <2>1, <2>2, <1>1
<1> QED
  BY <1>1, <1>3, <1>4 DEF t

(* The status may change unless it becomes CONNECTED under a drop. *)
LEMMA GuardedStatus ==
  ASSUME NEW s \in Seq(Frames), NEW st, NEW st2, NEW al \in BOOLEAN, Guarded(s, st, al),
         Ready(s),
         st2 # "CONNECTED" \/ ~NoRedial \/ NoDrop(s) \/ st2 = st
  PROVE  Guarded(s, st2, al)
<1>1. Len(s) \in Nat /\ (s = <<>> => Len(s) = 0)
  OBVIOUS
<1> QED
  BY <1>1 DEF Guarded, Ready, NoDrop

(* Between tasks nothing is being dropped. *)
LEMMA GuardedEmpty == \A st, al : Guarded(<<>>, st, al) /\ Ready(<<>>) /\ NoDrop(<<>>)
BY DEF Guarded, Ready, NoDrop

(* Telling the handler keeps what is guarded. *)
LEMMA GuardedNotify ==
  ASSUME NEW s \in Seq(Frames), NEW st, NEW al \in BOOLEAN, Guarded(s, st, al), Ready(s)
  PROVE  Guarded(Notify(s), st, al)
<1>1. Frame("Handler") \in Frames /\ Frame("Handler").op # "Drop"
  BY DEF Frame, Frames, Ops
<1> QED
  BY <1>1, GuardedPush DEF Notify, Push

(* So does the result of a dial. *)
LEMMA GuardedConnectResult ==
  ASSUME NEW s \in Seq(Frames), NEW ok \in BOOLEAN, NEW al \in BOOLEAN,
         Guarded(s, status', al), Ready(s), ConnectResult(ok, s)
  PROVE  Guarded(stack', status', al)
<1> DEFINE t == Push(s, "Deal")
<1>1. t \in Seq(Frames) /\ Guarded(t, status', al) /\ Ready(t)
  BY FrameOps, GuardedPush DEF Push, Ops
<1>2. stack' = t \/ stack' = Push(t, "Handler")
  BY DEF ConnectResult
<1> HIDE DEF t
<1> QED
  BY <1>1, <1>2, FrameOps, GuardedPush DEF Push, Ops

(* So does DoConnect, where the handler may call it. *)
LEMMA GuardedDoConnect ==
  ASSUME NEW s \in Seq(Frames), NEW b \in BOOLEAN, Guarded(s, status, alive), Ready(s),
         alive \in BOOLEAN, linked' \in BOOLEAN,
         ~NoRedial \/ NoDrop(s), status = "CONNECTED" /\ alive => connected, DoConnect(b, s)
  PROVE  Guarded(stack', status', alive)
         /\ (status' = "CONNECTED" /\ alive => connected' /\ linked')
<1>1. Guarded(s, status', alive)
  BY GuardedStatus
<1>2. linked'
  BY DEF DoConnect
<1>3. CASE stack' = s /\ status' \in {status, "CONNECTING"} /\ connected' = connected
  BY <1>1, <1>2, <1>3
<1>4. CASE ConnectFinish(TRUE, TRUE, s)
  <2>1. connected' /\ ConnectResult(TRUE, s)
    BY <1>4 DEF ConnectFinish
  <2> QED
    BY <2>1, <1>1, <1>2, GuardedConnectResult
<1> QED
  BY <1>3, <1>4 DEF DoConnect

(* A connection that closes leaves its session CLOSED, and drops itself last. *)
LEMMA GuardedPeerClose ==
  ASSUME NEW s \in Seq(Frames), NEW b \in BOOLEAN, Guarded(s, status, alive), Ready(s),
         alive \in BOOLEAN,
         AutoReconnect \/ NoRedial, status = "CONNECTED" /\ alive => linked, ConnPeerClose(b, s)
  PROVE  Guarded(stack', status', alive)
         /\ (((status' = status /\ stack' = s)) \/ status' # "CONNECTED" \/ ~alive)
<1>1. CASE b /\ linked
  <2> DEFINE t == Push(s, "Drop")
             u == Push(t, "Reconnect")
  <2>1. status' = "CLOSED" /\ stack' = Push(u, "CleanHistory")
    BY <1>1 DEF ConnPeerClose
  <2>2. Guarded(s, "CLOSED", alive)
    BY GuardedStatus
  <2>3. t \in Seq(Frames) /\ Guarded(t, "CLOSED", alive)
    BY <2>2, GuardedDrop
  <2>4. u \in Seq(Frames) /\ Guarded(u, "CLOSED", alive) /\ Ready(u)
    <3>1. CASE NoRedial
      BY <3>1, <2>3, FrameOps, GuardedPush DEF Push, Ops, Ready
    <3>2. CASE AutoReconnect
      <4> DEFINE n == Len(s)
      <4>1. /\ n \in Nat /\ Len(t) = n + 1 /\ Len(u) = n + 2 /\ u \in Seq(Frames)
            /\ \A i \in 1..(n + 1) : u[i] = t[i]
            /\ u[n + 2].op = "Reconnect"
        BY <2>3, FrameOps, PushFacts DEF Push, Ops
      <4> HIDE DEF t, u
      <4>2. ASSUME NEW i \in 1..(n + 2), u[i].op = "Drop"
            PROVE  \/ AutoReconnect /\ i < n + 2 /\ u[i + 1].op = "Reconnect"
                   \/ NoRedial
        <5>1. i \in 1..(n + 1) /\ t[i].op = "Drop"
          BY <4>1, <4>2
        <5>2. CASE i = n + 1
          BY <5>2, <4>1, <3>2
        <5>3. CASE i # n + 1
          <6>1. i \in 1..n /\ i + 1 \in 1..(n + 1) /\ i # Len(t)
            BY <5>1, <5>3, <4>1
          <6>2. (AutoReconnect /\ t[i + 1].op = "Reconnect") \/ NoRedial
            BY <5>1, <6>1, <2>3, <4>1 DEF Guarded
          <6> QED
            BY <6>1, <6>2, <4>1
        <5> QED
          BY <5>2, <5>3
      <4>3. Guarded(u, "CLOSED", alive)
        BY <4>1, <4>2 DEF Guarded
      <4> QED
        BY <4>1, <4>3 DEF Ready
    <3> QED
      BY <3>1, <3>2
  <2> HIDE DEF u
  <2> QED
    BY <2>1, <2>4, FrameOps, GuardedPush DEF Push, Ops
<1>2. CASE ~(b /\ linked)
  <2>1. status' = status /\ stack' = IF b THEN Push(s, "Drop") ELSE s
    BY <1>2 DEF ConnPeerClose
  <2>2. b => status # "CONNECTED" \/ ~alive
    BY <1>2
  <2> QED
    BY <2>1, <2>2, GuardedDrop
<1> QED
  BY <1>1, <1>2

(* A task without a drop guards nothing. *)
LEMMA GuardedNoDrop ==
  ASSUME NEW s \in Seq(Frames), NoDrop(s), NEW st, NEW al
  PROVE  Guarded(s, st, al) /\ Ready(s)
<1>1. Len(s) \in Nat
  OBVIOUS
<1>2. s # <<>> => Len(s) \in 1..Len(s)
  BY RestFacts
<1> QED
  BY <1>1, <1>2 DEF Guarded, Ready, NoDrop

(* After the cleaning the session waits, or stays closed, until the drop is done. *)
LEMMA GuardedReconnect ==
  ASSUME stack \in Seq(Frames), stack # <<>>, NEW st, NEW al \in BOOLEAN,
         Guarded(stack, st, al), AutoReconnect \/ NoRedial
  PROVE  /\ Rest \in Seq(Frames)
         /\ AutoReconnect => Guarded(Rest, "WAITING", al)
         /\ ~AutoReconnect => Ready(Rest) /\ \A st2 \in {st, "CLOSED"} : Guarded(Rest, st2, al)
<1> DEFINE n == Len(stack)
           t == Rest
<1>1. n \in Nat \ {0} /\ Len(t) = n - 1 /\ t \in Seq(Frames)
      /\ \A i \in 1..(n - 1) : t[i] = stack[i]
  BY RestFacts DEF Rest
<1> HIDE DEF t
<1>2. ASSUME NEW i \in 1..(n - 1), t[i].op = "Drop"
      PROVE  /\ AutoReconnect =>
                  (i < n - 1 /\ t[i + 1].op = "Reconnect") \/ i = n - 1 \/ NoRedial
             /\ ~AutoReconnect => st # "CONNECTED" \/ ~al
  <2>1. i \in 1..n /\ stack[i].op = "Drop" /\ i # n
    BY <1>1, <1>2
  <2>2. CASE AutoReconnect /\ i < n /\ stack[i + 1].op = "Reconnect"
    <3>1. i + 1 \in 1..(n - 1) \/ i = n - 1
      BY <2>1, <1>1
    <3> QED
      BY <3>1, <2>2, <1>1
  <2>3. CASE (st # "CONNECTED" \/ ~al) /\ (i = n \/ NoRedial)
    BY <2>1, <2>3
  <2> QED
    BY <2>1, <2>2, <2>3 DEF Guarded
<1>3. AutoReconnect => Guarded(t, "WAITING", al)
  BY <1>1, <1>2 DEF Guarded
<1>4. ~AutoReconnect => Ready(t) /\ \A st2 \in {st, "CLOSED"} : Guarded(t, st2, al)
  BY <1>1, <1>2 DEF Guarded, Ready
<1> QED
  BY <1>1, <1>3, <1>4 DEF t

(* A request that is sent keeps what is guarded. *)
LEMMA GuardedSend ==
  ASSUME NEW s \in Seq(Frames), NEW al \in BOOLEAN, Guarded(s, status, al), Ready(s), NEW r,
         DoSendTo(r, s)
  PROVE  Guarded(stack', status, al)
<1>1. stack' \in {s, Push(s, "Handler")}
  BY DEF DoSendTo
<1> QED
  BY <1>1, FrameOps, GuardedPush DEF Push, Ops

(* So does a close. *)
LEMMA GuardedClose ==
  ASSUME NEW s \in Seq(Frames), NEW al \in BOOLEAN, Guarded(s, status, al), Ready(s), Close(s)
  PROVE  status' = "CLOSED" /\ Guarded(stack', status', al)
<1>1. status' = "CLOSED" /\ stack' \in {s, Push(Push(s, "Shut"), "CleanHistory")}
  BY DEF Close
<1>2. Guarded(s, "CLOSED", al)
  BY GuardedStatus
<1>3. Push(s, "Shut") \in Seq(Frames) /\ Guarded(Push(s, "Shut"), "CLOSED", al)
      /\ Ready(Push(s, "Shut"))
  BY <1>2, FrameOps, GuardedPush DEF Push, Ops
<1>4. Guarded(Push(Push(s, "Shut"), "CleanHistory"), "CLOSED", al)
  BY <1>3, FrameOps, GuardedPush DEF Push, Ops
<1> QED
  BY <1>1, <1>2, <1>4

(* The actions of the business code keep CONNECTED sessions usable. *)
LEMMA UserUsable ==
  ASSUME UInv, User
  PROVE  UInv'
<1> USE DEF UInv
<1>0. TypeOK' /\ alive' = alive /\ alive \in BOOLEAN /\ stack \in Seq(Frames)
  <2>1. TypeOK'
    BY UserType
  <2>2. alive' = alive
    BY DEF User, UserConnect, UserSendTo, UserCall, UserClose, sessVars
  <2> QED
    BY <2>1, <2>2 DEF TypeOK
<1>1. ASSUME NEW call, MayCall(call)
      PROVE  /\ Ready(stack)
             /\ call \in {"Connect", "Call"} => ~NoRedial \/ stack = <<>>
  BY <1>1 DEF MayCall, Ready, Top, NoRedial
<1>2. CASE UserConnect
  <2>1. Ready(stack) /\ (~NoRedial \/ NoDrop(stack)) /\ DoConnect(reconn, stack)
    BY <1>1, <1>2, GuardedEmpty DEF UserConnect
  <2>2. reconn \in BOOLEAN /\ linked' \in BOOLEAN
    BY <1>0 DEF TypeOK
  <2>3. Guarded(stack', status', alive)
        /\ (status' = "CONNECTED" /\ alive => connected' /\ linked')
    BY <1>0, <2>1, <2>2, GuardedDoConnect
  <2> QED
    BY <1>0, <2>3
<1>3. ASSUME NEW r \in Request, UserSendTo(r) PROVE UInv'
  <2>1. Ready(stack) /\ DoSendTo(r, stack) /\ UNCHANGED <<status, connected, linked>>
    BY <1>1, <1>3 DEF UserSendTo, sessVars, connVars
  <2>2. Guarded(stack', status, alive)
    BY <1>0, <2>1, GuardedSend
  <2> QED
    BY <1>0, <2>1, <2>2
<1>4. ASSUME NEW r \in Request, UserCall(r) PROVE UInv'
  <2> DEFINE s == Append(stack, FrameOf("SendTo", r))
  <2>1. Ready(stack) /\ (~NoRedial \/ stack = <<>>) /\ DoConnect(reconn, s)
    BY <1>1, <1>4 DEF UserCall
  <2>2. reconn \in BOOLEAN /\ linked' \in BOOLEAN
    BY <1>0 DEF TypeOK
  <2>3. s \in Seq(Frames) /\ Guarded(s, status, alive) /\ Ready(s)
    BY <1>0, <2>1, FrameOps, GuardedPush
  <2>4. stack = <<>> => NoDrop(s)
    <3>1. stack = <<>> => s = <<FrameOf("SendTo", r)>>
      OBVIOUS
    <3> QED
      BY <3>1, FrameOps
  <2> HIDE DEF s
  <2>5. Guarded(stack', status', alive)
        /\ (status' = "CONNECTED" /\ alive => connected' /\ linked')
    BY <1>0, <2>1, <2>2, <2>3, <2>4, GuardedDoConnect
  <2> QED
    BY <1>0, <2>5
<1>5. CASE UserClose
  <2>1. Ready(stack) /\ Close(stack)
    BY <1>1, <1>5 DEF UserClose
  <2>2. status' = "CLOSED" /\ Guarded(stack', status', alive)
    BY <1>0, <2>1, GuardedClose
  <2> QED
    BY <1>0, <2>2
<1> QED
  BY <1>2, <1>3, <1>4, <1>5 DEF User

(* The rest of a task keeps CONNECTED sessions usable. *)
LEMMA ContinueUsable ==
  ASSUME AutoReconnect \/ NoRedial, UInv, Continue
  PROVE  UInv'
<1> USE DEF UInv
<1>0. TypeOK' /\ alive \in BOOLEAN /\ stack \in Seq(Frames)
  BY ContinueType DEF TypeOK
<1>1. ASSUME stack # <<>>, Top.op # "Reconnect"
      PROVE  Rest \in Seq(Frames) /\ Guarded(Rest, status, alive) /\ Ready(Rest)
  BY <1>0, <1>1, GuardedRest
<1>2. ASSUME stack # <<>>, Top.op # "Drop" PROVE Ready(stack)
             /\ Guarded(Notify(stack), status, alive)
  <2>1. Ready(stack)
    BY <1>2 DEF Ready, Top
  <2> QED
    BY <1>0, <2>1, GuardedNotify
<1>q. ASSUME Guarded(stack', status, alive), UNCHANGED <<status, alive, connected, linked>>
      PROVE  UInv'
  BY <1>0, <1>q
<1>3. CASE HandlerReturn \/ EraseEntry \/ ReadOn
  <2>1. stack # <<>> /\ Top.op # "Reconnect" /\ stack' = Rest
    BY <1>3 DEF HandlerReturn, EraseEntry, ReadOn, Running
  <2>2. UNCHANGED <<status, alive, connected, linked>>
    BY <1>3 DEF HandlerReturn, EraseEntry, ReadOn, sessVars, connVars
  <2> QED
    BY <1>1, <1>q, <2>1, <2>2
<1>4. CASE SendStep
  <2>1. stack # <<>> /\ Top.op # "Reconnect" /\ DoSendTo(Top.req, Rest)
    BY <1>4 DEF SendStep, Running
  <2>2. UNCHANGED <<status, alive, connected, linked>>
    BY <1>4 DEF SendStep, sessVars, connVars
  <2>3. Guarded(stack', status, alive)
    BY <1>0, <1>1, <2>1, GuardedSend
  <2> QED
    BY <1>q, <2>2, <2>3
<1>5. CASE CleanHistory \/ CleanWaiting \/ DealWaitingList
  <2>1. stack # <<>> /\ Top.op \notin {"Reconnect", "Drop"}
    BY <1>5 DEF CleanHistory, CleanWaiting, DealWaitingList, Running
  <2>2. UNCHANGED <<status, alive, connected, linked>>
    BY <1>5 DEF CleanHistory, CleanWaiting, DealWaitingList, sessVars, connVars
  <2>3. stack' \in {stack, Rest, Push(Rest, "CleanWaiting"), Notify(stack)}
    BY <1>5 DEF CleanHistory, CleanWaiting, DealWaitingList
  <2>4. Guarded(Push(Rest, "CleanWaiting"), status, alive)
    BY <1>0, <1>1, <2>1, FrameOps, GuardedPush DEF Push, Ops
  <2> QED
    BY <1>1, <1>2, <1>q, <2>1, <2>2, <2>3, <2>4
<1>6. CASE ReconnectLater
  <2>1. stack # <<>> /\ alive' = alive
    BY <1>6 DEF ReconnectLater, Running
  <2>2. UNCHANGED <<connected, linked>>
    BY <1>6 DEF ReconnectLater, connVars
  <2>3. CASE AutoReconnect
    <3>1. status' = "WAITING" /\ stack' = Rest
      BY <1>6, <2>3 DEF ReconnectLater
    <3>2. Guarded(Rest, "WAITING", alive)
      BY <1>0, <2>1, <2>3, GuardedReconnect
    <3> QED
      BY <1>0, <2>1, <3>1, <3>2
  <2>4. CASE ~AutoReconnect
    <3>1. status' \in {status, "CLOSED"} /\ stack' = Notify(Rest)
      BY <1>6, <2>4 DEF ReconnectLater
    <3>2. Rest \in Seq(Frames) /\ Ready(Rest) /\ Guarded(Rest, status', alive)
      BY <1>0, <2>1, <2>4, <3>1, GuardedReconnect
    <3>3. Guarded(Notify(Rest), status', alive)
      BY <1>0, <3>2, GuardedNotify
    <3> QED
      BY <1>0, <2>1, <2>2, <3>1, <3>3
  <2> QED
    BY <2>3, <2>4
<1>7. CASE DropConnection
  <2>1. stack # <<>> /\ Top.op = "Drop" /\ stack' = Rest /\ UNCHANGED <<status, alive>>
    BY <1>7 DEF DropConnection, Running, sessVars
  <2>2. status # "CONNECTED" \/ ~alive
    <3>1. Len(stack) \in 1..Len(stack)
      BY <1>0, <2>1, RestFacts
    <3>2. ~(Len(stack) < Len(stack))
      BY <3>1
    <3> QED
      BY <2>1, <3>1, <3>2 DEF Guarded, Top
  <2>3. Guarded(Rest, status, alive)
    BY <1>1, <2>1
  <2> QED
    BY <1>0, <2>1, <2>2, <2>3
<1>8. CASE ShutConnection
  <2>1. stack # <<>> /\ Top.op = "Shut" /\ ConnPeerClose(connected, Rest)
        /\ UNCHANGED <<alive, connected, linked>>
    BY <1>8 DEF ShutConnection, Running
  <2>2. Rest \in Seq(Frames) /\ Guarded(Rest, status, alive) /\ Ready(Rest)
        /\ connected \in BOOLEAN
    BY <1>1, <2>1 DEF TypeOK
  <2>3. Guarded(stack', status', alive)
        /\ (((status' = status /\ stack' = Rest)) \/ status' # "CONNECTED" \/ ~alive)
    BY <1>0, <2>1, <2>2, GuardedPeerClose
  <2> QED
    BY <1>0, <2>1, <2>3
<1>9. CASE DeleteSession
  <2>1. stack # <<>> /\ Top.op = "Delete" /\ stack' = Rest /\ status' = status /\ alive' = FALSE
    BY <1>9 DEF DeleteSession, Running
  <2>2. Guarded(Rest, status, FALSE)
    BY <1>1, <2>1 DEF Guarded
  <2> QED
    BY <1>0, <2>1, <2>2
<1> QED
  BY <1>3, <1>4, <1>5, <1>6, <1>7, <1>8, <1>9 DEF Continue

(* Completed operations of the connection keep CONNECTED sessions usable. *)
LEMMA NetworkUsable ==
  ASSUME AutoReconnect \/ NoRedial, UInv, Network
  PROVE  UInv'
<1> USE DEF UInv
<1>0. TypeOK' /\ alive' = alive /\ alive \in BOOLEAN /\ stack = <<>> /\ connected \in BOOLEAN
  <2>1. TypeOK'
    BY NetworkType
  <2>2. alive' = alive /\ stack = <<>>
    BY DEF Network, HandleDial, HandleDialNext, ConnTimerExpires, HandleConnectTimeout,
           ReadCompletes, HandleRead, HandleReadError, HandleWrite, sessVars, Idle
  <2> QED
    BY <2>1, <2>2 DEF TypeOK
<1>e. <<>> \in Seq(Frames) /\ Ready(<<>>) /\ \A st, al : Guarded(<<>>, st, al)
  BY FrameOps, GuardedEmpty
<1>p. ASSUME NEW b \in BOOLEAN, ConnPeerClose(b, <<>>), UNCHANGED linked,
             connected' = connected \/ connected'
      PROVE  UInv'
  <2>1. Guarded(stack', status', alive)
        /\ ((status' = status /\ stack' = <<>>) \/ status' # "CONNECTED" \/ ~alive)
    BY <1>0, <1>e, <1>p, GuardedPeerClose
  <2>2. status' = "CONNECTED" /\ alive => connected' /\ linked'
    BY <1>p, <2>1
  <2> QED
    BY <1>0, <2>1, <2>2
<1>1. CASE HandleDial
  <2>1. PICK ok \in BOOLEAN : ConnectFinish(ok, linked, <<>>)
    BY <1>1 DEF HandleDial
  <2>2. linked' = linked /\ connected' = (connected \/ ok)
    BY <1>1, <2>1 DEF HandleDial, ConnectFinish
  <2>3. CASE linked
    <3>1. ConnectResult(ok, <<>>) /\ status' = IF ok THEN "CONNECTED" ELSE status
      BY <2>1, <2>3 DEF ConnectFinish, ConnectResult
    <3>2. Guarded(stack', status', alive)
      BY <1>0, <1>e, <3>1, GuardedConnectResult
    <3> QED
      BY <1>0, <2>2, <2>3, <3>1, <3>2
  <2>4. CASE ~linked
    <3>1. stack' = <<>> /\ status' = status
      BY <2>1, <2>4 DEF ConnectFinish
    <3> QED
      BY <1>0, <1>e, <2>2, <2>4, <3>1
  <2> QED
    BY <2>3, <2>4
<1>2. CASE HandleDialNext \/ ConnTimerExpires \/ ReadCompletes
  <2>1. UNCHANGED <<status, connected, linked, stack>>
    BY <1>2 DEF HandleDialNext, ConnTimerExpires, ReadCompletes, sessVars, connVars
  <2> QED
    BY <1>0, <2>1
<1>3. CASE HandleConnectTimeout
  <2>1. UNCHANGED <<status, connected, linked>>
    BY <1>3 DEF HandleConnectTimeout, ConnectResult
  <2>2. ConnectResult(FALSE, <<>>) \/ stack' = stack
    BY <1>3 DEF HandleConnectTimeout
  <2>3. Guarded(stack', status', alive)
    BY <1>0, <1>e, <2>1, <2>2, GuardedConnectResult
  <2> QED
    BY <1>0, <2>1, <2>3
<1>4. CASE HandleRead
  <2>1. connected' = TRUE /\ linked' = linked
    BY <1>4 DEF HandleRead
  <2>2. CASE linked /\ arrived.kind # "illegal"
    <3>1. stack' \in {<<Frame("ReadOn")>>, Notify(<<Frame("ReadOn")>>)}
      BY <1>4, <2>2 DEF HandleRead, OnReadResponse, OnReadHeartbeat
    <3> DEFINE t == <<Frame("ReadOn")>>
    <3>2. t \in Seq(Frames) /\ NoDrop(t)
      BY FrameOps DEF Ops
    <3> HIDE DEF t
    <3>3. Guarded(t, status', alive) /\ Ready(t)
      BY <3>2, GuardedNoDrop
    <3>4. Guarded(Notify(t), status', alive)
      BY <1>0, <3>2, <3>3, GuardedNotify
    <3>5. Guarded(stack', status', alive)
      BY <3>1, <3>3, <3>4 DEF t
    <3> QED
      BY <1>0, <2>1, <2>2, <3>5
  <2>3. CASE ~linked \/ arrived.kind = "illegal"
    BY <1>4, <1>p, <2>1, <2>3 DEF HandleRead
  <2> QED
    BY <2>2, <2>3
<1>5. CASE HandleReadError
  BY <1>0, <1>5, <1>p DEF HandleReadError
<1>6. CASE HandleWrite
  <2>1. UNCHANGED <<connected, linked>>
        /\ (ConnPeerClose(connected, <<>>) \/ UNCHANGED <<status, stack>>)
    BY <1>6 DEF HandleWrite
  <2> QED
    BY <1>0, <1>p, <2>1
<1> QED
  BY <1>1, <1>2, <1>3, <1>4, <1>5, <1>6 DEF Network

(* The timers and the container's check keep CONNECTED sessions usable. *)
LEMMA TimerUsable ==
  ASSUME UInv, Timer
  PROVE  UInv'
<1> USE DEF UInv
<1>0. TypeOK' /\ alive' = alive /\ alive \in BOOLEAN /\ stack = <<>>
  <2>1. TypeOK'
    BY TimerType
  <2>2. alive' = alive /\ stack = <<>>
    BY DEF Timer, RequestTimer, ReconnectTimer, DoHeartBeat, CheckSession, Crash,
       sessVars, Idle
  <2> QED
    BY <2>1, <2>2 DEF TypeOK
<1>e. <<>> \in Seq(Frames) /\ Ready(<<>>) /\ NoDrop(<<>>) /\ \A st, al : Guarded(<<>>, st, al)
  BY FrameOps, GuardedEmpty
<1>1. ASSUME NEW r \in Request, RequestTimer(r) PROVE UInv'
  <2>1. UNCHANGED <<status, connected, linked>>
    BY <1>1 DEF RequestTimer, Crash, sessVars, connVars
  <2>2. stack' = stack \/ \E e \in Request : stack' = Notify(<<FrameOf("Erase", e)>>)
    BY <1>1 DEF RequestTimer, Crash, Hist
  <2>3. ASSUME NEW e \in Request PROVE Guarded(Notify(<<FrameOf("Erase", e)>>), status, alive)
    <3> DEFINE t == <<FrameOf("Erase", e)>>
    <3>1. t \in Seq(Frames) /\ NoDrop(t)
      BY FrameOps
    <3> HIDE DEF t
    <3>2. Guarded(t, status, alive) /\ Ready(t)
      BY <3>1, GuardedNoDrop
    <3>3. Guarded(Notify(t), status, alive)
      BY <1>0, <3>1, <3>2, GuardedNotify
    <3> QED
      BY <3>3 DEF t
  <2> QED
    BY <1>0, <2>1, <2>2, <2>3
<1>2. CASE ReconnectTimer
  <2>1. DoConnect(FALSE, <<>>) /\ FALSE \in BOOLEAN /\ linked' \in BOOLEAN
    BY <1>0, <1>2 DEF ReconnectTimer, TypeOK
  <2>2. Guarded(stack', status', alive)
        /\ (status' = "CONNECTED" /\ alive => connected' /\ linked')
    BY <1>0, <1>e, <2>1, GuardedDoConnect
  <2> QED
    BY <1>0, <2>2
<1>3. CASE DoHeartBeat
  <2>1. UNCHANGED <<status, connected, linked, stack>>
    BY <1>3 DEF DoHeartBeat, sessVars, connVars
  <2> QED
    BY <1>0, <2>1
<1>4. CASE CheckSession
  <2> DEFINE t == <<Frame("Delete"), Frame("CleanHistory")>>
  <2>1. t \in Seq(Frames) /\ NoDrop(t)
    <3>1. Frame("Delete") \in Frames /\ Frame("CleanHistory") \in Frames
      BY FrameOps DEF Ops
    <3>2. t \in Seq(Frames) /\ Len(t) = 2 /\ \A i \in 1..2 : t[i].op # "Drop"
      BY <3>1 DEF Frame
    <3> QED
      BY <3>2 DEF NoDrop
  <2> HIDE DEF t
  <2>2. (status' = "TIME_OUT" /\ stack' = stack) \/ Close(t)
    BY <1>4 DEF CheckSession, t
  <2>3. Guarded(t, status, alive) /\ Ready(t)
    BY <2>1, GuardedNoDrop
  <2>4. Guarded(stack', status', alive) /\ status' # "CONNECTED"
    BY <1>0, <1>e, <2>1, <2>2, <2>3, GuardedClose
  <2> QED
    BY <1>0, <2>4
<1> QED
  BY <1>1, <1>2, <1>3, <1>4 DEF Timer

(* Between tasks, a session that says CONNECTED has a connection to write to and is
   told what happens to it, provided that it reconnects by itself or its handler does
   not dial from inside OnEvent. *)
THEOREM ConnectedUsable ==
  ASSUME AutoReconnect \/ NoRedial
  PROVE  Spec => []ConnectedIsUsable
<1>1. Init => UInv
  <2> SUFFICES ASSUME Init PROVE UInv
    OBVIOUS
  <2>1. stack = <<>> /\ status # "CONNECTED"
    BY DEF Init
  <2>2. TypeOK
    BY InitType
  <2> QED
    BY <2>1, <2>2, GuardedEmpty DEF UInv
<1>2. UInv /\ [Next]_vars => UInv'
  <2>1. ASSUME UInv, UNCHANGED vars PROVE UInv'
    <3>1. UNCHANGED <<stack, status, alive, connected, linked>>
      BY <2>1 DEF vars, sessVars, connVars
    <3>2. TypeOK'
      BY <2>1 DEF UInv, TypeOK, vars, sessVars, reqVars, writeVars, connVars
    <3> QED
      BY <2>1, <3>1, <3>2 DEF UInv
  <2> QED
    BY <2>1, UserUsable, ContinueUsable, NetworkUsable, TimerUsable DEF Next
<1>3. UInv => ConnectedIsUsable
  BY DEF UInv, ConnectedIsUsable
<1> QED
  BY <1>1, <1>2, <1>3, PTL DEF Spec

-----------------------------------------------------------------------------
(* The end of a session. *)

(* What is left to do in the task that deletes the session: the session is cleaned
   (h is its history) and cut from its connection before it goes. *)
ClosingOps == {"Shut", "CleanHistory", "CleanWaiting", "Drop"}

Ending(s, h) ==
  /\ Len(s) > 0 /\ s[1].op = "Delete"
  /\ \A i \in 2..Len(s) : s[i].op \in ClosingOps
  /\ h # {} => Len(s) > 1 /\ s[2].op = "CleanHistory"

(* A deleted session: nothing leads to it, and of its task only drops are left. *)
Ended == /\ ~linked /\ ~reconn /\ ~hbTimer /\ Hist = {}
         /\ \A i \in 1..Len(stack) : stack[i].op = "Drop"

(* Only the container's check deletes the session, having closed it in the same task. *)
EndInv ==
  /\ TypeOK
  /\ NoDelete(stack) \/ (Ending(stack, Hist) /\ ~owner /\ ~linked)
  /\ alive \/ Ended

(* No call puts the deletion on the stack of a running task. *)
LEMMA NoDeleteAppend ==
  ASSUME NEW s \in Seq(Frames), NEW f \in Frames, NoDelete(s), f.op # "Delete"
  PROVE  Append(s, f) \in Seq(Frames) /\ NoDelete(Append(s, f))
<1> DEFINE t == Append(s, f)
<1>1. Len(s) \in Nat /\ Len(t) = Len(s) + 1 /\ t \in Seq(Frames) /\ t[Len(s) + 1] = f
      /\ \A i \in 1..Len(s) : t[i] = s[i]
  BY PushFacts
<1> HIDE DEF t
<1>2. \A i \in 1..Len(t) : i \in 1..Len(s) \/ i = Len(s) + 1
  BY <1>1
<1>3. NoDelete(t)
  BY <1>1, <1>2 DEF NoDelete
<1> QED
  BY <1>1, <1>3 DEF t

(* The same for Push. *)
LEMMA NoDeletePush ==
  ASSUME NEW s \in Seq(Frames), NoDelete(s), NEW op \in Ops, op # "Delete"
  PROVE  Push(s, op) \in Seq(Frames) /\ NoDelete(Push(s, op))
BY FrameOps, NoDeleteAppend DEF Push

(* The same for what is left of the stack. *)
LEMMA NoDeleteRest ==
  ASSUME stack \in Seq(Frames), stack # <<>>, NoDelete(stack)
  PROVE  Rest \in Seq(Frames) /\ NoDelete(Rest)
<1> DEFINE t == Rest
<1>1. /\ Len(stack) \in Nat \ {0} /\ Len(t) = Len(stack) - 1 /\ t \in Seq(Frames)
      /\ \A i \in 1..(Len(stack) - 1) : t[i] = stack[i]
  BY RestFacts DEF Rest
<1> HIDE DEF t
<1>2. \A i \in 1..Len(t) : i \in 1..Len(stack) /\ t[i] = stack[i]
  BY <1>1
<1>3. NoDelete(t)
  BY <1>2 DEF NoDelete
<1> QED
  BY <1>1, <1>3 DEF t

(* The same for each call of the session and of its connection. *)
LEMMA NoDeleteCalls ==
  ASSUME NEW s \in Seq(Frames), NoDelete(s)
  PROVE  /\ NoDelete(Notify(s))
         /\ \A ok \in BOOLEAN : ConnectResult(ok, s) => NoDelete(stack')
         /\ \A b \in BOOLEAN : DoConnect(b, s) => NoDelete(stack')
         /\ \A b : ConnPeerClose(b, s) => NoDelete(stack')
         /\ Close(s) => NoDelete(stack')
         /\ \A r : DoSendTo(r, s) => NoDelete(stack')
<1>1. ASSUME NEW op \in {"Handler", "Deal", "Drop", "Shut"}
      PROVE  /\ Push(s, op) \in Seq(Frames) /\ NoDelete(Push(s, op))
             /\ \A op2 \in {"Handler", "Reconnect", "CleanHistory"} :
                  Push(Push(s, op), op2) \in Seq(Frames) /\ NoDelete(Push(Push(s, op), op2))
  BY NoDeletePush DEF Ops
<1>2. NoDelete(Notify(s))
  BY <1>1 DEF Notify
<1>3. ASSUME NEW ok \in BOOLEAN, ConnectResult(ok, s) PROVE NoDelete(stack')
  <2>1. stack' \in {Push(Push(s, "Deal"), "Handler"), Push(s, "Deal")}
    BY <1>3 DEF ConnectResult
  <2> QED
    BY <1>1, <2>1
<1>4. ASSUME NEW b \in BOOLEAN, DoConnect(b, s) PROVE NoDelete(stack')
  <2>1. stack' = s \/ ConnectResult(TRUE, s)
    BY <1>4 DEF DoConnect, ConnectFinish
  <2> QED
    BY <1>3, <2>1
<1>5. ASSUME NEW b, ConnPeerClose(b, s) PROVE NoDelete(stack')
  <2>1. \/ stack' \in {s, Push(s, "Drop")}
        \/ stack' = Push(Push(Push(s, "Drop"), "Reconnect"), "CleanHistory")
    BY <1>5 DEF ConnPeerClose
  <2>2. NoDelete(Push(Push(Push(s, "Drop"), "Reconnect"), "CleanHistory"))
    BY <1>1, NoDeletePush DEF Ops
  <2> QED
    BY <1>1, <2>1, <2>2
<1>6. Close(s) => NoDelete(stack')
  <2>1. Close(s) => stack' \in {s, Push(Push(s, "Shut"), "CleanHistory")}
    BY DEF Close
  <2> QED
    BY <1>1, <2>1
<1>7. ASSUME NEW r, DoSendTo(r, s) PROVE NoDelete(stack')
  <2>1. stack' \in {s, Push(s, "Handler")}
    BY <1>7 DEF DoSendTo
  <2> QED
    BY <1>1, <2>1
<1> QED
  BY <1>2, <1>3, <1>4, <1>5, <1>6, <1>7

(* What the cleaning calls leaves the deletion at the bottom of the stack. *)
LEMMA EndingPush ==
  ASSUME NEW s \in Seq(Frames), NEW h, Ending(s, h), NEW op \in ClosingOps
  PROVE  Push(s, op) \in Seq(Frames) /\ Ending(Push(s, op), h)
<1> DEFINE t == Push(s, op)
<1>0. Frame(op) \in Frames /\ Frame(op).op = op
  BY FrameOps DEF Ops, ClosingOps
<1>1. Len(s) \in Nat \ {0} /\ Len(t) = Len(s) + 1 /\ t \in Seq(Frames)
      /\ t[Len(s) + 1].op = op /\ \A i \in 1..Len(s) : t[i] = s[i]
  BY <1>0, PushFacts DEF Push, Ending
<1> HIDE DEF t
<1>2. 1 \in 1..Len(s) /\ (Len(s) > 1 => 2 \in 1..Len(s)) /\ Len(t) > 1
  BY <1>1
<1>3. \A i \in 2..Len(t) : (i \in 1..Len(s) /\ i \in 2..Len(s)) \/ i = Len(s) + 1
  BY <1>1
<1>4. Ending(t, h)
  BY <1>1, <1>2, <1>3 DEF Ending
<1> QED
  BY <1>1, <1>4 DEF t

(* The deletion comes when the history is clean and nothing else is left. *)
LEMMA EndingTop ==
  ASSUME stack \in Seq(Frames), NEW h, Ending(stack, h)
  PROVE  /\ stack # <<>> /\ Top.op \in ClosingOps \cup {"Delete"}
         /\ Top.op = "Delete" => h = {} /\ Rest = <<>>
         /\ Top.op # "Delete" /\ (Top.op = "CleanHistory" => h = {}) =>
              Rest \in Seq(Frames) /\ Ending(Rest, h)
<1> DEFINE n == Len(stack)
           t == Rest
<1>0. stack # <<>>
  BY DEF Ending
<1>1. /\ n \in Nat \ {0} /\ Len(t) = n - 1 /\ t \in Seq(Frames)
      /\ \A i \in 1..(n - 1) : t[i] = stack[i]
      /\ Top = stack[n]
  BY <1>0, RestFacts DEF Rest, Top
<1> HIDE DEF t
<1>2. CASE n = 1
  <2>1. Top.op = "Delete" /\ h = {}
    BY <1>1, <1>2 DEF Ending
  <2>2. t = <<>>
    BY <1>1, <1>2, EmptySeq
  <2> QED
    BY <1>0, <2>1, <2>2 DEF t
<1>3. CASE n # 1
  <2>1. n \in 2..n /\ Top.op \in ClosingOps
    BY <1>1, <1>3 DEF Ending
  <2>2. ASSUME Top.op = "CleanHistory" => h = {} PROVE Ending(t, h)
    <3>1. Len(t) > 0 /\ t[1].op = "Delete"
      BY <1>1, <1>3 DEF Ending
    <3>2. \A i \in 2..Len(t) : i \in 2..n /\ t[i] = stack[i]
      BY <1>1
    <3>3. ASSUME h # {} PROVE Len(t) > 1 /\ t[2].op = "CleanHistory"
      <4>1. stack[2].op = "CleanHistory" /\ Top.op # "CleanHistory"
        BY <2>2, <3>3 DEF Ending
      <4>2. n # 2
        BY <1>1, <4>1
      <4> QED
        BY <1>1, <1>3, <4>1, <4>2
    <3> QED
      BY <3>1, <3>2, <3>3 DEF Ending
  <2>3. Top.op # "Delete"
    BY <2>1 DEF ClosingOps
  <2> QED
    BY <1>0, <1>1, <2>1, <2>2, <2>3 DEF t
<1> QED
  BY <1>2, <1>3

(* Cleaning more of the history does no harm. *)
LEMMA EndingLess ==
  ASSUME NEW s, NEW h, NEW h2 \in SUBSET h, Ending(s, h)
  PROVE  Ending(s, h2)
BY DEF Ending

(* The business code cannot reach a session that is being deleted. *)
LEMMA UserEnd ==
  ASSUME EndInv, User
  PROVE  EndInv'
<1>0. TypeOK' /\ stack \in Seq(Frames) /\ reconn \in BOOLEAN
  BY UserType DEF EndInv, TypeOK
<1>1. alive /\ alive' = alive /\ (stack = <<>> \/ Top.op = "Handler")
  BY DEF User, UserConnect, UserSendTo, UserCall, UserClose, MayCall, sessVars
<1>2. NoDelete(stack)
  BY <1>0, <1>1, EndingTop, FrameOps DEF EndInv, ClosingOps
<1>3. ASSUME NEW r \in Request
      PROVE  Append(stack, FrameOf("SendTo", r)) \in Seq(Frames)
             /\ NoDelete(Append(stack, FrameOf("SendTo", r)))
  BY <1>0, <1>2, FrameOps, NoDeleteAppend
<1>4. NoDelete(stack')
  <2>1. CASE UserConnect
    BY <1>0, <1>2, <2>1, NoDeleteCalls DEF UserConnect
  <2>2. ASSUME NEW r \in Request, UserSendTo(r) PROVE NoDelete(stack')
    BY <1>0, <1>2, <2>2, NoDeleteCalls DEF UserSendTo
  <2>3. ASSUME NEW r \in Request, UserCall(r) PROVE NoDelete(stack')
    BY <1>0, <1>3, <2>3, NoDeleteCalls DEF UserCall
  <2>4. CASE UserClose
    BY <1>0, <1>2, <2>4, NoDeleteCalls DEF UserClose
  <2> QED
    BY <2>1, <2>2, <2>3, <2>4 DEF User
<1> QED
  BY <1>0, <1>1, <1>4 DEF EndInv

(* The rest of a task, the deletion included. *)
LEMMA ContinueEnd ==
  ASSUME EndInv, Continue
  PROVE  EndInv'
<1>0. TypeOK /\ TypeOK' /\ stack \in Seq(Frames) /\ stack # <<>>
  BY ContinueType DEF EndInv, TypeOK, Continue, HandlerReturn, SendStep, CleanHistory,
     CleanWaiting, DealWaitingList,
     ReconnectLater, DropConnection, ShutConnection, EraseEntry, ReadOn, DeleteSession, Running
<1>a. ~alive => Top.op = "Drop"
  BY <1>0, RestFacts DEF EndInv, Ended, Top
<1>n. ASSUME NoDelete(stack) PROVE Rest \in Seq(Frames) /\ NoDelete(Rest)
             /\ NoDelete(Notify(stack))
  BY <1>0, <1>n, NoDeleteRest, NoDeleteCalls
<1>1. ASSUME Top.op \notin ClosingOps \cup {"Delete"} PROVE alive /\ NoDelete(stack)
  BY <1>0, <1>1, <1>a, EndingTop DEF EndInv, ClosingOps
<1>2. CASE HandlerReturn \/ EraseEntry \/ ReadOn
  <2>1. Top.op \in {"Handler", "Erase", "ReadOn"} /\ stack' = Rest /\ alive' = alive
    BY <1>2 DEF HandlerReturn, EraseEntry, ReadOn, Running, sessVars
  <2> QED
    BY <1>0, <1>1, <1>n, <2>1 DEF EndInv, ClosingOps
<1>3. CASE SendStep
  <2>1. Top.op = "SendTo" /\ DoSendTo(Top.req, Rest) /\ alive' = alive
    BY <1>3 DEF SendStep, Running, sessVars
  <2>2. NoDelete(stack')
    BY <1>1, <1>n, <2>1, NoDeleteCalls DEF ClosingOps
  <2> QED
    BY <1>0, <1>1, <2>1, <2>2 DEF EndInv, ClosingOps
<1>4. CASE CleanHistory
  <2>1. Top.op = "CleanHistory" /\ UNCHANGED <<alive, owner, linked>>
    BY <1>4 DEF CleanHistory, Running, sessVars, connVars
  <2>2. alive
    BY <1>a, <2>1
  <2>3. CASE Hist = {} /\ stack' = Push(Rest, "CleanWaiting") /\ UNCHANGED reqVars
    <3>1. Hist' = {}
      BY <2>3 DEF Hist, reqVars
    <3>2. CASE NoDelete(stack)
      <4>1. NoDelete(stack')
        BY <1>n, <2>3, <3>2, NoDeletePush DEF Ops
      <4> QED
        BY <1>0, <2>1, <2>2, <4>1 DEF EndInv
    <3>3. CASE Ending(stack, Hist) /\ ~owner /\ ~linked
      <4>1. Rest \in Seq(Frames) /\ Ending(Rest, Hist)
        BY <1>0, <2>1, <2>3, <3>3, EndingTop
      <4>2. Ending(stack', Hist)
        BY <2>3, <4>1, EndingPush DEF ClosingOps
      <4> QED
        BY <1>0, <2>1, <2>2, <2>3, <3>1, <3>3, <4>2 DEF EndInv
    <3> QED
      BY <3>2, <3>3 DEF EndInv
  <2>4. ASSUME NEW r \in Hist, Forget(r), stack' = Notify(stack) PROVE EndInv'
    <3>1. Hist' = Hist \ {r}
      BY <1>0, <2>4, HistFacts DEF Hist
    <3>2. CASE NoDelete(stack)
      BY <1>0, <1>n, <2>1, <2>2, <2>4, <3>2 DEF EndInv
    <3>3. CASE Ending(stack, Hist) /\ ~owner /\ ~linked
      <4>1. stack' = stack
        BY <2>4, <3>3 DEF Notify
      <4>2. Ending(stack, Hist')
        BY <3>1, <3>3, EndingLess
      <4> QED
        BY <1>0, <2>1, <2>2, <3>3, <4>1, <4>2 DEF EndInv
    <3> QED
      BY <3>2, <3>3 DEF EndInv
  <2> QED
    BY <1>4, <2>3, <2>4 DEF CleanHistory
<1>5. CASE CleanWaiting
  <2>1. Top.op = "CleanWaiting" /\ UNCHANGED <<alive, owner, linked, ticket>>
        /\ stack' \in {Rest, Notify(stack)}
    BY <1>5 DEF CleanWaiting, Running, sessVars, connVars, reqVars
  <2>2. alive /\ Hist' = Hist
    BY <1>a, <2>1 DEF Hist
  <2>3. CASE NoDelete(stack)
    BY <1>0, <1>n, <2>1, <2>2, <2>3 DEF EndInv
  <2>4. CASE Ending(stack, Hist) /\ ~owner /\ ~linked
    <3>1. Ending(Rest, Hist) /\ Notify(stack) = stack
      BY <1>0, <2>1, <2>4, EndingTop DEF Notify
    <3> QED
      BY <1>0, <2>1, <2>2, <2>4, <3>1 DEF EndInv
  <2> QED
    BY <2>3, <2>4 DEF EndInv
<1>6. CASE DealWaitingList
  <2>1. Top.op = "Deal" /\ alive' = alive /\ stack' \in {Rest, stack, Notify(stack)}
    BY <1>6 DEF DealWaitingList, Running, sessVars
  <2> QED
    BY <1>0, <1>1, <1>n, <2>1 DEF EndInv, ClosingOps
<1>7. CASE ReconnectLater
  <2>1. Top.op = "Reconnect" /\ alive' = alive /\ stack' \in {Rest, Notify(Rest)}
    BY <1>7 DEF ReconnectLater, Running
  <2>2. NoDelete(stack')
    BY <1>1, <1>n, <2>1, NoDeleteCalls DEF ClosingOps
  <2> QED
    BY <1>0, <1>1, <2>1, <2>2 DEF EndInv, ClosingOps
<1>8. CASE DropConnection
  <2>1. Top.op = "Drop" /\ stack' = Rest /\ linked' = FALSE
        /\ UNCHANGED <<owner, alive, reconn, hbTimer, ticket>>
    BY <1>8 DEF DropConnection, Running, sessVars, reqVars
  <2>2. Hist' = Hist
    BY <2>1 DEF Hist
  <2>3. NoDelete(stack') \/ (Ending(stack', Hist') /\ ~owner' /\ ~linked')
    BY <1>0, <1>n, <2>1, <2>2, EndingTop DEF EndInv
  <2>4. ASSUME ~alive PROVE Ended'
    <3>1. \A i \in 1..Len(stack) : stack[i].op = "Drop"
      BY <2>4 DEF EndInv, Ended
    <3>2. \A i \in 1..Len(Rest) : i \in 1..Len(stack) /\ Rest[i] = stack[i]
      BY <1>0, RestFacts DEF Rest
    <3> QED
      BY <2>1, <2>2, <2>4, <3>1, <3>2 DEF EndInv, Ended
  <2> QED
    BY <1>0, <2>1, <2>3, <2>4 DEF EndInv
<1>9. CASE ShutConnection
  <2>1. Top.op = "Shut" /\ ConnPeerClose(connected, Rest)
        /\ UNCHANGED <<alive, owner, linked, ticket>>
    BY <1>9 DEF ShutConnection, Running, reqVars
  <2>2. alive /\ Hist' = Hist
    BY <1>a, <2>1 DEF Hist
  <2>3. CASE NoDelete(stack)
    <3>1. NoDelete(stack')
      BY <1>n, <2>1, <2>3, NoDeleteCalls
    <3> QED
      BY <1>0, <2>1, <2>2, <3>1 DEF EndInv
  <2>4. CASE Ending(stack, Hist) /\ ~owner /\ ~linked
    <3>1. Rest \in Seq(Frames) /\ Ending(Rest, Hist)
      BY <1>0, <2>1, <2>4, EndingTop
    <3>2. stack' \in {Rest, Push(Rest, "Drop")}
      BY <2>1, <2>4 DEF ConnPeerClose
    <3>3. Ending(stack', Hist)
      BY <3>1, <3>2, EndingPush DEF ClosingOps
    <3> QED
      BY <1>0, <2>1, <2>2, <2>4, <3>3 DEF EndInv
  <2> QED
    BY <2>3, <2>4 DEF EndInv
<1>10. CASE DeleteSession
  <2>1. /\ Top.op = "Delete" /\ stack' = Rest /\ alive' = FALSE /\ reconn' = FALSE
           /\ hbTimer' = FALSE
        /\ UNCHANGED <<owner, linked, ticket>>
    BY <1>10 DEF DeleteSession, Running, reqVars, connVars
  <2>2. Len(stack) \in 1..Len(stack) /\ Top = stack[Len(stack)]
    BY <1>0, RestFacts DEF Top
  <2>3. ~NoDelete(stack)
    BY <2>1, <2>2 DEF NoDelete
  <2>4. Hist = {} /\ stack' = <<>> /\ ~linked
    BY <1>0, <2>1, <2>3, EndingTop DEF EndInv
  <2>5. Hist' = {} /\ NoDelete(stack')
    BY <2>1, <2>4, FrameOps DEF Hist
  <2> QED
    BY <1>0, <2>1, <2>4, <2>5 DEF EndInv, Ended
<1> QED
  BY <1>2, <1>3, <1>4, <1>5, <1>6, <1>7, <1>8, <1>9, <1>10 DEF Continue

(* Completed operations of a connection that may have outlived its session. *)
LEMMA NetworkEnd ==
  ASSUME EndInv, Network
  PROVE  EndInv'
<1>0. TypeOK' /\ stack = <<>> /\ UNCHANGED alive
  BY NetworkType DEF EndInv, Network, HandleDial, HandleDialNext, ConnTimerExpires,
     HandleConnectTimeout,
         ReadCompletes, HandleRead, HandleReadError, HandleWrite, sessVars, Idle
<1>e. <<>> \in Seq(Frames) /\ NoDelete(<<>>) /\ Len(<<>>) = 0
  BY FrameOps
<1>l. linked' = linked
  BY DEF Network, HandleDial, HandleDialNext, ConnTimerExpires, HandleConnectTimeout,
         ReadCompletes, HandleRead, HandleReadError, HandleWrite, connVars
<1>1. NoDelete(stack')
  <2>1. CASE HandleDial
    BY <1>e, <2>1, NoDeleteCalls DEF HandleDial, ConnectFinish
  <2>2. CASE HandleDialNext \/ ConnTimerExpires \/ ReadCompletes
    BY <1>0, <1>e, <2>2 DEF HandleDialNext, ConnTimerExpires, ReadCompletes
  <2>3. CASE HandleConnectTimeout
    BY <1>0, <1>e, <2>3, NoDeleteCalls DEF HandleConnectTimeout
  <2>4. CASE HandleRead
    <3>1. \/ ConnPeerClose(TRUE, <<>>)
          \/ stack' = <<Frame("ReadOn")>>
          \/ stack' = Notify(<<Frame("ReadOn")>>)
      BY <2>4 DEF HandleRead, OnReadResponse, OnReadHeartbeat
    <3> DEFINE t == <<Frame("ReadOn")>>
    <3>2. t \in Seq(Frames) /\ NoDelete(t)
      BY FrameOps DEF Ops
    <3> HIDE DEF t
    <3>3. NoDelete(Notify(t))
      BY <3>2, NoDeleteCalls
    <3> QED
      BY <1>e, <3>1, <3>2, <3>3, NoDeleteCalls DEF t
  <2>5. CASE HandleReadError
    BY <1>e, <2>5, NoDeleteCalls DEF HandleReadError
  <2>6. CASE HandleWrite
    BY <1>0, <1>e, <2>6, NoDeleteCalls DEF HandleWrite
  <2> QED
    BY <2>1, <2>2, <2>3, <2>4, <2>5, <2>6 DEF Network
<1>2. ASSUME ~alive PROVE Ended'
  <2>0. ~linked /\ ~reconn /\ ~hbTimer /\ Hist = {}
    BY <1>2 DEF EndInv, Ended
  <2>1. UNCHANGED <<reconn, hbTimer, ticket>> /\ stack' \in {<<>>, Push(<<>>, "Drop")}
    <3>1. CASE HandleDial
      BY <2>0, <3>1 DEF HandleDial, ConnectFinish, reqVars
    <3>2. CASE HandleDialNext \/ ConnTimerExpires \/ ReadCompletes
      BY <1>0, <3>2 DEF HandleDialNext, ConnTimerExpires, ReadCompletes, sessVars, reqVars
    <3>3. CASE HandleConnectTimeout
      BY <1>0, <2>0, <3>3 DEF HandleConnectTimeout, reqVars
    <3>4. CASE HandleRead
      BY <2>0, <3>4 DEF HandleRead, ConnPeerClose, reqVars
    <3>5. CASE HandleReadError
      BY <2>0, <3>5 DEF HandleReadError, ConnPeerClose, reqVars
    <3>6. CASE HandleWrite
      BY <1>0, <2>0, <3>6 DEF HandleWrite, ConnPeerClose, reqVars
    <3> QED
      BY <3>1, <3>2, <3>3, <3>4, <3>5, <3>6 DEF Network
  <2>2. Hist' = Hist
    BY <2>1 DEF Hist
  <2>3. \A i \in 1..Len(stack') : stack'[i].op = "Drop"
    <3>1. Frame("Drop").op = "Drop"
      BY DEF Frame
    <3>2. Push(<<>>, "Drop") = <<Frame("Drop")>>
      BY DEF Push
    <3> QED
      BY <2>1, <3>1, <3>2
  <2> QED
    BY <1>l, <2>0, <2>1, <2>2, <2>3 DEF Ended
<1> QED
  BY <1>0, <1>1, <1>2 DEF EndInv

(* The timers and the container's check find the session alive. *)
LEMMA TimerEnd ==
  ASSUME EndInv, TimersMatch, Timer
  PROVE  EndInv'
<1>0. TypeOK' /\ stack = <<>> /\ alive' = alive
  BY TimerType DEF EndInv, Timer, RequestTimer, ReconnectTimer, DoHeartBeat, CheckSession,
     Crash, sessVars, Idle
<1>e. <<>> \in Seq(Frames) /\ NoDelete(<<>>) /\ Len(<<>>) = 0
  BY FrameOps
<1>a. alive
  BY DEF Timer, RequestTimer, ReconnectTimer, DoHeartBeat, CheckSession, EndInv, Ended,
     TimersMatch
<1>q. ASSUME NoDelete(stack') PROVE EndInv'
  BY <1>0, <1>a, <1>q DEF EndInv
<1>1. ASSUME NEW r \in Request, RequestTimer(r) PROVE EndInv'
  <2>1. stack' = stack \/ \E e \in Request : stack' = Notify(<<FrameOf("Erase", e)>>)
    BY <1>1 DEF RequestTimer, Crash, Hist
  <2>2. ASSUME NEW e \in Request PROVE NoDelete(Notify(<<FrameOf("Erase", e)>>))
    <3> DEFINE t == <<FrameOf("Erase", e)>>
    <3>1. t \in Seq(Frames) /\ NoDelete(t)
      BY FrameOps
    <3> HIDE DEF t
    <3>2. NoDelete(Notify(t))
      BY <3>1, NoDeleteCalls
    <3> QED
      BY <3>2 DEF t
  <2> QED
    BY <1>0, <1>e, <1>q, <2>1, <2>2
<1>2. CASE ReconnectTimer
  BY <1>e, <1>q, <1>2, NoDeleteCalls DEF ReconnectTimer
<1>3. CASE DoHeartBeat
  BY <1>0, <1>e, <1>q, <1>3 DEF DoHeartBeat
<1>4. CASE CheckSession
  <2> DEFINE t == <<Frame("Delete"), Frame("CleanHistory")>>
  <2>1. CASE stack' = stack
    BY <1>0, <1>e, <1>q, <2>1
  <2>2. CASE Close(t)
    <3>1. /\ t \in Seq(Frames) /\ Len(t) = 2 /\ t[1].op = "Delete" /\ t[2].op = "CleanHistory"
      BY FrameOps DEF Ops
    <3> HIDE DEF t
    <3>2. \A h : Ending(t, h)
      BY <3>1 DEF Ending, ClosingOps
    <3>3. Push(t, "Shut") \in Seq(Frames) /\ \A h : Ending(Push(t, "Shut"), h)
      BY <3>1, <3>2, EndingPush DEF ClosingOps
    <3>4. \A h : Ending(Push(Push(t, "Shut"), "CleanHistory"), h)
      BY <3>3, EndingPush DEF ClosingOps
    <3>5. stack' \in {t, Push(Push(t, "Shut"), "CleanHistory")} /\ owner' = FALSE
          /\ linked' = FALSE
      BY <2>2 DEF Close
    <3> QED
      BY <1>0, <1>a, <3>2, <3>4, <3>5 DEF EndInv
  <2> QED
    BY <1>4, <2>1, <2>2 DEF CheckSession
<1> QED
  BY <1>1, <1>2, <1>3, <1>4 DEF Timer

(* With disciplined callers, a deleted session is not reachable from its connection,
   from a request's timer or from its own. *)
THEOREM NoneDangling ==
  ASSUME Disciplined
  PROVE  Spec => []NoDanglingSession
<1>1. Init => EndInv
  BY InitType, FrameOps DEF Init, EndInv
<1>2. EndInv /\ TimersMatch /\ [Next]_vars => EndInv'
  <2>1. ASSUME EndInv, UNCHANGED vars PROVE EndInv'
    <3>1. TypeOK'
      BY <2>1 DEF EndInv, TypeOK, vars, sessVars, reqVars, writeVars, connVars
    <3>2. UNCHANGED <<stack, alive, owner, linked, reconn, hbTimer, ticket>>
      BY <2>1 DEF vars, sessVars, reqVars, connVars
    <3>3. Hist' = Hist
      BY <3>2 DEF Hist
    <3> QED
      BY <2>1, <3>1, <3>2, <3>3 DEF EndInv, Ended
  <2> QED
    BY <2>1, UserEnd, ContinueEnd, NetworkEnd, TimerEnd DEF Next
<1>3. EndInv /\ TimersMatch => NoDanglingSession
  BY DEF EndInv, Ended, TimersMatch, NoDanglingSession
<1> QED
  BY <1>1, <1>2, <1>3, TimersAreThoseOfHistory, PTL DEF Spec

-----------------------------------------------------------------------------
(* A session used by a disciplined caller implements RequestService. *)

(* A session nobody may close or expire always has an owner. *)
Kept == ~Short /\ "Close" \notin Posted \cup Nested => owner

(* Nothing but Close takes the owner away. *)
LEMMA KeptInvariant == Spec => []Kept
<1>1. Init => Kept
  BY DEF Init, Kept
<1>2. Kept /\ [Next]_vars => Kept'
  <2> SUFFICES ASSUME Kept, [Next]_vars PROVE Kept'
    OBVIOUS
  <2> USE DEF Kept
  <2>1. CASE UNCHANGED vars
    BY <2>1 DEF vars, sessVars
  <2>2. CASE User
    BY <2>2 DEF User, UserConnect, UserSendTo, UserCall, UserClose, MayCall, sessVars
  <2>3. CASE Continue
    BY <2>3 DEF Continue, HandlerReturn, SendStep, CleanHistory, CleanWaiting,
                DealWaitingList, ReconnectLater, DropConnection, ShutConnection,
                EraseEntry, ReadOn, DeleteSession, sessVars
  <2>4. CASE Network
    BY <2>4 DEF Network, HandleDial, HandleDialNext, ConnTimerExpires,
                HandleConnectTimeout, ReadCompletes, HandleRead, HandleReadError,
                HandleWrite, sessVars
  <2>5. CASE Timer
    BY <2>5 DEF Timer, RequestTimer, Crash, ReconnectTimer, DoHeartBeat, CheckSession, sessVars
  <2> QED
    BY <2>1, <2>2, <2>3, <2>4, <2>5 DEF Next
<1> QED
  BY <1>1, <1>2, PTL DEF Spec

(* The requests the session holds are those whose fate is open. *)
HeldOpen == Held = {r \in Request : fate[r] = "pending"}

(* What the session holds is what its caller is waiting for. *)
LEMMA HeldIsPending ==
  ASSUME IInv
  PROVE  HeldOpen
BY InStackFacts, PlacesType DEF IInv, Placed, Held, HeldOpen

Lost == Short \/ "Close" \in Posted \cup Nested

(* What a step may do to the fate of requests: nothing, or to one request what
   the service does. *)
FateStep ==
  \/ fate' = fate
  \/ \E r \in Request, o \in Fates :
       /\ fate' = [fate EXCEPT ![r] = o]
       /\ \/ fate[r] = "unsent" /\ o \in {"pending", "closed"}
          \/ fate[r] = "pending" /\ o \in {"pending", "answered", "timeout", "closed"}
          \/ fate[r] = "pending" /\ o = "freed" /\ Lost

(* A delivery settles an open request; it is lost only without an owner. *)
LEMMA DeliverStep ==
  ASSUME Kept, NEW r \in Request, NEW o \in {"answered", "timeout", "closed"},
         fate[r] = "pending", Deliver(r, o)
  PROVE  FateStep
<1>1. CASE owner
  BY <1>1 DEF Deliver, FateStep, Fates
<1>2. CASE ~owner
  <2>1. Lost
    BY <1>2 DEF Kept, Lost
  <2> QED
    BY <1>2, <2>1 DEF Deliver, FateStep, Fates
<1> QED
  BY <1>1, <1>2

(* Every step of the session does to the requests what the service allows. *)
LEMMA EveryFateStep ==
  ASSUME Disciplined, IInv, IInv', Kept, Next
  PROVE  FateStep
<1> USE DEF IInv
<1>f. fate \in [Request -> Fates] /\ ~crashed'
  BY DEF TypeOK
<1>d. ASSUME NEW r \in Request, NEW s, DoSendTo(r, s), fate[r] \in {"unsent", "pending"}
      PROVE  FateStep
  BY <1>d DEF DoSendTo, FateStep, Fates
<1>1. CASE UserConnect
  BY <1>1 DEF UserConnect, reqVars, FateStep
<1>2. ASSUME NEW r \in Request, UserSendTo(r) PROVE FateStep
  BY <1>d, <1>2 DEF UserSendTo
<1>3. ASSUME NEW r \in Request, UserCall(r) PROVE FateStep
  BY <1>3 DEF UserCall, FateStep, Fates
<1>4. CASE UserClose
  BY <1>4 DEF UserClose, reqVars, FateStep
<1>5. CASE SendStep
  <2>1. Top.req \in Sending(stack)
    BY <1>5, RestKeeps DEF SendStep, Running, TypeOK
  <2>2. Top.req \in Request /\ fate[Top.req] = "pending"
    BY <2>1, PlacesType DEF Placed
  <2> QED
    BY <1>d, <1>5, <2>2 DEF SendStep
<1>6. CASE CleanHistory
  <2>1. ASSUME NEW r \in Hist, Deliver(r, "closed"), crashed' = (fate[r] # "pending")
        PROVE  FateStep
    BY <1>f, <2>1, DeliverStep, PlacesType
  <2> QED
    BY <1>6, <2>1 DEF CleanHistory, reqVars, FateStep
<1>7. CASE CleanWaiting
  <2>1. CASE waitinglist = <<>>
    BY <1>7, <2>1 DEF CleanWaiting, reqVars, FateStep
  <2>2. CASE waitinglist # <<>>
    BY <1>7, <1>f, <2>2, DeliverStep, WaitingType DEF CleanWaiting
  <2> QED
    BY <2>1, <2>2
<1>8. CASE DealWaitingList
  <2>1. CASE waitinglist = <<>> \/ status = "CONNECTED"
    BY <1>8, <2>1 DEF DealWaitingList, reqVars, FateStep
  <2>2. CASE waitinglist # <<>> /\ status # "CONNECTED"
    BY <1>8, <1>f, <2>2, DeliverStep, WaitingType DEF DealWaitingList
  <2> QED
    BY <2>1, <2>2
<1>9. CASE HandleRead
  <2>1. CASE linked /\ arrived.kind = "response"
    <3>1. OnReadResponse
      BY <1>9, <2>1 DEF HandleRead
    <3>2. arrived.req \in Request
      BY <2>1, MessageType DEF TypeOK
    <3>3. ASSUME NEW r \in Hist, IsFound(SeqOf[arrived.req], r),
                 crashed' = (fate[r] # "pending"),
                 Deliver(r, IF r = arrived.req THEN "answered" ELSE "misanswered")
          PROVE  FateStep
      <4>1. r = arrived.req
        BY <3>2, <3>3, PlacesType DEF IsFound, Disciplined
      <4>2. Deliver(r, "answered") /\ fate[r] = "pending"
        BY <1>f, <3>3, <4>1
      <4> QED
        BY <4>2, DeliverStep, PlacesType
    <3> QED
      BY <3>1, <3>3 DEF OnReadResponse, FateStep
  <2>2. CASE ~(linked /\ arrived.kind = "response")
    BY <1>9, <2>2 DEF HandleRead, OnReadHeartbeat, reqVars, FateStep
  <2> QED
    BY <2>1, <2>2
<1>10. ASSUME NEW r \in Request, RequestTimer(r) PROVE FateStep
  <2>1. r \in Hist
    BY <1>10 DEF RequestTimer, Placed
  <2> QED
    BY <1>10, <1>f, <2>1, DeliverStep DEF RequestTimer
<1>11. CASE \/ HandlerReturn \/ ReconnectLater \/ DropConnection \/ ShutConnection
            \/ EraseEntry \/ ReadOn \/ DeleteSession
  BY <1>11 DEF HandlerReturn, ReconnectLater, DropConnection, ShutConnection, EraseEntry,
               ReadOn, DeleteSession, reqVars, FateStep
<1>12. CASE \/ HandleDial \/ HandleDialNext \/ ConnTimerExpires \/ HandleConnectTimeout
            \/ ReadCompletes \/ HandleReadError \/ HandleWrite
  BY <1>12 DEF HandleDial, HandleDialNext, ConnTimerExpires, HandleConnectTimeout,
               ReadCompletes, HandleReadError, HandleWrite, reqVars, FateStep
<1>13. CASE ReconnectTimer \/ DoHeartBeat \/ CheckSession
  BY <1>13 DEF ReconnectTimer, DoHeartBeat, CheckSession, reqVars, FateStep
<1> QED
  BY <1>1, <1>2, <1>3, <1>4, <1>5, <1>6, <1>7, <1>8, <1>9, <1>10, <1>11, <1>12, <1>13
     DEF Next, User, Continue, Network, Timer

(* The session implements the service its callers are promised: each request is
   settled once, by its answer, a timeout or a close, and is lost only where the
   session may be closed or expired under it. *)
THEOREM SessionImplementsService ==
  ASSUME Disciplined
  PROVE  Spec => ImplementsService
<1> DEFINE outcome == [r \in Request |-> IF fate[r] \in {"unsent", "pending"}
                                         THEN "none" ELSE fate[r]]
<1>1. Init /\ IInv => Service!Init
  <2> SUFFICES ASSUME Init, IInv PROVE Service!Init
    OBVIOUS
  <2>1. \A r \in Request : fate[r] = "unsent"
    BY DEF Init
  <2>2. Held = {}
    BY <2>1, HeldIsPending DEF HeldOpen
  <2> QED
    BY <2>1, <2>2 DEF Service!Init
<1>h. IInv => HeldOpen
  BY HeldIsPending
<1>2. IInv /\ IInv' /\ HeldOpen /\ HeldOpen' /\ Kept /\ [Next]_vars
        => [Service!Next]_(Service!vars)
  <2> SUFFICES ASSUME IInv, IInv', HeldOpen, HeldOpen', Kept, [Next]_vars
               PROVE  [Service!Next]_(Service!vars)
    OBVIOUS
  <2> USE DEF Service!vars
  <2>f. /\ fate \in [Request -> Fates]
        /\ Held = {r \in Request : fate[r] = "pending"}
        /\ Held' = {r \in Request : fate'[r] = "pending"}
    BY DEF HeldOpen, IInv, TypeOK
  <2>1. CASE fate' = fate
    BY <2>f, <2>1
  <2>2. ASSUME NEW r \in Request, NEW o \in Fates, fate' = [fate EXCEPT ![r] = o],
               \/ fate[r] = "unsent" /\ o \in {"pending", "closed"}
               \/ fate[r] = "pending" /\ o \in {"pending", "answered", "timeout", "closed"}
               \/ fate[r] = "pending" /\ o = "freed" /\ Lost
        PROVE  [Service!Next]_(Service!vars)
    <3>0. /\ \A q \in Request \ {r} : fate'[q] = fate[q]
          /\ fate'[r] = o
      BY <2>f, <2>2
    <3>1. CASE fate[r] = "unsent" /\ o = "pending"
      <4>1. Held' = Held \cup {r} /\ r \notin Held
        BY <2>f, <3>0, <3>1
      <4>2. outcome' = outcome /\ outcome[r] = "none"
        BY <3>0, <3>1
      <4> QED
        BY <4>1, <4>2 DEF Service!Next, Service!Accept
    <3>2. CASE fate[r] = "unsent" /\ o = "closed"
      <4>1. Held' = Held /\ r \notin Held
        BY <2>f, <3>0, <3>2
      <4>2. outcome' = [outcome EXCEPT ![r] = "closed"] /\ outcome[r] = "none"
        BY <3>0, <3>2
      <4> QED
        BY <4>1, <4>2 DEF Service!Next, Service!Refuse
    <3>3. CASE fate[r] = "pending" /\ o = "pending"
      <4>1. Held' = Held /\ outcome' = outcome
        BY <2>f, <3>0, <3>3
      <4> QED
        BY <4>1
    <3>4. CASE /\ fate[r] = "pending"
               /\ o \in {"answered", "timeout", "closed"} \/ (o = "freed" /\ Lost)
      <4>1. Held' = Held \ {r} /\ r \in Held
        BY <2>f, <3>0, <3>4
      <4>2. outcome' = [outcome EXCEPT ![r] = o]
        BY <3>0, <3>4
      <4>3. o \in Service!Outcomes
        BY <3>4 DEF Service!Outcomes, Lost
      <4> QED
        BY <4>1, <4>2, <4>3 DEF Service!Next, Service!Settle
    <3> QED
      BY <2>2, <3>1, <3>2, <3>3, <3>4
  <2>3. CASE Next
    BY <2>1, <2>2, <2>3, EveryFateStep DEF FateStep
  <2>4. CASE UNCHANGED vars
    BY <2>1, <2>4 DEF vars, reqVars
  <2> QED
    BY <2>3, <2>4
<1> QED
  BY <1>1, <1>2, <1>h, Inductive, KeptInvariant, PTL DEF Spec, ImplementsService, Service!Spec
=============================================================================
