-------------------------------- MODULE Coh --------------------------------
(***************************************************************************)
(* The coh thread of the HTTP example: a singleton that is the handler of  *)
(* a thread holder of its own, answers commands, and is called by the      *)
(* thread of main() to report errors and actions to a monitor. Nothing     *)
(* guards service_, which main() reads and the thread sets.                *)
(***************************************************************************)
EXTENDS Naturals, SequencesExt

CONSTANTS MaxReports, MaxCommands  \* bounds

CohAssumption == MaxReports \in Nat /\ MaxCommands \in Nat

VARIABLES
  main,      \* the thread of main(): where it is in run()
  instance,  \* sm_instance_: "none", "live", "deleted"
  service,   \* service_ is set
  io,        \* the thread of holder_: "none", "running", "joined"
  queue,     \* what is posted to it
  listening, \* the server of holder_ accepts
  status,    \* of the session to the monitor, per kind of report
  reports,   \* the kind of each report
  state,     \* of each: "connecting" between its two posts, "posted", "waiting", "sent"; "leaked", "deleted"
  commands,  \* commands that were answered
  unknown    \* history: reports whose session was not found

own == <<main, instance, io, listening>>
vars == <<own, service, queue, status, reports, state, commands, unknown>>

Kinds == {"error", "action"}
autoreconnect(kind) == kind = "error"
Report == DOMAIN reports
Of(kind, states) == {r \in Report : reports[r] = kind /\ state[r] \in states}
Set(S, to) == state' = [r \in Report |-> IF r \in S THEN to ELSE state[r]]

Init ==
  /\ main = "config" /\ instance = "none" /\ service = FALSE /\ io = "none" /\ queue = <<>>
  /\ listening = FALSE /\ status = [kind \in Kinds |-> "none"]
  /\ reports = <<>> /\ state = <<>> /\ commands = 0 /\ unknown = {}

-----------------------------------------------------------------------------
(* The thread of main(). *)

Main(from, to) == main = from /\ main' = to
Rest == <<service, status, reports, state, commands, unknown>>

(* The configuration or an address is bad: run() returns, and the process ends with
   what threads it has. *)
Fails ==
  /\ main \in {"config", "start", "serve"} /\ main' = "end"
  /\ UNCHANGED <<Rest, instance, io, listening, queue>>

Configure == Main("config", "start") /\ UNCHANGED <<Rest, instance, io, listening, queue>>

StartCoh ==
  /\ Main("start", "serve")
  /\ instance' = "live" /\ io' = "running" /\ queue' = <<[op |-> "start"]>>
  /\ UNCHANGED <<Rest, listening>>

StartServer ==
  /\ Main("serve", "loop") /\ listening' = TRUE
  /\ UNCHANGED <<Rest, instance, io, queue>>

(* The message is made in any case. *)
ReportLeaks(kind) ==
  /\ main = "loop" /\ Len(reports) < MaxReports /\ ~service
  /\ reports' = Append(reports, kind) /\ state' = Append(state, "leaked")
  /\ UNCHANGED <<own, service, queue, status, commands, unknown>>

ReportConnect(kind) ==
  /\ Main("loop", "report") /\ Len(reports) < MaxReports /\ service
  /\ reports' = Append(reports, kind) /\ state' = Append(state, "connecting")
  /\ queue' = Append(queue, [op |-> "connect", r |-> Len(reports) + 1])
  /\ UNCHANGED <<instance, service, io, listening, status, commands, unknown>>

ReportSend ==
  /\ Main("report", "loop")
  /\ LET r == Len(reports)
     IN  state' = [state EXCEPT ![r] = "posted"] /\ queue' = Append(queue, [op |-> "send", r |-> r])
  /\ UNCHANGED <<instance, service, io, listening, status, reports, commands, unknown>>

Quit == Main("loop", "stop") /\ listening' = FALSE /\ UNCHANGED <<Rest, instance, io, queue>>

(* The manager of the thread is deleted, which releases the instance: that does nothing.
   run() of the thread ends when nothing is posted and no connection is open or dialled. *)
Join ==
  /\ Main("stop", "delete") /\ queue = <<>>
  /\ \A kind \in Kinds : status[kind] \notin {"dialling", "connected"}
  /\ io' = "joined" /\ UNCHANGED <<Rest, instance, listening, queue>>

Delete == Main("delete", "end") /\ instance' = "deleted" /\ UNCHANGED <<Rest, io, listening, queue>>

-----------------------------------------------------------------------------
(* The thread of holder_; it is gone when the process ends. *)

Runs(op) == io = "running" /\ main # "end" /\ queue # <<>> /\ Head(queue).op = op /\ queue' = Tail(queue)
Loop == io = "running" /\ main # "end" /\ UNCHANGED queue

StartInThread ==
  /\ Runs("start") /\ service' = TRUE
  /\ UNCHANGED <<own, status, reports, state, commands, unknown>>

DoConnect ==
  /\ Runs("connect")
  /\ LET kind == reports[Head(queue).r]
     IN  status' = [status EXCEPT ![kind] = IF @ \in {"connected", "dialling", "lost"} THEN @ ELSE "dialling"]
  /\ UNCHANGED <<own, service, reports, state, commands, unknown>>

(* Without a session the message goes to OnEvent as a reply, which deletes it. *)
DoSendTo ==
  /\ Runs("send")
  /\ LET r == Head(queue).r
         s == status[reports[r]]
     IN  /\ state' = [state EXCEPT ![r] = IF s = "none" THEN "deleted"
                                          ELSE IF s = "connected" THEN "sent" ELSE "waiting"]
         /\ unknown' = IF s = "none" THEN unknown \union {r} ELSE unknown
  /\ UNCHANGED <<own, service, status, reports, commands>>

Dialled(kind) ==
  /\ Loop /\ status[kind] = "dialling"
  /\ status' = [status EXCEPT ![kind] = "connected"]
  /\ Set(Of(kind, {"waiting"}), "sent")
  /\ UNCHANGED <<own, service, reports, commands, unknown>>

(* The status stays "connecting", and no later call of DoConnect dials. *)
DialFails(kind) ==
  /\ Loop /\ status[kind] = "dialling"
  /\ status' = [status EXCEPT ![kind] = "lost"]
  /\ Set(Of(kind, {"waiting"}), "deleted")
  /\ UNCHANGED <<own, service, reports, commands, unknown>>

(* A session that does not reconnect is deleted, and with it its name. *)
OnPeerClose(kind) ==
  /\ Loop /\ status[kind] = "connected"
  /\ status' = [status EXCEPT ![kind] = IF autoreconnect(kind) THEN "closed" ELSE "none"]
  /\ Set(Of(kind, {"sent"}), "deleted")
  /\ UNCHANGED <<own, service, reports, commands, unknown>>

(* Timers fire until main() stops the thread. *)
Reconnect ==
  /\ Loop /\ main \notin {"stop", "delete"} /\ status["error"] = "closed"
  /\ status' = [status EXCEPT !["error"] = "dialling"]
  /\ UNCHANGED <<own, service, reports, state, commands, unknown>>

(* A reply, or the request itself as one when its time is out; both are deleted. *)
OnEvent(r) ==
  /\ Loop /\ state[r] = "sent" /\ main \notin {"stop", "delete"}
  /\ state' = [state EXCEPT ![r] = "deleted"]
  /\ UNCHANGED <<own, service, status, reports, commands, unknown>>

(* A command on an accepted connection is answered at once, a bad one too. *)
DealCohCmd ==
  /\ Loop /\ listening /\ commands < MaxCommands
  /\ \A i \in DOMAIN queue : queue[i].op # "start"  \* an accept is handled behind what was posted before
  /\ commands' = commands + 1
  /\ UNCHANGED <<own, service, status, reports, state, unknown>>

-----------------------------------------------------------------------------
Next ==
  \/ Fails \/ Configure \/ StartCoh \/ StartServer \/ ReportSend \/ Quit \/ Join \/ Delete
  \/ StartInThread \/ DoConnect \/ DoSendTo \/ Reconnect \/ DealCohCmd
  \/ \E kind \in Kinds :
       ReportLeaks(kind) \/ ReportConnect(kind) \/ Dialled(kind) \/ DialFails(kind) \/ OnPeerClose(kind)
  \/ \E r \in Report : OnEvent(r)

(* Posted handlers run, main() goes on, dials end and timers fire. *)
Fairness ==
  /\ WF_vars(StartInThread \/ DoConnect \/ DoSendTo) /\ WF_vars(ReportSend) /\ WF_vars(Reconnect)
  /\ \A kind \in Kinds : WF_vars(Dialled(kind) \/ DialFails(kind))
  /\ WF_vars(\E r \in Report : OnEvent(r))

Spec == Init /\ [][Next]_vars /\ Fairness

-----------------------------------------------------------------------------
(* Properties. *)

(* The instance, which its thread calls, is deleted when that thread has ended, and once. *)
OutlivesThread == instance = "deleted" => io = "joined"

(* A command is never handled with service_ NULL (DealCohCmd uses it unchecked). *)
ServiceKnown == commands > 0 => service

(* A report to a session that reconnects always finds it (OnErrorReport's two posts). *)
SessionFound == \A r \in unknown : reports[r] = "action"

(* A report that was posted is deleted in the end, unless a dial was lost or main() stops. *)
Settled ==
  \A r \in 1..MaxReports :
    (r \in Report /\ state[r] = "posted") ~>
      \/ r \in Report /\ (state[r] = "deleted" \/ status[reports[r]] = "lost")
      \/ main \in {"stop", "delete", "end"}
=============================================================================
