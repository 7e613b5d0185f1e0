------------------------------ MODULE Threads ------------------------------
(***************************************************************************)
(* What the threads of a process do and keep account of: the loop of a     *)
(* manager, the holder that starts and stops them all, the timer wheel of  *)
(* a thread, the threads of MsgTimerThread, the coh thread of the HTTP     *)
(* example; the sessions of a manager under their names and addresses and  *)
(* under their ids; the requests of the two examples, and the calls of the *)
(* generated client and processor.  Each goes by itself: part says which   *)
(* of Parts runs, and the others stay as they begin.                       *)
(***************************************************************************)
EXTENDS Integers, Sequences

CONSTANTS
    Parts,
    Timer, Circle, NoTimer, Intervals, GRANULARITY, WHEEL_SIZE1, WHEEL_SIZE2, WHEEL_NUM, MaxLag, MaxBack,
    MaxConns,
    threadnum, Servers, IndexSize, MaxAccepts,
    MsgThread, self_priority, Message, NoMessage,
    MaxReports, MaxCommands,
    NamesSide, IdsSide,  \* names, addresses, threads, reuse, sessions and mark of a SessionManager
    HttpConn, Watched, MaxRequests, MaxDials,
    Client, No, Handlers, MaxCalls

VARIABLES part,
    lag, due, interval, spokes, spokeindex, readynodes, timernode, loops, phase, running,
    owner, io, queue, work, deadline, isalive, armed, conns, checked, revived,
    holder, at, fetched, threads, servers, open, accept, stops, index, given, skew,
    group, joining, pc, pdata, is_running, queues, public, dealt, late,
    main, instance, service, cohio, posted, listening, status, reports, state, commands, unknown,
    kind, id, key, standing, up, short, addr_sessions, groups, sessions, mark, counting, raced, first,
    served, idle,
    clients, received, answered, response, deleted, todo, smseqid, ctx, call, args, result, peerstatus,
    dials, dialling, peer, link,
    handler, requests, replies, pending, returned

Wheel  == INSTANCE TimerWheel
Io     == INSTANCE IoThread
Holder == INSTANCE ThreadHolder WITH owner <- holder, running <- servers
Group  == INSTANCE MsgTimerThread WITH Thread <- MsgThread, owner <- group, queue <- queues
Coh    == INSTANCE Coh WITH io <- cohio, queue <- posted

\* The sessions of a manager; one side has those it opens under names and addresses, the other
\* all that have an id.
Manager(side) == INSTANCE SessionManager WITH
    Name <- side.names, Addr <- side.addrs, Threads <- side.threads,
    Reuse <- side.reuse, MaxSessions <- side.sessions, MaxMark <- side.mark,
    status <- standing, fetched <- counting

Examples == INSTANCE Proxy WITH Conn <- HttpConn, open <- clients, status <- peerstatus
Clients  == INSTANCE ServCalls

ASSUME ThreadsAssumption ==
    /\ Parts \subseteq {"wheel", "io", "holder", "group", "coh", "names", "ids", "examples", "clients"}
    /\ Wheel!WheelAssumption /\ Io!IoAssumption /\ Holder!HolderAssumption
    /\ Group!ThreadAssumption /\ Coh!CohAssumption
    /\ Manager(NamesSide)!ManagerAssumption /\ Manager(IdsSide)!ManagerAssumption
    /\ Examples!ProxyAssumption /\ Clients!CallsAssumption

wheelVars  == <<lag, due, interval, spokes, spokeindex, readynodes, timernode, loops, phase, running>>
ioVars     == <<owner, io, queue, work, deadline, isalive, armed, conns, checked, revived>>
holderVars == <<holder, at, fetched, threads, servers, open, accept, stops, index, given, skew>>
groupVars  == <<group, joining, pc, pdata, is_running, queues, public, dealt, late>>
cohVars    == <<main, instance, service, cohio, posted, listening, status, reports, state, commands, unknown>>
managerVars == <<kind, id, key, standing, up, short, addr_sessions, groups, sessions, mark, counting, raced,
                 first, served, idle>>
proxyVars   == <<clients, received, answered, response, deleted, todo, smseqid, ctx, call, args, result,
                 peerstatus, dials, dialling, peer, link>>
callVars    == <<handler, requests, replies, pending, returned>>
loopVars    == <<wheelVars, ioVars, holderVars, groupVars, cohVars>>
accountVars == <<managerVars, proxyVars, callVars>>
all         == <<part, loopVars, accountVars>>

\* A step of one part leaves the others alone.
InWheel  == part = "wheel"  /\ UNCHANGED <<part, ioVars, holderVars, groupVars, cohVars, accountVars>>
InIo     == part = "io"     /\ UNCHANGED <<part, wheelVars, holderVars, groupVars, cohVars, accountVars>>
InHolder == part = "holder" /\ UNCHANGED <<part, wheelVars, ioVars, groupVars, cohVars, accountVars>>
InGroup  == part = "group"  /\ UNCHANGED <<part, wheelVars, ioVars, holderVars, cohVars, accountVars>>
InCoh    == part = "coh"    /\ UNCHANGED <<part, wheelVars, ioVars, holderVars, groupVars, accountVars>>
InManager(p) == part = p    /\ UNCHANGED <<part, loopVars, proxyVars, callVars>>
InExamples == part = "examples" /\ UNCHANGED <<part, loopVars, managerVars, callVars>>
InClients  == part = "clients"  /\ UNCHANGED <<part, loopVars, managerVars, proxyVars>>

Init ==
    /\ part \in Parts
    /\ Wheel!Init /\ (part # "wheel" => \A t \in DOMAIN interval : interval[t] = 0)
    /\ Io!Init /\ Holder!Init /\ Group!Init /\ Coh!Init
    /\ IF part = "ids" THEN Manager(IdsSide)!Init ELSE Manager(NamesSide)!Init
    /\ Examples!Init
    /\ Clients!Init /\ (part # "clients" => handler = CHOOSE h \in Handlers : TRUE)

Next ==
    \/ InWheel  /\ Wheel!Next
    \/ InIo     /\ Io!Next
    \/ InHolder /\ Holder!Next
    \/ InGroup  /\ Group!Next
    \/ InCoh    /\ Coh!Next
    \/ InManager("names") /\ Manager(NamesSide)!Next
    \/ InManager("ids")   /\ Manager(IdsSide)!Next
    \/ InExamples /\ Examples!Next
    \/ InClients  /\ Clients!Next

-----------------------------------------------------------------------------
(* The fairness that each module states for its part.                      *)

WheelFairness ==
    /\ WF_all(InWheel /\ Wheel!Tick)
    /\ WF_all(InWheel /\ (Wheel!Detect \/ Wheel!Turn \/ Wheel!Call \/ Wheel!CallbackReturns \/ Wheel!DetectEnds))
IoFairness ==
    /\ WF_all(InIo /\ Io!IoNext) /\ WF_all(InIo /\ Io!DeadlineExpires)
    /\ WF_all(InIo /\ Io!StartTimer) /\ WF_all(InIo /\ (Io!StopPosts \/ Io!StopJoins))
HolderFairness ==
    /\ WF_all(InHolder /\ Holder!StopThread)
    /\ \A s \in 1 .. Servers : /\ WF_all(InHolder /\ Holder!HandleStop(s))
                         /\ WF_all(InHolder /\ (Holder!HandleAccept(s) \/ Holder!HandleAcceptError(s)))
GroupFairness ==
    /\ WF_all(InGroup /\ (Group!Stop \/ Group!Join))
    /\ \A t \in MsgThread : WF_all(InGroup /\ Group!ThreadNext(t))
CohFairness ==
    /\ WF_all(InCoh /\ (Coh!StartInThread \/ Coh!DoConnect \/ Coh!DoSendTo))
    /\ WF_all(InCoh /\ Coh!ReportSend) /\ WF_all(InCoh /\ Coh!Reconnect)
    /\ \A k \in Coh!Kinds : WF_all(InCoh /\ (Coh!Dialled(k) \/ Coh!DialFails(k)))
    /\ WF_all(InCoh /\ (\E r \in Coh!Report : Coh!OnEvent(r)))

Spec == Init /\ [][Next]_all
        /\ WheelFairness /\ IoFairness /\ HolderFairness /\ GroupFairness /\ CohFairness

-----------------------------------------------------------------------------
(* CTimerManager implements TimerService: only a timer that was started and not stopped
   since is called, also when callbacks of one detection stop or start the others. *)
ImplementsService == Wheel!ImplementsService

(* What renews itself, or is handed from one list or thread to another, is in one place and
   only there: a timer's node in one list of CTimerManager; the deadline timer of a
   CIoServiceThread outstanding, once, until a self check clears isalive_; an accept of each
   CTcpSocketServer outstanding until it stops, and the connections it accepted spread evenly
   over the managers; a message of MsgTimerThread dealt with once, by one thread. *)
OnePlaceEach ==
    /\ Wheel!TypeOK /\ Wheel!Linked
    /\ Io!TypeOK /\ Io!TimersDriven /\ Io!OneDeadline
    /\ Holder!TypeOK /\ Holder!AcceptsGoOn /\ Holder!Balanced
    /\ Group!TypeOK /\ Group!DealtOnce

(* Nothing works for, or with, what has ended: no handler of a CIoServiceThread is left to
   run when Stop has returned; MsgTimerThread's Stop returns only when the thread it joins has
   left Run; CohClient's instance is there as long as its thread uses it, its service's name
   is known before a session is dialled with it, and the session that reconnects is the one
   its manager knows. *)
NothingOutlived ==
    /\ Io!StoppedIsQuiet /\ Group!JoinedIsOut
    /\ Coh!OutlivesThread /\ Coh!ServiceKnown /\ Coh!SessionFound

(* What was given to a thread is served: a timer that was started is called, unless it is
   stopped or goes on being started (CTimerManager); a message put before the group stops is
   dealt with (MsgTimerThread); every report is sent or given up (CohClient). *)
Served == Wheel!Fires /\ Group!Served /\ Coh!Settled

(* Stop returns: of a CIoServiceThread, of the CNetThreadHolder, which stops every thread,
   and of the group of MsgTimerThreads. *)
StopEnds == Io!StopEnds /\ Holder!StopEnds /\ Group!StopEnds

(* CTimerManager: the wheels stand on spokes they have, no timer is put behind them, and none
   is called early by more than the wheels lagged when it started. *)
OnTime == Wheel!TypeOK /\ Wheel!NotLate /\ Wheel!NotEarly

(* CPersistentSessionContainer: a name reaches what it was the first to connect to, and the
   sends to it go round its addresses. The managers' containers: a session is found under its
   own key as long as it lives, and DoCheckSession deletes only what is closed or was not
   heard of since the last check. *)
SessionsKept ==
    /\ [](part = "names" => Manager(NamesSide)!TypeOK /\ Manager(NamesSide)!NamesReach /\ Manager(NamesSide)!RoundRobin)
    /\ [](part = "ids" => Manager(IdsSide)!TypeOK /\ Manager(IdsSide)!Filed)
    /\ [][part = "names" => Manager(NamesSide)!SparesTheActive]_all
    /\ [][part = "ids" => Manager(IdsSide)!SparesTheActive]_all

(* The HTTP example: a request has one owner and is deleted once, the student of its response
   is what the peer gave for it, and a call waits only for a dial that is outstanding or was
   lost. ServClient and ServProcessor: a call returns the student of its number, or throws as
   the handler did, and one message comes back for each that went out. *)
AnsweredTruly ==
    /\ Examples!OwnedOnce /\ Examples!TrueStudent /\ Examples!WaitsForDial
    /\ Clients!ReturnsOwn /\ Clients!OneReplyEach

(* The HTTP example gives an HTTP session what OrderedResponses takes from a handler. *)
FeedsSessions == Examples!FeedsSessions
=============================================================================
