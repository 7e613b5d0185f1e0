--------------------------- MODULE SessionManager ---------------------------
(***************************************************************************)
(* The sessions of one CSessionManager (frame/net): those it opens         *)
(* (CSosSessionManager), short ones found by name and persistent ones by   *)
(* address through groups of addresses, and those it accepted              *)
(* (CSocSessionManager), found by connection id; their periodic check; and *)
(* the counter that gives connection ids in every thread.                  *)
(***************************************************************************)
EXTENDS Integers, FiniteSets, Sequences, Sorting

CONSTANTS
  Name, Addr,   \* names; addresses, numbers in the order of the strings
  Threads,      \* those that make connections, of "manager", "acceptor", "other"
  Reuse,        \* values callers give addr_reuse: TRUE opens persistent sessions
  MaxSessions,  \* bound: sessions ever created
  MaxMark       \* bound: connections the process ever counts

Session == 1..MaxSessions
None == 0
Outgoing == {"short", "persistent"}

ManagerAssumption ==
  /\ None \notin Name /\ Addr \subseteq Nat \ {0} /\ Threads \subseteq {"manager", "acceptor", "other"}
  /\ Reuse \subseteq BOOLEAN /\ MaxSessions \in Nat /\ MaxMark \in Nat

VARIABLES
  kind,     \* of each session: "free", "accepting", "accepted", "short", "persistent", "deleted"
  id,       \* its connection id
  key,      \* the name of a short session, the address of a persistent one
  status,   \* status_
  up,       \* its connection is connected
  short,    \* CShortSessionContainer::sessions_
  addr_sessions, groups,  \* CPersistentSessionContainer
  sessions, \* CSocSessionManager::sessions_, by connection id
  mark,     \* CConnection::sm_mark_
  fetched,  \* the value a thread has read for its ++sm_mark_, or -1
  (* History. *)
  raced,    \* an increment of sm_mark_ was lost
  first,    \* the name each address was first connected by
  served,   \* of each name, the addresses its last sends went to, since its group grew
  idle      \* checks since a session was last heard of, up to 1

containers == <<short, addr_sessions, groups, sessions>>
ids == <<mark, fetched, raced>>
history == <<first, served>>
vars == <<kind, id, key, status, up, containers, ids, history, idle>>

Init ==
  /\ kind = [s \in Session |-> "free"] /\ id = [s \in Session |-> 0]
  /\ key = [s \in Session |-> None] /\ status = [s \in Session |-> "WAITING"]
  /\ up = [s \in Session |-> FALSE]
  /\ short = [n \in Name |-> None] /\ addr_sessions = [a \in Addr |-> None]
  /\ groups = [n \in Name |-> [addrs |-> <<>>, current |-> 0]]
  /\ sessions = [c \in 1..MaxMark |-> None]
  /\ mark = 0 /\ fetched = [t \in Threads |-> -1]
  /\ raced = FALSE /\ first = [a \in Addr |-> None] /\ served = [n \in Name |-> <<>>]
  /\ idle = [s \in Session |-> 0]

Live == {s \in Session : kind[s] \in Outgoing \cup {"accepting", "accepted"}}
Known(n) == n \in DOMAIN groups /\ groups[n].addrs # <<>>

-----------------------------------------------------------------------------
(* Connection ids: ++sm_mark_ is a read and a write of a plain static. *)

Fetch(t) ==
  /\ fetched[t] = -1 /\ mark < MaxMark
  /\ fetched' = [fetched EXCEPT ![t] = mark]
  /\ UNCHANGED <<kind, id, key, status, up, containers, mark, raced, history, idle>>

(* The rest of thread t's new CConnection, whose id is fetched[t] + 1. *)
Count(t) ==
  /\ t \in Threads /\ fetched[t] # -1
  /\ mark' = fetched[t] + 1
  /\ fetched' = [fetched EXCEPT ![t] = -1]
  /\ raced' = (raced \/ mark # fetched[t])

CountElsewhere ==
  Count("other") /\ UNCHANGED <<kind, id, key, status, up, containers, history, idle>>

(* Session::Init and the fields its maker sets. *)
Create(s, t, k, x, st) ==
  /\ kind[s] = "free" /\ \A r \in 1..(s - 1) : kind[r] # "free"
  /\ Count(t)
  /\ kind' = [kind EXCEPT ![s] = k] /\ key' = [key EXCEPT ![s] = x]
  /\ id' = [id EXCEPT ![s] = fetched[t] + 1] /\ status' = [status EXCEPT ![s] = st]

-----------------------------------------------------------------------------
(* CSosSessionManager. *)

(* CPersistentSessionContainer::AddSession. *)
AddSession(n, a, s) ==
  LET addrs == {groups[n].addrs[i] : i \in DOMAIN groups[n].addrs}
  IN  /\ addr_sessions' = [addr_sessions EXCEPT ![a] = IF @ = None THEN s ELSE @]
      /\ groups' = [groups EXCEPT ![n].addrs = Sorted(addrs \cup {a})]
      /\ served' = [served EXCEPT ![n] = IF a \in addrs THEN @ ELSE <<>>]

(* CSession::DoConnect: a connection that is up is connected again at once. *)
Reconnect(s) ==
  status' = [status EXCEPT ![s] = IF up[s] \/ @ = "CONNECTED" THEN "CONNECTED" ELSE "CONNECTING"]

Found(n, a, reuse) == IF reuse THEN addr_sessions[a] ELSE short[n]

DoConnectKnown(n, a, reuse) ==
  /\ Found(n, a, reuse) # None
  /\ Reconnect(Found(n, a, reuse))
  /\ UNCHANGED <<kind, id, key, up, containers, ids, history, idle>>

DoConnectNew(n, a, reuse, s) ==
  /\ Found(n, a, reuse) = None
  /\ Create(s, "manager", IF reuse THEN "persistent" ELSE "short", IF reuse THEN a ELSE n, "CONNECTING")
  /\ IF reuse
     THEN AddSession(n, a, s) /\ first' = [first EXCEPT ![a] = n] /\ UNCHANGED short
     ELSE short' = [short EXCEPT ![n] = s] /\ UNCHANGED <<addr_sessions, groups, first, served>>
  /\ UNCHANGED <<up, sessions, idle>>

(* Mutant: the turn is not set back when the end of the group is reached. *)
MutantTurn(group) == IF group.current >= Len(group.addrs) THEN Len(group.addrs) - 1 ELSE group.current

(* The place in a group of the address whose turn it is. *)
Turn(group) == IF group.current >= Len(group.addrs) THEN 0 ELSE group.current

Advance(group) == Turn(group) + 1

(* The addresses of the last sends, as many as the group has. *)
Latest(list, size) == SubSeq(list, IF Len(list) > size THEN Len(list) - size + 1 ELSE 1, Len(list))

(* GetSession(name) of a name with no short session: the next of its group. *)
DoSendTo(n) ==
  /\ short[n] = None /\ Known(n)
  /\ LET turn == Turn(groups[n])
         a == groups[n].addrs[turn + 1]
     IN  /\ addr_sessions[a] # None
         /\ groups' = [groups EXCEPT ![n].current = Advance(groups[n])]
         /\ served' = [served EXCEPT ![n] = Latest(Append(@, a), Len(groups[n].addrs))]
  /\ UNCHANGED <<kind, id, key, status, up, short, addr_sessions, sessions, ids, first, idle>>

DoClose(n) ==
  LET s == IF short[n] # None THEN short[n] ELSE addr_sessions[groups[n].addrs[1]]
  IN  /\ short[n] # None \/ Known(n)
      /\ status' = [status EXCEPT ![s] = "CLOSED"] /\ up' = [up EXCEPT ![s] = FALSE]
      /\ UNCHANGED <<kind, id, key, containers, ids, history, idle>>

-----------------------------------------------------------------------------
(* Accepting: the acceptor's thread makes the session, the manager's files it. *)

StartAccept(s) ==
  /\ Create(s, "acceptor", "accepting", None, "WAITING")
  /\ UNCHANGED <<up, containers, history, idle>>

OnAccept(s) ==
  /\ kind[s] = "accepting"
  /\ kind' = [kind EXCEPT ![s] = "accepted"]
  /\ status' = [status EXCEPT ![s] = "CONNECTED"] /\ up' = [up EXCEPT ![s] = TRUE]
  /\ sessions' = [sessions EXCEPT ![id[s]] = s]
  /\ UNCHANGED <<id, key, short, addr_sessions, groups, ids, history, idle>>

-----------------------------------------------------------------------------
(* What the network does to a session that is open. *)

Open(s) == s \in Live /\ kind[s] # "accepting" /\ status[s] # "CLOSED"

Dialled(s) ==
  /\ Open(s) /\ ~up[s] /\ status[s] \in {"CONNECTING", "TIME_OUT"}
  /\ up' = [up EXCEPT ![s] = TRUE] /\ status' = [status EXCEPT ![s] = "CONNECTED"]
  /\ idle' = [idle EXCEPT ![s] = 0]
  /\ UNCHANGED <<kind, id, key, containers, ids, history>>

Heard(s) == status' = [status EXCEPT ![s] = "CONNECTED"]

OnRead(s) ==
  /\ Open(s) /\ up[s]
  /\ Heard(s) /\ idle' = [idle EXCEPT ![s] = 0]
  /\ UNCHANGED <<kind, id, key, up, containers, ids, history>>

(* Without autoreconnect, or with it. *)
OnPeerClose(s) ==
  /\ Open(s) /\ up[s]
  /\ up' = [up EXCEPT ![s] = FALSE]
  /\ \/ status' = [status EXCEPT ![s] = "CLOSED"]
     \/ kind[s] \in Outgoing /\ status' = [status EXCEPT ![s] = "WAITING"]
  /\ UNCHANGED <<kind, id, key, containers, ids, history, idle>>

-----------------------------------------------------------------------------
(* CSessionManager::DoCheckSession, each CHECK_SESSION_INTERVAL. *)

Held == {short[n] : n \in Name} \cup {sessions[c] : c \in DOMAIN sessions}
Ends(s) ==
  /\ s \in Held \ {None}
  /\ status[s] \in {"TIME_OUT", "CLOSED"}

Erase ==
  /\ short' = [n \in Name |-> IF Ends(short[n]) THEN None ELSE short[n]]
  /\ sessions' = [c \in DOMAIN sessions |-> IF Ends(sessions[c]) THEN None ELSE sessions[c]]

DoCheckSession ==
  /\ Held # {None}
  /\ Erase
  /\ kind' = [s \in Session |-> IF Ends(s) THEN "deleted" ELSE kind[s]]
  /\ status' = [s \in Session |-> IF Ends(s) THEN "CLOSED"
                                  ELSE IF s \in Held THEN "TIME_OUT" ELSE status[s]]
  /\ up' = [s \in Session |-> up[s] /\ ~Ends(s)]
  /\ idle' = [s \in Session |-> IF s \in Live /\ idle[s] = 0 THEN 1 ELSE idle[s]]
  /\ UNCHANGED <<id, key, addr_sessions, groups, ids, history>>

Next ==
  \/ \E t \in Threads : Fetch(t)
  \/ CountElsewhere \/ DoCheckSession
  \/ \E n \in Name : DoSendTo(n) \/ DoClose(n)
  \/ \E n \in Name, a \in Addr, reuse \in Reuse :
       DoConnectKnown(n, a, reuse) \/ \E s \in Session : DoConnectNew(n, a, reuse, s)
  \/ \E s \in Session : StartAccept(s) \/ OnAccept(s) \/ Dialled(s) \/ OnRead(s) \/ OnPeerClose(s)

Spec == Init /\ [][Next]_vars

-----------------------------------------------------------------------------
(* Properties. *)

Statuses == {"WAITING", "CONNECTED", "TIME_OUT", "CONNECTING", "CLOSED"}

(* Every variable has its type; a group's turn is in the group or just behind it. *)
TypeOK ==
  /\ kind \in [Session -> Outgoing \cup {"free", "accepting", "accepted", "deleted"}]
  /\ id \in [Session -> 0..MaxMark] /\ key \in [Session -> Name \cup Addr \cup {None}]
  /\ status \in [Session -> Statuses] /\ up \in [Session -> BOOLEAN]
  /\ short \in [Name -> Session \cup {None}] /\ addr_sessions \in [Addr -> Session \cup {None}]
  /\ sessions \in [1..MaxMark -> Session \cup {None}]
  /\ \A n \in Name : groups[n].addrs \in Seq(Addr) /\ groups[n].current \in 0..Len(groups[n].addrs)
  /\ mark \in 0..MaxMark /\ fetched \in [Threads -> -1..MaxMark] /\ raced \in BOOLEAN
  /\ first \in [Addr -> Name \cup {None}] /\ \A n \in Name : served[n] \in Seq(Addr)
  /\ idle \in [Session -> 0..1]

(* Each session is found under its own key as long as it lives, and no container
   keeps one that was deleted: nothing leaks, nothing dangles, and an answer sent
   to a connection id reaches the session that has it. Only two threads that count
   a connection at the same time can break it, as sm_mark_ is not synchronised. *)
Filed ==
  raced \/
  \A s \in Session :
    /\ (kind[s] = "short") = (\E n \in Name : short[n] = s)
    /\ (kind[s] = "persistent") = (\E a \in Addr : addr_sessions[a] = s)
    /\ (kind[s] = "accepted") = (\E c \in DOMAIN sessions : sessions[c] = s)
    /\ kind[s] = "short" => short[key[s]] = s
    /\ kind[s] = "persistent" => addr_sessions[key[s]] = s
    /\ kind[s] = "accepted" => sessions[id[s]] = s

(* A name reaches the addresses that it was the first to connect to, in order and
   each once, and no others: connecting a second name to an address adds nothing
   to that name's group. *)
NamesReach ==
  \A n \in Name : groups[n].addrs = Sorted({a \in Addr : first[a] = n})

(* Round robin: as long as the group of a name does not grow, no address is used
   again before all others of the group, though current is kept while it grows. *)
RoundRobin == \A n \in Name : \A i, j \in DOMAIN served[n] : served[n][i] = served[n][j] => i = j

(* The periodic check deletes only a session that is closed, or that was not heard
   of since the check before. *)
SparesTheActive == \A s \in Live : kind'[s] = "deleted" => status[s] = "CLOSED" \/ idle[s] = 1
=============================================================================
