----------------------------- MODULE MCManagers -----------------------------
(***************************************************************************)
(* What Threads keep account of, for TLC: one timer on three wheels, with  *)
(* every interval they hold, and a clock that leaps by more than a turn of *)
(* the first wheel or steps back; two names that share three addresses;    *)
(* three threads that count connections; two clients of the HTTP example;  *)
(* one interface or two, which return students or throw.                   *)
(***************************************************************************)
EXTENDS Threads

CONSTANTS n1, n2  \* names

Side(ns, as, ts, rs, n) == [names |-> ns, addrs |-> as, threads |-> ts, reuse |-> rs, sessions |-> n, mark |-> 3]
MCNamesSide == Side({n1, n2}, {1, 2, 3}, {"manager"}, {TRUE}, 3)
MCIdsSide   == Side({n1}, {1}, {"manager", "acceptor", "other"}, BOOLEAN, 2)

Student == [n1 |-> [no |-> "n1", name |-> "ann", age |-> 24], n2 |-> [no |-> "n2", name |-> "bob", age |-> -32768]]
Returned(no) == [throws |-> FALSE, value |-> Student[no]]
Answers == [no \in No |-> Returned(no)]
Throwing == [Answers EXCEPT !["n1"] = Returned("n2"),
                            !["n2"] = [throws |-> TRUE, value |-> [no |-> "", name |-> "", age |-> 0]]]
MCHandlers == {<<Answers>>, <<Throwing>>, <<Answers, Throwing>>, <<Throwing, Answers>>}

\* What does not run.
MCSelfPriority == <<TRUE>>
=============================================================================
