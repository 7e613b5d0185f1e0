----------------------------- MODULE MCThreads -----------------------------
(***************************************************************************)
(* The loops of Threads for TLC: one timer that is called once and a       *)
(* periodic one on two wheels of two spokes; three managers and the        *)
(* acceptor's thread, with an index_ that comes round after four; a thread *)
(* that prefers its own queue and one that prefers the shared one.         *)
(***************************************************************************)
EXTENDS Threads

MCSelfPriority == <<TRUE, FALSE>>

\* What does not run.
MCNoSide == [names |-> {}, addrs |-> {}, threads |-> {}, reuse |-> {}, sessions |-> 0, mark |-> 0]
MCNoHandlers == {<< << >> >>}
=============================================================================
