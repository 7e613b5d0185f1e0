----------------------------- MODULE MCSession -----------------------------
(* Small instances of Session for TLC. *)
EXTENDS Session, TLC

CONSTANTS r1, r2

(* Thrift: the business code numbers its requests. *)
DistinctSeq == r1 :> 1 @@ r2 :> 2
=============================================================================
