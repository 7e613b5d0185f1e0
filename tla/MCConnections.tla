--------------------------- MODULE MCConnections ---------------------------
(***************************************************************************)
(* Connections for TLC: three kinds of thrift messages and four of HTTP,   *)
(* two or three on a connection; four writes that wait for each other on   *)
(* three connections, three that overlap on two; one accepted connection   *)
(* of the examples.                                                        *)
(***************************************************************************)
EXTENDS Connections

\* Calls, replies and a heartbeat of thrift.
Call == [direction |-> "request", method |-> "m", seqid |-> <<0, 0, 1, 2>>, body |-> <<1>>]
MCThriftMessage ==
    {Call, [Call EXCEPT !.direction = "response", !.body = <<2, 3>>], TP!CreateHeartBeatMessage("request")}

\* Requests and responses of HTTP.
Url(host, path) == [host |-> host, path |-> path]
Cookie(value, expires) ==
    [value |-> value, path |-> "/", domain |-> IF expires > 0 THEN "d" ELSE "", expires |-> expires]

Get == [direction |-> "request", method |-> "", url |-> Url("h", ""), version |-> "1.1",
        keepalive |-> TRUE, code |-> 0, headers |-> << >>,
        cookies |-> ("k" :> Cookie("a=b", 0)), body |-> <<>>]
Post == [Get EXCEPT !.method = "POST", !.version = "1.0", !.keepalive = FALSE, !.url = Url("", "/p"),
                    !.cookies = << >>, !.headers = (HP!Field("User-Agent") :> "ua"), !.body = <<1>>]
\* A response that was read elsewhere and is sent on, with headers that are no longer true.
Relayed == [Get EXCEPT !.direction = "response", !.version = "1.0", !.code = 200,
                       !.headers = (HP!Lower(HP!Field("Content-Length")) :> 1)
                                   @@ (HP!Lower(HP!Field("Connection")) :> "Close"),
                       !.cookies = ("k" :> Cookie("v", 3)), !.body = <<1, 2>>]
Chunked == [Relayed EXCEPT !.version = "1.1", !.headers = << >>, !.cookies = << >>]
MCHttpMessage == {Get, Post, Relayed, Chunked}

ReadSide(size, low, packet, messages, times) ==
    [capacity |-> size, low |-> low, packet |-> packet, messages |-> messages, connects |-> times]
WriteSide(writes, connections) ==
    [capacity |-> 1, fits |-> TRUE, writes |-> writes, connections |-> connections]

MCThriftSide  == ReadSide(4, 1, 9, 3, 2)
MCHttpSide    == ReadSide(10, 4, 40, 2, 2)
MCCutsSide    == ReadSide(10, 4, 18, 2, 2)
MCQuietSide   == WriteSide(4, 3)
MCOverlapSide == WriteSide(3, 2)
=============================================================================
