---------------------------- MODULE Connections ----------------------------
(***************************************************************************)
(* A connection: its reading side with the thrift parser, with the HTTP    *)
(* parser, and with the HTTP parser and a peer that cuts anywhere and a    *)
(* handler that closes; its writing side with writes that wait for each    *)
(* other and with writes that overlap; and what the two examples do with   *)
(* each other over such connections.  Each goes by itself: which says      *)
(* which of them runs, and the others stay as they begin.                  *)
(***************************************************************************)
EXTENDS Integers, SequencesExt, FiniteSetsExt, TLC

CONSTANTS
    ThriftMessage, HttpMessage,           \* what peers send
    Reserved, Zone,                       \* of the HTTP parser
    ThriftSide, HttpSide, CutsSide,       \* capacity, low, packet, messages and connects of a reading side
    QuietSide, OverlapSide,               \* capacity, fits, writes and connections of a writing side
    HttpConn, Watched, MaxRequests, MaxDials  \* of the examples

VARIABLES which,
    connected, linked, dealing, reading, socket, wire, part, buffer, capacity, delivered, sent,
    fresh, connects, illegal,
    writable, writebuf, room, moved, close_after_write, ops, reactor, posted, in_use, kernel, dial,
    told, requested, closedby,
    open, received, answered, response, deleted, todo, smseqid, ctx, call, args, result, status,
    dials, dialling, peer, link

Anywhere(a, b) == TRUE

-----------------------------------------------------------------------------
(* Calls, replies and a heartbeat of thrift. *)
TP == INSTANCE ThriftParser

ThriftEncode(msg) == TP!Encode(msg)
ThriftDecode(buf) == TP!Decode(buf)

\* The sequence id arrives with its bytes in the other order, and a heartbeat as a
\* request like any other, but for one of a name that no heartbeat of ours has.
ThriftSame(msg, got) ==
    /\ got.direction = msg.direction /\ got.method = msg.method
    /\ got.isheartbeat = (msg.method = "AllsparkHeartBeat")
    /\ got.body = msg.body /\ \A i \in 1 .. 4 : got.seqid[i] = msg.seqid[5 - i]

Thrift == INSTANCE Framing WITH
    Message <- ThriftMessage, Encode <- ThriftEncode, Decode <- ThriftDecode, Same <- ThriftSame,
    CutBetween <- Anywhere, CutInside <- Anywhere, MayClose <- FALSE,
    Capacity <- ThriftSide.capacity, Low <- ThriftSide.low, MaxPacket <- ThriftSide.packet,
    MaxSent <- ThriftSide.messages, MaxConnects <- ThriftSide.connects

-----------------------------------------------------------------------------
(* Requests and responses of HTTP. *)
HP == INSTANCE HttpParser

HttpEncode(msg) == HP!Encode(msg)
HttpDecode(buf) == HP!Decode(buf)

\* The cuts after which nothing is closed as illegal: a start line comes in one piece, and
\* a message in chunks is cut before it says so, or inside the bytes of a chunk.
IsTE(token) == token.kind = "header" /\ token.key.name = "Transfer-Encoding"
InChunk(token) == token.kind = "size" /\ token.n > 0
SoundCut(a, b) ==
    \/ b.kind \in {"request", "status"} \/ InChunk(a)
    \/ a.kind = "byte" /\ b.kind = "byte"
    \/ a.kind \in {"request", "status", "header"} /\ ~IsTE(a) /\ b.kind \in {"header", "blank"}
    \/ a.kind = "blank" /\ b.kind = "byte"
SoundInside(a, b) == b.kind = "header" \/ (b.kind = "blank" /\ ~IsTE(a))

\* What a reader must see of a message, however the parser writes it.
HttpSame(msg, got) ==
    /\ got.direction = msg.direction /\ got.start.version = msg.version
    /\ got.keepalive = msg.keepalive /\ got.body = msg.body
    /\ IF msg.direction = "request"
       THEN /\ got.start.method = (IF msg.method = "" THEN "GET" ELSE msg.method)
            /\ got.start.url = (IF msg.url.path = "" THEN "/" ELSE msg.url.path)
            /\ got.cookies = {}
       ELSE /\ got.start.code = msg.code
            /\ got.cookies = {[key |-> << <<k>> >>, value |-> <<msg.cookies[k].value>>,
                               path |-> msg.cookies[k].path, domain |-> msg.cookies[k].domain,
                               expires |-> HP!httptime(msg.cookies[k].expires)] : k \in DOMAIN msg.cookies}
    /\ \A k \in DOMAIN msg.headers :
         k.name \in {"Content-Length", "Connection"} \/ got.headers[k.name] = msg.headers[k]

Http == INSTANCE Framing WITH
    Message <- HttpMessage, Encode <- HttpEncode, Decode <- HttpDecode, Same <- HttpSame,
    CutBetween <- SoundCut, CutInside <- SoundInside, MayClose <- FALSE,
    Capacity <- HttpSide.capacity, Low <- HttpSide.low, MaxPacket <- HttpSide.packet,
    MaxSent <- HttpSide.messages, MaxConnects <- HttpSide.connects

\* Any cut, packets that are too large, and a handler that closes the session.
Cuts == INSTANCE Framing WITH
    Message <- HttpMessage, Encode <- HttpEncode, Decode <- HttpDecode, Same <- HttpSame,
    CutBetween <- Anywhere, CutInside <- Anywhere, MayClose <- TRUE,
    Capacity <- CutsSide.capacity, Low <- CutsSide.low, MaxPacket <- CutsSide.packet,
    MaxSent <- CutsSide.messages, MaxConnects <- CutsSide.connects

-----------------------------------------------------------------------------
(* The writing side, and the examples with one accepted connection. *)
Quiet == INSTANCE WriteBuffer WITH
    Overlap <- FALSE, WriteCapacity <- QuietSide.capacity, Fits <- QuietSide.fits,
    MaxWrites <- QuietSide.writes, MaxConnections <- QuietSide.connections
Overlapping == INSTANCE WriteBuffer WITH
    Overlap <- TRUE, WriteCapacity <- OverlapSide.capacity, Fits <- OverlapSide.fits,
    MaxWrites <- OverlapSide.writes, MaxConnections <- OverlapSide.connections

Examples == INSTANCE Proxy WITH Conn <- HttpConn

ASSUME ConnectionsAssumption ==
    /\ Thrift!FramingAssumption /\ Http!FramingAssumption /\ Cuts!FramingAssumption
    /\ Quiet!WriteBufferAssumption /\ Overlapping!WriteBufferAssumption /\ Examples!ProxyAssumption

-----------------------------------------------------------------------------
(* What peers send: messages that their parser can write so that they can be read. *)
IsList(x) == x \in Seq({x[i] : i \in DOMAIN x})

ThriftFormed(msg) ==
    /\ msg.direction \in {"request", "response"} /\ msg.seqid \in [1 .. 4 -> 0 .. 255] /\ IsList(msg.body)

\* The headers the parser writes by itself, and those it adds where none is spelled alike.
Written(msg) ==
    {"Set-Cookie", "Transfer-Encoding"} \cup IF msg.direction = "request" THEN {"Cookie"} ELSE {"Date"}
Defaults(msg) ==
    IF msg.direction = "request" THEN {"User-Agent"} ELSE {"Cache-Control", "Content-Type", "Server"}

\* No name in two spellings, none that the parser writes or would add a default to.
HeadersFormed(msg) ==
    /\ IsFiniteSet(DOMAIN msg.headers) /\ DOMAIN msg.headers \subseteq [name : STRING, lower : BOOLEAN]
    /\ \A j, k \in DOMAIN msg.headers : j.name = k.name => j = k
    /\ \A k \in DOMAIN msg.headers :
         /\ k.name \notin Written(msg) /\ (k.lower => k.name \notin Defaults(msg))
         /\ k.name = "Content-Length" =>
              /\ msg.headers[k] \in Nat
              /\ msg.direction = "request" /\ msg.body = <<>> => msg.headers[k] = 0

\* No cookie that has the name of an attribute, or a value that is written in another way.
CookiesFormed(cookies) ==
    /\ IsFiniteSet(DOMAIN cookies)
    /\ \A k \in DOMAIN cookies :
         k \notin {"path", "domain", "expires"} /\ cookies[k].value \notin Reserved /\ cookies[k].expires \in Nat

\* A message in chunks has a body.
HttpFormed(msg) ==
    /\ msg.direction \in {"request", "response"} /\ msg.keepalive \in BOOLEAN /\ IsList(msg.body)
    /\ HeadersFormed(msg)
    /\ msg.direction = "response" => CookiesFormed(msg.cookies) /\ (msg.version = "1.1" => msg.body # <<>>)

ASSUME MessagesAssumption ==
    /\ \A msg \in ThriftMessage : ThriftFormed(msg)
    /\ \A msg \in HttpMessage : HttpFormed(msg)
    /\ Thrift!SmallMessages /\ Http!SmallMessages

-----------------------------------------------------------------------------
readVars  == <<connected, linked, dealing, reading, socket, wire, part, buffer, capacity, delivered, sent,
               fresh, connects, illegal>>
writeVars == <<writable, writebuf, room, moved, close_after_write, ops, reactor, posted, in_use, kernel,
               dial, told, requested, closedby>>
proxyVars == <<open, received, answered, response, deleted, todo, smseqid, ctx, call, args, result, status,
               dials, dialling, peer, link>>
all       == <<which, readVars, writeVars, proxyVars>>

Reading(w)  == which = w /\ UNCHANGED <<which, writeVars, proxyVars>>
Writing(w)  == which = w /\ UNCHANGED <<which, readVars, proxyVars>>
InExamples  == which = "examples" /\ UNCHANGED <<which, readVars, writeVars>>

Init ==
    /\ which \in {"thrift", "http", "cuts", "quiet", "overlap", "examples"}
    /\ CASE which = "thrift" -> Thrift!Init [] which = "cuts" -> Cuts!Init [] OTHER -> Http!Init
    /\ IF which = "overlap" THEN Overlapping!WriteInit ELSE Quiet!WriteInit
    /\ Examples!Init

Next ==
    \/ Reading("thrift") /\ Thrift!Next
    \/ Reading("http") /\ Http!Next
    \/ Reading("cuts") /\ Cuts!Next
    \/ Writing("quiet") /\ Quiet!WriteNext
    \/ Writing("overlap") /\ Overlapping!WriteNext
    \/ InExamples /\ Examples!Next

\* The fairness that each module states for its part.
ReadFairness ==
    /\ WF_all(Reading("thrift") /\ Thrift!Loop) /\ WF_all(Reading("thrift") /\ Thrift!ReadCompletes)
    /\ WF_all(Reading("thrift") /\ Thrift!HandleReadError)
WriteFairness ==
    /\ WF_all(Writing("quiet") /\ (\E k \in Quiet!Takes : Quiet!WriteCompletes(k)))
    /\ WF_all(Writing("quiet") /\ (Quiet!HandleResolve \/ Quiet!HandleConnected))
    /\ WF_all(Writing("quiet") /\ (\E k \in Quiet!Takes, err \in BOOLEAN : Quiet!Writable(k, err)))
    /\ WF_all(Writing("overlap") /\ (\E k \in Overlapping!Takes : Overlapping!WriteCompletes(k)))
    /\ WF_all(Writing("overlap") /\ (Overlapping!HandleResolve \/ Overlapping!HandleConnected))
    /\ WF_all(Writing("overlap") /\ (\E k \in Overlapping!Takes, err \in BOOLEAN : Overlapping!Writable(k, err)))
ExampleFairness ==
    /\ WF_all(InExamples /\ Examples!OnEvent)
    /\ WF_all(InExamples /\ (\E s \in Examples!Calls : Examples!TimesOut(s)))
    /\ WF_all(InExamples /\ (Examples!Dialled \/ Examples!DialFails))

Spec == Init /\ [][Next]_all /\ ReadFairness /\ WriteFairness /\ ExampleFairness

-----------------------------------------------------------------------------
(* CConnection, reading: the decode loop and a read never overlap, a read has a place to go,
   and the buffer holds nothing of an earlier connection that a read has ended. *)
BufferSound ==
    /\ IF which = "thrift" THEN Thrift!TypeOK ELSE which = "cuts" \/ Http!TypeOK
    /\ Http!Room
    /\ which \in {"thrift", "http"} => Http!NoStaleBytes

(* CConnection and its parsers: what is delivered is what the peer sent, in order, on a
   first connection however it is cut (bytes of one that was closed as illegal stay); a
   connection that has read all that was sent and waits for more has delivered all of it; and
   a peer that cuts where the parser allows it is never closed as illegal. *)
DeliveredWhole ==
    /\ IF which = "thrift" THEN Thrift!InOrder ELSE (which = "cuts" /\ connects > 1) \/ Http!InOrder
    /\ which \in {"thrift", "http"} => Http!NeverIllegal /\ Http!NothingWithheld

(* CConnection, writing: of writes that do not overlap each is carried in full and in turn,
   and the connection is then closed behind the write that asked for it. *)
WrittenWhole == which = "quiet" => Quiet!IntactWhenQuiet /\ Quiet!FullBeforeClose

(* CConnection and CHandlerAllocator: the end of a write of an old connection never closes
   the new one, the session is told of each end of a connection once, and no two handlers
   share the allocator's block. *)
OldWritesSpare == Overlapping!NewConnectionSpared /\ Overlapping!ToldOnce /\ Overlapping!BlockOfOne

(* CConnection: what was sent is delivered, however it was cut, or the connection ends; a
   close that was asked for comes, unless a later write takes it back. The examples: every
   HTTP request is settled, by time-outs at the latest, unless the dial it waits for was
   lost. *)
Served == (which = "thrift" => Thrift!AllDelivered) /\ Overlapping!Closes /\ Examples!Settled
=============================================================================
