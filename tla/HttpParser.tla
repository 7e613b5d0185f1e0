----------------------------- MODULE HttpParser -----------------------------
(***************************************************************************)
(* CHttpParser (frame/protocol/httpparser.cc): how a message is written and *)
(* what is read from the bytes that have arrived. The wire is a sequence of *)
(* tokens: a start line, header lines, the blank line, and a body as single *)
(* bytes, in chunks or not. The decoder searches for line ends without      *)
(* looking at the length, so what old bytes lie behind the data may matter: *)
(* Decode is the set of what it may return.                                 *)
(* Bodies hold no NUL byte: append copies up to the first one.              *)
(***************************************************************************)
EXTENDS Integers, Sequences, SequencesExt, FiniteSetsExt, Sorting

CONSTANTS
  Reserved,  \* cookie values that UrlEncoder changes
  Zone       \* of the reader: mktime takes the time of a cookie as a local one

(* A header name as it is spelled: in lower case or not. *)
Field(name) == [name |-> name, lower |-> FALSE]
Lower(key) == [key EXCEPT !.lower = TRUE]

(* The lines of the wire. *)
Header(key, value) == [kind |-> "header", key |-> key, value |-> value]
Blank == [kind |-> "blank"]
Crlf == [kind |-> "crlf"]
ChunkSize(n) == [kind |-> "size", n |-> n]
Bytes(body) == [i \in DOMAIN body |-> [kind |-> "byte", value |-> body[i]]]

(* An attribute of a cookie; a flag has no value. *)
Attribute(name, value) == [name |-> name, flag |-> FALSE, value |-> value]
Flag(name) == [name |-> name, flag |-> TRUE, value |-> ""]

-----------------------------------------------------------------------------
(* Encode. *)

UrlEncode(value) == IF value \in Reserved THEN <<"%", value>> ELSE value

(* A default that no header of the message replaces: names are compared as spelled. *)
Default(name, headers) ==
  IF Field(name) \in DOMAIN headers THEN <<>> ELSE <<Header(Field(name), "default")>>

sm_default_header(headers) ==
  Default("Cache-Control", headers) \o Default("Content-Type", headers) \o Default("Server", headers)
sm_default_request_header(headers) == Default("User-Agent", headers)

Lines(headers) ==
  LET keys == SetToSeq(DOMAIN headers)
  IN  [i \in DOMAIN keys |-> Header(keys[i], headers[keys[i]])]

Connection(msg) == Header(Field("Connection"), IF msg.keepalive THEN "Keep-Alive" ELSE "Close")

ContentLength(body) == Header(Field("Content-Length"), Len(body))

(* A url that names its host is split at the first slash; "/" when nothing is left. *)
Path(url) == IF url.path = "" THEN "/" ELSE url.path

RequestCookies(cookies) ==
  IF cookies = << >> THEN <<>>
  ELSE <<Header(Field("Cookie"), [key \in DOMAIN cookies |-> UrlEncode(cookies[key].value)])>>

EncodeRequest(msg) ==
  <<[kind |-> "request", method |-> IF msg.method = "" THEN "GET" ELSE msg.method,
     url |-> Path(msg.url), version |-> msg.version]>>
  \o (IF msg.url.host = "" THEN <<>> ELSE <<Header(Field("Host"), msg.url.host)>>)
  \o Lines(msg.headers) \o RequestCookies(msg.cookies)
  \o <<Connection(msg)>> \o sm_default_request_header(msg.headers)
  \o (IF msg.body = <<>> THEN <<Blank>>
      ELSE <<ContentLength(msg.body), Blank>> \o Bytes(msg.body))

ResponseCookies(cookies) ==
  LET keys == SetToSeq(DOMAIN cookies)
      Line(key) ==
        LET c == cookies[key]
        IN  <<Attribute(key, UrlEncode(c.value)), Attribute("path", c.path)>>
            \o (IF c.domain = "" THEN <<>> ELSE <<Attribute("domain", c.domain)>>)
            \o (IF c.expires > 0 THEN <<Attribute("expires", c.expires)>> ELSE <<>>)
  IN  [i \in DOMAIN keys |-> Header(Field("Set-Cookie"), Line(keys[i]))]

(* GetStatus words the code, and atoi reads it back. *)
StatusLine(msg) == [kind |-> "status", version |-> msg.version, code |-> msg.code]

EncodeResponse(msg) ==
  <<StatusLine(msg)>>
  \o Lines(msg.headers) \o ResponseCookies(msg.cookies)
  \o sm_default_header(msg.headers)
  \o <<Header(Field("Date"), "now"), Connection(msg)>>
  \o (IF msg.version = "1.1"
      THEN <<Header(Field("Transfer-Encoding"), "chunked"), Blank, ChunkSize(Len(msg.body))>>
           \o Bytes(msg.body) \o <<Crlf, ChunkSize(0), Crlf>>
      ELSE <<ContentLength(msg.body), Blank>> \o Bytes(msg.body))

Encode(msg) == IF msg.direction = "request" THEN EncodeRequest(msg) ELSE EncodeResponse(msg)

-----------------------------------------------------------------------------
(* Decode: what the header lines say. *)

(* The header lines with a name. *)
Named(head, name) == {i \in DOMAIN head : head[i].kind = "header" /\ head[i].key.name = name}

(* The value of the last of them, which has replaced the others. *)
Latest(head, name, default) ==
  LET at == Named(head, name) IN IF at = {} THEN default ELSE head[Max(at)].value

keepalive(head) ==
  LET said == {i \in Named(head, "Connection") : head[i].value \in {"Close", "Keep-Alive"}}
  IN  IF said = {} THEN head[1].version = "1.1" ELSE head[Max(said)].value = "Keep-Alive"

contentlen(head) == Latest(head, "Content-Length", 0)

ischunked(head) == \E i \in Named(head, "Transfer-Encoding") : head[i].value = "chunked"

(* A time is written in GMT and read as a local one; 0 stands for none. *)
httptime(t) == IF t - Zone > 0 THEN t - Zone ELSE 0

(* The name that attribute i is read with: a flag has no "=", and becomes a part of the
   name of the attribute behind it. *)
NameOf(attributes, i) ==
  LET first == 1 + Max({0} \cup {j \in 1..(i - 1) : ~attributes[j].flag})
  IN  [j \in 1..(i - first + 1) |-> attributes[first + j - 1].name]

(* Every attribute that is not one of the three known ones is taken for the name and
   the value of the cookie, behind those before. *)
DecodeCookie(attributes) ==
  LET With(names) == {i \in DOMAIN attributes : ~attributes[i].flag /\ NameOf(attributes, i) \in names}
      Known == {<<"path">>, <<"domain">>, <<"expires">>}
      Get(name, default) == LET at == With({<<name>>})
                            IN  IF at = {} THEN default ELSE attributes[Max(at)].value
      own == Sorted({i \in DOMAIN attributes : ~attributes[i].flag} \ With(Known))
  IN  [key |-> [j \in DOMAIN own |-> NameOf(attributes, own[j])],
       value |-> [j \in DOMAIN own |-> attributes[own[j]].value],
       path |-> Get("path", ""), domain |-> Get("domain", ""),
       expires |-> httptime(Get("expires", 0))]

Cookies(head) ==
  {c \in {DecodeCookie(head[i].value) : i \in Named(head, "Set-Cookie")} : c.key # <<>>}

(* What the message holds when its head and its body were read; header names are in
   lower case from here on. *)
Message(head, body) ==
  LET names == {head[i].key.name : i \in {j \in DOMAIN head : head[j].kind = "header"}}
  IN  [direction |-> IF head[1].kind = "request" THEN "request" ELSE "response",
       start |-> head[1], keepalive |-> keepalive(head),
       headers |-> [name \in names |-> Latest(head, name, "")],
       cookies |-> Cookies(head), body |-> body]

-----------------------------------------------------------------------------
(* Decode: the pointer it returns. *)

NoMessage == [direction |-> "none"]
Null == [is |-> "NULL", to |-> 0, skew |-> FALSE, msg |-> NoMessage]
Incomplete == [is |-> "buf", to |-> 0, skew |-> FALSE, msg |-> NoMessage]
Beyond == [is |-> "beyond", to |-> 0, skew |-> FALSE, msg |-> NoMessage]
(* Behind token i, or (skew) two bytes further, inside the next one. *)
Upto(i, skew, msg) == [is |-> "next", to |-> i, skew |-> skew, msg |-> msg]

(* The bytes among the tokens from a to b. *)
Body(buf, a, b) ==
  LET at == Sorted({i \in a..b : buf[i].kind = "byte"})
  IN  [j \in DOMAIN at |-> buf[at[j]].value]

(* The end of the head is sought behind the start line, from a line end on: a
   message without a header line has none. *)
HeadEnds(buf) == {i \in 3..Len(buf) : buf[i] = Blank}

(* The loop over the chunks behind the head, which ends at token h. It goes on while
   it has not passed the end of the data, and returns two bytes behind the last
   chunk; at the end of the data it reads a size that is not there. *)
DecodeChunks(buf, h) ==
  LET z == {i \in (h + 1)..Len(buf) : buf[i] = ChunkSize(0)}
      size == Max({i \in 1..Len(buf) : i = h \/ buf[i].kind = "size"})
  IN  IF z # {} /\ Min(z) < Len(buf)
      THEN LET last == Min(z)
               msg == Message(SubSeq(buf, 1, h), Body(buf, h, last))
           IN  {IF buf[last + 1] = Crlf THEN Upto(last + 1, FALSE, msg) ELSE Upto(last, TRUE, msg)}
      ELSE IF z # {} THEN {Beyond}
      ELSE IF buf[Len(buf)] \in {Blank, Crlf} THEN {Null, Incomplete, Beyond}
      ELSE IF buf[size].kind = "size" /\ Len(buf) - size = buf[size].n THEN {Beyond}
      ELSE {Incomplete}

(* The first 16 bytes are waited for, and a start line longer than that must be there
   whole. A part of a token behind buf changes none of the outcomes. *)
Decode(buf) ==
  IF buf = <<>> THEN {Incomplete, Null}
  ELSE IF buf[1].kind \notin {"request", "status"}
  THEN IF Len(buf) <= 2 /\ \A i \in DOMAIN buf : buf[i].kind \in {"size", "crlf"}
       THEN {Incomplete} ELSE {Null}
  ELSE IF HeadEnds(buf) = {}
  THEN {Incomplete} \cup (IF ischunked(buf) THEN {Beyond} ELSE {})
  ELSE LET h == Min(HeadEnds(buf))
           head == SubSeq(buf, 1, h)
           n == contentlen(head)
       IN  IF ischunked(head) THEN DecodeChunks(buf, h)
           ELSE IF h + n > Len(buf) THEN {Incomplete}
           ELSE {Upto(h + n, FALSE, Message(head, Body(buf, h, h + n)))}

CreateHeartBeatMessage(direction) ==
  [direction |-> direction, method |-> "GET", url |-> [host |-> "", path |-> "/HeartBeat"],
   version |-> "1.1", keepalive |-> TRUE, code |-> 200, headers |-> << >>, cookies |-> << >>,
   body |-> <<>>]
=============================================================================
