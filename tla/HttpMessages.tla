---------------------------- MODULE HttpMessages ----------------------------
(***************************************************************************)
(* HttpParser on what a well-behaved peer sends: requests or responses one *)
(* after the other, with headers, and with a body that has a length, comes *)
(* in chunks, or lasts until the connection is closed.                     *)
(***************************************************************************)
EXTENDS HttpParser

CONSTANTS
  Messages,    \* the messages a peer may send
  MaxMessages  \* bound: messages on a connection

VARIABLE sent  \* the messages in stream

vars == <<sent, stream, x>>

(* A message: type; method and url or status; v; headers, each a name and  *)
(* a value of several lexemes; frame and the parts of its body; the        *)
(* headers that follow the last chunk; and how it ends its lines.          *)
Flat(ss) == FlattenSeq(ss)
Digits(n) == <<<<"0", "1", "2", "3">>[n + 1]>>
CrLf == <<"CR", "LF">>

FrameHeaders(m) ==
  CASE m.frame = "length" -> <<[name |-> <<"content-length">>, value |-> Digits(Len(Flat(m.parts)))]>>
    [] m.frame = "chunked" -> <<[name |-> <<"transfer-encoding">>, value |-> <<"chunked">>]>>
    [] OTHER -> <<>>

Headers(m) == m.headers \o FrameHeaders(m)
Lines(hs, nl) == Flat([i \in DOMAIN hs |-> hs[i].name \o <<":", "SP">> \o hs[i].value \o nl])
FirstLine(m) ==
  IF m.type = "request" THEN <<m.method, "SP">> \o m.url \o <<"SP", m.v>>
  ELSE <<m.v, "SP", m.status, "SP", "tok">>
Chunk(part) == Digits(Len(part)) \o CrLf \o part \o CrLf
BodyOf(m) ==
  IF m.frame = "chunked"
    THEN Flat([i \in DOMAIN m.parts |-> Chunk(m.parts[i])]) \o <<"0", ";", "tok">> \o CrLf
           \o Lines(m.trailer, CrLf) \o CrLf
    ELSE Flat(m.parts)
Wire(m) == FirstLine(m) \o m.nl \o Lines(Headers(m), m.nl) \o m.nl \o BodyOf(m)

(* What the application is to be told of a message.                        *)
Call(k) == <<<<k, "">>>>
Told(k, s) == [i \in DOMAIN s |-> <<k, s[i]>>]
ToldHeaders(hs) ==
  Flat([i \in DOMAIN hs |-> Told("field", hs[i].name)
                              \o Told("value", SelectSeq(hs[i].value, LAMBDA c : c \notin {"CR", "LF"}))])
ToldBody(m) ==
  IF m.frame = "chunked"
    THEN Flat([i \in DOMAIN m.parts |-> Call("chunk_header") \o Told("body", m.parts[i])
                                          \o Call("chunk_complete")])
           \o Call("chunk_header") \o ToldHeaders(m.trailer) \o Call("chunk_complete")
    ELSE Told("body", Flat(m.parts))
ToldOf(m) ==
  Call("message_begin")
    \o (IF m.type = "request" THEN Told("url", m.url) ELSE Told("status", <<"tok">>))
    \o ToldHeaders(Headers(m)) \o Call("headers_complete") \o ToldBody(m)
    \o Call("message_complete")
Expected == Flat([i \in DOMAIN sent |-> ToldOf(sent[i])])

(* More messages may follow m on its connection.                           *)
Says(m, word) ==
  \E i \in DOMAIN m.headers : /\ m.headers[i].name = <<"connection">>
                              /\ \E j \in DOMAIN m.headers[i].value : m.headers[i].value[j] = word
Goes(m) == IF m.v = "v11" THEN ~Says(m, "close") ELSE Says(m, "keep-alive")
More(m) == Goes(m) /\ m.frame # "eof" /\ m.method # "connect" /\ ~Says(m, "upgrade")

Init ==
  /\ \E n \in 1..MaxMessages : sent \in [1..n -> Messages]
  /\ \A i \in 1..(Len(sent) - 1) : More(sent[i]) /\ sent[i].type = sent[i + 1].type
  /\ stream = Flat([i \in DOMAIN sent |-> Wire(sent[i])])
  /\ \E type \in {sent[1].type, "both"} : x = Parser(type)

Next == (Read \/ NextCall \/ Pause \/ Eof) /\ UNCHANGED sent

Spec == Init /\ [][Next]_vars

-----------------------------------------------------------------------------
(* Properties                                                              *)

(* However the bytes are cut into calls and wherever a callback pauses the *)
(* parser, it accepts them and tells the application of the messages that  *)
(* were sent, in order, nothing made up, altered or told twice: bodies     *)
(* that look like headers are bodies, and a message ends where it ends.    *)
MessagesIntact == x.err = "OK" /\ IsPrefix(x.seen, Expected)

(* Nothing is missing when the peer closes the connection.                 *)
MessagesComplete == x.st = "eof" \/ x.exit => x.seen = Expected

(* The parser waits for another message exactly when the last one left the *)
(* connection open.                                                        *)
ClosedAfterLast ==
  x.pos > Len(stream) /\ ~x.again /\ ~x.exit /\ x.st # "eof"
    => (x.st \in {"start_req", "start_res"} <=> More(sent[Len(sent)]))
=============================================================================
