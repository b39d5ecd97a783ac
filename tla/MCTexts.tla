------------------------------ MODULE MCTexts -------------------------------
(***************************************************************************)
(* The components that turn texts into something else, each on its own:    *)
(* HttpMessages (HttpParser.cpp), ReplyReader and CommandFormat (hiredis). *)
(* They share no state in the program; "part" says which of them a         *)
(* behaviour is about.  That one uses the first of the variables v1 to v9, *)
(* and the others stay 0.                                                  *)
(***************************************************************************)
EXTENDS Integers, Sequences

CONSTANT None

VARIABLES part, v1, v2, v3, v4, v5, v6, v7, v8, v9

vars == <<part, v1, v2, v3, v4, v5, v6, v7, v8, v9>>

-----------------------------------------------------------------------------
(* HttpMessages with requests and responses of every kind of framing; the  *)
(* bodies hold line ends, and the names and values several lexemes.        *)
H(n, v) == [name |-> n, value |-> v]
Request(method, v, hs, frame, parts, trailer, nl) ==
  [type |-> "request", method |-> method, url |-> <<"url", "url">>, v |-> v, status |-> "",
   headers |-> hs, frame |-> frame, parts |-> parts, trailer |-> trailer, nl |-> nl]
Response(status, v, hs, frame, parts) ==
  [type |-> "response", method |-> "", url |-> <<>>, v |-> v, status |-> status,
   headers |-> hs, frame |-> frame, parts |-> parts, trailer |-> <<>>, nl |-> <<"CR", "LF">>]

General == H(<<"tok", "connection">>, <<"tok", "SP", "close">>)
Folded == H(<<"tok">>, <<"tok", "CR", "LF", "SP", "tok">>)
Crlf == <<"CR", "LF">>

AllMessages ==
  { Request("get", "v11", <<General>>, "none", <<>>, <<>>, Crlf),
    Request("head", "v10", <<H(<<"connection">>, <<"tok", ",", "SP", "keep-alive">>)>>, "none", <<>>, <<>>, <<"LF">>),
    Request("get", "v10", <<>>, "length", << <<"CR", "LF">> >>, <<>>, Crlf),
    Request("get", "v11", <<H(<<"connection">>, <<"close", ",", "tok">>)>>, "none", <<>>, <<>>, Crlf),
    Request("get", "v11", <<Folded>>, "chunked", << <<"0">>, <<"CR", "LF", "get">> >>, <<Folded>>, Crlf),
    Request("get", "v11", <<H(<<"upgrade">>, <<"tok">>), H(<<"connection">>, <<"upgrade">>)>>, "none", <<>>, <<>>, Crlf),
    Request("connect", "v11", <<>>, "none", <<>>, <<>>, Crlf),
    Response("200", "v11", <<>>, "length", << <<"tok", "LF">> >>),
    Response("200", "v11", <<General>>, "eof", << <<"CR", "LF", "v11">> >>),
    Response("204", "v11", <<>>, "none", <<>>),
    Response("200", "v11", <<H(<<"connection">>, <<"keep-alive", "SP">>)>>, "chunked", << <<"tok">> >>) }

Messages == INSTANCE HttpMessages
  WITH sent <- v1, stream <- v2, x <- v3,
       MaxLen <- 30, MaxHeader <- 1000, Answers <- {0},
       MaxMessages <- 3, Messages <- AllMessages

(* Replies of all kinds: strings that look like protocol, empty strings    *)
(* and arrays, nils in and out of arrays, arrays in arrays.                *)
Leaf(t, v) == [type |-> t, val |-> v, sub |-> <<>>]
Arr(s) == [type |-> "array", val |-> <<>>, sub |-> s]
Str(v) == Leaf("string", v)

Ok == Leaf("status", <<"o">>)
Err == Leaf("error", <<"e", "CR", "x">>)
Num == Leaf("integer", <<"-", "1", "2">>)
Nil == Leaf("nil", <<>>)
NilArr == Leaf("nilarray", <<>>)
Tricky == Str(<<"CR", "LF", "$", "1", "CR">>)
Ten == Str(<<"a", "b", "c", "d", "e", "f", "g", "h", "i", "j">>)

(* In the last one an array is deeper than the model's stack allows.       *)
AllReplies ==
  {<<Ok, Num, Err>>, <<Str(<<>>), Tricky, Nil>>, <<NilArr, Arr(<<>>), Ok>>,
   <<Arr(<<Str(<<"a">>), Nil, Num>>), Ok>>,
   <<Arr(<<Arr(<<>>), Arr(<<Ok, Tricky>>), NilArr>>), Num>>,
   <<Arr(<<Arr(<<Arr(<<Ok>>), Nil>>), Str(<<"CR">>)>>)>>,
   <<Arr(<<Arr(<<Nil>>), Arr(<<Num>>)>>), Arr(<<Ok, Arr(<<Nil, NilArr>>)>>)>>,
   <<Arr(<<Str(<<"d", "e", "l">>), Ten>>), Num>>,
   <<Ok, Arr(<<Arr(<<Arr(<<Arr(<<Nil>>)>>)>>)>>)>>}

Replies == INSTANCE ReplyReader
  WITH stream <- v1, fed <- v2, pc <- v3, buf <- v4, pos <- v5,
       rstack <- v6, reply <- v7, out <- v8,
       Streams <- AllReplies, MaxTask <- 4, Discard <- 6, MaxRead <- 60

(* Formats of up to four tokens, and some longer ones.                     *)
Tok(k, t) == [kind |-> k, text |-> t]
Tokens == {
  Tok("text", <<"G">>), Tok("space", <<" ">>), Tok("percent", <<"%", "%">>),
  Tok("arg", <<"%", "s">>), Tok("arg", <<"%", "b">>),
  Tok("conversion", <<"%", "d">>), Tok("conversion", <<"%", "-", " ", "d">>),
  Tok("conversion", <<"%", "0", "3", ".", "9", "l", "l", "d">>),
  Tok("unknown", <<"%", "z">>) }
TooLong == Tok("conversion", <<"%", "#", "0", "-", " ", "+", "9", "9", ".", "3", "3", "h", "h", "x">>)
AloneAtEnd == Tok("text", <<"%">>)

AllFormats ==
  UNION {[1..n -> Tokens] : n \in 0..4}
  \cup {Append(t, AloneAtEnd) : t \in UNION {[1..n -> Tokens] : n \in 0..2}}
  \cup {<<TooLong, t>> : t \in Tokens}
  \cup {[i \in 1..23 |-> IF i % 2 = 1 THEN t ELSE Tok("space", <<" ">>)] :
          t \in {Tok("text", <<"G">>), Tok("unknown", <<"%", "z">>)}}

(* The first argument may be empty, or long, or look like a specifier.     *)
AllArguments ==
  {<<a, <<"B">>, <<"1", " ", "2">>, <<"E">>>> :
     a \in {<<>>, <<"%", "s">>, [i \in 1..10 |-> "A"]}}

Commands == INSTANCE CommandFormat
  WITH toks <- v1, args <- v2, c <- v3, ap <- v4, current <- v5,
       touched <- v6, argv <- v7, totlen <- v8, done <- v9,
       Formats <- AllFormats, Arguments <- AllArguments, FormatSize <- 16

ASSUME TextsAssumption ==
  /\ Messages!HttpAssumption /\ Replies!ReplyReaderAssumption /\ Commands!CommandFormatAssumption

-----------------------------------------------------------------------------
Init ==
  \/ /\ part = "messages" /\ Messages!Init
     /\ v4 = 0 /\ v5 = 0 /\ v6 = 0 /\ v7 = 0 /\ v8 = 0 /\ v9 = 0
  \/ part = "replies" /\ Replies!Init /\ v9 = 0
  \/ part = "commands" /\ Commands!Init

MessagesStep ==
  part = "messages" /\ Messages!Next /\ UNCHANGED <<part, v4, v5, v6, v7, v8, v9>>
RepliesStep == part = "replies" /\ Replies!Next /\ UNCHANGED <<part, v9>>
CommandsStep == part = "commands" /\ Commands!Next /\ UNCHANGED part

Next == MessagesStep \/ RepliesStep \/ CommandsStep

Spec == Init /\ [][Next]_vars

-----------------------------------------------------------------------------
(* Properties                                                              *)

(* However the bytes of requests and responses are cut into calls and      *)
(* wherever a callback pauses the parser: the application is told of the   *)
(* messages that were sent, in order, complete when the peer closes, and   *)
(* another one is waited for only if the last left the connection open.    *)
MessagesAsSent ==
  part = "messages" =>
    Messages!MessagesIntact /\ Messages!MessagesComplete /\ Messages!ClosedAfterLast

(* In whatever pieces the bytes arrive, the caller gets the replies that   *)
(* were sent, each as soon as its last byte is there, unless arrays are    *)
(* nested too deep; and what redisFormatCommandArgv writes fits its memory *)
(* and is read as the arguments.                                           *)
RepliesAsSent ==
  part = "replies" =>
    /\ Replies!TypeOK /\ Replies!RepliesAsSent /\ Replies!RepliesInTime
    /\ Replies!DepthSupported /\ Replies!CommandsFit

(* redisvFormatCommand: each word of the format is a word of the command,  *)
(* with the arguments in the places of their specifiers, whatever is in    *)
(* them, and the memory that was computed is the memory written.           *)
CommandsAsMeant ==
  part = "commands" => Commands!TypeOK /\ Commands!WordsAreMeant /\ Commands!LengthFits
=============================================================================
