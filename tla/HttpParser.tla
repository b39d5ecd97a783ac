----------------------------- MODULE HttpParser -----------------------------
(***************************************************************************)
(* http_parser_execute: the state machine that reads HTTP requests and     *)
(* responses from a connection, in whatever pieces they arrive.            *)
(*                                                                         *)
(* The bytes of a message are abstracted to lexemes: a method, a version,  *)
(* a status, a header name, a word of a value, or one character.  States   *)
(* that only spell a lexeme ("s_req_http_HTT", "h_matching_...") become    *)
(* one; a lexeme counts as one byte.  A word that continues another one    *)
(* makes the name or value unknown, as one more letter does in the code.   *)
(***************************************************************************)
EXTENDS Integers, Sequences, SequencesExt

CONSTANTS
  MaxLen,    \* ULLONG_MAX
  MaxHeader, \* HTTP_MAX_HEADER_SIZE
  Answers    \* what on_headers_complete may answer

HttpAssumption == MaxLen \in Nat /\ MaxLen >= 20 /\ MaxHeader \in Nat
                         /\ Answers \subseteq 0..2

Method == {"get", "head", "connect"}
Version == {"v10", "v11"}
Digit == {"0", "1", "2", "3"}
Status == {"200", "204"}
Value(d) == CHOOSE n \in 0..3 : d = <<"0", "1", "2", "3">>[n + 1]
Name == {"connection", "content-length", "transfer-encoding", "upgrade"}
Word == {"keep-alive", "close", "chunked", "tok"}
Token == Method \cup Digit \cup Status \cup Name \cup Word
Unset == -1  \* content_length = ULLONG_MAX

VARIABLES
  stream,  \* the lexemes the peer has sent
  x        \* the parser, the locals of execute and what the callbacks have told

(* flags: F_*; hst: header_state; v11: http_major and http_minor are above *)
(* 0; pos: the next lexeme; again: REEXECUTE; mark, kind: the mark that is *)
(* set and whose it is, 0 if none; start: where the loop over a name or a  *)
(* value began, 0 outside; fast: that loop skips to the end of the line;   *)
(* told: the step called back; exit: execute returned before the end of    *)
(* its data; fresh: nothing was read in this call; seen: what the          *)
(* application was told.                                                   *)
Parser(type) ==
  [type |-> type,
   st |-> CASE type = "request" -> "start_req"
            [] type = "response" -> "start_res"
            [] OTHER -> "start_req_or_res",
   hst |-> "general", flags |-> {}, len |-> 0, nread |-> 0, method |-> "none",
   v11 |-> FALSE, status |-> "none", upgrade |-> FALSE, err |-> "OK",
   pos |-> 1, again |-> FALSE, mark |-> 0, kind |-> "none", start |-> 0,
   fast |-> FALSE, told |-> FALSE, exit |-> FALSE, fresh |-> TRUE, seen |-> <<>>]

-----------------------------------------------------------------------------
(* The macros                                                              *)

Go(r, st) == [r EXCEPT !.st = st]
Again(r, st) == [r EXCEPT !.st = st, !.again = TRUE]
Fail(r, e) == [r EXCEPT !.err = e]
Mark(r, k) == IF r.mark = 0 THEN [r EXCEPT !.mark = r.pos, !.kind = k] ELSE r

(* CALLBACK_NOTIFY *)
Notify(r, k) == [r EXCEPT !.seen = Append(@, <<k, "">>), !.told = TRUE]

(* The lexemes between the mark and before to, as the data of a callback.  *)
Marked(r, to) ==
  IF r.mark = 0 THEN <<>>
  ELSE [i \in 1..(to - r.mark) |-> <<r.kind, stream[r.mark + i - 1]>>]

(* CALLBACK_DATA *)
Data(r, to) ==
  IF r.mark = 0 THEN r
  ELSE [r EXCEPT !.seen = @ \o Marked(r, to), !.told = TRUE, !.mark = 0]

(* COUNT_HEADER_SIZE *)
Count(r, n) ==
  IF r.err = "OK" /\ r.nread + n > MaxHeader
    THEN [Fail(r, "HEADER_OVERFLOW") EXCEPT !.nread = @ + n]
    ELSE [r EXCEPT !.nread = @ + n]

Body == {"chunk_data", "chunk_data_almost_done", "chunk_data_done",
         "body_identity", "body_identity_eof", "message_done"}
ParsingHeader(st) == st \notin Body

-----------------------------------------------------------------------------
(* Ends of messages                                                        *)

NeedsEof(r) ==
  /\ r.type # "request"
  /\ r.status # "204" /\ "skipbody" \notin r.flags
  /\ "chunked" \notin r.flags /\ r.len = Unset

ShouldKeepAlive(r) ==
  /\ IF r.v11 THEN "close" \notin r.flags ELSE "keep-alive" \in r.flags
  /\ ~NeedsEof(r)

NewMessage(r) ==
  IF ~ShouldKeepAlive(r) THEN "dead"
  ELSE IF r.type = "request" THEN "start_req" ELSE "start_res"

Complete(r) == Notify(Go(r, NewMessage(r)), "message_complete")

-----------------------------------------------------------------------------
(* The first line                                                          *)

Fresh(r) == [r EXCEPT !.flags = {}, !.len = Unset]
ReqMethod(r, c) == Notify([Go(r, "req_method") EXCEPT !.method = c], "message_begin")

Dead(r, c) == IF c \in {"CR", "LF"} THEN r ELSE Fail(r, "CLOSED_CONNECTION")

StartReqOrRes(r, c) ==
  CASE c \in {"CR", "LF"} -> r
    [] c \in Version -> Notify([Go(Fresh(r), "res_version") EXCEPT
                                  !.type = "response", !.v11 = (c = "v11")], "message_begin")
    [] c = "head" -> ReqMethod([Fresh(r) EXCEPT !.type = "request"], c)
    [] OTHER -> Again([Fresh(r) EXCEPT !.type = "request"], "start_req")

StartReq(r, c) ==
  CASE c \in {"CR", "LF"} -> r
    [] c \in Method -> ReqMethod(Fresh(r), c)
    [] OTHER -> Fail(Fresh(r), "INVALID_METHOD")

(* A blank line calls message_begin, too.                                  *)
StartRes(r, c) ==
  CASE c \in Version -> Notify([Go(Fresh(r), "res_version") EXCEPT !.v11 = (c = "v11")],
                               "message_begin")
    [] c \in {"CR", "LF"} -> Notify(Fresh(r), "message_begin")
    [] OTHER -> Fail(Fresh(r), "INVALID_CONSTANT")

ReqUrl(r, c) ==
  CASE r.st = "req_method" ->
         IF c = "SP" THEN Go(r, "req_spaces_before_url") ELSE Fail(r, "INVALID_METHOD")
    [] r.st = "req_spaces_before_url" ->
         IF c = "SP" THEN r
         ELSE IF c = "url" THEN Go(Mark(r, "url"), "req_url")
         ELSE Fail(r, "INVALID_URL")
    [] r.st = "req_url" ->
         CASE c = "SP" -> Data(Go(r, "req_http_start"), r.pos)
           [] c = "CR" -> [Data(Go(r, "req_line_almost_done"), r.pos) EXCEPT !.v11 = FALSE]
           [] c = "LF" -> [Data(Go(r, "header_field_start"), r.pos) EXCEPT !.v11 = FALSE]
           [] c = "url" -> r
           [] OTHER -> Fail(r, "INVALID_URL")

ReqVersion(r, c) ==
  CASE r.st = "req_http_start" ->
         IF c = "SP" THEN r
         ELSE IF c \in Version THEN [Go(r, "req_http_minor") EXCEPT !.v11 = (c = "v11")]
         ELSE Fail(r, "INVALID_CONSTANT")
    [] r.st = "req_http_minor" ->
         CASE c = "CR" -> Go(r, "req_line_almost_done")
           [] c = "LF" -> Go(r, "header_field_start")
           [] OTHER -> Fail(r, "INVALID_VERSION")
    [] r.st = "req_line_almost_done" ->
         IF c = "LF" THEN Go(r, "header_field_start") ELSE Fail(r, "LF_EXPECTED")

EndOfResLine(r, c) == IF c = "CR" THEN Go(r, "res_line_almost_done") ELSE Go(r, "header_field_start")

ResLine(r, c) ==
  CASE r.st = "res_version" ->
         IF c = "SP" THEN Go(r, "res_first_status_code") ELSE Fail(r, "INVALID_VERSION")
    [] r.st = "res_first_status_code" ->
         IF c = "SP" THEN r
         ELSE IF c \in Status THEN [Go(r, "res_status_code") EXCEPT !.status = c]
         ELSE Fail(r, "INVALID_STATUS")
    [] r.st = "res_status_code" ->
         CASE c = "SP" -> Go(r, "res_status_start")
           [] c \in {"CR", "LF"} -> EndOfResLine(r, c)
           [] OTHER -> Fail(r, "INVALID_STATUS")
    [] r.st = "res_status_start" ->
         IF c \in {"CR", "LF"} THEN EndOfResLine(r, c) ELSE Go(Mark(r, "status"), "res_status")
    [] r.st = "res_status" ->
         IF c \in {"CR", "LF"} THEN Data(EndOfResLine(r, c), r.pos) ELSE r
    [] r.st = "res_line_almost_done" ->
         IF c = "LF" THEN Go(r, "header_field_start") ELSE Fail(r, "STRICT")

-----------------------------------------------------------------------------
(* Headers: names                                                          *)

HeaderFieldStart(r, c) ==
  CASE c = "CR" -> Go(r, "headers_almost_done")
    [] c = "LF" -> Again(r, "headers_almost_done")
    [] c \in Token -> [Go(Mark(r, "field"), "header_field") EXCEPT
                         !.hst = IF c \in Name THEN c ELSE "general"]
    [] OTHER -> Fail(r, "INVALID_HEADER_TOKEN")

Loop(r) == IF r.start = 0 THEN [r EXCEPT !.start = r.pos] ELSE r
LeaveLoop(r) == Count([r EXCEPT !.start = 0, !.fast = FALSE], r.pos - r.start)

HeaderField(r, c) ==
  IF c \in Token THEN [Loop(r) EXCEPT !.hst = "general"]
  ELSE LET l == LeaveLoop(Loop(r)) IN
       IF l.err # "OK" THEN l
       ELSE IF c = ":" THEN Data(Go(l, "header_value_discard_ws"), r.pos)
       ELSE Fail(l, "INVALID_HEADER_TOKEN")

-----------------------------------------------------------------------------
(* Headers: values                                                         *)

ContentLengthStart(r, c) ==
  IF c \notin Digit THEN Fail(r, "INVALID_CONTENT_LENGTH")
  ELSE IF "contentlength" \in r.flags THEN Fail(r, "UNEXPECTED_CONTENT_LENGTH")
  ELSE [r EXCEPT !.flags = @ \cup {"contentlength"}, !.len = Value(c)]

ConnectionToken(c) ==
  CASE c = "keep-alive" -> "is_keep-alive" [] c = "close" -> "is_close"
    [] c = "upgrade" -> "is_upgrade" [] OTHER -> "is_token"

ValueStart(r, c) ==
  LET m == Go(Mark(r, "value"), "header_value") IN
  CASE r.hst = "upgrade" -> [m EXCEPT !.flags = @ \cup {"upgrade"}, !.hst = "general"]
    [] r.hst = "transfer-encoding" ->
         [m EXCEPT !.hst = IF c = "chunked" THEN "chunked" ELSE "general"]
    [] r.hst = "content-length" -> ContentLengthStart(m, c)
    [] r.hst = "connection" -> [m EXCEPT !.hst = ConnectionToken(c)]
    [] r.hst = "token_start" -> m
    [] OTHER -> [m EXCEPT !.hst = "general"]

DiscardWs(r, c) ==
  CASE c = "SP" -> r
    [] c = "CR" -> Go(r, "header_value_discard_ws_almost_done")
    [] c = "LF" -> Go(r, "header_value_discard_lws")
    [] OTHER -> ValueStart(r, c)

(* content-length: one more digit, with a check for overflow that looks at *)
(* the length before it.                                                   *)
ContentLength(r, c) ==
  IF c = "SP" THEN r
  ELSE IF c \notin Digit \/ (MaxLen - 10) \div 10 < r.len THEN Fail(r, "INVALID_CONTENT_LENGTH")
  ELSE [r EXCEPT !.len = @ * 10 + Value(c)]

ConnectionFlag(hst) ==
  CASE hst = "is_keep-alive" -> {"keep-alive"} [] hst = "is_close" -> {"close"}
    [] hst = "is_upgrade" -> {"connection_upgrade"} [] hst = "chunked" -> {"chunked"}
    [] OTHER -> {}

(* What a lexeme c inside a value does to header_state and flags.          *)
ValueToken(r, c) ==
  CASE r.hst = "content-length" -> ContentLength(r, c)
    [] r.hst = "chunked" -> IF c = "SP" THEN r ELSE [r EXCEPT !.hst = "general"]
    [] r.hst = "token_start" ->
         IF c \in Token THEN [r EXCEPT !.hst = ConnectionToken(c)]
         ELSE IF c = "SP" THEN r ELSE [r EXCEPT !.hst = "general"]
    [] r.hst = "is_token" ->
         IF c = "," THEN [r EXCEPT !.hst = "token_start"] ELSE r
    [] r.hst \in {"is_keep-alive", "is_close", "is_upgrade"} ->
         CASE c = "," -> [r EXCEPT !.flags = @ \cup ConnectionFlag(r.hst), !.hst = "token_start"]
           [] c = "SP" -> r
           [] OTHER -> [r EXCEPT !.hst = "is_token"]
    [] OTHER -> [r EXCEPT !.hst = "general", !.fast = TRUE]

(* Wrong version: the callback is given the mark of this call only when it *)
(* is still in the loop it was set in.                                     *)
HeaderValueLosesTail(r, c) ==
  LET l == Loop(r) IN
  CASE c = "CR" -> LeaveLoop([Go(l, "header_almost_done") EXCEPT !.mark = 0])
    [] OTHER -> ValueToken(l, c)

(* A general value is searched for the end of its line: only the lexeme    *)
(* the search starts at has been checked for invalid characters.           *)
HeaderValue(r, c) ==
  LET l == Loop(r) IN
  CASE c = "CR" -> LeaveLoop(Data(Go(l, "header_almost_done"), r.pos))
    [] c = "LF" -> LET n == LeaveLoop(Again(l, "header_almost_done")) IN
                   IF n.err = "OK" THEN Data(n, r.pos) ELSE n
    [] OTHER -> IF l.fast THEN l
                ELSE IF c = "ctl" THEN Fail(l, "INVALID_HEADER_TOKEN")
                ELSE ValueToken(l, c)

HeaderAlmostDone(r, c) ==
  IF c = "LF" THEN Go(r, "header_value_lws") ELSE Fail(r, "LF_EXPECTED")

Finished(r) == [r EXCEPT !.flags = @ \cup ConnectionFlag(r.hst)]

HeaderValueLws(r, c) ==
  IF c = "SP" THEN Again(r, "header_value_start")
  ELSE Again(Finished(r), "header_field_start")

DiscardLws(r, c) ==
  IF c = "SP" THEN Go(r, "header_value_discard_ws")
  ELSE Data(Again(Mark(Finished(r), "value"), "header_field_start"), r.pos)

-----------------------------------------------------------------------------
(* The end of the headers                                                  *)

IsUpgrade(r) == {"upgrade", "connection_upgrade"} \subseteq r.flags \/ r.method = "connect"

(* on_headers_complete answers 0, 1 for a message without a body, or 2     *)
(* when another protocol follows.                                          *)
HeadersAlmostDone(r, c, answer) ==
  IF c # "LF" THEN Fail(r, "STRICT")
  ELSE IF "trailing" \in r.flags THEN Notify(Again(r, "message_done"), "chunk_complete")
  ELSE IF {"chunked", "contentlength"} \subseteq r.flags THEN Fail(r, "UNEXPECTED_CONTENT_LENGTH")
  ELSE Notify([Again(r, "headers_done") EXCEPT
                 !.upgrade = IsUpgrade(r) \/ answer = 2,
                 !.flags = IF answer = 0 THEN @ ELSE @ \cup {"skipbody"}],
              "headers_complete")

(* Wrong version: after the headers of a message without a body the next   *)
(* lexemes are still data of that message.                                 *)
HeadersDoneWaits(r, c) ==
  IF "chunked" \in r.flags THEN [Go(r, "chunk_size_start") EXCEPT !.nread = 0]
  ELSE [Go(r, "body_identity") EXCEPT !.nread = 0]

HeadersDone(r, c) ==
  LET n == [r EXCEPT !.nread = 0]
      hasBody == "chunked" \in r.flags \/ r.len > 0
  IN
  IF c # "LF" THEN Fail(r, "STRICT")
  ELSE IF r.upgrade /\ (r.method = "connect" \/ "skipbody" \in r.flags \/ ~hasBody)
    THEN [Complete(n) EXCEPT !.exit = TRUE]
  ELSE IF "skipbody" \in r.flags THEN Complete(n)
  ELSE IF "chunked" \in r.flags THEN Go(n, "chunk_size_start")
  ELSE IF r.len > 0 THEN Go(n, "body_identity")
  ELSE IF r.len = Unset /\ NeedsEof(r) THEN Go(n, "body_identity_eof")
  ELSE Complete(n)

-----------------------------------------------------------------------------
(* Bodies                                                                  *)

(* One byte of to_read; the last one is seen again by message_done.        *)
BodyIdentity(r) ==
  LET m == [Mark(r, "body") EXCEPT !.len = @ - 1] IN
  IF m.len > 0 THEN m ELSE Data(Again(m, "message_done"), r.pos + 1)

MessageDone(r) == [Complete(r) EXCEPT !.exit = r.upgrade]

ChunkSizeStart(r, c) ==
  IF c \in Digit THEN [Go(r, "chunk_size") EXCEPT !.len = Value(c)]
  ELSE Fail(r, "INVALID_CHUNK_SIZE")

ChunkSize(r, c) ==
  CASE c = "CR" -> Go(r, "chunk_size_almost_done")
    [] c \in {";", "SP"} -> Go(r, "chunk_parameters")
    [] OTHER -> IF c \notin Digit THEN Fail(r, "INVALID_CHUNK_SIZE")
                ELSE IF (MaxLen - 16) \div 16 < r.len THEN Fail(r, "INVALID_CONTENT_LENGTH")
                ELSE [r EXCEPT !.len = @ * 16 + Value(c)]

ChunkParameters(r, c) == IF c = "CR" THEN Go(r, "chunk_size_almost_done") ELSE r

ChunkSizeAlmostDone(r, c) ==
  LET n == [r EXCEPT !.nread = 0] IN
  IF c # "LF" THEN Fail(r, "STRICT")
  ELSE IF r.len = 0
    THEN Notify([Go(n, "header_field_start") EXCEPT !.flags = @ \cup {"trailing"}],
                "chunk_header")
    ELSE Notify(Go(n, "chunk_data"), "chunk_header")

ChunkData(r) ==
  LET m == [Mark(r, "body") EXCEPT !.len = @ - 1] IN
  IF m.len > 0 THEN m ELSE Go(m, "chunk_data_almost_done")

ChunkDataAlmostDone(r, c) ==
  IF c # "CR" THEN Fail(r, "STRICT") ELSE Data(Go(r, "chunk_data_done"), r.pos)

ChunkDataDone(r, c) ==
  IF c # "LF" THEN Fail(r, "STRICT")
  ELSE Notify([Go(r, "chunk_size_start") EXCEPT !.nread = 0], "chunk_complete")

-----------------------------------------------------------------------------
(* execute                                                                 *)

(* The switch over the states.                                             *)
Case(r, c, answer) ==
  CASE r.st = "dead" -> Dead(r, c)
    [] r.st = "start_req_or_res" -> StartReqOrRes(r, c)
    [] r.st = "start_req" -> StartReq(r, c)
    [] r.st = "start_res" -> StartRes(r, c)
    [] r.st \in {"res_version", "res_first_status_code", "res_status_code",
                 "res_status_start", "res_status", "res_line_almost_done"} -> ResLine(r, c)
    [] r.st = "header_field_start" -> HeaderFieldStart(r, c)
    [] r.st = "header_field" -> HeaderField(r, c)
    [] r.st = "header_value_discard_ws" -> DiscardWs(r, c)
    [] r.st = "header_value_start" -> ValueStart(r, c)
    [] r.st = "header_value" -> HeaderValue(r, c)
    [] r.st = "header_almost_done" -> HeaderAlmostDone(r, c)
    [] r.st = "header_value_lws" -> HeaderValueLws(r, c)
    [] r.st = "header_value_discard_ws_almost_done" ->
         IF c = "LF" THEN Go(r, "header_value_discard_lws") ELSE Fail(r, "STRICT")
    [] r.st = "header_value_discard_lws" -> DiscardLws(r, c)
    [] r.st = "headers_almost_done" -> HeadersAlmostDone(r, c, answer)
    [] r.st = "headers_done" -> HeadersDone(r, c)
    [] r.st = "body_identity" -> BodyIdentity(r)
    [] r.st = "body_identity_eof" -> Mark(r, "body")
    [] r.st = "message_done" -> MessageDone(r)
    [] r.st = "chunk_size_start" -> ChunkSizeStart(r, c)
    [] r.st = "chunk_size" -> ChunkSize(r, c)
    [] r.st = "chunk_parameters" -> ChunkParameters(r, c)
    [] r.st = "chunk_size_almost_done" -> ChunkSizeAlmostDone(r, c)
    [] r.st = "chunk_data" -> ChunkData(r)
    [] r.st = "chunk_data_almost_done" -> ChunkDataAlmostDone(r, c)
    [] r.st = "chunk_data_done" -> ChunkDataDone(r, c)
    [] r.st \in {"req_method", "req_spaces_before_url", "req_url"} -> ReqUrl(r, c)
    [] OTHER -> ReqVersion(r, c)

(* One round of the loop, or of REEXECUTE, on the lexeme at pos.           *)
Execute(r, answer) ==
  LET top == [r EXCEPT !.again = FALSE, !.told = FALSE, !.fresh = FALSE]
      counted == IF r.again \/ r.start # 0 \/ ~ParsingHeader(r.st) THEN top ELSE Count(top, 1)
      done == IF counted.err = "OK" THEN Case(counted, stream[r.pos], answer) ELSE counted
  IN IF done.err # "OK" \/ done.again THEN done ELSE [done EXCEPT !.pos = @ + 1]

(* The beginning of a call: the locals, and the marks of what goes on.     *)
Enter(r) ==
  LET marked == CASE r.st = "header_field" -> Mark(r, "field") [] r.st = "req_url" -> Mark(r, "url")
                  [] r.st = "header_value" -> Mark(r, "value")
                  [] r.st = "res_status" -> Mark(r, "status") [] OTHER -> r
  IN [marked EXCEPT !.start = 0, !.fast = FALSE, !.again = FALSE, !.told = FALSE, !.fresh = TRUE]

(* The end of the data of a call: leftover marks run their callbacks.      *)
Leave(r) ==
  LET counted == IF r.start = 0 THEN r ELSE LeaveLoop(r)
  IN IF counted.err = "OK" THEN Data(counted, r.pos) ELSE counted

(* A call with len = 0.                                                    *)
AtEof(r) ==
  CASE r.st = "body_identity_eof" -> Notify(r, "message_complete")
    [] r.st \in {"dead", "start_req_or_res", "start_req", "start_res"} -> r
    [] OTHER -> Fail(r, "INVALID_EOF_STATE")

Reading == x.err = "OK" /\ ~x.exit /\ x.st # "eof"

Read ==
  /\ Reading /\ x.pos <= Len(stream)
  /\ \E answer \in Answers : x' = Execute(x, answer)
  /\ UNCHANGED stream

(* The data of this call end here and the next call begins.                *)
NextCall ==
  /\ Reading /\ ~x.fresh /\ ~x.again
  /\ x' = Enter(Leave(x))
  /\ UNCHANGED stream

(* A callback pauses the parser; execute returns at once, and the          *)
(* application unpauses it and calls it with the data that are left.       *)
Pause ==
  /\ Reading /\ x.told
  /\ x' = Enter([x EXCEPT !.mark = 0])
  /\ UNCHANGED stream

(* The peer has closed the connection.                                     *)
Eof ==
  /\ Reading /\ x.fresh /\ x.pos > Len(stream)
  /\ x' = [AtEof(x) EXCEPT !.st = "eof"]
  /\ UNCHANGED stream

-----------------------------------------------------------------------------
(* Properties                                                              *)

States == Body \cup
  {"eof", "dead", "start_req_or_res", "start_req", "start_res", "res_version",
   "res_first_status_code", "res_status_code", "res_status_start", "res_status",
   "res_line_almost_done", "req_method", "req_spaces_before_url", "req_url",
   "req_http_start", "req_http_minor", "req_line_almost_done", "header_field_start",
   "header_field", "header_value_discard_ws", "header_value_discard_ws_almost_done",
   "header_value_discard_lws", "header_value_start", "header_value",
   "header_almost_done", "header_value_lws", "headers_almost_done", "headers_done",
   "chunk_size_start", "chunk_size", "chunk_parameters", "chunk_size_almost_done"}

(* Types: content_length never leaves its width.                           *)
TypeOK ==
  /\ x.st \in States /\ x.len \in Unset..MaxLen /\ x.nread \in Nat
  /\ x.flags \subseteq {"contentlength", "chunked", "keep-alive", "close", "upgrade",
                        "connection_upgrade", "trailing", "skipbody"}
  /\ x.pos \in 1..(Len(stream) + 1) /\ x.mark \in 0..(Len(stream) + 1)

(* The assertions of http_parser_execute hold wherever calls end and       *)
(* callbacks pause: a chunk starts with a counter of 0 bytes, chunk states *)
(* are reached in chunked messages only, a body is read only while some of *)
(* it is missing, and a value never begins in a state its start has left.  *)
AssertionsHold ==
  /\ x.st = "chunk_size_start" /\ x.err = "OK" => x.nread = 0
  /\ x.st \in {"chunk_size_start", "chunk_size", "chunk_parameters", "chunk_data",
               "chunk_size_almost_done", "chunk_data_almost_done", "chunk_data_done"}
       => "chunked" \in x.flags
  /\ x.st \in {"body_identity", "chunk_data"} => x.len > 0
  /\ x.st = "chunk_data_almost_done" => x.len = 0
  /\ x.st = "header_value" => x.hst \notin {"connection", "transfer-encoding"}

(* "Maximium header size allowed" (HttpParser.h:56): headers that are not  *)
(* larger are not refused.                                                 *)
OverflowOnlyAboveLimit == x.err = "HEADER_OVERFLOW" => x.pos > MaxHeader
=============================================================================
