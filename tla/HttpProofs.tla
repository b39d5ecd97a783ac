------------------------------ MODULE HttpProofs -----------------------------
(***************************************************************************)
(* Proofs about HttpParser and HttpSplit, for any stream, any cuts and any *)
(* answers of the callbacks: the parser's assertions hold, and a stream in *)
(* pieces is the same stream.  And about HttpUrl, for URLs of any length:  *)
(* what is accepted is its fields.                                         *)
(*                                                                         *)
(* One parser.  Good says what may be marked in which state, what is known *)
(* of content_length, and how much may have been counted.  The count is    *)
(* the hard part: a byte is counted again when the switch is entered again *)
(* for it (REEXECUTE), and when the loop over a name or a value is left.   *)
(* Eff is the count with the loop that is still running, Rank bounds the   *)
(* rounds a byte may still take, and Eff + Rank <= 5 * pos is kept by      *)
(* every round, every end of the bytes and every pause (Spent).            *)
(*                                                                         *)
(* Two parsers.  Rel relates the one that reads in pieces to the one that  *)
(* reads the whole: they agree on everything but what is marked and what   *)
(* has been counted, and what has been told with what is marked is the     *)
(* same.  For every state of the switch a lemma says that a round keeps    *)
(* Rel; a cut ends a piece for one of them only, which moves what it has   *)
(* marked to what it has told, and counts its loop.                        *)
(*                                                                         *)
(* Both hypotheses of CutAnywhere are needed: a cut inside a value makes   *)
(* its loop count again, so that near the limit it makes the difference    *)
(* between accepted and HPE_HEADER_OVERFLOW, and a cut decides whether a   *)
(* control character in a value is seen by the test for it or passed over  *)
(* by memchr.                                                              *)
(*                                                                         *)
(* The URL.  The invariant names the places where it is cut: schema, host, *)
(* path, query and fragment lie between a, b, c, d, q, g and k, and user,  *)
(* host and port between u and z within the host.  A character moves the   *)
(* cuts that lie at the end of what has been read, and which these are the *)
(* state of the scan tells.  Both scans agree because the second ends at c *)
(* and touches only the three fields in between.                           *)
(***************************************************************************)
EXTENDS Http, SequenceTheorems, TLAPS

(* What is told: a callback, or a piece of text with its kind.             *)
Kind == {"none", "url", "status", "field", "value", "body", "message_begin",
         "headers_complete", "message_complete", "chunk_header", "chunk_complete"}
Event == Kind \X (Lexemes \cup {""})

(* The fields of a parser, and the flags of http_parser.                   *)
Field == {"type", "st", "hst", "flags", "len", "nread", "method", "v11", "status",
          "upgrade", "err", "pos", "again", "mark", "kind", "start", "fast", "told",
          "exit", "fresh", "seen"}
Flag == {"contentlength", "chunked", "keep-alive", "close", "upgrade",
         "connection_upgrade", "trailing", "skipbody"}

(* The states a parser can be in before the stream ends.                   *)
Live(st) == st \in States \ {"eof"}

LEMMA LiveStates ==
  /\ Live("chunk_data") /\ Live("chunk_data_almost_done") /\ Live("chunk_data_done")
  /\ Live("body_identity") /\ Live("body_identity_eof") /\ Live("message_done")
  /\ Live("dead") /\ Live("start_req_or_res") /\ Live("start_req") /\ Live("start_res")
  /\ Live("res_version") /\ Live("res_first_status_code") /\ Live("res_status_code")
  /\ Live("res_status_start") /\ Live("res_status") /\ Live("res_line_almost_done")
  /\ Live("req_method") /\ Live("req_spaces_before_url") /\ Live("req_url")
  /\ Live("req_http_start") /\ Live("req_http_minor") /\ Live("req_line_almost_done")
  /\ Live("header_field_start") /\ Live("header_field") /\ Live("header_value_discard_ws")
  /\ Live("header_value_discard_ws_almost_done") /\ Live("header_value_discard_lws")
  /\ Live("header_value_start") /\ Live("header_value") /\ Live("header_almost_done")
  /\ Live("header_value_lws") /\ Live("headers_almost_done") /\ Live("headers_done")
  /\ Live("chunk_size_start") /\ Live("chunk_size") /\ Live("chunk_parameters")
  /\ Live("chunk_size_almost_done")
BY DEF Live, States, Body

(* Types: marks and the place of the loop are behind the position.         *)
Shape(r) ==
  /\ DOMAIN r = Field
  /\ Live(r.st) /\ r.len \in Unset..MaxLen /\ r.nread \in Nat
  /\ r.flags \subseteq Flag
  /\ r.pos \in Nat /\ 1 <= r.pos /\ r.pos <= Len(stream) + 1
  /\ r.mark \in Nat /\ r.mark <= r.pos /\ r.start \in Nat /\ r.start <= r.pos
  /\ r.kind \in Kind /\ r.seen \in Seq(Event)

(* Something is marked exactly in the states of the URL, the reason, a     *)
(* name and a value, and possibly in a body; of that kind, never when a    *)
(* callback has just been called; only the loops over names and values     *)
(* have a place where they began.                                          *)
Marks(r) == r.err = "OK" =>
  /\ r.mark # 0 => \/ r.st = "req_url" /\ r.kind = "url"
                   \/ r.st = "res_status" /\ r.kind = "status"
                   \/ r.st = "header_field" /\ r.kind = "field"
                   \/ r.st = "header_value" /\ r.kind = "value"
                   \/ /\ r.st \in {"body_identity", "body_identity_eof", "chunk_data",
                                   "chunk_data_almost_done"}
                      /\ r.kind = "body"
  /\ r.st \in {"req_url", "res_status", "header_field", "header_value"} => r.mark # 0
  /\ r.told => r.mark = 0
  /\ r.start # 0 => r.st \in {"header_field", "header_value"}
  /\ r.fast => r.hst = "general" /\ r.st = "header_value"

(* The states of chunks belong to chunked messages, and content_length is  *)
(* as large as the states that use it as a count suppose.                  *)
Lengths(r) ==
  /\ r.st \in {"chunk_size_start", "chunk_size", "chunk_parameters", "chunk_data",
               "chunk_size_almost_done", "chunk_data_almost_done", "chunk_data_done"}
       => "chunked" \in r.flags
  /\ r.st \in {"body_identity", "chunk_data"} => r.len > 0
  /\ r.st = "chunk_data_almost_done" => r.len = 0
  /\ r.st = "header_value" => r.hst \notin {"connection", "transfer-encoding"}
  /\ r.err = "OK" =>
       /\ r.st = "header_value" /\ r.hst = "content-length" => r.len >= 0
       /\ r.st \in {"chunk_size", "chunk_parameters", "chunk_size_almost_done"} => r.len >= 0


Base(r) == Shape(r) /\ Marks(r) /\ Lengths(r)

(* What nread will be when the loop over a name or a value is left.        *)
Eff(r) == IF r.start = 0 THEN r.nread ELSE r.nread + (r.pos - r.start)

(* How many rounds of REEXECUTE a lexeme may still take, with its own.     *)
Rank(st) ==
  CASE st \in {"header_value_lws", "header_value_discard_lws"} -> 4
    [] st = "header_field_start" -> 3
    [] st \in {"headers_almost_done", "header_value", "start_req_or_res", "body_identity"} -> 2
    [] OTHER -> 1

(* What the switch may do to the count, and to the rounds that are left: d *)
(* is r behind the switch.                                                 *)
Rest(r, d) ==
  /\ d.pos = r.pos
  /\ d.st = "chunk_size_start" /\ d.err = "OK" => d.nread = 0
  /\ Eff(d) <= Eff(r)
  /\ d.again => Rank(d.st) < Rank(r.st)
  /\ d.err = "HEADER_OVERFLOW" => Eff(r) > MaxHeader

Done(r, d) == Base(d) /\ Rest(r, d)

(* A record the switch is entered with                                     *)
Entered(r) == Base(r) /\ r.err = "OK" /\ r.told = FALSE /\ r.again = FALSE

(* The constants of HttpParser.                                            *)
LEMMA Constants == MaxLen \in Nat /\ MaxLen >= 20 /\ MaxHeader \in Nat
BY SplitAssumption DEF SplitAssumption, HttpAssumption

LEMMA Kinds ==
  /\ "none" \in Kind /\ "url" \in Kind /\ "status" \in Kind /\ "field" \in Kind
  /\ "value" \in Kind /\ "body" \in Kind /\ "message_begin" \in Kind
  /\ "headers_complete" \in Kind /\ "message_complete" \in Kind
  /\ "chunk_header" \in Kind /\ "chunk_complete" \in Kind
BY DEF Kind

LEMMA Nothing == <<>> \in Seq(Event)
OBVIOUS

(* The operations every state is built from keep the types.                *)
LEMMA GoShape == ASSUME NEW r, Shape(r), NEW st, Live(st) PROVE Shape(Go(r, st))
BY DEF Go, Shape, Field
LEMMA AgainShape == ASSUME NEW r, Shape(r), NEW st, Live(st) PROVE Shape(Again(r, st))
BY DEF Again, Shape, Field
LEMMA FailShape == ASSUME NEW r, Shape(r), NEW e PROVE Shape(Fail(r, e))
BY DEF Fail, Shape, Field
LEMMA MarkShape == ASSUME NEW r, Shape(r), NEW k \in Kind PROVE Shape(Mark(r, k))
BY DEF Mark, Shape, Field
LEMMA NotifyShape == ASSUME NEW r, Shape(r), NEW k \in Kind PROVE Shape(Notify(r, k))
<1>1. <<k, "">> \in Event
  BY DEF Event
<1>2. r.seen \in Seq(Event)
  BY DEF Shape
<1>3. PICK e \in Event : e = <<k, "">>
  BY <1>1
<1>4. Append(r.seen, e) \in Seq(Event)
  BY <1>2
<1>. QED
  BY <1>3, <1>4 DEF Notify, Shape, Field

(* The quiet fields                                                        *)
LEMMA SetShape ==
  ASSUME NEW r, Shape(r), NEW v
  PROVE  /\ Shape([r EXCEPT !.v11 = v]) /\ Shape([r EXCEPT !.method = v])
         /\ Shape([r EXCEPT !.hst = v]) /\ Shape([r EXCEPT !.status = v])
         /\ Shape([r EXCEPT !.type = v]) /\ Shape([r EXCEPT !.exit = v])
         /\ Shape([r EXCEPT !.fast = v])
         /\ v \subseteq Flag => Shape([r EXCEPT !.flags = v])
         /\ v \in Unset..MaxLen => Shape([r EXCEPT !.len = v])
         /\ v \in Nat => Shape([r EXCEPT !.nread = v])
BY DEF Shape, Field

(* A piece of the stream from the mark on is a sequence of events.         *)
LEMMA MarkedSeq ==
  ASSUME NEW r, Shape(r), stream \in Seq(Lexemes), NEW to \in 1..(Len(stream)+1)
  PROVE  Marked(r, to) \in Seq(Event)
<1>. DEFINE n == to - r.mark
<1>1. CASE r.mark = 0
  BY <1>1 DEF Marked
<1>2. CASE r.mark # 0 /\ r.mark > to
  <2>1. 1..n = 1..0
    BY <1>2 DEF Shape
  <2>2. Marked(r, to) = [i \in 1..0 |-> <<r.kind, stream[r.mark + i - 1]>>]
    BY <1>2, <2>1 DEF Marked
  <2>. QED
    BY <2>2
<1>3. CASE r.mark # 0 /\ r.mark <= to
  <2>1. n \in Nat
    BY <1>3 DEF Shape
  <2>2. \A i \in 1..n : <<r.kind, stream[r.mark + i - 1]>> \in Event
    <3>1. SUFFICES ASSUME NEW i \in 1..n PROVE <<r.kind, stream[r.mark + i - 1]>> \in Event
      OBVIOUS
    <3>2. PICK j \in 1..Len(stream) : j = r.mark + i - 1
      BY <1>3 DEF Shape
    <3>3. stream[j] \in Lexemes
      BY <3>2
    <3>. QED
      BY <3>2, <3>3 DEF Shape, Event
  <2>. HIDE DEF n, Event
  <2>3. [i \in 1..n |-> <<r.kind, stream[r.mark + i - 1]>>] \in Seq(Event)
    BY <2>1, <2>2
  <2>. QED
    BY <1>3, <2>3 DEF Marked, n
<1>. QED
  BY <1>1, <1>2, <1>3 DEF Shape

(* CALLBACK_DATA.                                                          *)
LEMMA DataIs ==
  ASSUME stream \in Seq(Lexemes), NEW r, Shape(r), NEW to \in 1..(Len(stream)+1)
  PROVE  /\ Shape(Data(r, to)) /\ Data(r, to).mark = 0
         /\ Data(r, to).st = r.st /\ Data(r, to).hst = r.hst /\ Data(r, to).flags = r.flags
         /\ Data(r, to).len = r.len /\ Data(r, to).nread = r.nread
         /\ Data(r, to).err = r.err /\ Data(r, to).pos = r.pos
         /\ Data(r, to).start = r.start /\ Data(r, to).fast = r.fast
         /\ Data(r, to).again = r.again
<1>1. CASE r.mark = 0
  BY <1>1 DEF Data
<1>2. CASE r.mark # 0
  <2>1. r.seen \o Marked(r, to) \in Seq(Event)
    BY MarkedSeq DEF Shape
  <2>2. PICK s \in Seq(Event) : s = r.seen \o Marked(r, to)
    BY <2>1
  <2>3. Data(r, to) = [r EXCEPT !.seen = s, !.told = TRUE, !.mark = 0]
    BY <1>2, <2>2 DEF Data
  <2>. QED
    BY <2>3 DEF Shape, Field
<1>. QED
  BY <1>1, <1>2

-----------------------------------------------------------------------------
(* One lexeme: the states that mark nothing                                *)

LEMMA ValueIs == ASSUME NEW c \in Digit PROVE Value(c) \in 0..3
<1>1. \E n \in 0..3 : c = <<"0", "1", "2", "3">>[n + 1]
  BY DEF Digit
<1>. QED
  BY <1>1 DEF Value

LEMMA NewMessageIs == ASSUME NEW r PROVE NewMessage(r) \in {"dead", "start_req", "start_res"}
BY DEF NewMessage


LEMMA FreshShape == ASSUME NEW r, Shape(r) PROVE Shape(Fresh(r))
BY Constants DEF Fresh, Shape, Field, Flag, Unset

LEMMA FlagOf == ASSUME NEW hst PROVE ConnectionFlag(hst) \subseteq Flag
BY DEF ConnectionFlag, Flag

LEMMA FinishedShape == ASSUME NEW r, Shape(r) PROVE Shape(Finished(r))
BY FlagOf, SetShape DEF Finished, Shape

LEMMA ReqMethodShape == ASSUME NEW r, Shape(r), NEW c PROVE Shape(ReqMethod(r, c))
BY LiveStates, Kinds, GoShape, SetShape, NotifyShape DEF ReqMethod

LEMMA DeadCase ==
  ASSUME NEW r, NEW c, Entered(r), r.st = "dead"
  PROVE  Done(r, Dead(r, c))
<1>1. Shape(Dead(r, c))
  BY LiveStates, Kinds, GoShape, AgainShape, FailShape, MarkShape, NotifyShape, SetShape
     DEF Dead, Entered, Base
<1>2. Marks(Dead(r, c))
  BY Kinds DEF Dead, Fail, Entered, Base, Shape, Marks, Field
<1>3. Lengths(Dead(r, c))
  BY Constants DEF Dead, Fail, Entered, Base, Shape, Marks, Lengths, Field
<1>4. Rest(r, Dead(r, c))
  BY Constants DEF Dead, Fail, Entered, Base, Shape, Marks, Rest, Eff, Rank, Field
<1>. QED
  BY <1>1, <1>2, <1>3, <1>4 DEF Done, Base

LEMMA StartReqOrResCase ==
  ASSUME NEW r, NEW c, Entered(r), r.st = "start_req_or_res"
  PROVE  Done(r, StartReqOrRes(r, c))
<1>1. Shape(StartReqOrRes(r, c))
  <2>1. Shape(Fresh(r))
    BY FreshShape DEF Entered, Base
  <2>2. Shape([Fresh(r) EXCEPT !.type = "request"])
    BY <2>1, SetShape
  <2>3. Shape([Go(Fresh(r), "res_version") EXCEPT !.type = "response", !.v11 = (c = "v11")])
    BY <2>1, LiveStates DEF Go, Shape, Field
  <2>. QED
    BY <2>1, <2>2, <2>3, LiveStates, Kinds, ReqMethodShape, AgainShape, NotifyShape
       DEF StartReqOrRes, Entered, Base
<1>2. Marks(StartReqOrRes(r, c))
  BY Kinds DEF StartReqOrRes, Fresh, ReqMethod, Notify, Go, Again, Entered, Base, Shape,
     Marks, Field
<1>3. Lengths(StartReqOrRes(r, c))
  BY Constants DEF StartReqOrRes, Fresh, ReqMethod, Notify, Go, Again, Entered, Base,
     Shape, Marks, Lengths, Field
<1>4. Rest(r, StartReqOrRes(r, c))
  BY Constants DEF StartReqOrRes, Fresh, ReqMethod, Notify, Go, Again, Entered, Base,
     Shape, Marks, Rest, Eff, Rank, Field
<1>. QED
  BY <1>1, <1>2, <1>3, <1>4 DEF Done, Base

LEMMA StartReqCase ==
  ASSUME NEW r, NEW c, Entered(r), r.st = "start_req"
  PROVE  Done(r, StartReq(r, c))
<1>1. Shape(StartReq(r, c))
  BY FreshShape, ReqMethodShape, FailShape DEF StartReq, Entered, Base
<1>2. Marks(StartReq(r, c))
  BY Kinds DEF StartReq, Fresh, ReqMethod, Notify, Go, Fail, Entered, Base, Shape, Marks,
     Field
<1>3. Lengths(StartReq(r, c))
  BY Constants DEF StartReq, Fresh, ReqMethod, Notify, Go, Fail, Entered, Base, Shape,
     Marks, Lengths, Field
<1>4. Rest(r, StartReq(r, c))
  BY Constants DEF StartReq, Fresh, ReqMethod, Notify, Go, Fail, Entered, Base, Shape,
     Marks, Rest, Eff, Rank, Field
<1>. QED
  BY <1>1, <1>2, <1>3, <1>4 DEF Done, Base

LEMMA StartResCase ==
  ASSUME NEW r, NEW c, Entered(r), r.st = "start_res"
  PROVE  Done(r, StartRes(r, c))
<1>1. Shape(StartRes(r, c))
  <2>1. Shape([Go(Fresh(r), "res_version") EXCEPT !.v11 = (c = "v11")])
    BY FreshShape, SetShape, GoShape, LiveStates DEF Entered, Base
  <2>. QED
    BY <2>1, Kinds, FreshShape, NotifyShape, FailShape DEF StartRes, Entered, Base
<1>2. Marks(StartRes(r, c))
  BY Kinds DEF StartRes, Fresh, Notify, Go, Fail, Entered, Base, Shape, Marks, Field
<1>3. Lengths(StartRes(r, c))
  BY Constants DEF StartRes, Fresh, Notify, Go, Fail, Entered, Base, Shape, Marks,
     Lengths, Field
<1>4. Rest(r, StartRes(r, c))
  BY Constants DEF StartRes, Fresh, Notify, Go, Fail, Entered, Base, Shape, Marks, Rest,
     Eff, Rank, Field
<1>. QED
  BY <1>1, <1>2, <1>3, <1>4 DEF Done, Base

LEMMA ReqMethodCase ==
  ASSUME NEW r, NEW c, Entered(r), r.st = "req_method"
  PROVE  Done(r, ReqUrl(r, c))
<1>1. Shape(ReqUrl(r, c))
  BY LiveStates, Kinds, GoShape, AgainShape, FailShape, MarkShape, NotifyShape, SetShape
     DEF ReqUrl, Entered, Base
<1>2. Marks(ReqUrl(r, c))
  BY Kinds DEF ReqUrl, Go, Fail, Entered, Base, Shape, Marks, Field
<1>3. Lengths(ReqUrl(r, c))
  BY Constants DEF ReqUrl, Go, Fail, Entered, Base, Shape, Marks, Lengths, Field
<1>4. Rest(r, ReqUrl(r, c))
  BY Constants DEF ReqUrl, Go, Fail, Entered, Base, Shape, Marks, Rest, Eff, Rank, Field
<1>. QED
  BY <1>1, <1>2, <1>3, <1>4 DEF Done, Base

LEMMA ReqSpacesCase ==
  ASSUME NEW r, NEW c, Entered(r), r.st = "req_spaces_before_url"
  PROVE  Done(r, ReqUrl(r, c))
<1>1. Shape(ReqUrl(r, c))
  BY LiveStates, Kinds, GoShape, AgainShape, FailShape, MarkShape, NotifyShape, SetShape
     DEF ReqUrl, Entered, Base
<1>2. Marks(ReqUrl(r, c))
  BY Kinds DEF ReqUrl, Go, Fail, Mark, Entered, Base, Shape, Marks, Field
<1>3. Lengths(ReqUrl(r, c))
  BY Constants DEF ReqUrl, Go, Fail, Mark, Entered, Base, Shape, Marks, Lengths, Field
<1>4. Rest(r, ReqUrl(r, c))
  BY Constants DEF ReqUrl, Go, Fail, Mark, Entered, Base, Shape, Marks, Rest, Eff, Rank,
     Field
<1>. QED
  BY <1>1, <1>2, <1>3, <1>4 DEF Done, Base

LEMMA ReqVersionCase ==
  ASSUME NEW r, NEW c, Entered(r),
         r.st \in {"req_http_start", "req_http_minor", "req_line_almost_done"}
  PROVE  Done(r, ReqVersion(r, c))
<1>1. Shape(ReqVersion(r, c))
  BY LiveStates, Kinds, GoShape, AgainShape, FailShape, MarkShape, NotifyShape, SetShape
     DEF ReqVersion, Entered, Base
<1>2. Marks(ReqVersion(r, c))
  BY Kinds DEF ReqVersion, Go, Fail, Entered, Base, Shape, Marks, Field
<1>3. Lengths(ReqVersion(r, c))
  BY Constants DEF ReqVersion, Go, Fail, Entered, Base, Shape, Marks, Lengths, Field
<1>4. Rest(r, ReqVersion(r, c))
  BY Constants DEF ReqVersion, Go, Fail, Entered, Base, Shape, Marks, Rest, Eff, Rank, Field
<1>. QED
  BY <1>1, <1>2, <1>3, <1>4 DEF Done, Base

LEMMA ResLineCase ==
  ASSUME NEW r, NEW c, Entered(r),
         r.st \in {"res_version", "res_first_status_code", "res_status_code",
         "res_status_start", "res_line_almost_done"}
  PROVE  Done(r, ResLine(r, c))
<1>1. Shape(ResLine(r, c))
  BY LiveStates, Kinds, GoShape, AgainShape, FailShape, MarkShape, NotifyShape, SetShape
     DEF ResLine, EndOfResLine, Entered, Base
<1>2. Marks(ResLine(r, c))
  BY Kinds DEF ResLine, EndOfResLine, Go, Fail, Mark, Entered, Base, Shape, Marks, Field
<1>3. Lengths(ResLine(r, c))
  BY Constants DEF ResLine, EndOfResLine, Go, Fail, Mark, Entered, Base, Shape, Marks,
     Lengths, Field
<1>4. Rest(r, ResLine(r, c))
  BY Constants DEF ResLine, EndOfResLine, Go, Fail, Mark, Entered, Base, Shape, Marks,
     Rest, Eff, Rank, Field
<1>. QED
  BY <1>1, <1>2, <1>3, <1>4 DEF Done, Base

LEMMA HeaderFieldStartCase ==
  ASSUME NEW r, NEW c, Entered(r), r.st = "header_field_start"
  PROVE  Done(r, HeaderFieldStart(r, c))
<1>1. Shape(HeaderFieldStart(r, c))
  BY LiveStates, Kinds, GoShape, AgainShape, FailShape, MarkShape, NotifyShape, SetShape
     DEF HeaderFieldStart, Entered, Base
<1>2. Marks(HeaderFieldStart(r, c))
  BY Kinds DEF HeaderFieldStart, Go, Again, Fail, Mark, Entered, Base, Shape, Marks, Field
<1>3. Lengths(HeaderFieldStart(r, c))
  BY Constants DEF HeaderFieldStart, Go, Again, Fail, Mark, Entered, Base, Shape, Marks,
     Lengths, Field
<1>4. Rest(r, HeaderFieldStart(r, c))
  BY Constants DEF HeaderFieldStart, Go, Again, Fail, Mark, Entered, Base, Shape, Marks,
     Rest, Eff, Rank, Field
<1>. QED
  BY <1>1, <1>2, <1>3, <1>4 DEF Done, Base

LEMMA HeaderAlmostDoneCase ==
  ASSUME NEW r, NEW c, Entered(r), r.st = "header_almost_done"
  PROVE  Done(r, HeaderAlmostDone(r, c))
<1>1. Shape(HeaderAlmostDone(r, c))
  BY LiveStates, Kinds, GoShape, AgainShape, FailShape, MarkShape, NotifyShape, SetShape
     DEF HeaderAlmostDone, Entered, Base
<1>2. Marks(HeaderAlmostDone(r, c))
  BY Kinds DEF HeaderAlmostDone, Go, Fail, Entered, Base, Shape, Marks, Field
<1>3. Lengths(HeaderAlmostDone(r, c))
  BY Constants DEF HeaderAlmostDone, Go, Fail, Entered, Base, Shape, Marks, Lengths, Field
<1>4. Rest(r, HeaderAlmostDone(r, c))
  BY Constants DEF HeaderAlmostDone, Go, Fail, Entered, Base, Shape, Marks, Rest, Eff,
     Rank, Field
<1>. QED
  BY <1>1, <1>2, <1>3, <1>4 DEF Done, Base

LEMMA HeaderValueLwsCase ==
  ASSUME NEW r, NEW c, Entered(r), r.st = "header_value_lws"
  PROVE  Done(r, HeaderValueLws(r, c))
<1>1. Shape(HeaderValueLws(r, c))
  BY LiveStates, FinishedShape, AgainShape DEF HeaderValueLws, Entered, Base
<1>2. Marks(HeaderValueLws(r, c))
  BY Kinds DEF HeaderValueLws, Again, Finished, Entered, Base, Shape, Marks, Field
<1>3. Lengths(HeaderValueLws(r, c))
  BY Constants DEF HeaderValueLws, Again, Finished, Entered, Base, Shape, Marks, Lengths,
     Field
<1>4. Rest(r, HeaderValueLws(r, c))
  BY Constants DEF HeaderValueLws, Again, Finished, Entered, Base, Shape, Marks, Rest,
     Eff, Rank, Field
<1>. QED
  BY <1>1, <1>2, <1>3, <1>4 DEF Done, Base

LEMMA HeadersAlmostDoneCase ==
  ASSUME NEW r, NEW c, NEW a, Entered(r), r.st = "headers_almost_done"
  PROVE  Done(r, HeadersAlmostDone(r, c, a))
<1>1. Shape(HeadersAlmostDone(r, c, a))
  <2>. DEFINE d == [Again(r, "headers_done") EXCEPT
                     !.upgrade = IsUpgrade(r) \/ a = 2,
                     !.flags = IF a = 0 THEN @ ELSE @ \cup {"skipbody"}]
  <2>1. Shape(d)
    BY LiveStates DEF Again, Shape, Field, Flag, Entered, Base
  <2>. HIDE DEF d
  <2>2. Shape(Notify(d, "headers_complete"))
    BY <2>1, NotifyShape, Kinds
  <2>3. Shape(Notify(Again(r, "message_done"), "chunk_complete"))
    BY AgainShape, NotifyShape, Kinds, LiveStates DEF Entered, Base
  <2>. QED
    BY <2>2, <2>3, FailShape DEF HeadersAlmostDone, d, Entered, Base
<1>2. Marks(HeadersAlmostDone(r, c, a))
  BY Kinds DEF HeadersAlmostDone, IsUpgrade, Notify, Again, Fail, Entered, Base, Shape,
     Marks, Field
<1>3. Lengths(HeadersAlmostDone(r, c, a))
  BY Constants DEF HeadersAlmostDone, IsUpgrade, Notify, Again, Fail, Entered, Base,
     Shape, Marks, Lengths, Field
<1>4. Rest(r, HeadersAlmostDone(r, c, a))
  BY Constants DEF HeadersAlmostDone, IsUpgrade, Notify, Again, Fail, Entered, Base,
     Shape, Marks, Rest, Eff, Rank, Field
<1>. QED
  BY <1>1, <1>2, <1>3, <1>4 DEF Done, Base

LEMMA HeadersDoneCase ==
  ASSUME NEW r, NEW c, Entered(r), r.st = "headers_done"
  PROVE  Done(r, HeadersDone(r, c))
<1>1. Shape(HeadersDone(r, c))
  BY NewMessageIs, LiveStates, Kinds, GoShape, AgainShape, FailShape, MarkShape,
     NotifyShape, SetShape
     DEF HeadersDone, Complete, Entered, Base
<1>2. Marks(HeadersDone(r, c))
  BY NewMessageIs, Kinds DEF HeadersDone, Complete, Notify, Go, Fail, Entered, Base,
     Shape, Marks, Field
<1>3. Lengths(HeadersDone(r, c))
  BY NewMessageIs, Constants DEF HeadersDone, Complete, Notify, Go, Fail, Entered, Base,
     Shape, Marks, Lengths, Field
<1>4. Rest(r, HeadersDone(r, c))
  BY NewMessageIs, Constants DEF HeadersDone, Complete, Notify, Go, Fail, Entered, Base,
     Shape, Marks, Rest, Eff, Rank, Field
<1>. QED
  BY <1>1, <1>2, <1>3, <1>4 DEF Done, Base

LEMMA MessageDoneCase ==
  ASSUME NEW r, Entered(r), r.st = "message_done"
  PROVE  Done(r, MessageDone(r))
<1>1. Shape(MessageDone(r))
  BY NewMessageIs, LiveStates, Kinds, GoShape, AgainShape, FailShape, MarkShape,
     NotifyShape, SetShape
     DEF MessageDone, Complete, Entered, Base
<1>2. Marks(MessageDone(r))
  BY NewMessageIs, Kinds DEF MessageDone, Complete, Notify, Go, Entered, Base, Shape,
     Marks, Field
<1>3. Lengths(MessageDone(r))
  BY NewMessageIs, Constants DEF MessageDone, Complete, Notify, Go, Entered, Base, Shape,
     Marks, Lengths, Field
<1>4. Rest(r, MessageDone(r))
  BY NewMessageIs, Constants DEF MessageDone, Complete, Notify, Go, Entered, Base, Shape,
     Marks, Rest, Eff, Rank, Field
<1>. QED
  BY <1>1, <1>2, <1>3, <1>4 DEF Done, Base

LEMMA ChunkSizeStartCase ==
  ASSUME NEW r, NEW c, Entered(r), r.st = "chunk_size_start"
  PROVE  Done(r, ChunkSizeStart(r, c))
<1>1. Shape(ChunkSizeStart(r, c))
  <2>1. c \in Digit => Value(c) \in Unset..MaxLen
    BY ValueIs, Constants DEF Unset
  <2>. QED
    BY <2>1, LiveStates, GoShape, FailShape, SetShape DEF ChunkSizeStart, Entered, Base
<1>2. Marks(ChunkSizeStart(r, c))
  BY ValueIs, Kinds DEF ChunkSizeStart, Go, Fail, Entered, Base, Shape, Marks, Field
<1>3. Lengths(ChunkSizeStart(r, c))
  BY ValueIs, Constants DEF ChunkSizeStart, Go, Fail, Entered, Base, Shape, Marks,
     Lengths, Field
<1>4. Rest(r, ChunkSizeStart(r, c))
  BY ValueIs, Constants DEF ChunkSizeStart, Go, Fail, Entered, Base, Shape, Marks, Rest,
     Eff, Rank, Field
<1>. QED
  BY <1>1, <1>2, <1>3, <1>4 DEF Done, Base

(* The bounds on content_length hold after another digit.                  *)
LEMMA LengthFits ==
  ASSUME NEW len \in Unset..MaxLen, 0 <= len, NEW v \in 0..3
  PROVE  /\ ~((MaxLen - 16) \div 16 < len) => len * 16 + v \in 0..MaxLen
         /\ ~((MaxLen - 10) \div 10 < len) => len * 10 + v \in 0..MaxLen
<1>1. MaxLen - 16 \in Nat /\ MaxLen - 10 \in Nat
  BY Constants
<1>2. \A n \in Nat : 16 * (n \div 16) <= n /\ 10 * (n \div 10) <= n /\ n \div 16 \in Nat /\ n \div 10 \in Nat
  OBVIOUS
<1>3. 16 * ((MaxLen - 16) \div 16) <= MaxLen - 16 /\ (MaxLen - 16) \div 16 \in Nat
  BY <1>1, <1>2
<1>4. 10 * ((MaxLen - 10) \div 10) <= MaxLen - 10 /\ (MaxLen - 10) \div 10 \in Nat
  BY <1>1, <1>2
<1>5. len \in Nat
  BY DEF Unset
<1>. QED
  BY <1>3, <1>4, <1>5, Constants

LEMMA ChunkSizeCase ==
  ASSUME NEW r, NEW c, Entered(r), r.st = "chunk_size"
  PROVE  Done(r, ChunkSize(r, c))
<1>. DEFINE n == r.len * 16 + Value(c)
<1>1. CASE c \in Digit /\ ~((MaxLen - 16) \div 16 < r.len) /\ c \notin {"CR", ";", "SP"}
  <2>1. n \in 0..MaxLen
    BY <1>1, ValueIs, LengthFits DEF Entered, Base, Shape, Lengths
  <2>2. PICK m \in 0..MaxLen : m = n
    BY <2>1
  <2>3. ChunkSize(r, c) = [r EXCEPT !.len = m]
    BY <1>1, <2>2 DEF ChunkSize
  <2>4. m \in Unset..MaxLen
    BY Constants DEF Unset
  <2>5. Shape([r EXCEPT !.len = m])
    BY <2>4, SetShape DEF Entered, Base
  <2>6. Marks([r EXCEPT !.len = m]) /\ Lengths([r EXCEPT !.len = m])
    BY DEF Entered, Base, Shape, Marks, Lengths, Field
  <2>7. Rest(r, [r EXCEPT !.len = m])
    BY DEF Entered, Base, Shape, Rest, Eff, Field
  <2>. QED
    BY <2>3, <2>5, <2>6, <2>7 DEF Done, Base
<1>2. CASE ~(c \in Digit /\ ~((MaxLen - 16) \div 16 < r.len) /\ c \notin {"CR", ";", "SP"})
  <2>1. ChunkSize(r, c) \in {Go(r, "chunk_size_almost_done"), Go(r, "chunk_parameters"),
                             Fail(r, "INVALID_CHUNK_SIZE"), Fail(r, "INVALID_CONTENT_LENGTH")}
    BY <1>2 DEF ChunkSize
  <2>2. Shape(ChunkSize(r, c))
    BY <2>1, LiveStates, GoShape, FailShape DEF Entered, Base
  <2>3. Marks(ChunkSize(r, c)) /\ Lengths(ChunkSize(r, c))
    BY <2>1 DEF Go, Fail, Entered, Base, Shape, Marks, Lengths, Field
  <2>4. Rest(r, ChunkSize(r, c))
    BY <2>1, Constants DEF Go, Fail, Entered, Base, Shape, Marks, Rest, Eff, Field
  <2>. QED
    BY <2>2, <2>3, <2>4 DEF Done, Base
<1>. QED
  BY <1>1, <1>2

LEMMA ChunkParametersCase ==
  ASSUME NEW r, NEW c, Entered(r), r.st = "chunk_parameters"
  PROVE  Done(r, ChunkParameters(r, c))
<1>1. Shape(ChunkParameters(r, c))
  BY LiveStates, Kinds, GoShape, AgainShape, FailShape, MarkShape, NotifyShape, SetShape
     DEF ChunkParameters, Entered, Base
<1>2. Marks(ChunkParameters(r, c))
  BY Kinds DEF ChunkParameters, Go, Entered, Base, Shape, Marks, Field
<1>3. Lengths(ChunkParameters(r, c))
  BY Constants DEF ChunkParameters, Go, Entered, Base, Shape, Marks, Lengths, Field
<1>4. Rest(r, ChunkParameters(r, c))
  BY Constants DEF ChunkParameters, Go, Entered, Base, Shape, Marks, Rest, Eff, Rank, Field
<1>. QED
  BY <1>1, <1>2, <1>3, <1>4 DEF Done, Base

LEMMA ChunkSizeAlmostDoneCase ==
  ASSUME NEW r, NEW c, Entered(r), r.st = "chunk_size_almost_done"
  PROVE  Done(r, ChunkSizeAlmostDone(r, c))
<1>1. Shape(ChunkSizeAlmostDone(r, c))
  <2>1. Shape([r EXCEPT !.nread = 0])
    BY SetShape DEF Entered, Base
  <2>2. Shape([Go([r EXCEPT !.nread = 0], "header_field_start") EXCEPT
                 !.flags = @ \cup {"trailing"}])
    BY <2>1, LiveStates DEF Go, Shape, Field, Flag
  <2>. QED
    BY <2>1, <2>2, LiveStates, Kinds, GoShape, FailShape, NotifyShape
       DEF ChunkSizeAlmostDone, Entered, Base
<1>2. Marks(ChunkSizeAlmostDone(r, c))
  BY Kinds DEF ChunkSizeAlmostDone, Notify, Go, Fail, Entered, Base, Shape, Marks, Field
<1>3. Lengths(ChunkSizeAlmostDone(r, c))
  BY Constants DEF ChunkSizeAlmostDone, Notify, Go, Fail, Entered, Base, Shape, Marks,
     Lengths, Field
<1>4. Rest(r, ChunkSizeAlmostDone(r, c))
  BY Constants DEF ChunkSizeAlmostDone, Notify, Go, Fail, Entered, Base, Shape, Marks,
     Rest, Eff, Rank, Field
<1>. QED
  BY <1>1, <1>2, <1>3, <1>4 DEF Done, Base

LEMMA ChunkDataDoneCase ==
  ASSUME NEW r, NEW c, Entered(r), r.st = "chunk_data_done"
  PROVE  Done(r, ChunkDataDone(r, c))
<1>1. Shape(ChunkDataDone(r, c))
  BY LiveStates, Kinds, GoShape, AgainShape, FailShape, MarkShape, NotifyShape, SetShape
     DEF ChunkDataDone, Entered, Base
<1>2. Marks(ChunkDataDone(r, c))
  BY Kinds DEF ChunkDataDone, Notify, Go, Fail, Entered, Base, Shape, Marks, Field
<1>3. Lengths(ChunkDataDone(r, c))
  BY Constants DEF ChunkDataDone, Notify, Go, Fail, Entered, Base, Shape, Marks, Lengths,
     Field
<1>4. Rest(r, ChunkDataDone(r, c))
  BY Constants DEF ChunkDataDone, Notify, Go, Fail, Entered, Base, Shape, Marks, Rest,
     Eff, Rank, Field
<1>. QED
  BY <1>1, <1>2, <1>3, <1>4 DEF Done, Base

-----------------------------------------------------------------------------
(* One lexeme: the URL, the reason of a status line, bodies                *)

LEMMA InStream ==
  ASSUME stream \in Seq(Lexemes), NEW r, Shape(r)
  PROVE  /\ r.pos \in 1..(Len(stream) + 1)
         /\ r.pos <= Len(stream) => r.pos + 1 \in 1..(Len(stream) + 1)
BY DEF Shape

(* d is r in state st, its mark taken back.                                *)
Ended(r, d, st) ==
  /\ Shape(d) /\ d.mark = 0 /\ d.st = st
  /\ d.hst = r.hst /\ d.flags = r.flags /\ d.len = r.len /\ d.nread = r.nread
  /\ d.err = r.err /\ d.pos = r.pos /\ d.start = r.start /\ d.fast = r.fast
  /\ d.again = r.again

LEMMA DataGo ==
  ASSUME stream \in Seq(Lexemes), NEW r, Shape(r), NEW st, Live(st)
  PROVE  Ended(r, Data(Go(r, st), r.pos), st)
<1>. PICK g : g = Go(r, st)
  OBVIOUS
<1>1. Shape(g)
  BY GoShape
<1>2. /\ g.st = st /\ g.pos = r.pos /\ g.hst = r.hst /\ g.flags = r.flags /\ g.len = r.len
      /\ g.nread = r.nread /\ g.err = r.err /\ g.start = r.start /\ g.fast = r.fast
      /\ g.again = r.again
  BY DEF Go, Shape, Field
<1>3. r.pos \in 1..(Len(stream) + 1)
  BY InStream
<1>. QED
  BY <1>1, <1>2, <1>3, DataIs DEF Ended

LEMMA ReqUrlCase ==
  ASSUME stream \in Seq(Lexemes), NEW r, NEW c, Entered(r), r.st = "req_url"
  PROVE  Done(r, ReqUrl(r, c))
<1>1. CASE c \in {"SP", "CR", "LF"}
  <2>1. PICK st \in {"req_http_start", "req_line_almost_done", "header_field_start"} :
          \/ ReqUrl(r, c) = Data(Go(r, st), r.pos)
          \/ ReqUrl(r, c) = [Data(Go(r, st), r.pos) EXCEPT !.v11 = FALSE]
    BY <1>1 DEF ReqUrl
  <2>2. PICK d : d = Data(Go(r, st), r.pos)
    OBVIOUS
  <2>3. Ended(r, d, st)
    BY <2>2, DataGo, LiveStates DEF Entered, Base
  <2>4. d.start = 0 /\ d.fast = FALSE /\ DOMAIN d = Field
    BY <2>3 DEF Ended, Entered, Base, Marks, Shape
  <2>5. Shape(ReqUrl(r, c))
    <3>1. ReqUrl(r, c) = d \/ ReqUrl(r, c) = [d EXCEPT !.v11 = FALSE]
      BY <2>1, <2>2
    <3>2. Shape(d)
      BY <2>3 DEF Ended
    <3>3. Shape([d EXCEPT !.v11 = FALSE])
      BY <3>2, SetShape
    <3>. QED
      BY <3>1, <3>2, <3>3
  <2>6. Marks(ReqUrl(r, c)) /\ Lengths(ReqUrl(r, c))
    BY <2>1, <2>2, <2>3, <2>4 DEF Ended, Marks, Lengths, Field
  <2>7. Rest(r, ReqUrl(r, c))
    BY <2>1, <2>2, <2>3, <2>4 DEF Ended, Rest, Eff, Field, Entered, Base, Shape, Marks
  <2>. QED
    BY <2>5, <2>6, <2>7 DEF Done, Base
<1>2. CASE c \notin {"SP", "CR", "LF"}
  <2>1. ReqUrl(r, c) = r \/ ReqUrl(r, c) = Fail(r, "INVALID_URL")
    BY <1>2 DEF ReqUrl
  <2>2. Shape(ReqUrl(r, c))
    BY <2>1, FailShape DEF Entered, Base
  <2>3. Marks(ReqUrl(r, c)) /\ Lengths(ReqUrl(r, c))
    BY <2>1 DEF Fail, Entered, Base, Shape, Marks, Lengths, Field
  <2>4. Rest(r, ReqUrl(r, c))
    BY <2>1 DEF Fail, Rest, Eff, Field, Entered, Base, Shape, Marks
  <2>. QED
    BY <2>2, <2>3, <2>4 DEF Done, Base
<1>. QED
  BY <1>1, <1>2

LEMMA ResStatusCase ==
  ASSUME stream \in Seq(Lexemes), NEW r, NEW c, Entered(r), r.st = "res_status"
  PROVE  Done(r, ResLine(r, c))
<1>1. CASE c \in {"CR", "LF"}
  <2>1. PICK st \in {"res_line_almost_done", "header_field_start"} :
          ResLine(r, c) = Data(Go(r, st), r.pos)
    BY <1>1 DEF ResLine, EndOfResLine
  <2>2. PICK d : d = ResLine(r, c)
    OBVIOUS
  <2>3. Ended(r, d, st)
    BY <2>1, <2>2, DataGo, LiveStates DEF Entered, Base
  <2>4. d.start = 0 /\ d.fast = FALSE
    BY <2>3 DEF Ended, Entered, Base, Marks, Shape
  <2>5. Marks(d) /\ Lengths(d)
    BY <2>3, <2>4 DEF Ended, Marks, Lengths
  <2>6. Rest(r, d)
    BY <2>3, <2>4 DEF Ended, Rest, Eff, Entered, Base, Shape, Marks
  <2>. QED
    BY <2>2, <2>3, <2>5, <2>6 DEF Done, Base, Ended
<1>2. CASE c \notin {"CR", "LF"}
  <2>1. ResLine(r, c) = r
    BY <1>2 DEF ResLine
  <2>2. Rest(r, r)
    BY DEF Rest, Entered, Base, Shape, Eff
  <2>. QED
    BY <2>1, <2>2 DEF Done, Entered
<1>. QED
  BY <1>1, <1>2

LEMMA ChunkDataAlmostDoneCase ==
  ASSUME stream \in Seq(Lexemes), NEW r, NEW c, Entered(r), r.st = "chunk_data_almost_done"
  PROVE  Done(r, ChunkDataAlmostDone(r, c))
<1>1. CASE c = "CR"
  <2>2. PICK d : d = ChunkDataAlmostDone(r, c)
    OBVIOUS
  <2>3. Ended(r, d, "chunk_data_done")
    BY <1>1, <2>2, DataGo, LiveStates DEF Entered, Base, ChunkDataAlmostDone
  <2>4. d.start = 0 /\ d.fast = FALSE
    BY <2>3 DEF Ended, Entered, Base, Marks, Shape
  <2>5. Marks(d) /\ Lengths(d)
    BY <2>3, <2>4 DEF Ended, Marks, Lengths, Entered, Base
  <2>6. Rest(r, d)
    BY <2>3, <2>4 DEF Ended, Rest, Eff, Entered, Base, Shape, Marks
  <2>. QED
    BY <2>2, <2>3, <2>5, <2>6 DEF Done, Base, Ended
<1>2. CASE c # "CR"
  <2>1. ChunkDataAlmostDone(r, c) = Fail(r, "STRICT")
    BY <1>2 DEF ChunkDataAlmostDone
  <2>2. Shape(Fail(r, "STRICT"))
    BY FailShape DEF Entered, Base
  <2>3. Marks(Fail(r, "STRICT")) /\ Lengths(Fail(r, "STRICT"))
    BY DEF Fail, Entered, Base, Shape, Marks, Lengths, Field
  <2>4. Rest(r, Fail(r, "STRICT"))
    BY DEF Fail, Rest, Eff, Field, Entered, Base, Shape, Marks
  <2>. QED
    BY <2>1, <2>2, <2>3, <2>4 DEF Done, Base
<1>. QED
  BY <1>1, <1>2

(* One byte of a body                                                      *)
BodyByte(r) == [Mark(r, "body") EXCEPT !.len = @ - 1]

ByteRead(r, m) ==
  /\ Shape(m) /\ m.len = r.len - 1 /\ m.mark # 0 /\ m.kind = "body"
  /\ m.st = r.st /\ m.pos = r.pos /\ m.flags = r.flags /\ m.hst = r.hst
  /\ m.nread = r.nread /\ m.err = "OK" /\ m.start = 0 /\ m.fast = FALSE
  /\ m.told = FALSE /\ m.again = FALSE

LEMMA BodyByteIs ==
  ASSUME NEW r, Entered(r), r.st \in {"body_identity", "chunk_data"}
  PROVE  ByteRead(r, BodyByte(r))
<1>. PICK m : m = Mark(r, "body")
  OBVIOUS
<1>1. Shape(m)
  BY MarkShape, Kinds DEF Entered, Base
<1>2. /\ m.mark # 0 /\ m.kind = "body" /\ m.st = r.st /\ m.pos = r.pos /\ m.len = r.len
      /\ m.flags = r.flags /\ m.hst = r.hst /\ m.nread = r.nread /\ m.err = "OK"
      /\ m.start = 0 /\ m.fast = FALSE /\ m.told = FALSE /\ m.again = FALSE
  BY DEF Mark, Entered, Base, Shape, Marks, Field
<1>3. r.len - 1 \in Unset..MaxLen
  <2>1. r.len \in -1..MaxLen /\ r.len > 0
    BY DEF Entered, Base, Shape, Lengths, Unset
  <2>. QED
    BY <2>1, Constants DEF Unset
<1>4. BodyByte(r) = [m EXCEPT !.len = r.len - 1]
  BY <1>2 DEF BodyByte
<1>5. Shape([m EXCEPT !.len = r.len - 1])
  BY <1>1, <1>3, SetShape
<1>. QED
  BY <1>1, <1>2, <1>4, <1>5 DEF ByteRead, Shape, Field

LEMMA ChunkDataCase ==
  ASSUME NEW r, Entered(r), r.st = "chunk_data"
  PROVE  Done(r, ChunkData(r))
<1>. PICK m : m = BodyByte(r)
  OBVIOUS
<1>0. ByteRead(r, m)
  BY BodyByteIs
<1>1. ChunkData(r) = IF m.len > 0 THEN m ELSE Go(m, "chunk_data_almost_done")
  BY DEF ChunkData, BodyByte
<1>2. Shape(ChunkData(r))
  BY <1>1, <1>0, GoShape, LiveStates DEF ByteRead
<1>3. Marks(ChunkData(r))
  BY <1>1, <1>0 DEF ByteRead, Go, Marks, Shape, Field
<1>4. Lengths(ChunkData(r))
  BY <1>1, <1>0 DEF ByteRead, Go, Lengths, Shape, Field, Entered, Base
<1>5. Rest(r, ChunkData(r))
  BY <1>1, <1>0 DEF ByteRead, Go, Rest, Eff, Shape, Field, Entered, Base, Marks
<1>. QED
  BY <1>2, <1>3, <1>4, <1>5 DEF Done, Base

LEMMA BodyIdentityCase ==
  ASSUME stream \in Seq(Lexemes), NEW r, Entered(r), r.st = "body_identity",
         r.pos <= Len(stream)
  PROVE  Done(r, BodyIdentity(r))
<1>. PICK m : m = BodyByte(r)
  OBVIOUS
<1>0. ByteRead(r, m)
  BY BodyByteIs
<1>1. BodyIdentity(r) = IF m.len > 0 THEN m ELSE Data(Again(m, "message_done"), r.pos + 1)
  BY DEF BodyIdentity, BodyByte
<1>2. CASE m.len > 0
  <2>1. Shape(m) /\ Marks(m) /\ Lengths(m)
    BY <1>2, <1>0 DEF ByteRead, Marks, Lengths, Entered, Base
  <2>2. Rest(r, m)
    BY <1>0 DEF ByteRead, Rest, Eff, Entered, Base, Shape, Marks
  <2>. QED
    BY <1>1, <1>2, <2>1, <2>2 DEF Done, Base
<1>3. CASE ~(m.len > 0)
  <2>. PICK g, d : g = Again(m, "message_done") /\ d = Data(g, r.pos + 1)
    OBVIOUS
  <2>1. Shape(g) /\ r.pos + 1 \in 1..(Len(stream) + 1)
    BY <1>0, AgainShape, LiveStates, InStream DEF ByteRead, Entered, Base
  <2>2. /\ g.st = "message_done" /\ g.pos = r.pos /\ g.err = "OK" /\ g.start = 0
        /\ g.fast = FALSE /\ g.nread = r.nread /\ g.again = TRUE
    BY <1>0 DEF ByteRead, Again, Shape, Field
  <2>3. /\ Shape(d) /\ d.mark = 0 /\ d.st = "message_done" /\ d.pos = r.pos /\ d.err = "OK"
        /\ d.start = 0 /\ d.fast = FALSE /\ d.nread = r.nread /\ d.again = TRUE
    BY <2>1, <2>2, DataIs
  <2>4. Marks(d) /\ Lengths(d)
    BY <2>3 DEF Marks, Lengths
  <2>5. Rest(r, d)
    BY <2>3 DEF Rest, Eff, Rank, Entered, Base, Shape, Marks
  <2>. QED
    BY <1>1, <1>3, <2>3, <2>4, <2>5 DEF Done, Base
<1>. QED
  BY <1>2, <1>3

LEMMA BodyEofCase ==
  ASSUME NEW r, Entered(r), r.st = "body_identity_eof"
  PROVE  Done(r, Mark(r, "body"))
<1>1. Shape(Mark(r, "body"))
  BY MarkShape, Kinds DEF Entered, Base
<1>2. Marks(Mark(r, "body")) /\ Lengths(Mark(r, "body"))
  BY DEF Mark, Entered, Base, Shape, Marks, Lengths, Field
<1>3. Rest(r, Mark(r, "body"))
  BY DEF Mark, Rest, Eff, Entered, Base, Shape, Marks, Field
<1>. QED
  BY <1>1, <1>2, <1>3 DEF Done, Base

-----------------------------------------------------------------------------
(* One lexeme: the loops over names and values of headers                  *)

(* COUNT_HEADER_SIZE                                                       *)
LEMMA CountIs ==
  ASSUME NEW r, Shape(r), r.err = "OK", NEW n \in Nat
  PROVE  /\ Shape(Count(r, n)) /\ Count(r, n).nread = r.nread + n
         /\ IF r.nread + n > MaxHeader
              THEN Count(r, n).err = "HEADER_OVERFLOW" ELSE Count(r, n).err = "OK"
         /\ Count(r, n).st = r.st /\ Count(r, n).hst = r.hst /\ Count(r, n).flags = r.flags
         /\ Count(r, n).len = r.len /\ Count(r, n).pos = r.pos /\ Count(r, n).mark = r.mark
         /\ Count(r, n).kind = r.kind /\ Count(r, n).start = r.start
         /\ Count(r, n).fast = r.fast /\ Count(r, n).told = r.told
         /\ Count(r, n).again = r.again /\ Count(r, n).seen = r.seen
<1>1. PICK m \in Nat : m = r.nread + n
  BY DEF Shape
<1>2. CASE m > MaxHeader
  <2>1. Count(r, n) = [Fail(r, "HEADER_OVERFLOW") EXCEPT !.nread = m]
    BY <1>1, <1>2 DEF Count, Fail, Shape, Field
  <2>2. Shape(Fail(r, "HEADER_OVERFLOW"))
    BY FailShape
  <2>3. Shape([Fail(r, "HEADER_OVERFLOW") EXCEPT !.nread = m])
    BY <2>2, SetShape
  <2>. QED
    BY <1>1, <1>2, <2>1, <2>3 DEF Fail, Shape, Field
<1>3. CASE ~(m > MaxHeader)
  <2>1. Count(r, n) = [r EXCEPT !.nread = m]
    BY <1>1, <1>3 DEF Count
  <2>. QED
    BY <1>1, <1>3, <2>1, SetShape DEF Shape, Field
<1>. QED
  BY <1>2, <1>3

(* d is r when the loop over a name or a value is left.                    *)
Left(r, d) ==
  /\ Shape(d) /\ d.nread = Eff(r) /\ d.start = 0 /\ d.fast = FALSE
  /\ IF Eff(r) > MaxHeader THEN d.err = "HEADER_OVERFLOW" ELSE d.err = "OK"
  /\ d.st = r.st /\ d.hst = r.hst /\ d.flags = r.flags /\ d.len = r.len
  /\ d.pos = r.pos /\ d.mark = r.mark /\ d.kind = r.kind /\ d.told = r.told
  /\ d.again = r.again /\ d.seen = r.seen

LEMMA LeaveLoopIs ==
  ASSUME NEW r, Shape(r), r.err = "OK", r.start # 0
  PROVE  Left(r, LeaveLoop(r))
<1>1. PICK n \in Nat : n = r.pos - r.start
  BY DEF Shape
<1>2. PICK q : q = [r EXCEPT !.start = 0, !.fast = FALSE]
  OBVIOUS
<1>3. Shape(q)
  BY <1>2 DEF Shape, Field
<1>4. /\ q.nread = r.nread /\ q.start = 0 /\ q.fast = FALSE /\ q.err = "OK"
      /\ q.st = r.st /\ q.hst = r.hst /\ q.flags = r.flags /\ q.len = r.len
      /\ q.pos = r.pos /\ q.mark = r.mark /\ q.kind = r.kind /\ q.told = r.told
      /\ q.again = r.again /\ q.seen = r.seen
  BY <1>2 DEF Shape, Field
<1>5. LeaveLoop(r) = Count(q, n)
  BY <1>1, <1>2 DEF LeaveLoop
<1>6. Eff(r) = q.nread + n
  BY <1>1, <1>4 DEF Eff
<1>. QED
  BY <1>3, <1>4, <1>5, <1>6, CountIs DEF Left

(* l is r in the loop over a name or a value.                              *)
Looping(r, l) ==
  /\ Shape(l) /\ Eff(l) = Eff(r) /\ l.start # 0 /\ l.nread = r.nread
  /\ l.err = r.err /\ l.st = r.st /\ l.hst = r.hst /\ l.flags = r.flags /\ l.len = r.len
  /\ l.pos = r.pos /\ l.mark = r.mark /\ l.kind = r.kind /\ l.told = r.told
  /\ l.again = r.again /\ l.seen = r.seen /\ l.fast = r.fast

LEMMA LoopIs == ASSUME NEW r, Shape(r) PROVE Looping(r, Loop(r))
BY DEF Looping, Loop, Eff, Shape, Field

LEMMA HeaderFieldCase ==
  ASSUME stream \in Seq(Lexemes), NEW r, NEW c, Entered(r), r.st = "header_field"
  PROVE  Done(r, HeaderField(r, c))
<1>. PICK l : l = Loop(r)
  OBVIOUS
<1>0. Looping(r, l)
  BY LoopIs DEF Entered, Base
<1>1. CASE c \in Token
  <2>1. PICK d : d = [l EXCEPT !.hst = "general"]
    OBVIOUS
  <2>2. HeaderField(r, c) = d
    BY <1>1, <2>1 DEF HeaderField
  <2>3. Shape(d)
    BY <1>0, <2>1, SetShape DEF Looping
  <2>4. Marks(d) /\ Lengths(d)
    BY <1>0, <2>1 DEF Looping, Entered, Base, Shape, Marks, Lengths, Field
  <2>5. Rest(r, d)
    BY <1>0, <2>1 DEF Looping, Rest, Eff, Entered, Base, Shape, Marks, Field
  <2>. QED
    BY <2>2, <2>3, <2>4, <2>5 DEF Done, Base
<1>2. CASE c \notin Token
  <2>. PICK d : d = LeaveLoop(l)
    OBVIOUS
  <2>1. Left(l, d)
    BY <1>0, LeaveLoopIs DEF Looping, Entered
  <2>2. CASE d.err # "OK"
    <3>1. HeaderField(r, c) = d
      BY <1>2, <2>2 DEF HeaderField
    <3>2. Marks(d) /\ Lengths(d)
      BY <1>0, <2>1, <2>2 DEF Looping, Left, Entered, Base, Marks, Lengths
    <3>3. Rest(r, d)
      BY <1>0, <2>1, <2>2 DEF Looping, Left, Rest, Eff, Entered, Base, Shape, Marks
    <3>. QED
      BY <2>1, <3>1, <3>2, <3>3 DEF Done, Base, Left
  <2>3. CASE d.err = "OK" /\ c = ":"
    <3>. PICK e : e = Data(Go(d, "header_value_discard_ws"), d.pos)
      OBVIOUS
    <3>1. HeaderField(r, c) = e
      BY <1>0, <1>2, <2>1, <2>3 DEF HeaderField, Looping, Left
    <3>2. Ended(d, e, "header_value_discard_ws")
      BY <2>1, DataGo, LiveStates DEF Left
    <3>3. Marks(e) /\ Lengths(e)
      BY <2>1, <3>2 DEF Left, Ended, Marks, Lengths
    <3>4. Rest(r, e)
      BY <1>0, <2>1, <2>3, <3>2 DEF Looping, Left, Ended, Rest, Eff, Entered, Base, Shape,
         Marks
    <3>. QED
      BY <3>1, <3>2, <3>3, <3>4 DEF Done, Base, Ended
  <2>4. CASE d.err = "OK" /\ c # ":"
    <3>. PICK e : e = Fail(d, "INVALID_HEADER_TOKEN")
      OBVIOUS
    <3>1. HeaderField(r, c) = e
      BY <1>2, <2>4 DEF HeaderField
    <3>2. Shape(e)
      BY <2>1, FailShape DEF Left
    <3>3. Marks(e) /\ Lengths(e)
      BY <1>0, <2>1 DEF Fail, Looping, Left, Entered, Base, Shape, Marks, Lengths, Field
    <3>4. Rest(r, e)
      BY <1>0, <2>1, <2>4 DEF Fail, Looping, Left, Rest, Eff, Entered, Base, Shape, Marks,
         Field
    <3>. QED
      BY <3>1, <3>2, <3>3, <3>4 DEF Done, Base
  <2>. QED
    BY <2>2, <2>3, <2>4
<1>. QED
  BY <1>1, <1>2

-----------------------------------------------------------------------------
(* One lexeme: where a value begins                                        *)

(* m is r at the first lexeme of a value.                                  *)
Opened(r, m) ==
  /\ Shape(m) /\ m.mark = r.pos /\ m.kind = "value" /\ m.st = "header_value"
  /\ m.hst = r.hst /\ m.flags = r.flags /\ m.len = r.len /\ m.nread = r.nread
  /\ m.pos = r.pos /\ m.err = "OK" /\ m.start = 0 /\ m.fast = FALSE /\ m.told = FALSE
  /\ m.again = FALSE

LEMMA OpenedIs ==
  ASSUME NEW r, Entered(r), r.st \in {"header_value_discard_ws", "header_value_start"}
  PROVE  Opened(r, Go(Mark(r, "value"), "header_value"))
<1>2. Shape(Go(Mark(r, "value"), "header_value"))
  BY Kinds, LiveStates, MarkShape, GoShape DEF Entered, Base
<1>. QED
  BY <1>2 DEF Opened, Mark, Go, Entered, Base, Shape, Marks, Field

LEMMA TokenIs ==
  ASSUME NEW c
  PROVE  ConnectionToken(c) \in {"is_keep-alive", "is_close", "is_upgrade", "is_token"}
BY DEF ConnectionToken

(* What the first lexeme of a value may change.                            *)
Begun(r, d) ==
  /\ Shape(d) /\ d.mark # 0 /\ d.kind = "value" /\ d.st = "header_value"
  /\ d.hst \notin {"connection", "transfer-encoding"}
  /\ d.err = "OK" /\ d.hst = "content-length" => d.len >= 0
  /\ d.nread = r.nread /\ d.pos = r.pos /\ d.start = 0 /\ d.fast = FALSE /\ d.told = FALSE
  /\ d.again = FALSE /\ d.err # "HEADER_OVERFLOW"

LEMMA ValueStartIs ==
  ASSUME NEW r, NEW c, Entered(r),
         r.st \in {"header_value_discard_ws", "header_value_start"}
  PROVE  Begun(r, ValueStart(r, c))
<1>. PICK m : m = Go(Mark(r, "value"), "header_value")
  OBVIOUS
<1>0. Opened(r, m)
  BY OpenedIs
<1>a. Shape(m) /\ DOMAIN m = Field
  BY <1>0 DEF Opened, Shape
<1>1. CASE r.hst = "upgrade"
  <2>1. ValueStart(r, c) = [m EXCEPT !.flags = @ \cup {"upgrade"}, !.hst = "general"]
    BY <1>1 DEF ValueStart
  <2>. QED
    BY <2>1, <1>0 DEF Opened, Begun, Shape, Field, Flag
<1>2. CASE r.hst = "transfer-encoding"
  <2>1. PICK h \in {"chunked", "general"} : ValueStart(r, c) = [m EXCEPT !.hst = h]
    BY <1>2 DEF ValueStart
  <2>. QED
    BY <2>1, <1>0 DEF Opened, Begun, Shape, Field
<1>3. CASE r.hst = "content-length"
  <2>1. ValueStart(r, c) = ContentLengthStart(m, c)
    BY <1>3 DEF ValueStart
  <2>2. CASE c \notin Digit \/ "contentlength" \in m.flags
    <3>1. PICK e \in {"INVALID_CONTENT_LENGTH", "UNEXPECTED_CONTENT_LENGTH"} :
            ValueStart(r, c) = Fail(m, e)
      BY <2>1, <2>2 DEF ContentLengthStart
    <3>. QED
      BY <3>1, <1>0, <1>3 DEF Fail, Opened, Begun, Shape, Field
  <2>3. CASE ~(c \notin Digit \/ "contentlength" \in m.flags)
    <3>1. PICK v \in 0..3 : v = Value(c)
      BY <2>3, ValueIs
    <3>2. ValueStart(r, c) = [m EXCEPT !.flags = @ \cup {"contentlength"}, !.len = v]
      BY <2>1, <2>3, <3>1 DEF ContentLengthStart
    <3>3. v \in Unset..MaxLen
      BY <3>1, Constants DEF Unset
    <3>. QED
      BY <3>1, <3>2, <3>3, <1>0, <1>3 DEF Opened, Begun, Shape, Field, Flag
  <2>. QED
    BY <2>2, <2>3
<1>4. CASE r.hst = "connection"
  <2>1. PICK h \in {"is_keep-alive", "is_close", "is_upgrade", "is_token"} :
          ValueStart(r, c) = [m EXCEPT !.hst = h]
    BY <1>4, TokenIs DEF ValueStart
  <2>. QED
    BY <2>1, <1>0 DEF Opened, Begun, Shape, Field
<1>5. CASE r.hst = "token_start"
  <2>1. ValueStart(r, c) = m
    BY <1>5 DEF ValueStart
  <2>2. Begun(r, m)
    BY <1>0, <1>5 DEF Opened, Begun, Shape
  <2>. QED
    BY <2>1, <2>2
<1>6. CASE r.hst \notin {"upgrade", "transfer-encoding", "content-length", "connection",
                         "token_start"}
  <2>1. ValueStart(r, c) = [m EXCEPT !.hst = "general"]
    BY <1>6 DEF ValueStart
  <2>. QED
    BY <2>1, <1>0 DEF Opened, Begun, Shape, Field
<1>. QED
  BY <1>1, <1>2, <1>3, <1>4, <1>5, <1>6

LEMMA ValueStartCase ==
  ASSUME NEW r, NEW c, Entered(r),
         r.st \in {"header_value_discard_ws", "header_value_start"}
  PROVE  Done(r, ValueStart(r, c))
<1>. PICK d : d = ValueStart(r, c)
  OBVIOUS
<1>1. Begun(r, d)
  BY ValueStartIs
<1>2. Marks(d) /\ Lengths(d)
  BY <1>1 DEF Begun, Marks, Lengths
<1>3. Rest(r, d)
  BY <1>1 DEF Begun, Rest, Eff, Entered, Base, Shape, Marks
<1>. QED
  BY <1>1, <1>2, <1>3 DEF Done, Base, Begun

LEMMA DiscardWsCase ==
  ASSUME NEW r, NEW c, Entered(r), r.st = "header_value_discard_ws"
  PROVE  Done(r, DiscardWs(r, c))
<1>1. CASE c \in {"SP", "CR", "LF"}
  <2>1. PICK st \in {"header_value_discard_ws_almost_done", "header_value_discard_lws"} :
          DiscardWs(r, c) = r \/ DiscardWs(r, c) = Go(r, st)
    BY <1>1 DEF DiscardWs
  <2>2. Shape(DiscardWs(r, c))
    BY <2>1, GoShape, LiveStates DEF Entered, Base
  <2>3. Marks(DiscardWs(r, c)) /\ Lengths(DiscardWs(r, c))
    BY <2>1 DEF Go, Entered, Base, Shape, Marks, Lengths, Field
  <2>4. Rest(r, DiscardWs(r, c))
    BY <2>1 DEF Go, Entered, Base, Shape, Marks, Rest, Eff, Field
  <2>. QED
    BY <2>2, <2>3, <2>4 DEF Done, Base
<1>2. CASE c \notin {"SP", "CR", "LF"}
  BY <1>2, ValueStartCase DEF DiscardWs
<1>. QED
  BY <1>1, <1>2

DiscardWsEnd(r, c) ==
  IF c = "LF" THEN Go(r, "header_value_discard_lws") ELSE Fail(r, "STRICT")

LEMMA DiscardWsEndCase ==
  ASSUME NEW r, NEW c, Entered(r), r.st = "header_value_discard_ws_almost_done"
  PROVE  Done(r, DiscardWsEnd(r, c))
<1>2. Shape(DiscardWsEnd(r, c))
  BY GoShape, FailShape, LiveStates DEF Entered, Base, DiscardWsEnd
<1>3. Marks(DiscardWsEnd(r, c)) /\ Lengths(DiscardWsEnd(r, c))
  BY DEF DiscardWsEnd, Go, Fail, Entered, Base, Shape, Marks, Lengths, Field
<1>4. Rest(r, DiscardWsEnd(r, c))
  BY DEF DiscardWsEnd, Go, Fail, Entered, Base, Shape, Marks, Rest, Eff, Field
<1>. QED
  BY <1>2, <1>3, <1>4 DEF Done, Base

LEMMA DiscardLwsCase ==
  ASSUME stream \in Seq(Lexemes), NEW r, NEW c, Entered(r),
         r.st = "header_value_discard_lws"
  PROVE  Done(r, DiscardLws(r, c))
<1>1. CASE c = "SP"
  <2>1. DiscardLws(r, c) = Go(r, "header_value_discard_ws")
    BY <1>1 DEF DiscardLws
  <2>2. Shape(DiscardLws(r, c))
    BY <2>1, GoShape, LiveStates DEF Entered, Base
  <2>3. Marks(DiscardLws(r, c)) /\ Lengths(DiscardLws(r, c))
    BY <2>1 DEF Go, Entered, Base, Shape, Marks, Lengths, Field
  <2>4. Rest(r, DiscardLws(r, c))
    BY <2>1 DEF Go, Entered, Base, Shape, Marks, Rest, Eff, Field
  <2>. QED
    BY <2>2, <2>3, <2>4 DEF Done, Base
<1>2. CASE c # "SP"
  <2>. PICK f, m, a : f = Finished(r) /\ m = Mark(f, "value") /\ a = Again(m, "header_field_start")
    OBVIOUS
  <2>1. Shape(f) /\ Shape(m) /\ Shape(a)
    BY FinishedShape, MarkShape, Kinds, AgainShape, LiveStates DEF Entered, Base
  <2>2. f.nread = r.nread /\ f.pos = r.pos /\ f.err = "OK" /\ f.start = 0 /\ f.fast = FALSE
    BY DEF Finished, Entered, Base, Shape, Marks, Field
  <2>3. m.nread = r.nread /\ m.pos = r.pos /\ m.err = "OK" /\ m.start = 0 /\ m.fast = FALSE
    BY <2>1, <2>2 DEF Mark, Shape, Field
  <2>4. /\ a.nread = r.nread /\ a.pos = r.pos /\ a.err = "OK" /\ a.start = 0 /\ a.fast = FALSE
        /\ a.st = "header_field_start" /\ a.again = TRUE
    BY <2>1, <2>3 DEF Again, Shape, Field
  <2>. PICK d : d = Data(a, r.pos)
    OBVIOUS
  <2>a. r.pos \in 1..(Len(stream) + 1)
    BY InStream DEF Entered, Base
  <2>5. /\ Shape(d) /\ d.nread = r.nread /\ d.pos = r.pos /\ d.err = "OK" /\ d.start = 0
        /\ d.fast = FALSE /\ d.st = "header_field_start" /\ d.again = TRUE /\ d.mark = 0
    BY <2>1, <2>4, <2>a, DataIs
  <2>6. Marks(d) /\ Lengths(d)
    BY <2>5 DEF Marks, Lengths
  <2>7. Rest(r, d)
    BY <2>5 DEF Rest, Eff, Rank, Entered, Base, Shape, Marks
  <2>8. DiscardLws(r, c) = d
    BY <1>2 DEF DiscardLws
  <2>. QED
    BY <2>5, <2>6, <2>7, <2>8 DEF Done, Base
<1>. QED
  BY <1>1, <1>2

-----------------------------------------------------------------------------
(* One lexeme: inside a value                                              *)

(* What a lexeme inside a value may change.                                *)
Taken(l, d) ==
  /\ Shape(d) /\ d.st = l.st /\ d.mark = l.mark /\ d.kind = l.kind
  /\ d.hst \notin {"connection", "transfer-encoding"}
  /\ d.err = "OK" /\ d.hst = "content-length" => d.len >= 0
  /\ d.nread = l.nread /\ d.pos = l.pos /\ d.start = l.start /\ d.told = l.told
  /\ d.again = l.again /\ d.err # "HEADER_OVERFLOW" /\ d.seen = l.seen
  /\ d.fast => d.hst = "general"

(* l is a value that a lexeme of it is taken into.                         *)
InValue(l) ==
  /\ Shape(l) /\ l.st = "header_value" /\ l.err = "OK" /\ l.fast = FALSE
  /\ l.hst \notin {"connection", "transfer-encoding"}
  /\ l.hst = "content-length" => l.len >= 0

LEMMA ContentLengthIs ==
  ASSUME NEW l, NEW c, InValue(l), l.hst = "content-length"
  PROVE  Taken(l, ContentLength(l, c))
<1>1. CASE c = "SP"
  <2>1. ContentLength(l, c) = l
    BY <1>1 DEF ContentLength
  <2>2. Taken(l, l)
    BY DEF InValue, Taken
  <2>. QED
    BY <2>1, <2>2
<1>2. CASE c # "SP" /\ (c \notin Digit \/ (MaxLen - 10) \div 10 < l.len)
  <2>1. ContentLength(l, c) = Fail(l, "INVALID_CONTENT_LENGTH")
    BY <1>2 DEF ContentLength
  <2>2. Taken(l, Fail(l, "INVALID_CONTENT_LENGTH"))
    BY DEF InValue, Taken, Fail, Shape, Field
  <2>. QED
    BY <2>1, <2>2
<1>3. CASE c # "SP" /\ c \in Digit /\ ~((MaxLen - 10) \div 10 < l.len)
  <2>1. PICK v \in 0..3 : v = Value(c)
    BY <1>3, ValueIs
  <2>2. l.len \in Nat
    BY Constants DEF InValue, Shape, Unset
  <2>3. l.len * 10 + v \in Unset..MaxLen /\ l.len * 10 + v >= 0
    BY <1>3, <2>1, <2>2, Constants DEF Unset
  <2>4. PICK n \in Unset..MaxLen : n = l.len * 10 + v /\ n >= 0
    BY <2>3
  <2>5. ContentLength(l, c) = [l EXCEPT !.len = n]
    BY <1>3, <2>1, <2>4 DEF ContentLength
  <2>6. Taken(l, [l EXCEPT !.len = n])
    BY <2>4 DEF InValue, Taken, Shape, Field
  <2>. QED
    BY <2>5, <2>6
<1>. QED
  BY <1>1, <1>2, <1>3

LEMMA HstTaken ==
  ASSUME NEW l, InValue(l), NEW h,
         h \notin {"connection", "transfer-encoding", "content-length"}
  PROVE  Taken(l, [l EXCEPT !.hst = h])
BY DEF InValue, Taken, Shape, Field

LEMMA ValueTokenIs ==
  ASSUME NEW l, NEW c, InValue(l)
  PROVE  Taken(l, ValueToken(l, c))
<1>0. Taken(l, l)
  BY DEF InValue, Taken
<1>1. CASE l.hst = "content-length"
  BY <1>1, ContentLengthIs DEF ValueToken
<1>2. CASE l.hst = "chunked"
  <2>1. ValueToken(l, c) = l \/ ValueToken(l, c) = [l EXCEPT !.hst = "general"]
    BY <1>2 DEF ValueToken
  <2>. QED
    BY <1>0, <2>1, HstTaken
<1>3. CASE l.hst = "token_start"
  <2>1. PICK h \in {"is_keep-alive", "is_close", "is_upgrade", "is_token", "general"} :
          ValueToken(l, c) = l \/ ValueToken(l, c) = [l EXCEPT !.hst = h]
    BY <1>3, TokenIs DEF ValueToken
  <2>. QED
    BY <1>0, <2>1, HstTaken
<1>4. CASE l.hst = "is_token"
  <2>1. ValueToken(l, c) = l \/ ValueToken(l, c) = [l EXCEPT !.hst = "token_start"]
    BY <1>4 DEF ValueToken
  <2>. QED
    BY <1>0, <2>1, HstTaken
<1>5. CASE l.hst \in {"is_keep-alive", "is_close", "is_upgrade"}
  <2>1. PICK fs : fs = l.flags \cup ConnectionFlag(l.hst)
    OBVIOUS
  <2>2. fs \subseteq Flag
    BY <2>1, FlagOf DEF InValue, Shape
  <2>3. \/ ValueToken(l, c) = l \/ ValueToken(l, c) = [l EXCEPT !.hst = "is_token"]
        \/ ValueToken(l, c) = [l EXCEPT !.flags = fs, !.hst = "token_start"]
    BY <1>5, <2>1 DEF ValueToken
  <2>4. Taken(l, [l EXCEPT !.flags = fs, !.hst = "token_start"])
    BY <2>2 DEF InValue, Taken, Shape, Field
  <2>. QED
    BY <1>0, <2>3, <2>4, HstTaken
<1>6. CASE l.hst \notin {"content-length", "chunked", "token_start", "is_token",
                         "is_keep-alive", "is_close", "is_upgrade"}
  <2>1. ValueToken(l, c) = [l EXCEPT !.hst = "general", !.fast = TRUE]
    BY <1>6 DEF ValueToken
  <2>2. Taken(l, [l EXCEPT !.hst = "general", !.fast = TRUE])
    BY DEF InValue, Taken, Shape, Field
  <2>. QED
    BY <2>1, <2>2
<1>. QED
  BY <1>1, <1>2, <1>3, <1>4, <1>5, <1>6

LEMMA EffNat == ASSUME NEW r, Shape(r) PROVE Eff(r) \in Nat
BY DEF Eff, Shape

LEMMA HeaderValueCase ==
  ASSUME stream \in Seq(Lexemes), NEW r, NEW c, Entered(r), r.st = "header_value"
  PROVE  Done(r, HeaderValue(r, c))
<1>. PICK l : l = Loop(r)
  OBVIOUS
<1>0. Looping(r, l)
  BY LoopIs DEF Entered, Base
<1>a. /\ r.mark # 0 /\ r.kind = "value" /\ r.told = FALSE /\ r.again = FALSE /\ r.err = "OK"
      /\ r.hst \notin {"connection", "transfer-encoding"}
      /\ r.fast => r.hst = "general"
      /\ r.hst = "content-length" => r.len >= 0
      /\ Shape(r)
  BY DEF Entered, Base, Marks, Lengths
<1>b. Eff(r) \in Nat /\ Eff(l) = Eff(r)
  BY <1>0, <1>a, EffNat DEF Looping
<1>1. CASE c = "CR"
  <2>. PICK d : d = Data(Go(l, "header_almost_done"), r.pos)
    OBVIOUS
  <2>1. Ended(l, d, "header_almost_done")
    BY <1>0, DataGo, LiveStates DEF Looping
  <2>2. Shape(d) /\ d.err = "OK" /\ d.start # 0
    BY <2>1, <1>0, <1>a DEF Ended, Looping
  <2>. PICK e : e = LeaveLoop(d)
    OBVIOUS
  <2>3. Left(d, e)
    BY <2>2, LeaveLoopIs
  <2>4. HeaderValue(r, c) = e
    BY <1>1 DEF HeaderValue
  <2>5. Eff(d) = Eff(r)
    BY <1>0, <2>1 DEF Looping, Ended, Eff
  <2>6. Marks(e) /\ Lengths(e)
    BY <2>1, <2>3 DEF Ended, Left, Marks, Lengths
  <2>7. e.start = 0 /\ e.nread = Eff(r) /\ Eff(e) = Eff(r)
    BY <2>3, <2>5 DEF Left, Eff
  <2>8. Rest(r, e)
    BY <2>1, <2>3, <2>5, <2>7, <1>0, <1>a, <1>b DEF Ended, Left, Looping, Rest
  <2>. QED
    BY <2>3, <2>4, <2>6, <2>8 DEF Done, Base, Left
<1>2. CASE c = "LF"
  <2>. PICK g, n, d : /\ g = Again(l, "header_almost_done") /\ n = LeaveLoop(g)
                      /\ d = Data(n, r.pos)
    OBVIOUS
  <2>1. Shape(g)
    BY <1>0, AgainShape, LiveStates DEF Looping
  <2>2. /\ g.st = "header_almost_done" /\ g.pos = r.pos /\ g.err = "OK" /\ g.start # 0
        /\ g.nread = l.nread /\ g.again = TRUE /\ g.told = FALSE /\ g.start = l.start
    BY <1>0, <1>a DEF Looping, Again, Shape, Field
  <2>3. Left(g, n)
    BY <2>1, <2>2, LeaveLoopIs
  <2>4. Eff(g) = Eff(r)
    BY <1>0, <2>2 DEF Looping, Eff
  <2>5. CASE n.err = "OK"
    <3>0. r.pos \in 1..(Len(stream) + 1)
      BY InStream DEF Entered, Base
    <3>1. HeaderValue(r, c) = d
      BY <1>2, <2>5 DEF HeaderValue
    <3>2. /\ Shape(d) /\ d.mark = 0 /\ d.st = "header_almost_done" /\ d.pos = r.pos
          /\ d.err = "OK" /\ d.start = 0 /\ d.fast = FALSE /\ d.nread = n.nread /\ d.again = TRUE
      BY <2>2, <2>3, <2>5, <3>0, DataIs DEF Left
    <3>3. Marks(d) /\ Lengths(d)
      BY <3>2 DEF Marks, Lengths
    <3>4. Eff(d) = Eff(r)
      BY <3>2, <2>3, <2>4 DEF Left, Eff
    <3>5. Rest(r, d)
      BY <3>2, <3>4, <1>b DEF Rest, Rank, Entered
    <3>. QED
      BY <3>1, <3>2, <3>3, <3>5 DEF Done, Base
  <2>6. CASE n.err # "OK"
    <3>1. HeaderValue(r, c) = n
      BY <1>2, <2>6 DEF HeaderValue
    <3>2. Marks(n) /\ Lengths(n)
      BY <2>2, <2>3, <2>6 DEF Left, Marks, Lengths
    <3>4. Eff(n) = Eff(r)
      BY <2>3, <2>4 DEF Left, Eff
    <3>3. Rest(r, n)
      BY <2>2, <2>3, <2>4, <2>6, <3>4, <1>b DEF Left, Rest, Rank, Entered
    <3>. QED
      BY <2>3, <3>1, <3>2, <3>3 DEF Done, Base, Left
  <2>. QED
    BY <2>5, <2>6
<1>3. CASE c \notin {"CR", "LF"} /\ l.fast
  <2>1. HeaderValue(r, c) = l
    BY <1>3 DEF HeaderValue
  <2>2. Marks(l) /\ Lengths(l)
    BY <1>0, <1>a DEF Looping, Marks, Lengths, Entered, Base
  <2>3. Rest(r, l)
    BY <1>0, <1>a, <1>b DEF Looping, Rest
  <2>. QED
    BY <1>0, <2>1, <2>2, <2>3 DEF Done, Base, Looping
<1>4. CASE c \notin {"CR", "LF"} /\ ~l.fast
  <2>. PICK d : d = HeaderValue(r, c)
    OBVIOUS
  <2>0. InValue(l)
    BY <1>0, <1>4, <1>a DEF Looping, InValue, Entered
  <2>1. Taken(l, d)
    <3>1. CASE c = "ctl"
      <4>1. d = Fail(l, "INVALID_HEADER_TOKEN")
        BY <1>4, <3>1 DEF HeaderValue
      <4>. QED
        BY <2>0, <4>1 DEF InValue, Taken, Fail, Shape, Field
    <3>2. CASE c # "ctl"
      <4>1. d = ValueToken(l, c)
        BY <1>4, <3>2 DEF HeaderValue
      <4>. QED
        BY <2>0, <4>1, ValueTokenIs
    <3>. QED
      BY <3>1, <3>2
  <2>2. Marks(d) /\ Lengths(d)
    BY <1>0, <2>1, <1>a DEF Looping, Taken, Marks, Lengths, Entered
  <2>3. Rest(r, d)
    <3>1. Eff(d) = Eff(l)
      BY <2>1 DEF Taken, Eff
    <3>. QED
      BY <1>0, <1>a, <1>b, <2>1, <3>1 DEF Looping, Taken, Rest
  <2>. QED
    BY <2>1, <2>2, <2>3 DEF Done, Base, Taken
<1>. QED
  BY <1>1, <1>2, <1>3, <1>4

-----------------------------------------------------------------------------
(* One lexeme: the whole switch                                            *)

(* Whatever the state and the lexeme.                                      *)
LEMMA CaseDone ==
  ASSUME stream \in Seq(Lexemes), NEW r, NEW c, NEW answer, Entered(r), r.pos <= Len(stream)
  PROVE  Done(r, Case(r, c, answer))
<1>1. CASE r.st = "dead"
  <2>1. Case(r, c, answer) = Dead(r, c)
    BY <1>1 DEF Case
  <2>. QED
    BY <1>1, <2>1, DeadCase
<1>2. CASE r.st = "start_req_or_res"
  <2>1. Case(r, c, answer) = StartReqOrRes(r, c)
    BY <1>2 DEF Case
  <2>. QED
    BY <1>2, <2>1, StartReqOrResCase
<1>3. CASE r.st = "start_req"
  <2>1. Case(r, c, answer) = StartReq(r, c)
    BY <1>3 DEF Case
  <2>. QED
    BY <1>3, <2>1, StartReqCase
<1>4. CASE r.st = "start_res"
  <2>1. Case(r, c, answer) = StartRes(r, c)
    BY <1>4 DEF Case
  <2>. QED
    BY <1>4, <2>1, StartResCase
<1>5. CASE r.st \in {"res_version", "res_first_status_code", "res_status_code",
              "res_status_start", "res_status", "res_line_almost_done"}
  <2>1. Case(r, c, answer) = ResLine(r, c)
    BY <1>5 DEF Case
  <2>. QED
    BY <1>5, <2>1, ResLineCase, ResStatusCase
<1>6. CASE r.st = "header_field_start"
  <2>1. Case(r, c, answer) = HeaderFieldStart(r, c)
    BY <1>6 DEF Case
  <2>. QED
    BY <1>6, <2>1, HeaderFieldStartCase
<1>7. CASE r.st = "header_field"
  <2>1. Case(r, c, answer) = HeaderField(r, c)
    BY <1>7 DEF Case
  <2>. QED
    BY <1>7, <2>1, HeaderFieldCase
<1>8. CASE r.st = "header_value_discard_ws"
  <2>1. Case(r, c, answer) = DiscardWs(r, c)
    BY <1>8 DEF Case
  <2>. QED
    BY <1>8, <2>1, DiscardWsCase
<1>9. CASE r.st = "header_value_start"
  <2>1. Case(r, c, answer) = ValueStart(r, c)
    BY <1>9 DEF Case
  <2>. QED
    BY <1>9, <2>1, ValueStartCase
<1>10. CASE r.st = "header_value"
  <2>1. Case(r, c, answer) = HeaderValue(r, c)
    BY <1>10 DEF Case
  <2>. QED
    BY <1>10, <2>1, HeaderValueCase
<1>11. CASE r.st = "header_almost_done"
  <2>1. Case(r, c, answer) = HeaderAlmostDone(r, c)
    BY <1>11 DEF Case
  <2>. QED
    BY <1>11, <2>1, HeaderAlmostDoneCase
<1>12. CASE r.st = "header_value_lws"
  <2>1. Case(r, c, answer) = HeaderValueLws(r, c)
    BY <1>12 DEF Case
  <2>. QED
    BY <1>12, <2>1, HeaderValueLwsCase
<1>13. CASE r.st = "header_value_discard_ws_almost_done"
  <2>1. Case(r, c, answer) = DiscardWsEnd(r, c)
    BY <1>13 DEF Case, DiscardWsEnd
  <2>. QED
    BY <1>13, <2>1, DiscardWsEndCase
<1>14. CASE r.st = "header_value_discard_lws"
  <2>1. Case(r, c, answer) = DiscardLws(r, c)
    BY <1>14 DEF Case
  <2>. QED
    BY <1>14, <2>1, DiscardLwsCase
<1>15. CASE r.st = "headers_almost_done"
  <2>1. Case(r, c, answer) = HeadersAlmostDone(r, c, answer)
    BY <1>15 DEF Case
  <2>. QED
    BY <1>15, <2>1, HeadersAlmostDoneCase
<1>16. CASE r.st = "headers_done"
  <2>1. Case(r, c, answer) = HeadersDone(r, c)
    BY <1>16 DEF Case
  <2>. QED
    BY <1>16, <2>1, HeadersDoneCase
<1>17. CASE r.st = "body_identity"
  <2>1. Case(r, c, answer) = BodyIdentity(r)
    BY <1>17 DEF Case
  <2>. QED
    BY <1>17, <2>1, BodyIdentityCase
<1>18. CASE r.st = "body_identity_eof"
  <2>1. Case(r, c, answer) = Mark(r, "body")
    BY <1>18 DEF Case
  <2>. QED
    BY <1>18, <2>1, BodyEofCase
<1>19. CASE r.st = "message_done"
  <2>1. Case(r, c, answer) = MessageDone(r)
    BY <1>19 DEF Case
  <2>. QED
    BY <1>19, <2>1, MessageDoneCase
<1>20. CASE r.st = "chunk_size_start"
  <2>1. Case(r, c, answer) = ChunkSizeStart(r, c)
    BY <1>20 DEF Case
  <2>. QED
    BY <1>20, <2>1, ChunkSizeStartCase
<1>21. CASE r.st = "chunk_size"
  <2>1. Case(r, c, answer) = ChunkSize(r, c)
    BY <1>21 DEF Case
  <2>. QED
    BY <1>21, <2>1, ChunkSizeCase
<1>22. CASE r.st = "chunk_parameters"
  <2>1. Case(r, c, answer) = ChunkParameters(r, c)
    BY <1>22 DEF Case
  <2>. QED
    BY <1>22, <2>1, ChunkParametersCase
<1>23. CASE r.st = "chunk_size_almost_done"
  <2>1. Case(r, c, answer) = ChunkSizeAlmostDone(r, c)
    BY <1>23 DEF Case
  <2>. QED
    BY <1>23, <2>1, ChunkSizeAlmostDoneCase
<1>24. CASE r.st = "chunk_data"
  <2>1. Case(r, c, answer) = ChunkData(r)
    BY <1>24 DEF Case
  <2>. QED
    BY <1>24, <2>1, ChunkDataCase
<1>25. CASE r.st = "chunk_data_almost_done"
  <2>1. Case(r, c, answer) = ChunkDataAlmostDone(r, c)
    BY <1>25 DEF Case
  <2>. QED
    BY <1>25, <2>1, ChunkDataAlmostDoneCase
<1>26. CASE r.st = "chunk_data_done"
  <2>1. Case(r, c, answer) = ChunkDataDone(r, c)
    BY <1>26 DEF Case
  <2>. QED
    BY <1>26, <2>1, ChunkDataDoneCase
<1>27. CASE r.st \in {"req_method", "req_spaces_before_url", "req_url"}
  <2>1. Case(r, c, answer) = ReqUrl(r, c)
    BY <1>27 DEF Case
  <2>. QED
    BY <1>27, <2>1, ReqMethodCase, ReqSpacesCase, ReqUrlCase
<1>28. CASE r.st \in {"req_http_start", "req_http_minor", "req_line_almost_done"}
  <2>1. Case(r, c, answer) = ReqVersion(r, c)
    BY <1>28 DEF Case
  <2>. QED
    BY <1>28, <2>1, ReqVersionCase
<1>29. Live(r.st)
  BY DEF Entered, Base, Shape
<1>. QED
  BY <1>1, <1>2, <1>3, <1>4, <1>5, <1>6, <1>7, <1>8, <1>9, <1>10, <1>11, <1>12, <1>13,
     <1>14, <1>15, <1>16, <1>17, <1>18, <1>19, <1>20, <1>21, <1>22, <1>23, <1>24, <1>25,
     <1>26, <1>27, <1>28, <1>29
     DEF Live, States, Body

-----------------------------------------------------------------------------
(* One round of the loop: the byte is counted, the switch is left          *)

(* No chunk starts with bytes counted, and no lexeme is counted more often *)
(* than its rounds.                                                        *)
Spent(r) == r.err = "OK" =>
  /\ r.st = "chunk_size_start" => r.nread = 0
  /\ Eff(r) + Rank(r.st) <= 5 * r.pos

Good(r) == Base(r) /\ Spent(r)

LEMMA RankIs == ASSUME NEW st PROVE Rank(st) \in 1..4
BY DEF Rank

(* One more lexeme                                                         *)
LEMMA Forward ==
  ASSUME stream \in Seq(Lexemes), NEW d, Base(d), d.err = "OK", d.pos <= Len(stream),
         d.st = "chunk_size_start" => d.nread = 0, Eff(d) <= 5 * d.pos
  PROVE  Good([d EXCEPT !.pos = @ + 1])
<1>. PICK e : e = [d EXCEPT !.pos = @ + 1]
  OBVIOUS
<1>0. Shape(d) /\ Marks(d) /\ Lengths(d)
  BY DEF Base
<1>1. Shape(e)
  BY <1>0 DEF Shape, Field
<1>2. /\ e.st = d.st /\ e.hst = d.hst /\ e.len = d.len /\ e.nread = d.nread
      /\ e.flags = d.flags /\ e.mark = d.mark /\ e.start = d.start /\ e.kind = d.kind
      /\ e.err = d.err /\ e.told = d.told /\ e.fast = d.fast
      /\ e.pos = d.pos + 1
  BY <1>0 DEF Shape, Field
<1>3. Marks(e) /\ Lengths(e)
  BY <1>0, <1>2 DEF Marks, Lengths
<1>4. /\ Eff(e) \in Nat /\ Eff(d) \in Nat /\ Eff(e) <= Eff(d) + 1
      /\ e.start = 0 => Eff(e) = Eff(d)
  <2>1. Eff(e) \in Nat /\ Eff(d) \in Nat
    BY <1>0, <1>1, EffNat
  <2>2. d.nread \in Nat /\ d.pos \in Nat /\ d.start \in Nat
    BY <1>0 DEF Shape
  <2>3. CASE d.start = 0
    BY <1>2, <2>1, <2>2, <2>3 DEF Eff
  <2>4. CASE d.start # 0
    <3>1. Eff(d) = d.nread + (d.pos - d.start) /\ Eff(e) = d.nread + ((d.pos + 1) - d.start)
      BY <1>2, <2>4 DEF Eff
    <3>. QED
      BY <1>2, <2>1, <2>2, <2>4, <3>1
  <2>. QED
    BY <2>3, <2>4
<1>5. Eff(e) + Rank(e.st) <= 5 * e.pos
  <2>1. Rank(e.st) \in 1..4 /\ d.pos \in Nat
    BY <1>0, RankIs DEF Shape
  <2>. QED
    BY <1>2, <1>4, <2>1
<1>. QED
  BY <1>1, <1>2, <1>3, <1>5 DEF Good, Base, Spent

(* A record at the beginning of a round: its count goes up by one at most. *)
Rounded(r, t) ==
  /\ Base(t) /\ t.told = FALSE /\ t.again = FALSE /\ t.st = r.st /\ t.pos = r.pos
  /\ Eff(t) <= Eff(r) + 1
  /\ t.err # "OK" => t.err = "HEADER_OVERFLOW" /\ Eff(r) + 1 > MaxHeader

Top(r) == [r EXCEPT !.again = FALSE, !.told = FALSE, !.fresh = FALSE]
Counted(r) ==
  IF r.again \/ r.start # 0 \/ ~ParsingHeader(r.st) THEN Top(r) ELSE Count(Top(r), 1)

LEMMA CountedIs ==
  ASSUME NEW r, Base(r), r.err = "OK"
  PROVE  Rounded(r, Counted(r))
<1>. PICK t : t = Top(r)
  OBVIOUS
<1>0. Shape(r) /\ Marks(r) /\ Lengths(r)
  BY DEF Base
<1>1. Shape(t)
  BY <1>0 DEF Top, Shape, Field
<1>2. /\ t.st = r.st /\ t.hst = r.hst /\ t.len = r.len /\ t.nread = r.nread
      /\ t.flags = r.flags /\ t.mark = r.mark /\ t.start = r.start /\ t.kind = r.kind
      /\ t.err = "OK" /\ t.told = FALSE /\ t.fast = r.fast /\ t.pos = r.pos /\ t.again = FALSE
  BY <1>0 DEF Top, Shape, Field
<1>3. Marks(t) /\ Lengths(t) /\ Eff(t) = Eff(r) /\ Eff(r) \in Nat
  BY <1>0, <1>2, EffNat DEF Marks, Lengths, Eff
<1>4. CASE r.again \/ r.start # 0 \/ ~ParsingHeader(r.st)
  <2>1. Counted(r) = t
    BY <1>4 DEF Counted
  <2>2. Rounded(r, t)
    BY <1>1, <1>2, <1>3 DEF Rounded, Base
  <2>. QED
    BY <2>1, <2>2
<1>5. CASE ~(r.again \/ r.start # 0 \/ ~ParsingHeader(r.st))
  <2>. PICK d : d = Count(t, 1)
    OBVIOUS
  <2>1. Counted(r) = d
    BY <1>5 DEF Counted
  <2>2. /\ Shape(d) /\ d.nread = t.nread + 1
        /\ IF t.nread + 1 > MaxHeader THEN d.err = "HEADER_OVERFLOW" ELSE d.err = "OK"
        /\ d.st = t.st /\ d.hst = t.hst /\ d.flags = t.flags
        /\ d.len = t.len /\ d.pos = t.pos /\ d.mark = t.mark
        /\ d.kind = t.kind /\ d.start = t.start
        /\ d.fast = t.fast /\ d.told = t.told /\ d.again = t.again
    BY <1>1, <1>2, CountIs
  <2>3. Marks(d) /\ Lengths(d)
    BY <1>0, <1>2, <2>2 DEF Marks, Lengths
  <2>4. Eff(r) = r.nread /\ Eff(d) = r.nread + 1
    BY <1>2, <1>5, <2>2 DEF Eff
  <2>5. Rounded(r, d)
    BY <1>2, <1>3, <2>2, <2>3, <2>4 DEF Rounded, Base
  <2>. QED
    BY <2>1, <2>5
<1>. QED
  BY <1>4, <1>5

(* A round keeps Good, and overflows only if the headers are that long.    *)
LEMMA ExecuteGood ==
  ASSUME stream \in Seq(Lexemes), NEW r, Good(r), r.err = "OK", r.pos <= Len(stream),
         NEW answer
  PROVE  /\ Good(Execute(r, answer))
         /\ Execute(r, answer).err = "HEADER_OVERFLOW" => Eff(r) + 1 > MaxHeader
<1>. PICK t, d : /\ t = Counted(r)
                 /\ d = IF t.err = "OK" THEN Case(t, stream[r.pos], answer) ELSE t
  OBVIOUS
<1>0. Base(r) /\ Rounded(r, t) /\ Eff(r) \in Nat /\ r.pos \in Nat /\ Rank(r.st) \in 1..4
  BY CountedIs, EffNat, RankIs DEF Good, Base, Shape
<1>1. Execute(r, answer) = IF d.err # "OK" \/ d.again THEN d ELSE [d EXCEPT !.pos = @ + 1]
  BY DEF Execute, Counted, Top
<1>2. Eff(r) + Rank(r.st) <= 5 * r.pos
  BY DEF Good, Spent
<1>3. CASE t.err # "OK"
  <2>1. Execute(r, answer) = t
    BY <1>1, <1>3
  <2>2. Good(t)
    BY <1>0, <1>3 DEF Rounded, Good, Spent
  <2>. QED
    BY <1>0, <1>3, <2>1, <2>2 DEF Rounded
<1>4. CASE t.err = "OK"
  <2>1. Entered(t) /\ t.pos <= Len(stream)
    BY <1>0, <1>4 DEF Rounded, Entered
  <2>2. Done(t, d)
    BY <1>4, <2>1, CaseDone
  <2>3. Eff(d) \in Nat /\ Eff(t) \in Nat /\ Rank(d.st) \in 1..4
    BY <1>0, <2>2, EffNat, RankIs DEF Rounded, Done, Base
  <2>4. d.err = "HEADER_OVERFLOW" => Eff(r) + 1 > MaxHeader
    BY <1>0, <2>2, <2>3, Constants DEF Rounded, Done, Rest
  <2>5. CASE d.err # "OK"
    BY <1>1, <2>2, <2>4, <2>5 DEF Good, Spent, Done
  <2>6. CASE d.err = "OK" /\ d.again
    <3>1. Rank(d.st) < Rank(r.st) /\ Eff(d) <= Eff(r) + 1 /\ d.pos = r.pos
      BY <1>0, <2>2, <2>3, <2>6 DEF Rounded, Done, Rest
    <3>2. Eff(d) + Rank(d.st) <= Eff(r) + Rank(r.st)
      BY <1>0, <2>3, <3>1
    <3>a. r.pos \in Int /\ Eff(d) \in Int /\ Eff(r) \in Int /\ Rank(d.st) \in Int /\ Rank(r.st) \in Int
      BY <1>0, <2>3
    <3>b. d.pos \in Int /\ d.pos = r.pos
      BY <3>1, <3>a
    <3>3. Eff(d) + Rank(d.st) <= 5 * d.pos
      BY <1>2, <3>2, <3>a, <3>b
    <3>. QED
      BY <1>1, <2>2, <2>6, <3>3 DEF Good, Spent, Done, Rest
  <2>7. CASE d.err = "OK" /\ ~d.again
    <3>1. Eff(d) <= Eff(r) + 1 /\ d.pos = r.pos
      BY <1>0, <2>2, <2>3 DEF Rounded, Done, Rest
    <3>2. Eff(d) <= 5 * d.pos
      BY <1>0, <1>2, <2>3, <3>1
    <3>3. Good([d EXCEPT !.pos = @ + 1])
      BY <2>2, <2>7, <3>1, <3>2, Forward DEF Done, Rest
    <3>4. [d EXCEPT !.pos = @ + 1].err = "OK"
      BY <2>2, <2>7 DEF Done, Base, Shape, Field
    <3>. QED
      BY <1>1, <2>7, <3>3, <3>4
  <2>. QED
    BY <2>5, <2>6, <2>7
<1>. QED
  BY <1>3, <1>4

-----------------------------------------------------------------------------
(* One call: what it begins with, what it leaves behind                    *)

(* A call begins with nothing marked, and marks what it is in the middle   *)
(* of.                                                                     *)
LEMMA EnterGood ==
  ASSUME NEW r, Shape(r), Lengths(r), r.err = "OK" => r.mark = 0, Spent(r)
  PROVE  Good(Enter(r)) /\ Enter(r).err = r.err /\ Eff(Enter(r)) <= Eff(r)
<1>. DEFINE m == CASE r.st = "header_field" -> Mark(r, "field") [] r.st = "req_url" -> Mark(r, "url")
                   [] r.st = "header_value" -> Mark(r, "value")
                   [] r.st = "res_status" -> Mark(r, "status") [] OTHER -> r
            e == [m EXCEPT !.start = 0, !.fast = FALSE, !.again = FALSE, !.told = FALSE,
                           !.fresh = TRUE]
<1>0. Enter(r) = e
  BY DEF Enter
<1>1. Shape(m)
  BY MarkShape, Kinds
<1>2. /\ m.st = r.st /\ m.hst = r.hst /\ m.flags = r.flags /\ m.len = r.len /\ m.nread = r.nread
      /\ m.err = r.err /\ m.pos = r.pos
  BY DEF Mark, Shape, Field
<1>3. ASSUME r.mark = 0
      PROVE  \/ r.st = "req_url" /\ m.kind = "url" /\ m.mark # 0
             \/ r.st = "res_status" /\ m.kind = "status" /\ m.mark # 0
             \/ r.st = "header_field" /\ m.kind = "field" /\ m.mark # 0
             \/ r.st = "header_value" /\ m.kind = "value" /\ m.mark # 0
             \/ /\ r.st \notin {"req_url", "res_status", "header_field", "header_value"}
                /\ m.mark = 0
  <2>1. \A k : Mark(r, k).mark # 0 /\ Mark(r, k).kind = k
    BY <1>3 DEF Mark, Shape, Field
  <2>. QED
    BY <1>3, <2>1
<1>. HIDE DEF m
<1>4. Shape(e)
  BY <1>1 DEF Shape, Field
<1>5. /\ e.st = r.st /\ e.hst = r.hst /\ e.flags = r.flags /\ e.len = r.len /\ e.nread = r.nread
      /\ e.err = r.err /\ e.pos = r.pos /\ e.mark = m.mark /\ e.kind = m.kind
      /\ e.start = 0 /\ e.fast = FALSE /\ e.told = FALSE
  BY <1>1, <1>2 DEF Shape, Field
<1>6. Marks(e) /\ Lengths(e)
  BY <1>3, <1>5 DEF Marks, Lengths
<1>7. Eff(e) = r.nread /\ Eff(r) \in Nat /\ r.nread \in Nat /\ r.nread <= Eff(r)
  BY <1>5, EffNat DEF Eff, Shape
<1>8. Spent(e)
  <2>1. SUFFICES ASSUME r.err = "OK" PROVE Eff(e) + Rank(r.st) <= 5 * r.pos
    BY <1>5 DEF Spent
  <2>2. Eff(r) + Rank(r.st) <= 5 * r.pos
    BY <2>1 DEF Spent
  <2>3. r.pos \in Int /\ Rank(r.st) \in Int
    BY RankIs DEF Shape
  <2>. QED
    BY <1>7, <2>2, <2>3
<1>. QED
  BY <1>0, <1>4, <1>5, <1>6, <1>7, <1>8 DEF Good, Base

(* What is marked when the bytes end is told, and the loop is counted.     *)
LEMMA LeaveIs ==
  ASSUME stream \in Seq(Lexemes), NEW r, Good(r), r.err = "OK"
  PROVE  /\ Shape(Leave(r)) /\ Lengths(Leave(r))
         /\ Leave(r).err = "OK" => Leave(r).mark = 0
         /\ Spent(Leave(r)) /\ Eff(Leave(r)) = Eff(r)
         /\ Leave(r).err # "OK" => Leave(r).err = "HEADER_OVERFLOW" /\ Eff(r) > MaxHeader
<1>. DEFINE l == IF r.start = 0 THEN r ELSE LeaveLoop(r)
<1>0. Shape(r) /\ Marks(r) /\ Lengths(r) /\ Spent(r)
  BY DEF Good, Base
<1>1. r.start # 0 => Left(r, LeaveLoop(r))
  BY <1>0, LeaveLoopIs
<1>2. /\ Shape(l) /\ l.st = r.st /\ l.hst = r.hst /\ l.flags = r.flags /\ l.len = r.len
      /\ l.pos = r.pos /\ l.nread = Eff(r) /\ l.start = 0
      /\ \/ l.err = "OK"
         \/ l.err = "HEADER_OVERFLOW" /\ Eff(r) > MaxHeader
  BY <1>0, <1>1 DEF Left, Eff
<1>. HIDE DEF l
<1>. PICK d : d = IF l.err = "OK" THEN Data(l, r.pos) ELSE l
  OBVIOUS
<1>3. Leave(r) = d
  BY DEF Leave, l
<1>4. /\ Shape(d) /\ d.st = r.st /\ d.hst = r.hst /\ d.flags = r.flags /\ d.len = r.len
      /\ d.pos = r.pos /\ d.nread = Eff(r) /\ d.start = 0 /\ d.err = l.err
      /\ d.err = "OK" => d.mark = 0
  <2>1. r.pos \in 1..(Len(stream) + 1)
    BY <1>0, InStream
  <2>. QED
    BY <1>2, <2>1, DataIs
<1>5. Lengths(d)
  BY <1>0, <1>4 DEF Lengths
<1>6. Eff(d) = Eff(r)
  BY <1>4 DEF Eff
<1>7. Spent(d)
  BY <1>0, <1>4, <1>6 DEF Spent, Marks, Eff
<1>. QED
  BY <1>2, <1>3, <1>4, <1>5, <1>6, <1>7

LEMMA NextCallGood ==
  ASSUME stream \in Seq(Lexemes), NEW r, Good(r), r.err = "OK"
  PROVE  /\ Good(Enter(Leave(r)))
         /\ Enter(Leave(r)).err # "OK" =>
              Enter(Leave(r)).err = "HEADER_OVERFLOW" /\ Eff(r) > MaxHeader
BY LeaveIs, EnterGood

LEMMA PauseGood ==
  ASSUME NEW r, Good(r), r.err = "OK", r.told
  PROVE  Good(Enter([r EXCEPT !.mark = 0])) /\ Enter([r EXCEPT !.mark = 0]).err = "OK"
<1>. PICK q : q = [r EXCEPT !.mark = 0]
  OBVIOUS
<1>1. Shape(q) /\ q.mark = 0
  BY DEF Good, Base, Shape, Field
<1>2. /\ q.st = r.st /\ q.hst = r.hst /\ q.flags = r.flags /\ q.len = r.len /\ q.pos = r.pos
      /\ q.nread = r.nread /\ q.start = r.start /\ q.err = r.err
  BY DEF Good, Base, Shape, Field
<1>3. Lengths(q) /\ Spent(q)
  BY <1>2 DEF Good, Base, Lengths, Spent, Eff
<1>. QED
  BY <1>1, <1>2, <1>3, EnterGood

(* The bytes a call may read are more.                                     *)
Streams == stream \in Seq(Lexemes) /\ more \in 0..MaxMore
               /\ \E b \in Beginnings : Len(stream) + more = Len(b) + MaxMore

(* A parser after http_parser_init.                                        *)
LEMMA FirstGood ==
  ASSUME stream \in Seq(Lexemes), NEW type
  PROVE  Good(Parser(type)) /\ Parser(type).err = "OK"
<1>. PICK r, st : /\ r = Parser(type)
                  /\ st = CASE type = "request" -> "start_req"
                            [] type = "response" -> "start_res"
                            [] OTHER -> "start_req_or_res"
  OBVIOUS
<1>1. st \in {"start_req", "start_res", "start_req_or_res"} /\ Live(st)
  BY LiveStates
<1>2. /\ r.st = st /\ r.hst = "general" /\ r.flags = {} /\ r.len = 0 /\ r.nread = 0
      /\ r.err = "OK" /\ r.pos = 1 /\ r.mark = 0 /\ r.kind = "none" /\ r.start = 0
      /\ r.fast = FALSE /\ r.told = FALSE /\ r.seen = <<>> /\ DOMAIN r = Field
  BY DEF Parser, Field
<1>3. Shape(r)
  <2>1. Len(stream) + 1 >= 1
    OBVIOUS
  <2>. QED
    BY <1>1, <1>2, Constants, Kinds, Nothing DEF Shape, Unset
<1>4. Marks(r) /\ Lengths(r)
  BY <1>1, <1>2 DEF Marks, Lengths
<1>5. Spent(r)
  BY <1>1, <1>2 DEF Spent, Eff, Rank
<1>. QED
  BY <1>2, <1>3, <1>4, <1>5 DEF Good, Base

-----------------------------------------------------------------------------
(* Every reachable state of a parser that is called piece by piece         *)

(* Good is about a parser and the stream it reads.                         *)
LEMMA SameStream ==
  ASSUME NEW r, Good(r), x' = r, stream' = stream
  PROVE  Good(x)'
BY DEF Good, Base, Shape, Marks, Lengths, Spent, Eff

LEMMA SameStreamWhole ==
  ASSUME NEW r, Good(r), whole' = r, stream' = stream
  PROVE  Good(whole)'
BY DEF Good, Base, Shape, Marks, Lengths, Spent, Eff

(* The stream may grow.                                                    *)
LEMMA LongerStream ==
  ASSUME stream \in Seq(Lexemes), NEW c \in Lexemes, stream' = Append(stream, c),
         Good(x), x' = x
  PROVE  Good(x)'
<1>1. Len(stream') = Len(stream) + 1 /\ Len(stream) \in Nat
  OBVIOUS
<1>. QED
  BY <1>1 DEF Good, Base, Shape, Marks, Lengths, Spent, Eff

LEMMA LongerStreamWhole ==
  ASSUME stream \in Seq(Lexemes), NEW c \in Lexemes, stream' = Append(stream, c),
         Good(whole), whole' = whole
  PROVE  Good(whole)'
<1>1. Len(stream') = Len(stream) + 1 /\ Len(stream) \in Nat
  OBVIOUS
<1>. QED
  BY <1>1 DEF Good, Base, Shape, Marks, Lengths, Spent, Eff

LEMMA InitStreams == Init => Streams
<1>. SUFFICES ASSUME Init PROVE Streams
  OBVIOUS
<1>1. stream \in Beginnings /\ more = MaxMore /\ MaxMore \in Nat
  BY SplitAssumption DEF Init, SplitAssumption
<1>. QED
  BY <1>1, SplitAssumption DEF SplitAssumption, Streams

LEMMA GrowStreams ==
  ASSUME Streams, Grow
  PROVE  Streams' /\ \E c \in Lexemes : stream' = Append(stream, c)
<1>1. PICK c \in Alphabet : stream' = Append(stream, c)
  BY DEF Grow
<1>2. c \in Lexemes
  BY DEF Lexemes
<1>3. stream' \in Seq(Lexemes)
  BY <1>1, <1>2 DEF Streams
<1>4. Len(stream') = Len(stream) + 1 /\ Len(stream) \in Nat /\ MaxMore \in Nat
  BY <1>1, <1>2, SplitAssumption DEF SplitAssumption, Streams
<1>5. more' = more - 1 /\ more > 0
  BY DEF Grow
<1>6. \E b \in Beginnings : Len(stream') + more' = Len(b) + MaxMore
  <2>1. PICK b \in Beginnings : Len(stream) + more = Len(b) + MaxMore
    BY DEF Streams
  <2>2. more \in Int
    BY DEF Streams
  <2>3. Len(stream') + more' = Len(stream) + more
    BY <1>4, <1>5, <2>2
  <2>. QED
    BY <2>1, <2>3
<1>. QED
  BY <1>1, <1>2, <1>3, <1>4, <1>5, <1>6 DEF Streams

LEMMA StepGood ==
  ASSUME Streams, Good(x), Step \/ ((NextCall \/ Pause) /\ UNCHANGED <<whole, more>>)
  PROVE  Good(x)'
<1>0. stream \in Seq(Lexemes)
  BY DEF Streams
<1>1. CASE Step
  <2>1. PICK answer \in Answers :
          x' = Execute(x, answer) /\ whole' = Execute(whole, answer)
    BY <1>1 DEF Step
  <2>2. x.err = "OK" /\ x.pos <= Len(stream) /\ stream' = stream
    BY <1>1 DEF Step, Reading
  <2>3. Good(Execute(x, answer))
    BY <1>0, <2>2, ExecuteGood
  <2>. QED
    BY <2>1, <2>2, <2>3, SameStream
<1>2. CASE NextCall
  <2>1. x.err = "OK" /\ x' = Enter(Leave(x)) /\ stream' = stream
    BY <1>2 DEF NextCall, Reading
  <2>2. Good(Enter(Leave(x)))
    BY <1>0, <2>1, NextCallGood
  <2>. QED
    BY <2>1, <2>2, SameStream
<1>3. CASE Pause
  <2>1. x.err = "OK" /\ x.told /\ x' = Enter([x EXCEPT !.mark = 0]) /\ stream' = stream
    BY <1>3 DEF Pause, Reading
  <2>2. Good(Enter([x EXCEPT !.mark = 0]))
    BY <2>1, PauseGood
  <2>. QED
    BY <2>1, <2>2, SameStream
<1>. QED
  BY <1>1, <1>2, <1>3

(* The inductive invariant of a parser that is called piece by piece.      *)
GInv == Streams /\ Good(x)

LEMMA InitGood == Init => GInv
<1>. SUFFICES ASSUME Init PROVE GInv
  OBVIOUS
<1>1. Streams
  BY InitStreams
<1>. QED
  BY <1>1, FirstGood DEF Init, GInv, Streams

LEMMA NextGood == GInv /\ [Next]_vars => GInv'
<1>. SUFFICES ASSUME GInv, [Next]_vars PROVE GInv'
  OBVIOUS
<1>0. Streams /\ stream \in Seq(Lexemes) /\ Good(x)
  BY DEF GInv, Streams
<1>1. CASE Grow
  <2>1. Streams' /\ \E c \in Lexemes : stream' = Append(stream, c)
    BY <1>0, <1>1, GrowStreams
  <2>2. Good(x)'
    BY <1>0, <1>1, <2>1, LongerStream DEF Grow
  <2>. QED
    BY <2>1, <2>2 DEF GInv
<1>2. CASE Step \/ ((NextCall \/ Pause) /\ UNCHANGED <<whole, more>>)
  <2>1. Good(x)'
    BY <1>0, <1>2, StepGood
  <2>2. stream' = stream /\ more' = more
    BY <1>2 DEF Step, NextCall, Pause
  <2>. QED
    BY <1>0, <2>1, <2>2 DEF GInv, Streams
<1>3. CASE UNCHANGED vars
  <2>1. x' = x /\ stream' = stream /\ more' = more
    BY <1>3 DEF vars
  <2>2. Good(x)'
    BY <1>0, <2>1, SameStream
  <2>. QED
    BY <1>0, <2>1, <2>2 DEF GInv, Streams
<1>. QED
  BY <1>1, <1>2, <1>3 DEF Next

LEMMA GoodIsSafe == GInv => TypeOK /\ AssertionsHold
<1>. SUFFICES ASSUME GInv PROVE TypeOK /\ AssertionsHold
  OBVIOUS
<1>1. Shape(x) /\ Lengths(x) /\ Spent(x)
  BY DEF GInv, Good, Base
<1>2. TypeOK
  BY <1>1 DEF TypeOK, Shape, Live, Flag
<1>3. AssertionsHold
  BY <1>1 DEF AssertionsHold, Lengths, Spent
<1>. QED
  BY <1>2, <1>3

(* However a stream of any bytes is cut into calls and paused: the parser  *)
(* keeps its types, and none of the assertions of http_parser_execute      *)
(* fails - on the marks, on content_length before it counts a body or a    *)
(* chunk down, on nread at the end of a chunk's size.                      *)
THEOREM PieceAfterPiece == Spec => [](TypeOK /\ AssertionsHold)
BY InitGood, NextGood, GoodIsSafe, PTL DEF Spec

-----------------------------------------------------------------------------
(* Two parsers at the same byte                                            *)

(* Two parsers at the same byte take the stream for the same.              *)
Alike(r, w) ==
  /\ r.type = w.type /\ r.st = w.st /\ r.hst = w.hst /\ r.flags = w.flags /\ r.len = w.len
  /\ r.method = w.method /\ r.v11 = w.v11 /\ r.status = w.status /\ r.upgrade = w.upgrade
  /\ r.err = w.err /\ r.pos = w.pos /\ r.exit = w.exit /\ r.kind = w.kind

(* r, which reads in pieces, has been told less directly, but with what it *)
(* has marked it knows the same; the whole one may have something marked,  *)
(* or a loop begun, where r has just been called or paused; and r has      *)
(* counted at least as much.                                               *)
Rel(r, w) ==
  /\ Alike(r, w) /\ Knows(r) = Knows(w)
  /\ r.mark # 0 => w.mark # 0
  /\ r.start # 0 => w.start # 0
  /\ Eff(w) <= Eff(r)

(* What one round makes of them                                            *)
Same(d, e) ==
  d.err = "HEADER_OVERFLOW" \/
  /\ Rel(d, e) /\ d.again = e.again
  /\ d.err = "OK" /\ ~d.again =>
       /\ e.mark # 0 => d.mark # 0
       /\ e.start # 0 => d.start # 0

(* Outside names, values and bodies they are alike to the mark.            *)
Plain(r, w) ==
  /\ Alike(r, w) /\ r.seen = w.seen /\ r.mark = w.mark /\ r.start = 0 /\ w.start = 0
  /\ w.nread <= r.nread /\ r.again = w.again
  /\ DOMAIN r = Field /\ DOMAIN w = Field

LEMMA PlainSame == ASSUME NEW d, NEW e, Plain(d, e) PROVE Same(d, e)
<1>1. Knows(d) = Knows(e)
  BY DEF Plain, Alike, Knows, Marked
<1>2. Eff(e) <= Eff(d)
  BY DEF Plain, Eff
<1>. QED
  BY <1>1, <1>2 DEF Plain, Same, Rel

(* The two records a round begins with                                     *)
Both(r, w) == Entered(r) /\ Entered(w) /\ Rel(r, w)

(* Without a mark, what a parser knows is what was told.                   *)
LEMMA Unmarked ==
  ASSUME NEW r, Shape(r), r.mark = 0 PROVE Knows(r) = r.seen
<1>1. r.seen \in Seq(Event)
  BY DEF Shape
<1>2. Knows(r) = r.seen \o <<>>
  BY DEF Knows, Marked
<1>. HIDE DEF Event
<1>. QED
  BY <1>1, <1>2

LEMMA QuietPlain ==
  ASSUME NEW r, NEW w, Both(r, w),
         r.st \notin {"req_url", "res_status", "header_field", "header_value",
                      "body_identity", "body_identity_eof", "chunk_data",
                      "chunk_data_almost_done"}
  PROVE  Plain(r, w)
<1>0. /\ Shape(r) /\ Shape(w) /\ r.st = w.st /\ r.err = "OK" /\ w.err = "OK" /\ Alike(r, w)
      /\ r.again = FALSE /\ w.again = FALSE
  BY DEF Both, Entered, Base, Rel, Alike
<1>1. r.mark = 0 /\ w.mark = 0 /\ r.start = 0 /\ w.start = 0
  BY <1>0 DEF Both, Entered, Base, Marks
<1>2. r.seen = w.seen
  BY <1>0, <1>1, Unmarked DEF Both, Rel
<1>3. w.nread <= r.nread
  BY <1>1 DEF Both, Rel, Eff
<1>4. DOMAIN r = Field /\ DOMAIN w = Field
  BY <1>0 DEF Shape
<1>. QED
  BY <1>0, <1>1, <1>2, <1>3, <1>4 DEF Plain

LEMMA PlainGo == ASSUME NEW r, NEW w, Plain(r, w), NEW st PROVE Plain(Go(r, st), Go(w, st))
BY DEF Plain, Alike, Go, Field
LEMMA PlainAgain ==
  ASSUME NEW r, NEW w, Plain(r, w), NEW st PROVE Plain(Again(r, st), Again(w, st))
BY DEF Plain, Alike, Again, Field
LEMMA PlainFail == ASSUME NEW r, NEW w, Plain(r, w), NEW e PROVE Plain(Fail(r, e), Fail(w, e))
BY DEF Plain, Alike, Fail, Field
LEMMA PlainMark == ASSUME NEW r, NEW w, Plain(r, w), NEW k PROVE Plain(Mark(r, k), Mark(w, k))
<1>1. CASE r.mark = 0
  <2>1. Mark(r, k) = [r EXCEPT !.mark = r.pos, !.kind = k]
    BY <1>1 DEF Mark
  <2>2. Mark(w, k) = [w EXCEPT !.mark = w.pos, !.kind = k]
    BY <1>1 DEF Mark, Plain
  <2>. QED
    BY <2>1, <2>2 DEF Plain, Alike, Field
<1>2. CASE r.mark # 0
  BY <1>2 DEF Mark, Plain
<1>. QED
  BY <1>1, <1>2
LEMMA PlainNotify ==
  ASSUME NEW r, NEW w, Plain(r, w), NEW k PROVE Plain(Notify(r, k), Notify(w, k))
<1>1. PICK s : s = Append(r.seen, <<k, "">>)
  OBVIOUS
<1>2. Notify(r, k) = [r EXCEPT !.seen = s, !.told = TRUE]
  BY <1>1 DEF Notify
<1>3. Notify(w, k) = [w EXCEPT !.seen = s, !.told = TRUE]
  BY <1>1 DEF Notify, Plain
<1>. QED
  BY <1>2, <1>3 DEF Plain, Alike, Field
LEMMA PlainSet ==
  ASSUME NEW r, NEW w, Plain(r, w), NEW v
  PROVE  /\ Plain([r EXCEPT !.v11 = v], [w EXCEPT !.v11 = v])
         /\ Plain([r EXCEPT !.method = v], [w EXCEPT !.method = v])
         /\ Plain([r EXCEPT !.hst = v], [w EXCEPT !.hst = v])
         /\ Plain([r EXCEPT !.status = v], [w EXCEPT !.status = v])
         /\ Plain([r EXCEPT !.type = v], [w EXCEPT !.type = v])
         /\ Plain([r EXCEPT !.exit = v], [w EXCEPT !.exit = v])
         /\ Plain([r EXCEPT !.flags = v], [w EXCEPT !.flags = v])
         /\ Plain([r EXCEPT !.len = v], [w EXCEPT !.len = v])
         /\ Plain([r EXCEPT !.upgrade = v], [w EXCEPT !.upgrade = v])
BY DEF Plain, Alike, Field
LEMMA PlainZero ==
  ASSUME NEW r, NEW w,
         Plain(r, w) PROVE Plain([r EXCEPT !.nread = 0], [w EXCEPT !.nread = 0])
BY DEF Plain, Alike, Field
LEMMA PlainFresh == ASSUME NEW r, NEW w, Plain(r, w) PROVE Plain(Fresh(r), Fresh(w))
BY DEF Plain, Alike, Fresh, Field

-----------------------------------------------------------------------------
(* The same lexeme for two parsers: the states that mark nothing           *)

LEMMA DeadSame ==
  ASSUME NEW r, NEW w, NEW c, Both(r, w),
         r.st = "dead"
  PROVE  Same(Dead(r, c), Dead(w, c))
<1>1. Plain(r, w)
  BY QuietPlain
<1>2. Plain(Dead(r, c), Dead(w, c))
  BY <1>1 DEF Plain, Alike, Field, Dead, Fail
<1>. QED
  BY <1>2, PlainSame

LEMMA ReqUrlSame ==
  ASSUME NEW r, NEW w, NEW c, Both(r, w),
         r.st \in {"req_method", "req_spaces_before_url"}
  PROVE  Same(ReqUrl(r, c), ReqUrl(w, c))
<1>1. Plain(r, w)
  BY QuietPlain
<1>2. Plain(ReqUrl(r, c), ReqUrl(w, c))
  BY <1>1 DEF Plain, Alike, Field, ReqUrl, Go, Fail, Mark
<1>. QED
  BY <1>2, PlainSame

LEMMA ReqVersionSame ==
  ASSUME NEW r, NEW w, NEW c, Both(r, w),
         r.st \in {"req_http_start", "req_http_minor", "req_line_almost_done"}
  PROVE  Same(ReqVersion(r, c), ReqVersion(w, c))
<1>1. Plain(r, w)
  BY QuietPlain
<1>2. Plain(ReqVersion(r, c), ReqVersion(w, c))
  BY <1>1 DEF Plain, Alike, Field, ReqVersion, Go, Fail
<1>. QED
  BY <1>2, PlainSame

LEMMA ResLineSame ==
  ASSUME NEW r, NEW w, NEW c, Both(r, w),
         r.st \in {"res_version", "res_first_status_code", "res_status_code",
                  "res_status_start", "res_line_almost_done"}
  PROVE  Same(ResLine(r, c), ResLine(w, c))
<1>1. Plain(r, w)
  BY QuietPlain
<1>2. Plain(ResLine(r, c), ResLine(w, c))
  BY <1>1 DEF Plain, Alike, Field, ResLine, Go, Fail, Mark, EndOfResLine
<1>. QED
  BY <1>2, PlainSame

LEMMA HeaderAlmostDoneSame ==
  ASSUME NEW r, NEW w, NEW c, Both(r, w),
         r.st = "header_almost_done"
  PROVE  Same(HeaderAlmostDone(r, c), HeaderAlmostDone(w, c))
<1>1. Plain(r, w)
  BY QuietPlain
<1>2. Plain(HeaderAlmostDone(r, c), HeaderAlmostDone(w, c))
  BY <1>1 DEF Plain, Alike, Field, HeaderAlmostDone, Go, Fail
<1>. QED
  BY <1>2, PlainSame

LEMMA HeaderValueLwsSame ==
  ASSUME NEW r, NEW w, NEW c, Both(r, w),
         r.st = "header_value_lws"
  PROVE  Same(HeaderValueLws(r, c), HeaderValueLws(w, c))
<1>1. Plain(r, w)
  BY QuietPlain
<1>2. Plain(HeaderValueLws(r, c), HeaderValueLws(w, c))
  BY <1>1 DEF Plain, Alike, Field, HeaderValueLws, Again, Finished, ConnectionFlag
<1>. QED
  BY <1>2, PlainSame

LEMMA DiscardWsEndSame ==
  ASSUME NEW r, NEW w, NEW c, Both(r, w),
         r.st = "header_value_discard_ws_almost_done"
  PROVE  Same(DiscardWsEnd(r, c), DiscardWsEnd(w, c))
<1>1. Plain(r, w)
  BY QuietPlain
<1>2. Plain(DiscardWsEnd(r, c), DiscardWsEnd(w, c))
  BY <1>1 DEF Plain, Alike, Field, DiscardWsEnd, Go, Fail
<1>. QED
  BY <1>2, PlainSame

LEMMA MessageDoneSame ==
  ASSUME NEW r, NEW w, Both(r, w),
         r.st = "message_done"
  PROVE  Same(MessageDone(r), MessageDone(w))
<1>1. Plain(r, w)
  BY QuietPlain
<1>2. Plain(MessageDone(r), MessageDone(w))
  BY <1>1 DEF Plain, Alike, Field, MessageDone, Complete, Go, Notify, NewMessage,
     ShouldKeepAlive, NeedsEof
<1>. QED
  BY <1>2, PlainSame

LEMMA ChunkSizeStartSame ==
  ASSUME NEW r, NEW w, NEW c, Both(r, w),
         r.st = "chunk_size_start"
  PROVE  Same(ChunkSizeStart(r, c), ChunkSizeStart(w, c))
<1>1. Plain(r, w)
  BY QuietPlain
<1>2. Plain(ChunkSizeStart(r, c), ChunkSizeStart(w, c))
  BY <1>1 DEF Plain, Alike, Field, ChunkSizeStart, Go, Fail
<1>. QED
  BY <1>2, PlainSame

LEMMA ChunkSizeSame ==
  ASSUME NEW r, NEW w, NEW c, Both(r, w),
         r.st = "chunk_size"
  PROVE  Same(ChunkSize(r, c), ChunkSize(w, c))
<1>1. Plain(r, w)
  BY QuietPlain
<1>2. Plain(ChunkSize(r, c), ChunkSize(w, c))
  BY <1>1 DEF Plain, Alike, Field, ChunkSize, Go, Fail
<1>. QED
  BY <1>2, PlainSame

LEMMA ChunkParametersSame ==
  ASSUME NEW r, NEW w, NEW c, Both(r, w),
         r.st = "chunk_parameters"
  PROVE  Same(ChunkParameters(r, c), ChunkParameters(w, c))
<1>1. Plain(r, w)
  BY QuietPlain
<1>2. Plain(ChunkParameters(r, c), ChunkParameters(w, c))
  BY <1>1 DEF Plain, Alike, Field, ChunkParameters, Go
<1>. QED
  BY <1>2, PlainSame

LEMMA PlainReqMethod ==
  ASSUME NEW r, NEW w, Plain(r, w), NEW c PROVE Plain(ReqMethod(r, c), ReqMethod(w, c))
BY PlainGo, PlainSet, PlainNotify DEF ReqMethod

LEMMA PlainVersion ==
  ASSUME NEW r, NEW w, Plain(r, w), NEW t, NEW v
  PROVE  Plain([r EXCEPT !.type = t, !.v11 = v], [w EXCEPT !.type = t, !.v11 = v])
BY DEF Plain, Alike, Field

LEMMA StartReqOrResSame ==
  ASSUME NEW r, NEW w, NEW c, Both(r, w), r.st = "start_req_or_res"
  PROVE  Same(StartReqOrRes(r, c), StartReqOrRes(w, c))
<1>1. Plain(r, w) /\ Plain(Fresh(r), Fresh(w))
  BY QuietPlain, PlainFresh
<1>2. CASE c \in {"CR", "LF"}
  <2>1. StartReqOrRes(r, c) = r /\ StartReqOrRes(w, c) = w
    BY <1>2 DEF StartReqOrRes, Version
  <2>. QED
    BY <1>1, <2>1, PlainSame
<1>3. CASE c \in Version
  <2>. PICK g, h : g = Go(Fresh(r), "res_version") /\ h = Go(Fresh(w), "res_version")
    OBVIOUS
  <2>1. Plain(g, h)
    BY <1>1, PlainGo
  <2>2. Plain([g EXCEPT !.type = "response", !.v11 = (c = "v11")],
              [h EXCEPT !.type = "response", !.v11 = (c = "v11")])
    BY <2>1, PlainVersion
  <2>3. Plain(Notify([g EXCEPT !.type = "response", !.v11 = (c = "v11")], "message_begin"),
              Notify([h EXCEPT !.type = "response", !.v11 = (c = "v11")], "message_begin"))
    BY <2>2, PlainNotify
  <2>4. /\ StartReqOrRes(r, c)
             = Notify([g EXCEPT !.type = "response", !.v11 = (c = "v11")], "message_begin")
        /\ StartReqOrRes(w, c)
             = Notify([h EXCEPT !.type = "response", !.v11 = (c = "v11")], "message_begin")
    BY <1>3 DEF StartReqOrRes, Version
  <2>. QED
    BY <2>3, <2>4, PlainSame
<1>4. CASE c \notin {"CR", "LF"} /\ c \notin Version
  <2>. PICK g, h : g = [Fresh(r) EXCEPT !.type = "request"] /\ h = [Fresh(w) EXCEPT !.type = "request"]
    OBVIOUS
  <2>1. Plain(g, h)
    BY <1>1, PlainSet
  <2>2. /\ StartReqOrRes(r, c) = IF c = "head" THEN ReqMethod(g, c) ELSE Again(g, "start_req")
        /\ StartReqOrRes(w, c) = IF c = "head" THEN ReqMethod(h, c) ELSE Again(h, "start_req")
    BY <1>4 DEF StartReqOrRes
  <2>3. Plain(ReqMethod(g, c), ReqMethod(h, c)) /\ Plain(Again(g, "start_req"), Again(h, "start_req"))
    BY <2>1, PlainReqMethod, PlainAgain
  <2>. QED
    BY <2>2, <2>3, PlainSame
<1>. QED
  BY <1>2, <1>3, <1>4

LEMMA StartReqSame ==
  ASSUME NEW r, NEW w, NEW c, Both(r, w), r.st = "start_req"
  PROVE  Same(StartReq(r, c), StartReq(w, c))
<1>1. Plain(r, w) /\ Plain(Fresh(r), Fresh(w))
  BY QuietPlain, PlainFresh
<1>2. /\ Plain(ReqMethod(Fresh(r), c), ReqMethod(Fresh(w), c))
      /\ Plain(Fail(Fresh(r), "INVALID_METHOD"), Fail(Fresh(w), "INVALID_METHOD"))
  BY <1>1, PlainReqMethod, PlainFail
<1>. QED
  BY <1>1, <1>2, PlainSame DEF StartReq, Method

LEMMA StartResSame ==
  ASSUME NEW r, NEW w, NEW c, Both(r, w), r.st = "start_res"
  PROVE  Same(StartRes(r, c), StartRes(w, c))
<1>. PICK f, g : f = Fresh(r) /\ g = Fresh(w)
  OBVIOUS
<1>1. Plain(f, g)
  BY QuietPlain, PlainFresh
<1>2. Plain([Go(f, "res_version") EXCEPT !.v11 = (c = "v11")],
            [Go(g, "res_version") EXCEPT !.v11 = (c = "v11")])
  BY <1>1, PlainGo, PlainSet
<1>3. /\ Plain(Notify([Go(f, "res_version") EXCEPT !.v11 = (c = "v11")], "message_begin"),
               Notify([Go(g, "res_version") EXCEPT !.v11 = (c = "v11")], "message_begin"))
      /\ Plain(Notify(f, "message_begin"), Notify(g, "message_begin"))
      /\ Plain(Fail(f, "INVALID_CONSTANT"), Fail(g, "INVALID_CONSTANT"))
  BY <1>1, <1>2, PlainNotify, PlainFail
<1>. QED
  BY <1>3, PlainSame DEF StartRes, Version

LEMMA HeaderFieldStartSame ==
  ASSUME NEW r, NEW w, NEW c, Both(r, w), r.st = "header_field_start"
  PROVE  Same(HeaderFieldStart(r, c), HeaderFieldStart(w, c))
<1>1. Plain(r, w)
  BY QuietPlain
<1>2. /\ Plain(Go(r, "headers_almost_done"), Go(w, "headers_almost_done"))
      /\ Plain(Again(r, "headers_almost_done"), Again(w, "headers_almost_done"))
      /\ Plain(Fail(r, "INVALID_HEADER_TOKEN"), Fail(w, "INVALID_HEADER_TOKEN"))
  BY <1>1, PlainGo, PlainAgain, PlainFail
<1>. PICK h : h = IF c \in Name THEN c ELSE "general"
  OBVIOUS
<1>3. Plain([Go(Mark(r, "field"), "header_field") EXCEPT !.hst = h],
            [Go(Mark(w, "field"), "header_field") EXCEPT !.hst = h])
  BY <1>1, PlainMark, PlainGo, PlainSet
<1>4. CASE c \in {"CR", "LF"}
  <2>1. c \notin Token
    BY <1>4 DEF Token, Method, Digit, Status, Name, Word
  <2>. QED
    BY <1>2, <1>4, <2>1, PlainSame DEF HeaderFieldStart
<1>5. CASE c \notin {"CR", "LF"} /\ c \in Token
  <2>1. /\ HeaderFieldStart(r, c) = [Go(Mark(r, "field"), "header_field") EXCEPT !.hst = h]
        /\ HeaderFieldStart(w, c) = [Go(Mark(w, "field"), "header_field") EXCEPT !.hst = h]
    BY <1>5 DEF HeaderFieldStart
  <2>. QED
    BY <1>3, <2>1, PlainSame
<1>6. CASE c \notin {"CR", "LF"} /\ c \notin Token
  BY <1>2, <1>6, PlainSame DEF HeaderFieldStart
<1>. QED
  BY <1>4, <1>5, <1>6

LEMMA HeadersAlmostDoneSame ==
  ASSUME NEW r, NEW w, NEW c, NEW a, Both(r, w), r.st = "headers_almost_done"
  PROVE  Same(HeadersAlmostDone(r, c, a), HeadersAlmostDone(w, c, a))
<1>1. Plain(r, w)
  BY QuietPlain
<1>2. r.flags = w.flags /\ IsUpgrade(r) = IsUpgrade(w)
  BY <1>1 DEF Plain, Alike, IsUpgrade
<1>. PICK g, h : g = Again(r, "headers_done") /\ h = Again(w, "headers_done")
  OBVIOUS
<1>. PICK u, fs : /\ u = (IsUpgrade(r) \/ a = 2)
                  /\ fs = IF a = 0 THEN r.flags ELSE r.flags \cup {"skipbody"}
  OBVIOUS
<1>3. Plain(g, h) /\ g.flags = r.flags /\ h.flags = r.flags
  BY <1>1, PlainAgain DEF Plain, Alike, Again, Field
<1>4. Plain([g EXCEPT !.upgrade = u, !.flags = fs], [h EXCEPT !.upgrade = u, !.flags = fs])
  BY <1>3 DEF Plain, Alike, Field
<1>5. Plain(Notify([g EXCEPT !.upgrade = u, !.flags = fs], "headers_complete"),
            Notify([h EXCEPT !.upgrade = u, !.flags = fs], "headers_complete"))
  BY <1>4, PlainNotify
<1>6. /\ Plain(Fail(r, "STRICT"), Fail(w, "STRICT"))
      /\ Plain(Fail(r, "UNEXPECTED_CONTENT_LENGTH"), Fail(w, "UNEXPECTED_CONTENT_LENGTH"))
      /\ Plain(Notify(Again(r, "message_done"), "chunk_complete"),
               Notify(Again(w, "message_done"), "chunk_complete"))
  BY <1>1, PlainFail, PlainAgain, PlainNotify
<1>7. CASE c = "LF" /\ "trailing" \notin r.flags /\ ~({"chunked", "contentlength"} \subseteq r.flags)
  <2>1. HeadersAlmostDone(r, c, a)
          = Notify([g EXCEPT !.upgrade = u, !.flags = fs], "headers_complete")
    BY <1>3, <1>7 DEF HeadersAlmostDone
  <2>2. HeadersAlmostDone(w, c, a)
          = Notify([h EXCEPT !.upgrade = u, !.flags = fs], "headers_complete")
    BY <1>2, <1>3, <1>7 DEF HeadersAlmostDone
  <2>. QED
    BY <1>5, <2>1, <2>2, PlainSame
<1>8. CASE ~(c = "LF" /\ "trailing" \notin r.flags /\ ~({"chunked", "contentlength"} \subseteq r.flags))
  BY <1>2, <1>6, <1>8, PlainSame DEF HeadersAlmostDone
<1>. QED
  BY <1>7, <1>8

LEMMA PlainComplete ==
  ASSUME NEW r, NEW w, Plain(r, w) PROVE Plain(Complete(r), Complete(w))
<1>1. NewMessage(r) = NewMessage(w)
  BY DEF Plain, Alike, NewMessage, ShouldKeepAlive, NeedsEof
<1>. QED
  BY <1>1, PlainGo, PlainNotify DEF Complete

LEMMA HeadersDoneSame ==
  ASSUME NEW r, NEW w, NEW c, Both(r, w), r.st = "headers_done"
  PROVE  Same(HeadersDone(r, c), HeadersDone(w, c))
<1>. PICK n, m : n = [r EXCEPT !.nread = 0] /\ m = [w EXCEPT !.nread = 0]
  OBVIOUS
<1>1. Plain(r, w) /\ Plain(n, m)
  BY QuietPlain, PlainZero
<1>2. /\ r.flags = w.flags /\ r.len = w.len /\ r.upgrade = w.upgrade /\ r.method = w.method
      /\ NeedsEof(r) = NeedsEof(w)
  BY <1>1 DEF Plain, Alike, NeedsEof
<1>3. /\ Plain(Fail(r, "STRICT"), Fail(w, "STRICT"))
      /\ Plain(Complete(n), Complete(m))
      /\ Plain([Complete(n) EXCEPT !.exit = TRUE], [Complete(m) EXCEPT !.exit = TRUE])
      /\ Plain(Go(n, "chunk_size_start"), Go(m, "chunk_size_start"))
      /\ Plain(Go(n, "body_identity"), Go(m, "body_identity"))
      /\ Plain(Go(n, "body_identity_eof"), Go(m, "body_identity_eof"))
  BY <1>1, PlainFail, PlainComplete, PlainSet, PlainGo
<1>4. Plain(HeadersDone(r, c), HeadersDone(w, c))
  BY <1>2, <1>3 DEF HeadersDone
<1>. QED
  BY <1>4, PlainSame

LEMMA ChunkSizeAlmostDoneSame ==
  ASSUME NEW r, NEW w, NEW c, Both(r, w), r.st = "chunk_size_almost_done"
  PROVE  Same(ChunkSizeAlmostDone(r, c), ChunkSizeAlmostDone(w, c))
<1>. PICK n, m : n = [r EXCEPT !.nread = 0] /\ m = [w EXCEPT !.nread = 0]
  OBVIOUS
<1>1. Plain(r, w) /\ Plain(n, m) /\ r.len = w.len
  BY QuietPlain, PlainZero DEF Plain, Alike
<1>. PICK g, h, fs : /\ g = Go(n, "header_field_start") /\ h = Go(m, "header_field_start")
                     /\ fs = g.flags \cup {"trailing"}
  OBVIOUS
<1>a. Plain(g, h)
  BY <1>1, PlainGo
<1>2. Plain(g, h) /\ g.flags = h.flags
  BY <1>a DEF Plain, Alike
<1>3. /\ Plain(Fail(r, "STRICT"), Fail(w, "STRICT"))
      /\ Plain(Notify(Go(n, "chunk_data"), "chunk_header"), Notify(Go(m, "chunk_data"), "chunk_header"))
      /\ Plain(Notify([g EXCEPT !.flags = fs], "chunk_header"),
               Notify([h EXCEPT !.flags = fs], "chunk_header"))
  BY <1>1, <1>2, PlainFail, PlainGo, PlainNotify, PlainSet
<1>4. ChunkSizeAlmostDone(r, c) =
        IF c # "LF" THEN Fail(r, "STRICT")
        ELSE IF r.len = 0 THEN Notify([g EXCEPT !.flags = fs], "chunk_header")
        ELSE Notify(Go(n, "chunk_data"), "chunk_header")
  BY DEF ChunkSizeAlmostDone
<1>5. ChunkSizeAlmostDone(w, c) =
        IF c # "LF" THEN Fail(w, "STRICT")
        ELSE IF r.len = 0 THEN Notify([h EXCEPT !.flags = fs], "chunk_header")
        ELSE Notify(Go(m, "chunk_data"), "chunk_header")
  BY <1>1, <1>2 DEF ChunkSizeAlmostDone
<1>. QED
  BY <1>3, <1>4, <1>5, PlainSame

LEMMA ChunkDataDoneSame ==
  ASSUME NEW r, NEW w, NEW c, Both(r, w), r.st = "chunk_data_done"
  PROVE  Same(ChunkDataDone(r, c), ChunkDataDone(w, c))
<1>. PICK g, h : g = Go(r, "chunk_size_start") /\ h = Go(w, "chunk_size_start")
  OBVIOUS
<1>1. Plain(r, w) /\ Plain(g, h)
  BY QuietPlain, PlainGo
<1>2. /\ Plain(Fail(r, "STRICT"), Fail(w, "STRICT"))
      /\ Plain(Notify([g EXCEPT !.nread = 0], "chunk_complete"),
               Notify([h EXCEPT !.nread = 0], "chunk_complete"))
  BY <1>1, PlainFail, PlainZero, PlainNotify
<1>. QED
  BY <1>2, PlainSame DEF ChunkDataDone

LEMMA ValueStartPlain ==
  ASSUME NEW r, NEW w, NEW c, Plain(r, w)
  PROVE  Plain(ValueStart(r, c), ValueStart(w, c))
<1>. PICK m, n : /\ m = Go(Mark(r, "value"), "header_value")
                 /\ n = Go(Mark(w, "value"), "header_value")
  OBVIOUS
<1>1. Plain(m, n) /\ m.flags = n.flags /\ r.hst = w.hst
  BY PlainMark, PlainGo DEF Plain, Alike
<1>2. \A h : Plain([m EXCEPT !.hst = h], [n EXCEPT !.hst = h])
  BY <1>1, PlainSet
<1>3. CASE r.hst = "upgrade"
  <2>. PICK fs : fs = m.flags \cup {"upgrade"}
    OBVIOUS
  <2>1. /\ ValueStart(r, c) = [m EXCEPT !.flags = fs, !.hst = "general"]
        /\ ValueStart(w, c) = [n EXCEPT !.flags = fs, !.hst = "general"]
    BY <1>1, <1>3 DEF ValueStart
  <2>2. Plain([m EXCEPT !.flags = fs, !.hst = "general"], [n EXCEPT !.flags = fs, !.hst = "general"])
    BY <1>1 DEF Plain, Alike, Field
  <2>. QED
    BY <2>1, <2>2
<1>4. CASE r.hst = "content-length"
  <2>1. ValueStart(r, c) = ContentLengthStart(m, c) /\ ValueStart(w, c) = ContentLengthStart(n, c)
    BY <1>1, <1>4 DEF ValueStart
  <2>. PICK fs, v : fs = m.flags \cup {"contentlength"} /\ v = Value(c)
    OBVIOUS
  <2>2. /\ Plain(Fail(m, "INVALID_CONTENT_LENGTH"), Fail(n, "INVALID_CONTENT_LENGTH"))
        /\ Plain(Fail(m, "UNEXPECTED_CONTENT_LENGTH"), Fail(n, "UNEXPECTED_CONTENT_LENGTH"))
    BY <1>1, PlainFail
  <2>3. Plain([m EXCEPT !.flags = fs, !.len = v], [n EXCEPT !.flags = fs, !.len = v])
    BY <1>1 DEF Plain, Alike, Field
  <2>4. Plain(ContentLengthStart(m, c), ContentLengthStart(n, c))
    BY <1>1, <2>2, <2>3 DEF ContentLengthStart
  <2>. QED
    BY <2>1, <2>4
<1>5. CASE r.hst = "token_start"
  BY <1>1, <1>5 DEF ValueStart
<1>6. CASE r.hst \notin {"upgrade", "content-length", "token_start"}
  <2>1. \E h : ValueStart(r, c) = [m EXCEPT !.hst = h] /\ ValueStart(w, c) = [n EXCEPT !.hst = h]
    BY <1>1, <1>6 DEF ValueStart
  <2>. QED
    BY <1>2, <2>1
<1>. QED
  BY <1>3, <1>4, <1>5, <1>6

LEMMA ValueStartSame ==
  ASSUME NEW r, NEW w, NEW c, Both(r, w), r.st = "header_value_start"
  PROVE  Same(ValueStart(r, c), ValueStart(w, c))
BY QuietPlain, ValueStartPlain, PlainSame

LEMMA DiscardWsSame ==
  ASSUME NEW r, NEW w, NEW c, Both(r, w), r.st = "header_value_discard_ws"
  PROVE  Same(DiscardWs(r, c), DiscardWs(w, c))
<1>1. Plain(r, w)
  BY QuietPlain
<1>2. Plain(DiscardWs(r, c), DiscardWs(w, c))
  BY <1>1, PlainGo, ValueStartPlain DEF DiscardWs
<1>. QED
  BY <1>2, PlainSame

-----------------------------------------------------------------------------
(* What has been told of the stream                                        *)

(* What is told with what is marked up to a place.                         *)
Told(r, to) == r.seen \o Marked(r, to)

LEMMA KnowsTold == ASSUME NEW r PROVE Knows(r) = Told(r, r.pos)
BY DEF Knows, Told

LEMMA Associative ==
  ASSUME NEW S PROVE \A q, u, w \in Seq(S) : (q \o u) \o w = q \o (u \o w)
BY ConcatAssociative

LEMMA EventsJoin == \A q, u, w \in Seq(Event) : (q \o u) \o w = q \o (u \o w)
BY Associative

(* What is told of one lexeme more                                         *)
LEMMA OneMore ==
  ASSUME stream \in Seq(Lexemes), NEW r, Shape(r), r.mark # 0, r.pos <= Len(stream)
  PROVE  Told(r, r.pos + 1) = Knows(r) \o <<<<r.kind, stream[r.pos]>>>>
<1>. PICK n \in Nat : n = r.pos - r.mark
  BY DEF Shape
<1>. PICK m \in Nat : m = r.mark
  BY DEF Shape
<1>. PICK v : v = <<r.kind, stream[r.pos]>>
  OBVIOUS
<1>0. r.pos \in 1..Len(stream) /\ r.pos = m + n /\ m >= 1 /\ r.kind \in Kind
  BY DEF Shape
<1>. PICK s, t : s = Marked(r, r.pos) /\ t = Marked(r, r.pos + 1)
  OBVIOUS
<1>1. v \in Event
  <2>1. stream[r.pos] \in Lexemes
    BY <1>0
  <2>. QED
    BY <1>0, <2>1 DEF Event
<1>2. s \in Seq(Event) /\ t \in Seq(Event)
  BY MarkedSeq, <1>0
<1>3. s = [i \in 1..n |-> <<r.kind, stream[m + i - 1]>>]
  BY DEF Marked
<1>4. t = [i \in 1..(n + 1) |-> <<r.kind, stream[m + i - 1]>>]
  <2>1. (r.pos + 1) - r.mark = n + 1
    BY <1>0
  <2>. QED
    BY <2>1 DEF Marked
<1>5. Len(s) = n /\ Len(t) = n + 1
  BY <1>2, <1>3, <1>4
<1>6. \A i \in 1..n : t[i] = s[i]
  <2>1. TAKE i \in 1..n
  <2>2. i \in 1..(n + 1)
    OBVIOUS
  <2>3. t[i] = <<r.kind, stream[m + i - 1]>>
    BY <1>4, <2>2, Zenon
  <2>4. s[i] = <<r.kind, stream[m + i - 1]>>
    BY <1>3, Zenon
  <2>. QED
    BY <2>3, <2>4
<1>7. t[n + 1] = v
  <2>a. m + (n + 1) - 1 = m + n /\ n + 1 \in 1..(n + 1)
    OBVIOUS
  <2>1. m + (n + 1) - 1 = r.pos /\ n + 1 \in 1..(n + 1)
    BY <1>0, <2>a
  <2>2. t[n + 1] = <<r.kind, stream[m + (n + 1) - 1]>>
    BY <1>4, <2>1, Zenon
  <2>. QED
    BY <2>1, <2>2, Zenon
<1>8. t = s \o <<v>>
  <2>. HIDE DEF Event
  <2>1. <<v>> \in Seq(Event) /\ Len(<<v>>) = 1 /\ <<v>>[1] = v
    BY <1>1
  <2>2. /\ s \o <<v>> \in Seq(Event) /\ Len(s \o <<v>>) = n + 1
        /\ \A i \in 1..(n + 1) : (s \o <<v>>)[i] = IF i <= n THEN s[i] ELSE <<v>>[i - n]
    BY <1>2, <1>5, <2>1, ConcatProperties
  <2>3. \A i \in 1..(n + 1) : t[i] = (s \o <<v>>)[i]
    <3>1. TAKE i \in 1..(n + 1)
    <3>2. CASE i <= n
      BY <1>6, <2>2, <3>2
    <3>3. CASE ~(i <= n)
      <4>1. i = n + 1 /\ i - n = 1
        BY <3>3
      <4>. QED
        BY <1>7, <2>1, <2>2, <3>3, <4>1
    <3>. QED
      BY <3>2, <3>3
  <2>. QED
    BY <1>2, <1>5, <2>2, <2>3, SeqEqual
<1>9. (r.seen \o s) \o <<v>> = r.seen \o (s \o <<v>>)
  <2>. HIDE DEF Event
  <2>1. <<v>> \in Seq(Event)
    BY <1>1
  <2>2. r.seen \in Seq(Event)
    BY DEF Shape
  <2>3. \A q, u, w \in Seq(Event) : (q \o u) \o w = q \o (u \o w)
    BY EventsJoin, Zenon
  <2>4. s \in Seq(Event)
    BY <1>2
  <2>. QED
    BY <2>1, <2>2, <2>3, <2>4, Zenon
<1>. QED
  BY <1>8, <1>9 DEF Told, Knows

(* The fields the loops and marks leave alone                              *)
Kept(r, d) ==
  /\ d.type = r.type /\ d.method = r.method /\ d.v11 = r.v11 /\ d.status = r.status
  /\ d.upgrade = r.upgrade /\ d.exit = r.exit

LEMMA KeptAlike ==
  ASSUME NEW r, NEW w, Alike(r, w), NEW d, NEW e, Kept(r, d), Kept(w, e),
         d.st = e.st, d.hst = e.hst, d.flags = e.flags, d.len = e.len,
         d.err = e.err, d.pos = e.pos, d.kind = e.kind
  PROVE  Alike(d, e)
BY DEF Alike, Kept

LEMMA SameKnows ==
  ASSUME NEW r, NEW d, d.seen = r.seen, d.mark = r.mark, d.kind = r.kind, d.pos = r.pos
  PROVE  Knows(d) = Knows(r)
BY DEF Knows, Marked

LEMMA GoKept ==
  ASSUME NEW r, DOMAIN r = Field, NEW st, NEW e
  PROVE  Kept(r, Go(r, st)) /\ Kept(r, Again(r, st)) /\ Kept(r, Fail(r, e))
BY DEF Kept, Go, Again, Fail, Field

LEMMA LoopKept == ASSUME NEW r, DOMAIN r = Field PROVE Kept(r, Loop(r))
BY DEF Kept, Loop, Field

LEMMA MarkKept ==
  ASSUME NEW r, DOMAIN r = Field, NEW k PROVE Kept(r, Mark(r, k))
BY DEF Kept, Mark, Field

LEMMA LeaveLoopKept == ASSUME NEW r, DOMAIN r = Field PROVE Kept(r, LeaveLoop(r))
BY DEF Kept, LeaveLoop, Count, Fail, Field

LEMMA DataKept ==
  ASSUME NEW r, DOMAIN r = Field, NEW to
  PROVE  Kept(r, Data(r, to)) /\ Data(r, to).kind = r.kind
<1>. PICK s : s = r.seen \o Marked(r, to)
  OBVIOUS
<1>1. Data(r, to) = IF r.mark = 0 THEN r ELSE [r EXCEPT !.seen = s, !.told = TRUE, !.mark = 0]
  BY DEF Data
<1>. QED
  BY <1>1 DEF Kept, Field

LEMMA DataTold ==
  ASSUME stream \in Seq(Lexemes), NEW r, Shape(r), NEW to \in 1..(Len(stream) + 1)
  PROVE  Data(r, to).seen = Told(r, to)
<1>1. CASE r.mark = 0
  <2>1. r.seen \in Seq(Event) /\ Marked(r, to) = <<>>
    BY <1>1 DEF Shape, Marked
  <2>2. r.seen \o <<>> = r.seen
    <3>. HIDE DEF Event
    <3>. QED
      BY <2>1
  <2>. QED
    BY <1>1, <2>1, <2>2 DEF Data, Told
<1>2. CASE r.mark # 0
  <2>. PICK s : s = Told(r, to)
    OBVIOUS
  <2>1. Data(r, to) = [r EXCEPT !.seen = s, !.told = TRUE, !.mark = 0]
    BY <1>2 DEF Data, Told
  <2>. QED
    BY <2>1 DEF Shape, Field
<1>. QED
  BY <1>1, <1>2

(* Both outside the loops, and what is known of the stream the same        *)
Aligned(r, w) ==
  /\ Shape(r) /\ Shape(w) /\ Alike(r, w) /\ Knows(r) = Knows(w)
  /\ r.start = 0 /\ w.start = 0 /\ w.nread <= r.nread /\ r.again = w.again

LEMMA DataPlainTo ==
  ASSUME stream \in Seq(Lexemes), NEW r, NEW w, Aligned(r, w),
         NEW to \in 1..(Len(stream) + 1),
         Told(r, to) = Told(w, to)
  PROVE  Plain(Data(r, to), Data(w, to))
<1>. PICK d, e : d = Data(r, to) /\ e = Data(w, to)
  OBVIOUS
<1>0. Shape(r) /\ Shape(w) /\ Alike(r, w)
  BY DEF Aligned
<1>1. Kept(r, d) /\ Kept(w, e) /\ d.kind = r.kind /\ e.kind = w.kind
  BY <1>0, DataKept DEF Shape
<1>2. d.seen = e.seen
  BY <1>0, DataTold
<1>3. /\ Shape(d) /\ d.mark = 0 /\ d.st = r.st /\ d.hst = r.hst /\ d.flags = r.flags
      /\ d.len = r.len /\ d.nread = r.nread /\ d.err = r.err /\ d.pos = r.pos
      /\ d.start = r.start /\ d.again = r.again
  BY <1>0, DataIs
<1>4. /\ Shape(e) /\ e.mark = 0 /\ e.st = w.st /\ e.hst = w.hst /\ e.flags = w.flags
      /\ e.len = w.len /\ e.nread = w.nread /\ e.err = w.err /\ e.pos = w.pos
      /\ e.start = w.start /\ e.again = w.again
  BY <1>0, DataIs
<1>5. Alike(d, e)
  <2>1. /\ d.st = e.st /\ d.hst = e.hst /\ d.flags = e.flags /\ d.len = e.len
        /\ d.err = e.err /\ d.pos = e.pos /\ d.kind = e.kind
    BY <1>0, <1>1, <1>3, <1>4 DEF Alike
  <2>. QED
    BY <1>0, <1>1, <2>1, KeptAlike
<1>6. DOMAIN d = Field /\ DOMAIN e = Field
  BY <1>3, <1>4 DEF Shape
<1>. QED
  BY <1>2, <1>3, <1>4, <1>5, <1>6 DEF Plain, Aligned

LEMMA DataPlain ==
  ASSUME stream \in Seq(Lexemes), NEW r, NEW w, Aligned(r, w)
  PROVE  Plain(Data(r, r.pos), Data(w, w.pos))
<1>1. r.pos = w.pos /\ r.pos \in 1..(Len(stream) + 1)
  BY InStream DEF Aligned, Alike
<1>2. Told(r, r.pos) = Told(w, r.pos)
  BY <1>1, KnowsTold DEF Aligned
<1>. QED
  BY <1>1, <1>2, DataPlainTo

LEMMA AlignedSame ==
  ASSUME NEW d, NEW e, Aligned(d, e), d.mark # 0, e.mark # 0
  PROVE  Same(d, e)
BY DEF Aligned, Same, Rel, Eff

LEMMA AlignedGo ==
  ASSUME NEW r, NEW w, Aligned(r, w), NEW st, Live(st), NEW k
  PROVE  /\ Aligned(Go(r, st), Go(w, st)) /\ Aligned(Again(r, st), Again(w, st))
         /\ Aligned(Fail(r, k), Fail(w, k))
         /\ Go(r, st).mark = r.mark /\ Again(r, st).mark = r.mark /\ Fail(r, k).mark = r.mark
         /\ Go(r, st).pos = r.pos /\ Again(r, st).pos = r.pos
         /\ Go(w, st).mark = w.mark /\ Again(w, st).mark = w.mark /\ Fail(w, k).mark = w.mark
         /\ Go(w, st).pos = w.pos /\ Again(w, st).pos = w.pos
<1>0. DOMAIN r = Field /\ DOMAIN w = Field
  BY DEF Aligned, Shape
<1>1. /\ Shape(Go(r, st)) /\ Shape(Go(w, st)) /\ Shape(Again(r, st)) /\ Shape(Again(w, st))
      /\ Shape(Fail(r, k)) /\ Shape(Fail(w, k))
  BY GoShape, AgainShape, FailShape DEF Aligned
<1>2. /\ Alike(Go(r, st), Go(w, st)) /\ Alike(Again(r, st), Again(w, st))
      /\ Alike(Fail(r, k), Fail(w, k))
  BY <1>0 DEF Go, Again, Fail, Aligned, Alike, Field
<1>3. \A q : DOMAIN q = Field =>
        /\ Knows(Go(q, st)) = Knows(q) /\ Knows(Again(q, st)) = Knows(q) /\ Knows(Fail(q, k)) = Knows(q)
  <2>1. TAKE q
  <2>2. HAVE DOMAIN q = Field
  <2>3. /\ Go(q, st).seen = q.seen /\ Go(q, st).mark = q.mark /\ Go(q, st).kind = q.kind
        /\ Go(q, st).pos = q.pos
        /\ Again(q, st).seen = q.seen /\ Again(q, st).mark = q.mark /\ Again(q, st).kind = q.kind
        /\ Again(q, st).pos = q.pos
        /\ Fail(q, k).seen = q.seen /\ Fail(q, k).mark = q.mark /\ Fail(q, k).kind = q.kind
        /\ Fail(q, k).pos = q.pos
    BY <2>2 DEF Go, Again, Fail, Field
  <2>. QED
    BY <2>3, SameKnows
<1>4. \A q : DOMAIN q = Field =>
        /\ Go(q, st).start = q.start /\ Go(q, st).nread = q.nread /\ Go(q, st).again = q.again
        /\ Again(q, st).start = q.start /\ Again(q, st).nread = q.nread /\ Again(q, st).again = TRUE
        /\ Fail(q, k).start = q.start /\ Fail(q, k).nread = q.nread /\ Fail(q, k).again = q.again
  BY DEF Go, Again, Fail, Field
<1>5. /\ Go(r, st).mark = r.mark /\ Again(r, st).mark = r.mark /\ Fail(r, k).mark = r.mark
      /\ Go(r, st).pos = r.pos /\ Again(r, st).pos = r.pos
  BY <1>0 DEF Go, Again, Fail, Field
<1>6. /\ Go(w, st).mark = w.mark /\ Again(w, st).mark = w.mark /\ Fail(w, k).mark = w.mark
      /\ Go(w, st).pos = w.pos /\ Again(w, st).pos = w.pos
  BY <1>0 DEF Go, Again, Fail, Field
<1>. QED
  BY <1>0, <1>1, <1>2, <1>3, <1>4, <1>5, <1>6 DEF Aligned

-----------------------------------------------------------------------------
(* The same lexeme for two parsers: the URL, the reason, bodies            *)

LEMMA BothAre ==
  ASSUME NEW r, NEW w, Both(r, w)
  PROVE  /\ Shape(r) /\ Shape(w) /\ Alike(r, w) /\ Knows(r) = Knows(w)
         /\ DOMAIN r = Field /\ DOMAIN w = Field
         /\ r.st = w.st /\ r.pos = w.pos /\ r.err = "OK" /\ w.err = "OK"
         /\ r.again = FALSE /\ w.again = FALSE /\ Eff(w) <= Eff(r)
BY DEF Both, Entered, Base, Rel, Alike, Shape

LEMMA MarkedAligned ==
  ASSUME NEW r, NEW w, Both(r, w), r.st \in {"req_url", "res_status"}
  PROVE  Aligned(r, w) /\ r.mark # 0 /\ w.mark # 0
<1>1. r.start = 0 /\ w.start = 0 /\ r.mark # 0 /\ w.mark # 0
  BY BothAre DEF Both, Entered, Base, Marks
<1>2. w.nread <= r.nread
  BY <1>1, BothAre DEF Eff
<1>. QED
  BY <1>1, <1>2, BothAre DEF Aligned

LEMMA UrlSame ==
  ASSUME stream \in Seq(Lexemes), NEW r, NEW w, NEW c, Both(r, w), r.st = "req_url"
  PROVE  Same(ReqUrl(r, c), ReqUrl(w, c))
<1>0. Aligned(r, w) /\ r.mark # 0 /\ w.mark # 0 /\ w.st = "req_url" /\ w.pos = r.pos
  BY MarkedAligned, BothAre
<1>1. CASE c \in {"SP", "CR", "LF"}
  <2>1. PICK st \in {"req_http_start", "req_line_almost_done", "header_field_start"} :
          \/ /\ ReqUrl(r, c) = Data(Go(r, st), r.pos)
             /\ ReqUrl(w, c) = Data(Go(w, st), w.pos)
          \/ /\ ReqUrl(r, c) = [Data(Go(r, st), r.pos) EXCEPT !.v11 = FALSE]
             /\ ReqUrl(w, c) = [Data(Go(w, st), w.pos) EXCEPT !.v11 = FALSE]
    BY <1>0, <1>1 DEF ReqUrl
  <2>a. Live(st)
    BY LiveStates
  <2>2. Aligned(Go(r, st), Go(w, st)) /\ Go(r, st).pos = r.pos /\ Go(w, st).pos = w.pos
    BY <1>0, <2>a, AlignedGo
  <2>3. Plain(Data(Go(r, st), r.pos), Data(Go(w, st), w.pos))
    BY <2>2, DataPlain
  <2>4. Plain([Data(Go(r, st), r.pos) EXCEPT !.v11 = FALSE],
              [Data(Go(w, st), w.pos) EXCEPT !.v11 = FALSE])
    BY <2>3, PlainSet
  <2>. QED
    BY <2>1, <2>3, <2>4, PlainSame
<1>2. CASE c \notin {"SP", "CR", "LF"}
  <2>1. \/ ReqUrl(r, c) = r /\ ReqUrl(w, c) = w
        \/ ReqUrl(r, c) = Fail(r, "INVALID_URL") /\ ReqUrl(w, c) = Fail(w, "INVALID_URL")
    BY <1>0, <1>2 DEF ReqUrl
  <2>2. Aligned(Fail(r, "INVALID_URL"), Fail(w, "INVALID_URL"))
    BY <1>0, LiveStates, AlignedGo
  <2>3. Fail(r, "INVALID_URL").mark # 0 /\ Fail(w, "INVALID_URL").mark # 0
    BY <1>0, BothAre DEF Fail, Field
  <2>. QED
    BY <1>0, <2>1, <2>2, <2>3, AlignedSame
<1>. QED
  BY <1>1, <1>2

LEMMA ResStatusSame ==
  ASSUME stream \in Seq(Lexemes), NEW r, NEW w, NEW c, Both(r, w), r.st = "res_status"
  PROVE  Same(ResLine(r, c), ResLine(w, c))
<1>0. Aligned(r, w) /\ r.mark # 0 /\ w.mark # 0 /\ w.st = "res_status" /\ w.pos = r.pos
  BY MarkedAligned, BothAre
<1>1. CASE c \in {"CR", "LF"}
  <2>1. PICK st \in {"res_line_almost_done", "header_field_start"} :
          /\ ResLine(r, c) = Data(Go(r, st), r.pos)
          /\ ResLine(w, c) = Data(Go(w, st), w.pos)
    BY <1>0, <1>1 DEF ResLine, EndOfResLine
  <2>a. Live(st)
    BY LiveStates
  <2>2. Aligned(Go(r, st), Go(w, st)) /\ Go(r, st).pos = r.pos /\ Go(w, st).pos = w.pos
    BY <1>0, <2>a, AlignedGo
  <2>3. Plain(Data(Go(r, st), r.pos), Data(Go(w, st), w.pos))
    BY <2>2, DataPlain
  <2>. QED
    BY <2>1, <2>3, PlainSame
<1>2. CASE c \notin {"CR", "LF"}
  <2>1. ResLine(r, c) = r /\ ResLine(w, c) = w
    BY <1>0, <1>2 DEF ResLine
  <2>. QED
    BY <1>0, <2>1, AlignedSame
<1>. QED
  BY <1>1, <1>2

LEMMA PlainAligned ==
  ASSUME NEW r, NEW w, Plain(r, w), Shape(r), Shape(w) PROVE Aligned(r, w)
<1>1. Knows(r) = Knows(w)
  BY DEF Plain, Alike, Knows, Marked
<1>. QED
  BY <1>1 DEF Plain, Aligned

LEMMA DiscardLwsSame ==
  ASSUME stream \in Seq(Lexemes), NEW r, NEW w, NEW c, Both(r, w),
         r.st = "header_value_discard_lws"
  PROVE  Same(DiscardLws(r, c), DiscardLws(w, c))
<1>0. Plain(r, w) /\ Shape(r) /\ Shape(w)
  BY QuietPlain, BothAre
<1>1. CASE c = "SP"
  BY <1>0, <1>1, PlainGo, PlainSame DEF DiscardLws
<1>2. CASE c # "SP"
  <2>. DEFINE A(q) == Again(Mark(Finished(q), "value"), "header_field_start")
  <2>0. Plain(Finished(r), Finished(w))
    BY <1>0 DEF Plain, Alike, Finished, Field
  <2>1. Plain(A(r), A(w))
    BY <2>0, PlainMark, PlainAgain
  <2>2. Shape(A(r)) /\ Shape(A(w))
    BY <1>0, FinishedShape, MarkShape, Kinds, AgainShape, LiveStates
  <2>3. Aligned(A(r), A(w))
    BY <2>1, <2>2, PlainAligned
  <2>4. \A q : DOMAIN q = Field => A(q).pos = q.pos
    BY DEF Again, Mark, Finished, Field
  <2>5. A(r).pos = r.pos /\ A(w).pos = w.pos
    BY <1>0, <2>4 DEF Shape
  <2>6. DiscardLws(r, c) = Data(A(r), r.pos) /\ DiscardLws(w, c) = Data(A(w), w.pos)
    BY <1>2 DEF DiscardLws
  <2>. HIDE DEF A
  <2>7. Plain(Data(A(r), r.pos), Data(A(w), w.pos))
    BY <2>3, <2>5, DataPlain
  <2>. QED
    BY <2>6, <2>7, PlainSame
<1>. QED
  BY <1>1, <1>2

-----------------------------------------------------------------------------
(* Bodies                                                                  *)

LEMMA MarkKnows ==
  ASSUME NEW r, Shape(r), NEW k
  PROVE  Knows(Mark(r, k)) = Knows(r)
<1>1. CASE r.mark # 0
  BY <1>1 DEF Mark
<1>2. CASE r.mark = 0
  <2>. PICK m : m = Mark(r, k)
    OBVIOUS
  <2>1. m.mark = r.pos /\ m.pos = r.pos /\ m.seen = r.seen /\ m.kind = k
    BY <1>2 DEF Mark, Shape, Field
  <2>2. r.pos # 0 /\ 1..(r.pos - r.pos) = 1..0
    BY DEF Shape
  <2>3. Marked(m, m.pos) = [i \in 1..(r.pos - r.pos) |-> <<k, stream[r.pos + i - 1]>>]
    BY <2>1, <2>2 DEF Marked
  <2>4. Marked(m, m.pos) = <<>>
    BY <2>2, <2>3
  <2>5. Marked(r, r.pos) = <<>>
    BY <1>2 DEF Marked
  <2>. QED
    BY <2>1, <2>4, <2>5 DEF Knows
<1>. QED
  BY <1>1, <1>2

LEMMA MarkIs ==
  ASSUME NEW r, Shape(r), NEW k \in Kind
  PROVE  /\ Shape(Mark(r, k)) /\ Kept(r, Mark(r, k)) /\ Knows(Mark(r, k)) = Knows(r)
         /\ Mark(r, k).mark # 0 /\ Mark(r, k).st = r.st /\ Mark(r, k).hst = r.hst
         /\ Mark(r, k).flags = r.flags /\ Mark(r, k).len = r.len /\ Mark(r, k).nread = r.nread
         /\ Mark(r, k).err = r.err /\ Mark(r, k).pos = r.pos /\ Mark(r, k).start = r.start
         /\ Mark(r, k).again = r.again /\ Mark(r, k).kind = IF r.mark = 0 THEN k ELSE r.kind
<1>. PICK m : m = Mark(r, k)
  OBVIOUS
<1>1. Shape(m) /\ Kept(r, m) /\ Knows(m) = Knows(r)
  BY MarkShape, MarkKept, MarkKnows DEF Shape
<1>2. /\ m.mark # 0 /\ m.st = r.st /\ m.hst = r.hst
      /\ m.flags = r.flags /\ m.len = r.len /\ m.nread = r.nread
      /\ m.err = r.err /\ m.pos = r.pos /\ m.start = r.start
      /\ m.again = r.again /\ m.kind = IF r.mark = 0 THEN k ELSE r.kind
  BY DEF Mark, Shape, Field
<1>. QED
  BY <1>1, <1>2

LEMMA MarkAligned ==
  ASSUME NEW r, NEW w, Aligned(r, w), NEW k \in Kind,
         r.mark # 0 => r.kind = k, w.mark # 0 => w.kind = k
  PROVE  /\ Aligned(Mark(r, k), Mark(w, k))
         /\ Mark(r, k).mark # 0 /\ Mark(w, k).mark # 0
<1>. PICK m, n : m = Mark(r, k) /\ n = Mark(w, k)
  OBVIOUS
<1>0. Shape(r) /\ Shape(w) /\ Alike(r, w)
  BY DEF Aligned
<1>1. /\ Shape(m) /\ Kept(r, m) /\ Knows(m) = Knows(r) /\ m.mark # 0 /\ m.st = r.st
      /\ m.hst = r.hst /\ m.flags = r.flags /\ m.len = r.len /\ m.nread = r.nread
      /\ m.err = r.err /\ m.pos = r.pos /\ m.start = r.start /\ m.again = r.again /\ m.kind = k
  BY <1>0, MarkIs
<1>2. /\ Shape(n) /\ Kept(w, n) /\ Knows(n) = Knows(w) /\ n.mark # 0 /\ n.st = w.st
      /\ n.hst = w.hst /\ n.flags = w.flags /\ n.len = w.len /\ n.nread = w.nread
      /\ n.err = w.err /\ n.pos = w.pos /\ n.start = w.start /\ n.again = w.again /\ n.kind = k
  BY <1>0, MarkIs
<1>3. Alike(m, n)
  <2>1. /\ m.st = n.st /\ m.hst = n.hst /\ m.flags = n.flags /\ m.len = n.len
        /\ m.err = n.err /\ m.pos = n.pos /\ m.kind = n.kind
    BY <1>0, <1>1, <1>2 DEF Alike
  <2>. QED
    BY <1>0, <1>1, <1>2, <2>1, KeptAlike
<1>. QED
  BY <1>1, <1>2, <1>3 DEF Aligned

LEMMA BodyAligned ==
  ASSUME NEW r, NEW w, Both(r, w),
         r.st \in {"body_identity", "body_identity_eof", "chunk_data", "chunk_data_almost_done"}
  PROVE  /\ Aligned(r, w) /\ r.pos = w.pos
         /\ r.mark # 0 => r.kind = "body"
         /\ w.mark # 0 => w.kind = "body"
<1>0. r.st = w.st /\ r.err = "OK" /\ w.err = "OK" /\ Marks(r) /\ Marks(w)
  BY BothAre DEF Both, Entered, Base
<1>1. /\ r.start = 0 /\ w.start = 0
      /\ r.mark # 0 => r.kind = "body"
      /\ w.mark # 0 => w.kind = "body"
  BY <1>0 DEF Marks
<1>2. w.nread <= r.nread
  BY <1>1, BothAre DEF Eff
<1>. QED
  BY <1>1, <1>2, BothAre DEF Aligned

LEMMA BodyByteAligned ==
  ASSUME NEW r, NEW w, Both(r, w), r.st \in {"body_identity", "chunk_data"}
  PROVE  Aligned(BodyByte(r), BodyByte(w)) /\ ByteRead(r, BodyByte(r)) /\ ByteRead(w, BodyByte(w))
<1>. PICK m, n : m = BodyByte(r) /\ n = BodyByte(w)
  OBVIOUS
<1>0. Entered(r) /\ Entered(w) /\ w.st = r.st
  BY BothAre DEF Both
<1>1. ByteRead(r, m) /\ ByteRead(w, n)
  BY <1>0, BodyByteIs
<1>. PICK p, q : p = Mark(r, "body") /\ q = Mark(w, "body")
  OBVIOUS
<1>2. Aligned(p, q)
  BY BodyAligned, MarkAligned, Kinds
<1>3. m = [p EXCEPT !.len = @ - 1] /\ n = [q EXCEPT !.len = @ - 1]
  BY DEF BodyByte
<1>4. /\ m.seen = p.seen /\ m.mark = p.mark /\ m.kind = p.kind /\ m.pos = p.pos
      /\ n.seen = q.seen /\ n.mark = q.mark /\ n.kind = q.kind /\ n.pos = q.pos
  BY <1>2, <1>3 DEF Aligned, Shape, Field
<1>5. Knows(m) = Knows(n)
  BY <1>2, <1>4, SameKnows DEF Aligned
<1>6. Alike(m, n)
  BY <1>2, <1>3 DEF Aligned, Shape, Alike, Field
<1>7. m.start = 0 /\ n.start = 0 /\ n.nread <= m.nread /\ m.again = n.again
  BY <1>2, <1>3 DEF Aligned, Shape, Field
<1>. QED
  BY <1>1, <1>5, <1>6, <1>7 DEF Aligned, ByteRead

LEMMA ChunkDataSame ==
  ASSUME NEW r, NEW w, Both(r, w), r.st = "chunk_data"
  PROVE  Same(ChunkData(r), ChunkData(w))
<1>. PICK m, n : m = BodyByte(r) /\ n = BodyByte(w)
  OBVIOUS
<1>0. Aligned(m, n) /\ ByteRead(r, m) /\ ByteRead(w, n)
  BY BodyByteAligned
<1>1. Aligned(m, n) /\ m.mark # 0 /\ n.mark # 0 /\ m.len = n.len
  BY <1>0 DEF ByteRead, Aligned, Alike
<1>2. /\ ChunkData(r) = IF m.len > 0 THEN m ELSE Go(m, "chunk_data_almost_done")
      /\ ChunkData(w) = IF m.len > 0 THEN n ELSE Go(n, "chunk_data_almost_done")
  BY <1>1 DEF ChunkData, BodyByte
<1>3. Aligned(Go(m, "chunk_data_almost_done"), Go(n, "chunk_data_almost_done"))
  BY <1>1, LiveStates, AlignedGo
<1>4. Go(m, "chunk_data_almost_done").mark # 0 /\ Go(n, "chunk_data_almost_done").mark # 0
  BY <1>1 DEF Go, Aligned, Shape, Field
<1>. QED
  BY <1>1, <1>2, <1>3, <1>4, AlignedSame

LEMMA BodyIdentitySame ==
  ASSUME stream \in Seq(Lexemes), NEW r, NEW w, Both(r, w), r.st = "body_identity",
         r.pos <= Len(stream)
  PROVE  Same(BodyIdentity(r), BodyIdentity(w))
<1>. PICK m, n : m = BodyByte(r) /\ n = BodyByte(w)
  OBVIOUS
<1>0. ByteRead(r, m) /\ ByteRead(w, n) /\ Aligned(m, n) /\ r.pos = w.pos
  BY BodyByteAligned, BothAre
<1>1. m.mark # 0 /\ n.mark # 0 /\ m.len = n.len /\ m.pos = r.pos /\ n.pos = r.pos
  BY <1>0 DEF ByteRead, Aligned, Alike
<1>2. /\ BodyIdentity(r) = IF m.len > 0 THEN m ELSE Data(Again(m, "message_done"), r.pos + 1)
      /\ BodyIdentity(w) = IF m.len > 0 THEN n ELSE Data(Again(n, "message_done"), r.pos + 1)
  BY <1>0, <1>1 DEF BodyIdentity, BodyByte
<1>. PICK g, h : g = Again(m, "message_done") /\ h = Again(n, "message_done")
  OBVIOUS
<1>3. Aligned(g, h) /\ g.mark # 0 /\ g.pos = r.pos
  BY <1>0, <1>1, LiveStates, AlignedGo
<1>4. h.mark # 0 /\ h.pos = r.pos
  BY <1>0, <1>1 DEF Again, Aligned, Shape, Field
<1>5. Told(g, r.pos + 1) = Told(h, r.pos + 1)
  <2>1. Told(g, r.pos + 1) = Knows(g) \o <<<<g.kind, stream[r.pos]>>>>
    BY <1>3, OneMore DEF Aligned
  <2>2. Told(h, r.pos + 1) = Knows(h) \o <<<<h.kind, stream[r.pos]>>>>
    BY <1>3, <1>4, OneMore DEF Aligned
  <2>3. Knows(g) = Knows(h) /\ g.kind = h.kind
    BY <1>3 DEF Aligned, Alike
  <2>. QED
    BY <2>1, <2>2, <2>3
<1>6. r.pos + 1 \in 1..(Len(stream) + 1)
  BY InStream, BothAre
<1>7. Plain(Data(g, r.pos + 1), Data(h, r.pos + 1))
  BY <1>3, <1>5, <1>6, DataPlainTo
<1>. QED
  BY <1>0, <1>1, <1>2, <1>7, AlignedSame, PlainSame

LEMMA BodyEofSame ==
  ASSUME NEW r, NEW w, Both(r, w), r.st = "body_identity_eof"
  PROVE  Same(Mark(r, "body"), Mark(w, "body"))
BY BodyAligned, MarkAligned, Kinds, AlignedSame

LEMMA ChunkDataAlmostDoneSame ==
  ASSUME stream \in Seq(Lexemes), NEW r, NEW w, NEW c, Both(r, w),
         r.st = "chunk_data_almost_done"
  PROVE  Same(ChunkDataAlmostDone(r, c), ChunkDataAlmostDone(w, c))
<1>3. Aligned(r, w) /\ r.pos = w.pos
  BY BodyAligned
<1>4. CASE c = "CR"
  <2>1. /\ Aligned(Go(r, "chunk_data_done"), Go(w, "chunk_data_done"))
        /\ Go(r, "chunk_data_done").pos = r.pos /\ Go(w, "chunk_data_done").pos = w.pos
    BY <1>3, LiveStates, AlignedGo
  <2>2. Plain(Data(Go(r, "chunk_data_done"), r.pos), Data(Go(w, "chunk_data_done"), w.pos))
    BY <2>1, DataPlain
  <2>. QED
    BY <1>4, <2>2, PlainSame DEF ChunkDataAlmostDone
<1>5. CASE c # "CR"
  <2>. PICK d, e : d = Fail(r, "STRICT") /\ e = Fail(w, "STRICT")
    OBVIOUS
  <2>1. Aligned(d, e)
    BY <1>3, LiveStates, AlignedGo
  <2>2. /\ d.mark = r.mark /\ e.mark = w.mark /\ d.err = "STRICT"
        /\ (d.mark # 0 => e.mark # 0)
    BY BothAre DEF Fail, Field, Both, Rel
  <2>3. Same(d, e)
    BY <2>1, <2>2 DEF Aligned, Same, Rel, Eff
  <2>. QED
    BY <1>5, <2>3 DEF ChunkDataAlmostDone
<1>. QED
  BY <1>4, <1>5

-----------------------------------------------------------------------------
(* The same lexeme for two parsers: names of headers                       *)

LEMMA LeaveSame ==
  ASSUME NEW l, NEW k, Shape(l), Shape(k), Alike(l, k), Knows(l) = Knows(k), l.err = "OK",
         l.start # 0, k.start # 0, Eff(k) <= Eff(l), l.again = k.again
  PROVE  \/ LeaveLoop(l).err = "HEADER_OVERFLOW"
         \/ /\ LeaveLoop(l).err = "OK" /\ LeaveLoop(k).err = "OK"
            /\ Aligned(LeaveLoop(l), LeaveLoop(k))
            /\ LeaveLoop(l).mark = l.mark /\ LeaveLoop(k).mark = k.mark
            /\ LeaveLoop(l).pos = l.pos /\ LeaveLoop(k).pos = l.pos
            /\ LeaveLoop(l).seen = l.seen /\ LeaveLoop(k).seen = k.seen
<1>. PICK d, e : d = LeaveLoop(l) /\ e = LeaveLoop(k)
  OBVIOUS
<1>1. Left(l, d) /\ Left(k, e)
  <2>1. k.err = "OK"
    BY DEF Alike
  <2>. QED
    BY <2>1, LeaveLoopIs
<1>2. Kept(l, d) /\ Kept(k, e)
  BY LeaveLoopKept DEF Shape
<1>3. CASE Eff(l) > MaxHeader
  BY <1>1, <1>3 DEF Left
<1>4. CASE ~(Eff(l) > MaxHeader)
  <2>1. Eff(l) \in Nat /\ Eff(k) \in Nat /\ ~(Eff(k) > MaxHeader)
    BY <1>4, EffNat, Constants
  <2>2. d.err = "OK" /\ e.err = "OK"
    BY <1>1, <1>4, <2>1 DEF Left
  <2>3. Alike(d, e)
    <3>1. /\ d.st = e.st /\ d.hst = e.hst /\ d.flags = e.flags /\ d.len = e.len
          /\ d.pos = e.pos /\ d.kind = e.kind
      BY <1>1 DEF Left, Alike
    <3>. QED
      BY <1>2, <2>2, <3>1, KeptAlike
  <2>4. Knows(d) = Knows(e)
    BY <1>1, SameKnows DEF Left
  <2>5. Aligned(d, e)
    BY <1>1, <2>3, <2>4 DEF Left, Aligned
  <2>6. d.mark = l.mark /\ e.mark = k.mark /\ d.pos = l.pos /\ e.pos = l.pos
        /\ d.seen = l.seen /\ e.seen = k.seen
    BY <1>1 DEF Left, Alike
  <2>. QED
    BY <2>2, <2>5, <2>6
<1>. QED
  BY <1>3, <1>4

(* Both in the loop over a name or a value                                 *)
Paired(r, w, l, k) ==
  /\ Looping(r, l) /\ Looping(w, k) /\ Alike(l, k) /\ Knows(l) = Knows(k)
  /\ l.mark # 0 /\ k.mark # 0 /\ Eff(k) <= Eff(l) /\ l.again = FALSE /\ k.again = FALSE
  /\ l.err = "OK" /\ l.pos = r.pos /\ k.pos = r.pos

LEMMA PairedIs ==
  ASSUME NEW r, NEW w, Both(r, w), r.st \in {"header_field", "header_value"}
  PROVE  Paired(r, w, Loop(r), Loop(w))
<1>. PICK l, k : l = Loop(r) /\ k = Loop(w)
  OBVIOUS
<1>0. /\ Shape(r) /\ Shape(w) /\ Alike(r, w) /\ Knows(r) = Knows(w)
      /\ DOMAIN r = Field /\ DOMAIN w = Field
      /\ r.st = w.st /\ r.pos = w.pos /\ r.err = "OK" /\ w.err = "OK"
      /\ r.again = FALSE /\ w.again = FALSE /\ Eff(w) <= Eff(r)
  BY BothAre
<1>1. Looping(r, l) /\ Looping(w, k) /\ Kept(r, l) /\ Kept(w, k)
  BY <1>0, LoopIs, LoopKept
<1>2. Alike(l, k)
  <2>1. /\ l.st = k.st /\ l.hst = k.hst /\ l.flags = k.flags /\ l.len = k.len
        /\ l.err = k.err /\ l.pos = k.pos /\ l.kind = k.kind
    BY <1>0, <1>1 DEF Looping, Alike
  <2>. QED
    BY <1>0, <1>1, <2>1, KeptAlike
<1>3. Knows(l) = Knows(k)
  <2>1. Knows(l) = Knows(r)
    BY <1>1, SameKnows DEF Looping
  <2>2. Knows(k) = Knows(w)
    BY <1>1, SameKnows DEF Looping
  <2>. QED
    BY <1>0, <2>1, <2>2
<1>4. r.mark # 0 /\ w.mark # 0
  BY <1>0 DEF Both, Entered, Base, Marks
<1>5. /\ l.mark # 0 /\ k.mark # 0 /\ Eff(k) <= Eff(l) /\ l.again = FALSE /\ k.again = FALSE
      /\ l.err = "OK" /\ l.pos = r.pos /\ k.pos = r.pos
  BY <1>0, <1>1, <1>4 DEF Looping
<1>. QED
  BY <1>1, <1>2, <1>3, <1>5 DEF Paired

(* Changes that leave position and marks alone                             *)
Touched(l, d) ==
  /\ d.seen = l.seen /\ d.mark = l.mark /\ d.kind = l.kind /\ d.pos = l.pos
  /\ d.start = l.start /\ d.nread = l.nread /\ d.again = FALSE

LEMMA TouchedIs ==
  ASSUME NEW l, NEW d, Touched(l, d) PROVE Knows(d) = Knows(l) /\ Eff(d) = Eff(l)
BY SameKnows DEF Touched, Eff

LEMMA TouchedSame ==
  ASSUME NEW r, NEW w, NEW l, NEW k, Paired(r, w, l, k), NEW d, NEW e,
         Alike(d, e), Touched(l, d), Touched(k, e)
  PROVE  Same(d, e)
<1>1. Knows(d) = Knows(e)
  BY TouchedIs DEF Paired
<1>2. Eff(d) = Eff(l) /\ Eff(e) = Eff(k)
  BY TouchedIs
<1>3. /\ d.mark # 0 /\ e.mark # 0 /\ d.start # 0 /\ e.start # 0
      /\ d.again = FALSE /\ e.again = FALSE
  BY DEF Paired, Looping, Touched
<1>. QED
  BY <1>1, <1>2, <1>3 DEF Paired, Same, Rel

LEMMA HeaderFieldSame ==
  ASSUME stream \in Seq(Lexemes), NEW r, NEW w, NEW c, Both(r, w), r.st = "header_field"
  PROVE  Same(HeaderField(r, c), HeaderField(w, c))
<1>. PICK l, k : l = Loop(r) /\ k = Loop(w)
  OBVIOUS
<1>0. Paired(r, w, l, k)
  BY PairedIs
<1>a. Shape(l) /\ Shape(k) /\ DOMAIN l = Field /\ DOMAIN k = Field
  BY <1>0 DEF Paired, Looping, Shape
<1>1. CASE c \in Token
  <2>. PICK d, e : d = [l EXCEPT !.hst = "general"] /\ e = [k EXCEPT !.hst = "general"]
    OBVIOUS
  <2>1. HeaderField(r, c) = d /\ HeaderField(w, c) = e
    BY <1>1 DEF HeaderField
  <2>2. Alike(d, e)
    BY <1>0, <1>a DEF Paired, Alike, Field
  <2>3. Touched(l, d) /\ Touched(k, e)
    BY <1>0, <1>a DEF Paired, Touched, Field
  <2>. QED
    BY <1>0, <2>1, <2>2, <2>3, TouchedSame
<1>2. CASE c \notin Token
  <2>. PICK m, n : m = LeaveLoop(l) /\ n = LeaveLoop(k)
    OBVIOUS
  <2>1. \/ m.err = "HEADER_OVERFLOW"
        \/ /\ m.err = "OK" /\ n.err = "OK" /\ Aligned(m, n) /\ m.mark # 0 /\ n.mark # 0
           /\ m.pos = r.pos /\ n.pos = r.pos
    <3>1. /\ Alike(l, k) /\ Knows(l) = Knows(k) /\ l.err = "OK" /\ l.start # 0 /\ k.start # 0
          /\ Eff(k) <= Eff(l) /\ l.again = k.again /\ l.mark # 0 /\ k.mark # 0 /\ l.pos = r.pos
      BY <1>0 DEF Paired, Looping
    <3>. QED
      BY <1>a, <3>1, LeaveSame
  <2>2. CASE m.err = "HEADER_OVERFLOW"
    <3>1. HeaderField(r, c) = m
      BY <1>2, <2>2 DEF HeaderField
    <3>. QED
      BY <2>2, <3>1 DEF Same
  <2>3. CASE m.err = "OK" /\ n.err = "OK" /\ Aligned(m, n)
    <3>0. m.mark # 0 /\ n.mark # 0 /\ m.pos = r.pos /\ n.pos = r.pos /\ w.pos = r.pos
      BY <2>1, <2>3, BothAre
    <3>1. CASE c = ":"
      <4>. PICK g, h : g = Go(m, "header_value_discard_ws") /\ h = Go(n, "header_value_discard_ws")
        OBVIOUS
      <4>1. Aligned(g, h) /\ g.pos = r.pos /\ h.pos = r.pos
        BY <2>3, <3>0, LiveStates, AlignedGo
      <4>2. Plain(Data(g, r.pos), Data(h, r.pos))
        BY <4>1, DataPlain
      <4>3. HeaderField(r, c) = Data(g, r.pos) /\ HeaderField(w, c) = Data(h, r.pos)
        BY <1>2, <2>3, <3>0, <3>1 DEF HeaderField
      <4>. QED
        BY <4>2, <4>3, PlainSame
    <3>2. CASE c # ":"
      <4>. PICK g, h : g = Fail(m, "INVALID_HEADER_TOKEN") /\ h = Fail(n, "INVALID_HEADER_TOKEN")
        OBVIOUS
      <4>1. Aligned(g, h) /\ g.mark # 0 /\ h.mark # 0
        BY <2>3, <3>0, LiveStates, AlignedGo
      <4>2. HeaderField(r, c) = g /\ HeaderField(w, c) = h
        BY <1>2, <2>3, <3>2 DEF HeaderField
      <4>. QED
        BY <4>1, <4>2, AlignedSame
    <3>. QED
      BY <3>1, <3>2
  <2>. QED
    BY <2>1, <2>2, <2>3
<1>. QED
  BY <1>1, <1>2

-----------------------------------------------------------------------------
(* The same lexeme for two parsers: values of headers                      *)

(* What a lexeme of a value does to two parsers that are alike             *)
Twins(l, k, d, e) == Alike(d, e) /\ Touched(l, d) /\ Touched(k, e)

Loops(l, k) ==
  /\ Alike(l, k) /\ l.again = FALSE /\ k.again = FALSE
  /\ DOMAIN l = Field /\ DOMAIN k = Field

LEMMA TwinsSet ==
  ASSUME NEW l, NEW k, Loops(l, k), NEW h, NEW fs, NEW n, NEW e, NEW f, NEW g
  PROVE  /\ Twins(l, k, l, k)
         /\ Twins(l, k, [l EXCEPT !.hst = h], [k EXCEPT !.hst = h])
         /\ Twins(l, k, [l EXCEPT !.len = n], [k EXCEPT !.len = n])
         /\ Twins(l, k, [l EXCEPT !.flags = fs, !.hst = h], [k EXCEPT !.flags = fs, !.hst = h])
         /\ Twins(l, k, [l EXCEPT !.hst = h, !.fast = TRUE], [k EXCEPT !.hst = h, !.fast = TRUE])
         /\ Twins(l, k, Fail(l, e), Fail(k, e))
BY DEF Loops, Twins, Alike, Touched, Fail, Field

LEMMA TwinsFast ==
  ASSUME NEW l, NEW k, Loops(l, k), l.hst = "general"
  PROVE  /\ Twins(l, k, l, [k EXCEPT !.hst = "general", !.fast = TRUE])
         /\ Twins(l, k, [l EXCEPT !.hst = "general", !.fast = TRUE], k)
BY DEF Loops, Twins, Alike, Touched, Field

LEMMA ContentLengthTwins ==
  ASSUME NEW l, NEW k, NEW c, Loops(l, k)
  PROVE  Twins(l, k, ContentLength(l, c), ContentLength(k, c))
<1>. PICK n, e : n = l.len * 10 + Value(c) /\ e = "INVALID_CONTENT_LENGTH"
  OBVIOUS
<1>1. l.len = k.len
  BY DEF Loops, Alike
<1>2. /\ Twins(l, k, l, k) /\ Twins(l, k, [l EXCEPT !.len = n], [k EXCEPT !.len = n])
      /\ Twins(l, k, Fail(l, e), Fail(k, e))
  BY TwinsSet
<1>3. /\ ContentLength(l, c) =
           IF c = "SP" THEN l
           ELSE IF c \notin Digit \/ (MaxLen - 10) \div 10 < l.len THEN Fail(l, e)
           ELSE [l EXCEPT !.len = n]
      /\ ContentLength(k, c) =
           IF c = "SP" THEN k
           ELSE IF c \notin Digit \/ (MaxLen - 10) \div 10 < l.len THEN Fail(k, e)
           ELSE [k EXCEPT !.len = n]
  BY <1>1 DEF ContentLength
<1>. QED
  BY <1>2, <1>3

LEMMA ValueTokenTwins ==
  ASSUME NEW l, NEW k, NEW c, Loops(l, k)
  PROVE  Twins(l, k, ValueToken(l, c), ValueToken(k, c))
<1>0. l.hst = k.hst /\ l.flags = k.flags
  BY DEF Loops, Alike
<1>a. /\ Twins(l, k, l, k)
      /\ \A h : Twins(l, k, [l EXCEPT !.hst = h], [k EXCEPT !.hst = h])
  BY TwinsSet
<1>1. CASE l.hst = "content-length"
  BY <1>0, <1>1, ContentLengthTwins DEF ValueToken
<1>2. CASE l.hst = "chunked"
  <2>1. \/ ValueToken(l, c) = l /\ ValueToken(k, c) = k
        \/ /\ ValueToken(l, c) = [l EXCEPT !.hst = "general"]
           /\ ValueToken(k, c) = [k EXCEPT !.hst = "general"]
    BY <1>0, <1>2 DEF ValueToken
  <2>. QED
    BY <1>a, <2>1
<1>3. CASE l.hst = "token_start"
  <2>1. \/ ValueToken(l, c) = l /\ ValueToken(k, c) = k
        \/ \E h : /\ ValueToken(l, c) = [l EXCEPT !.hst = h]
                  /\ ValueToken(k, c) = [k EXCEPT !.hst = h]
    BY <1>0, <1>3 DEF ValueToken
  <2>. QED
    BY <1>a, <2>1
<1>4. CASE l.hst = "is_token"
  <2>1. \/ ValueToken(l, c) = l /\ ValueToken(k, c) = k
        \/ /\ ValueToken(l, c) = [l EXCEPT !.hst = "token_start"]
           /\ ValueToken(k, c) = [k EXCEPT !.hst = "token_start"]
    BY <1>0, <1>4 DEF ValueToken
  <2>. QED
    BY <1>a, <2>1
<1>5. CASE l.hst \in {"is_keep-alive", "is_close", "is_upgrade"}
  <2>. PICK fs : fs = l.flags \cup ConnectionFlag(l.hst)
    OBVIOUS
  <2>1. \/ ValueToken(l, c) = l /\ ValueToken(k, c) = k
        \/ /\ ValueToken(l, c) = [l EXCEPT !.hst = "is_token"]
           /\ ValueToken(k, c) = [k EXCEPT !.hst = "is_token"]
        \/ /\ ValueToken(l, c) = [l EXCEPT !.flags = fs, !.hst = "token_start"]
           /\ ValueToken(k, c) = [k EXCEPT !.flags = fs, !.hst = "token_start"]
    BY <1>0, <1>5 DEF ValueToken
  <2>2. Twins(l, k, [l EXCEPT !.flags = fs, !.hst = "token_start"],
                    [k EXCEPT !.flags = fs, !.hst = "token_start"])
    BY TwinsSet
  <2>. QED
    BY <1>a, <2>1, <2>2
<1>6. CASE l.hst \notin {"content-length", "chunked", "token_start", "is_token",
                         "is_keep-alive", "is_close", "is_upgrade"}
  <2>1. /\ ValueToken(l, c) = [l EXCEPT !.hst = "general", !.fast = TRUE]
        /\ ValueToken(k, c) = [k EXCEPT !.hst = "general", !.fast = TRUE]
    BY <1>0, <1>6 DEF ValueToken
  <2>2. Twins(l, k, [l EXCEPT !.hst = "general", !.fast = TRUE],
                    [k EXCEPT !.hst = "general", !.fast = TRUE])
    BY TwinsSet
  <2>. QED
    BY <2>1, <2>2
<1>. QED
  BY <1>1, <1>2, <1>3, <1>4, <1>5, <1>6

LEMMA HeaderValueSame ==
  ASSUME stream \in Seq(Lexemes), NEW r, NEW w, NEW c, Both(r, w), r.st = "header_value",
         c # "ctl"
  PROVE  Same(HeaderValue(r, c), HeaderValue(w, c))
<1>. PICK l, k : l = Loop(r) /\ k = Loop(w)
  OBVIOUS
<1>0. Paired(r, w, l, k) /\ w.pos = r.pos
  BY PairedIs, BothAre
<1>a. Shape(l) /\ Shape(k) /\ DOMAIN l = Field /\ DOMAIN k = Field /\ Loops(l, k)
  BY <1>0 DEF Paired, Looping, Shape, Loops
<1>b. /\ Alike(l, k) /\ Knows(l) = Knows(k) /\ l.err = "OK" /\ k.err = "OK"
      /\ l.start # 0 /\ k.start # 0 /\ Eff(k) <= Eff(l) /\ l.again = FALSE /\ k.again = FALSE
      /\ l.pos = r.pos /\ k.pos = r.pos
  BY <1>0 DEF Paired, Looping, Alike
<1>c. /\ l.fast => l.hst = "general"
      /\ k.fast => k.hst = "general"
      /\ l.hst = k.hst
  BY <1>0 DEF Paired, Looping, Both, Entered, Base, Marks, Alike
<1>d. r.pos \in 1..(Len(stream) + 1)
  BY InStream, BothAre
<1>e. Twins(l, k, l, k)
  <2>1. Loops(l, k)
    BY <1>a
  <2>. QED
    BY <2>1, TwinsSet
<1>f. l.hst = "general" =>
        /\ Twins(l, k, l, [k EXCEPT !.hst = "general", !.fast = TRUE])
        /\ Twins(l, k, [l EXCEPT !.hst = "general", !.fast = TRUE], k)
  <2>1. Loops(l, k)
    BY <1>a
  <2>. QED
    BY <2>1, TwinsFast
<1>g. Twins(l, k, ValueToken(l, c), ValueToken(k, c))
  <2>1. Loops(l, k)
    BY <1>a
  <2>. QED
    BY <2>1, ValueTokenTwins
<1>1. CASE c = "CR"
  <2>. PICK p, q : p = Go(l, "header_almost_done") /\ q = Go(k, "header_almost_done")
    OBVIOUS
  <2>. PICK d, e : d = Data(p, r.pos) /\ e = Data(q, r.pos)
    OBVIOUS
  <2>0. HeaderValue(r, c) = LeaveLoop(d) /\ HeaderValue(w, c) = LeaveLoop(e)
    BY <1>0, <1>1 DEF HeaderValue
  <2>1. Ended(l, d, "header_almost_done") /\ Ended(k, e, "header_almost_done")
    BY <1>a, <1>b, DataGo, LiveStates
  <2>2. Kept(l, p) /\ Kept(k, q) /\ Shape(p) /\ Shape(q)
    BY <1>a, GoKept, GoShape, LiveStates
  <2>3. /\ p.seen = l.seen /\ p.mark = l.mark /\ p.kind = l.kind /\ p.pos = l.pos
        /\ q.seen = k.seen /\ q.mark = k.mark /\ q.kind = k.kind /\ q.pos = k.pos
    BY <1>a DEF Go, Field
  <2>4. Kept(p, d) /\ Kept(q, e) /\ d.kind = p.kind /\ e.kind = q.kind
    BY <2>2, DataKept DEF Shape
  <2>5. d.seen = e.seen
    <3>1. d.seen = Knows(p) /\ e.seen = Knows(q)
      BY <1>b, <1>d, <2>2, <2>3, DataTold, KnowsTold
    <3>2. Knows(p) = Knows(l) /\ Knows(q) = Knows(k)
      BY <2>3, SameKnows
    <3>. QED
      BY <1>b, <3>1, <3>2
  <2>6. Alike(d, e)
    BY <1>b, <2>1, <2>2, <2>3, <2>4 DEF Kept, Ended, Alike
  <2>7. Knows(d) = Knows(e)
    BY <2>1, <2>5, <2>6 DEF Ended, Knows, Marked, Alike
  <2>8. /\ Shape(d) /\ Shape(e) /\ d.err = "OK" /\ d.start # 0 /\ e.start # 0
        /\ Eff(e) <= Eff(d) /\ d.again = e.again /\ d.mark = 0 /\ e.mark = 0
    <3>1. /\ Shape(d) /\ Shape(e) /\ d.err = l.err /\ d.start = l.start /\ e.start = k.start
          /\ d.again = l.again /\ e.again = k.again /\ d.mark = 0 /\ e.mark = 0
          /\ d.nread = l.nread /\ e.nread = k.nread /\ d.pos = l.pos /\ e.pos = k.pos
      BY <2>1 DEF Ended
    <3>2. Eff(d) = Eff(l) /\ Eff(e) = Eff(k)
      BY <3>1, Zenon DEF Eff
    <3>. QED
      BY <1>b, <3>1, <3>2, Zenon
  <2>. PICK m, n : m = LeaveLoop(d) /\ n = LeaveLoop(e)
    OBVIOUS
  <2>9. \/ m.err = "HEADER_OVERFLOW"
        \/ Aligned(m, n) /\ m.mark = 0 /\ n.mark = 0
    BY <2>6, <2>7, <2>8, LeaveSame
  <2>10. Same(m, n)
    BY <2>9 DEF Same, Aligned, Rel, Eff
  <2>. QED
    BY <2>0, <2>10
<1>2. CASE c = "LF"
  <2>. PICK p, q : p = Again(l, "header_almost_done") /\ q = Again(k, "header_almost_done")
    OBVIOUS
  <2>. PICK m, n : m = LeaveLoop(p) /\ n = LeaveLoop(q)
    OBVIOUS
  <2>1. /\ p.seen = l.seen /\ p.mark = l.mark /\ p.kind = l.kind /\ p.pos = r.pos
        /\ q.seen = k.seen /\ q.mark = k.mark /\ q.kind = k.kind /\ q.pos = r.pos
        /\ p.start = l.start /\ p.nread = l.nread /\ q.start = k.start /\ q.nread = k.nread
        /\ p.again = TRUE /\ q.again = TRUE /\ p.err = "OK"
    BY <1>a, <1>b DEF Again, Field
  <2>2. Shape(p) /\ Shape(q)
    BY <1>a, AgainShape, LiveStates
  <2>3. Alike(p, q)
    BY <1>a, <1>b DEF Again, Alike, Field
  <2>4. Knows(p) = Knows(q)
    BY <1>b, <2>1, SameKnows
  <2>5. Eff(q) <= Eff(p)
    BY <1>b, <2>1 DEF Eff
  <2>6. \/ m.err = "HEADER_OVERFLOW"
        \/ /\ m.err = "OK" /\ n.err = "OK" /\ Aligned(m, n)
           /\ m.pos = r.pos /\ n.pos = r.pos
    <3>1. /\ p.again = q.again /\ p.start # 0 /\ q.start # 0 /\ p.pos = r.pos
          /\ p.err = "OK" /\ q.pos = r.pos
      BY <1>b, <2>1, Zenon
    <3>. QED
      BY <2>2, <2>3, <2>4, <2>5, <3>1, LeaveSame
  <2>7. CASE m.err = "HEADER_OVERFLOW"
    <3>1. HeaderValue(r, c) = m
      BY <1>2, <2>7 DEF HeaderValue
    <3>. QED
      BY <2>7, <3>1 DEF Same
  <2>8. CASE m.err = "OK" /\ n.err = "OK" /\ Aligned(m, n) /\ m.pos = r.pos /\ n.pos = r.pos
    <3>1. HeaderValue(r, c) = Data(m, r.pos) /\ HeaderValue(w, c) = Data(n, r.pos)
      BY <1>0, <1>2, <2>8 DEF HeaderValue
    <3>2. Plain(Data(m, r.pos), Data(n, r.pos))
      BY <2>8, DataPlain
    <3>. QED
      BY <3>1, <3>2, PlainSame
  <2>. QED
    BY <2>6, <2>7, <2>8
<1>3. CASE c \notin {"CR", "LF"}
  <2>0. /\ HeaderValue(r, c) = IF l.fast THEN l ELSE ValueToken(l, c)
        /\ HeaderValue(w, c) = IF k.fast THEN k ELSE ValueToken(k, c)
    BY <1>3 DEF HeaderValue
  <2>g. \A v : v.hst = "general" => ValueToken(v, c) = [v EXCEPT !.hst = "general", !.fast = TRUE]
    BY DEF ValueToken
  <2>1. Twins(l, k, HeaderValue(r, c), HeaderValue(w, c))
    <3>1. CASE l.fast /\ k.fast
      <4>1. HeaderValue(r, c) = l /\ HeaderValue(w, c) = k
        BY <2>0, <3>1
      <4>2. Twins(l, k, l, k)
        BY <1>e
      <4>. QED
        BY <4>1, <4>2, Zenon
    <3>2. CASE l.fast /\ ~k.fast
      <4>1. /\ HeaderValue(r, c) = l
            /\ HeaderValue(w, c) = [k EXCEPT !.hst = "general", !.fast = TRUE]
        BY <1>c, <2>0, <2>g, <3>2
      <4>2. Twins(l, k, l, [k EXCEPT !.hst = "general", !.fast = TRUE])
        BY <1>c, <1>f, <3>2, Zenon
      <4>. QED
        BY <4>1, <4>2, Zenon
    <3>3. CASE ~l.fast /\ k.fast
      <4>1. /\ HeaderValue(r, c) = [l EXCEPT !.hst = "general", !.fast = TRUE]
            /\ HeaderValue(w, c) = k
        BY <1>c, <2>0, <2>g, <3>3
      <4>2. Twins(l, k, [l EXCEPT !.hst = "general", !.fast = TRUE], k)
        BY <1>c, <1>f, <3>3, Zenon
      <4>. QED
        BY <4>1, <4>2, Zenon
    <3>4. CASE ~l.fast /\ ~k.fast
      <4>1. HeaderValue(r, c) = ValueToken(l, c) /\ HeaderValue(w, c) = ValueToken(k, c)
        BY <2>0, <3>4
      <4>2. Twins(l, k, ValueToken(l, c), ValueToken(k, c))
        BY <1>g, Zenon
      <4>. QED
        BY <4>1, <4>2, Zenon
    <3>. QED
      BY <3>1, <3>2, <3>3, <3>4
  <2>. QED
    BY <1>0, <2>1, TouchedSame DEF Twins
<1>. QED
  BY <1>1, <1>2, <1>3

-----------------------------------------------------------------------------
(* The same lexeme for two parsers: the whole switch                       *)

(* Whatever the state and the lexeme.                                      *)
LEMMA CaseSame ==
  ASSUME stream \in Seq(Lexemes), NEW r, NEW w, NEW c, NEW answer, Both(r, w),
         r.pos <= Len(stream), c # "ctl"
  PROVE  Same(Case(r, c, answer), Case(w, c, answer))
<1>0. w.st = r.st
  BY BothAre
<1>1. CASE r.st = "dead"
  <2>1. /\ Case(r, c, answer) = Dead(r, c)
        /\ Case(w, c, answer) = Dead(w, c)
    BY <1>0, <1>1 DEF Case
  <2>. QED
    BY <1>1, <2>1, DeadSame
<1>2. CASE r.st = "start_req_or_res"
  <2>1. /\ Case(r, c, answer) = StartReqOrRes(r, c)
        /\ Case(w, c, answer) = StartReqOrRes(w, c)
    BY <1>0, <1>2 DEF Case
  <2>. QED
    BY <1>2, <2>1, StartReqOrResSame
<1>3. CASE r.st = "start_req"
  <2>1. /\ Case(r, c, answer) = StartReq(r, c)
        /\ Case(w, c, answer) = StartReq(w, c)
    BY <1>0, <1>3 DEF Case
  <2>. QED
    BY <1>3, <2>1, StartReqSame
<1>4. CASE r.st = "start_res"
  <2>1. /\ Case(r, c, answer) = StartRes(r, c)
        /\ Case(w, c, answer) = StartRes(w, c)
    BY <1>0, <1>4 DEF Case
  <2>. QED
    BY <1>4, <2>1, StartResSame
<1>5. CASE r.st \in {"res_version", "res_first_status_code", "res_status_code",
              "res_status_start", "res_status", "res_line_almost_done"}
  <2>1. /\ Case(r, c, answer) = ResLine(r, c)
        /\ Case(w, c, answer) = ResLine(w, c)
    BY <1>0, <1>5 DEF Case
  <2>. QED
    BY <1>5, <2>1, ResLineSame, ResStatusSame
<1>6. CASE r.st = "header_field_start"
  <2>1. /\ Case(r, c, answer) = HeaderFieldStart(r, c)
        /\ Case(w, c, answer) = HeaderFieldStart(w, c)
    BY <1>0, <1>6 DEF Case
  <2>. QED
    BY <1>6, <2>1, HeaderFieldStartSame
<1>7. CASE r.st = "header_field"
  <2>1. /\ Case(r, c, answer) = HeaderField(r, c)
        /\ Case(w, c, answer) = HeaderField(w, c)
    BY <1>0, <1>7 DEF Case
  <2>. QED
    BY <1>7, <2>1, HeaderFieldSame
<1>8. CASE r.st = "header_value_discard_ws"
  <2>1. /\ Case(r, c, answer) = DiscardWs(r, c)
        /\ Case(w, c, answer) = DiscardWs(w, c)
    BY <1>0, <1>8 DEF Case
  <2>. QED
    BY <1>8, <2>1, DiscardWsSame
<1>9. CASE r.st = "header_value_start"
  <2>1. /\ Case(r, c, answer) = ValueStart(r, c)
        /\ Case(w, c, answer) = ValueStart(w, c)
    BY <1>0, <1>9 DEF Case
  <2>. QED
    BY <1>9, <2>1, ValueStartSame
<1>10. CASE r.st = "header_value"
  <2>1. /\ Case(r, c, answer) = HeaderValue(r, c)
        /\ Case(w, c, answer) = HeaderValue(w, c)
    BY <1>0, <1>10 DEF Case
  <2>. QED
    BY <1>10, <2>1, HeaderValueSame
<1>11. CASE r.st = "header_almost_done"
  <2>1. /\ Case(r, c, answer) = HeaderAlmostDone(r, c)
        /\ Case(w, c, answer) = HeaderAlmostDone(w, c)
    BY <1>0, <1>11 DEF Case
  <2>. QED
    BY <1>11, <2>1, HeaderAlmostDoneSame
<1>12. CASE r.st = "header_value_lws"
  <2>1. /\ Case(r, c, answer) = HeaderValueLws(r, c)
        /\ Case(w, c, answer) = HeaderValueLws(w, c)
    BY <1>0, <1>12 DEF Case
  <2>. QED
    BY <1>12, <2>1, HeaderValueLwsSame
<1>13. CASE r.st = "header_value_discard_ws_almost_done"
  <2>1. /\ Case(r, c, answer) = DiscardWsEnd(r, c)
        /\ Case(w, c, answer) = DiscardWsEnd(w, c)
    BY <1>0, <1>13 DEF Case, DiscardWsEnd
  <2>. QED
    BY <1>13, <2>1, DiscardWsEndSame
<1>14. CASE r.st = "header_value_discard_lws"
  <2>1. /\ Case(r, c, answer) = DiscardLws(r, c)
        /\ Case(w, c, answer) = DiscardLws(w, c)
    BY <1>0, <1>14 DEF Case
  <2>. QED
    BY <1>14, <2>1, DiscardLwsSame
<1>15. CASE r.st = "headers_almost_done"
  <2>1. /\ Case(r, c, answer) = HeadersAlmostDone(r, c, answer)
        /\ Case(w, c, answer) = HeadersAlmostDone(w, c, answer)
    BY <1>0, <1>15 DEF Case
  <2>. QED
    BY <1>15, <2>1, HeadersAlmostDoneSame
<1>16. CASE r.st = "headers_done"
  <2>1. /\ Case(r, c, answer) = HeadersDone(r, c)
        /\ Case(w, c, answer) = HeadersDone(w, c)
    BY <1>0, <1>16 DEF Case
  <2>. QED
    BY <1>16, <2>1, HeadersDoneSame
<1>17. CASE r.st = "body_identity"
  <2>1. /\ Case(r, c, answer) = BodyIdentity(r)
        /\ Case(w, c, answer) = BodyIdentity(w)
    BY <1>0, <1>17 DEF Case
  <2>. QED
    BY <1>17, <2>1, BodyIdentitySame
<1>18. CASE r.st = "body_identity_eof"
  <2>1. /\ Case(r, c, answer) = Mark(r, "body")
        /\ Case(w, c, answer) = Mark(w, "body")
    BY <1>0, <1>18 DEF Case
  <2>. QED
    BY <1>18, <2>1, BodyEofSame
<1>19. CASE r.st = "message_done"
  <2>1. /\ Case(r, c, answer) = MessageDone(r)
        /\ Case(w, c, answer) = MessageDone(w)
    BY <1>0, <1>19 DEF Case
  <2>. QED
    BY <1>19, <2>1, MessageDoneSame
<1>20. CASE r.st = "chunk_size_start"
  <2>1. /\ Case(r, c, answer) = ChunkSizeStart(r, c)
        /\ Case(w, c, answer) = ChunkSizeStart(w, c)
    BY <1>0, <1>20 DEF Case
  <2>. QED
    BY <1>20, <2>1, ChunkSizeStartSame
<1>21. CASE r.st = "chunk_size"
  <2>1. /\ Case(r, c, answer) = ChunkSize(r, c)
        /\ Case(w, c, answer) = ChunkSize(w, c)
    BY <1>0, <1>21 DEF Case
  <2>. QED
    BY <1>21, <2>1, ChunkSizeSame
<1>22. CASE r.st = "chunk_parameters"
  <2>1. /\ Case(r, c, answer) = ChunkParameters(r, c)
        /\ Case(w, c, answer) = ChunkParameters(w, c)
    BY <1>0, <1>22 DEF Case
  <2>. QED
    BY <1>22, <2>1, ChunkParametersSame
<1>23. CASE r.st = "chunk_size_almost_done"
  <2>1. /\ Case(r, c, answer) = ChunkSizeAlmostDone(r, c)
        /\ Case(w, c, answer) = ChunkSizeAlmostDone(w, c)
    BY <1>0, <1>23 DEF Case
  <2>. QED
    BY <1>23, <2>1, ChunkSizeAlmostDoneSame
<1>24. CASE r.st = "chunk_data"
  <2>1. /\ Case(r, c, answer) = ChunkData(r)
        /\ Case(w, c, answer) = ChunkData(w)
    BY <1>0, <1>24 DEF Case
  <2>. QED
    BY <1>24, <2>1, ChunkDataSame
<1>25. CASE r.st = "chunk_data_almost_done"
  <2>1. /\ Case(r, c, answer) = ChunkDataAlmostDone(r, c)
        /\ Case(w, c, answer) = ChunkDataAlmostDone(w, c)
    BY <1>0, <1>25 DEF Case
  <2>. QED
    BY <1>25, <2>1, ChunkDataAlmostDoneSame
<1>26. CASE r.st = "chunk_data_done"
  <2>1. /\ Case(r, c, answer) = ChunkDataDone(r, c)
        /\ Case(w, c, answer) = ChunkDataDone(w, c)
    BY <1>0, <1>26 DEF Case
  <2>. QED
    BY <1>26, <2>1, ChunkDataDoneSame
<1>27. CASE r.st \in {"req_method", "req_spaces_before_url", "req_url"}
  <2>1. /\ Case(r, c, answer) = ReqUrl(r, c)
        /\ Case(w, c, answer) = ReqUrl(w, c)
    BY <1>0, <1>27 DEF Case
  <2>. QED
    BY <1>27, <2>1, ReqUrlSame, UrlSame
<1>28. CASE r.st \in {"req_http_start", "req_http_minor", "req_line_almost_done"}
  <2>1. /\ Case(r, c, answer) = ReqVersion(r, c)
        /\ Case(w, c, answer) = ReqVersion(w, c)
    BY <1>0, <1>28 DEF Case
  <2>. QED
    BY <1>28, <2>1, ReqVersionSame
<1>29. Live(r.st)
  BY DEF Both, Entered, Base, Shape
<1>. QED
  BY <1>1, <1>2, <1>3, <1>4, <1>5, <1>6, <1>7, <1>8, <1>9, <1>10, <1>11, <1>12, <1>13,
     <1>14, <1>15, <1>16, <1>17, <1>18, <1>19, <1>20, <1>21, <1>22, <1>23, <1>24, <1>25,
     <1>26, <1>27, <1>28, <1>29
     DEF Live, States, Body

-----------------------------------------------------------------------------
(* The same round for two parsers                                          *)

(* The byte is counted, or not, before the switch.                         *)
Uncounted(r) == r.again \/ r.start # 0 \/ ~ParsingHeader(r.st)

Recorded(r, t) ==
  /\ Shape(t) /\ Kept(r, t) /\ t.st = r.st /\ t.hst = r.hst /\ t.flags = r.flags
  /\ t.len = r.len /\ t.pos = r.pos /\ t.mark = r.mark /\ t.kind = r.kind
  /\ t.start = r.start /\ t.seen = r.seen

LEMMA CountedKeeps ==
  ASSUME NEW r, Shape(r), r.err = "OK"
  PROVE  /\ Recorded(r, Counted(r))
         /\ Uncounted(r) => Counted(r).nread = r.nread /\ Counted(r).err = "OK"
         /\ ~Uncounted(r) => Counted(r).nread = r.nread + 1
<1>. PICK t : t = Top(r)
  OBVIOUS
<1>1. /\ Shape(t) /\ Kept(r, t) /\ t.st = r.st /\ t.hst = r.hst /\ t.flags = r.flags
      /\ t.len = r.len /\ t.pos = r.pos /\ t.mark = r.mark /\ t.kind = r.kind
      /\ t.start = r.start /\ t.seen = r.seen /\ t.nread = r.nread /\ t.err = "OK"
  BY DEF Top, Shape, Kept, Field
<1>2. CASE Uncounted(r)
  <2>1. Counted(r) = t
    BY <1>2 DEF Counted, Uncounted
  <2>. QED
    BY <1>1, <1>2, <2>1 DEF Recorded
<1>3. CASE ~Uncounted(r)
  <2>. PICK d : d = Count(t, 1)
    OBVIOUS
  <2>1. Counted(r) = d
    BY <1>3 DEF Counted, Uncounted
  <2>2. /\ Shape(d) /\ d.nread = t.nread + 1
        /\ d.st = t.st /\ d.hst = t.hst /\ d.flags = t.flags /\ d.len = t.len /\ d.pos = t.pos
        /\ d.mark = t.mark /\ d.kind = t.kind /\ d.start = t.start /\ d.seen = t.seen
    BY <1>1, CountIs
  <2>3. Kept(t, d)
    BY <1>1 DEF Count, Fail, Shape, Kept, Field
  <2>4. Kept(r, d)
    BY <1>1, <2>3 DEF Kept
  <2>. QED
    BY <1>1, <1>3, <2>1, <2>2, <2>4 DEF Recorded
<1>. QED
  BY <1>2, <1>3

LEMMA CountedSame ==
  ASSUME stream \in Seq(Lexemes), NEW r, NEW w, Base(r), Base(w), Rel(r, w), r.err = "OK",
         r.again => w.again
  PROVE  \/ Counted(r).err = "HEADER_OVERFLOW"
         \/ Both(Counted(r), Counted(w))
<1>. PICK t, u : t = Counted(r) /\ u = Counted(w)
  OBVIOUS
<1>0. Shape(r) /\ Shape(w) /\ Alike(r, w) /\ Knows(r) = Knows(w) /\ w.err = "OK"
  BY DEF Base, Rel, Alike
<1>1. Rounded(r, t) /\ Rounded(w, u)
  BY <1>0, CountedIs
<1>2. Recorded(r, t) /\ Recorded(w, u)
  BY <1>0, CountedKeeps
<1>3. /\ Uncounted(r) => t.nread = r.nread
      /\ ~Uncounted(r) => t.nread = r.nread + 1
      /\ Uncounted(w) => u.nread = w.nread /\ u.err = "OK"
      /\ ~Uncounted(w) => u.nread = w.nread + 1
  BY <1>0, CountedKeeps
<1>4. Uncounted(r) => Uncounted(w)
  BY DEF Uncounted, Rel, Alike
<1>5. /\ Eff(r) \in Nat /\ Eff(w) \in Nat /\ Eff(w) <= Eff(r)
  BY <1>0, EffNat DEF Rel
<1>6. Eff(u) <= Eff(t)
  <2>1. /\ t.start = r.start /\ t.pos = r.pos /\ u.start = w.start /\ u.pos = w.pos
        /\ r.nread \in Nat /\ w.nread \in Nat /\ r.pos \in Nat /\ w.pos \in Nat
        /\ r.start \in Nat /\ w.start \in Nat
    BY <1>0, <1>2 DEF Recorded, Shape
  <2>2. Eff(t) = Eff(r) + (t.nread - r.nread) /\ Eff(u) = Eff(w) + (u.nread - w.nread)
    <3>1. t.nread \in Nat /\ u.nread \in Nat
      BY <1>2 DEF Recorded, Shape
    <3>. QED
      BY <2>1, <3>1 DEF Eff
  <2>3. CASE Uncounted(r)
    BY <1>3, <1>4, <1>5, <2>1, <2>2, <2>3
  <2>4. CASE ~Uncounted(r)
    BY <1>3, <1>5, <2>1, <2>2, <2>4
  <2>. QED
    BY <2>3, <2>4
<1>7. CASE t.err # "OK"
  BY <1>1, <1>7 DEF Rounded
<1>8. CASE t.err = "OK"
  <2>1. u.err = "OK"
    <3>1. CASE Uncounted(w)
      BY <1>3, <3>1
    <3>2. CASE ~Uncounted(w)
      <4>0. Base(t) /\ ~Uncounted(r)
        BY <1>1, <1>4, <3>2 DEF Rounded
      <4>1. r.start = 0 /\ w.start = 0
        BY <3>2, <4>0 DEF Uncounted
      <4>2. Counted(r) = Count(Top(r), 1) /\ Counted(w) = Count(Top(w), 1)
        BY <3>2, <4>0 DEF Counted, Uncounted
      <4>3. /\ Shape(Top(r)) /\ Shape(Top(w)) /\ Top(r).err = "OK" /\ Top(w).err = "OK"
            /\ Top(r).nread = r.nread /\ Top(w).nread = w.nread
        BY <1>0 DEF Top, Shape, Field
      <4>4. /\ IF r.nread + 1 > MaxHeader THEN t.err = "HEADER_OVERFLOW" ELSE t.err = "OK"
            /\ IF w.nread + 1 > MaxHeader THEN u.err = "HEADER_OVERFLOW" ELSE u.err = "OK"
        BY <4>2, <4>3, CountIs
      <4>5. w.nread <= r.nread /\ w.nread \in Nat /\ r.nread \in Nat /\ MaxHeader \in Nat
        BY <1>0, <1>5, <4>1, Constants DEF Eff, Shape
      <4>. QED
        BY <1>8, <4>4, <4>5
    <3>. QED
      BY <3>1, <3>2
  <2>2. Entered(t) /\ Entered(u)
    BY <1>1, <1>8, <2>1 DEF Rounded, Entered
  <2>3. Alike(t, u)
    <3>1. /\ t.st = u.st /\ t.hst = u.hst /\ t.flags = u.flags /\ t.len = u.len
          /\ t.pos = u.pos /\ t.kind = u.kind
      BY <1>0, <1>2 DEF Alike, Recorded
    <3>. QED
      BY <1>0, <1>2, <1>8, <2>1, <3>1, KeptAlike DEF Recorded
  <2>4. Knows(t) = Knows(u)
    <3>1. Knows(t) = Knows(r) /\ Knows(u) = Knows(w)
      BY <1>2, SameKnows DEF Recorded
    <3>. QED
      BY <1>0, <3>1
  <2>5. /\ t.mark # 0 => u.mark # 0
        /\ t.start # 0 => u.start # 0
    BY <1>2 DEF Recorded, Rel
  <2>. QED
    BY <1>6, <2>2, <2>3, <2>4, <2>5 DEF Both, Rel
<1>. QED
  BY <1>7, <1>8

(* What two rounds have in common                                          *)
Together(r, w) == r.err = "HEADER_OVERFLOW" \/ (Rel(r, w) /\ (r.again => w.again))

LEMMA ForwardSame ==
  ASSUME stream \in Seq(Lexemes), NEW d, NEW e, Shape(d), Shape(e), Same(d, e),
         d.err = "OK", ~d.again, d.pos <= Len(stream)
  PROVE  Rel([d EXCEPT !.pos = @ + 1], [e EXCEPT !.pos = @ + 1])
<1>. PICK g, h : g = [d EXCEPT !.pos = @ + 1] /\ h = [e EXCEPT !.pos = @ + 1]
  OBVIOUS
<1>0. /\ Rel(d, e) /\ Alike(d, e) /\ Knows(d) = Knows(e) /\ d.pos = e.pos /\ d.kind = e.kind
      /\ e.mark # 0 <=> d.mark # 0
      /\ e.start # 0 <=> d.start # 0
  BY DEF Same, Rel, Alike
<1>1. /\ g.pos = d.pos + 1 /\ h.pos = d.pos + 1 /\ g.seen = d.seen /\ h.seen = e.seen
      /\ g.mark = d.mark /\ h.mark = e.mark /\ g.kind = d.kind /\ h.kind = e.kind
      /\ g.start = d.start /\ h.start = e.start /\ g.nread = d.nread /\ h.nread = e.nread
  BY <1>0 DEF Shape, Field
<1>2. Alike(g, h)
  BY <1>0, <1>1 DEF Alike, Shape, Field
<1>3. Knows(g) = Told(d, d.pos + 1) /\ Knows(h) = Told(e, e.pos + 1)
  <2>1. \A to : Marked(g, to) = Marked(d, to) /\ Marked(h, to) = Marked(e, to)
    BY <1>1 DEF Marked
  <2>2. /\ Marked(g, g.pos) = Marked(d, d.pos + 1)
        /\ Marked(h, h.pos) = Marked(e, e.pos + 1)
    BY <1>0, <1>1, <2>1, Zenon
  <2>. QED
    BY <1>1, <2>2, Zenon DEF Knows, Told
<1>4. Told(d, d.pos + 1) = Told(e, e.pos + 1)
  <2>1. CASE d.mark = 0
    <3>1. /\ Told(d, d.pos + 1) = d.seen \o <<>> /\ Told(e, e.pos + 1) = e.seen \o <<>>
          /\ Knows(d) = d.seen \o <<>> /\ Knows(e) = e.seen \o <<>>
      BY <1>0, <2>1 DEF Told, Knows, Marked
    <3>. QED
      BY <1>0, <3>1, Zenon
  <2>2. CASE d.mark # 0
    <3>1. Told(d, d.pos + 1) = Knows(d) \o <<<<d.kind, stream[d.pos]>>>>
      BY <2>2, OneMore
    <3>2. Told(e, e.pos + 1) = Knows(e) \o <<<<e.kind, stream[e.pos]>>>>
      BY <1>0, <2>2, OneMore
    <3>. QED
      BY <1>0, <3>1, <3>2, Zenon
  <2>. QED
    BY <2>1, <2>2
<1>5. Eff(h) <= Eff(g)
  <2>1. /\ d.nread \in Nat /\ e.nread \in Nat /\ d.pos \in Nat /\ d.start \in Nat /\ e.start \in Nat
        /\ e.pos = d.pos /\ Eff(e) <= Eff(d)
    BY <1>0 DEF Shape, Rel
  <2>. QED
    BY <1>0, <1>1, <2>1 DEF Eff
<1>. QED
  BY <1>0, <1>1, <1>2, <1>3, <1>4, <1>5 DEF Rel

(* A round takes the two parsers from Rel to Rel, unless the one that is   *)
(* called in pieces has counted too much.                                  *)
LEMMA ExecuteSame ==
  ASSUME stream \in Seq(Lexemes), NEW r, NEW w, Base(r), Base(w), Rel(r, w), r.err = "OK",
         r.again => w.again, r.pos <= Len(stream), stream[r.pos] # "ctl", NEW answer
  PROVE  Together(Execute(r, answer), Execute(w, answer))
<1>. PICK t, u : t = Counted(r) /\ u = Counted(w)
  OBVIOUS
<1>. PICK d, e : /\ d = (IF t.err = "OK" THEN Case(t, stream[r.pos], answer) ELSE t)
                 /\ e = (IF u.err = "OK" THEN Case(u, stream[w.pos], answer) ELSE u)
  OBVIOUS
<1>1. /\ Execute(r, answer) = IF d.err # "OK" \/ d.again THEN d ELSE [d EXCEPT !.pos = @ + 1]
      /\ Execute(w, answer) = IF e.err # "OK" \/ e.again THEN e ELSE [e EXCEPT !.pos = @ + 1]
  BY DEF Execute, Counted, Top
<1>2. CASE t.err = "HEADER_OVERFLOW"
  BY <1>1, <1>2 DEF Together
<1>3. CASE Both(t, u)
  <2>0. /\ t.err = "OK" /\ u.err = "OK" /\ Entered(t) /\ Entered(u) /\ t.pos = r.pos /\ u.pos = r.pos
        /\ w.pos = r.pos
    <3>1. t.pos = r.pos
      BY CountedIs DEF Rounded
    <3>2. r.pos = w.pos
      BY DEF Rel, Alike
    <3>. QED
      BY <1>3, <3>1, <3>2, BothAre DEF Both
  <2>1. Same(d, e)
    BY <1>3, <2>0, CaseSame
  <2>2. Done(t, d) /\ Done(u, e)
    BY <2>0, CaseDone
  <2>3. Shape(d) /\ Shape(e) /\ d.pos = r.pos
    BY <2>0, <2>2 DEF Done, Base, Rest
  <2>4. CASE d.err = "HEADER_OVERFLOW"
    BY <1>1, <2>4 DEF Together
  <2>5. CASE d.err # "HEADER_OVERFLOW" /\ (d.err # "OK" \/ d.again)
    <3>1. Rel(d, e) /\ d.again = e.again /\ d.err = e.err
      BY <2>1, <2>5 DEF Same, Rel, Alike
    <3>2. Execute(r, answer) = d /\ Execute(w, answer) = e
      BY <1>1, <2>5, <3>1
    <3>. QED
      BY <3>1, <3>2 DEF Together
  <2>6. CASE d.err = "OK" /\ ~d.again
    <3>. PICK g, h : g = [d EXCEPT !.pos = @ + 1] /\ h = [e EXCEPT !.pos = @ + 1]
      OBVIOUS
    <3>1. d.again = e.again /\ d.err = e.err
      BY <2>1, <2>6 DEF Same, Rel, Alike
    <3>2. Execute(r, answer) = g /\ Execute(w, answer) = h
      BY <1>1, <2>6, <3>1
    <3>3. Rel(g, h)
      BY <2>1, <2>3, <2>6, ForwardSame
    <3>4. g.again = d.again
      BY <2>3 DEF Shape, Field
    <3>. QED
      BY <2>6, <3>2, <3>3, <3>4 DEF Together
  <2>. QED
    BY <2>4, <2>5, <2>6
<1>. QED
  BY <1>2, <1>3, CountedSame

-----------------------------------------------------------------------------
(* A cut, or a pause, that only one of them has                            *)

LEMMA LeaveKeeps ==
  ASSUME stream \in Seq(Lexemes), NEW r, Base(r), r.err = "OK"
  PROVE  \/ Leave(r).err = "HEADER_OVERFLOW"
         \/ /\ Shape(Leave(r)) /\ Kept(r, Leave(r)) /\ Leave(r).st = r.st /\ Leave(r).hst = r.hst
            /\ Leave(r).flags = r.flags /\ Leave(r).len = r.len /\ Leave(r).pos = r.pos
            /\ Leave(r).kind = r.kind /\ Leave(r).err = "OK" /\ Leave(r).mark = 0
            /\ Leave(r).nread = Eff(r) /\ Leave(r).seen = Knows(r)
<1>. DEFINE l == IF r.start = 0 THEN r ELSE LeaveLoop(r)
<1>0. Shape(r)
  BY DEF Base
<1>1. r.start # 0 => Left(r, LeaveLoop(r)) /\ Kept(r, LeaveLoop(r))
  BY <1>0, LeaveLoopIs, LeaveLoopKept DEF Shape
<1>2. /\ Shape(l) /\ Kept(r, l) /\ l.st = r.st /\ l.hst = r.hst /\ l.flags = r.flags
      /\ l.len = r.len /\ l.pos = r.pos /\ l.nread = Eff(r) /\ l.mark = r.mark
      /\ l.kind = r.kind /\ l.seen = r.seen
      /\ l.err = "OK" \/ l.err = "HEADER_OVERFLOW"
  <2>1. CASE r.start = 0
    BY <1>0, <2>1 DEF Eff, Kept
  <2>2. CASE r.start # 0
    BY <1>1, <2>2 DEF Left
  <2>. QED
    BY <2>1, <2>2
<1>. HIDE DEF l
<1>3. Leave(r) = IF l.err = "OK" THEN Data(l, r.pos) ELSE l
  BY DEF Leave, l
<1>4. CASE l.err # "OK"
  BY <1>2, <1>3, <1>4
<1>5. CASE l.err = "OK"
  <2>. PICK d : d = Data(l, r.pos)
    OBVIOUS
  <2>1. r.pos \in 1..(Len(stream) + 1)
    BY <1>0, InStream
  <2>2. /\ Shape(d) /\ d.mark = 0 /\ d.st = l.st /\ d.hst = l.hst /\ d.flags = l.flags
        /\ d.len = l.len /\ d.nread = l.nread /\ d.err = l.err /\ d.pos = l.pos
    BY <1>2, <2>1, DataIs
  <2>3. Kept(l, d) /\ d.kind = l.kind
    BY <1>2, DataKept DEF Shape
  <2>4. d.seen = Knows(r)
    <3>1. d.seen = Told(l, r.pos)
      BY <1>2, <2>1, DataTold
    <3>2. Told(l, r.pos) = Knows(l) /\ Knows(l) = Knows(r)
      BY <1>2, KnowsTold, SameKnows
    <3>. QED
      BY <3>1, <3>2
  <2>5. Kept(r, d)
    BY <1>2, <2>3 DEF Kept
  <2>. QED
    BY <1>2, <1>3, <1>5, <2>2, <2>3, <2>4, <2>5
<1>. QED
  BY <1>4, <1>5

LEMMA EnterSame ==
  ASSUME NEW d, Shape(d), d.mark = 0, d.err = "OK", NEW w, Shape(w), Marks(w),
         Alike(d, w), d.seen = Knows(w), Eff(w) <= d.nread
  PROVE  Rel(Enter(d), w) /\ Enter(d).again = FALSE
<1>. DEFINE m == CASE d.st = "header_field" -> Mark(d, "field") [] d.st = "req_url" -> Mark(d, "url")
                   [] d.st = "header_value" -> Mark(d, "value")
                   [] d.st = "res_status" -> Mark(d, "status") [] OTHER -> d
<1>0. w.st = d.st /\ w.err = "OK" /\ w.kind = d.kind
  BY DEF Alike
<1>1. /\ Shape(m) /\ Kept(d, m) /\ Knows(m) = Knows(d) /\ m.st = d.st /\ m.hst = d.hst
      /\ m.flags = d.flags /\ m.len = d.len /\ m.nread = d.nread /\ m.err = d.err /\ m.pos = d.pos
  <2>1. \A k \in Kind :
          /\ Shape(Mark(d, k)) /\ Kept(d, Mark(d, k)) /\ Knows(Mark(d, k)) = Knows(d)
          /\ Mark(d, k).st = d.st /\ Mark(d, k).hst = d.hst
          /\ Mark(d, k).flags = d.flags /\ Mark(d, k).len = d.len /\ Mark(d, k).nread = d.nread
          /\ Mark(d, k).err = d.err /\ Mark(d, k).pos = d.pos
    BY MarkIs
  <2>2. Kept(d, d)
    BY DEF Kept
  <2>3. m \in {Mark(d, "field"), Mark(d, "url"), Mark(d, "value"), Mark(d, "status"), d}
    OBVIOUS
  <2>. HIDE DEF m
  <2>. QED
    BY <2>1, <2>2, <2>3, Kinds
<1>2. /\ m.kind = w.kind
      /\ m.mark # 0 => w.mark # 0
  <2>1. \A k : Mark(d, k).kind = k
    BY DEF Mark, Shape, Field
  <2>2. CASE d.st = "header_field"
    BY <1>0, <2>1, <2>2 DEF Marks
  <2>3. CASE d.st = "req_url"
    BY <1>0, <2>1, <2>3 DEF Marks
  <2>4. CASE d.st = "header_value"
    BY <1>0, <2>1, <2>4 DEF Marks
  <2>5. CASE d.st = "res_status"
    BY <1>0, <2>1, <2>5 DEF Marks
  <2>6. CASE d.st \notin {"header_field", "req_url", "header_value", "res_status"}
    BY <1>0, <2>6
  <2>. QED
    BY <2>2, <2>3, <2>4, <2>5, <2>6
<1>3. Knows(d) = Knows(w)
  BY Unmarked
<1>. PICK e : e = Enter(d)
  OBVIOUS
<1>4. e = [m EXCEPT !.start = 0, !.fast = FALSE, !.again = FALSE, !.told = FALSE,
                    !.fresh = TRUE]
  BY DEF Enter
<1>. HIDE DEF m
<1>5. /\ e.st = m.st /\ e.hst = m.hst /\ e.flags = m.flags /\ e.len = m.len /\ e.nread = m.nread
      /\ e.err = m.err /\ e.pos = m.pos /\ e.mark = m.mark /\ e.kind = m.kind
      /\ e.seen = m.seen /\ e.start = 0 /\ e.again = FALSE
  BY <1>1, <1>4 DEF Shape, Field
<1>6. Kept(m, e)
  BY <1>1, <1>4 DEF Shape, Kept, Field
<1>7. Alike(e, w)
  <2>1. Kept(d, e)
    BY <1>1, <1>6 DEF Kept
  <2>2. Kept(w, w)
    BY DEF Kept
  <2>3. /\ e.st = w.st /\ e.hst = w.hst /\ e.flags = w.flags /\ e.len = w.len
        /\ e.err = w.err /\ e.pos = w.pos /\ e.kind = w.kind
    BY <1>1, <1>2, <1>5 DEF Alike
  <2>. QED
    BY <2>1, <2>2, <2>3, KeptAlike
<1>8. Knows(e) = Knows(w)
  <2>1. Knows(e) = Knows(m)
    BY <1>5, SameKnows
  <2>. QED
    BY <1>1, <1>3, <2>1
<1>9. Eff(e) = d.nread
  BY <1>1, <1>5 DEF Eff
<1>. QED
  BY <1>2, <1>5, <1>7, <1>8, <1>9 DEF Rel

(* The bytes of a call end and those of the next one begin.                *)
LEMMA NextCallSame ==
  ASSUME stream \in Seq(Lexemes), NEW r, NEW w, Good(r), Base(w), Rel(r, w), r.err = "OK"
  PROVE  Together(Enter(Leave(r)), w)
<1>. PICK l : l = Leave(r)
  OBVIOUS
<1>0. Base(r)
  BY DEF Good
<1>1. CASE l.err = "HEADER_OVERFLOW"
  <2>1. Enter(l).err = l.err
    BY LeaveIs, EnterGood
  <2>. QED
    BY <1>1, <2>1 DEF Together
<1>2. CASE /\ Shape(l) /\ Kept(r, l) /\ l.st = r.st /\ l.hst = r.hst
           /\ l.flags = r.flags /\ l.len = r.len /\ l.pos = r.pos
           /\ l.kind = r.kind /\ l.err = "OK" /\ l.mark = 0
           /\ l.nread = Eff(r) /\ l.seen = Knows(r)
  <2>1. Alike(r, w) /\ Knows(r) = Knows(w) /\ Eff(w) <= Eff(r)
    BY DEF Rel
  <2>2. Alike(l, w)
    <3>1. Kept(w, w)
      BY DEF Kept
    <3>2. /\ l.st = w.st /\ l.hst = w.hst /\ l.flags = w.flags /\ l.len = w.len
          /\ l.err = w.err /\ l.pos = w.pos /\ l.kind = w.kind
      BY <1>2, <2>1 DEF Alike
    <3>. QED
      BY <1>2, <2>1, <3>1, <3>2, KeptAlike
  <2>3. Shape(w) /\ Marks(w)
    BY DEF Base
  <2>4. l.seen = Knows(w) /\ Eff(w) <= l.nread /\ Shape(l) /\ l.mark = 0 /\ l.err = "OK"
    BY <1>2, <2>1
  <2>5. Rel(Enter(l), w) /\ Enter(l).again = FALSE
    BY <2>2, <2>3, <2>4, EnterSame
  <2>. QED
    BY <2>5 DEF Together
<1>. QED
  BY <1>0, <1>1, <1>2, LeaveKeeps

(* A callback pauses the parser, and it is called again.                   *)
LEMMA PauseSame ==
  ASSUME NEW r, NEW w, Base(r), Base(w), Rel(r, w), r.err = "OK", r.told
  PROVE  Together(Enter([r EXCEPT !.mark = 0]), w)
<1>0. Shape(r) /\ Marks(r) /\ Shape(w) /\ Marks(w)
  BY DEF Base
<1>1. r.mark = 0 /\ r.start = 0
  BY <1>0 DEF Marks
<1>. PICK q : q = [r EXCEPT !.mark = 0]
  OBVIOUS
<1>2. /\ Shape(q) /\ q.mark = 0 /\ q.err = "OK" /\ q.nread = r.nread /\ q.seen = r.seen
  BY <1>0 DEF Shape, Field
<1>3. Alike(q, w)
  BY <1>0 DEF Rel, Alike, Shape, Field
<1>4. q.seen = Knows(w) /\ Eff(w) <= q.nread
  BY <1>0, <1>1, <1>2, Unmarked DEF Rel, Eff
<1>5. Rel(Enter(q), w) /\ Enter(q).again = FALSE
  BY <1>0, <1>2, <1>3, <1>4, EnterSame
<1>. QED
  BY <1>5 DEF Together

-----------------------------------------------------------------------------
(* Every reachable state of the two parsers                                *)

(* "ctl" stands for the characters a value must not hold.                  *)
VisibleOnly == "ctl" \notin Lexemes

(* The headers fit, however often they are cut.                            *)
HeadersFit == \A b \in Beginnings : 5 * (Len(b) + MaxMore + 1) <= MaxHeader

(* The inductive invariant of the two.                                     *)
SInv ==
  /\ GInv
  /\ \/ x.err = "HEADER_OVERFLOW"
     \/ Good(whole) /\ Rel(x, whole) /\ (x.again => whole.again)

LEMMA SameTogether ==
  ASSUME NEW r, NEW w, Together(r, w), x' = r, whole' = w, stream' = stream
  PROVE  \/ x'.err = "HEADER_OVERFLOW"
         \/ Rel(x, whole)' /\ (x'.again => whole'.again)
BY DEF Together, Rel, Alike, Knows, Marked, Eff

LEMMA LongerRel ==
  ASSUME stream \in Seq(Lexemes), NEW c \in Lexemes, stream' = Append(stream, c),
         Shape(x), Shape(whole), Rel(x, whole), x' = x, whole' = whole
  PROVE  Rel(x, whole)'
<1>1. ASSUME NEW r, Shape(r)
      PROVE  [i \in 1..(r.pos - r.mark) |-> <<r.kind, stream'[r.mark + i - 1]>>]
               = [i \in 1..(r.pos - r.mark) |-> <<r.kind, stream[r.mark + i - 1]>>]
             \/ r.mark = 0
  <2>1. SUFFICES ASSUME r.mark # 0, NEW i \in 1..(r.pos - r.mark)
                 PROVE  stream'[r.mark + i - 1] = stream[r.mark + i - 1]
    OBVIOUS
  <2>a. /\ r.pos \in Nat /\ r.pos <= Len(stream) + 1 /\ r.mark \in Nat
        /\ r.mark # 0 /\ i \in 1..(r.pos - r.mark) /\ Len(stream) \in Nat
    BY <1>1, <2>1 DEF Shape
  <2>b. r.mark + i - 1 \in 1..Len(stream)
    BY <2>a
  <2>2. PICK j \in 1..Len(stream) : j = r.mark + i - 1
    BY <2>b
  <2>3. stream'[j] = stream[j]
    BY <2>2
  <2>. QED
    BY <2>2, <2>3
<1>2. Marked(x, x.pos)' = Marked(x, x.pos) /\ Marked(whole, whole.pos)' = Marked(whole, whole.pos)
  BY <1>1 DEF Marked
<1>3. Knows(x)' = Knows(x) /\ Knows(whole)' = Knows(whole)
  BY <1>2 DEF Knows
<1>. QED
  BY <1>3 DEF Rel, Alike, Eff

LEMMA InitTogether == Init => SInv
<1>. SUFFICES ASSUME Init PROVE SInv
  OBVIOUS
<1>1. GInv
  BY InitGood
<1>2. Good(x) /\ whole = x
  BY <1>1 DEF GInv, Init
<1>3. Rel(x, x)
  <2>1. Eff(x) \in Nat
    BY <1>2, EffNat DEF Good, Base
  <2>. QED
    BY <2>1 DEF Rel, Alike
<1>. QED
  BY <1>1, <1>2, <1>3 DEF SInv

LEMMA NextTogether == VisibleOnly /\ SInv /\ [Next]_vars => SInv'
<1>. SUFFICES ASSUME VisibleOnly, SInv, [Next]_vars PROVE SInv'
  OBVIOUS
<1>0. GInv /\ GInv' /\ stream \in Seq(Lexemes) /\ Good(x) /\ Base(x)
  BY NextGood DEF SInv, GInv, Streams, Good
<1>1. CASE UNCHANGED vars
  <2>1. x' = x /\ whole' = whole /\ stream' = stream
    BY <1>1 DEF vars
  <2>2. CASE x.err = "HEADER_OVERFLOW"
    BY <1>0, <2>1, <2>2 DEF SInv
  <2>3. CASE Good(whole) /\ Rel(x, whole) /\ (x.again => whole.again)
    <3>1. Together(x, whole)
      BY <2>3 DEF Together
    <3>2. Good(whole)'
      BY <2>1, <2>3, SameStreamWhole
    <3>. QED
      BY <1>0, <2>1, <3>1, <3>2, SameTogether DEF SInv
  <2>. QED
    BY <2>2, <2>3 DEF SInv
<1>2. CASE Next
  <2>0. Reading /\ x.err = "OK" /\ Good(whole) /\ Rel(x, whole) /\ (x.again => whole.again)
    BY <1>2 DEF Next, Grow, Step, NextCall, Pause, Reading, SInv
  <2>a. Base(whole) /\ Shape(whole) /\ Shape(x)
    BY <1>0, <2>0 DEF Good, Base
  <2>1. CASE Grow
    <3>1. PICK c \in Lexemes : stream' = Append(stream, c)
      BY <1>0, <2>1, GrowStreams DEF GInv
    <3>2. x' = x /\ whole' = whole
      BY <2>1 DEF Grow
    <3>3. Rel(x, whole)'
      BY <1>0, <2>0, <2>a, <3>1, <3>2, LongerRel
    <3>4. Good(whole)'
      BY <1>0, <2>0, <3>1, <3>2, LongerStreamWhole
    <3>. QED
      BY <1>0, <2>0, <3>2, <3>3, <3>4 DEF SInv
  <2>2. CASE Step
    <3>1. PICK answer \in Answers :
            x' = Execute(x, answer) /\ whole' = Execute(whole, answer)
      BY <2>2 DEF Step
    <3>2. x.pos <= Len(stream) /\ stream' = stream /\ whole.err = "OK"
      BY <2>2 DEF Step
    <3>3. stream[x.pos] # "ctl"
      <4>1. x.pos \in 1..Len(stream)
        BY <2>a, <3>2 DEF Shape
      <4>2. stream[x.pos] \in Lexemes
        BY <1>0, <4>1
      <4>. QED
        BY <4>2 DEF VisibleOnly
    <3>4. Together(Execute(x, answer), Execute(whole, answer))
      BY <1>0, <2>0, <2>a, <3>2, <3>3, ExecuteSame
    <3>5. whole.pos = x.pos
      BY <2>0 DEF Rel, Alike
    <3>6. Good(Execute(whole, answer))
      BY <1>0, <2>0, <3>2, <3>5, ExecuteGood
    <3>7. Good(whole)'
      BY <3>1, <3>2, <3>6, SameStreamWhole
    <3>8. \/ x'.err = "HEADER_OVERFLOW"
          \/ Rel(x, whole)' /\ (x'.again => whole'.again)
      BY <3>1, <3>2, <3>4, SameTogether
    <3>. QED
      BY <1>0, <3>7, <3>8 DEF SInv
  <2>3. CASE (NextCall \/ Pause) /\ UNCHANGED <<whole, more>>
    <3>0. whole' = whole /\ stream' = stream
      BY <2>3 DEF NextCall, Pause
    <3>1. Good(whole)'
      BY <2>0, <3>0, SameStreamWhole
    <3>2. \E r : x' = r /\ Together(r, whole)
      <4>1. CASE NextCall
        <5>1. Together(Enter(Leave(x)), whole)
          BY <1>0, <2>0, <2>a, NextCallSame
        <5>. QED
          BY <4>1, <5>1 DEF NextCall
      <4>2. CASE Pause
        <5>0. x.told
          BY <4>2 DEF Pause
        <5>1. Together(Enter([x EXCEPT !.mark = 0]), whole)
          BY <1>0, <2>0, <2>a, <5>0, PauseSame
        <5>. QED
          BY <4>2, <5>1 DEF Pause
      <4>. QED
        BY <2>3, <4>1, <4>2
    <3>3. \/ x'.err = "HEADER_OVERFLOW"
          \/ Rel(x, whole)' /\ (x'.again => whole'.again)
      BY <3>0, <3>2, SameTogether
    <3>. QED
      BY <1>0, <3>1, <3>3 DEF SInv
  <2>. QED
    BY <1>2, <2>1, <2>2, <2>3 DEF Next
<1>. QED
  BY <1>1, <1>2

LEMMA TogetherSplits == SInv => (x.err # "HEADER_OVERFLOW" => SplitIndependent)
BY DEF SInv, Rel, Alike, SplitIndependent

(* Of any stream of visible characters a parser that is called piece by    *)
(* piece, and paused by its callbacks, makes what it makes of the stream   *)
(* in one call, or it says HPE_HEADER_OVERFLOW: the count is the only      *)
(* thing a cut changes.                                                    *)
THEOREM CutsOnlyOverflow ==
  VisibleOnly => (Spec => [](x.err # "HEADER_OVERFLOW" => SplitIndependent))
<1>. SUFFICES ASSUME VisibleOnly PROVE Spec => [](x.err # "HEADER_OVERFLOW" => SplitIndependent)
  OBVIOUS
<1>1. SInv /\ [Next]_vars => SInv'
  BY NextTogether
<1>. QED
  BY <1>1, InitTogether, TogetherSplits, PTL DEF Spec

-----------------------------------------------------------------------------
(* Headers that fit                                                        *)
LEMMA InitFits == Init => x.err # "HEADER_OVERFLOW"
BY DEF Init, Parser

(* No byte is counted more than five times, whatever rounds, loops and     *)
(* cuts count it again: the potential of Spent bounds the count.           *)
LEMMA NextFits ==
  HeadersFit /\ GInv /\ x.err # "HEADER_OVERFLOW" /\ [Next]_vars => x'.err # "HEADER_OVERFLOW"
<1>. SUFFICES ASSUME HeadersFit, GInv, x.err # "HEADER_OVERFLOW", [Next]_vars
              PROVE  x'.err # "HEADER_OVERFLOW"
  OBVIOUS
<1>0. stream \in Seq(Lexemes) /\ Good(x) /\ Shape(x)
  BY DEF GInv, Streams, Good, Base
<1>1. x.err = "OK" => Eff(x) + 1 <= MaxHeader
  <2>. SUFFICES ASSUME x.err = "OK" PROVE Eff(x) + 1 <= MaxHeader
    OBVIOUS
  <2>1. Eff(x) + Rank(x.st) <= 5 * x.pos
    BY <1>0 DEF Good, Spent
  <2>2. PICK b \in Beginnings : Len(stream) + more = Len(b) + MaxMore /\ more \in 0..MaxMore
    BY DEF GInv, Streams
  <2>3. b \in Seq(Lexemes) /\ MaxMore \in Nat
    BY SplitAssumption DEF SplitAssumption
  <2>4. 5 * (Len(b) + MaxMore + 1) <= MaxHeader
    BY DEF HeadersFit
  <2>5. /\ x.pos \in Nat /\ x.pos <= Len(stream) + 1 /\ Len(stream) \in Nat /\ Len(b) \in Nat
        /\ Rank(x.st) \in 1..4 /\ Eff(x) \in Nat /\ MaxHeader \in Nat
    BY <1>0, <2>3, RankIs, EffNat, Constants DEF Shape
  <2>. PICK n : n = Len(b) + MaxMore
    OBVIOUS
  <2>6. n \in Nat /\ Len(stream) <= n
    BY <2>2, <2>3, <2>5
  <2>. QED
    BY <2>1, <2>4, <2>5, <2>6
<1>2. CASE Grow \/ UNCHANGED vars
  BY <1>2 DEF Grow, vars
<1>3. CASE Step
  <2>1. PICK answer \in Answers : x' = Execute(x, answer)
    BY <1>3 DEF Step
  <2>2. x.err = "OK" /\ x.pos <= Len(stream)
    BY <1>3 DEF Step, Reading
  <2>3. Execute(x, answer).err = "HEADER_OVERFLOW" => Eff(x) + 1 > MaxHeader
    BY <1>0, <2>2, ExecuteGood
  <2>. QED
    BY <1>0, <1>1, <2>1, <2>2, <2>3, EffNat, Constants
<1>4. CASE NextCall
  <2>1. x.err = "OK" /\ x' = Enter(Leave(x))
    BY <1>4 DEF NextCall, Reading
  <2>2. Enter(Leave(x)).err # "OK" => Eff(x) > MaxHeader
    BY <1>0, <2>1, NextCallGood
  <2>. QED
    BY <1>0, <1>1, <2>1, <2>2, EffNat, Constants
<1>5. CASE Pause
  <2>1. x.err = "OK" /\ x.told /\ x' = Enter([x EXCEPT !.mark = 0])
    BY <1>5 DEF Pause, Reading
  <2>. QED
    BY <1>0, <2>1, PauseGood
<1>. QED
  BY <1>2, <1>3, <1>4, <1>5 DEF Next

(* And if the headers are within a fifth of HTTP_MAX_HEADER_SIZE it makes  *)
(* no difference at all where the stream is cut.                           *)
THEOREM CutAnywhere ==
  VisibleOnly /\ HeadersFit => (Spec => []CutsMakeNoDifference)
<1>. SUFFICES ASSUME VisibleOnly, HeadersFit PROVE Spec => []CutsMakeNoDifference
  OBVIOUS
<1>1. Init => SInv /\ x.err # "HEADER_OVERFLOW"
  BY InitTogether, InitFits
<1>2. SInv /\ x.err # "HEADER_OVERFLOW" /\ [Next]_vars => (SInv /\ x.err # "HEADER_OVERFLOW")'
  BY NextTogether, NextFits DEF SInv
<1>3. SInv /\ x.err # "HEADER_OVERFLOW" => CutsMakeNoDifference
  BY TogetherSplits, GoodIsSafe DEF SInv, CutsMakeNoDifference
<1>. QED
  BY <1>1, <1>2, <1>3, PTL DEF Spec

-----------------------------------------------------------------------------
(* The URL                                                                 *)

(* The field t of f is what lies from i up to but not including j.         *)
Is(f, t, i, j) == f[t].len = j - i /\ (j > i => f[t].off = i)

(* The characters from i up to but not including j are in S.               *)
Over(i, j, S) == \A m \in i..(j - 1) : urlRead[m] \in S

Behind == Len(urlRead) + 1

(* "://", or as much of it as has been read.                               *)
Slashes(a, b) ==
  /\ b = a \/ (a > 1 /\ (b = a + 1 \/ b = a + 2 \/ b = a + 3))
  /\ b > a => urlRead[a] = ":"
  /\ b > a + 1 => urlRead[a + 1] = "/"
  /\ b > a + 2 => urlRead[a + 2] = "/"

(* The URL is cut into schema, "://", host, path, "?", query, "#", fragment. *)
Outer(a, b, c, d, q, g, k) ==
  /\ a \in Nat /\ b \in Nat /\ c \in Nat /\ d \in Nat /\ q \in Nat /\ g \in Nat /\ k \in Nat
  /\ 1 <= a /\ a <= b /\ b <= c /\ c <= d /\ d <= q /\ q <= g /\ g <= k /\ k <= Behind
  /\ Is(urlField, "schema", 1, a) /\ Is(urlField, "path", c, d)
  /\ Is(urlField, "query", q, g) /\ Is(urlField, "fragment", k, Behind)
  /\ Slashes(a, b)
  /\ (q = d /\ g = d) \/ (q = d + 1 /\ urlRead[d] = "?")
  /\ Over(c, d, Url!UrlChar) /\ Over(q, g, Url!UrlChar \cup {"?"}) /\ Over(g, k, {"#"})

(* Behind a schema all of "://" has been read.                             *)
AllSlashes(a, b) == a > 1 => b = a + 3

(* How far the first scan has come.                                        *)
Stage(a, b, c, d, q, g, k) ==
  /\ urlState = "spaces_before_url" => Behind = 1
  /\ urlState = "schema" => a = Behind /\ a > 1
  /\ urlState = "schema_slash" => a > 1 /\ b = a + 1 /\ b = Behind
  /\ urlState = "schema_slash_slash" => a > 1 /\ b = a + 2 /\ b = Behind
  /\ urlState = "server_start" => b = Behind
  /\ urlState \in {"server", "server_with_at"} => c = Behind /\ c > b
  /\ urlState = "path" => d = Behind /\ d > c
  /\ urlState = "query_start" => q = Behind /\ q = d + 1
  /\ urlState = "query" => g = Behind /\ g > q
  /\ urlState = "fragment_start" => k = Behind /\ k > g
  /\ urlState = "fragment" => Behind > k
  /\ urlState \notin {"spaces_before_url", "schema", "schema_slash", "schema_slash_slash"}
       => AllSlashes(a, b)
  /\ \A t \in Url!Fields : lastField = t => urlField[t].len > 0
  /\ urlState \in {"schema", "server", "server_with_at", "path", "query", "fragment"}
       => lastField = Url!Uf(urlState)

(* In the first scan the host is one field.                                *)
Laid(a, b, c, d, q, g, k) ==
  /\ Outer(a, b, c, d, q, g, k) /\ Stage(a, b, c, d, q, g, k)
  /\ Is(urlField, "server", b, c) /\ Is(urlField, "userinfo", b, b) /\ Is(urlField, "port", c, c)

HostText == Url!HostChar \cup Url!Hex \cup {":", ".", "%"}

(* The host up to r is cut into user, "@", "[", name or address, "]", ":", *)
(* port.                                                                   *)
Inner(b, r, u, v, w, o, y, z) ==
  /\ u \in Nat /\ v \in Nat /\ w \in Nat /\ o \in Nat /\ y \in Nat /\ z \in Nat
  /\ b <= u /\ u <= v /\ v <= w /\ w <= o /\ o <= y /\ y <= z /\ z <= r
  /\ Is(urlField, "userinfo", b, u) /\ Is(urlField, "server", w, o) /\ Is(urlField, "port", z, r)
  /\ v = u \/ (v = u + 1 /\ urlRead[u] = "@")
  /\ w = v \/ (w = v + 1 /\ urlRead[v] = "[")
  /\ y = o \/ (y = o + 1 /\ urlRead[o] = "]")
  /\ (z = y /\ r = y) \/ (z = y + 1 /\ urlRead[y] = ":")
  /\ Over(w, o, HostText) /\ Over(z, r, Url!Num)

(* How far the second scan has come.                                       *)
HostStage(b, r, u, v, w, o, y, z) ==
  /\ hostState = "userinfo_start" => r = b
  /\ hostState = "userinfo" => r = u /\ u > b
  /\ hostState = "host_start" => r = v
  /\ hostState = "host" => r = o /\ o > w /\ w = v
  /\ hostState = "v6_start" => r = w /\ w = v + 1
  /\ hostState \in {"v6", "zone_start", "zone"} => r = o /\ o > w /\ w = v + 1
  /\ hostState = "v6_end" => r = y /\ y = o + 1 /\ o > w /\ w = v + 1
  /\ hostState = "port_start" => r = z /\ z = y + 1 /\ o > w /\ (w = v + 1 <=> y = o + 1)
  /\ hostState = "port" => r > z /\ z = y + 1 /\ o > w /\ (w = v + 1 <=> y = o + 1)

(* In the second scan there is one, and it ends where buflen says ...      *)
Hosted(a, b, c, d, q, g, k) ==
  /\ Outer(a, b, c, d, q, g, k) /\ AllSlashes(a, b) /\ c = hostEnd /\ hostAt \in Nat /\ b <= hostAt
  /\ hostAt <= c
  /\ \E u, v, w, o, y, z \in Nat :
       Inner(b, hostAt, u, v, w, o, y, z) /\ HostStage(b, hostAt, u, v, w, o, y, z)

(* ... or none, and then no schema either.                                 *)
Hostless(a, b, c, d, q, g, k) ==
  /\ Outer(a, b, c, d, q, g, k) /\ AllSlashes(a, b) /\ b = c /\ a = 1
  /\ \A t \in {"server", "userinfo", "port"} : urlField[t].len = 0

(* The cuts at each moment.                                                *)
Scanning(a, b, c, d, q, g, k) ==
  /\ hostState = "none" => Laid(a, b, c, d, q, g, k)
  /\ hostState = "no_host" => Hostless(a, b, c, d, q, g, k)
  /\ hostState \notin {"none", "no_host"} => Hosted(a, b, c, d, q, g, k)

UrlStates ==
  {"spaces_before_url", "schema", "schema_slash", "schema_slash_slash", "server_start",
   "server", "server_with_at", "path", "query_start", "query", "fragment_start", "fragment"}
HostStates ==
  {"userinfo_start", "userinfo", "host_start", "host", "v6_start", "v6", "v6_end",
   "zone_start", "zone", "port_start", "port"}

(* Types, and what the two states say of each other.                       *)
UrlTyped ==
  /\ urlRead \in Seq(UrlChars) /\ forConnect \in BOOLEAN
  /\ urlField \in [Url!Fields -> [off : Nat, len : Nat]]
  /\ urlResult \in {"none", "ok", "error"} /\ urlPort \in 0..MaxPort
  /\ urlResult = "none"
       => urlState \in UrlStates /\ hostState \in HostStates \cup {"none", "no_host"}
  /\ hostAt \in Nat /\ hostEnd \in Nat
  /\ urlResult # "none" => hostState # "none" \/ urlResult = "error"
  /\ hostState \in {"none", "no_host"} => hostAt = hostEnd

(* No field reaches out of the URL.                                        *)
InRange ==
  \A t \in Url!Set(urlField) :
    urlField[t].off \in 1..Len(urlRead) /\ urlField[t].len \in 1..Len(urlRead)

(* What End checks of a URL before it accepts it.                          *)
Accepted ==
  /\ Url!HostEnds /\ hostAt = hostEnd
  /\ forConnect => Url!Set(urlField) = {"server", "port"}

(* The inductive invariant of http_parser_parse_url.                       *)
UrlInv ==
  /\ UrlTyped
  /\ urlResult = "error" => InRange
  /\ urlResult # "error" => \E a, b, c, d, q, g, k \in Nat : Scanning(a, b, c, d, q, g, k)
  /\ urlResult = "ok" => Accepted

-----------------------------------------------------------------------------
LEMMA FieldNames ==
  /\ "schema" \in Url!Fields /\ "server" \in Url!Fields /\ "port" \in Url!Fields
  /\ "path" \in Url!Fields
  /\ "query" \in Url!Fields /\ "fragment" \in Url!Fields /\ "userinfo" \in Url!Fields
BY DEF Url!Fields

LEMMA UrlLen == UrlTyped => Len(urlRead) \in Nat /\ Behind \in Nat /\ Behind = Len(urlRead) + 1
BY DEF UrlTyped, Behind

LEMMA FieldType ==
  \A t \in Url!Fields : UrlTyped => urlField[t].off \in Nat /\ urlField[t].len \in Nat
BY DEF UrlTyped

LEMMA WithinUrl ==
  ASSUME UrlTyped, NEW t \in Url!Fields, NEW i \in Nat, NEW j \in Nat, 1 <= i, j <= Behind,
         Is(urlField, t, i, j), urlField[t].len > 0
  PROVE  urlField[t].off \in 1..Len(urlRead) /\ urlField[t].len \in 1..Len(urlRead)
<1>1. urlField[t].len = j - i /\ urlField[t].off = i
  BY DEF Is
<1>. QED
  BY <1>1, UrlLen

(* Fields that the cuts describe are within the URL.                       *)
LEMMA Ranges ==
  ASSUME UrlTyped, NEW a, NEW b, NEW c, NEW d, NEW q, NEW g, NEW k, Scanning(a, b, c, d, q, g, k)
  PROVE  InRange
<1>. SUFFICES ASSUME NEW t \in Url!Fields, urlField[t].len > 0
              PROVE  urlField[t].off \in 1..Len(urlRead) /\ urlField[t].len \in 1..Len(urlRead)
  BY DEF InRange, Url!Set
<1>. USE UrlLen
<1>1. Outer(a, b, c, d, q, g, k)
  BY DEF Scanning, Laid, Hosted, Hostless
<1>2. /\ a \in Nat /\ b \in Nat /\ c \in Nat /\ d \in Nat /\ q \in Nat /\ g \in Nat /\ k \in Nat
      /\ 1 <= a /\ 1 <= b /\ 1 <= c /\ 1 <= d /\ 1 <= q /\ 1 <= g /\ 1 <= k
      /\ a <= Behind /\ b <= Behind /\ c <= Behind /\ d <= Behind /\ g <= Behind
  BY <1>1 DEF Outer
<1>3. CASE t = "schema"
  BY <1>1, <1>2, <1>3, WithinUrl DEF Outer
<1>4. CASE t = "path"
  BY <1>1, <1>2, <1>4, WithinUrl DEF Outer
<1>5. CASE t = "query"
  BY <1>1, <1>2, <1>5, WithinUrl DEF Outer
<1>6. CASE t = "fragment"
  BY <1>1, <1>2, <1>6, WithinUrl DEF Outer
<1>7. CASE t \in {"server", "userinfo", "port"}
  <2>1. CASE hostState = "none"
    <3>1. /\ Is(urlField, "server", b, c) /\ Is(urlField, "userinfo", b, b)
          /\ Is(urlField, "port", c, c)
      BY <2>1 DEF Scanning, Laid
    <3>. QED
      BY <1>2, <1>7, <3>1, WithinUrl
  <2>2. CASE hostState = "no_host"
    BY <1>7, <2>2, FieldType DEF Scanning, Hostless
  <2>3. CASE hostState \notin {"none", "no_host"}
    <3>1. PICK u, v, w, o, y, z \in Nat : Inner(b, hostAt, u, v, w, o, y, z)
      BY <2>3 DEF Scanning, Hosted
    <3>2. hostAt \in Nat /\ hostAt <= c
      BY <2>3 DEF Scanning, Hosted
    <3>3. b <= u /\ u <= w /\ w <= o /\ o <= z /\ z <= hostAt
      BY <1>2, <3>1, <3>2 DEF Inner
    <3>4. CASE t = "server"
      <4>1. Is(urlField, "server", w, o) /\ 1 <= w /\ o <= Behind
        BY <1>2, <3>1, <3>2, <3>3 DEF Inner
      <4>. QED
        BY <3>4, <4>1, WithinUrl
    <3>5. CASE t = "userinfo"
      <4>1. Is(urlField, "userinfo", b, u) /\ u <= Behind
        BY <1>2, <3>1, <3>2, <3>3 DEF Inner
      <4>. QED
        BY <1>2, <3>5, <4>1, WithinUrl
    <3>6. CASE t = "port"
      <4>1. Is(urlField, "port", z, hostAt) /\ 1 <= z /\ hostAt <= Behind
        BY <1>2, <3>1, <3>2, <3>3 DEF Inner
      <4>. QED
        BY <3>2, <3>6, <4>1, WithinUrl
    <3>. QED
      BY <1>7, <3>4, <3>5, <3>6
  <2>. QED
    BY <2>1, <2>2, <2>3
<1>. QED
  BY <1>3, <1>4, <1>5, <1>6, <1>7 DEF Url!Fields

LEMMA UrlInit == Url!Init => UrlInv
<1>. SUFFICES ASSUME Url!Init PROVE UrlInv
  OBVIOUS
<1>1. \A t \in Url!Fields : urlField[t] = [off |-> 0, len |-> 0]
  BY DEF Url!Init
<1>2. urlRead \in Seq(UrlChars) /\ Len(urlRead) = 0 /\ Behind = 1
  BY DEF Url!Init, Behind
<1>3. UrlTyped
  <2>1. urlField \in [Url!Fields -> [off : Nat, len : Nat]]
    BY DEF Url!Init
  <2>2. MaxPort \in Nat
    BY HttpUrlAssumption DEF Url!UrlAssumption
  <2>. QED
    BY <1>2, <2>1, <2>2 DEF Url!Init, UrlTyped, UrlStates
<1>4. Laid(1, 1, 1, 1, 1, 1, 1)
  <2>1. \A t \in Url!Fields : urlField[t].len = 0
    BY <1>1
  <2>2. \A t \in Url!Fields : Is(urlField, t, 1, 1)
    BY <2>1 DEF Is
  <2>3. Outer(1, 1, 1, 1, 1, 1, 1)
    <3>1. Slashes(1, 1)
      BY DEF Slashes
    <3>2. \A S : Over(1, 1, S)
      BY DEF Over
    <3>3. Is(urlField, "schema", 1, 1) /\ Is(urlField, "path", 1, 1) /\ Is(urlField, "query", 1, 1)
      BY <2>2, FieldNames
    <3>4. Is(urlField, "fragment", 1, Behind)
      BY <1>2, <2>2, FieldNames
    <3>. QED
      BY <1>2, <3>1, <3>2, <3>3, <3>4 DEF Outer
  <2>4. Stage(1, 1, 1, 1, 1, 1, 1)
    <3>1. lastField \notin Url!Fields /\ urlState \in {"server_start", "spaces_before_url"}
      BY DEF Url!Init, Url!Fields
    <3>. QED
      BY <1>2, <3>1 DEF Stage, AllSlashes
  <2>. QED
    BY <2>2, <2>3, <2>4, FieldNames DEF Laid
<1>5. Scanning(1, 1, 1, 1, 1, 1, 1)
  BY <1>4 DEF Scanning, Url!Init
<1>. QED
  BY <1>3, <1>5 DEF UrlInv, Url!Init
-----------------------------------------------------------------------------
(* The first scan                                                          *)

Servers == {"server_start", "server", "server_with_at"}

(* From which states, with which characters, each state is entered.        *)
LEMMA UrlSteps ==
  ASSUME NEW t \in UrlStates, NEW ch, NEW n, n = Url!UrlStep(t, ch)
  PROVE  /\ n = "schema" => t \in {"spaces_before_url", "schema"}
         /\ n = "schema_slash" => t = "schema" /\ ch = ":"
         /\ n = "schema_slash_slash" => t = "schema_slash" /\ ch = "/"
         /\ n = "server_start" => t = "schema_slash_slash" /\ ch = "/"
         /\ n \in {"server", "server_with_at"} => t \in Servers
         /\ n = "path" => t \in Servers \cup {"spaces_before_url", "path"} /\ ch \in Url!UrlChar
         /\ n = "query_start" => t \in Servers \cup {"path"} /\ ch = "?"
         /\ n = "query" => t \in {"query_start", "query"} /\ ch \in Url!UrlChar \cup {"?"}
         /\ n = "fragment_start"
              => t \in {"path", "query_start", "query", "fragment_start"} /\ ch = "#"
         /\ n = "fragment" => t \in {"fragment_start", "fragment"}
         /\ n \in (UrlStates \ {"spaces_before_url"}) \cup {"dead"}
<1>1. CASE t = "spaces_before_url"
  BY <1>1 DEF Url!UrlStep, UrlStates, Servers, Url!UrlChar
<1>2. CASE t = "schema"
  BY <1>2 DEF Url!UrlStep, UrlStates, Servers, Url!Alpha
<1>3. CASE t \in {"schema_slash", "schema_slash_slash"}
  BY <1>3 DEF Url!UrlStep, UrlStates, Servers
<1>4. CASE t \in Servers
  <2>1. n = Url!ServerChar(t, ch)
    BY <1>4 DEF Url!UrlStep, Servers
  <2>2. "/" \in Url!UrlChar
    BY DEF Url!UrlChar
  <2>. QED
    BY <1>4, <2>1, <2>2 DEF Url!ServerChar, UrlStates, Servers
<1>5. CASE t = "path"
  BY <1>5 DEF Url!UrlStep, UrlStates, Servers
<1>6. CASE t \in {"query_start", "query"}
  <2>1. n = Url!QueryChar(ch)
    BY <1>6 DEF Url!UrlStep, Servers
  <2>. QED
    BY <1>6, <2>1 DEF Url!QueryChar, UrlStates, Servers
<1>7. CASE t \in {"fragment_start", "fragment"}
  BY <1>7 DEF Url!UrlStep, UrlStates, Servers
<1>. QED
  BY <1>1, <1>2, <1>3, <1>4, <1>5, <1>6, <1>7 DEF UrlStates, Servers

(* The scan reads ch and goes to n.                                        *)
UrlReads(ch, n) ==
  /\ n = Url!UrlStep(urlState, ch) /\ n # "dead" /\ urlState \in UrlStates
  /\ urlRead' = Append(urlRead, ch) /\ urlState' = n
  /\ urlResult = "none" /\ hostState = "none"
  /\ UNCHANGED <<forConnect, hostState, hostAt, hostEnd, urlResult, urlPort>>
  /\ IF n \in Url!Delimiters THEN UNCHANGED <<urlField, lastField>>
     ELSE urlField' = Url!GrowField(Url!Uf(n)) /\ lastField' = Url!Uf(n)

LEMMA UrlGrows ==
  ASSUME UrlTyped, NEW ch \in UrlChars, urlRead' = Append(urlRead, ch)
  PROVE  /\ Behind' = Behind + 1 /\ urlRead'[Behind] = ch
         /\ \A m \in 1..(Behind - 1) : urlRead'[m] = urlRead[m]
BY DEF UrlTyped, Behind

(* One character more changes nothing of those before it.                  *)
LEMMA OverGrows ==
  ASSUME UrlTyped, NEW ch \in UrlChars, urlRead' = Append(urlRead, ch),
         NEW i \in Nat, NEW j \in Nat, 1 <= i, NEW S
  PROVE  /\ j <= Behind /\ Over(i, j, S) => Over(i, j, S)'
         /\ j = Behind /\ Over(i, j, S) /\ ch \in S => Over(i, j + 1, S)'
         /\ j <= i => Over(i, j, S)'
<1>. USE UrlGrows, UrlLen
<1>1. ASSUME j <= Behind, Over(i, j, S) PROVE Over(i, j, S)'
  <2>1. \A m \in i..(j - 1) : urlRead'[m] = urlRead[m]
    BY <1>1
  <2>. QED
    BY <1>1, <2>1 DEF Over
<1>2. ASSUME j = Behind, Over(i, j, S), ch \in S PROVE Over(i, j + 1, S)'
  <2>1. \A m \in i..(j + 1 - 1) : m = Behind \/ (m \in i..(j - 1) /\ urlRead'[m] = urlRead[m])
    BY <1>2
  <2>. QED
    BY <1>2, <2>1 DEF Over
<1>3. ASSUME j <= i PROVE Over(i, j, S)'
  BY <1>3 DEF Over
<1>. QED
  BY <1>1, <1>2, <1>3

LEMMA SlashesGrow ==
  ASSUME UrlTyped, NEW ch \in UrlChars, urlRead' = Append(urlRead, ch),
         NEW a \in Nat, NEW b \in Nat, 1 <= a, b <= Behind, Slashes(a, b)
  PROVE  Slashes(a, b)'
<1>. USE UrlGrows, UrlLen
<1>1. b > a => urlRead'[a] = urlRead[a]
  BY DEF Slashes
<1>2. b > a + 1 => urlRead'[a + 1] = urlRead[a + 1]
  BY DEF Slashes
<1>3. b > a + 2 => urlRead'[a + 2] = urlRead[a + 2]
  BY DEF Slashes
<1>. QED
  BY <1>1, <1>2, <1>3 DEF Slashes

(* A character more in the field that ends where the URL does.             *)
LEMMA FieldGrows ==
  ASSUME UrlTyped, NEW t \in Url!Fields, NEW i \in Nat, i <= Behind, Is(urlField, t, i, Behind),
         lastField = t <=> Behind > i
  PROVE  /\ Is(Url!GrowField(t), t, i, Behind + 1)
         /\ \A r \in Url!Fields : r # t => Url!GrowField(t)[r] = urlField[r]
         /\ Url!GrowField(t)[t].len > 0
         /\ Url!GrowField(t) \in [Url!Fields -> [off : Nat, len : Nat]]
<1>. USE UrlLen
<1>1. /\ urlField[t].off \in Nat /\ urlField[t].len \in Nat
      /\ urlField \in [Url!Fields -> [off : Nat, len : Nat]]
  BY DEF UrlTyped
<1>2. CASE lastField = t
  <2>1. Url!GrowField(t) = [urlField EXCEPT ![t].len = @ + 1]
    BY <1>2 DEF Url!GrowField
  <2>2. Url!GrowField(t)[t] = [off |-> urlField[t].off, len |-> urlField[t].len + 1]
    BY <1>1, <2>1
  <2>3. urlField[t].off = i /\ urlField[t].len = Behind - i
    BY <1>2 DEF Is
  <2>4. Url!GrowField(t)[t].len = Behind + 1 - i /\ Url!GrowField(t)[t].off = i
    BY <1>1, <2>2, <2>3
  <2>5. \A r \in Url!Fields : r # t => Url!GrowField(t)[r] = urlField[r]
    BY <1>1, <2>1
  <2>6. Url!GrowField(t) \in [Url!Fields -> [off : Nat, len : Nat]]
    BY <1>1, <2>1
  <2>. QED
    BY <2>4, <2>5, <2>6 DEF Is
<1>3. CASE lastField # t
  <2>1. Url!GrowField(t) = [urlField EXCEPT ![t] = [off |-> Behind, len |-> 1]]
    BY <1>3 DEF Url!GrowField, Behind
  <2>2. i = Behind
    BY <1>3
  <2>3. Url!GrowField(t)[t] = [off |-> Behind, len |-> 1]
    BY <1>1, <2>1
  <2>5. \A r \in Url!Fields : r # t => Url!GrowField(t)[r] = urlField[r]
    BY <1>1, <2>1
  <2>6. Url!GrowField(t) \in [Url!Fields -> [off : Nat, len : Nat]]
    BY <1>1, <2>1
  <2>. QED
    BY <2>2, <2>3, <2>5, <2>6 DEF Is
<1>. QED
  BY <1>2, <1>3

(* One lemma for each state the first scan goes to: where the cuts are     *)
(* behind the character.                                                   *)
LEMMA ReadsSchema ==
  ASSUME UrlTyped, NEW ch \in UrlChars, NEW n, UrlReads(ch, n), NEW e \in Nat, e = Behind,
         NEW a \in Nat, NEW b \in Nat, NEW c \in Nat, NEW d \in Nat, NEW q \in Nat,
         NEW g \in Nat, NEW k \in Nat, Laid(a, b, c, d, q, g, k), n = "schema"
  PROVE  Laid(e + 1, e + 1, e + 1, e + 1, e + 1, e + 1, e + 1)' /\ UrlTyped'
<1>. USE UrlLen
<1>0. Outer(a, b, c, d, q, g, k) /\ Stage(a, b, c, d, q, g, k)
  BY DEF Laid
<1>1. Behind' = e + 1 /\ urlRead'[e] = ch /\ \A m \in 1..(e - 1) : urlRead'[m] = urlRead[m]
  BY UrlGrows DEF UrlReads
<1>2. /\ 1 <= a /\ a <= b /\ b <= c /\ c <= d /\ d <= q /\ q <= g /\ g <= k /\ k <= e
      /\ urlField["server"].len = c - b /\ urlField["userinfo"].len = 0 /\ urlField["port"].len = 0
      /\ urlField["schema"].len = a - 1 /\ urlField["path"].len = d - c
      /\ urlField["query"].len = g - q /\ urlField["fragment"].len = e - k
  BY <1>0 DEF Outer, Is, Laid
<1>3. urlState \in {"spaces_before_url", "schema"}
  BY UrlSteps DEF Servers, UrlReads
<1>4. a = e /\ b = e /\ c = e /\ d = e /\ q = e /\ g = e /\ k = e /\ (urlState # "schema" => e = 1)
  BY <1>0, <1>2, <1>3 DEF Stage, Servers, AllSlashes, Slashes, Outer
<1>5. Url!Uf(n) = "schema" /\ n \notin Url!Delimiters /\ n \in UrlStates
  BY DEF Url!Uf, Url!Delimiters, UrlStates
<1>6. lastField = "schema" <=> e > 1
  BY <1>0, <1>2, <1>3, <1>4, FieldNames DEF Stage, Url!Uf, Servers
<1>7. Is(urlField, "schema", 1, Behind)
  BY <1>0, <1>2, <1>4 DEF Laid, Outer
<1>8. /\ Is(urlField', "schema", 1, e + 1) /\ urlField'["schema"].len > 0 /\ lastField' = "schema"
      /\ urlField'["server"] = urlField["server"] /\ urlField'["port"] = urlField["port"]
      /\ urlField'["path"] = urlField["path"] /\ urlField'["query"] = urlField["query"]
      /\ urlField'["fragment"] = urlField["fragment"]
      /\ urlField'["userinfo"] = urlField["userinfo"]
      /\ urlField' \in [Url!Fields -> [off : Nat, len : Nat]]
  <2>1. urlField' = Url!GrowField("schema") /\ lastField' = "schema"
    BY <1>5 DEF UrlReads
  <2>2. 1 <= Behind
    BY <1>2
  <2>3. /\ Is(Url!GrowField("schema"), "schema", 1, Behind + 1)
        /\ \A r \in Url!Fields : r # "schema" => Url!GrowField("schema")[r] = urlField[r]
        /\ Url!GrowField("schema")["schema"].len > 0
        /\ Url!GrowField("schema") \in [Url!Fields -> [off : Nat, len : Nat]]
    BY <1>6, <1>7, <2>2, FieldGrows, FieldNames
  <2>. QED
    BY <2>1, <2>3, FieldNames
<1>9. Outer(e + 1, e + 1, e + 1, e + 1, e + 1, e + 1, e + 1)'
  <2>1. /\ Is(urlField', "schema", 1, e + 1) /\ Is(urlField', "path", e + 1, e + 1)
        /\ Is(urlField', "query", e + 1, e + 1) /\ Is(urlField', "fragment", e + 1, e + 1)
    <3>1. Is(urlField', "schema", 1, e + 1)
      BY <1>8
    <3>2. Is(urlField', "path", e + 1, e + 1)
      BY <1>2, <1>4, <1>8 DEF Is
    <3>3. Is(urlField', "query", e + 1, e + 1)
      BY <1>2, <1>4, <1>8 DEF Is
    <3>4. Is(urlField', "fragment", e + 1, e + 1)
      BY <1>2, <1>4, <1>8 DEF Is
    <3>. QED
      BY <3>1, <3>2, <3>3, <3>4
  <2>2. Slashes(e + 1, e + 1)'
    BY DEF Slashes
  <2>3. (e + 1 = e + 1 /\ e + 1 = e + 1) \/ (e + 1 = e + 1 + 1 /\ urlRead'[e + 1] = "?")
    OBVIOUS
  <2>4. Over(e + 1, e + 1, Url!UrlChar)'
    BY DEF Over
  <2>5. Over(e + 1, e + 1, Url!UrlChar \cup {"?"})'
    BY DEF Over
  <2>6. Over(e + 1, e + 1, {"#"})'
    BY DEF Over
  <2>7. /\ e + 1 \in Nat /\ e + 1 \in Nat /\ e + 1 \in Nat /\ e + 1 \in Nat
        /\ e + 1 \in Nat /\ e + 1 \in Nat /\ e + 1 \in Nat
        /\ 1 <= e + 1 /\ e + 1 <= e + 1 /\ e + 1 <= e + 1 /\ e + 1 <= e + 1
        /\ e + 1 <= e + 1 /\ e + 1 <= e + 1 /\ e + 1 <= e + 1 /\ e + 1 <= e + 1
    BY <1>2, <1>4
  <2>. QED
    BY <1>1, <2>1, <2>2, <2>3, <2>4, <2>5, <2>6, <2>7 DEF Outer
<1>10. Stage(e + 1, e + 1, e + 1, e + 1, e + 1, e + 1, e + 1)'
  <2>1. \A t \in Url!Fields : lastField' = t => urlField'[t].len > 0
    BY <1>0, <1>8 DEF Stage
  <2>2. urlState' = n
    BY DEF UrlReads
  <2>. QED
    BY <1>0, <1>1, <1>2, <1>4, <1>5, <1>8, <2>1, <2>2 DEF Stage, AllSlashes, Url!Uf
<1>11. /\ Is(urlField', "server", e + 1, e + 1)
       /\ Is(urlField', "userinfo", e + 1, e + 1) /\ Is(urlField', "port", e + 1, e + 1)
  <2>1. Is(urlField', "server", e + 1, e + 1)
    BY <1>2, <1>4, <1>8 DEF Is
  <2>2. Is(urlField', "userinfo", e + 1, e + 1)
    BY <1>2, <1>4, <1>8 DEF Is
  <2>3. Is(urlField', "port", e + 1, e + 1)
    BY <1>2, <1>4, <1>8 DEF Is
  <2>. QED
    BY <2>1, <2>2, <2>3
<1>12. UrlTyped'
  <2>1. urlRead' \in Seq(UrlChars)
    BY DEF UrlTyped, UrlReads
  <2>2. urlState' = n
    BY DEF UrlReads
  <2>. QED
    BY <1>5, <1>8, <2>1, <2>2 DEF UrlTyped, UrlReads
<1>. QED
  BY <1>9, <1>10, <1>11, <1>12 DEF Laid

LEMMA ReadsSlash ==
  ASSUME UrlTyped, NEW ch \in UrlChars, NEW n, UrlReads(ch, n), NEW e \in Nat, e = Behind,
         NEW a \in Nat, NEW b \in Nat, NEW c \in Nat, NEW d \in Nat, NEW q \in Nat,
         NEW g \in Nat, NEW k \in Nat, Laid(a, b, c, d, q, g, k),
         n \in {"schema_slash", "schema_slash_slash", "server_start"}
  PROVE  Laid(a, e + 1, e + 1, e + 1, e + 1, e + 1, e + 1)' /\ UrlTyped'
<1>. USE UrlLen
<1>0. Outer(a, b, c, d, q, g, k) /\ Stage(a, b, c, d, q, g, k)
  BY DEF Laid
<1>1. Behind' = e + 1 /\ urlRead'[e] = ch /\ \A m \in 1..(e - 1) : urlRead'[m] = urlRead[m]
  BY UrlGrows DEF UrlReads
<1>2. /\ 1 <= a /\ a <= b /\ b <= c /\ c <= d /\ d <= q /\ q <= g /\ g <= k /\ k <= e
      /\ urlField["server"].len = c - b /\ urlField["userinfo"].len = 0 /\ urlField["port"].len = 0
      /\ urlField["schema"].len = a - 1 /\ urlField["path"].len = d - c
      /\ urlField["query"].len = g - q /\ urlField["fragment"].len = e - k
  BY <1>0 DEF Outer, Is, Laid
<1>3. /\ urlState \in {"schema", "schema_slash", "schema_slash_slash"}
      /\ (n = "schema_slash" => urlState = "schema" /\ ch = ":")
      /\ (n = "schema_slash_slash" => urlState = "schema_slash" /\ ch = "/")
      /\ (n = "server_start" => urlState = "schema_slash_slash" /\ ch = "/")
  BY UrlSteps DEF Servers, UrlReads
<1>4. b = e /\ c = e /\ d = e /\ q = e /\ g = e /\ k = e /\ a > 1
      /\ (n = "schema_slash" => a = e) /\ (n = "schema_slash_slash" => e = a + 1)
      /\ (n = "server_start" => e = a + 2)
  BY <1>0, <1>2, <1>3 DEF Stage, Servers, AllSlashes, Slashes, Outer
<1>5. n \in Url!Delimiters /\ n \in UrlStates
  BY DEF Url!Delimiters, UrlStates
<1>8. /\ lastField' = lastField /\ urlField' = urlField
      /\ urlField' \in [Url!Fields -> [off : Nat, len : Nat]]
  BY <1>5 DEF UrlTyped, UrlReads
<1>9. Outer(a, e + 1, e + 1, e + 1, e + 1, e + 1, e + 1)'
  <2>1. /\ Is(urlField', "schema", 1, a) /\ Is(urlField', "path", e + 1, e + 1)
        /\ Is(urlField', "query", e + 1, e + 1) /\ Is(urlField', "fragment", e + 1, e + 1)
    <3>1. Is(urlField, "schema", 1, a)
      BY <1>0 DEF Outer
    <3>2. Is(urlField', "schema", 1, a)
      BY <1>8, <3>1 DEF Is
    <3>3. Is(urlField', "path", e + 1, e + 1)
      BY <1>2, <1>4, <1>8 DEF Is
    <3>4. Is(urlField', "query", e + 1, e + 1)
      BY <1>2, <1>4, <1>8 DEF Is
    <3>5. Is(urlField', "fragment", e + 1, e + 1)
      BY <1>2, <1>4, <1>8 DEF Is
    <3>. QED
      BY <3>1, <3>2, <3>3, <3>4, <3>5
  <2>2. Slashes(a, e + 1)'
    <3>1. Slashes(a, b)'
      BY <1>0, <1>2, SlashesGrow DEF Outer, UrlReads
    <3>. QED
      BY <1>1, <1>3, <1>4, <3>1 DEF Slashes
  <2>3. (e + 1 = e + 1 /\ e + 1 = e + 1) \/ (e + 1 = e + 1 + 1 /\ urlRead'[e + 1] = "?")
    OBVIOUS
  <2>4. Over(e + 1, e + 1, Url!UrlChar)'
    BY DEF Over
  <2>5. Over(e + 1, e + 1, Url!UrlChar \cup {"?"})'
    BY DEF Over
  <2>6. Over(e + 1, e + 1, {"#"})'
    BY DEF Over
  <2>7. /\ a \in Nat /\ e + 1 \in Nat /\ e + 1 \in Nat /\ e + 1 \in Nat
        /\ e + 1 \in Nat /\ e + 1 \in Nat /\ e + 1 \in Nat
        /\ 1 <= a /\ a <= e + 1 /\ e + 1 <= e + 1 /\ e + 1 <= e + 1
        /\ e + 1 <= e + 1 /\ e + 1 <= e + 1 /\ e + 1 <= e + 1 /\ e + 1 <= e + 1
    BY <1>2, <1>4
  <2>. QED
    BY <1>1, <2>1, <2>2, <2>3, <2>4, <2>5, <2>6, <2>7 DEF Outer
<1>10. Stage(a, e + 1, e + 1, e + 1, e + 1, e + 1, e + 1)'
  <2>1. \A t \in Url!Fields : lastField' = t => urlField'[t].len > 0
    BY <1>0, <1>8 DEF Stage
  <2>2. urlState' = n
    BY DEF UrlReads
  <2>. QED
    BY <1>0, <1>1, <1>2, <1>4, <1>5, <1>8, <2>1, <2>2 DEF Stage, AllSlashes, Url!Uf
<1>11. /\ Is(urlField', "server", e + 1, e + 1)
       /\ Is(urlField', "userinfo", e + 1, e + 1) /\ Is(urlField', "port", e + 1, e + 1)
  <2>1. Is(urlField', "server", e + 1, e + 1)
    BY <1>2, <1>4, <1>8 DEF Is
  <2>2. Is(urlField', "userinfo", e + 1, e + 1)
    BY <1>2, <1>4, <1>8 DEF Is
  <2>3. Is(urlField', "port", e + 1, e + 1)
    BY <1>2, <1>4, <1>8 DEF Is
  <2>. QED
    BY <2>1, <2>2, <2>3
<1>12. UrlTyped'
  <2>1. urlRead' \in Seq(UrlChars)
    BY DEF UrlTyped, UrlReads
  <2>2. urlState' = n
    BY DEF UrlReads
  <2>. QED
    BY <1>5, <1>8, <2>1, <2>2 DEF UrlTyped, UrlReads
<1>. QED
  BY <1>9, <1>10, <1>11, <1>12 DEF Laid

LEMMA ReadsServer ==
  ASSUME UrlTyped, NEW ch \in UrlChars, NEW n, UrlReads(ch, n), NEW e \in Nat, e = Behind,
         NEW a \in Nat, NEW b \in Nat, NEW c \in Nat, NEW d \in Nat, NEW q \in Nat,
         NEW g \in Nat, NEW k \in Nat, Laid(a, b, c, d, q, g, k), n \in {"server", "server_with_at"}
  PROVE  Laid(a, b, e + 1, e + 1, e + 1, e + 1, e + 1)' /\ UrlTyped'
<1>. USE UrlLen
<1>0. Outer(a, b, c, d, q, g, k) /\ Stage(a, b, c, d, q, g, k)
  BY DEF Laid
<1>1. Behind' = e + 1 /\ urlRead'[e] = ch /\ \A m \in 1..(e - 1) : urlRead'[m] = urlRead[m]
  BY UrlGrows DEF UrlReads
<1>2. /\ 1 <= a /\ a <= b /\ b <= c /\ c <= d /\ d <= q /\ q <= g /\ g <= k /\ k <= e
      /\ urlField["server"].len = c - b /\ urlField["userinfo"].len = 0 /\ urlField["port"].len = 0
      /\ urlField["schema"].len = a - 1 /\ urlField["path"].len = d - c
      /\ urlField["query"].len = g - q /\ urlField["fragment"].len = e - k
  BY <1>0 DEF Outer, Is, Laid
<1>3. urlState \in Servers
  BY UrlSteps DEF Servers, UrlReads
<1>4. /\ c = e /\ d = e /\ q = e /\ g = e /\ k = e /\ AllSlashes(a, b)
      /\ (urlState = "server_start" => b = e)
      /\ (urlState # "server_start" => c > b)
  BY <1>0, <1>2, <1>3 DEF Stage, Servers, AllSlashes, Slashes, Outer
<1>5. Url!Uf(n) = "server" /\ n \notin Url!Delimiters /\ n \in UrlStates
  BY DEF Url!Uf, Url!Delimiters, UrlStates
<1>6. lastField = "server" <=> e > b
  BY <1>0, <1>2, <1>3, <1>4, FieldNames DEF Stage, Url!Uf, Servers
<1>7. Is(urlField, "server", b, Behind)
  BY <1>0, <1>2, <1>4 DEF Laid, Outer
<1>8. /\ Is(urlField', "server", b, e + 1) /\ urlField'["server"].len > 0 /\ lastField' = "server"
      /\ urlField'["schema"] = urlField["schema"] /\ urlField'["port"] = urlField["port"]
      /\ urlField'["path"] = urlField["path"] /\ urlField'["query"] = urlField["query"]
      /\ urlField'["fragment"] = urlField["fragment"]
      /\ urlField'["userinfo"] = urlField["userinfo"]
      /\ urlField' \in [Url!Fields -> [off : Nat, len : Nat]]
  <2>1. urlField' = Url!GrowField("server") /\ lastField' = "server"
    BY <1>5 DEF UrlReads
  <2>2. b <= Behind
    BY <1>2
  <2>3. /\ Is(Url!GrowField("server"), "server", b, Behind + 1)
        /\ \A r \in Url!Fields : r # "server" => Url!GrowField("server")[r] = urlField[r]
        /\ Url!GrowField("server")["server"].len > 0
        /\ Url!GrowField("server") \in [Url!Fields -> [off : Nat, len : Nat]]
    BY <1>6, <1>7, <2>2, FieldGrows, FieldNames
  <2>. QED
    BY <2>1, <2>3, FieldNames
<1>9. Outer(a, b, e + 1, e + 1, e + 1, e + 1, e + 1)'
  <2>1. /\ Is(urlField', "schema", 1, a) /\ Is(urlField', "path", e + 1, e + 1)
        /\ Is(urlField', "query", e + 1, e + 1) /\ Is(urlField', "fragment", e + 1, e + 1)
    <3>1. Is(urlField, "schema", 1, a)
      BY <1>0 DEF Outer
    <3>2. Is(urlField', "schema", 1, a)
      BY <1>8, <3>1 DEF Is
    <3>3. Is(urlField', "path", e + 1, e + 1)
      BY <1>2, <1>4, <1>8 DEF Is
    <3>4. Is(urlField', "query", e + 1, e + 1)
      BY <1>2, <1>4, <1>8 DEF Is
    <3>5. Is(urlField', "fragment", e + 1, e + 1)
      BY <1>2, <1>4, <1>8 DEF Is
    <3>. QED
      BY <3>1, <3>2, <3>3, <3>4, <3>5
  <2>2. Slashes(a, b)'
    <3>1. Slashes(a, b)
      BY <1>0 DEF Outer
    <3>. QED
      BY <1>2, <3>1, SlashesGrow DEF UrlReads
  <2>3. (e + 1 = e + 1 /\ e + 1 = e + 1) \/ (e + 1 = e + 1 + 1 /\ urlRead'[e + 1] = "?")
    OBVIOUS
  <2>4. Over(e + 1, e + 1, Url!UrlChar)'
    BY DEF Over
  <2>5. Over(e + 1, e + 1, Url!UrlChar \cup {"?"})'
    BY DEF Over
  <2>6. Over(e + 1, e + 1, {"#"})'
    BY DEF Over
  <2>7. /\ a \in Nat /\ b \in Nat /\ e + 1 \in Nat /\ e + 1 \in Nat
        /\ e + 1 \in Nat /\ e + 1 \in Nat /\ e + 1 \in Nat
        /\ 1 <= a /\ a <= b /\ b <= e + 1 /\ e + 1 <= e + 1
        /\ e + 1 <= e + 1 /\ e + 1 <= e + 1 /\ e + 1 <= e + 1 /\ e + 1 <= e + 1
    BY <1>2, <1>4
  <2>. QED
    BY <1>1, <2>1, <2>2, <2>3, <2>4, <2>5, <2>6, <2>7 DEF Outer
<1>10. Stage(a, b, e + 1, e + 1, e + 1, e + 1, e + 1)'
  <2>1. \A t \in Url!Fields : lastField' = t => urlField'[t].len > 0
    BY <1>0, <1>8 DEF Stage
  <2>2. urlState' = n
    BY DEF UrlReads
  <2>. QED
    BY <1>0, <1>1, <1>2, <1>4, <1>5, <1>8, <2>1, <2>2 DEF Stage, AllSlashes, Url!Uf
<1>11. /\ Is(urlField', "server", b, e + 1)
       /\ Is(urlField', "userinfo", b, b) /\ Is(urlField', "port", e + 1, e + 1)
  <2>1. Is(urlField', "server", b, e + 1)
    BY <1>8
  <2>2. Is(urlField', "userinfo", b, b)
    BY <1>2, <1>4, <1>8 DEF Is
  <2>3. Is(urlField', "port", e + 1, e + 1)
    BY <1>2, <1>4, <1>8 DEF Is
  <2>. QED
    BY <2>1, <2>2, <2>3
<1>12. UrlTyped'
  <2>1. urlRead' \in Seq(UrlChars)
    BY DEF UrlTyped, UrlReads
  <2>2. urlState' = n
    BY DEF UrlReads
  <2>. QED
    BY <1>5, <1>8, <2>1, <2>2 DEF UrlTyped, UrlReads
<1>. QED
  BY <1>9, <1>10, <1>11, <1>12 DEF Laid

LEMMA ReadsPath ==
  ASSUME UrlTyped, NEW ch \in UrlChars, NEW n, UrlReads(ch, n), NEW e \in Nat, e = Behind,
         NEW a \in Nat, NEW b \in Nat, NEW c \in Nat, NEW d \in Nat, NEW q \in Nat,
         NEW g \in Nat, NEW k \in Nat, Laid(a, b, c, d, q, g, k), n = "path"
  PROVE  Laid(a, b, c, e + 1, e + 1, e + 1, e + 1)' /\ UrlTyped'
<1>. USE UrlLen
<1>0. Outer(a, b, c, d, q, g, k) /\ Stage(a, b, c, d, q, g, k)
  BY DEF Laid
<1>1. Behind' = e + 1 /\ urlRead'[e] = ch /\ \A m \in 1..(e - 1) : urlRead'[m] = urlRead[m]
  BY UrlGrows DEF UrlReads
<1>2. /\ 1 <= a /\ a <= b /\ b <= c /\ c <= d /\ d <= q /\ q <= g /\ g <= k /\ k <= e
      /\ urlField["server"].len = c - b /\ urlField["userinfo"].len = 0 /\ urlField["port"].len = 0
      /\ urlField["schema"].len = a - 1 /\ urlField["path"].len = d - c
      /\ urlField["query"].len = g - q /\ urlField["fragment"].len = e - k
  BY <1>0 DEF Outer, Is, Laid
<1>3. urlState \in Servers \cup {"spaces_before_url", "path"} /\ ch \in Url!UrlChar
  BY UrlSteps DEF Servers, UrlReads
<1>4. /\ d = e /\ q = e /\ g = e /\ k = e /\ AllSlashes(a, b) /\ (urlState # "path" => c = e)
      /\ (urlState = "path" => d > c)
  BY <1>0, <1>2, <1>3 DEF Stage, Servers, AllSlashes, Slashes, Outer
<1>5. Url!Uf(n) = "path" /\ n \notin Url!Delimiters /\ n \in UrlStates
  BY DEF Url!Uf, Url!Delimiters, UrlStates
<1>6. lastField = "path" <=> e > c
  BY <1>0, <1>2, <1>3, <1>4, FieldNames DEF Stage, Url!Uf, Servers
<1>7. Is(urlField, "path", c, Behind)
  BY <1>0, <1>2, <1>4 DEF Laid, Outer
<1>8. /\ Is(urlField', "path", c, e + 1) /\ urlField'["path"].len > 0 /\ lastField' = "path"
      /\ urlField'["schema"] = urlField["schema"] /\ urlField'["server"] = urlField["server"]
      /\ urlField'["port"] = urlField["port"] /\ urlField'["query"] = urlField["query"]
      /\ urlField'["fragment"] = urlField["fragment"]
      /\ urlField'["userinfo"] = urlField["userinfo"]
      /\ urlField' \in [Url!Fields -> [off : Nat, len : Nat]]
  <2>1. urlField' = Url!GrowField("path") /\ lastField' = "path"
    BY <1>5 DEF UrlReads
  <2>2. c <= Behind
    BY <1>2
  <2>3. /\ Is(Url!GrowField("path"), "path", c, Behind + 1)
        /\ \A r \in Url!Fields : r # "path" => Url!GrowField("path")[r] = urlField[r]
        /\ Url!GrowField("path")["path"].len > 0
        /\ Url!GrowField("path") \in [Url!Fields -> [off : Nat, len : Nat]]
    BY <1>6, <1>7, <2>2, FieldGrows, FieldNames
  <2>. QED
    BY <2>1, <2>3, FieldNames
<1>9. Outer(a, b, c, e + 1, e + 1, e + 1, e + 1)'
  <2>1. /\ Is(urlField', "schema", 1, a) /\ Is(urlField', "path", c, e + 1)
        /\ Is(urlField', "query", e + 1, e + 1) /\ Is(urlField', "fragment", e + 1, e + 1)
    <3>1. Is(urlField, "schema", 1, a)
      BY <1>0 DEF Outer
    <3>2. Is(urlField', "schema", 1, a)
      BY <1>8, <3>1 DEF Is
    <3>3. Is(urlField', "path", c, e + 1)
      BY <1>8
    <3>4. Is(urlField', "query", e + 1, e + 1)
      BY <1>2, <1>4, <1>8 DEF Is
    <3>5. Is(urlField', "fragment", e + 1, e + 1)
      BY <1>2, <1>4, <1>8 DEF Is
    <3>. QED
      BY <3>1, <3>2, <3>3, <3>4, <3>5
  <2>2. Slashes(a, b)'
    <3>1. Slashes(a, b)
      BY <1>0 DEF Outer
    <3>. QED
      BY <1>2, <3>1, SlashesGrow DEF UrlReads
  <2>3. (e + 1 = e + 1 /\ e + 1 = e + 1) \/ (e + 1 = e + 1 + 1 /\ urlRead'[e + 1] = "?")
    OBVIOUS
  <2>4. Over(c, e + 1, Url!UrlChar)'
    <3>1. Over(c, d, Url!UrlChar)
      BY <1>0 DEF Outer
    <3>2. d = Behind /\ 1 <= c /\ ch \in Url!UrlChar
      BY <1>2, <1>3, <1>4
    <3>. QED
      BY <1>4, <3>1, <3>2, OverGrows DEF UrlReads
  <2>5. Over(e + 1, e + 1, Url!UrlChar \cup {"?"})'
    BY DEF Over
  <2>6. Over(e + 1, e + 1, {"#"})'
    BY DEF Over
  <2>7. /\ a \in Nat /\ b \in Nat /\ c \in Nat /\ e + 1 \in Nat
        /\ e + 1 \in Nat /\ e + 1 \in Nat /\ e + 1 \in Nat
        /\ 1 <= a /\ a <= b /\ b <= c /\ c <= e + 1
        /\ e + 1 <= e + 1 /\ e + 1 <= e + 1 /\ e + 1 <= e + 1 /\ e + 1 <= e + 1
    BY <1>2, <1>4
  <2>. QED
    BY <1>1, <2>1, <2>2, <2>3, <2>4, <2>5, <2>6, <2>7 DEF Outer
<1>10. Stage(a, b, c, e + 1, e + 1, e + 1, e + 1)'
  <2>1. \A t \in Url!Fields : lastField' = t => urlField'[t].len > 0
    BY <1>0, <1>8 DEF Stage
  <2>2. urlState' = n
    BY DEF UrlReads
  <2>. QED
    BY <1>0, <1>1, <1>2, <1>4, <1>5, <1>8, <2>1, <2>2 DEF Stage, AllSlashes, Url!Uf
<1>11. /\ Is(urlField', "server", b, c)
       /\ Is(urlField', "userinfo", b, b) /\ Is(urlField', "port", c, c)
  <2>1. Is(urlField, "server", b, c)
    BY DEF Laid
  <2>2. Is(urlField', "server", b, c)
    BY <1>8, <2>1 DEF Is
  <2>3. Is(urlField', "userinfo", b, b)
    BY <1>2, <1>4, <1>8 DEF Is
  <2>4. Is(urlField', "port", c, c)
    BY <1>2, <1>4, <1>8 DEF Is
  <2>. QED
    BY <2>1, <2>2, <2>3, <2>4
<1>12. UrlTyped'
  <2>1. urlRead' \in Seq(UrlChars)
    BY DEF UrlTyped, UrlReads
  <2>2. urlState' = n
    BY DEF UrlReads
  <2>. QED
    BY <1>5, <1>8, <2>1, <2>2 DEF UrlTyped, UrlReads
<1>. QED
  BY <1>9, <1>10, <1>11, <1>12 DEF Laid

LEMMA ReadsQueryStart ==
  ASSUME UrlTyped, NEW ch \in UrlChars, NEW n, UrlReads(ch, n), NEW e \in Nat, e = Behind,
         NEW a \in Nat, NEW b \in Nat, NEW c \in Nat, NEW d \in Nat, NEW q \in Nat,
         NEW g \in Nat, NEW k \in Nat, Laid(a, b, c, d, q, g, k), n = "query_start"
  PROVE  Laid(a, b, c, d, e + 1, e + 1, e + 1)' /\ UrlTyped'
<1>. USE UrlLen
<1>0. Outer(a, b, c, d, q, g, k) /\ Stage(a, b, c, d, q, g, k)
  BY DEF Laid
<1>1. Behind' = e + 1 /\ urlRead'[e] = ch /\ \A m \in 1..(e - 1) : urlRead'[m] = urlRead[m]
  BY UrlGrows DEF UrlReads
<1>2. /\ 1 <= a /\ a <= b /\ b <= c /\ c <= d /\ d <= q /\ q <= g /\ g <= k /\ k <= e
      /\ urlField["server"].len = c - b /\ urlField["userinfo"].len = 0 /\ urlField["port"].len = 0
      /\ urlField["schema"].len = a - 1 /\ urlField["path"].len = d - c
      /\ urlField["query"].len = g - q /\ urlField["fragment"].len = e - k
  BY <1>0 DEF Outer, Is, Laid
<1>3. urlState \in Servers \cup {"path"} /\ ch = "?"
  BY UrlSteps DEF Servers, UrlReads
<1>4. d = e /\ q = e /\ g = e /\ k = e /\ AllSlashes(a, b)
  BY <1>0, <1>2, <1>3 DEF Stage, Servers, AllSlashes, Slashes, Outer
<1>5. n \in Url!Delimiters /\ n \in UrlStates
  BY DEF Url!Delimiters, UrlStates
<1>8. /\ lastField' = lastField /\ urlField' = urlField
      /\ urlField' \in [Url!Fields -> [off : Nat, len : Nat]]
  BY <1>5 DEF UrlTyped, UrlReads
<1>9. Outer(a, b, c, d, e + 1, e + 1, e + 1)'
  <2>1. /\ Is(urlField', "schema", 1, a) /\ Is(urlField', "path", c, d)
        /\ Is(urlField', "query", e + 1, e + 1) /\ Is(urlField', "fragment", e + 1, e + 1)
    <3>1. Is(urlField, "schema", 1, a)
      BY <1>0 DEF Outer
    <3>2. Is(urlField', "schema", 1, a)
      BY <1>8, <3>1 DEF Is
    <3>3. Is(urlField, "path", c, d)
      BY <1>0 DEF Outer
    <3>4. Is(urlField', "path", c, d)
      BY <1>8, <3>3 DEF Is
    <3>5. Is(urlField', "query", e + 1, e + 1)
      BY <1>2, <1>4, <1>8 DEF Is
    <3>6. Is(urlField', "fragment", e + 1, e + 1)
      BY <1>2, <1>4, <1>8 DEF Is
    <3>. QED
      BY <3>1, <3>2, <3>3, <3>4, <3>5, <3>6
  <2>2. Slashes(a, b)'
    <3>1. Slashes(a, b)
      BY <1>0 DEF Outer
    <3>. QED
      BY <1>2, <3>1, SlashesGrow DEF UrlReads
  <2>3. (e + 1 = d /\ e + 1 = d) \/ (e + 1 = d + 1 /\ urlRead'[d] = "?")
    BY <1>1, <1>3, <1>4
  <2>4. Over(c, d, Url!UrlChar)'
    <3>1. Over(c, d, Url!UrlChar)
      BY <1>0 DEF Outer
    <3>2. 1 <= c /\ d <= Behind
      BY <1>2
    <3>. QED
      BY <3>1, <3>2, OverGrows DEF UrlReads
  <2>5. Over(e + 1, e + 1, Url!UrlChar \cup {"?"})'
    BY DEF Over
  <2>6. Over(e + 1, e + 1, {"#"})'
    BY DEF Over
  <2>7. /\ a \in Nat /\ b \in Nat /\ c \in Nat /\ d \in Nat
        /\ e + 1 \in Nat /\ e + 1 \in Nat /\ e + 1 \in Nat
        /\ 1 <= a /\ a <= b /\ b <= c /\ c <= d
        /\ d <= e + 1 /\ e + 1 <= e + 1 /\ e + 1 <= e + 1 /\ e + 1 <= e + 1
    BY <1>2, <1>4
  <2>. QED
    BY <1>1, <2>1, <2>2, <2>3, <2>4, <2>5, <2>6, <2>7 DEF Outer
<1>10. Stage(a, b, c, d, e + 1, e + 1, e + 1)'
  <2>1. \A t \in Url!Fields : lastField' = t => urlField'[t].len > 0
    BY <1>0, <1>8 DEF Stage
  <2>2. urlState' = n
    BY DEF UrlReads
  <2>. QED
    BY <1>0, <1>1, <1>2, <1>4, <1>5, <1>8, <2>1, <2>2 DEF Stage, AllSlashes, Url!Uf
<1>11. /\ Is(urlField', "server", b, c)
       /\ Is(urlField', "userinfo", b, b) /\ Is(urlField', "port", c, c)
  <2>1. Is(urlField, "server", b, c)
    BY DEF Laid
  <2>2. Is(urlField', "server", b, c)
    BY <1>8, <2>1 DEF Is
  <2>3. Is(urlField', "userinfo", b, b)
    BY <1>2, <1>4, <1>8 DEF Is
  <2>4. Is(urlField', "port", c, c)
    BY <1>2, <1>4, <1>8 DEF Is
  <2>. QED
    BY <2>1, <2>2, <2>3, <2>4
<1>12. UrlTyped'
  <2>1. urlRead' \in Seq(UrlChars)
    BY DEF UrlTyped, UrlReads
  <2>2. urlState' = n
    BY DEF UrlReads
  <2>. QED
    BY <1>5, <1>8, <2>1, <2>2 DEF UrlTyped, UrlReads
<1>. QED
  BY <1>9, <1>10, <1>11, <1>12 DEF Laid

LEMMA ReadsQuery ==
  ASSUME UrlTyped, NEW ch \in UrlChars, NEW n, UrlReads(ch, n), NEW e \in Nat, e = Behind,
         NEW a \in Nat, NEW b \in Nat, NEW c \in Nat, NEW d \in Nat, NEW q \in Nat,
         NEW g \in Nat, NEW k \in Nat, Laid(a, b, c, d, q, g, k), n = "query"
  PROVE  Laid(a, b, c, d, q, e + 1, e + 1)' /\ UrlTyped'
<1>. USE UrlLen
<1>0. Outer(a, b, c, d, q, g, k) /\ Stage(a, b, c, d, q, g, k)
  BY DEF Laid
<1>1. Behind' = e + 1 /\ urlRead'[e] = ch /\ \A m \in 1..(e - 1) : urlRead'[m] = urlRead[m]
  BY UrlGrows DEF UrlReads
<1>2. /\ 1 <= a /\ a <= b /\ b <= c /\ c <= d /\ d <= q /\ q <= g /\ g <= k /\ k <= e
      /\ urlField["server"].len = c - b /\ urlField["userinfo"].len = 0 /\ urlField["port"].len = 0
      /\ urlField["schema"].len = a - 1 /\ urlField["path"].len = d - c
      /\ urlField["query"].len = g - q /\ urlField["fragment"].len = e - k
  BY <1>0 DEF Outer, Is, Laid
<1>3. urlState \in {"query_start", "query"} /\ ch \in Url!UrlChar \cup {"?"}
  BY UrlSteps DEF Servers, UrlReads
<1>4. /\ g = e /\ k = e /\ AllSlashes(a, b) /\ q = d + 1 /\ (urlState = "query_start" => q = e)
      /\ (urlState = "query" => g > q)
  BY <1>0, <1>2, <1>3 DEF Stage, Servers, AllSlashes, Slashes, Outer
<1>5. Url!Uf(n) = "query" /\ n \notin Url!Delimiters /\ n \in UrlStates
  BY DEF Url!Uf, Url!Delimiters, UrlStates
<1>6. lastField = "query" <=> e > q
  BY <1>0, <1>2, <1>3, <1>4, FieldNames DEF Stage, Url!Uf, Servers
<1>7. Is(urlField, "query", q, Behind)
  BY <1>0, <1>2, <1>4 DEF Laid, Outer
<1>8. /\ Is(urlField', "query", q, e + 1) /\ urlField'["query"].len > 0 /\ lastField' = "query"
      /\ urlField'["schema"] = urlField["schema"] /\ urlField'["server"] = urlField["server"]
      /\ urlField'["port"] = urlField["port"] /\ urlField'["path"] = urlField["path"]
      /\ urlField'["fragment"] = urlField["fragment"]
      /\ urlField'["userinfo"] = urlField["userinfo"]
      /\ urlField' \in [Url!Fields -> [off : Nat, len : Nat]]
  <2>1. urlField' = Url!GrowField("query") /\ lastField' = "query"
    BY <1>5 DEF UrlReads
  <2>2. q <= Behind
    BY <1>2
  <2>3. /\ Is(Url!GrowField("query"), "query", q, Behind + 1)
        /\ \A r \in Url!Fields : r # "query" => Url!GrowField("query")[r] = urlField[r]
        /\ Url!GrowField("query")["query"].len > 0
        /\ Url!GrowField("query") \in [Url!Fields -> [off : Nat, len : Nat]]
    BY <1>6, <1>7, <2>2, FieldGrows, FieldNames
  <2>. QED
    BY <2>1, <2>3, FieldNames
<1>9. Outer(a, b, c, d, q, e + 1, e + 1)'
  <2>1. /\ Is(urlField', "schema", 1, a) /\ Is(urlField', "path", c, d)
        /\ Is(urlField', "query", q, e + 1) /\ Is(urlField', "fragment", e + 1, e + 1)
    <3>1. Is(urlField, "schema", 1, a)
      BY <1>0 DEF Outer
    <3>2. Is(urlField', "schema", 1, a)
      BY <1>8, <3>1 DEF Is
    <3>3. Is(urlField, "path", c, d)
      BY <1>0 DEF Outer
    <3>4. Is(urlField', "path", c, d)
      BY <1>8, <3>3 DEF Is
    <3>5. Is(urlField', "query", q, e + 1)
      BY <1>8
    <3>6. Is(urlField', "fragment", e + 1, e + 1)
      BY <1>2, <1>4, <1>8 DEF Is
    <3>. QED
      BY <3>1, <3>2, <3>3, <3>4, <3>5, <3>6
  <2>2. Slashes(a, b)'
    <3>1. Slashes(a, b)
      BY <1>0 DEF Outer
    <3>. QED
      BY <1>2, <3>1, SlashesGrow DEF UrlReads
  <2>3. (q = d /\ e + 1 = d) \/ (q = d + 1 /\ urlRead'[d] = "?")
    <3>1. urlRead[d] = "?"
      BY <1>0, <1>4 DEF Outer
    <3>. QED
      BY <1>1, <1>2, <1>4, <3>1
  <2>4. Over(c, d, Url!UrlChar)'
    <3>1. Over(c, d, Url!UrlChar)
      BY <1>0 DEF Outer
    <3>2. 1 <= c /\ d <= Behind
      BY <1>2
    <3>. QED
      BY <3>1, <3>2, OverGrows DEF UrlReads
  <2>5. Over(q, e + 1, Url!UrlChar \cup {"?"})'
    <3>1. Over(q, g, Url!UrlChar \cup {"?"})
      BY <1>0 DEF Outer
    <3>2. g = Behind /\ 1 <= q /\ ch \in Url!UrlChar \cup {"?"}
      BY <1>2, <1>3, <1>4
    <3>. QED
      BY <1>4, <3>1, <3>2, OverGrows DEF UrlReads
  <2>6. Over(e + 1, e + 1, {"#"})'
    BY DEF Over
  <2>7. /\ a \in Nat /\ b \in Nat /\ c \in Nat /\ d \in Nat
        /\ q \in Nat /\ e + 1 \in Nat /\ e + 1 \in Nat
        /\ 1 <= a /\ a <= b /\ b <= c /\ c <= d
        /\ d <= q /\ q <= e + 1 /\ e + 1 <= e + 1 /\ e + 1 <= e + 1
    BY <1>2, <1>4
  <2>. QED
    BY <1>1, <2>1, <2>2, <2>3, <2>4, <2>5, <2>6, <2>7 DEF Outer
<1>10. Stage(a, b, c, d, q, e + 1, e + 1)'
  <2>1. \A t \in Url!Fields : lastField' = t => urlField'[t].len > 0
    BY <1>0, <1>8 DEF Stage
  <2>2. urlState' = n
    BY DEF UrlReads
  <2>. QED
    BY <1>0, <1>1, <1>2, <1>4, <1>5, <1>8, <2>1, <2>2 DEF Stage, AllSlashes, Url!Uf
<1>11. /\ Is(urlField', "server", b, c)
       /\ Is(urlField', "userinfo", b, b) /\ Is(urlField', "port", c, c)
  <2>1. Is(urlField, "server", b, c)
    BY DEF Laid
  <2>2. Is(urlField', "server", b, c)
    BY <1>8, <2>1 DEF Is
  <2>3. Is(urlField', "userinfo", b, b)
    BY <1>2, <1>4, <1>8 DEF Is
  <2>4. Is(urlField', "port", c, c)
    BY <1>2, <1>4, <1>8 DEF Is
  <2>. QED
    BY <2>1, <2>2, <2>3, <2>4
<1>12. UrlTyped'
  <2>1. urlRead' \in Seq(UrlChars)
    BY DEF UrlTyped, UrlReads
  <2>2. urlState' = n
    BY DEF UrlReads
  <2>. QED
    BY <1>5, <1>8, <2>1, <2>2 DEF UrlTyped, UrlReads
<1>. QED
  BY <1>9, <1>10, <1>11, <1>12 DEF Laid

LEMMA ReadsFragmentStart ==
  ASSUME UrlTyped, NEW ch \in UrlChars, NEW n, UrlReads(ch, n), NEW e \in Nat, e = Behind,
         NEW a \in Nat, NEW b \in Nat, NEW c \in Nat, NEW d \in Nat, NEW q \in Nat,
         NEW g \in Nat, NEW k \in Nat, Laid(a, b, c, d, q, g, k), n = "fragment_start"
  PROVE  Laid(a, b, c, d, q, g, e + 1)' /\ UrlTyped'
<1>. USE UrlLen
<1>0. Outer(a, b, c, d, q, g, k) /\ Stage(a, b, c, d, q, g, k)
  BY DEF Laid
<1>1. Behind' = e + 1 /\ urlRead'[e] = ch /\ \A m \in 1..(e - 1) : urlRead'[m] = urlRead[m]
  BY UrlGrows DEF UrlReads
<1>2. /\ 1 <= a /\ a <= b /\ b <= c /\ c <= d /\ d <= q /\ q <= g /\ g <= k /\ k <= e
      /\ urlField["server"].len = c - b /\ urlField["userinfo"].len = 0 /\ urlField["port"].len = 0
      /\ urlField["schema"].len = a - 1 /\ urlField["path"].len = d - c
      /\ urlField["query"].len = g - q /\ urlField["fragment"].len = e - k
  BY <1>0 DEF Outer, Is, Laid
<1>3. urlState \in {"path", "query_start", "query", "fragment_start"} /\ ch = "#"
  BY UrlSteps DEF Servers, UrlReads
<1>4. k = e /\ AllSlashes(a, b)
  BY <1>0, <1>2, <1>3 DEF Stage, Servers, AllSlashes, Slashes, Outer
<1>5. n \in Url!Delimiters /\ n \in UrlStates
  BY DEF Url!Delimiters, UrlStates
<1>8. /\ lastField' = lastField /\ urlField' = urlField
      /\ urlField' \in [Url!Fields -> [off : Nat, len : Nat]]
  BY <1>5 DEF UrlTyped, UrlReads
<1>9. Outer(a, b, c, d, q, g, e + 1)'
  <2>1. /\ Is(urlField', "schema", 1, a) /\ Is(urlField', "path", c, d)
        /\ Is(urlField', "query", q, g) /\ Is(urlField', "fragment", e + 1, e + 1)
    <3>1. Is(urlField, "schema", 1, a)
      BY <1>0 DEF Outer
    <3>2. Is(urlField', "schema", 1, a)
      BY <1>8, <3>1 DEF Is
    <3>3. Is(urlField, "path", c, d)
      BY <1>0 DEF Outer
    <3>4. Is(urlField', "path", c, d)
      BY <1>8, <3>3 DEF Is
    <3>5. Is(urlField, "query", q, g)
      BY <1>0 DEF Outer
    <3>6. Is(urlField', "query", q, g)
      BY <1>8, <3>5 DEF Is
    <3>7. Is(urlField', "fragment", e + 1, e + 1)
      BY <1>2, <1>4, <1>8 DEF Is
    <3>. QED
      BY <3>1, <3>2, <3>3, <3>4, <3>5, <3>6, <3>7
  <2>2. Slashes(a, b)'
    <3>1. Slashes(a, b)
      BY <1>0 DEF Outer
    <3>. QED
      BY <1>2, <3>1, SlashesGrow DEF UrlReads
  <2>3. (q = d /\ g = d) \/ (q = d + 1 /\ urlRead'[d] = "?")
    <3>1. (q = d /\ g = d) \/ (q = d + 1 /\ urlRead[d] = "?")
      BY <1>0 DEF Outer
    <3>2. q = d + 1 => d \in 1..(e - 1)
      BY <1>2
    <3>. QED
      BY <1>1, <3>1, <3>2
  <2>4. Over(c, d, Url!UrlChar)'
    <3>1. Over(c, d, Url!UrlChar)
      BY <1>0 DEF Outer
    <3>2. 1 <= c /\ d <= Behind
      BY <1>2
    <3>. QED
      BY <3>1, <3>2, OverGrows DEF UrlReads
  <2>5. Over(q, g, Url!UrlChar \cup {"?"})'
    <3>1. Over(q, g, Url!UrlChar \cup {"?"})
      BY <1>0 DEF Outer
    <3>2. 1 <= q /\ g <= Behind
      BY <1>2
    <3>. QED
      BY <3>1, <3>2, OverGrows DEF UrlReads
  <2>6. Over(g, e + 1, {"#"})'
    <3>1. Over(g, k, {"#"})
      BY <1>0 DEF Outer
    <3>2. k = Behind /\ 1 <= g /\ ch \in {"#"}
      BY <1>2, <1>3, <1>4
    <3>. QED
      BY <1>4, <3>1, <3>2, OverGrows DEF UrlReads
  <2>7. /\ a \in Nat /\ b \in Nat /\ c \in Nat /\ d \in Nat
        /\ q \in Nat /\ g \in Nat /\ e + 1 \in Nat
        /\ 1 <= a /\ a <= b /\ b <= c /\ c <= d
        /\ d <= q /\ q <= g /\ g <= e + 1 /\ e + 1 <= e + 1
    BY <1>2, <1>4
  <2>. QED
    BY <1>1, <2>1, <2>2, <2>3, <2>4, <2>5, <2>6, <2>7 DEF Outer
<1>10. Stage(a, b, c, d, q, g, e + 1)'
  <2>1. \A t \in Url!Fields : lastField' = t => urlField'[t].len > 0
    BY <1>0, <1>8 DEF Stage
  <2>2. urlState' = n
    BY DEF UrlReads
  <2>. QED
    BY <1>0, <1>1, <1>2, <1>4, <1>5, <1>8, <2>1, <2>2 DEF Stage, AllSlashes, Url!Uf
<1>11. /\ Is(urlField', "server", b, c)
       /\ Is(urlField', "userinfo", b, b) /\ Is(urlField', "port", c, c)
  <2>1. Is(urlField, "server", b, c)
    BY DEF Laid
  <2>2. Is(urlField', "server", b, c)
    BY <1>8, <2>1 DEF Is
  <2>3. Is(urlField', "userinfo", b, b)
    BY <1>2, <1>4, <1>8 DEF Is
  <2>4. Is(urlField', "port", c, c)
    BY <1>2, <1>4, <1>8 DEF Is
  <2>. QED
    BY <2>1, <2>2, <2>3, <2>4
<1>12. UrlTyped'
  <2>1. urlRead' \in Seq(UrlChars)
    BY DEF UrlTyped, UrlReads
  <2>2. urlState' = n
    BY DEF UrlReads
  <2>. QED
    BY <1>5, <1>8, <2>1, <2>2 DEF UrlTyped, UrlReads
<1>. QED
  BY <1>9, <1>10, <1>11, <1>12 DEF Laid

LEMMA ReadsFragment ==
  ASSUME UrlTyped, NEW ch \in UrlChars, NEW n, UrlReads(ch, n), NEW e \in Nat, e = Behind,
         NEW a \in Nat, NEW b \in Nat, NEW c \in Nat, NEW d \in Nat, NEW q \in Nat,
         NEW g \in Nat, NEW k \in Nat, Laid(a, b, c, d, q, g, k), n = "fragment"
  PROVE  Laid(a, b, c, d, q, g, k)' /\ UrlTyped'
<1>. USE UrlLen
<1>0. Outer(a, b, c, d, q, g, k) /\ Stage(a, b, c, d, q, g, k)
  BY DEF Laid
<1>1. Behind' = e + 1 /\ urlRead'[e] = ch /\ \A m \in 1..(e - 1) : urlRead'[m] = urlRead[m]
  BY UrlGrows DEF UrlReads
<1>2. /\ 1 <= a /\ a <= b /\ b <= c /\ c <= d /\ d <= q /\ q <= g /\ g <= k /\ k <= e
      /\ urlField["server"].len = c - b /\ urlField["userinfo"].len = 0 /\ urlField["port"].len = 0
      /\ urlField["schema"].len = a - 1 /\ urlField["path"].len = d - c
      /\ urlField["query"].len = g - q /\ urlField["fragment"].len = e - k
  BY <1>0 DEF Outer, Is, Laid
<1>3. urlState \in {"fragment_start", "fragment"}
  BY UrlSteps DEF Servers, UrlReads
<1>4. AllSlashes(a, b) /\ (urlState # "fragment" => k = e) /\ (urlState = "fragment" => e > k)
  BY <1>0, <1>2, <1>3 DEF Stage, Servers, AllSlashes, Slashes, Outer
<1>5. Url!Uf(n) = "fragment" /\ n \notin Url!Delimiters /\ n \in UrlStates
  BY DEF Url!Uf, Url!Delimiters, UrlStates
<1>6. lastField = "fragment" <=> e > k
  BY <1>0, <1>2, <1>3, <1>4, FieldNames DEF Stage, Url!Uf, Servers
<1>7. Is(urlField, "fragment", k, Behind)
  BY <1>0, <1>2, <1>4 DEF Laid, Outer
<1>8. /\ Is(urlField', "fragment", k, e + 1) /\ urlField'["fragment"].len > 0
      /\ lastField' = "fragment"
      /\ urlField'["schema"] = urlField["schema"] /\ urlField'["server"] = urlField["server"]
      /\ urlField'["port"] = urlField["port"] /\ urlField'["path"] = urlField["path"]
      /\ urlField'["query"] = urlField["query"] /\ urlField'["userinfo"] = urlField["userinfo"]
      /\ urlField' \in [Url!Fields -> [off : Nat, len : Nat]]
  <2>1. urlField' = Url!GrowField("fragment") /\ lastField' = "fragment"
    BY <1>5 DEF UrlReads
  <2>2. k <= Behind
    BY <1>2
  <2>3. /\ Is(Url!GrowField("fragment"), "fragment", k, Behind + 1)
        /\ \A r \in Url!Fields : r # "fragment" => Url!GrowField("fragment")[r] = urlField[r]
        /\ Url!GrowField("fragment")["fragment"].len > 0
        /\ Url!GrowField("fragment") \in [Url!Fields -> [off : Nat, len : Nat]]
    BY <1>6, <1>7, <2>2, FieldGrows, FieldNames
  <2>. QED
    BY <2>1, <2>3, FieldNames
<1>9. Outer(a, b, c, d, q, g, k)'
  <2>1. /\ Is(urlField', "schema", 1, a) /\ Is(urlField', "path", c, d)
        /\ Is(urlField', "query", q, g) /\ Is(urlField', "fragment", k, e + 1)
    <3>1. Is(urlField, "schema", 1, a)
      BY <1>0 DEF Outer
    <3>2. Is(urlField', "schema", 1, a)
      BY <1>8, <3>1 DEF Is
    <3>3. Is(urlField, "path", c, d)
      BY <1>0 DEF Outer
    <3>4. Is(urlField', "path", c, d)
      BY <1>8, <3>3 DEF Is
    <3>5. Is(urlField, "query", q, g)
      BY <1>0 DEF Outer
    <3>6. Is(urlField', "query", q, g)
      BY <1>8, <3>5 DEF Is
    <3>7. Is(urlField', "fragment", k, e + 1)
      BY <1>8
    <3>. QED
      BY <3>1, <3>2, <3>3, <3>4, <3>5, <3>6, <3>7
  <2>2. Slashes(a, b)'
    <3>1. Slashes(a, b)
      BY <1>0 DEF Outer
    <3>. QED
      BY <1>2, <3>1, SlashesGrow DEF UrlReads
  <2>3. (q = d /\ g = d) \/ (q = d + 1 /\ urlRead'[d] = "?")
    <3>1. (q = d /\ g = d) \/ (q = d + 1 /\ urlRead[d] = "?")
      BY <1>0 DEF Outer
    <3>2. q = d + 1 => d \in 1..(e - 1)
      BY <1>2
    <3>. QED
      BY <1>1, <3>1, <3>2
  <2>4. Over(c, d, Url!UrlChar)'
    <3>1. Over(c, d, Url!UrlChar)
      BY <1>0 DEF Outer
    <3>2. 1 <= c /\ d <= Behind
      BY <1>2
    <3>. QED
      BY <3>1, <3>2, OverGrows DEF UrlReads
  <2>5. Over(q, g, Url!UrlChar \cup {"?"})'
    <3>1. Over(q, g, Url!UrlChar \cup {"?"})
      BY <1>0 DEF Outer
    <3>2. 1 <= q /\ g <= Behind
      BY <1>2
    <3>. QED
      BY <3>1, <3>2, OverGrows DEF UrlReads
  <2>6. Over(g, k, {"#"})'
    <3>1. Over(g, k, {"#"})
      BY <1>0 DEF Outer
    <3>2. 1 <= g /\ k <= Behind
      BY <1>2
    <3>. QED
      BY <3>1, <3>2, OverGrows DEF UrlReads
  <2>7. /\ a \in Nat /\ b \in Nat /\ c \in Nat /\ d \in Nat
        /\ q \in Nat /\ g \in Nat /\ k \in Nat
        /\ 1 <= a /\ a <= b /\ b <= c /\ c <= d
        /\ d <= q /\ q <= g /\ g <= k /\ k <= e + 1
    BY <1>2, <1>4
  <2>. QED
    BY <1>1, <2>1, <2>2, <2>3, <2>4, <2>5, <2>6, <2>7 DEF Outer
<1>10. Stage(a, b, c, d, q, g, k)'
  <2>1. \A t \in Url!Fields : lastField' = t => urlField'[t].len > 0
    BY <1>0, <1>8 DEF Stage
  <2>2. urlState' = n
    BY DEF UrlReads
  <2>. QED
    BY <1>0, <1>1, <1>2, <1>4, <1>5, <1>8, <2>1, <2>2 DEF Stage, AllSlashes, Url!Uf
<1>11. /\ Is(urlField', "server", b, c)
       /\ Is(urlField', "userinfo", b, b) /\ Is(urlField', "port", c, c)
  <2>1. Is(urlField, "server", b, c)
    BY DEF Laid
  <2>2. Is(urlField', "server", b, c)
    BY <1>8, <2>1 DEF Is
  <2>3. Is(urlField', "userinfo", b, b)
    BY <1>2, <1>4, <1>8 DEF Is
  <2>4. Is(urlField', "port", c, c)
    BY <1>2, <1>4, <1>8 DEF Is
  <2>. QED
    BY <2>1, <2>2, <2>3, <2>4
<1>12. UrlTyped'
  <2>1. urlRead' \in Seq(UrlChars)
    BY DEF UrlTyped, UrlReads
  <2>2. urlState' = n
    BY DEF UrlReads
  <2>. QED
    BY <1>5, <1>8, <2>1, <2>2 DEF UrlTyped, UrlReads
<1>. QED
  BY <1>9, <1>10, <1>11, <1>12 DEF Laid

-----------------------------------------------------------------------------
(* The second scan                                                         *)

(* The second scan reads the next character and goes to n.                 *)
HostReads(n) ==
  /\ n = Url!HostStep(hostState, urlRead[hostAt]) /\ n # "dead" /\ hostState \in HostStates
  /\ hostState' = n /\ hostAt' = hostAt + 1 /\ urlField' = Url!GrowHost(n)
  /\ UNCHANGED <<urlRead, forConnect, urlState, lastField, atFound, hostEnd, urlResult, urlPort>>

(* From which states, with which characters, each state is entered.        *)
LEMMA HostReadsFrom ==
  ASSUME NEW n, HostReads(n)
  PROVE  /\ n = "userinfo" => hostState \in {"userinfo_start", "userinfo"}
         /\ n = "host_start"
              => hostState \in {"userinfo_start", "userinfo"} /\ urlRead[hostAt] = "@"
         /\ n = "host" => hostState \in {"host_start", "host"} /\ urlRead[hostAt] \in HostText
         /\ n = "v6_start" => hostState = "host_start" /\ urlRead[hostAt] = "["
         /\ n = "v6" => hostState \in {"v6_start", "v6"} /\ urlRead[hostAt] \in HostText
         /\ n = "zone_start" => hostState = "v6" /\ urlRead[hostAt] \in HostText
         /\ n = "zone" => hostState \in {"zone_start", "zone"} /\ urlRead[hostAt] \in HostText
         /\ n = "v6_end" => hostState \in {"v6", "zone"} /\ urlRead[hostAt] = "]"
         /\ n = "port_start" => hostState \in {"host", "v6_end"} /\ urlRead[hostAt] = ":"
         /\ n = "port" => hostState \in {"port_start", "port"} /\ urlRead[hostAt] \in Url!Num
         /\ n \in HostStates /\ n # "userinfo_start"
<1>. USE DEF HostReads
<1>0. /\ Url!HostChar \subseteq HostText /\ Url!Hex \cup {":", "."} \subseteq HostText
      /\ Url!Alpha \cup Url!Num \cup {"%", "."} \subseteq HostText
  BY DEF HostText, Url!HostChar
<1>1. CASE hostState \in {"userinfo", "userinfo_start"}
  BY <1>1 DEF Url!HostStep, HostStates
<1>2. CASE hostState = "host_start"
  BY <1>0, <1>2 DEF Url!HostStep, HostStates
<1>3. CASE hostState = "host"
  BY <1>0, <1>3 DEF Url!HostStep, HostStates
<1>4. CASE hostState = "v6_end"
  BY <1>4 DEF Url!HostStep, HostStates
<1>5. CASE hostState \in {"v6", "v6_start"}
  <2>1. "%" \in HostText
    BY DEF HostText
  <2>. QED
    BY <1>0, <1>5, <2>1 DEF Url!HostStep, HostStates
<1>6. CASE hostState \in {"zone", "zone_start"}
  BY <1>0, <1>6 DEF Url!HostStep, HostStates
<1>7. CASE hostState \in {"port_start", "port"}
  BY <1>7 DEF Url!HostStep, HostStates
<1>. QED
  BY <1>1, <1>2, <1>3, <1>4, <1>5, <1>6, <1>7 DEF HostStates

(* A character more in the field that ends where the second scan is.       *)
LEMMA HostGrows ==
  ASSUME UrlTyped, NEW n, NEW uf \in Url!Fields, Url!HostField(n) = uf, NEW i \in Nat, i <= hostAt,
         Is(urlField, uf, i, hostAt),
         IF n # hostState /\ n \in {"host", "v6", "port", "userinfo"} THEN i = hostAt
         ELSE i < hostAt
  PROVE  /\ Is(Url!GrowHost(n), uf, i, hostAt + 1)
         /\ \A r \in Url!Fields : r # uf => Url!GrowHost(n)[r] = urlField[r]
         /\ Url!GrowHost(n) \in [Url!Fields -> [off : Nat, len : Nat]]
<1>0. uf # "none"
  BY DEF Url!Fields
<1>1. /\ urlField[uf].off \in Nat /\ urlField[uf].len \in Nat /\ hostAt \in Nat
      /\ urlField \in [Url!Fields -> [off : Nat, len : Nat]]
  BY DEF UrlTyped
<1>2. CASE n # hostState /\ n \in {"host", "v6", "port", "userinfo"}
  <2>1. Url!GrowHost(n) = [urlField EXCEPT ![uf] = [off |-> hostAt, len |-> 1]]
    BY <1>0, <1>2 DEF Url!GrowHost
  <2>2. Url!GrowHost(n)[uf] = [off |-> hostAt, len |-> 1]
    BY <1>1, <2>1
  <2>3. \A r \in Url!Fields : r # uf => Url!GrowHost(n)[r] = urlField[r]
    BY <1>1, <2>1
  <2>4. Url!GrowHost(n) \in [Url!Fields -> [off : Nat, len : Nat]]
    BY <1>1, <2>1
  <2>. QED
    BY <1>1, <1>2, <2>2, <2>3, <2>4 DEF Is
<1>3. CASE ~(n # hostState /\ n \in {"host", "v6", "port", "userinfo"})
  <2>1. Url!GrowHost(n) = [urlField EXCEPT ![uf].len = @ + 1]
    BY <1>0, <1>3 DEF Url!GrowHost
  <2>2. Url!GrowHost(n)[uf] = [off |-> urlField[uf].off, len |-> urlField[uf].len + 1]
    BY <1>1, <2>1
  <2>3. \A r \in Url!Fields : r # uf => Url!GrowHost(n)[r] = urlField[r]
    BY <1>1, <2>1
  <2>4. Url!GrowHost(n) \in [Url!Fields -> [off : Nat, len : Nat]]
    BY <1>1, <2>1
  <2>5. urlField[uf].off = i /\ urlField[uf].len = hostAt - i
    BY <1>1, <1>3 DEF Is
  <2>6. Url!GrowHost(n)[uf].len = hostAt + 1 - i /\ Url!GrowHost(n)[uf].off = i
    BY <1>1, <2>2, <2>5
  <2>. QED
    BY <1>1, <2>3, <2>4, <2>6 DEF Is
<1>. QED
  BY <1>2, <1>3

(* A state without a field leaves the fields alone.                        *)
LEMMA HostStays ==
  ASSUME UrlTyped, NEW n, Url!HostField(n) = "none"
  PROVE  Url!GrowHost(n) = urlField /\ Url!GrowHost(n) \in [Url!Fields -> [off : Nat, len : Nat]]
BY DEF UrlTyped, Url!GrowHost

LEMMA HostOver ==
  ASSUME NEW e \in Nat, e = hostAt, NEW i \in Nat, NEW S, urlRead' = urlRead,
         Over(i, e, S), urlRead[hostAt] \in S
  PROVE  Over(i, e + 1, S)'
<1>1. \A m \in i..(e + 1 - 1) : m = e \/ m \in i..(e - 1)
  OBVIOUS
<1>. QED
  BY <1>1 DEF Over

(* One lemma for each state the second scan goes to.                       *)
LEMMA HostUserinfo ==
  ASSUME UrlTyped, NEW n, HostReads(n), NEW e \in Nat, e = hostAt, NEW b \in Nat,
         NEW u \in Nat, NEW v \in Nat, NEW w \in Nat, NEW o \in Nat, NEW y \in Nat,
         NEW z \in Nat, Inner(b, e, u, v, w, o, y, z), HostStage(b, e, u, v, w, o, y, z),
         n = "userinfo"
  PROVE  /\ Inner(b, e + 1, e + 1, e + 1, e + 1, e + 1, e + 1, e + 1)'
         /\ HostStage(b, e + 1, e + 1, e + 1, e + 1, e + 1, e + 1, e + 1)'
         /\ Url!HostField(n) \in {"none", "userinfo", "server", "port"}
         /\ urlField' \in [Url!Fields -> [off : Nat, len : Nat]]
         /\ \A r \in Url!Fields \ {"userinfo", "server", "port"} : urlField'[r] = urlField[r]
<1>1. hostState' = n /\ urlRead' = urlRead /\ urlField' = Url!GrowHost(n) /\ n \in HostStates
  BY HostReadsFrom DEF HostReads
<1>2. /\ b <= u /\ u <= v /\ v <= w /\ w <= o /\ o <= y /\ y <= z /\ z <= e
      /\ urlField["userinfo"].len = u - b /\ urlField["server"].len = o - w
      /\ urlField["port"].len = e - z
  BY DEF Inner, Is
<1>3. hostState \in {"userinfo_start", "userinfo"}
  BY HostReadsFrom
<1>4. u = e /\ v = e /\ w = e /\ o = e /\ y = e /\ z = e
      /\ (hostState = "userinfo_start" => b = e) /\ (hostState = "userinfo" => b < e)
  BY <1>2, <1>3 DEF HostStage, Inner
<1>5. Url!HostField(n) = "userinfo"
  BY DEF Url!HostField
<1>6. Is(urlField, "userinfo", b, hostAt) /\ b <= hostAt
  BY <1>2, <1>4 DEF Inner
<1>7. IF n # hostState /\ n \in {"host", "v6", "port", "userinfo"} THEN b = hostAt ELSE b < hostAt
  BY <1>2, <1>3, <1>4
<1>8. /\ Is(urlField', "userinfo", b, e + 1) /\ urlField'["server"] = urlField["server"]
      /\ urlField'["port"] = urlField["port"]
      /\ urlField' \in [Url!Fields -> [off : Nat, len : Nat]]
      /\ \A r \in Url!Fields \ {"userinfo", "server", "port"} : urlField'[r] = urlField[r]
  BY <1>1, <1>5, <1>6, <1>7, HostGrows, FieldNames
<1>9. Inner(b, e + 1, e + 1, e + 1, e + 1, e + 1, e + 1, e + 1)'
  <2>1. Is(urlField', "userinfo", b, e + 1)
    BY <1>8
  <2>2. Is(urlField', "server", e + 1, e + 1)
    BY <1>2, <1>4, <1>8 DEF Is
  <2>3. Is(urlField', "port", e + 1, e + 1)
    BY <1>2, <1>4, <1>8 DEF Is
  <2>4. e + 1 = e + 1 \/ (e + 1 = e + 1 + 1 /\ urlRead'[e + 1] = "@")
    BY <1>1, <1>2, <1>3, <1>4 DEF Inner
  <2>5. e + 1 = e + 1 \/ (e + 1 = e + 1 + 1 /\ urlRead'[e + 1] = "[")
    BY <1>1, <1>2, <1>3, <1>4 DEF Inner
  <2>6. e + 1 = e + 1 \/ (e + 1 = e + 1 + 1 /\ urlRead'[e + 1] = "]")
    BY <1>1, <1>2, <1>3, <1>4 DEF Inner
  <2>7. (e + 1 = e + 1 /\ e + 1 = e + 1) \/ (e + 1 = e + 1 + 1 /\ urlRead'[e + 1] = ":")
    BY <1>1, <1>2, <1>3, <1>4 DEF Inner
  <2>8. Over(e + 1, e + 1, HostText)'
    BY DEF Over
  <2>9. Over(e + 1, e + 1, Url!Num)'
    BY DEF Over
  <2>10. /\ e + 1 \in Nat /\ e + 1 \in Nat /\ e + 1 \in Nat /\ e + 1 \in Nat
        /\ e + 1 \in Nat /\ e + 1 \in Nat
        /\ b <= e + 1 /\ e + 1 <= e + 1 /\ e + 1 <= e + 1 /\ e + 1 <= e + 1
        /\ e + 1 <= e + 1 /\ e + 1 <= e + 1 /\ e + 1 <= e + 1
    BY <1>2, <1>4
  <2>. QED
    BY <2>1, <2>2, <2>3, <2>4, <2>5, <2>6, <2>7, <2>8, <2>9, <2>10 DEF Inner
<1>10. HostStage(b, e + 1, e + 1, e + 1, e + 1, e + 1, e + 1, e + 1)'
  BY <1>1, <1>2, <1>3, <1>4 DEF HostStage, Inner
<1>. QED
  BY <1>5, <1>8, <1>9, <1>10

LEMMA HostHostStart ==
  ASSUME UrlTyped, NEW n, HostReads(n), NEW e \in Nat, e = hostAt, NEW b \in Nat,
         NEW u \in Nat, NEW v \in Nat, NEW w \in Nat, NEW o \in Nat, NEW y \in Nat,
         NEW z \in Nat, Inner(b, e, u, v, w, o, y, z), HostStage(b, e, u, v, w, o, y, z),
         n = "host_start"
  PROVE  /\ Inner(b, e + 1, e, e + 1, e + 1, e + 1, e + 1, e + 1)'
         /\ HostStage(b, e + 1, e, e + 1, e + 1, e + 1, e + 1, e + 1)'
         /\ Url!HostField(n) \in {"none", "userinfo", "server", "port"}
         /\ urlField' \in [Url!Fields -> [off : Nat, len : Nat]]
         /\ \A r \in Url!Fields \ {"userinfo", "server", "port"} : urlField'[r] = urlField[r]
<1>1. hostState' = n /\ urlRead' = urlRead /\ urlField' = Url!GrowHost(n) /\ n \in HostStates
  BY HostReadsFrom DEF HostReads
<1>2. /\ b <= u /\ u <= v /\ v <= w /\ w <= o /\ o <= y /\ y <= z /\ z <= e
      /\ urlField["userinfo"].len = u - b /\ urlField["server"].len = o - w
      /\ urlField["port"].len = e - z
  BY DEF Inner, Is
<1>3. hostState \in {"userinfo_start", "userinfo"} /\ urlRead[hostAt] = "@"
  BY HostReadsFrom
<1>4. u = e /\ v = e /\ w = e /\ o = e /\ y = e /\ z = e
  BY <1>2, <1>3 DEF HostStage, Inner
<1>5. Url!HostField(n) = "none"
  BY DEF Url!HostField
<1>8. urlField' = urlField /\ urlField' \in [Url!Fields -> [off : Nat, len : Nat]]
  BY <1>1, <1>5, HostStays
<1>9. Inner(b, e + 1, e, e + 1, e + 1, e + 1, e + 1, e + 1)'
  <2>1. Is(urlField, "userinfo", b, u) /\ u = e
    BY <1>2, <1>4 DEF Inner
  <2>2. Is(urlField', "userinfo", b, e)
    BY <1>8, <2>1 DEF Is
  <2>3. Is(urlField', "server", e + 1, e + 1)
    BY <1>2, <1>4, <1>8 DEF Is
  <2>4. Is(urlField', "port", e + 1, e + 1)
    BY <1>2, <1>4, <1>8 DEF Is
  <2>5. e + 1 = e \/ (e + 1 = e + 1 /\ urlRead'[e] = "@")
    BY <1>1, <1>2, <1>3, <1>4 DEF Inner
  <2>6. e + 1 = e + 1 \/ (e + 1 = e + 1 + 1 /\ urlRead'[e + 1] = "[")
    BY <1>1, <1>2, <1>3, <1>4 DEF Inner
  <2>7. e + 1 = e + 1 \/ (e + 1 = e + 1 + 1 /\ urlRead'[e + 1] = "]")
    BY <1>1, <1>2, <1>3, <1>4 DEF Inner
  <2>8. (e + 1 = e + 1 /\ e + 1 = e + 1) \/ (e + 1 = e + 1 + 1 /\ urlRead'[e + 1] = ":")
    BY <1>1, <1>2, <1>3, <1>4 DEF Inner
  <2>9. Over(e + 1, e + 1, HostText)'
    BY DEF Over
  <2>10. Over(e + 1, e + 1, Url!Num)'
    BY DEF Over
  <2>11. /\ e \in Nat /\ e + 1 \in Nat /\ e + 1 \in Nat /\ e + 1 \in Nat
        /\ e + 1 \in Nat /\ e + 1 \in Nat
        /\ b <= e /\ e <= e + 1 /\ e + 1 <= e + 1 /\ e + 1 <= e + 1
        /\ e + 1 <= e + 1 /\ e + 1 <= e + 1 /\ e + 1 <= e + 1
    BY <1>2, <1>4
  <2>. QED
    BY <2>1, <2>2, <2>3, <2>4, <2>5, <2>6, <2>7, <2>8, <2>9, <2>10, <2>11 DEF Inner
<1>10. HostStage(b, e + 1, e, e + 1, e + 1, e + 1, e + 1, e + 1)'
  BY <1>1, <1>2, <1>3, <1>4 DEF HostStage, Inner
<1>. QED
  BY <1>5, <1>8, <1>9, <1>10

LEMMA HostHost ==
  ASSUME UrlTyped, NEW n, HostReads(n), NEW e \in Nat, e = hostAt, NEW b \in Nat,
         NEW u \in Nat, NEW v \in Nat, NEW w \in Nat, NEW o \in Nat, NEW y \in Nat,
         NEW z \in Nat, Inner(b, e, u, v, w, o, y, z), HostStage(b, e, u, v, w, o, y, z),
         n = "host"
  PROVE  /\ Inner(b, e + 1, u, v, w, e + 1, e + 1, e + 1)'
         /\ HostStage(b, e + 1, u, v, w, e + 1, e + 1, e + 1)'
         /\ Url!HostField(n) \in {"none", "userinfo", "server", "port"}
         /\ urlField' \in [Url!Fields -> [off : Nat, len : Nat]]
         /\ \A r \in Url!Fields \ {"userinfo", "server", "port"} : urlField'[r] = urlField[r]
<1>1. hostState' = n /\ urlRead' = urlRead /\ urlField' = Url!GrowHost(n) /\ n \in HostStates
  BY HostReadsFrom DEF HostReads
<1>2. /\ b <= u /\ u <= v /\ v <= w /\ w <= o /\ o <= y /\ y <= z /\ z <= e
      /\ urlField["userinfo"].len = u - b /\ urlField["server"].len = o - w
      /\ urlField["port"].len = e - z
  BY DEF Inner, Is
<1>3. hostState \in {"host_start", "host"} /\ urlRead[hostAt] \in HostText
  BY HostReadsFrom
<1>4. /\ o = e /\ y = e /\ z = e /\ w = v /\ (hostState = "host_start" => w = e)
      /\ (hostState = "host" => w < e)
  BY <1>2, <1>3 DEF HostStage, Inner
<1>5. Url!HostField(n) = "server"
  BY DEF Url!HostField
<1>6. Is(urlField, "server", w, hostAt) /\ w <= hostAt
  BY <1>2, <1>4 DEF Inner
<1>7. IF n # hostState /\ n \in {"host", "v6", "port", "userinfo"} THEN w = hostAt ELSE w < hostAt
  BY <1>2, <1>3, <1>4
<1>8. /\ Is(urlField', "server", w, e + 1) /\ urlField'["userinfo"] = urlField["userinfo"]
      /\ urlField'["port"] = urlField["port"]
      /\ urlField' \in [Url!Fields -> [off : Nat, len : Nat]]
      /\ \A r \in Url!Fields \ {"userinfo", "server", "port"} : urlField'[r] = urlField[r]
  BY <1>1, <1>5, <1>6, <1>7, HostGrows, FieldNames
<1>9. Inner(b, e + 1, u, v, w, e + 1, e + 1, e + 1)'
  <2>1. Is(urlField, "userinfo", b, u)
    BY DEF Inner
  <2>2. Is(urlField', "userinfo", b, u)
    BY <1>8, <2>1 DEF Is
  <2>3. Is(urlField', "server", w, e + 1)
    BY <1>8
  <2>4. Is(urlField', "port", e + 1, e + 1)
    BY <1>2, <1>4, <1>8 DEF Is
  <2>5. v = u \/ (v = u + 1 /\ urlRead'[u] = "@")
    BY <1>1, <1>2, <1>3, <1>4 DEF Inner
  <2>6. w = v \/ (w = v + 1 /\ urlRead'[v] = "[")
    BY <1>1, <1>2, <1>3, <1>4 DEF Inner
  <2>7. e + 1 = e + 1 \/ (e + 1 = e + 1 + 1 /\ urlRead'[e + 1] = "]")
    BY <1>1, <1>2, <1>3, <1>4 DEF Inner
  <2>8. (e + 1 = e + 1 /\ e + 1 = e + 1) \/ (e + 1 = e + 1 + 1 /\ urlRead'[e + 1] = ":")
    BY <1>1, <1>2, <1>3, <1>4 DEF Inner
  <2>9. Over(w, e + 1, HostText)'
    <3>1. Over(w, e, HostText)
      BY <1>2, <1>4 DEF Inner
    <3>. QED
      BY <1>1, <1>3, <3>1, HostOver
  <2>10. Over(e + 1, e + 1, Url!Num)'
    BY DEF Over
  <2>11. /\ u \in Nat /\ v \in Nat /\ w \in Nat /\ e + 1 \in Nat
        /\ e + 1 \in Nat /\ e + 1 \in Nat
        /\ b <= u /\ u <= v /\ v <= w /\ w <= e + 1
        /\ e + 1 <= e + 1 /\ e + 1 <= e + 1 /\ e + 1 <= e + 1
    BY <1>2, <1>4
  <2>. QED
    BY <2>1, <2>2, <2>3, <2>4, <2>5, <2>6, <2>7, <2>8, <2>9, <2>10, <2>11 DEF Inner
<1>10. HostStage(b, e + 1, u, v, w, e + 1, e + 1, e + 1)'
  BY <1>1, <1>2, <1>3, <1>4 DEF HostStage, Inner
<1>. QED
  BY <1>5, <1>8, <1>9, <1>10

LEMMA HostV6Start ==
  ASSUME UrlTyped, NEW n, HostReads(n), NEW e \in Nat, e = hostAt, NEW b \in Nat,
         NEW u \in Nat, NEW v \in Nat, NEW w \in Nat, NEW o \in Nat, NEW y \in Nat,
         NEW z \in Nat, Inner(b, e, u, v, w, o, y, z), HostStage(b, e, u, v, w, o, y, z),
         n = "v6_start"
  PROVE  /\ Inner(b, e + 1, u, v, e + 1, e + 1, e + 1, e + 1)'
         /\ HostStage(b, e + 1, u, v, e + 1, e + 1, e + 1, e + 1)'
         /\ Url!HostField(n) \in {"none", "userinfo", "server", "port"}
         /\ urlField' \in [Url!Fields -> [off : Nat, len : Nat]]
         /\ \A r \in Url!Fields \ {"userinfo", "server", "port"} : urlField'[r] = urlField[r]
<1>1. hostState' = n /\ urlRead' = urlRead /\ urlField' = Url!GrowHost(n) /\ n \in HostStates
  BY HostReadsFrom DEF HostReads
<1>2. /\ b <= u /\ u <= v /\ v <= w /\ w <= o /\ o <= y /\ y <= z /\ z <= e
      /\ urlField["userinfo"].len = u - b /\ urlField["server"].len = o - w
      /\ urlField["port"].len = e - z
  BY DEF Inner, Is
<1>3. hostState \in {"host_start"} /\ urlRead[hostAt] = "["
  BY HostReadsFrom
<1>4. v = e /\ w = e /\ o = e /\ y = e /\ z = e
  BY <1>2, <1>3 DEF HostStage, Inner
<1>5. Url!HostField(n) = "none"
  BY DEF Url!HostField
<1>8. urlField' = urlField /\ urlField' \in [Url!Fields -> [off : Nat, len : Nat]]
  BY <1>1, <1>5, HostStays
<1>9. Inner(b, e + 1, u, v, e + 1, e + 1, e + 1, e + 1)'
  <2>1. Is(urlField, "userinfo", b, u)
    BY DEF Inner
  <2>2. Is(urlField', "userinfo", b, u)
    BY <1>8, <2>1 DEF Is
  <2>3. Is(urlField', "server", e + 1, e + 1)
    BY <1>2, <1>4, <1>8 DEF Is
  <2>4. Is(urlField', "port", e + 1, e + 1)
    BY <1>2, <1>4, <1>8 DEF Is
  <2>5. v = u \/ (v = u + 1 /\ urlRead'[u] = "@")
    BY <1>1, <1>2, <1>3, <1>4 DEF Inner
  <2>6. e + 1 = v \/ (e + 1 = v + 1 /\ urlRead'[v] = "[")
    BY <1>1, <1>2, <1>3, <1>4 DEF Inner
  <2>7. e + 1 = e + 1 \/ (e + 1 = e + 1 + 1 /\ urlRead'[e + 1] = "]")
    BY <1>1, <1>2, <1>3, <1>4 DEF Inner
  <2>8. (e + 1 = e + 1 /\ e + 1 = e + 1) \/ (e + 1 = e + 1 + 1 /\ urlRead'[e + 1] = ":")
    BY <1>1, <1>2, <1>3, <1>4 DEF Inner
  <2>9. Over(e + 1, e + 1, HostText)'
    BY DEF Over
  <2>10. Over(e + 1, e + 1, Url!Num)'
    BY DEF Over
  <2>11. /\ u \in Nat /\ v \in Nat /\ e + 1 \in Nat /\ e + 1 \in Nat
        /\ e + 1 \in Nat /\ e + 1 \in Nat
        /\ b <= u /\ u <= v /\ v <= e + 1 /\ e + 1 <= e + 1
        /\ e + 1 <= e + 1 /\ e + 1 <= e + 1 /\ e + 1 <= e + 1
    BY <1>2, <1>4
  <2>. QED
    BY <2>1, <2>2, <2>3, <2>4, <2>5, <2>6, <2>7, <2>8, <2>9, <2>10, <2>11 DEF Inner
<1>10. HostStage(b, e + 1, u, v, e + 1, e + 1, e + 1, e + 1)'
  BY <1>1, <1>2, <1>3, <1>4 DEF HostStage, Inner
<1>. QED
  BY <1>5, <1>8, <1>9, <1>10

LEMMA HostV6 ==
  ASSUME UrlTyped, NEW n, HostReads(n), NEW e \in Nat, e = hostAt, NEW b \in Nat,
         NEW u \in Nat, NEW v \in Nat, NEW w \in Nat, NEW o \in Nat, NEW y \in Nat,
         NEW z \in Nat, Inner(b, e, u, v, w, o, y, z), HostStage(b, e, u, v, w, o, y, z),
         n \in {"v6", "zone_start", "zone"}
  PROVE  /\ Inner(b, e + 1, u, v, w, e + 1, e + 1, e + 1)'
         /\ HostStage(b, e + 1, u, v, w, e + 1, e + 1, e + 1)'
         /\ Url!HostField(n) \in {"none", "userinfo", "server", "port"}
         /\ urlField' \in [Url!Fields -> [off : Nat, len : Nat]]
         /\ \A r \in Url!Fields \ {"userinfo", "server", "port"} : urlField'[r] = urlField[r]
<1>1. hostState' = n /\ urlRead' = urlRead /\ urlField' = Url!GrowHost(n) /\ n \in HostStates
  BY HostReadsFrom DEF HostReads
<1>2. /\ b <= u /\ u <= v /\ v <= w /\ w <= o /\ o <= y /\ y <= z /\ z <= e
      /\ urlField["userinfo"].len = u - b /\ urlField["server"].len = o - w
      /\ urlField["port"].len = e - z
  BY DEF Inner, Is
<1>3. hostState \in {"v6_start", "v6", "zone_start", "zone"} /\ urlRead[hostAt] \in HostText
      /\ (hostState = "v6_start" => n = "v6") /\ (n = "v6" => hostState \in {"v6_start", "v6"})
  BY HostReadsFrom
<1>4. /\ o = e /\ y = e /\ z = e /\ w = v + 1 /\ (hostState = "v6_start" => w = e)
      /\ (hostState # "v6_start" => w < e)
  BY <1>2, <1>3 DEF HostStage, Inner
<1>5. Url!HostField(n) = "server"
  BY DEF Url!HostField
<1>6. Is(urlField, "server", w, hostAt) /\ w <= hostAt
  BY <1>2, <1>4 DEF Inner
<1>7. IF n # hostState /\ n \in {"host", "v6", "port", "userinfo"} THEN w = hostAt ELSE w < hostAt
  BY <1>2, <1>3, <1>4
<1>8. /\ Is(urlField', "server", w, e + 1) /\ urlField'["userinfo"] = urlField["userinfo"]
      /\ urlField'["port"] = urlField["port"]
      /\ urlField' \in [Url!Fields -> [off : Nat, len : Nat]]
      /\ \A r \in Url!Fields \ {"userinfo", "server", "port"} : urlField'[r] = urlField[r]
  BY <1>1, <1>5, <1>6, <1>7, HostGrows, FieldNames
<1>9. Inner(b, e + 1, u, v, w, e + 1, e + 1, e + 1)'
  <2>1. Is(urlField, "userinfo", b, u)
    BY DEF Inner
  <2>2. Is(urlField', "userinfo", b, u)
    BY <1>8, <2>1 DEF Is
  <2>3. Is(urlField', "server", w, e + 1)
    BY <1>8
  <2>4. Is(urlField', "port", e + 1, e + 1)
    BY <1>2, <1>4, <1>8 DEF Is
  <2>5. v = u \/ (v = u + 1 /\ urlRead'[u] = "@")
    BY <1>1, <1>2, <1>3, <1>4 DEF Inner
  <2>6. w = v \/ (w = v + 1 /\ urlRead'[v] = "[")
    BY <1>1, <1>2, <1>3, <1>4 DEF Inner
  <2>7. e + 1 = e + 1 \/ (e + 1 = e + 1 + 1 /\ urlRead'[e + 1] = "]")
    BY <1>1, <1>2, <1>3, <1>4 DEF Inner
  <2>8. (e + 1 = e + 1 /\ e + 1 = e + 1) \/ (e + 1 = e + 1 + 1 /\ urlRead'[e + 1] = ":")
    BY <1>1, <1>2, <1>3, <1>4 DEF Inner
  <2>9. Over(w, e + 1, HostText)'
    <3>1. Over(w, e, HostText)
      BY <1>2, <1>4 DEF Inner
    <3>. QED
      BY <1>1, <1>3, <3>1, HostOver
  <2>10. Over(e + 1, e + 1, Url!Num)'
    BY DEF Over
  <2>11. /\ u \in Nat /\ v \in Nat /\ w \in Nat /\ e + 1 \in Nat
        /\ e + 1 \in Nat /\ e + 1 \in Nat
        /\ b <= u /\ u <= v /\ v <= w /\ w <= e + 1
        /\ e + 1 <= e + 1 /\ e + 1 <= e + 1 /\ e + 1 <= e + 1
    BY <1>2, <1>4
  <2>. QED
    BY <2>1, <2>2, <2>3, <2>4, <2>5, <2>6, <2>7, <2>8, <2>9, <2>10, <2>11 DEF Inner
<1>10. HostStage(b, e + 1, u, v, w, e + 1, e + 1, e + 1)'
  BY <1>1, <1>2, <1>3, <1>4 DEF HostStage, Inner
<1>. QED
  BY <1>5, <1>8, <1>9, <1>10

LEMMA HostV6End ==
  ASSUME UrlTyped, NEW n, HostReads(n), NEW e \in Nat, e = hostAt, NEW b \in Nat,
         NEW u \in Nat, NEW v \in Nat, NEW w \in Nat, NEW o \in Nat, NEW y \in Nat,
         NEW z \in Nat, Inner(b, e, u, v, w, o, y, z), HostStage(b, e, u, v, w, o, y, z),
         n = "v6_end"
  PROVE  /\ Inner(b, e + 1, u, v, w, o, e + 1, e + 1)'
         /\ HostStage(b, e + 1, u, v, w, o, e + 1, e + 1)'
         /\ Url!HostField(n) \in {"none", "userinfo", "server", "port"}
         /\ urlField' \in [Url!Fields -> [off : Nat, len : Nat]]
         /\ \A r \in Url!Fields \ {"userinfo", "server", "port"} : urlField'[r] = urlField[r]
<1>1. hostState' = n /\ urlRead' = urlRead /\ urlField' = Url!GrowHost(n) /\ n \in HostStates
  BY HostReadsFrom DEF HostReads
<1>2. /\ b <= u /\ u <= v /\ v <= w /\ w <= o /\ o <= y /\ y <= z /\ z <= e
      /\ urlField["userinfo"].len = u - b /\ urlField["server"].len = o - w
      /\ urlField["port"].len = e - z
  BY DEF Inner, Is
<1>3. hostState \in {"v6", "zone"} /\ urlRead[hostAt] = "]"
  BY HostReadsFrom
<1>4. o = e /\ y = e /\ z = e /\ w = v + 1 /\ o > w
  BY <1>2, <1>3 DEF HostStage, Inner
<1>5. Url!HostField(n) = "none"
  BY DEF Url!HostField
<1>8. urlField' = urlField /\ urlField' \in [Url!Fields -> [off : Nat, len : Nat]]
  BY <1>1, <1>5, HostStays
<1>9. Inner(b, e + 1, u, v, w, o, e + 1, e + 1)'
  <2>1. Is(urlField, "userinfo", b, u)
    BY DEF Inner
  <2>2. Is(urlField', "userinfo", b, u)
    BY <1>8, <2>1 DEF Is
  <2>3. Is(urlField, "server", w, o)
    BY DEF Inner
  <2>4. Is(urlField', "server", w, o)
    BY <1>8, <2>3 DEF Is
  <2>5. Is(urlField', "port", e + 1, e + 1)
    BY <1>2, <1>4, <1>8 DEF Is
  <2>6. v = u \/ (v = u + 1 /\ urlRead'[u] = "@")
    BY <1>1, <1>2, <1>3, <1>4 DEF Inner
  <2>7. w = v \/ (w = v + 1 /\ urlRead'[v] = "[")
    BY <1>1, <1>2, <1>3, <1>4 DEF Inner
  <2>8. e + 1 = o \/ (e + 1 = o + 1 /\ urlRead'[o] = "]")
    BY <1>1, <1>2, <1>3, <1>4 DEF Inner
  <2>9. (e + 1 = e + 1 /\ e + 1 = e + 1) \/ (e + 1 = e + 1 + 1 /\ urlRead'[e + 1] = ":")
    BY <1>1, <1>2, <1>3, <1>4 DEF Inner
  <2>10. Over(w, o, HostText)'
    BY <1>1 DEF Over, Inner
  <2>11. Over(e + 1, e + 1, Url!Num)'
    BY DEF Over
  <2>12. /\ u \in Nat /\ v \in Nat /\ w \in Nat /\ o \in Nat
        /\ e + 1 \in Nat /\ e + 1 \in Nat
        /\ b <= u /\ u <= v /\ v <= w /\ w <= o
        /\ o <= e + 1 /\ e + 1 <= e + 1 /\ e + 1 <= e + 1
    BY <1>2, <1>4
  <2>. QED
    BY <2>1, <2>2, <2>3, <2>4, <2>5, <2>6, <2>7, <2>8, <2>9, <2>10, <2>11, <2>12 DEF Inner
<1>10. HostStage(b, e + 1, u, v, w, o, e + 1, e + 1)'
  BY <1>1, <1>2, <1>3, <1>4 DEF HostStage, Inner
<1>. QED
  BY <1>5, <1>8, <1>9, <1>10

LEMMA HostPortStart ==
  ASSUME UrlTyped, NEW n, HostReads(n), NEW e \in Nat, e = hostAt, NEW b \in Nat,
         NEW u \in Nat, NEW v \in Nat, NEW w \in Nat, NEW o \in Nat, NEW y \in Nat,
         NEW z \in Nat, Inner(b, e, u, v, w, o, y, z), HostStage(b, e, u, v, w, o, y, z),
         n = "port_start"
  PROVE  /\ Inner(b, e + 1, u, v, w, o, y, e + 1)'
         /\ HostStage(b, e + 1, u, v, w, o, y, e + 1)'
         /\ Url!HostField(n) \in {"none", "userinfo", "server", "port"}
         /\ urlField' \in [Url!Fields -> [off : Nat, len : Nat]]
         /\ \A r \in Url!Fields \ {"userinfo", "server", "port"} : urlField'[r] = urlField[r]
<1>1. hostState' = n /\ urlRead' = urlRead /\ urlField' = Url!GrowHost(n) /\ n \in HostStates
  BY HostReadsFrom DEF HostReads
<1>2. /\ b <= u /\ u <= v /\ v <= w /\ w <= o /\ o <= y /\ y <= z /\ z <= e
      /\ urlField["userinfo"].len = u - b /\ urlField["server"].len = o - w
      /\ urlField["port"].len = e - z
  BY DEF Inner, Is
<1>3. hostState \in {"host", "v6_end"} /\ urlRead[hostAt] = ":"
  BY HostReadsFrom
<1>4. y = e /\ z = e /\ o > w /\ (w = v + 1 <=> y = o + 1)
  BY <1>2, <1>3 DEF HostStage, Inner
<1>5. Url!HostField(n) = "none"
  BY DEF Url!HostField
<1>8. urlField' = urlField /\ urlField' \in [Url!Fields -> [off : Nat, len : Nat]]
  BY <1>1, <1>5, HostStays
<1>9. Inner(b, e + 1, u, v, w, o, y, e + 1)'
  <2>1. Is(urlField, "userinfo", b, u)
    BY DEF Inner
  <2>2. Is(urlField', "userinfo", b, u)
    BY <1>8, <2>1 DEF Is
  <2>3. Is(urlField, "server", w, o)
    BY DEF Inner
  <2>4. Is(urlField', "server", w, o)
    BY <1>8, <2>3 DEF Is
  <2>5. Is(urlField', "port", e + 1, e + 1)
    BY <1>2, <1>4, <1>8 DEF Is
  <2>6. v = u \/ (v = u + 1 /\ urlRead'[u] = "@")
    BY <1>1, <1>2, <1>3, <1>4 DEF Inner
  <2>7. w = v \/ (w = v + 1 /\ urlRead'[v] = "[")
    BY <1>1, <1>2, <1>3, <1>4 DEF Inner
  <2>8. y = o \/ (y = o + 1 /\ urlRead'[o] = "]")
    BY <1>1, <1>2, <1>3, <1>4 DEF Inner
  <2>9. (e + 1 = y /\ e + 1 = y) \/ (e + 1 = y + 1 /\ urlRead'[y] = ":")
    BY <1>1, <1>2, <1>3, <1>4 DEF Inner
  <2>10. Over(w, o, HostText)'
    BY <1>1 DEF Over, Inner
  <2>11. Over(e + 1, e + 1, Url!Num)'
    BY DEF Over
  <2>12. /\ u \in Nat /\ v \in Nat /\ w \in Nat /\ o \in Nat
        /\ y \in Nat /\ e + 1 \in Nat
        /\ b <= u /\ u <= v /\ v <= w /\ w <= o
        /\ o <= y /\ y <= e + 1 /\ e + 1 <= e + 1
    BY <1>2, <1>4
  <2>. QED
    BY <2>1, <2>2, <2>3, <2>4, <2>5, <2>6, <2>7, <2>8, <2>9, <2>10, <2>11, <2>12 DEF Inner
<1>10. HostStage(b, e + 1, u, v, w, o, y, e + 1)'
  BY <1>1, <1>2, <1>3, <1>4 DEF HostStage, Inner
<1>. QED
  BY <1>5, <1>8, <1>9, <1>10

LEMMA HostPort ==
  ASSUME UrlTyped, NEW n, HostReads(n), NEW e \in Nat, e = hostAt, NEW b \in Nat,
         NEW u \in Nat, NEW v \in Nat, NEW w \in Nat, NEW o \in Nat, NEW y \in Nat,
         NEW z \in Nat, Inner(b, e, u, v, w, o, y, z), HostStage(b, e, u, v, w, o, y, z),
         n = "port"
  PROVE  /\ Inner(b, e + 1, u, v, w, o, y, z)'
         /\ HostStage(b, e + 1, u, v, w, o, y, z)'
         /\ Url!HostField(n) \in {"none", "userinfo", "server", "port"}
         /\ urlField' \in [Url!Fields -> [off : Nat, len : Nat]]
         /\ \A r \in Url!Fields \ {"userinfo", "server", "port"} : urlField'[r] = urlField[r]
<1>1. hostState' = n /\ urlRead' = urlRead /\ urlField' = Url!GrowHost(n) /\ n \in HostStates
  BY HostReadsFrom DEF HostReads
<1>2. /\ b <= u /\ u <= v /\ v <= w /\ w <= o /\ o <= y /\ y <= z /\ z <= e
      /\ urlField["userinfo"].len = u - b /\ urlField["server"].len = o - w
      /\ urlField["port"].len = e - z
  BY DEF Inner, Is
<1>3. hostState \in {"port_start", "port"} /\ urlRead[hostAt] \in Url!Num
  BY HostReadsFrom
<1>4. /\ z = y + 1 /\ o > w /\ (w = v + 1 <=> y = o + 1) /\ (hostState = "port_start" => z = e)
      /\ (hostState = "port" => z < e)
  BY <1>2, <1>3 DEF HostStage, Inner
<1>5. Url!HostField(n) = "port"
  BY DEF Url!HostField
<1>6. Is(urlField, "port", z, hostAt) /\ z <= hostAt
  BY <1>2, <1>4 DEF Inner
<1>7. IF n # hostState /\ n \in {"host", "v6", "port", "userinfo"} THEN z = hostAt ELSE z < hostAt
  BY <1>2, <1>3, <1>4
<1>8. /\ Is(urlField', "port", z, e + 1) /\ urlField'["userinfo"] = urlField["userinfo"]
      /\ urlField'["server"] = urlField["server"]
      /\ urlField' \in [Url!Fields -> [off : Nat, len : Nat]]
      /\ \A r \in Url!Fields \ {"userinfo", "server", "port"} : urlField'[r] = urlField[r]
  BY <1>1, <1>5, <1>6, <1>7, HostGrows, FieldNames
<1>9. Inner(b, e + 1, u, v, w, o, y, z)'
  <2>1. Is(urlField, "userinfo", b, u)
    BY DEF Inner
  <2>2. Is(urlField', "userinfo", b, u)
    BY <1>8, <2>1 DEF Is
  <2>3. Is(urlField, "server", w, o)
    BY DEF Inner
  <2>4. Is(urlField', "server", w, o)
    BY <1>8, <2>3 DEF Is
  <2>5. Is(urlField', "port", z, e + 1)
    BY <1>8
  <2>6. v = u \/ (v = u + 1 /\ urlRead'[u] = "@")
    BY <1>1, <1>2, <1>3, <1>4 DEF Inner
  <2>7. w = v \/ (w = v + 1 /\ urlRead'[v] = "[")
    BY <1>1, <1>2, <1>3, <1>4 DEF Inner
  <2>8. y = o \/ (y = o + 1 /\ urlRead'[o] = "]")
    BY <1>1, <1>2, <1>3, <1>4 DEF Inner
  <2>9. (z = y /\ e + 1 = y) \/ (z = y + 1 /\ urlRead'[y] = ":")
    BY <1>1, <1>2, <1>3, <1>4 DEF Inner
  <2>10. Over(w, o, HostText)'
    BY <1>1 DEF Over, Inner
  <2>11. Over(z, e + 1, Url!Num)'
    <3>1. Over(z, e, Url!Num)
      BY <1>2, <1>4 DEF Inner
    <3>. QED
      BY <1>1, <1>3, <3>1, HostOver
  <2>12. /\ u \in Nat /\ v \in Nat /\ w \in Nat /\ o \in Nat
        /\ y \in Nat /\ z \in Nat
        /\ b <= u /\ u <= v /\ v <= w /\ w <= o
        /\ o <= y /\ y <= z /\ z <= e + 1
    BY <1>2, <1>4
  <2>. QED
    BY <2>1, <2>2, <2>3, <2>4, <2>5, <2>6, <2>7, <2>8, <2>9, <2>10, <2>11, <2>12 DEF Inner
<1>10. HostStage(b, e + 1, u, v, w, o, y, z)'
  BY <1>1, <1>2, <1>3, <1>4 DEF HostStage, Inner
<1>. QED
  BY <1>5, <1>8, <1>9, <1>10

-----------------------------------------------------------------------------
(* The steps                                                               *)

(* An error leaves the fields that were found before within the URL.       *)
LEMMA StaysInRange ==
  ASSUME UrlTyped, NEW ch \in UrlChars, urlRead' \in {urlRead, Append(urlRead, ch)},
         \A t \in Url!Fields :
           urlField'[t].off = urlField[t].off /\ urlField'[t].len \in {urlField[t].len, 0},
         \E a, b, c, d, q, g, k \in Nat : Scanning(a, b, c, d, q, g, k)
  PROVE  InRange'
<1>1. InRange
  BY Ranges
<1>2. Len(urlRead) \in Nat /\ Len(urlRead') \in Nat /\ Len(urlRead) <= Len(urlRead')
  BY DEF UrlTyped
<1>. SUFFICES ASSUME NEW t \in Url!Fields, urlField'[t].len > 0
              PROVE  urlField'[t].off \in 1..Len(urlRead') /\ urlField'[t].len \in 1..Len(urlRead')
  BY DEF InRange, Url!Set
<1>3. urlField'[t].off = urlField[t].off /\ urlField'[t].len = urlField[t].len
  OBVIOUS
<1>4. urlField[t].off \in 1..Len(urlRead) /\ urlField[t].len \in 1..Len(urlRead)
  BY <1>1, <1>3 DEF InRange, Url!Set
<1>. QED
  BY <1>2, <1>3, <1>4

(* Each action keeps the invariant.                                        *)
LEMMA ScanStep == UrlInv /\ Url!Scan => UrlInv'
<1>. SUFFICES ASSUME UrlInv, Url!Scan PROVE UrlInv'
  OBVIOUS
<1>1. /\ UrlTyped /\ urlResult = "none" /\ hostState = "none" /\ urlState \in UrlStates
      /\ UNCHANGED <<forConnect, hostState, hostAt, hostEnd, urlPort>>
  BY DEF UrlInv, Url!Scan, UrlTyped
<1>2. PICK a \in Nat, b \in Nat, c \in Nat, d \in Nat, q \in Nat, g \in Nat, k \in Nat :
        Scanning(a, b, c, d, q, g, k)
  BY <1>1 DEF UrlInv
<1>3. Laid(a, b, c, d, q, g, k)
  BY <1>1, <1>2 DEF Scanning
<1>4. PICK ch \in UrlChars :
        LET t == Url!UrlStep(urlState, ch) IN
        /\ urlRead' = Append(urlRead, ch) /\ urlState' = t
        /\ urlResult' = IF t = "dead" THEN "error" ELSE "none"
        /\ IF t \in Url!Delimiters \cup {"dead"} THEN UNCHANGED <<urlField, lastField>>
           ELSE urlField' = Url!GrowField(Url!Uf(t)) /\ lastField' = Url!Uf(t)
  BY DEF Url!Scan
<1>. DEFINE n == Url!UrlStep(urlState, ch)
<1>5. CASE n = "dead"
  <2>1. urlResult' = "error" /\ urlRead' = Append(urlRead, ch) /\ UNCHANGED <<urlField, lastField>>
    BY <1>4, <1>5
  <2>2. UrlTyped'
    <3>1. urlRead' \in Seq(UrlChars)
      BY <1>1, <2>1 DEF UrlTyped
    <3>. QED
      BY <1>1, <2>1, <3>1 DEF UrlTyped
  <2>3. InRange'
    BY <1>1, <1>2, <2>1, StaysInRange
  <2>. QED
    BY <2>1, <2>2, <2>3 DEF UrlInv
<1>6. CASE n # "dead"
  <2>1. UrlReads(ch, n)
    BY <1>1, <1>4, <1>6 DEF UrlReads
  <2>2. urlResult' = "none" /\ hostState' = "none"
    BY <1>1, <1>4, <1>6
  <2>3. PICK e \in Nat : e = Behind
    BY <1>1, UrlLen
  <2>4. n \in (UrlStates \ {"spaces_before_url"})
    BY <1>1, <1>6, UrlSteps
  <2>. HIDE DEF n
  <2>5. e = Behind /\ e + 1 \in Nat
    BY <2>3
  <2>6. SUFFICES \E a2, b2, c2, d2, q2, g2, k2 \in Nat :
                   Laid(a2, b2, c2, d2, q2, g2, k2)' /\ UrlTyped'
    BY <2>2 DEF UrlInv, Scanning
  <2>7. CASE n = "schema"
    <3>1. Laid(e + 1, e + 1, e + 1, e + 1, e + 1, e + 1, e + 1)' /\ UrlTyped'
      BY <1>1, <1>3, <2>1, <2>3, <2>5, <2>7, ReadsSchema
    <3>. QED
      BY <2>5, <3>1
  <2>8. CASE n \in {"schema_slash", "schema_slash_slash", "server_start"}
    <3>1. Laid(a, e + 1, e + 1, e + 1, e + 1, e + 1, e + 1)' /\ UrlTyped'
      BY <1>1, <1>3, <2>1, <2>3, <2>5, <2>8, ReadsSlash
    <3>. QED
      BY <2>5, <3>1
  <2>9. CASE n \in {"server", "server_with_at"}
    <3>1. Laid(a, b, e + 1, e + 1, e + 1, e + 1, e + 1)' /\ UrlTyped'
      BY <1>1, <1>3, <2>1, <2>3, <2>5, <2>9, ReadsServer
    <3>. QED
      BY <2>5, <3>1
  <2>10. CASE n = "path"
    <3>1. Laid(a, b, c, e + 1, e + 1, e + 1, e + 1)' /\ UrlTyped'
      BY <1>1, <1>3, <2>1, <2>3, <2>5, <2>10, ReadsPath
    <3>. QED
      BY <2>5, <3>1
  <2>11. CASE n = "query_start"
    <3>1. Laid(a, b, c, d, e + 1, e + 1, e + 1)' /\ UrlTyped'
      BY <1>1, <1>3, <2>1, <2>3, <2>5, <2>11, ReadsQueryStart
    <3>. QED
      BY <2>5, <3>1
  <2>12. CASE n = "query"
    <3>1. Laid(a, b, c, d, q, e + 1, e + 1)' /\ UrlTyped'
      BY <1>1, <1>3, <2>1, <2>3, <2>5, <2>12, ReadsQuery
    <3>. QED
      BY <2>5, <3>1
  <2>13. CASE n = "fragment_start"
    <3>1. Laid(a, b, c, d, q, g, e + 1)' /\ UrlTyped'
      BY <1>1, <1>3, <2>1, <2>3, <2>5, <2>13, ReadsFragmentStart
    <3>. QED
      BY <2>5, <3>1
  <2>14. CASE n = "fragment"
    <3>1. Laid(a, b, c, d, q, g, k)' /\ UrlTyped'
      BY <1>1, <1>3, <2>1, <2>3, <2>5, <2>14, ReadsFragment
    <3>. QED
      BY <2>5, <3>1
  <2>. QED
    BY <2>4, <2>7, <2>8, <2>9, <2>10, <2>11, <2>12, <2>13, <2>14 DEF UrlStates
<1>. QED
  BY <1>5, <1>6

(* What the second scan leaves alone.                                      *)
LEMMA OuterStays ==
  ASSUME NEW a, NEW b, NEW c, NEW d, NEW q, NEW g, NEW k,
         Outer(a, b, c, d, q, g, k), urlRead' = urlRead,
         \A r \in Url!Fields \ {"userinfo", "server", "port"} : urlField'[r] = urlField[r]
  PROVE  Outer(a, b, c, d, q, g, k)'
<1>1. /\ urlField'["schema"] = urlField["schema"] /\ urlField'["path"] = urlField["path"]
      /\ urlField'["query"] = urlField["query"] /\ urlField'["fragment"] = urlField["fragment"]
  BY DEF Url!Fields
<1>2. /\ Is(urlField', "schema", 1, a) /\ Is(urlField', "path", c, d)
      /\ Is(urlField', "query", q, g) /\ Is(urlField', "fragment", k, Behind)
  BY <1>1 DEF Outer, Is
<1>3. Behind' = Behind
  BY DEF Behind
<1>4. Slashes(a, b)' /\ Over(c, d, Url!UrlChar)' /\ Over(q, g, Url!UrlChar \cup {"?"})'
      /\ Over(g, k, {"#"})'
  BY DEF Outer, Slashes, Over
<1>. QED
  BY <1>2, <1>3, <1>4 DEF Outer

LEMMA ScanEndsStep == UrlInv /\ Url!ScanEnds => UrlInv'
<1>. SUFFICES ASSUME UrlInv, Url!ScanEnds PROVE UrlInv'
  OBVIOUS
<1>1. /\ UrlTyped /\ urlResult = "none" /\ hostState = "none" /\ urlState \in UrlStates
      /\ UNCHANGED <<urlRead, forConnect, urlState, lastField, atFound, urlPort>>
      /\ urlField \in [Url!Fields -> [off : Nat, len : Nat]] /\ hostAt = hostEnd
  BY DEF UrlInv, Url!ScanEnds, UrlTyped
<1>2. PICK a \in Nat, b \in Nat, c \in Nat, d \in Nat, q \in Nat, g \in Nat, k \in Nat :
        Scanning(a, b, c, d, q, g, k)
  BY <1>1 DEF UrlInv
<1>3. /\ Laid(a, b, c, d, q, g, k) /\ Outer(a, b, c, d, q, g, k) /\ Stage(a, b, c, d, q, g, k)
      /\ Is(urlField, "server", b, c) /\ Is(urlField, "userinfo", b, b)
      /\ Is(urlField, "port", c, c)
      /\ a <= b /\ b <= c /\ c <= d /\ c <= Behind /\ urlField["schema"].len = a - 1
      /\ 1 <= a
  BY <1>1, <1>2, UrlLen DEF Scanning, Laid, Outer, Is
<1>4. CASE "server" \in Url!Set(urlField)
  <2>1. /\ hostState' \in {"userinfo_start", "host_start"} /\ hostAt' = urlField["server"].off
        /\ hostEnd' = urlField["server"].off + urlField["server"].len
        /\ urlField' = [urlField EXCEPT !["server"].len = 0] /\ urlResult' = "none"
    BY <1>1, <1>4 DEF Url!ScanEnds
  <2>2. c > b /\ urlField["server"].off = b /\ urlField["server"].len = c - b
    BY <1>3, <1>4, FieldNames DEF Url!Set, Is
  <2>3. hostAt' = b /\ hostEnd' = c
    BY <2>1, <2>2
  <2>4. /\ \A r \in Url!Fields \ {"server"} : urlField'[r] = urlField[r]
        /\ urlField'["server"].off = urlField["server"].off /\ urlField'["server"].len = 0
        /\ urlField' \in [Url!Fields -> [off : Nat, len : Nat]]
    BY <1>1, <2>1, FieldNames
  <2>5. AllSlashes(a, b)
    BY <1>1, <1>3, <2>2, UrlLen DEF Stage, UrlStates, Outer
  <2>6. Outer(a, b, c, d, q, g, k)'
    BY <1>1, <1>3, <2>4, OuterStays
  <2>7. Inner(b, b, b, b, b, b, b, b)'
    <3>1. /\ Is(urlField', "userinfo", b, b) /\ Is(urlField', "server", b, b)
          /\ Is(urlField', "port", b, b)
      <4>1. urlField'["userinfo"] = urlField["userinfo"] /\ urlField'["port"] = urlField["port"]
        BY <2>4, FieldNames
      <4>. QED
        BY <1>3, <2>4, <4>1 DEF Is
    <3>2. Over(b, b, HostText)' /\ Over(b, b, Url!Num)'
      BY DEF Over
    <3>. QED
      BY <3>1, <3>2 DEF Inner
  <2>8. HostStage(b, b, b, b, b, b, b, b)'
    BY <2>1 DEF HostStage
  <2>9. Hosted(a, b, c, d, q, g, k)'
    <3>1. Inner(b, hostAt, b, b, b, b, b, b)'
      BY <2>3, <2>7 DEF Inner
    <3>2. HostStage(b, hostAt, b, b, b, b, b, b)'
      BY <2>3, <2>8 DEF HostStage
    <3>3. \E u, v, w, o, y, z \in Nat :
            Inner(b, hostAt, u, v, w, o, y, z)' /\ HostStage(b, hostAt, u, v, w, o, y, z)'
      BY <3>1, <3>2
    <3>4. hostAt' \in Nat /\ b <= hostAt' /\ hostAt' <= c /\ c = hostEnd' /\ AllSlashes(a, b)'
      BY <1>3, <2>3, <2>5 DEF AllSlashes
    <3>. QED
      BY <2>6, <3>3, <3>4 DEF Hosted
  <2>10. UrlTyped'
    BY <1>1, <2>1, <2>3, <2>4 DEF UrlTyped, HostStates
  <2>. QED
    <3>1. Scanning(a, b, c, d, q, g, k)'
      BY <2>1, <2>9 DEF Scanning
    <3>. QED
      BY <2>1, <2>10, <3>1 DEF UrlInv
<1>5. CASE "server" \notin Url!Set(urlField)
  <2>1. /\ hostState' = "no_host" /\ UNCHANGED <<hostAt, hostEnd, urlField>>
        /\ urlResult' = IF "schema" \in Url!Set(urlField) THEN "error" ELSE "none"
    BY <1>1, <1>5 DEF Url!ScanEnds
  <2>2. c = b /\ urlField["server"].len = 0
    BY <1>1, <1>3, <1>5, FieldNames DEF Url!Set, Is
  <2>3. UrlTyped'
    BY <1>1, <2>1 DEF UrlTyped
  <2>4. CASE "schema" \in Url!Set(urlField)
    <3>1. \A t \in Url!Fields :
            urlField'[t].off = urlField[t].off /\ urlField'[t].len \in {urlField[t].len, 0}
      BY <2>1
    <3>2. Behind = 1 \/ \E ch \in UrlChars : TRUE
      <4>1. ASSUME Len(urlRead) > 0 PROVE urlRead[1] \in UrlChars
        BY <1>1, <4>1 DEF UrlTyped
      <4>. QED
        BY <1>1, <4>1, UrlLen DEF UrlTyped
    <3>3. Behind > 1
      BY <1>1, <1>3, <2>4, UrlLen, FieldNames DEF Url!Set
    <3>4. PICK ch \in UrlChars : TRUE
      BY <3>2, <3>3
    <3>5. InRange'
      BY <1>1, <1>2, <3>1, <3>4, StaysInRange
    <3>. QED
      BY <2>1, <2>3, <2>4, <3>5 DEF UrlInv
  <2>5. CASE "schema" \notin Url!Set(urlField)
    <3>1. a = 1
      BY <1>1, <1>3, <2>5, FieldNames DEF Url!Set
    <3>2. Outer(a, b, c, d, q, g, k)'
      BY <1>1, <1>3, <2>1, OuterStays
    <3>3. \A t \in {"server", "userinfo", "port"} : urlField'[t].len = 0
      BY <1>3, <2>1, <2>2 DEF Is
    <3>4. Hostless(a, b, c, d, q, g, k)'
      BY <2>2, <3>1, <3>2, <3>3 DEF Hostless, AllSlashes
    <3>. QED
      BY <2>1, <2>3, <2>5, <3>4 DEF UrlInv, Scanning
  <2>. QED
    BY <2>4, <2>5
<1>. QED
  BY <1>4, <1>5

LEMMA HostScanStep == UrlInv /\ Url!HostScan => UrlInv'
<1>. SUFFICES ASSUME UrlInv, Url!HostScan PROVE UrlInv'
  OBVIOUS
<1>. DEFINE n == Url!HostStep(hostState, urlRead[hostAt])
<1>1. /\ UrlTyped /\ urlResult = "none" /\ hostAt < hostEnd /\ hostState \in HostStates
      /\ hostAt \in Nat
      /\ hostState' = n /\ hostAt' = hostAt + 1 /\ urlField' = Url!GrowHost(n)
      /\ urlResult' = IF n = "dead" THEN "error" ELSE "none"
      /\ UNCHANGED <<urlRead, forConnect, urlState, lastField, atFound, hostEnd, urlPort>>
      /\ hostState \notin {"none", "no_host"}
  BY DEF UrlInv, Url!HostScan, UrlTyped, HostStates
<1>2. PICK a \in Nat, b \in Nat, c \in Nat, d \in Nat, q \in Nat, g \in Nat, k \in Nat :
        Scanning(a, b, c, d, q, g, k)
  BY <1>1 DEF UrlInv
<1>3. /\ Outer(a, b, c, d, q, g, k) /\ AllSlashes(a, b) /\ c = hostEnd /\ b <= hostAt /\ hostAt <= c
      /\ \E u, v, w, o, y, z \in Nat :
           Inner(b, hostAt, u, v, w, o, y, z) /\ HostStage(b, hostAt, u, v, w, o, y, z)
  BY <1>1, <1>2 DEF Scanning, Hosted
<1>4. CASE n = "dead"
  <2>1. Url!HostField(n) = "none"
    BY <1>4 DEF Url!HostField
  <2>2. urlField' = urlField /\ urlField' \in [Url!Fields -> [off : Nat, len : Nat]]
    BY <1>1, <2>1, HostStays
  <2>3. UrlTyped'
    BY <1>1, <1>4, <2>2 DEF UrlTyped
  <2>4. hostAt \in 1..Len(urlRead) /\ urlRead[hostAt] \in UrlChars
    BY <1>1, <1>3, UrlLen DEF Outer, UrlTyped
  <2>5. InRange'
    BY <1>1, <1>2, <2>2, <2>4, StaysInRange
  <2>. QED
    BY <1>1, <1>4, <2>3, <2>5 DEF UrlInv
<1>5. CASE n # "dead"
  <2>1. HostReads(n)
    BY <1>1, <1>5 DEF HostReads
  <2>2. PICK e \in Nat : e = hostAt
    BY <1>1
  <2>3. PICK u \in Nat, v \in Nat, w \in Nat, o \in Nat, y \in Nat, z \in Nat :
          Inner(b, e, u, v, w, o, y, z) /\ HostStage(b, e, u, v, w, o, y, z)
    BY <1>3, <2>2
  <2>4. n \in HostStates /\ n # "userinfo_start"
    BY <2>1, HostReadsFrom
  <2>5. urlResult' = "none" /\ hostState' = n /\ hostAt' = e + 1 /\ e + 1 \in Nat
    BY <1>1, <1>5, <2>2
  <2>. HIDE DEF n
  <2>6. /\ \E u2, v2, w2, o2, y2, z2 \in Nat :
             Inner(b, e + 1, u2, v2, w2, o2, y2, z2)'
             /\ HostStage(b, e + 1, u2, v2, w2, o2, y2, z2)'
        /\ urlField' \in [Url!Fields -> [off : Nat, len : Nat]]
        /\ \A r \in Url!Fields \ {"userinfo", "server", "port"} : urlField'[r] = urlField[r]
    <3>1. CASE n = "userinfo"
      <4>1. /\ Inner(b, e + 1, e + 1, e + 1, e + 1, e + 1, e + 1, e + 1)'
            /\ HostStage(b, e + 1, e + 1, e + 1, e + 1, e + 1, e + 1, e + 1)'
            /\ urlField' \in [Url!Fields -> [off : Nat, len : Nat]]
            /\ \A r \in Url!Fields \ {"userinfo", "server", "port"} : urlField'[r] = urlField[r]
        BY <1>1, <2>1, <2>2, <2>3, <3>1, HostUserinfo
      <4>. QED
        BY <2>5, <4>1
    <3>2. CASE n = "host_start"
      <4>1. /\ Inner(b, e + 1, e, e + 1, e + 1, e + 1, e + 1, e + 1)'
            /\ HostStage(b, e + 1, e, e + 1, e + 1, e + 1, e + 1, e + 1)'
            /\ urlField' \in [Url!Fields -> [off : Nat, len : Nat]]
            /\ \A r \in Url!Fields \ {"userinfo", "server", "port"} : urlField'[r] = urlField[r]
        BY <1>1, <2>1, <2>2, <2>3, <3>2, HostHostStart
      <4>. QED
        BY <2>5, <4>1
    <3>3. CASE n = "host"
      <4>1. /\ Inner(b, e + 1, u, v, w, e + 1, e + 1, e + 1)'
            /\ HostStage(b, e + 1, u, v, w, e + 1, e + 1, e + 1)'
            /\ urlField' \in [Url!Fields -> [off : Nat, len : Nat]]
            /\ \A r \in Url!Fields \ {"userinfo", "server", "port"} : urlField'[r] = urlField[r]
        BY <1>1, <2>1, <2>2, <2>3, <3>3, HostHost
      <4>. QED
        BY <2>5, <4>1
    <3>4. CASE n = "v6_start"
      <4>1. /\ Inner(b, e + 1, u, v, e + 1, e + 1, e + 1, e + 1)'
            /\ HostStage(b, e + 1, u, v, e + 1, e + 1, e + 1, e + 1)'
            /\ urlField' \in [Url!Fields -> [off : Nat, len : Nat]]
            /\ \A r \in Url!Fields \ {"userinfo", "server", "port"} : urlField'[r] = urlField[r]
        BY <1>1, <2>1, <2>2, <2>3, <3>4, HostV6Start
      <4>. QED
        BY <2>5, <4>1
    <3>5. CASE n \in {"v6", "zone_start", "zone"}
      <4>1. /\ Inner(b, e + 1, u, v, w, e + 1, e + 1, e + 1)'
            /\ HostStage(b, e + 1, u, v, w, e + 1, e + 1, e + 1)'
            /\ urlField' \in [Url!Fields -> [off : Nat, len : Nat]]
            /\ \A r \in Url!Fields \ {"userinfo", "server", "port"} : urlField'[r] = urlField[r]
        BY <1>1, <2>1, <2>2, <2>3, <3>5, HostV6
      <4>. QED
        BY <2>5, <4>1
    <3>6. CASE n = "v6_end"
      <4>1. /\ Inner(b, e + 1, u, v, w, o, e + 1, e + 1)'
            /\ HostStage(b, e + 1, u, v, w, o, e + 1, e + 1)'
            /\ urlField' \in [Url!Fields -> [off : Nat, len : Nat]]
            /\ \A r \in Url!Fields \ {"userinfo", "server", "port"} : urlField'[r] = urlField[r]
        BY <1>1, <2>1, <2>2, <2>3, <3>6, HostV6End
      <4>. QED
        BY <2>5, <4>1
    <3>7. CASE n = "port_start"
      <4>1. /\ Inner(b, e + 1, u, v, w, o, y, e + 1)'
            /\ HostStage(b, e + 1, u, v, w, o, y, e + 1)'
            /\ urlField' \in [Url!Fields -> [off : Nat, len : Nat]]
            /\ \A r \in Url!Fields \ {"userinfo", "server", "port"} : urlField'[r] = urlField[r]
        BY <1>1, <2>1, <2>2, <2>3, <3>7, HostPortStart
      <4>. QED
        BY <2>5, <4>1
    <3>8. CASE n = "port"
      <4>1. /\ Inner(b, e + 1, u, v, w, o, y, z)'
            /\ HostStage(b, e + 1, u, v, w, o, y, z)'
            /\ urlField' \in [Url!Fields -> [off : Nat, len : Nat]]
            /\ \A r \in Url!Fields \ {"userinfo", "server", "port"} : urlField'[r] = urlField[r]
        BY <1>1, <2>1, <2>2, <2>3, <3>8, HostPort
      <4>. QED
        BY <2>5, <4>1
    <3>. QED
      BY <2>4, <3>1, <3>2, <3>3, <3>4, <3>5, <3>6, <3>7, <3>8 DEF HostStates
  <2>7. Outer(a, b, c, d, q, g, k)'
    BY <1>1, <1>3, <2>6, OuterStays
  <2>8. UrlTyped'
    BY <1>1, <2>4, <2>5, <2>6 DEF UrlTyped, HostStates
  <2>9. Hosted(a, b, c, d, q, g, k)'
    <3>1. PICK u2 \in Nat, v2 \in Nat, w2 \in Nat, o2 \in Nat, y2 \in Nat, z2 \in Nat :
             Inner(b, e + 1, u2, v2, w2, o2, y2, z2)'
             /\ HostStage(b, e + 1, u2, v2, w2, o2, y2, z2)'
      BY <2>6
    <3>2. Inner(b, hostAt, u2, v2, w2, o2, y2, z2)'
      BY <2>5, <3>1 DEF Inner
    <3>3. HostStage(b, hostAt, u2, v2, w2, o2, y2, z2)'
      BY <2>5, <3>1 DEF HostStage
    <3>4. hostAt' \in Nat /\ b <= hostAt' /\ hostAt' <= c /\ c = hostEnd'
      BY <1>1, <1>3, <2>2, <2>5
    <3>. QED
      BY <1>3, <2>7, <3>2, <3>3, <3>4 DEF Hosted, AllSlashes
  <2>10. Scanning(a, b, c, d, q, g, k)'
    BY <2>4, <2>5, <2>9 DEF Scanning, HostStates
  <2>. QED
    BY <2>5, <2>8, <2>10 DEF UrlInv
<1>. QED
  BY <1>4, <1>5

LEMMA EndStep == UrlInv /\ Url!End => UrlInv'
<1>. SUFFICES ASSUME UrlInv, Url!End PROVE UrlInv'
  OBVIOUS
<1>1. /\ UrlTyped /\ urlResult = "none" /\ hostState # "none" /\ hostAt = hostEnd
      /\ UNCHANGED <<urlRead, forConnect, urlState, urlField, lastField, atFound, hostState,
                       hostAt, hostEnd>>
      /\ urlResult' \in {"ok", "error"} /\ urlPort' \in 0..MaxPort
      /\ urlResult' = "ok" => Url!HostEnds /\ (forConnect => Url!Set(urlField) = {"server", "port"})
  <2>1. MaxPort \in Nat
    BY HttpUrlAssumption DEF Url!UrlAssumption
  <2>. QED
    BY <2>1 DEF UrlInv, Url!End, Url!PortFits
<1>2. PICK a \in Nat, b \in Nat, c \in Nat, d \in Nat, q \in Nat, g \in Nat, k \in Nat :
        Scanning(a, b, c, d, q, g, k)
  BY <1>1 DEF UrlInv
<1>3. UrlTyped'
  BY <1>1 DEF UrlTyped
<1>4. Scanning(a, b, c, d, q, g, k)'
  <2>1. /\ hostState' = hostState /\ urlField' = urlField /\ urlRead' = urlRead /\ hostAt' = hostAt
        /\ hostEnd' = hostEnd /\ urlState' = urlState
        /\ lastField' = lastField
    BY <1>1
  <2>2. Hostless(a, b, c, d, q, g, k) => Hostless(a, b, c, d, q, g, k)'
    BY <2>1, OuterStays DEF Hostless, AllSlashes
  <2>3. Hosted(a, b, c, d, q, g, k) => Hosted(a, b, c, d, q, g, k)'
    <3>1. ASSUME NEW u \in Nat, NEW v \in Nat, NEW w \in Nat, NEW o \in Nat, NEW y \in Nat,
                 NEW z \in Nat, Inner(b, hostAt, u, v, w, o, y, z),
                 HostStage(b, hostAt, u, v, w, o, y, z)
          PROVE  Inner(b, hostAt, u, v, w, o, y, z)' /\ HostStage(b, hostAt, u, v, w, o, y, z)'
      BY <2>1, <3>1 DEF Inner, HostStage, Is, Over
    <3>2. SUFFICES ASSUME Hosted(a, b, c, d, q, g, k) PROVE Hosted(a, b, c, d, q, g, k)'
      OBVIOUS
    <3>3. PICK u \in Nat, v \in Nat, w \in Nat, o \in Nat, y \in Nat, z \in Nat :
            Inner(b, hostAt, u, v, w, o, y, z) /\ HostStage(b, hostAt, u, v, w, o, y, z)
      BY <3>2 DEF Hosted
    <3>4. Inner(b, hostAt, u, v, w, o, y, z)' /\ HostStage(b, hostAt, u, v, w, o, y, z)'
      BY <3>1, <3>3
    <3>5. Outer(a, b, c, d, q, g, k)' /\ AllSlashes(a, b)'
      BY <2>1, <3>2, OuterStays DEF Hosted, AllSlashes
    <3>6. hostAt' \in Nat /\ b <= hostAt' /\ hostAt' <= c /\ c = hostEnd'
      BY <2>1, <3>2 DEF Hosted
    <3>. QED
      BY <3>4, <3>5, <3>6 DEF Hosted
  <2>. QED
    BY <1>1, <1>2, <2>1, <2>2, <2>3 DEF Scanning
<1>5. CASE urlResult' = "ok"
  <2>1. Accepted'
    BY <1>1, <1>5 DEF Accepted, Url!HostEnds, Url!Set
  <2>. QED
    BY <1>3, <1>4, <1>5, <2>1 DEF UrlInv
<1>6. CASE urlResult' = "error"
  <2>1. InRange
    BY <1>1, <1>2, Ranges
  <2>2. InRange'
    BY <1>1, <2>1 DEF InRange, Url!Set
  <2>. QED
    BY <1>3, <1>6, <2>2 DEF UrlInv
<1>. QED
  BY <1>1, <1>5, <1>6

(* At every moment of the two scans over a URL of any length the fields are*)
(* pieces of it, in the order and between the delimiters they are meant to *)
(* be.                                                                     *)
THEOREM UrlInvariance == Url!Spec => []UrlInv
<1>1. UrlInv /\ [Url!Next]_(Url!vars) => UrlInv'
  <2>1. UrlInv /\ UNCHANGED Url!vars => UrlInv'
    <3>. SUFFICES ASSUME UrlInv, UNCHANGED Url!vars PROVE UrlInv'
      OBVIOUS
    <3>. USE DEF Url!vars
    <3>1. UrlTyped' /\ (InRange => InRange') /\ (Accepted => Accepted')
      BY DEF UrlInv, UrlTyped, InRange, Url!Set, Accepted, Url!HostEnds
    <3>2. ASSUME NEW a \in Nat, NEW b \in Nat, NEW c \in Nat, NEW d \in Nat, NEW q \in Nat,
                 NEW g \in Nat, NEW k \in Nat, Scanning(a, b, c, d, q, g, k)
          PROVE  Scanning(a, b, c, d, q, g, k)'
      BY <3>2 DEF Scanning, Laid, Hosted, Hostless, Outer, Stage, Inner, HostStage, Is, Over,
                  Slashes, AllSlashes, Behind
    <3>3. CASE urlResult = "error"
      BY <3>1, <3>3 DEF UrlInv
    <3>4. CASE urlResult # "error"
      <4>1. PICK a \in Nat, b \in Nat, c \in Nat, d \in Nat, q \in Nat, g \in Nat, k \in Nat :
              Scanning(a, b, c, d, q, g, k)
        BY <3>4 DEF UrlInv
      <4>2. Scanning(a, b, c, d, q, g, k)'
        BY <3>2, <4>1
      <4>. QED
        BY <3>1, <3>4, <4>2 DEF UrlInv
    <3>. QED
      BY <3>3, <3>4
  <2>. QED
    BY <2>1, ScanStep, ScanEndsStep, HostScanStep, EndStep DEF Url!Next
<1>. QED
  BY <1>1, UrlInit, PTL DEF Url!Spec

-----------------------------------------------------------------------------
(* A URL that is accepted                                                  *)

(* Where the parts of an accepted URL begin: user, "@", "[", name or       *)
(* address, "]", ":" and port lie between b and c; see Outer for the rest. *)
Parts(a, b, c, d, q, g, k, u, v, w, o, y, z) ==
  /\ Outer(a, b, c, d, q, g, k) /\ AllSlashes(a, b)
  /\ u \in Nat /\ v \in Nat /\ w \in Nat /\ o \in Nat /\ y \in Nat /\ z \in Nat
  /\ b <= u /\ u <= v /\ v <= w /\ w <= o /\ o <= y /\ y <= z /\ z <= c
  /\ Is(urlField, "userinfo", b, u) /\ Is(urlField, "server", w, o) /\ Is(urlField, "port", z, c)
  /\ v = u \/ (v = u + 1 /\ urlRead[u] = "@")
  /\ (w = v /\ y = o) \/ (w = v + 1 /\ urlRead[v] = "[" /\ y = o + 1 /\ urlRead[o] = "]")
  /\ (z = y /\ y = c) \/ (z = y + 1 /\ urlRead[y] = ":" /\ z < c)
  /\ o > w \/ (a = 1 /\ b = c)
  /\ Over(w, o, HostText) /\ Over(z, c, Url!Num)

(* An accepted URL has such parts.                                         *)
LEMMA AcceptedParts ==
  ASSUME UrlInv, urlResult = "ok"
  PROVE  \E a, b, c, d, q, g, k, u, v, w, o, y, z \in Nat :
           Parts(a, b, c, d, q, g, k, u, v, w, o, y, z)
<1>1. PICK a \in Nat, b \in Nat, c \in Nat, d \in Nat, q \in Nat, g \in Nat, k \in Nat :
        Scanning(a, b, c, d, q, g, k)
  BY DEF UrlInv
<1>2. hostState \in {"host", "v6_end", "port", "no_host"} /\ hostAt = hostEnd /\ UrlTyped
  BY DEF UrlInv, Accepted, Url!HostEnds
<1>3. CASE hostState = "no_host"
  <2>1. Hostless(a, b, c, d, q, g, k)
    BY <1>1, <1>3 DEF Scanning
  <2>2. Parts(a, b, c, d, q, g, k, b, b, b, b, b, b)
    <3>1. /\ Is(urlField, "userinfo", b, b) /\ Is(urlField, "server", b, b)
          /\ Is(urlField, "port", b, b)
      BY <2>1 DEF Hostless, Is
    <3>2. Over(b, b, HostText) /\ Over(b, b, Url!Num)
      BY DEF Over
    <3>. QED
      BY <2>1, <3>1, <3>2 DEF Parts, Hostless
  <2>. QED
    BY <2>2
<1>4. CASE hostState \in {"host", "v6_end", "port"}
  <2>1. Hosted(a, b, c, d, q, g, k)
    BY <1>1, <1>4 DEF Scanning
  <2>2. PICK u \in Nat, v \in Nat, w \in Nat, o \in Nat, y \in Nat, z \in Nat :
          Inner(b, c, u, v, w, o, y, z) /\ HostStage(b, c, u, v, w, o, y, z)
    BY <1>2, <2>1 DEF Hosted
  <2>3. /\ o > w /\ (w = v + 1 <=> y = o + 1)
        /\ (hostState = "port" => c > z /\ z = y + 1) /\ (hostState # "port" => c = y)
    BY <1>4, <2>2 DEF HostStage, Inner
  <2>4. /\ v = u \/ (v = u + 1 /\ urlRead[u] = "@")
        /\ (w = v /\ y = o) \/ (w = v + 1 /\ urlRead[v] = "[" /\ y = o + 1 /\ urlRead[o] = "]")
        /\ (z = y /\ y = c) \/ (z = y + 1 /\ urlRead[y] = ":" /\ z < c)
    BY <1>4, <2>2, <2>3 DEF Inner
  <2>5. Parts(a, b, c, d, q, g, k, u, v, w, o, y, z)
    BY <2>1, <2>2, <2>3, <2>4 DEF Parts, Hosted, Inner
  <2>. QED
    BY <2>5
<1>. QED
  BY <1>2, <1>3, <1>4

(* The URL from i up to but not including j.                               *)
Piece(i, j) == SubSeq(urlRead, i, j - 1)

LEMMA Pieces ==
  ASSUME UrlTyped, NEW i \in Nat, NEW j \in Nat, 1 <= i, i <= j, j <= Behind
  PROVE  /\ Piece(i, j) \in Seq(UrlChars) /\ Len(Piece(i, j)) = j - i
         /\ \A m \in 1..(j - i) : Piece(i, j)[m] = urlRead[i + m - 1]
<1>1. urlRead \in Seq(UrlChars) /\ Len(urlRead) \in Nat /\ j - 1 <= Len(urlRead)
  BY UrlLen DEF UrlTyped
<1>. QED
  BY <1>1 DEF Piece

(* Pieces that meet are one piece.                                         *)
LEMMA Glue ==
  ASSUME UrlTyped, NEW i \in Nat, NEW j \in Nat, NEW k \in Nat, 1 <= i, i <= j, j <= k, k <= Behind
  PROVE  Piece(i, j) \o Piece(j, k) = Piece(i, k)
<1>. USE UrlLen
<1>1. urlRead \in Seq(UrlChars) /\ i \in 1..(Len(urlRead) + 1) /\ j - 1 \in (i - 1)..Len(urlRead)
      /\ k - 1 \in (j - 1)..Len(urlRead) /\ (j - 1) + 1 = j
  BY DEF UrlTyped
<1>2. SubSeq(urlRead, i, j - 1) \o SubSeq(urlRead, (j - 1) + 1, k - 1) = SubSeq(urlRead, i, k - 1)
  BY <1>1, ConcatAdjacentSubSeq
<1>. QED
  BY <1>1, <1>2 DEF Piece

(* The text of a field is the piece it lies in.                            *)
LEMMA PieceIs ==
  ASSUME UrlTyped, NEW t \in Url!Fields, NEW i \in Nat, NEW j \in Nat, 1 <= i, i <= j, j <= Behind,
         Is(urlField, t, i, j)
  PROVE  /\ Url!Has(t) <=> j > i
         /\ j > i => Url!Text(t) = Piece(i, j)
         /\ Url!Part(<<>>, t, <<>>) = Piece(i, j)
<1>. USE UrlLen
<1>1. Url!Has(t) <=> j > i
  BY DEF Url!Has, Url!Set, Is
<1>2. ASSUME j > i PROVE Url!Text(t) = Piece(i, j)
  <2>1. urlField[t].off = i /\ urlField[t].off + urlField[t].len - 1 = j - 1
    BY <1>2 DEF Is
  <2>. QED
    BY <2>1 DEF Url!Text, Piece
<1>3. Url!Part(<<>>, t, <<>>) = Piece(i, j)
  <2>1. Piece(i, j) \in Seq(UrlChars)
    BY Pieces
  <2>2. CASE j > i
    <3>1. Url!Part(<<>>, t, <<>>) = (<<>> \o Piece(i, j)) \o <<>>
      BY <1>1, <1>2, <2>2 DEF Url!Part
    <3>. QED
      BY <2>1, <3>1, ConcatEmptySeq
  <2>3. CASE j = i
    <3>1. Url!Part(<<>>, t, <<>>) = <<>>
      BY <1>1, <2>3 DEF Url!Part
    <3>2. Len(Piece(i, j)) = 0
      BY <2>3, Pieces
    <3>. QED
      BY <2>1, <3>1, <3>2, EmptySeq
  <2>. QED
    BY <2>2, <2>3
<1>. QED
  BY <1>1, <1>2, <1>3

LEMMA OnePiece ==
  ASSUME UrlTyped, NEW i \in Nat, 1 <= i
  PROVE  /\ i <= Behind => Piece(i, i) = <<>>
         /\ i < Behind => Piece(i, i + 1) = <<urlRead[i]>>
<1>. USE UrlLen
<1>1. ASSUME i <= Behind PROVE Piece(i, i) = <<>>
  <2>1. Piece(i, i) \in Seq(UrlChars) /\ Len(Piece(i, i)) = 0
    BY <1>1, Pieces
  <2>. QED
    BY <2>1, EmptySeq
<1>2. ASSUME i < Behind PROVE Piece(i, i + 1) = <<urlRead[i]>>
  <2>1. /\ Piece(i, i + 1) \in Seq(UrlChars) /\ Len(Piece(i, i + 1)) = 1
        /\ Piece(i, i + 1)[1] = urlRead[i]
    <3>1. /\ i + 1 \in Nat /\ i <= i + 1 /\ i + 1 <= Behind /\ (i + 1) - i = 1 /\ i + 1 - 1 = i
          /\ 1 \in 1..1
      BY <1>2
    <3>2. /\ Piece(i, i + 1) \in Seq(UrlChars) /\ Len(Piece(i, i + 1)) = (i + 1) - i
          /\ \A m \in 1..((i + 1) - i) : Piece(i, i + 1)[m] = urlRead[i + m - 1]
      BY <1>2, <3>1, Pieces
    <3>. QED
      BY <3>1, <3>2
  <2>2. urlRead[i] \in UrlChars
    BY <1>2 DEF UrlTyped
  <2>3. /\ <<urlRead[i]>> \in Seq(UrlChars) /\ Len(<<urlRead[i]>>) = 1
        /\ <<urlRead[i]>>[1] = urlRead[i]
    BY <2>2
  <2>4. \A m \in 1..Len(Piece(i, i + 1)) : Piece(i, i + 1)[m] = <<urlRead[i]>>[m]
    BY <2>1, <2>3
  <2>. QED
    BY <2>1, <2>3, <2>4, SeqEqual
<1>. QED
  BY <1>1, <1>2


LEMMA PieceOver ==
  ASSUME UrlTyped, NEW i \in Nat, NEW j \in Nat, 1 <= i, i <= j, j <= Behind, NEW S, Over(i, j, S)
  PROVE  \A m \in DOMAIN Piece(i, j) : Piece(i, j)[m] \in S
<1>. USE UrlLen
<1>1. /\ Piece(i, j) \in Seq(UrlChars) /\ Len(Piece(i, j)) = j - i
      /\ \A m \in 1..(j - i) : Piece(i, j)[m] = urlRead[i + m - 1]
  BY Pieces
<1>2. DOMAIN Piece(i, j) = 1..(j - i)
  BY <1>1
<1>3. \A m \in 1..(j - i) : i + m - 1 \in i..(j - 1)
  OBVIOUS
<1>. QED
  BY <1>1, <1>2, <1>3 DEF Over

LEMMA WholeUrl == UrlTyped => Piece(1, Behind) = urlRead
<1>. SUFFICES ASSUME UrlTyped PROVE Piece(1, Behind) = urlRead
  OBVIOUS
<1>1. urlRead \in Seq(UrlChars) /\ Behind - 1 = Len(urlRead)
  BY UrlLen DEF UrlTyped
<1>2. SubSeq(urlRead, 1, Len(urlRead)) = urlRead
  BY <1>1, SubSeqFull
<1>. QED
  BY <1>1, <1>2 DEF Piece

(* The schema, and "://" behind it.                                        *)
LEMMA SchemaIs ==
  ASSUME UrlTyped, NEW a \in Nat, NEW b \in Nat, 1 <= a, a <= b, b <= Behind,
         Is(urlField, "schema", 1, a), Slashes(a, b), AllSlashes(a, b)
  PROVE  Url!Part(<<>>, "schema", <<":", "/", "/">>) = Piece(1, b)
<1>. USE UrlLen
<1>1. /\ Url!Has("schema") <=> a > 1
      /\ a > 1 => Url!Text("schema") = Piece(1, a)
  BY PieceIs, FieldNames
<1>2. CASE a = 1
  <2>1. b = 1 /\ Url!Part(<<>>, "schema", <<":", "/", "/">>) = <<>>
    BY <1>1, <1>2 DEF Slashes, Url!Part
  <2>. QED
    BY <1>2, <2>1, OnePiece
<1>3. CASE a > 1
  <2>1. b = a + 3 /\ urlRead[a] = ":" /\ urlRead[a + 1] = "/" /\ urlRead[a + 2] = "/"
    BY <1>3 DEF Slashes, AllSlashes
  <2>2. Piece(a, a + 3) = <<":", "/", "/">>
    <3>1. /\ a + 1 \in Nat /\ a + 2 \in Nat /\ a + 3 \in Nat /\ a + 3 <= Behind
          /\ a <= a + 1 /\ a + 1 <= a + 2 /\ a + 2 <= a + 3 /\ a <= a + 2
          /\ a + 1 <= Behind /\ a + 2 <= Behind
      BY <2>1
    <3>2. Piece(a, a + 1) = <<":">>
      BY <2>1, <3>1, OnePiece
    <3>3. Piece(a + 1, a + 2) = <<"/">>
      <4>1. (a + 1) + 1 = a + 2 /\ 1 <= a + 1 /\ a + 1 < Behind
        BY <3>1
      <4>. QED
        BY <2>1, <3>1, <4>1, OnePiece
    <3>4. Piece(a + 2, a + 3) = <<"/">>
      <4>1. (a + 2) + 1 = a + 3 /\ 1 <= a + 2 /\ a + 2 < Behind
        BY <3>1
      <4>. QED
        BY <2>1, <3>1, <4>1, OnePiece
    <3>5. Piece(a, a + 1) \o Piece(a + 1, a + 2) = Piece(a, a + 2)
      BY <3>1, Glue
    <3>6. Piece(a, a + 2) \o Piece(a + 2, a + 3) = Piece(a, a + 3)
      BY <3>1, Glue
    <3>7. Piece(a, a + 3) = (<<":">> \o <<"/">>) \o <<"/">>
      BY <3>2, <3>3, <3>4, <3>5, <3>6
    <3>. QED
      BY <3>7
  <2>3. Url!Part(<<>>, "schema", <<":", "/", "/">>) = (<<>> \o Piece(1, a)) \o Piece(a, a + 3)
    BY <1>1, <1>3, <2>2 DEF Url!Part
  <2>4. Piece(1, a) \in Seq(UrlChars)
    BY Pieces
  <2>5. <<>> \o Piece(1, a) = Piece(1, a)
    BY <2>4, ConcatEmptySeq
  <2>6. Piece(1, a) \o Piece(a, a + 3) = Piece(1, a + 3)
    <3>1. b \in Nat /\ a <= b
      OBVIOUS
    <3>2. ASSUME NEW i \in Nat, i = 1 PROVE Piece(i, a) \o Piece(a, b) = Piece(i, b)
      <4>1. 1 <= i /\ i <= a
        BY <3>2
      <4>. QED
        BY <3>1, <4>1, Glue
    <3>. QED
      BY <2>1, <3>2
  <2>. QED
    BY <2>1, <2>3, <2>5, <2>6
<1>. QED
  BY <1>2, <1>3

(* The host between its brackets, and the port behind its colon.           *)
LEMMA HostIs ==
  ASSUME UrlTyped, NEW v \in Nat, NEW w \in Nat, NEW o \in Nat, NEW y \in Nat,
         1 <= v, v <= w, w < o, o <= y, y <= Behind, Is(urlField, "server", w, o)
  PROVE  Url!Part(Piece(v, w), "server", Piece(o, y)) = Piece(v, y)
<1>. USE UrlLen
<1>1. Url!Has("server") /\ Url!Text("server") = Piece(w, o)
  BY PieceIs, FieldNames
<1>2. Url!Part(Piece(v, w), "server", Piece(o, y)) = (Piece(v, w) \o Piece(w, o)) \o Piece(o, y)
  BY <1>1 DEF Url!Part
<1>3. v <= o /\ w <= o /\ o <= Behind
  OBVIOUS
<1>4. Piece(v, w) \o Piece(w, o) = Piece(v, o)
  BY <1>3, Glue
<1>5. Piece(v, o) \o Piece(o, y) = Piece(v, y)
  BY <1>3, Glue
<1>. QED
  BY <1>2, <1>4, <1>5

LEMMA PortIs ==
  ASSUME UrlTyped, NEW y \in Nat, NEW z \in Nat, NEW c \in Nat, 1 <= y, z <= c, c <= Behind,
         Is(urlField, "port", z, c), (z = y /\ y = c) \/ (z = y + 1 /\ urlRead[y] = ":" /\ z < c)
  PROVE  Url!Part(<<":">>, "port", <<>>) = Piece(y, c)
<1>. USE UrlLen
<1>1. /\ Url!Has("port") <=> c > z
      /\ c > z => Url!Text("port") = Piece(z, c)
  BY PieceIs, FieldNames
<1>2. CASE z = y /\ y = c
  <2>1. Url!Part(<<":">>, "port", <<>>) = <<>>
    BY <1>1, <1>2 DEF Url!Part
  <2>. QED
    BY <1>2, <2>1, OnePiece
<1>3. CASE z = y + 1 /\ urlRead[y] = ":" /\ z < c
  <2>1. Piece(y, z) = <<":">>
    BY <1>3, OnePiece
  <2>2. Url!Part(<<":">>, "port", <<>>) = (Piece(y, z) \o Piece(z, c)) \o <<>>
    BY <1>1, <1>3, <2>1 DEF Url!Part
  <2>3. Piece(y, z) \o Piece(z, c) = Piece(y, c)
    <3>1. y <= z /\ z <= c
      BY <1>3
    <3>. QED
      BY <3>1, Glue
  <2>4. Piece(y, c) \in Seq(UrlChars)
    BY <1>3, Pieces
  <2>. QED
    BY <2>2, <2>3, <2>4, ConcatEmptySeq
<1>. QED
  BY <1>2, <1>3

(* What lies between query and fragment is any number of "#".              *)
LEMMA NumberSigns ==
  ASSUME UrlTyped, NEW g \in Nat, NEW k \in Nat, 1 <= g, g <= k, k <= Behind, Over(g, k, {"#"})
  PROVE  Piece(g, k) = [i \in 1..(k - g) |-> "#"] /\ k - g \in 0..Len(urlRead)
<1>. USE UrlLen
<1>1. /\ Piece(g, k) \in Seq(UrlChars) /\ Len(Piece(g, k)) = k - g
      /\ \A m \in 1..(k - g) : Piece(g, k)[m] = "#"
  <2>1. /\ Piece(g, k) \in Seq(UrlChars) /\ Len(Piece(g, k)) = k - g
    BY Pieces
  <2>2. \A m \in DOMAIN Piece(g, k) : Piece(g, k)[m] \in {"#"}
    BY PieceOver
  <2>. QED
    BY <2>1, <2>2
<1>2. Piece(g, k) = [i \in 1..(k - g) |-> Piece(g, k)[i]]
  BY <1>1
<1>. QED
  BY <1>1, <1>2


(* What TypeOK says of the fields, at every moment.                        *)
LEMMA InvTypeOK == UrlInv => Url!TypeOK
<1>. SUFFICES ASSUME UrlInv PROVE Url!TypeOK
  OBVIOUS
<1>1. UrlTyped
  BY DEF UrlInv
<1>2. InRange
  <2>1. CASE urlResult = "error"
    BY <2>1 DEF UrlInv
  <2>2. CASE urlResult # "error"
    <3>1. PICK a \in Nat, b \in Nat, c \in Nat, d \in Nat, q \in Nat, g \in Nat, k \in Nat :
            Scanning(a, b, c, d, q, g, k)
      BY <2>2 DEF UrlInv
    <3>. QED
      BY <1>1, <3>1, Ranges
  <2>. QED
    BY <2>1, <2>2
<1>. QED
  BY <1>1, <1>2 DEF Url!TypeOK, UrlTyped, InRange

(* What the parts are in: as text, put together, and between what.         *)
LEMMA Ordered ==
  ASSUME UrlTyped, NEW a, NEW b, NEW c, NEW d, NEW q, NEW g, NEW k,
         NEW u, NEW v, NEW w, NEW o, NEW y, NEW z,
         Parts(a, b, c, d, q, g, k, u, v, w, o, y, z)
  PROVE  /\ a \in Nat /\ b \in Nat /\ c \in Nat /\ d \in Nat /\ q \in Nat /\ g \in Nat
         /\ k \in Nat /\ u \in Nat /\ v \in Nat /\ w \in Nat /\ o \in Nat /\ y \in Nat
         /\ z \in Nat /\ Behind \in Nat
         /\ 1 <= a /\ a <= b /\ b <= u /\ u <= v /\ v <= w /\ w <= o /\ o <= y /\ y <= z
         /\ z <= c /\ c <= d /\ d <= q /\ q <= g /\ g <= k /\ k <= Behind
BY UrlLen DEF Parts, Outer

(* From the first character to the last the parts are glued together.      *)
LEMMA InvFieldsMakeUrl == UrlInv => Url!FieldsMakeUrl
<1>. SUFFICES ASSUME UrlInv, urlResult = "ok"
              PROVE  \E user \in {<<>>, <<"@">>}, query \in {<<>>, <<"?">>},
                        n \in 0..Len(urlRead), v6 \in BOOLEAN :
                       urlRead = Url!Joined(user, query, [i \in 1..n |-> "#"],
                                    IF v6 THEN <<"[">> ELSE <<>>, IF v6 THEN <<"]">> ELSE <<>>)
  BY DEF Url!FieldsMakeUrl
<1>1. UrlTyped
  BY DEF UrlInv
<1>2. PICK a \in Nat, b \in Nat, c \in Nat, d \in Nat, q \in Nat, g \in Nat, k \in Nat,
           u \in Nat, v \in Nat, w \in Nat, o \in Nat, y \in Nat, z \in Nat :
        Parts(a, b, c, d, q, g, k, u, v, w, o, y, z)
  BY AcceptedParts
<1>3. PICK e \in Nat : e = Behind
  BY <1>1, UrlLen
<1>4. /\ 1 <= a /\ a <= b /\ b <= u /\ u <= v /\ v <= w /\ w <= o /\ o <= y /\ y <= z
      /\ z <= c /\ c <= d /\ d <= q /\ q <= g /\ g <= k /\ k <= e
  BY <1>1, <1>2, <1>3, Ordered
<1>5. /\ Outer(a, b, c, d, q, g, k) /\ AllSlashes(a, b)
      /\ Is(urlField, "userinfo", b, u) /\ Is(urlField, "server", w, o)
      /\ Is(urlField, "port", z, c)
      /\ v = u \/ (v = u + 1 /\ urlRead[u] = "@")
      /\ (w = v /\ y = o) \/ (w = v + 1 /\ urlRead[v] = "[" /\ y = o + 1 /\ urlRead[o] = "]")
      /\ (z = y /\ y = c) \/ (z = y + 1 /\ urlRead[y] = ":" /\ z < c)
      /\ o > w \/ (a = 1 /\ b = c)
  BY <1>2 DEF Parts
<1>6. /\ Is(urlField, "schema", 1, a) /\ Is(urlField, "path", c, d)
      /\ Is(urlField, "query", q, g) /\ Is(urlField, "fragment", k, Behind)
      /\ Slashes(a, b) /\ Over(g, k, {"#"})
      /\ (q = d /\ g = d) \/ (q = d + 1 /\ urlRead[d] = "?")
  BY <1>5 DEF Outer
<1>7. /\ Url!Part(<<>>, "schema", <<":", "/", "/">>) = Piece(1, b)
      /\ Url!Part(<<>>, "userinfo", <<>>) = Piece(b, u)
      /\ Url!Part(<<":">>, "port", <<>>) = Piece(y, c)
      /\ Url!Part(<<>>, "path", <<>>) = Piece(c, d)
      /\ Url!Part(<<>>, "query", <<>>) = Piece(q, g)
      /\ Url!Part(<<>>, "fragment", <<>>) = Piece(k, e)
  <2>1. /\ b <= e /\ 1 <= b /\ u <= e /\ 1 <= y /\ c <= e /\ 1 <= c /\ d <= e /\ 1 <= q
        /\ g <= e /\ 1 <= k /\ e <= e
    BY <1>4
  <2>2. Url!Part(<<>>, "schema", <<":", "/", "/">>) = Piece(1, b)
    BY <1>1, <1>3, <1>4, <1>5, <1>6, <2>1, SchemaIs
  <2>3. Url!Part(<<>>, "userinfo", <<>>) = Piece(b, u)
    BY <1>1, <1>3, <1>4, <1>5, <2>1, PieceIs, FieldNames
  <2>4. Url!Part(<<":">>, "port", <<>>) = Piece(y, c)
    BY <1>1, <1>3, <1>4, <1>5, <2>1, PortIs
  <2>5. Url!Part(<<>>, "path", <<>>) = Piece(c, d)
    BY <1>1, <1>3, <1>4, <1>6, <2>1, PieceIs, FieldNames
  <2>6. Url!Part(<<>>, "query", <<>>) = Piece(q, g)
    BY <1>1, <1>3, <1>4, <1>6, <2>1, PieceIs, FieldNames
  <2>7. Url!Part(<<>>, "fragment", <<>>) = Piece(k, e)
    BY <1>1, <1>3, <1>4, <1>6, <2>1, PieceIs, FieldNames
  <2>. QED
    BY <2>2, <2>3, <2>4, <2>5, <2>6, <2>7
<1>8. Piece(u, v) \in {<<>>, <<"@">>}
  <2>1. u <= e /\ 1 <= u /\ (v = u + 1 => u < e)
    BY <1>4
  <2>. QED
    BY <1>1, <1>3, <1>5, <2>1, OnePiece
<1>9. Piece(d, q) \in {<<>>, <<"?">>}
  <2>1. d <= e /\ 1 <= d /\ (q = d + 1 => d < e)
    BY <1>4
  <2>. QED
    BY <1>1, <1>3, <1>6, <2>1, OnePiece
<1>10. Piece(g, k) = [i \in 1..(k - g) |-> "#"] /\ k - g \in 0..Len(urlRead)
  <2>1. 1 <= g
    BY <1>4
  <2>. QED
    BY <1>1, <1>3, <1>4, <1>6, <2>1, NumberSigns
<1>11. PICK v6 \in BOOLEAN :
         Url!Part(IF v6 THEN <<"[">> ELSE <<>>, "server",
                  IF v6 THEN <<"]">> ELSE <<>>) = Piece(v, y)
  <2>1. 1 <= v /\ y <= e /\ v <= e /\ o <= e /\ 1 <= o
    BY <1>4
  <2>2. CASE o = w
    <3>1. v = w /\ y = o
      BY <1>4, <1>5, <2>2
    <3>2. Url!Part(<<>>, "server", <<>>) = <<>>
      BY <1>5, <2>2, FieldNames DEF Url!Part, Url!Has, Url!Set, Is
    <3>3. Piece(v, y) = <<>>
      BY <1>1, <1>3, <2>1, <2>2, <3>1, OnePiece
    <3>. QED
      BY <3>2, <3>3
  <2>3. CASE o > w /\ w = v /\ y = o
    <3>1. Piece(v, w) = <<>> /\ Piece(o, y) = <<>>
      BY <1>1, <1>3, <2>1, <2>3, OnePiece
    <3>2. Url!Part(Piece(v, w), "server", Piece(o, y)) = Piece(v, y)
      BY <1>1, <1>3, <1>4, <1>5, <2>1, <2>3, HostIs
    <3>. QED
      BY <3>1, <3>2
  <2>4. CASE o > w /\ w = v + 1 /\ urlRead[v] = "[" /\ y = o + 1 /\ urlRead[o] = "]"
    <3>1. Piece(v, w) = <<"[">> /\ Piece(o, y) = <<"]">>
      <4>1. v < e /\ o < e
        BY <1>4, <2>4
      <4>. QED
        BY <1>1, <1>3, <2>1, <2>4, <4>1, OnePiece
    <3>2. Url!Part(Piece(v, w), "server", Piece(o, y)) = Piece(v, y)
      BY <1>1, <1>3, <1>4, <1>5, <2>1, <2>4, HostIs
    <3>. QED
      BY <3>1, <3>2
  <2>5. o = w \/ o > w
    BY <1>4
  <2>. QED
    BY <1>5, <2>2, <2>3, <2>4, <2>5
<1>12. ((((((((Piece(1, b) \o Piece(b, u)) \o Piece(u, v)) \o Piece(v, y)) \o Piece(y, c))
         \o Piece(c, d)) \o Piece(d, q)) \o Piece(q, g)) \o Piece(g, k)) \o Piece(k, e) = urlRead
  <2>. DEFINE G(j, l) == Piece(1, j) \o Piece(j, l) = Piece(1, l)
  <2>0. ASSUME NEW i \in Nat, NEW j \in Nat, NEW l \in Nat, i = 1, 1 <= j, j <= l, l <= e
        PROVE  Piece(i, j) \o Piece(j, l) = Piece(i, l)
    <3>1. 1 <= i /\ i <= j /\ l <= Behind
      BY <1>3, <2>0
    <3>. QED
      BY <1>1, <2>0, <3>1, Glue
  <2>1. \A j, l \in Nat : 1 <= j /\ j <= l /\ l <= e => G(j, l)
    BY <2>0
  <2>2. /\ 1 <= b /\ 1 <= u /\ 1 <= v /\ 1 <= y /\ 1 <= c /\ 1 <= d /\ 1 <= q /\ 1 <= g /\ 1 <= k
        /\ u <= e /\ v <= e /\ y <= e /\ c <= e /\ d <= e /\ q <= e /\ g <= e /\ k <= e
        /\ v <= y /\ y <= c /\ e <= e
    BY <1>4
  <2>3. /\ G(b, u) /\ G(u, v) /\ G(v, y) /\ G(y, c) /\ G(c, d) /\ G(d, q) /\ G(q, g) /\ G(g, k)
        /\ G(k, e)
    <3>. HIDE DEF G
    <3>. QED
      BY <1>4, <2>1, <2>2
  <2>4. Piece(1, e) = urlRead
    BY <1>1, <1>3, WholeUrl
  <2>. QED
    BY <2>3, <2>4
<1>13. urlRead = Url!Joined(Piece(u, v), Piece(d, q), [i \in 1..(k - g) |-> "#"],
                    IF v6 THEN <<"[">> ELSE <<>>, IF v6 THEN <<"]">> ELSE <<>>)
  BY <1>7, <1>10, <1>11, <1>12 DEF Url!Joined
<1>. QED
  BY <1>8, <1>9, <1>10, <1>13

(* A field holds the characters its states accept, no other ones.          *)
LEMMA InvFieldsArePure == UrlInv => Url!FieldsArePure
<1>. SUFFICES ASSUME UrlInv, urlResult = "ok"
              PROVE  /\ \A i \in DOMAIN Url!Text("server") :
                          Url!Text("server")[i] \notin {"@", "/", "?", "#", "[", "]"}
                     /\ \A i \in DOMAIN Url!Text("path") : Url!Text("path")[i] \notin {"?", "#"}
                     /\ \A i \in DOMAIN Url!Text("query") : Url!Text("query")[i] # "#"
                     /\ \A i \in DOMAIN Url!Text("port") : Url!Text("port")[i] \in Url!Num
                     /\ "userinfo" \in Url!Set(urlField) => "server" \in Url!Set(urlField)
  BY DEF Url!FieldsArePure
<1>1. UrlTyped
  BY DEF UrlInv
<1>2. PICK a \in Nat, b \in Nat, c \in Nat, d \in Nat, q \in Nat, g \in Nat, k \in Nat,
           u \in Nat, v \in Nat, w \in Nat, o \in Nat, y \in Nat, z \in Nat :
        Parts(a, b, c, d, q, g, k, u, v, w, o, y, z)
  BY AcceptedParts
<1>3. /\ 1 <= a /\ a <= b /\ b <= u /\ u <= v /\ v <= w /\ w <= o /\ o <= y /\ y <= z
      /\ z <= c /\ c <= d /\ d <= q /\ q <= g /\ g <= k /\ k <= Behind /\ Behind \in Nat
  BY <1>1, <1>2, Ordered
<1>4. /\ Is(urlField, "server", w, o) /\ Is(urlField, "port", z, c)
      /\ Is(urlField, "userinfo", b, u)
      /\ Is(urlField, "path", c, d) /\ Is(urlField, "query", q, g)
      /\ Over(w, o, HostText) /\ Over(z, c, Url!Num) /\ Over(c, d, Url!UrlChar)
      /\ Over(q, g, Url!UrlChar \cup {"?"})
      /\ o > w \/ (a = 1 /\ b = c)
  BY <1>2 DEF Parts, Outer
<1>5. ASSUME NEW t \in Url!Fields, NEW i \in Nat, NEW j \in Nat, 1 <= i, i <= j, j <= Behind,
             Is(urlField, t, i, j), NEW S, Over(i, j, S)
      PROVE  \A m \in DOMAIN Url!Text(t) : Url!Text(t)[m] \in S
  <2>1. CASE j > i
    BY <1>1, <1>5, <2>1, PieceIs, PieceOver
  <2>2. CASE j = i
    <3>1. urlField[t].len = 0 /\ urlField[t].off \in Nat
      BY <1>1, <1>5, <2>2, FieldType DEF Is
    <3>2. Url!Text(t) = SubSeq(urlRead, urlField[t].off, urlField[t].off - 1)
      BY <3>1 DEF Url!Text
    <3>3. DOMAIN Url!Text(t) = {}
      BY <1>1, <3>1, <3>2 DEF UrlTyped
    <3>. QED
      BY <3>3
  <2>. QED
    BY <1>5, <2>1, <2>2
<1>6. /\ 1 <= w /\ o <= Behind /\ 1 <= z /\ c <= Behind /\ 1 <= c /\ d <= Behind /\ 1 <= q
      /\ g <= Behind
  BY <1>3
<1>7. /\ \A i \in DOMAIN Url!Text("server") : Url!Text("server")[i] \in HostText
      /\ \A i \in DOMAIN Url!Text("port") : Url!Text("port")[i] \in Url!Num
      /\ \A i \in DOMAIN Url!Text("path") : Url!Text("path")[i] \in Url!UrlChar
      /\ \A i \in DOMAIN Url!Text("query") : Url!Text("query")[i] \in Url!UrlChar \cup {"?"}
  <2>1. \A i \in DOMAIN Url!Text("server") : Url!Text("server")[i] \in HostText
    BY <1>3, <1>4, <1>5, <1>6, FieldNames
  <2>2. \A i \in DOMAIN Url!Text("port") : Url!Text("port")[i] \in Url!Num
    BY <1>3, <1>4, <1>5, <1>6, FieldNames
  <2>3. \A i \in DOMAIN Url!Text("path") : Url!Text("path")[i] \in Url!UrlChar
    BY <1>3, <1>4, <1>5, <1>6, FieldNames
  <2>4. \A i \in DOMAIN Url!Text("query") : Url!Text("query")[i] \in Url!UrlChar \cup {"?"}
    BY <1>3, <1>4, <1>5, <1>6, FieldNames
  <2>. QED
    BY <2>1, <2>2, <2>3, <2>4
<1>8. "userinfo" \in Url!Set(urlField) => "server" \in Url!Set(urlField)
  <2>1. u > b => o > w
    BY <1>3, <1>4
  <2>2. urlField["userinfo"].len = u - b /\ urlField["server"].len = o - w
    BY <1>4 DEF Is
  <2>. QED
    BY <2>1, <2>2, FieldNames DEF Url!Set
<1>9. /\ "#" \notin Url!UrlChar \cup {"?"} /\ "?" \notin Url!UrlChar
      /\ HostText \cap {"@", "/", "?", "#", "[", "]"} = {}
  BY DEF Url!UrlChar, Url!UserChar, HostText, Url!HostChar, Url!Hex, Url!Alpha, Url!Num
<1>. QED
  BY <1>7, <1>8, <1>9

(* A schema leads to a host, and a host leaves a field.                    *)
LEMMA InvHostIsPresent == UrlInv => Url!HostIsPresent
<1>. SUFFICES ASSUME UrlInv, urlResult = "ok", ~forConnect
              PROVE  Url!Has("schema") => Url!Has("server")
  BY DEF Url!HostIsPresent, UrlInv, Accepted, UrlTyped
<1>1. UrlTyped
  BY DEF UrlInv
<1>2. PICK a \in Nat, b \in Nat, c \in Nat, d \in Nat, q \in Nat, g \in Nat, k \in Nat,
           u \in Nat, v \in Nat, w \in Nat, o \in Nat, y \in Nat, z \in Nat :
        Parts(a, b, c, d, q, g, k, u, v, w, o, y, z)
  BY AcceptedParts
<1>3. /\ urlField["schema"].len = a - 1 /\ urlField["server"].len = o - w
      /\ o > w \/ a = 1
  BY <1>2 DEF Parts, Outer, Is
<1>. QED
  BY <1>3, FieldNames DEF Url!Has, Url!Set

(* For URLs of any length, with and without CONNECT: what                  *)
(* http_parser_parse_url accepts is its fields put together, no field holds*)
(* what begins the next one, and a host is there where one is needed.      *)
THEOREM UrlCorrect ==
  Url!Spec => [](Url!TypeOK /\ Url!FieldsMakeUrl /\ Url!FieldsArePure /\ Url!HostIsPresent)
BY UrlInvariance, InvTypeOK, InvFieldsMakeUrl, InvFieldsArePure, InvHostIsPresent, PTL

-----------------------------------------------------------------------------
(* Both                                                                    *)

(* Whichever is read, each of the two is described: the other stays as it  *)
(* is.                                                                     *)
LEMMA StreamAndUrl == HttpSpec => Spec /\ Url!Spec
<1>1. HttpInit => Init /\ Url!Init
  BY DEF HttpInit
<1>2. [HttpNext]_httpVars => [Next]_vars
  <2>. SUFFICES ASSUME [HttpNext]_httpVars PROVE [Next]_vars
    OBVIOUS
  <2>1. CASE StreamStep
    BY <2>1 DEF StreamStep
  <2>2. CASE UrlStep
    BY <2>2 DEF UrlStep, streamVars
  <2>3. CASE UNCHANGED httpVars
    BY <2>3 DEF httpVars, streamVars
  <2>. QED
    BY <2>1, <2>2, <2>3 DEF HttpNext
<1>3. [HttpNext]_httpVars => [Url!Next]_(Url!vars)
  <2>. SUFFICES ASSUME [HttpNext]_httpVars PROVE [Url!Next]_(Url!vars)
    OBVIOUS
  <2>1. CASE StreamStep
    BY <2>1 DEF StreamStep, urlVars, Url!vars
  <2>2. CASE UrlStep
    BY <2>2 DEF UrlStep
  <2>3. CASE UNCHANGED httpVars
    BY <2>3 DEF httpVars, urlVars, Url!vars
  <2>. QED
    BY <2>1, <2>2, <2>3 DEF HttpNext
<1>. QED
  BY <1>1, <1>2, <1>3, PTL DEF HttpSpec, Spec, Url!Spec

(* The URL part of what the run checks, with no condition on the stream.   *)
THEOREM UrlFieldsCorrect == HttpSpec => []UrlIsItsFields
<1>1. Url!TypeOK /\ Url!FieldsMakeUrl /\ Url!FieldsArePure /\ Url!HostIsPresent
        => UrlIsItsFields
  BY DEF UrlIsItsFields
<1>. QED
  BY <1>1, StreamAndUrl, UrlCorrect, PTL

(* What the run checks of HttpParser.cpp: if the headers are within a      *)
(* fifth of the limit and all characters visible, cuts and pauses make no  *)
(* difference to a stream; and an accepted URL is its fields.              *)
THEOREM HttpCorrect ==
  VisibleOnly /\ HeadersFit => (HttpSpec => [](CutsMakeNoDifference /\ UrlIsItsFields))
<1>. SUFFICES ASSUME VisibleOnly, HeadersFit
              PROVE  HttpSpec => [](CutsMakeNoDifference /\ UrlIsItsFields)
  OBVIOUS
<1>1. Spec => []CutsMakeNoDifference
  BY CutAnywhere
<1>. QED
  BY <1>1, StreamAndUrl, UrlFieldsCorrect, PTL
=============================================================================
