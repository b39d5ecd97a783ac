----------------------------- MODULE ReplyReader ----------------------------
(***************************************************************************)
(* hiredis' reader of replies (and its formatting of commands).  The bytes *)
(* of a reply come in pieces of any size; the reader keeps a stack of       *)
(* tasks, one for each array it is inside of, and a cursor, and goes on     *)
(* where the last piece ended.                                             *)
(***************************************************************************)
EXTENDS Integers, Sequences, SequencesExt

CONSTANTS
  Streams,  \* sequences of replies, as trees: [type, val, sub]
  MaxTask,  \* the size of rstack: 9
  Discard,  \* from how many consumed bytes on the buffer is cut: 1024
  MaxRead   \* what one read of the socket may bring: 2048

ReplyReaderAssumption ==
  MaxTask \in Nat \ {0} /\ Discard \in Nat \ {0} /\ MaxRead \in Nat \ {0}

VARIABLES
  stream,  \* what the server sends
  fed,     \* how many of its bytes have been read
  pc,      \* "feed": GetReply returned; "items": in GetReply; "error"
  buf, pos,\* the reader's buffer and cursor
  rstack,  \* its tasks 0..ridx: [type, elements, idx]
  reply,   \* the objects made for the reply so far: <<path, type, val>>
  out      \* the replies handed to the caller

vars == <<stream, fed, pc, buf, pos, rstack, reply, out>>

-----------------------------------------------------------------------------
(* The protocol                                                            *)

Digit == <<"0", "1", "2", "3", "4", "5", "6", "7", "8", "9">>
CRLF == <<"CR", "LF">>

RECURSIVE Decimal(_)
Decimal(n) ==
  IF n < 10 THEN <<Digit[n + 1]>> ELSE Decimal(n \div 10) \o <<Digit[(n % 10) + 1]>>

Bulk(s) == <<"$">> \o Decimal(Len(s)) \o CRLF \o s \o CRLF

(* What a server sends for a reply.                                        *)
RECURSIVE Encode(_)
Encode(t) ==
  CASE t.type = "status" -> <<"+">> \o t.val \o CRLF
    [] t.type = "error" -> <<"-">> \o t.val \o CRLF
    [] t.type = "integer" -> <<":">> \o t.val \o CRLF
    [] t.type = "string" -> Bulk(t.val)
    [] t.type = "nil" -> <<"$", "-", "1">> \o CRLF
    [] t.type = "nilarray" -> <<"*", "-", "1">> \o CRLF
    [] t.type = "array" ->
         <<"*">> \o Decimal(Len(t.sub)) \o CRLF
         \o FlattenSeq([i \in 1..Len(t.sub) |-> Encode(t.sub[i])])

Sent == FlattenSeq([i \in 1..Len(stream) |-> Encode(stream[i])])

(* The objects of a reply, by their place in it.                           *)
RECURSIVE Objects(_, _)
Objects(t, path) ==
  {<<path, IF t.type = "nilarray" THEN "nil" ELSE t.type,
     IF t.type = "array" THEN Decimal(Len(t.sub)) ELSE t.val>>}
  \cup UNION {Objects(t.sub[i], Append(path, i - 1)) : i \in 1..Len(t.sub)}

(* How many characters a number needs.                                     *)
RECURSIVE intlen(_)
intlen(i) == IF i < 10 THEN 1 ELSE 1 + intlen(i \div 10)

(* redisFormatCommandArgv: the length of a command is computed first ...   *)
totlen(argv) ==
  1 + intlen(Len(argv)) + 2
  + FoldLeft(LAMBDA n, a : n + 1 + intlen(Len(a)) + 2 + Len(a) + 2, 0, argv)

(* ... then its bytes are written.                                         *)
redisFormatCommandArgv(argv) ==
  <<"*">> \o Decimal(Len(argv)) \o CRLF
  \o FlattenSeq([i \in 1..Len(argv) |-> Bulk(argv[i])])

-----------------------------------------------------------------------------
(* Reading                                                                 *)

Task == [type |-> "none", elements |-> -1, idx |-> -1]

Init ==
  /\ stream \in Streams
  /\ fed = 0 /\ pc = "feed"
  /\ buf = <<>> /\ pos = 0 /\ rstack = <<>> /\ reply = {} /\ out = <<>>

(* redisBufferRead and redisReplyReaderFeed; then redisReplyReaderGetReply *)
(* starts a task if there is none.                                         *)
Feed(n) ==
  /\ pc = "feed" /\ fed + n <= Len(Sent)
  /\ buf' = buf \o SubSeq(Sent, fed + 1, fed + n)
  /\ fed' = fed + n
  /\ pc' = "items"
  /\ rstack' = IF rstack = <<>> THEN <<Task>> ELSE rstack
  /\ UNCHANGED <<stream, pos, reply, out>>

Cur == Last(rstack)
InItems == pc = "items" /\ rstack # <<>>

(* The place of the object that is read next.                              *)
Path == [i \in 1..Len(rstack) - 1 |-> rstack[i + 1].idx]

(* Wrong version: any CR ends the line.                                    *)
seekNewlineCr ==
  LET I == {i \in pos + 1..Len(buf) - 1 : buf[i] = "CR"}
  IN IF I = {} THEN 0 ELSE CHOOSE i \in I : \A j \in I : i <= j

(* The end of the line at the cursor: the place of its CR, 0 if it is not  *)
(* there yet.                                                              *)
seekNewline ==
  LET I == {i \in pos + 1..Len(buf) - 1 : buf[i] = "CR" /\ buf[i + 1] = "LF"}
  IN IF I = {} THEN 0 ELSE CHOOSE i \in I : \A j \in I : i <= j

Line == SubSeq(buf, pos + 1, seekNewline - 1)

(* readLongLong, for lengths: -1 for a negative number or none.            *)
readLongLong(s) ==
  IF \E i \in 1..Len(s) : ~\E d \in 1..10 : Digit[d] = s[i] THEN -1
  ELSE FoldLeft(LAMBDA n, c : 10 * n + (CHOOSE d \in 1..10 : Digit[d] = c) - 1, 0, s)

(* What is done is taken off the stack; the next element of the innermost  *)
(* array that has one can be anything.                                     *)
moveToNextTask(st) ==
  LET I == {i \in 2..Len(st) : st[i].idx # st[i - 1].elements - 1}
  IN IF I = {} THEN <<>>
     ELSE LET k == CHOOSE i \in I : \A j \in I : j <= i IN
          [SubSeq(st, 1, k) EXCEPT ![k] = [Task EXCEPT !.idx = st[k].idx + 1]]

TypeByte ==
  [c \in {"-", "+", ":", "$", "*"} |->
     CASE c = "-" -> "error" [] c = "+" -> "status" [] c = ":" -> "integer"
       [] c = "$" -> "string" [] c = "*" -> "array"]

(* The first byte of an item; it is consumed also when the rest is not     *)
(* there.  (Other bytes are a protocol error; a server does not send them.) *)
TakeType ==
  /\ InItems /\ Cur.type = "none" /\ pos < Len(buf)
  /\ buf[pos + 1] \in DOMAIN TypeByte
  /\ rstack' = [rstack EXCEPT ![Len(rstack)].type = TypeByte[buf[pos + 1]]]
  /\ pos' = pos + 1
  /\ UNCHANGED <<stream, fed, pc, buf, reply, out>>

processLineItem ==
  /\ InItems /\ Cur.type \in {"error", "status", "integer"} /\ seekNewline # 0
  /\ reply' = reply \cup {<<Path, Cur.type, Line>>}
  /\ pos' = seekNewline + 1
  /\ rstack' = moveToNextTask(rstack)
  /\ UNCHANGED <<stream, fed, pc, buf, out>>

(* Where the cursor is behind a string of this length.                     *)
bulkEnd(len) == seekNewline + 1 + len + 2

bulkComplete(len) == seekNewline + 1 + len + 2 <= Len(buf)

(* A negative length makes a nil; else all of the string must be there.    *)
processBulkItem ==
  LET len == readLongLong(Line) IN
  /\ InItems /\ Cur.type = "string" /\ seekNewline # 0
  /\ \/ /\ len < 0
        /\ reply' = reply \cup {<<Path, "nil", <<>>>>}
        /\ pos' = seekNewline + 1
     \/ /\ len >= 0 /\ bulkComplete(len)
        /\ reply' = reply \cup {<<Path, "string", SubSeq(buf, seekNewline + 2, seekNewline + 1 + len)>>}
        /\ pos' = bulkEnd(len)
  /\ rstack' = moveToNextTask(rstack)
  /\ UNCHANGED <<stream, fed, pc, buf, out>>

StackFull == Len(rstack) = MaxTask

(* An array with elements begins a task for the first of them.             *)
processMultiBulkItem ==
  LET elements == readLongLong(Line) IN
  /\ InItems /\ Cur.type = "array" /\ ~StackFull /\ seekNewline # 0
  /\ pos' = seekNewline + 1
  /\ reply' = reply \cup
       {IF elements = -1 THEN <<Path, "nil", <<>>>> ELSE <<Path, "array", Line>>}
  /\ rstack' = IF elements > 0
                 THEN Append([rstack EXCEPT ![Len(rstack)].elements = elements],
                             [Task EXCEPT !.idx = 0])
                 ELSE moveToNextTask(rstack)
  /\ UNCHANGED <<stream, fed, pc, buf, out>>

(* redisSetReplyReaderError: what was made is freed, the buffer cleared.   *)
TooDeep ==
  /\ InItems /\ Cur.type = "array" /\ StackFull
  /\ pc' = "error"
  /\ buf' = <<>> /\ pos' = 0 /\ rstack' = <<>> /\ reply' = {}
  /\ UNCHANGED <<stream, fed, out>>

Stuck ==
  \/ Cur.type = "none" /\ pos = Len(buf)
  \/ Cur.type # "none" /\ ~StackFull /\ seekNewline = 0
  \/ /\ Cur.type = "string" /\ seekNewline # 0
     /\ readLongLong(Line) >= 0 /\ ~bulkComplete(readLongLong(Line))

(* GetReply cuts the buffer and returns: without a reply, for more bytes,  *)
(* or with one; then it is called again (here at once) for the next.       *)
Cut ==
  IF pos >= Discard THEN buf' = SubSeq(buf, pos + 1, Len(buf)) /\ pos' = 0
  ELSE UNCHANGED <<buf, pos>>

NeedMore ==
  /\ InItems /\ Stuck
  /\ pc' = "feed" /\ Cut
  /\ UNCHANGED <<stream, fed, rstack, reply, out>>

Emit ==
  /\ pc = "items" /\ rstack = <<>>
  /\ out' = Append(out, reply) /\ reply' = {}
  /\ Cut
  /\ IF buf' = <<>> THEN pc' = "feed" /\ UNCHANGED rstack
                    ELSE UNCHANGED pc /\ rstack' = <<Task>>
  /\ UNCHANGED <<stream, fed>>

Next ==
  \/ \E n \in 1..MaxRead : Feed(n)
  \/ TakeType \/ processLineItem \/ processBulkItem \/ processMultiBulkItem
  \/ TooDeep \/ NeedMore \/ Emit

Spec == Init /\ [][Next]_vars

-----------------------------------------------------------------------------
(* Properties                                                              *)

(* Types; the stack fits rstack, and each task is at an element its array  *)
(* has.                                                                    *)
TypeOK ==
  /\ stream \in Streams /\ fed \in 0..Len(Sent)
  /\ pc \in {"feed", "items", "error"}
  /\ pos \in 0..Len(buf)
  /\ Len(rstack) <= MaxTask
  /\ \A i \in 2..Len(rstack) :
       rstack[i - 1].type = "array" /\ rstack[i].idx \in 0..rstack[i - 1].elements - 1

(* Whatever the pieces are in which the bytes arrive: the caller gets the  *)
(* replies that were sent, each element in its place, in order ...         *)
RepliesAsSent ==
  /\ Len(out) <= Len(stream)
  /\ \A i \in 1..Len(out) : out[i] = Objects(stream[i], <<>>)

(* ... and each as soon as its last byte is there: a caller does not wait   *)
(* in read() for a byte that nobody will send.                             *)
RepliesInTime ==
  pc = "feed" =>
    \A i \in 1..Len(stream) :
      fed >= Len(FlattenSeq([j \in 1..i |-> Encode(stream[j])])) => Len(out) >= i

(* "No support for nested multi bulk replies with depth > 7"               *)
(* (hiredis.c:367): one of less depth is read.                             *)
DepthSupported ==
  pc = "error" =>
    \E i \in 1..Len(stream) : \E o \in Objects(stream[i], <<>>) :
      o[2] \in {"array", "nil"} /\ Len(o[1]) > MaxTask - 2

(* Commands, arrays of strings, are written into exactly the memory that   *)
(* was computed for them ("assert(pos == totlen)", hiredis.c:812), and     *)
(* what is written is read as the arguments.                               *)
CommandsFit ==
  \A i \in 1..Len(stream) :
    stream[i].type = "array" /\ (\A j \in 1..Len(stream[i].sub) : stream[i].sub[j].type = "string")
      => LET argv == [j \in 1..Len(stream[i].sub) |-> stream[i].sub[j].val] IN
         /\ Len(redisFormatCommandArgv(argv)) = totlen(argv)
         /\ redisFormatCommandArgv(argv) = Encode(stream[i])
=============================================================================
