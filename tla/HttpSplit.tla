----------------------------- MODULE HttpSplit ------------------------------
(***************************************************************************)
(* Two HttpParsers on one stream: x is called with the bytes in pieces and *)
(* paused by its callbacks, whole gets everything in one call.  The stream *)
(* is anything at all behind its beginning, right or wrong.                *)
(***************************************************************************)
EXTENDS HttpParser

CONSTANTS
  Beginnings, \* how the stream may begin
  Alphabet,   \* the lexemes that follow
  MaxMore     \* bound: how many follow

(* What the stream is made of.                                             *)
Lexemes == Alphabet \cup UNION {{b[i] : i \in DOMAIN b} : b \in Beginnings}

ASSUME SplitAssumption ==
  HttpAssumption /\ Beginnings \subseteq Seq(Lexemes) /\ MaxMore \in Nat

VARIABLES whole, more

vars == <<stream, x, whole, more>>

Init ==
  /\ stream \in Beginnings /\ more = MaxMore
  /\ x = Parser("request") /\ whole = x

Grow ==
  /\ Reading /\ x.pos > Len(stream) /\ more > 0
  /\ \E c \in Alphabet : stream' = Append(stream, c)
  /\ more' = more - 1
  /\ UNCHANGED <<x, whole>>

(* Both parsers read the next lexeme and get the same answer.              *)
Step ==
  /\ Reading /\ whole.err = "OK" /\ x.pos <= Len(stream)
  /\ \E answer \in Answers : x' = Execute(x, answer) /\ whole' = Execute(whole, answer)
  /\ UNCHANGED <<stream, more>>

Next == Grow \/ Step \/ ((NextCall \/ Pause) /\ UNCHANGED <<whole, more>>)

Spec == Init /\ [][Next]_vars

-----------------------------------------------------------------------------
(* Properties                                                              *)

Knows(r) == r.seen \o Marked(r, r.pos)

(* Where the stream is cut, and which callbacks pause the parser, makes no *)
(* difference to what it takes the stream for: the same state, the same    *)
(* error at the same byte, the same names, values and bodies up to here.   *)
SplitIndependent ==
  /\ x.err = whole.err /\ x.pos = whole.pos /\ x.st = whole.st /\ x.exit = whole.exit
  /\ x.flags = whole.flags /\ x.len = whole.len
  /\ Knows(x) = Knows(whole)

(* Of any stream at all: the parser's types and assertions hold when it is *)
(* called piece by piece, and the pieces make no difference to its state,  *)
(* its error and what the application knows.                               *)
CutsMakeNoDifference == TypeOK /\ AssertionsHold /\ SplitIndependent

(* "Verify that a char is a valid visible (printable) US-ASCII character"  *)
(* (HttpParser.cpp:440): the application sees no other in a value.         *)
ValuesAreVisible == \A i \in DOMAIN x.seen : x.seen[i] # <<"value", "ctl">>
=============================================================================
