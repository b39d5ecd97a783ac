---------------------------- MODULE CommandFormat ---------------------------
(***************************************************************************)
(* hiredis' redisvFormatCommand: a format and its arguments are made into  *)
(* the words of a command.  The format is read character by character; a   *)
(* word ends at a space of the format, never at one of an argument, and an *)
(* empty argument is a word like any other.                                *)
(***************************************************************************)
EXTENDS Integers, Sequences, SequencesExt, FiniteSetsExt

CONSTANTS
  Formats,    \* sequences of tokens: [kind, text], text the characters
  Arguments,  \* sequences of texts: what the caller passes
  FormatSize  \* the size of _format: 16

CommandFormatAssumption == FormatSize \in Nat \ {0}

VARIABLES
  toks,     \* the format as its author means it
  args,     \* the arguments
  c,        \* the place in the format
  ap,       \* the argument va_arg takes next
  current, touched,
  argv, totlen,
  done

vars == <<toks, args, c, ap, current, touched, argv, totlen, done>>

format == FlattenSeq([i \in 1..Len(toks) |-> toks[i].text])
At(i) == IF i <= Len(format) THEN format[i] ELSE "NUL"

RECURSIVE intlen(_)
intlen(i) == IF i < 10 THEN 1 ELSE 1 + intlen(i \div 10)

Init ==
  /\ toks \in Formats /\ args \in Arguments
  /\ c = 1 /\ ap = 1
  /\ current = <<>> /\ touched = FALSE
  /\ argv = <<>> /\ totlen = 0
  /\ done = FALSE

addArgument ==
  /\ argv' = Append(argv, current)
  /\ totlen' = totlen + 1 + intlen(Len(current)) + 2 + Len(current) + 2

Reading == ~done /\ c <= Len(format)
Percent == Reading /\ At(c) = "%" /\ c < Len(format)

(* A space ends the word if there is one.                                  *)
Space ==
  /\ Reading /\ At(c) = " "
  /\ IF touched THEN addArgument ELSE UNCHANGED <<argv, totlen>>
  /\ current' = <<>> /\ touched' = FALSE
  /\ c' = c + 1
  /\ UNCHANGED <<toks, args, ap, done>>

Ordinary ==
  /\ Reading /\ ~Percent /\ At(c) # " "
  /\ current' = Append(current, At(c)) /\ touched' = TRUE
  /\ c' = c + 1
  /\ UNCHANGED <<toks, args, ap, argv, totlen, done>>

(* Wrong version: an empty argument does not make a word.                  *)
InterpolateTouch ==
  /\ Percent /\ At(c + 1) \in {"s", "b"}
  /\ current' = current \o args[ap] /\ ap' = ap + 1
  /\ touched' = (touched \/ args[ap] # <<>>) /\ c' = c + 2
  /\ UNCHANGED <<toks, args, argv, totlen, done>>

(* %s and %b (whose pointer and length count as one argument here).        *)
Interpolate ==
  /\ Percent /\ At(c + 1) \in {"s", "b"}
  /\ current' = current \o args[ap] /\ ap' = ap + 1
  /\ touched' = TRUE /\ c' = c + 2
  /\ UNCHANGED <<toks, args, argv, totlen, done>>

PercentSign ==
  /\ Percent /\ At(c + 1) = "%"
  /\ current' = Append(current, "%")
  /\ touched' = TRUE /\ c' = c + 2
  /\ UNCHANGED <<toks, args, ap, argv, totlen, done>>

-----------------------------------------------------------------------------
(* What printf would take: flags in this order, width, precision, h, hh, l *)
(* or ll, and the conversion; the texts only use some of them.             *)

One(i, ch) == IF At(i) = ch THEN i + 1 ELSE i
Flags(i) == One(One(One(One(One(i, "#"), "0"), "-"), " "), "+")
Digits(i) == Min({j \in i..Len(format) + 1 : At(j) \notin {"0", "3", "9"}})
Precision(i) == IF At(i) = "." THEN Digits(i + 1) ELSE i
Modifiers(i) ==
  IF At(i) \in {"h", "l"} THEN One(i + 1, At(i)) ELSE i
Specifier == Modifiers(Precision(Digits(Flags(c + 1))))
Conversions ==
  {"d", "i", "o", "u", "x", "X", "e", "E", "f", "F", "g", "G", "a", "A"}
IsConversion == At(Specifier) \in Conversions /\ Specifier + 1 - c < FormatSize - 2

PercentOther == Percent /\ At(c + 1) \notin {"s", "b", "%"}

(* vsnprintf works on a copy of ap, and ap itself is not moved on.  (If    *)
(* the argument there is of another kind, what it prints is undefined.)    *)
Printf ==
  /\ PercentOther /\ IsConversion
  /\ current' = current \o args[ap]
  /\ touched' = TRUE /\ c' = Specifier + 1
  /\ UNCHANGED <<toks, args, ap, argv, totlen, done>>

(* Anything else, a conversion that is too long for _format among it, is   *)
(* passed over with the character behind the %.                            *)
Unknown ==
  /\ PercentOther /\ ~IsConversion
  /\ touched' = TRUE /\ c' = c + 2
  /\ UNCHANGED <<toks, args, ap, current, argv, totlen, done>>

(* The last word, and the length of the count of words in front.           *)
Finish ==
  /\ ~done /\ c > Len(format)
  /\ argv' = IF touched THEN Append(argv, current) ELSE argv
  /\ totlen' = totlen + 1 + intlen(Len(argv')) + 2
               + (IF touched THEN 1 + intlen(Len(current)) + 2 + Len(current) + 2 ELSE 0)
  /\ done' = TRUE
  /\ UNCHANGED <<toks, args, c, ap, current, touched>>

Next ==
  \/ Space \/ Ordinary \/ Interpolate \/ PercentSign \/ Printf \/ Unknown \/ Finish

Spec == Init /\ [][Next]_vars

-----------------------------------------------------------------------------
(* Properties                                                              *)

N == Len(toks)
Takes(i) == toks[i].kind \in {"arg", "conversion"}

(* What a token stands for: the k-th that takes an argument stands for the *)
(* k-th argument.                                                          *)
Stands(i) ==
  CASE Takes(i) -> args[Cardinality({j \in 1..i : Takes(j)})]
    [] toks[i].kind = "text" -> toks[i].text
    [] toks[i].kind = "percent" -> <<"%">>
    [] toks[i].kind = "unknown" -> <<>>

(* The words of the format, as intervals of tokens between spaces.         *)
Word ==
  {w \in (1..N) \X (1..N) :
     /\ w[1] <= w[2] /\ \A i \in w[1]..w[2] : toks[i].kind # "space"
     /\ w[1] = 1 \/ toks[w[1] - 1].kind = "space"
     /\ w[2] = N \/ toks[w[2] + 1].kind = "space"}
Nth(k) == CHOOSE w \in Word : Cardinality({v \in Word : v[1] < w[1]}) = k - 1
Meant ==
  [k \in 1..Cardinality(Word) |->
     LET w == Nth(k) IN FlattenSeq([i \in 1..w[2] - w[1] + 1 |-> Stands(w[1] + i - 1)])]

(* No argument is taken behind a conversion like %d, and none is too long. *)
ConversionIsLast ==
  \A i \in 1..N : toks[i].kind = "conversion" =>
    /\ \A j \in i + 1..N : ~Takes(j)
    /\ Len(toks[i].text) < FormatSize - 2

(* Types; and a word that nothing was put in has no text.                  *)
TypeOK ==
  /\ c \in 1..Len(format) + 1 /\ ap \in 1..Len(args) + 1
  /\ touched \in BOOLEAN /\ done \in BOOLEAN /\ totlen \in Nat
  /\ ~touched => current = <<>>

(* The command has a word for every word of the format, with the arguments *)
(* where their specifiers stand, whatever is in them: an empty argument is *)
(* an empty word and not a missing one, and text that looks like a         *)
(* specifier is none.                                                      *)
WordsAreMeant == done /\ ConversionIsLast => argv = Meant

(* Exactly the memory that was computed is written ("assert(pos ==         *)
(* totlen)", hiredis.c:750), although the length is added up word by word  *)
(* before their number is known.                                           *)
Width(n) == Len(ToString(n))
LengthFits ==
  done =>
    totlen = 1 + Width(Len(argv)) + 2
             + FoldLeft(LAMBDA n, a : n + 1 + Width(Len(a)) + 2 + Len(a) + 2, 0, argv)

(* What the comment at hiredis.c:714 says, "Consume and discard vararg":   *)
(* each specifier gets its own argument.                                   *)
ArgsConsumed ==
  done /\ (\A i \in 1..N : Len(toks[i].text) < FormatSize - 2) => argv = Meant
=============================================================================
