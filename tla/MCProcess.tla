----------------------------- MODULE MCProcess ------------------------------
(***************************************************************************)
(* Process with the files of ConfigFile: all short ones over what matters  *)
(* to the reader, and lists of service types, as in "1=2  12": alone, with *)
(* a line end, and before a line that sets the key again.  The longest     *)
(* lists fill the reader's buffer, with and without their line end, or do  *)
(* not fit it.                                                             *)
(***************************************************************************)
EXTENDS Process

MCKey == <<"1">>
MCKnown == {<<"1">>, <<"2">>, <<"1", "2">>}

Lists == UNION {[1..n -> {"1", "2", "SP"}] : n \in 0..7}
ListEnds == {<<>>, <<"LF">>, <<"LF", "1", "=", "2", "CR">>}

MCFiles ==
  UNION {[1..n -> {"1", "=", "#", "SP", "CR", "LF"}] : n \in 0..5}
  \cup {<<"1", "=">> \o l \o e : l \in Lists, e \in ListEnds}
=============================================================================
