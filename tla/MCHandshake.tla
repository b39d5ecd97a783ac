---------------------------- MODULE MCHandshake -----------------------------
(* Handshake with three nodes in a chain: the one in the middle dials and  *)
(* is dialled.                                                             *)
EXTENDS Handshake

Chain == {<<1, 2>>, <<2, 3>>}
=============================================================================
