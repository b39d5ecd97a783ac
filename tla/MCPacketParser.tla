--------------------------- MODULE MCPacketParser ---------------------------
(* PacketParser with short headers, a receive buffer smaller than the      *)
(* largest packet, bodies that look like headers, and junk.                *)
EXTENDS PacketParser

T1 == 10
T2 == 11

PlainBody == {<<>>, <<0, 0, 0, 0, 0, 0>>}
AnyBody == PlainBody \cup {<<T1, T2>>, <<T1, T2, 9, 1, 7>>}
SomeJunk == {<<0, 0>>, <<0, T1>>}
=============================================================================
