--------------------------- MODULE MCNodeRegistry ---------------------------
(* NodeRegistry with a router and two peers, or one.                       *)
EXTENDS NodeRegistry

CONSTANTS p1, p2

OnePeer == {p1}
TwoPeers == {p1, p2}
=============================================================================
