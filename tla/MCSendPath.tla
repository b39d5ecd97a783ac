----------------------------- MODULE MCSendPath -----------------------------
(* SendPath on small instances.  Workers are interchangeable.              *)
EXTENDS SendPath, TLC

CONSTANTS w1, w2, n1, p1, db

OneWorker == {w1}
TwoWorkers == {w1, w2}
MCNode == {n1}
MCPeer == {p1}
MCSid == {db}
MCSidOf == n1 :> db @@ p1 :> db

WorkerSymmetry == Permutations(TwoWorkers)
=============================================================================
