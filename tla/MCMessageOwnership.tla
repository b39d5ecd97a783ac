------------------------- MODULE MCMessageOwnership -------------------------
(***************************************************************************)
(* MessageOwnership with a header of 3 bytes and 4-bit lengths: bodies of  *)
(* 2 and 5 bytes are ordinary, the total of 14 and the header wraps.       *)
(*                                                                         *)
(* Two systems that have nothing to do with each other: handlers that keep *)
(* the rules (Careful, the variables of MessageOwnership) and, with        *)
(* variables of its own, one that may do anything.  "careful" says which   *)
(* of them a behaviour is about; the other stays as it is at the start.    *)
(***************************************************************************)
EXTENDS MessageOwnership, TLC

CONSTANTS w1, w2, w3

TwoWorkers == {w1, w2}
WorkerSymmetry == Permutations(TwoWorkers)

VARIABLES careful, anyHeap, anyMsg, anyQueue, anyOut, anyFinish, anyUp, anyOps,
          anyRequests, anyOverrun, anyCrashed

anyVars == <<anyHeap, anyMsg, anyQueue, anyOut, anyFinish, anyUp, anyOps,
             anyRequests, anyOverrun, anyCrashed>>

Careless == INSTANCE MessageOwnership
  WITH heap <- anyHeap, msg <- anyMsg, queue <- anyQueue, out <- anyOut,
       finish <- anyFinish, up <- anyUp, ops <- anyOps, requests <- anyRequests,
       overrun <- anyOverrun, crashed <- anyCrashed,
       Careful <- FALSE, Worker <- {w3}, MaxAddr <- 3, Bodies <- {2, 14}

MCInit == careful \in BOOLEAN /\ Init /\ Careless!Init
CarefulStep == careful /\ Next /\ UNCHANGED <<careful, anyVars>>
AnyStep == ~careful /\ Careless!Next /\ UNCHANGED <<careful, vars>>
MCNext == CarefulStep \/ AnyStep
MCSpec == MCInit /\ [][MCNext]_<<careful, vars, anyVars>>

(* Whatever handlers do, those that keep the rules and the one that does   *)
(* not: a buffer has one owner, and no owner points to freed memory or     *)
(* believes its buffer longer than it is.                                  *)
AnyOneOwner == OneOwner /\ Careless!OneOwner
=============================================================================
