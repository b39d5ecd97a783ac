--------------------------- MODULE SendPathProofs ---------------------------
(***************************************************************************)
(* Proofs about SendPath, for any number of workers, nodes, connections    *)
(* and descriptors, in three parts:                                        *)
(*   1. types, and the memory safety of connections, queues and libevent   *)
(*      registrations (Safety), from the inductive invariant IInv;         *)
(*   2. on top of it, that a half-sent packet keeps the attention of its   *)
(*      socket (Arming), that a node's messages go to one connection       *)
(*      (Naming), and that a message is left without attention only in the *)
(*      three ways that "late" records (Lateness), each from an invariant  *)
(*      of its own, inductive relative to IInv;                            *)
(*   3. that SendPath implements MessageStream: each send queue, seen      *)
(*      through the mapping of SendPath (Unsent, wire, alloc), starts as a *)
(*      stream does, and every step of the send path is a step of each     *)
(*      stream or leaves it alone.  So messages leave a queue in the order *)
(*      they were pushed, each at most once, over all the connections that *)
(*      serve it.                                                          *)
(*                                                                         *)
(* The lemmas of the first part say what an operation does to the fields   *)
(* of the connections, so that the steps of the invariance proof need not  *)
(* look into EXCEPT expressions again.                                     *)
(***************************************************************************)
EXTENDS SendPath, SequenceTheorems, TLAPS

-----------------------------------------------------------------------------
(* Part 1: memory safety                                                   *)

(* The fields of c that tie it to a descriptor and a queue do not change.  *)
Kept(c) ==
  /\ conn'[c].flag = conn[c].flag
  /\ conn'[c].fd = conn[c].fd
  /\ conn'[c].out = conn[c].out
  /\ conn'[c].cache = conn[c].cache

(* delFileEvent and closeConnection find the connection they are called    *)
(* for.                                                                    *)
LEMMA OwnDescriptor ==
  ASSUME DescriptorsDistinct, NEW c \in live, NEW d \in live,
         IsFirst(d, WithFd(conn[c].fd))
  PROVE  d = c
BY DEF DescriptorsDistinct, IsFirst, WithFd

(* What TypeOK says of the references.                                     *)
LEMMA TypeFacts ==
  ASSUME TypeOK
  PROVE  /\ conn \in [Conn -> Connection]
         /\ live \subseteq Conn /\ alloc \subseteq Conn
         /\ ev \in EventState /\ wk \in [Worker -> WorkerState]
         /\ born \in Nat /\ live \subseteq 1..born /\ alloc \subseteq 1..born
BY SendPathAssumption DEF TypeOK, Conn, SendPathAssumption

(* Changing the armed events of one connection.                            *)
LEMMA SetEvs ==
  ASSUME NEW c \in Conn, conn \in [Conn -> Connection],
         NEW E \in SUBSET {"R", "W"}, conn' = [conn EXCEPT ![c].evs = E]
  PROVE  /\ conn' \in [Conn -> Connection]
         /\ \A d \in Conn : /\ Kept(d) /\ conn'[d].st = conn[d].st
                            /\ conn'[d].evs = IF d = c THEN E ELSE conn[d].evs
BY DEF Connection, Kept

(* Changing its state.                                                     *)
LEMMA SetState ==
  ASSUME NEW c \in Conn, conn \in [Conn -> Connection],
         NEW s \in ConnState, conn' = [conn EXCEPT ![c].st = s]
  PROVE  /\ conn' \in [Conn -> Connection]
         /\ \A d \in Conn : /\ Kept(d) /\ conn'[d].evs = conn[d].evs
                            /\ conn'[d].st = IF d = c THEN s ELSE conn[d].st
BY DEF Connection, Kept

(* Changing its current packet.                                            *)
LEMMA SetCur ==
  ASSUME NEW c \in Conn, conn \in [Conn -> Connection],
         NEW m \in Msg \cup {None}, conn' = [conn EXCEPT ![c].cur = m]
  PROVE  /\ conn' \in [Conn -> Connection]
         /\ \A d \in Conn : /\ Kept(d) /\ conn'[d].evs = conn[d].evs
                            /\ conn'[d].st = conn[d].st
BY DEF Connection, Kept

(* Appending to, taking from and emptying one queue of many.               *)
LEMMA QueueTypes ==
  ASSUME NEW f \in [Conn -> Seq(Msg)], NEW q \in Conn
  PROVE  /\ \A m \in Msg : [f EXCEPT ![q] = Append(@, m)] \in [Conn -> Seq(Msg)]
         /\ f[q] # <<>> => /\ Head(f[q]) \in Msg
                          /\ [f EXCEPT ![q] = Tail(@)] \in [Conn -> Seq(Msg)]
         /\ [f EXCEPT ![q] = <<>>] \in [Conn -> Seq(Msg)]
<1>1. f[q] \in Seq(Msg)
  OBVIOUS
<1>2. \A m \in Msg : Append(f[q], m) \in Seq(Msg)
  BY <1>1
<1>3. f[q] # <<>> => Head(f[q]) \in Msg /\ Tail(f[q]) \in Seq(Msg)
  BY <1>1
<1>4. <<>> \in Seq(Msg)
  OBVIOUS
<1>. QED
  BY <1>1, <1>2, <1>3, <1>4

LEMMA Deleted ==
  ASSUME TypeOK, DescriptorsDistinct, NEW c \in live,
         NEW mask, DelFileEvent(c, mask)
  PROVE  conn' = [conn EXCEPT ![c].evs = @ \ mask]
<1>1. PICK d \in live : /\ IsFirst(d, WithFd(conn[c].fd))
                        /\ conn' = [conn EXCEPT ![d].evs = @ \ mask]
  BY DEF DelFileEvent
<1>2. d = c
  BY <1>1, OwnDescriptor
<1>. QED
  BY <1>1, <1>2

LEMMA Closed ==
  ASSUME DescriptorsDistinct, NEW c \in live, CloseConnection(c)
  PROVE  /\ live' = live \ {c}
         /\ conn[c].cache => /\ alloc' = alloc \ {conn[c].out}
                             /\ queue' = [queue EXCEPT ![conn[c].out] = <<>>]
                             /\ late' = late \ {conn[c].out}
         /\ ~conn[c].cache => UNCHANGED <<alloc, queue, late>>
<1>1. PICK d \in live :
        /\ IsFirst(d, WithFd(conn[c].fd))
        /\ live' = live \ {d}
        /\ IF conn[d].cache
             THEN /\ alloc' = alloc \ {conn[d].out}
                  /\ queue' = [queue EXCEPT ![conn[d].out] = <<>>]
                  /\ late' = late \ {conn[d].out}
             ELSE UNCHANGED <<alloc, queue, late>>
  BY DEF CloseConnection
<1>2. d = c
  BY <1>1, OwnDescriptor
<1>. QED
  BY <1>1, <1>2

LEMMA Created ==
  ASSUME TypeOK, NEW flag \in {"client", "server"}, NEW s \in ConnState,
         Create(born + 1, flag, s)
  PROVE  /\ conn' \in [Conn -> Connection]
         /\ born + 1 \in Conn /\ born + 1 \notin live /\ born + 1 \notin alloc
         /\ born' = born + 1 /\ live' = live \cup {born + 1}
         /\ alloc' = alloc \cup {born + 1}
         /\ \A d \in Conn : d # born + 1 => conn'[d] = conn[d]
         /\ conn'[born + 1].flag = flag /\ conn'[born + 1].st = s
         /\ conn'[born + 1].out = born + 1 /\ conn'[born + 1].cache
         /\ \A d \in live : conn[d].fd # conn'[born + 1].fd
<1>. DEFINE c == born + 1
<1>1. PICK f \in Fd :
        /\ LowestFree(f)
        /\ conn' = [conn EXCEPT ![c] =
             [flag |-> flag, fd |-> f, nid |-> None, st |-> s, evs |-> {"R"},
              out |-> c, cache |-> TRUE, cur |-> None]]
  BY DEF Create
<1>2. /\ born \in Nat /\ live \subseteq 1..born /\ alloc \subseteq 1..born
      /\ conn \in [Conn -> Connection] /\ c \in Conn
  BY TypeFacts DEF Create
<1>3. c \notin live /\ c \notin alloc
  BY <1>2
<1>4. [flag |-> flag, fd |-> f, nid |-> None, st |-> s, evs |-> {"R"},
       out |-> c, cache |-> TRUE, cur |-> None] \in Connection
  BY <1>2 DEF Connection
<1>5. conn' \in [Conn -> Connection] /\ \A d \in Conn : d # c => conn'[d] = conn[d]
  BY <1>1, <1>2, <1>4
<1>6. /\ conn'[c].flag = flag /\ conn'[c].st = s /\ conn'[c].fd = f
      /\ conn'[c].out = c /\ conn'[c].cache
  BY <1>1, <1>2
<1>7. \A d \in live : conn[d].fd # f
  BY <1>1 DEF LowestFree, UsedFds
<1>. QED
  BY <1>2, <1>3, <1>5, <1>6, <1>7 DEF Create

-----------------------------------------------------------------------------
(* A step that creates, closes and hands over nothing keeps descriptors    *)
(* distinct, queues owned and contexts valid.                              *)
KeepsObjects ==
  /\ UNCHANGED <<live, alloc, born>>
  /\ conn' \in [Conn -> Connection]
  /\ \A c \in Conn : Kept(c)

LEMMA KeepStep ==
  ASSUME IInv, KeepsObjects, ev.pc # "drop" \/ UNCHANGED ev
  PROVE  DescriptorsDistinct' /\ QueuesOwned' /\ AllCached'
<1>1. live \subseteq Conn /\ \A c \in live : Kept(c)
  BY TypeFacts DEF IInv, KeepsObjects
<1>2. DescriptorsDistinct'
  BY <1>1 DEF IInv, Safety, DescriptorsDistinct, KeepsObjects, Kept
<1>3. QueuesOwned'
  BY <1>1 DEF IInv, Safety, QueuesOwned, KeepsObjects, Kept
<1>4. AllCached'
  BY <1>1 DEF IInv, AllCached, KeepsObjects, Kept
<1>. QED
  BY <1>2, <1>3, <1>4

LEMMA KeepContexts ==
  ASSUME IInv, KeepsObjects, UNCHANGED ctx
  PROVE  ContextsOK'
<1>1. born \in Nat /\ 1..born \subseteq Conn
  BY SendPathAssumption DEF IInv, TypeOK, SendPathAssumption, Conn
<1>. QED
  BY <1>1 DEF IInv, ContextsOK, KeepsObjects, Kept

(* A step of a worker, as the event thread sees it: at most a connection   *)
(* in a good state is armed.                                               *)
WorkerFrame ==
  /\ KeepsObjects
  /\ UNCHANGED <<ctx, ev>>
  /\ \A c \in Conn : /\ conn'[c].st = conn[c].st
                     /\ \/ conn'[c].evs = conn[c].evs
                        \/ c \in live /\ conn[c].st \in Armable

LEMMA WorkerKeeps ==
  ASSUME IInv, WorkerFrame
  PROVE  /\ NoEventOnDeleted' /\ DescriptorsDistinct' /\ QueuesOwned'
         /\ FailedDisarmed' /\ AllCached' /\ ContextsOK' /\ EventThreadOK'
<1>1. DescriptorsDistinct' /\ QueuesOwned' /\ AllCached'
  BY KeepStep DEF WorkerFrame
<1>2. ContextsOK'
  BY KeepContexts DEF WorkerFrame
<1>3. live \subseteq Conn
  BY TypeFacts DEF IInv
<1>4. NoEventOnDeleted'
  BY DEF IInv, Safety, NoEventOnDeleted, WorkerFrame, KeepsObjects
<1>5. FailedDisarmed'
  BY <1>3 DEF IInv, FailedDisarmed, WorkerFrame, KeepsObjects, Armable, Failed
<1>6. EventThreadOK'
  <2>1. ev.pc # "idle" => ev.c \in Conn
    BY <1>3 DEF IInv, Safety, TargetsAlive
  <2>2. ev.pc \in {"alias", "drop"} => ev.old \in Conn
    BY <1>3 DEF IInv, Safety, TargetsAlive
  <2>. QED
    BY <2>1, <2>2 DEF IInv, EventThreadOK, Dialling, WorkerFrame, KeepsObjects, Kept
<1>. QED
  BY <1>1, <1>2, <1>4, <1>5, <1>6

LEMMA SetWorker ==
  ASSUME wk \in [Worker -> WorkerState], NEW w \in Worker,
         NEW pc \in {"idle", "arm"}, NEW tgt \in Conn \cup {NoConn},
         NEW cnt \in 0..MaxSend,
         wk' = [wk EXCEPT ![w] = [pc |-> pc, tgt |-> tgt, cnt |-> cnt]]
  PROVE  /\ wk' \in [Worker -> WorkerState]
         /\ wk'[w].pc = pc /\ wk'[w].tgt = tgt
         /\ \A v \in Worker : v # w => wk'[v] = wk[v]
BY DEF WorkerState

(* One send more is within the bound, and leaves room for its message.     *)
LEMMA CountSend ==
  ASSUME TypeOK, NEW w \in Worker, wk[w].cnt < MaxSend
  PROVE  wk[w].cnt + 1 \in 0..MaxSend /\ wk[w].cnt + 1 \in 1..MaxSend
BY SendPathAssumption DEF TypeOK, WorkerState, SendPathAssumption

LEMMA SendMissStep ==
  ASSUME IInv, NEW w \in Worker, SendMiss(w)
  PROVE  IInv'
<1>1. WorkerFrame
  BY TypeFacts DEF IInv, SendMiss, WorkerFrame, KeepsObjects, Kept
<1>3. /\ wk' \in [Worker -> WorkerState]
      /\ wk'[w].pc = "idle"
      /\ \A v \in Worker : v # w => wk'[v] = wk[v]
  BY CountSend, SetWorker, TypeFacts DEF IInv, SendMiss
<1>4. TypeOK'
  BY <1>3 DEF IInv, TypeOK, SendMiss
<1>5. TargetsAlive'
  BY <1>3 DEF IInv, Safety, TargetsAlive, SendMiss
<1>. QED
  BY <1>1, <1>4, <1>5, WorkerKeeps DEF IInv, Safety

LEMMA SendPushStep ==
  ASSUME IInv, NEW w \in Worker, SendPush(w)
  PROVE  IInv'
<1>1. WorkerFrame
  BY TypeFacts DEF IInv, SendPush, WorkerFrame, KeepsObjects, Kept
<1>2. PICK c \in live :
        /\ queue' = [queue EXCEPT ![conn[c].out] = Append(@, <<w, wk[w].cnt + 1>>)]
        /\ wk' = [wk EXCEPT ![w] = [pc |-> "arm", tgt |-> c, cnt |-> wk[w].cnt + 1]]
  BY DEF SendPush
<1>3. wk[w].cnt + 1 \in 1..MaxSend /\ c \in Conn /\ conn[c].out \in Conn
  BY TypeFacts, CountSend DEF IInv, SendPush, Safety, QueuesOwned
<1>4. /\ wk' \in [Worker -> WorkerState]
      /\ wk'[w].pc = "arm" /\ wk'[w].tgt = c
      /\ \A v \in Worker : v # w => wk'[v] = wk[v]
  <2>1. wk[w].cnt + 1 \in 0..MaxSend /\ c \in Conn \cup {NoConn}
    BY <1>3, CountSend DEF IInv, SendPush
  <2>. QED
    BY <1>2, <2>1, SetWorker, TypeFacts DEF IInv
<1>5. TypeOK'
  <2>1. queue' \in [Conn -> Seq(Msg)]
    <3>1. <<w, wk[w].cnt + 1>> \in Msg
      BY <1>3 DEF Msg
    <3>. QED
      BY <1>2, <1>3, <3>1, QueueTypes DEF IInv, TypeOK
  <2>. QED
    BY <1>4, <2>1 DEF IInv, TypeOK, SendPush
<1>6. TargetsAlive'
  <2>1. lock = None /\ lock' = w /\ None \notin Worker
    BY SendPathAssumption DEF SendPush, SendPathAssumption
  <2>. QED
    BY <1>4, <2>1 DEF IInv, Safety, TargetsAlive, SendPush
<1>. QED
  BY <1>1, <1>5, <1>6, WorkerKeeps DEF IInv, Safety

LEMMA SendArmStep ==
  ASSUME IInv, NEW w \in Worker, SendArm(w)
  PROVE  IInv'
<1>. DEFINE c == wk[w].tgt
<1>1. c \in live /\ c \in Conn /\ lock = w /\ conn[c] \in Connection
  BY TypeFacts DEF IInv, Safety, TargetsAlive, SendArm
<1>2. WorkerFrame /\ late' \subseteq Conn
  <2>1. CASE conn[c].st \in Armable
    <3>1. /\ conn' = [conn EXCEPT ![c].evs = conn[c].evs \cup {"W"}]
          /\ late' \subseteq late
      BY <2>1 DEF SendArm
    <3>2. conn[c].evs \cup {"W"} \in SUBSET {"R", "W"}
      BY <1>1 DEF Connection
    <3>3. conn \in [Conn -> Connection] /\ late \subseteq Conn
      BY DEF IInv, TypeOK
    <3>4. /\ conn' \in [Conn -> Connection]
          /\ \A d \in Conn : /\ Kept(d) /\ conn'[d].st = conn[d].st
                             /\ d # c => conn'[d].evs = conn[d].evs
      BY <1>1, <3>1, <3>2, <3>3, SetEvs
    <3>. QED
      BY <1>1, <2>1, <3>1, <3>3, <3>4 DEF WorkerFrame, KeepsObjects, SendArm
  <2>2. CASE conn[c].st \notin Armable
    <3>1. conn' = conn /\ late' = late \cup {conn[c].out}
      BY <2>2 DEF SendArm
    <3>2. conn[c].out \in Conn
      BY <1>1, TypeFacts DEF IInv, Safety, QueuesOwned
    <3>. QED
      BY <3>1, <3>2, TypeFacts DEF IInv, TypeOK, WorkerFrame, KeepsObjects, Kept, SendArm
  <2>. QED
    BY <2>1, <2>2
<1>3. /\ wk' \in [Worker -> WorkerState]
      /\ wk'[w].pc = "idle"
      /\ \A v \in Worker : v # w => wk'[v] = wk[v]
  <2>1. wk[w].cnt \in 0..MaxSend
    BY DEF IInv, TypeOK, WorkerState
  <2>. QED
    BY <2>1, SetWorker, TypeFacts DEF IInv, SendArm
<1>4. TypeOK'
  BY <1>2, <1>3 DEF IInv, TypeOK, SendArm, WorkerFrame, KeepsObjects
<1>5. TargetsAlive'
  BY <1>1, <1>3 DEF IInv, Safety, TargetsAlive, SendArm
<1>. QED
  BY <1>2, <1>4, <1>5, WorkerKeeps DEF IInv, Safety

-----------------------------------------------------------------------------
(* Steps of the event thread inside a handler other than the cron: nothing *)
(* is created, closed or handed over.                                      *)
HandlerFrame ==
  /\ KeepsObjects
  /\ UNCHANGED <<ctx, lock, wk>>
  /\ ~Dialling /\ ~Dialling'
  /\ ev'.pc # "idle" => ev'.c \in live

LEMMA HandlerKeeps ==
  ASSUME IInv, HandlerFrame
  PROVE  /\ TargetsAlive' /\ DescriptorsDistinct' /\ QueuesOwned'
         /\ AllCached' /\ ContextsOK'
<1>1. DescriptorsDistinct' /\ QueuesOwned' /\ AllCached'
  BY KeepStep DEF HandlerFrame, Dialling
<1>2. ContextsOK'
  BY KeepContexts DEF HandlerFrame
<1>3. TargetsAlive'
  BY DEF IInv, Safety, TargetsAlive, HandlerFrame, KeepsObjects, Dialling
<1>. QED
  BY <1>1, <1>2, <1>3

(* Steps that change no state and arm nothing.                             *)
LEMMA QuietStep ==
  ASSUME IInv, HandlerFrame, TypeOK',
         \A d \in Conn : conn'[d].st = conn[d].st /\ conn'[d].evs \subseteq conn[d].evs,
         ev.pc # "fail", ev'.pc \notin {"fail", "close"}
  PROVE  IInv'
<1>1. live \subseteq Conn /\ live' = live
  BY TypeFacts DEF IInv, HandlerFrame, KeepsObjects
<1>2. NoEventOnDeleted'
  BY <1>1 DEF IInv, Safety, NoEventOnDeleted
<1>3. FailedDisarmed'
  BY <1>1 DEF IInv, FailedDisarmed
<1>4. EventThreadOK'
  BY DEF EventThreadOK, HandlerFrame, Dialling
<1>. QED
  BY <1>2, <1>3, <1>4, HandlerKeeps DEF IInv, Safety

(* Steps that record a failure.                                            *)
LEMMA FailingStep ==
  ASSUME IInv, HandlerFrame, TypeOK', NEW c \in live, NEW s \in Failed,
         \A d \in Conn : /\ conn'[d].st = IF d = c THEN s ELSE conn[d].st
                         /\ conn'[d].evs = conn[d].evs,
         ev.pc # "fail", ev'.pc = "fail", ev'.c = c
  PROVE  IInv'
<1>1. live \subseteq Conn /\ live' = live
  BY TypeFacts DEF IInv, HandlerFrame, KeepsObjects
<1>2. NoEventOnDeleted'
  BY <1>1 DEF IInv, Safety, NoEventOnDeleted
<1>3. FailedDisarmed'
  BY <1>1 DEF IInv, FailedDisarmed
<1>4. EventThreadOK'
  BY <1>1 DEF EventThreadOK, HandlerFrame, Dialling
<1>. QED
  BY <1>2, <1>3, <1>4, HandlerKeeps DEF IInv, Safety

(* Steps that put one connection in a good state, or arm one that is in it. *)
LEMMA HealthyStep ==
  ASSUME IInv, HandlerFrame, TypeOK', NEW c \in live,
         \A d \in Conn \ {c} : conn'[d].st = conn[d].st /\ conn'[d].evs = conn[d].evs,
         conn'[c].st \notin Failed \/ (conn'[c].st = conn[c].st /\ conn'[c].evs = conn[c].evs),
         ev.pc # "fail", ev'.pc \notin {"fail", "close"}
  PROVE  IInv'
<1>1. live \subseteq Conn /\ live' = live
  BY TypeFacts DEF IInv, HandlerFrame, KeepsObjects
<1>2. NoEventOnDeleted'
  BY <1>1 DEF IInv, Safety, NoEventOnDeleted
<1>3. FailedDisarmed'
  BY <1>1 DEF IInv, FailedDisarmed
<1>4. EventThreadOK'
  BY DEF EventThreadOK, HandlerFrame, Dialling
<1>. QED
  BY <1>2, <1>3, <1>4, HandlerKeeps DEF IInv, Safety

(* The connection being served, while a handler runs.                      *)
LEMMA Served ==
  ASSUME IInv, ev.pc # "idle"
  PROVE  /\ ev.c \in live /\ ev.c \in Conn /\ conn[ev.c] \in Connection
         /\ conn[ev.c].out \in Conn
BY TypeFacts DEF IInv, Safety, TargetsAlive, QueuesOwned

LEMMA UnchangedKept == UNCHANGED conn => \A c \in Conn : Kept(c)
BY DEF Kept

LEMMA WriteReadyStep ==
  ASSUME IInv, NEW c \in Conn, WriteReady(c)
  PROVE  IInv'
<1>1. ev' \in EventState /\ ev'.pc = "write" /\ ev'.c = c /\ ev.pc = "idle"
  BY DEF IInv, TypeOK, EventState, WriteReady
<1>2. HandlerFrame
  BY <1>1, UnchangedKept, TypeFacts
     DEF IInv, WriteReady, HandlerFrame, KeepsObjects, Dialling
<1>3. TypeOK'
  BY <1>1 DEF IInv, TypeOK, WriteReady
<1>. QED
  BY <1>1, <1>2, <1>3, QuietStep DEF WriteReady

LEMMA LoadPktStep ==
  ASSUME IInv, LoadPkt
  PROVE  IInv'
<1>. DEFINE c == ev.c
<1>1. ev.pc = "write" /\ c \in live /\ c \in Conn /\ conn[c].out \in Conn
  BY Served DEF LoadPkt
<1>2. /\ queue[conn[c].out] # <<>>
      /\ conn' = [conn EXCEPT ![c].cur = Head(queue[conn[c].out])]
      /\ queue' = [queue EXCEPT ![conn[c].out] = Tail(@)]
  BY DEF LoadPkt
<1>3. Head(queue[conn[c].out]) \in Msg /\ queue' \in [Conn -> Seq(Msg)]
  BY <1>1, <1>2, QueueTypes DEF IInv, TypeOK
<1>4. /\ conn' \in [Conn -> Connection]
      /\ \A d \in Conn : /\ Kept(d) /\ conn'[d].evs = conn[d].evs
                         /\ conn'[d].st = conn[d].st
  BY <1>1, <1>2, <1>3, SetCur, TypeFacts DEF IInv
<1>5. HandlerFrame
  BY <1>1, <1>4 DEF LoadPkt, HandlerFrame, KeepsObjects, Dialling
<1>6. TypeOK'
  BY <1>3, <1>4 DEF IInv, TypeOK, LoadPkt
<1>. QED
  BY <1>1, <1>4, <1>5, <1>6, QuietStep DEF LoadPkt

LEMMA SendWholeStep ==
  ASSUME IInv, SendWhole
  PROVE  IInv'
<1>. DEFINE c == ev.c
<1>1. ev.pc = "write" /\ c \in live /\ c \in Conn /\ conn[c].out \in Conn
  BY Served DEF SendWhole
<1>2. conn[c].cur \in Msg
  BY <1>1, TypeFacts DEF IInv, SendWhole, Connection
<1>3. wire' \in [Conn -> Seq(Msg)]
  BY <1>1, <1>2, QueueTypes DEF IInv, TypeOK, SendWhole
<1>4. /\ conn' \in [Conn -> Connection]
      /\ \A d \in Conn : /\ Kept(d) /\ conn'[d].evs = conn[d].evs
                         /\ conn'[d].st = conn[d].st
  <2>1. conn' = [conn EXCEPT ![c].cur = None] /\ None \in Msg \cup {None}
    BY DEF SendWhole
  <2>. QED
    BY <1>1, <2>1, SetCur, TypeFacts DEF IInv
<1>5. HandlerFrame
  BY <1>1, <1>4 DEF SendWhole, HandlerFrame, KeepsObjects, Dialling
<1>6. TypeOK'
  BY <1>3, <1>4 DEF IInv, TypeOK, SendWhole
<1>. QED
  BY <1>1, <1>4, <1>5, <1>6, QuietStep DEF SendWhole

LEMMA IdleType == Idle \in EventState /\ Idle.pc = "idle"
BY DEF Idle, EventState

(* SendAgain, WriteDone and CheckEmpty only move the handler on.           *)
LEMMA MoveOnStep ==
  ASSUME IInv, SendAgain \/ WriteDone \/ CheckEmpty
  PROVE  IInv'
<1>1. /\ ev.pc \in {"write", "check"}
      /\ UNCHANGED <<conn, born, live, queue, alloc, ctx, lock, wk, wire, late>>
      /\ ev' = Idle \/ (\E pc \in {"check", "disarm"} : ev' = [ev EXCEPT !.pc = pc])
  BY DEF SendAgain, WriteDone, CheckEmpty
<1>2. ev' \in EventState /\ ev'.pc \in {"idle", "check", "disarm"}
      /\ (ev'.pc # "idle" => ev'.c = ev.c)
  BY <1>1, IdleType DEF IInv, TypeOK, EventState
<1>3. HandlerFrame
  BY <1>1, <1>2, UnchangedKept, Served, TypeFacts
     DEF IInv, HandlerFrame, KeepsObjects, Dialling
<1>4. TypeOK'
  BY <1>1, <1>2 DEF IInv, TypeOK
<1>. QED
  BY <1>1, <1>2, <1>3, <1>4, QuietStep

LEMMA DisarmStep ==
  ASSUME IInv, Disarm
  PROVE  IInv'
<1>. DEFINE c == ev.c
<1>1. /\ ev.pc = "disarm" /\ c \in live /\ c \in Conn
      /\ conn[c] \in Connection /\ conn[c].out \in Conn
  BY Served DEF Disarm
<1>2. conn' = [conn EXCEPT ![c].evs = conn[c].evs \ {"W"}]
  BY <1>1, Deleted DEF Disarm, IInv, Safety
<1>3. /\ conn' \in [Conn -> Connection]
      /\ \A d \in Conn : /\ Kept(d) /\ conn'[d].st = conn[d].st
                         /\ conn'[d].evs \subseteq conn[d].evs
  <2>1. PICK E \in SUBSET {"R", "W"} : E = conn[c].evs \ {"W"}
    BY <1>1 DEF Connection
  <2>2. conn' = [conn EXCEPT ![c].evs = E]
    BY <1>2, <2>1
  <2>3. /\ conn' \in [Conn -> Connection]
        /\ \A d \in Conn : /\ Kept(d) /\ conn'[d].st = conn[d].st
                           /\ conn'[d].evs = IF d = c THEN E ELSE conn[d].evs
    BY <1>1, <2>2, SetEvs, TypeFacts DEF IInv
  <2>. QED
    BY <2>1, <2>3
<1>4. ev' = Idle /\ late' \subseteq Conn
  BY <1>1 DEF IInv, TypeOK, Disarm
<1>5. HandlerFrame
  BY <1>1, <1>3, <1>4, IdleType DEF Disarm, HandlerFrame, KeepsObjects, Dialling
<1>6. TypeOK'
  BY <1>3, <1>4, IdleType DEF IInv, TypeOK, Disarm
<1>. QED
  BY <1>1, <1>3, <1>4, <1>5, <1>6, QuietStep, IdleType

LEMMA SendFailsStep ==
  ASSUME IInv, NEW s \in Failed, SendFails(s)
  PROVE  IInv'
<1>1. ev.pc = "write" /\ ev.c \in live /\ ev.c \in Conn
  BY Served DEF SendFails
<1>2. conn' = [conn EXCEPT ![ev.c].st = s] /\ s \in ConnState
  BY DEF SendFails, ConnState
<1>3. /\ conn' \in [Conn -> Connection]
      /\ \A d \in Conn : /\ Kept(d) /\ conn'[d].evs = conn[d].evs
                         /\ conn'[d].st = IF d = ev.c THEN s ELSE conn[d].st
  BY <1>1, <1>2, SetState, TypeFacts DEF IInv
<1>4. ev' \in EventState /\ ev'.pc = "fail" /\ ev'.c = ev.c
  BY DEF IInv, TypeOK, EventState, SendFails
<1>5. HandlerFrame
  BY <1>1, <1>3, <1>4 DEF SendFails, HandlerFrame, KeepsObjects, Dialling
<1>6. TypeOK'
  BY <1>3, <1>4 DEF IInv, TypeOK, SendFails
<1>. QED
  BY <1>1, <1>3, <1>4, <1>5, <1>6, FailingStep

LEMMA ReadFailsStep ==
  ASSUME IInv, NEW c \in Conn, NEW s \in Failed, ReadFails(c, s)
  PROVE  IInv'
<1>1. ev.pc = "idle" /\ c \in live
  BY DEF ReadFails
<1>2. conn' = [conn EXCEPT ![c].st = s] /\ s \in ConnState
  BY DEF ReadFails, ConnState
<1>3. /\ conn' \in [Conn -> Connection]
      /\ \A d \in Conn : /\ Kept(d) /\ conn'[d].evs = conn[d].evs
                         /\ conn'[d].st = IF d = c THEN s ELSE conn[d].st
  BY <1>1, <1>2, SetState, TypeFacts DEF IInv
<1>4. ev' \in EventState /\ ev'.pc = "fail" /\ ev'.c = c
  BY DEF IInv, TypeOK, EventState, ReadFails
<1>5. HandlerFrame
  BY <1>1, <1>3, <1>4 DEF ReadFails, HandlerFrame, KeepsObjects, Dialling
<1>6. TypeOK'
  BY <1>3, <1>4 DEF IInv, TypeOK, ReadFails
<1>. QED
  BY <1>1, <1>3, <1>4, <1>5, <1>6, FailingStep

LEMMA PeerAuthStep ==
  ASSUME IInv, NEW c \in Conn, NEW n \in Peer, PeerAuth(c, n)
  PROVE  IInv'
<1>1. /\ ev.pc = "idle" /\ c \in live /\ conn \in [Conn -> Connection]
      /\ conn' = [conn EXCEPT ![c].nid = n, ![c].st = "CONNECTED"]
  BY TypeFacts DEF IInv, PeerAuth
<1>2. /\ conn' \in [Conn -> Connection]
      /\ \A d \in Conn : Kept(d)
      /\ \A d \in Conn \ {c} : conn'[d].st = conn[d].st /\ conn'[d].evs = conn[d].evs
      /\ conn'[c].st = "CONNECTED"
  <2>. DEFINE r == [conn[c] EXCEPT !.nid = n, !.st = "CONNECTED"]
  <2>1. n \in Nid \cup {None} /\ "CONNECTED" \in ConnState
    BY DEF Nid, ConnState
  <2>2. conn[c] \in Connection
    BY <1>1
  <2>3. /\ r \in Connection /\ r.st = "CONNECTED"
        /\ r.flag = conn[c].flag /\ r.fd = conn[c].fd
        /\ r.out = conn[c].out /\ r.cache = conn[c].cache
    BY <2>1, <2>2 DEF Connection
  <2>4. conn' = [conn EXCEPT ![c] = r]
    BY <1>1
  <2>. HIDE DEF r
  <2>. QED
    BY <1>1, <2>3, <2>4 DEF Kept
<1>3. ev' \in EventState /\ ev'.pc = "rsp" /\ ev'.c = c
  BY DEF IInv, TypeOK, EventState, PeerAuth
<1>4. HandlerFrame
  BY <1>1, <1>2, <1>3 DEF PeerAuth, HandlerFrame, KeepsObjects, Dialling
<1>5. TypeOK'
  BY <1>2, <1>3 DEF IInv, TypeOK, PeerAuth
<1>. QED
  BY <1>1, <1>2, <1>3, <1>4, <1>5, HealthyStep DEF Failed

LEMMA SendRspStep ==
  ASSUME IInv, SendRsp
  PROVE  IInv'
<1>. DEFINE c == ev.c
<1>1. /\ ev.pc = "rsp" /\ c \in live /\ c \in Conn
      /\ conn[c] \in Connection /\ conn[c].out \in Conn
  BY Served DEF SendRsp
<1>2. /\ queue' = [queue EXCEPT ![conn[c].out] = Append(@, <<"rsp", c>>)]
      /\ IF conn[c].st = "CONNECTED"
           THEN /\ conn' = [conn EXCEPT ![c].evs = conn[c].evs \cup {"W"}]
                /\ late' = late \ {conn[c].out}
           ELSE /\ late' = late \cup {conn[c].out}
                /\ UNCHANGED conn
  <2>1. PICK d \in live :
          /\ IsFirst(d, WithFd(conn[c].fd))
          /\ queue' = [queue EXCEPT ![conn[d].out] = Append(@, <<"rsp", c>>)]
          /\ IF conn[d].st = "CONNECTED"
               THEN /\ conn' = [conn EXCEPT ![d].evs = conn[d].evs \cup {"W"}]
                    /\ late' = late \ {conn[d].out}
               ELSE /\ late' = late \cup {conn[d].out}
                    /\ UNCHANGED conn
    BY DEF SendRsp
  <2>2. d = c
    BY <1>1, <2>1, OwnDescriptor DEF IInv, Safety
  <2>. QED
    BY <2>1, <2>2
<1>3. queue' \in [Conn -> Seq(Msg)]
  <2>1. <<"rsp", c>> \in Msg
    BY <1>1 DEF Msg
  <2>. QED
    BY <1>1, <1>2, <2>1, QueueTypes DEF IInv, TypeOK
<1>4. /\ conn' \in [Conn -> Connection] /\ late' \subseteq Conn
      /\ \A d \in Conn : Kept(d)
      /\ \A d \in Conn \ {c} : conn'[d].st = conn[d].st /\ conn'[d].evs = conn[d].evs
      /\ conn'[c].st = conn[c].st
      /\ conn[c].st = "CONNECTED" \/ conn'[c].evs = conn[c].evs
  <2>1. CASE conn[c].st = "CONNECTED"
    <3>1. conn[c].evs \cup {"W"} \in SUBSET {"R", "W"}
      BY <1>1 DEF Connection
    <3>2. conn' = [conn EXCEPT ![c].evs = conn[c].evs \cup {"W"}] /\ late' \subseteq late
      BY <1>2, <2>1
    <3>3. /\ conn' \in [Conn -> Connection]
          /\ \A d \in Conn : /\ Kept(d) /\ conn'[d].st = conn[d].st
                             /\ d # c => conn'[d].evs = conn[d].evs
      BY <1>1, <3>1, <3>2, SetEvs, TypeFacts DEF IInv
    <3>. QED
      BY <1>1, <2>1, <3>2, <3>3 DEF IInv, TypeOK
  <2>2. CASE conn[c].st # "CONNECTED"
    BY <1>1, <1>2, <2>2, UnchangedKept, TypeFacts DEF IInv, TypeOK
  <2>. QED
    BY <2>1, <2>2
<1>5. HandlerFrame
  BY <1>1, <1>4, IdleType DEF SendRsp, HandlerFrame, KeepsObjects, Dialling
<1>6. TypeOK'
  BY <1>3, <1>4, IdleType DEF IInv, TypeOK, SendRsp
<1>7. conn'[c].st \notin Failed \/ (conn'[c].st = conn[c].st /\ conn'[c].evs = conn[c].evs)
  BY <1>4 DEF Failed
<1>8. ev' = Idle
  BY DEF SendRsp
<1>. QED
  BY <1>1, <1>4, <1>5, <1>6, <1>7, <1>8, HealthyStep, IdleType

LEMMA RecvAuthRspStep ==
  ASSUME IInv, NEW n \in Node, RecvAuthRsp(n)
  PROVE  IInv'
<1>. DEFINE c == ctx[n]
<1>1. /\ ev.pc = "idle" /\ "R" \in conn[c].evs
      /\ conn' = [conn EXCEPT ![c].st = "CONNECTED"]
  BY DEF RecvAuthRsp
<1>2. c \in live /\ c \in Conn
  BY <1>1, TypeFacts DEF RecvAuthRsp, IInv, Safety, TargetsAlive
<1>3. /\ conn' \in [Conn -> Connection]
      /\ \A d \in Conn : /\ Kept(d) /\ conn'[d].evs = conn[d].evs
                         /\ conn'[d].st = IF d = c THEN "CONNECTED" ELSE conn[d].st
  <2>1. "CONNECTED" \in ConnState
    BY DEF ConnState
  <2>. QED
    BY <1>1, <1>2, <2>1, SetState, TypeFacts DEF IInv
<1>4. HandlerFrame
  BY <1>1, <1>3 DEF RecvAuthRsp, HandlerFrame, KeepsObjects, Dialling
<1>5. TypeOK'
  BY <1>3 DEF IInv, TypeOK, RecvAuthRsp
<1>6. conn'[c].st \notin Failed
  BY <1>2, <1>3 DEF Failed
<1>7. ev' = ev
  BY DEF RecvAuthRsp
<1>. QED
  BY <1>1, <1>2, <1>3, <1>4, <1>5, <1>6, <1>7, HealthyStep

LEMMA FailDisarmStep ==
  ASSUME IInv, FailDisarm
  PROVE  IInv'
<1>. DEFINE c == ev.c
<1>1. /\ ev.pc = "fail" /\ c \in live /\ c \in Conn
      /\ conn[c] \in Connection /\ conn[c].st \in Failed
  BY Served DEF FailDisarm, IInv, EventThreadOK
<1>2. conn' = [conn EXCEPT ![c].evs = conn[c].evs \ {"R", "W"}]
  BY <1>1, Deleted DEF FailDisarm, IInv, Safety
<1>3. conn[c].evs \ {"R", "W"} = {} /\ {} \in SUBSET {"R", "W"}
  BY <1>1 DEF Connection
<1>4. /\ conn' \in [Conn -> Connection]
      /\ \A d \in Conn : /\ Kept(d) /\ conn'[d].st = conn[d].st
                         /\ conn'[d].evs = IF d = c THEN {} ELSE conn[d].evs
  BY <1>1, <1>2, <1>3, SetEvs, TypeFacts DEF IInv
<1>5. /\ ev' \in EventState /\ ev'.pc \in {"idle", "close"}
      /\ ev'.pc = "close" => ev'.c = c /\ conn[c].flag = "server"
  BY <1>1, IdleType DEF FailDisarm, IInv, TypeOK, EventState, Connection
<1>6. HandlerFrame
  BY <1>1, <1>4, <1>5 DEF FailDisarm, HandlerFrame, KeepsObjects, Dialling
<1>7. TypeOK'
  BY <1>4, <1>5 DEF IInv, TypeOK, FailDisarm
<1>8. live \subseteq Conn /\ live' = live
  BY <1>6, TypeFacts DEF IInv, HandlerFrame, KeepsObjects
<1>9. NoEventOnDeleted'
  BY <1>1, <1>4, <1>8 DEF IInv, Safety, NoEventOnDeleted
<1>10. FailedDisarmed'
  BY <1>4, <1>8 DEF IInv, FailedDisarmed
<1>11. EventThreadOK'
  BY <1>1, <1>4, <1>5 DEF EventThreadOK, Dialling, Kept
<1>. QED
  BY <1>6, <1>7, <1>9, <1>10, <1>11, HandlerKeeps DEF IInv, Safety

-----------------------------------------------------------------------------
(* Creation: the new connection takes no descriptor, queue or context of   *)
(* another one.                                                            *)
LEMMA CreateKeeps ==
  ASSUME IInv, ev.pc = "idle",
         NEW flag \in {"client", "server"}, NEW s \in ConnState \ Failed,
         Create(born + 1, flag, s), UNCHANGED ctx
  PROVE  /\ NoEventOnDeleted' /\ DescriptorsDistinct' /\ QueuesOwned'
         /\ FailedDisarmed' /\ AllCached' /\ ContextsOK'
<1>. DEFINE c == born + 1
<1>1. /\ c \in Conn /\ c \notin live /\ c \notin alloc
      /\ born' = c /\ live' = live \cup {c} /\ alloc' = alloc \cup {c}
      /\ \A d \in Conn : d # c => conn'[d] = conn[d]
      /\ conn'[c].st = s /\ conn'[c].out = c /\ conn'[c].cache
      /\ \A d \in live : conn[d].fd # conn'[c].fd
  BY Created DEF IInv
<1>2. born \in Nat /\ live \subseteq Conn
  BY TypeFacts DEF IInv
<1>. HIDE DEF c
<1>3. NoEventOnDeleted'
  BY <1>1 DEF IInv, Safety, NoEventOnDeleted
<1>4. DescriptorsDistinct'
  BY <1>1, <1>2 DEF IInv, Safety, DescriptorsDistinct
<1>5. \A d \in live : conn'[d] = conn[d] /\ conn[d].out # c
  BY <1>1, <1>2 DEF IInv, Safety, QueuesOwned
<1>6. QueuesOwned'
  BY <1>1, <1>5 DEF IInv, Safety, QueuesOwned
<1>7. FailedDisarmed'
  BY <1>1, <1>5 DEF IInv, FailedDisarmed
<1>8. AllCached'
  BY <1>1, <1>5 DEF IInv, AllCached
<1>9. ContextsOK'
  <2>1. /\ \A d \in 1..born : d \in 1..c /\ d # c
        /\ 1..born \subseteq Conn
    BY <1>1, <1>2, SendPathAssumption DEF c, Conn, SendPathAssumption
  <2>. QED
    BY <1>1, <2>1 DEF IInv, ContextsOK
<1>. QED
  BY <1>3, <1>4, <1>6, <1>7, <1>8, <1>9

LEMMA CreateTypes ==
  ASSUME IInv, NEW flag \in {"client", "server"}, NEW s \in ConnState,
         Create(born + 1, flag, s)
  PROVE  /\ conn' \in [Conn -> Connection]
         /\ born' \in 0..MaxConn /\ live' \subseteq 1..born' /\ alloc' \subseteq 1..born'
         /\ born' \in live' /\ born' = born + 1 /\ live \subseteq live'
<1>1. /\ conn' \in [Conn -> Connection]
      /\ born + 1 \in Conn /\ born' = born + 1
      /\ live' = live \cup {born + 1} /\ alloc' = alloc \cup {born + 1}
  BY Created DEF IInv
<1>2. born \in Nat /\ live \subseteq 1..born /\ alloc \subseteq 1..born
  BY TypeFacts DEF IInv
<1>3. born' \in 0..MaxConn /\ 1..born \subseteq 1..born' /\ born' \in 1..born'
  BY <1>1, <1>2, SendPathAssumption DEF Conn, SendPathAssumption
<1>. QED
  BY <1>1, <1>2, <1>3

LEMMA AcceptStep ==
  ASSUME IInv, Accept
  PROVE  IInv'
<1>1. /\ ev.pc = "idle" /\ ev' = ev
      /\ "AUTH" \in ConnState /\ "AUTH" \in ConnState \ Failed
      /\ Create(born + 1, "server", "AUTH")
      /\ UNCHANGED <<queue, ctx, lock, wk, wire, late>>
  BY DEF Accept, ConnState, Failed
<1>2. /\ conn' \in [Conn -> Connection]
      /\ born' \in 0..MaxConn /\ live' \subseteq 1..born' /\ alloc' \subseteq 1..born'
      /\ live \subseteq live'
  BY <1>1, CreateTypes
<1>3. TypeOK'
  BY <1>1, <1>2 DEF IInv, TypeOK
<1>4. TargetsAlive'
  BY <1>1, <1>2 DEF IInv, Safety, TargetsAlive
<1>5. EventThreadOK'
  BY <1>1 DEF EventThreadOK, Dialling
<1>. QED
  BY <1>1, <1>3, <1>4, <1>5, CreateKeeps DEF IInv, Safety

(* Dial and Redial start the same sequence, with and without an old        *)
(* connection.                                                             *)
LEMMA DialStep ==
  ASSUME IInv, NEW n \in Node, Dial(n) \/ Redial(n)
  PROVE  IInv'
<1>. DEFINE c == born + 1
<1>1. /\ ev.pc = "idle"
      /\ "NONE" \in ConnState /\ "NONE" \in ConnState \ Failed
      /\ Create(born + 1, "client", "NONE")
      /\ UNCHANGED <<queue, ctx, lock, wk, wire, late>>
  BY DEF Dial, Redial, ConnState, Failed
<1>2. /\ conn' \in [Conn -> Connection]
      /\ born' \in 0..MaxConn /\ live' \subseteq 1..born' /\ alloc' \subseteq 1..born'
      /\ live \subseteq live' /\ c \in live'
  BY <1>1, CreateTypes
<1>3. /\ c \in Conn /\ c \notin live /\ conn'[c].flag = "client" /\ conn'[c].st = "NONE"
      /\ \A d \in Conn : d # c => conn'[d] = conn[d]
  BY <1>1, Created DEF IInv
<1>4. \A m \in Node : ctx[m] # c
  BY TypeFacts DEF IInv, ContextsOK, NoConn
<1>5. /\ ev'.c = c /\ ev'.nid = n
      /\ \/ ev'.pc = "name" /\ ev'.old = NoConn
         \/ /\ ev'.pc = "alias" /\ ev'.old = ctx[n] /\ ctx[n] # NoConn
            /\ conn[ctx[n]].st \in Failed
  BY DEF Dial, Redial
<1>6. ev' \in EventState
  BY <1>3 DEF Dial, Redial, EventState, IInv, TypeOK
<1>7. ctx[n] # NoConn => ctx[n] \in live /\ ctx[n] \in Conn
  BY <1>1, TypeFacts DEF IInv, Safety, TargetsAlive
<1>. HIDE DEF c
<1>8. TypeOK'
  BY <1>1, <1>2, <1>6 DEF IInv, TypeOK
<1>9. TargetsAlive'
  BY <1>1, <1>2, <1>3, <1>5, <1>7 DEF IInv, Safety, TargetsAlive
<1>10. EventThreadOK'
  BY <1>1, <1>3, <1>4, <1>5, <1>7 DEF EventThreadOK, Dialling
<1>. QED
  BY <1>1, <1>8, <1>9, <1>10, CreateKeeps DEF IInv, Safety

-----------------------------------------------------------------------------
(* Deletion of a connection that owns its queue, with m_lock held and no   *)
(* event armed.                                                            *)
LEMMA CloseKeeps ==
  ASSUME IInv, NEW c \in live, CloseConnection(c), UNCHANGED <<conn, born>>,
         conn[c].evs = {}, ev.pc \notin {"fail", "drop"}
  PROVE  /\ NoEventOnDeleted' /\ DescriptorsDistinct' /\ QueuesOwned'
         /\ FailedDisarmed' /\ AllCached'
         /\ live' = live \ {c} /\ live' \subseteq 1..born /\ alloc' \subseteq 1..born
         /\ queue' \in [Conn -> Seq(Msg)] /\ late' \subseteq Conn
<1>1. /\ \A d \in live : conn[d].cache
      /\ live' = live \ {c} /\ alloc' = alloc \ {conn[c].out}
      /\ queue' = [queue EXCEPT ![conn[c].out] = <<>>]
      /\ late' = late \ {conn[c].out}
  BY Closed DEF IInv, Safety, AllCached
<1>2. conn[c].out \in Conn /\ conn[c].out \in alloc
  BY TypeFacts DEF IInv, Safety, QueuesOwned
<1>3. NoEventOnDeleted'
  BY <1>1 DEF IInv, Safety, NoEventOnDeleted
<1>4. DescriptorsDistinct'
  BY <1>1 DEF IInv, Safety, DescriptorsDistinct
<1>5. QueuesOwned'
  BY <1>1 DEF IInv, Safety, QueuesOwned
<1>6. FailedDisarmed' /\ AllCached'
  BY <1>1 DEF IInv, FailedDisarmed, AllCached
<1>7. queue' \in [Conn -> Seq(Msg)]
  BY <1>1, <1>2, QueueTypes DEF IInv, TypeOK
<1>8. live' \subseteq 1..born /\ alloc' \subseteq 1..born /\ late' \subseteq Conn
  BY <1>1 DEF IInv, TypeOK
<1>. QED
  BY <1>1, <1>3, <1>4, <1>5, <1>6, <1>7, <1>8

LEMMA FailCloseStep ==
  ASSUME IInv, FailClose
  PROVE  IInv'
<1>. DEFINE c == ev.c
<1>1. /\ ev.pc = "close" /\ c \in live /\ lock = None /\ ev' = Idle
      /\ CloseConnection(c)
      /\ UNCHANGED <<conn, born, ctx, lock, wk, wire>>
      /\ conn[c].flag = "server"
  BY Served DEF FailClose, IInv, EventThreadOK
<1>2. conn[c].evs = {}
  BY <1>1 DEF IInv, EventThreadOK, FailedDisarmed
<1>3. /\ NoEventOnDeleted' /\ DescriptorsDistinct' /\ QueuesOwned'
      /\ FailedDisarmed' /\ AllCached'
      /\ live' = live \ {c} /\ live' \subseteq 1..born /\ alloc' \subseteq 1..born
      /\ queue' \in [Conn -> Seq(Msg)] /\ late' \subseteq Conn
  BY <1>1, <1>2, CloseKeeps
<1>4. TypeOK'
  BY <1>1, <1>3, IdleType DEF IInv, TypeOK
<1>5. \A n \in Node : ctx[n] # NoConn => ctx[n] # c
  BY <1>1 DEF IInv, ContextsOK
<1>6. \A w \in Worker : wk[w].pc # "arm"
  BY <1>1, SendPathAssumption DEF IInv, Safety, TargetsAlive, SendPathAssumption
<1>7. TargetsAlive'
  BY <1>1, <1>3, <1>5, <1>6, IdleType DEF IInv, Safety, TargetsAlive
<1>8. ContextsOK'
  BY <1>1 DEF IInv, ContextsOK
<1>9. EventThreadOK'
  BY <1>1, IdleType DEF EventThreadOK, Dialling
<1>. QED
  BY <1>3, <1>4, <1>7, <1>8, <1>9 DEF IInv, Safety

LEMMA GiveUpStep ==
  ASSUME IInv, NEW n \in Node, GiveUp(n)
  PROVE  IInv'
<1>. DEFINE c == ctx[n]
<1>1. /\ ev.pc = "idle" /\ lock = None /\ c # NoConn /\ conn[c].st \in Failed
      /\ CloseConnection(c)
      /\ ctx' = [ctx EXCEPT ![n] = NoConn]
      /\ UNCHANGED <<conn, born, lock, wk, ev, wire>>
  BY DEF GiveUp
<1>2. c \in live
  BY <1>1 DEF IInv, Safety, TargetsAlive
<1>3. conn[c].evs = {}
  BY <1>1, <1>2 DEF IInv, FailedDisarmed
<1>4. /\ NoEventOnDeleted' /\ DescriptorsDistinct' /\ QueuesOwned'
      /\ FailedDisarmed' /\ AllCached'
      /\ live' = live \ {c} /\ live' \subseteq 1..born /\ alloc' \subseteq 1..born
      /\ queue' \in [Conn -> Seq(Msg)] /\ late' \subseteq Conn
  BY <1>1, <1>2, <1>3, CloseKeeps
<1>5. ctx' \in [Node -> Conn \cup {NoConn}]
  BY <1>1 DEF IInv, TypeOK
<1>6. TypeOK'
  BY <1>1, <1>4, <1>5 DEF IInv, TypeOK
<1>7. \A m \in Node : /\ ctx'[m] = NoConn \/ ctx'[m] = ctx[m]
                      /\ ctx'[m] # c
  BY <1>1 DEF IInv, TypeOK, ContextsOK
<1>8. \A w \in Worker : wk[w].pc # "arm"
  BY <1>1, SendPathAssumption DEF IInv, Safety, TargetsAlive, SendPathAssumption
<1>9. TargetsAlive'
  BY <1>1, <1>4, <1>7, <1>8 DEF IInv, Safety, TargetsAlive
<1>10. ContextsOK'
  BY <1>1, <1>7 DEF IInv, ContextsOK
<1>11. EventThreadOK'
  BY <1>1 DEF EventThreadOK, Dialling
<1>. QED
  BY <1>4, <1>6, <1>9, <1>10, <1>11 DEF IInv, Safety

-----------------------------------------------------------------------------
(* The hand-over of the queue.                                             *)

LEMMA TakeQueueStep ==
  ASSUME IInv, TakeQueue
  PROVE  IInv'
<1>. DEFINE c == ev.c  o == ev.old
<1>1. /\ ev.pc = "alias" /\ c \in live /\ o \in live /\ c # o
      /\ c \in Conn /\ o \in Conn /\ live \subseteq Conn
      /\ conn \in [Conn -> Connection] /\ conn[o].out \in Conn
      /\ conn[c].out \in Conn
      /\ \A d \in live : conn[d].cache
  BY TypeFacts DEF TakeQueue, IInv, Safety, TargetsAlive, QueuesOwned, AllCached
<1>0. conn' = [conn EXCEPT ![c].out = conn[o].out, ![o].cache = FALSE]
  BY DEF TakeQueue
<1>2. /\ alloc' = alloc \ {conn[c].out}
      /\ queue' = [queue EXCEPT ![conn[c].out] = <<>>]
      /\ ev' = [ev EXCEPT !.pc = "drop"]
      /\ UNCHANGED <<born, live, ctx, lock, wk, wire, late>>
  BY DEF TakeQueue
<1>3. /\ conn' \in [Conn -> Connection]
      /\ \A d \in Conn : /\ conn'[d].flag = conn[d].flag /\ conn'[d].fd = conn[d].fd
                         /\ conn'[d].st = conn[d].st /\ conn'[d].evs = conn[d].evs
                         /\ conn'[d].out = IF d = c THEN conn[o].out ELSE conn[d].out
                         /\ conn'[d].cache = IF d = o THEN FALSE ELSE conn[d].cache
  <2>. DEFINE r == [conn[c] EXCEPT !.out = conn[o].out]
              s == [conn[o] EXCEPT !.cache = FALSE]
  <2>1. conn[c] \in Connection /\ conn[o] \in Connection
    BY <1>1
  <2>2. /\ r \in Connection /\ r.flag = conn[c].flag /\ r.fd = conn[c].fd
        /\ r.st = conn[c].st /\ r.evs = conn[c].evs
        /\ r.out = conn[o].out /\ r.cache = conn[c].cache
    BY <1>1, <2>1 DEF Connection
  <2>3. /\ s \in Connection /\ s.flag = conn[o].flag /\ s.fd = conn[o].fd
        /\ s.st = conn[o].st /\ s.evs = conn[o].evs
        /\ s.out = conn[o].out /\ s.cache = FALSE
    BY <1>1, <2>1 DEF Connection
  <2>4. conn' = [conn EXCEPT ![c] = r, ![o] = s]
    BY <1>0, <1>1
  <2>. HIDE DEF r, s
  <2>. QED
    BY <1>1, <2>2, <2>3, <2>4
<1>4. ev' \in EventState /\ ev'.pc = "drop" /\ ev'.c = c /\ ev'.old = o /\ ev'.nid = ev.nid
  BY <1>2 DEF IInv, TypeOK, EventState
<1>. HIDE DEF c, o
<1>5. TypeOK'
  <2>1. queue' \in [Conn -> Seq(Msg)]
    BY <1>1, <1>2, QueueTypes DEF IInv, TypeOK
  <2>. QED
    BY <1>2, <1>3, <1>4, <2>1 DEF IInv, TypeOK
<1>6. TargetsAlive'
  BY <1>1, <1>2, <1>4 DEF c, o, IInv, Safety, TargetsAlive
<1>7. NoEventOnDeleted' /\ DescriptorsDistinct'
  <2>1. NoEventOnDeleted'
    BY <1>2, <1>3 DEF IInv, Safety, NoEventOnDeleted
  <2>2. \A d \in live : conn'[d].fd = conn[d].fd
    BY <1>1, <1>3
  <2>3. DescriptorsDistinct'
    BY <1>2, <2>2 DEF IInv, Safety, DescriptorsDistinct
  <2>. QED
    BY <2>1, <2>3
<1>8. \A d, e \in live : conn[d].out = conn[e].out => d = e
  BY <1>1 DEF IInv, Safety, QueuesOwned
<1>9. QueuesOwned'
  <2>1. \A d \in live : conn'[d].out \in alloc'
    <3>1. /\ conn'[c].out = conn[o].out /\ conn[o].out # conn[c].out
          /\ \A d \in live \ {c} : /\ conn'[d].out = conn[d].out
                                   /\ conn[d].out # conn[c].out
      BY <1>1, <1>3, <1>8
    <3>2. \A d \in live : conn[d].out \in alloc
      BY DEF IInv, Safety, QueuesOwned
    <3>. QED
      BY <1>1, <1>2, <3>1, <3>2
  <2>2. ASSUME NEW q \in alloc'
        PROVE  \E d \in live : conn'[d].out = q /\ conn'[d].cache
    <3>1. PICK d \in live : conn[d].out = q /\ conn[d].cache
      BY <1>2 DEF IInv, Safety, QueuesOwned
    <3>2. CASE d = o
      BY <1>1, <1>3, <3>1, <3>2
    <3>3. CASE d # o
      <4>1. d # c
        BY <1>2, <3>1
      <4>. QED
        BY <1>1, <1>3, <3>1, <3>3, <4>1
    <3>. QED
      BY <3>2, <3>3
  <2>3. \A d, e \in live :
          conn'[d].cache /\ conn'[e].cache /\ conn'[d].out = conn'[e].out => d = e
    <3>1. \A d \in live : conn'[d].cache => d # o
      BY <1>1, <1>3
    <3>2. \A d \in live \ {o} :
            conn'[d].out = IF d = c THEN conn[o].out ELSE conn[d].out
      BY <1>1, <1>3
    <3>. QED
      BY <1>1, <1>8, <3>1, <3>2
  <2>. QED
    BY <1>2, <2>1, <2>2, <2>3 DEF QueuesOwned
<1>10. FailedDisarmed' /\ AllCached'
  <2>1. \A d \in live : /\ conn'[d].st = conn[d].st /\ conn'[d].evs = conn[d].evs
                        /\ conn'[d].cache = IF d = o THEN FALSE ELSE conn[d].cache
    BY <1>1, <1>3
  <2>2. FailedDisarmed'
    BY <1>1, <1>2, <2>1 DEF IInv, FailedDisarmed
  <2>3. AllCached'
    BY <1>1, <1>2, <1>4, <2>1 DEF AllCached
  <2>. QED
    BY <2>2, <2>3
<1>11. ContextsOK'
  <2>1. 1..born \subseteq Conn
    BY SendPathAssumption DEF IInv, TypeOK, SendPathAssumption, Conn
  <2>2. \A d \in 1..born : conn'[d].flag = conn[d].flag
    BY <1>3, <2>1
  <2>. QED
    BY <1>2, <2>2 DEF IInv, ContextsOK
<1>12. EventThreadOK'
  <2>1. /\ conn[c].flag = "client" /\ conn[c].st = "NONE" /\ ev.nid \in Node
        /\ \A n \in Node : ctx[n] # c
        /\ ctx[ev.nid] = o /\ conn[o].st \in Failed
    BY <1>1 DEF c, o, IInv, EventThreadOK, Dialling
  <2>2. /\ conn'[c].flag = conn[c].flag /\ conn'[c].st = conn[c].st
        /\ conn'[o].st = conn[o].st
        /\ conn'[c].out = conn'[o].out /\ ~conn'[o].cache
    BY <1>1, <1>3
  <2>. QED
    BY <1>2, <1>4, <2>1, <2>2 DEF EventThreadOK, Dialling
<1>. QED
  BY <1>5, <1>6, <1>7, <1>9, <1>10, <1>11, <1>12 DEF IInv, Safety

LEMMA DropOldStep ==
  ASSUME IInv, DropOld
  PROVE  IInv'
<1>. DEFINE c == ev.c  o == ev.old
<1>1. /\ ev.pc = "drop" /\ lock = None /\ c \in live /\ o \in live /\ c # o
      /\ CloseConnection(o)
      /\ ev' = [ev EXCEPT !.pc = "name"]
      /\ UNCHANGED <<conn, born, ctx, lock, wk, wire>>
  BY DEF DropOld, IInv, Safety, TargetsAlive
<1>2. /\ ~conn[o].cache /\ conn[o].st \in Failed
      /\ ctx[ev.nid] = o /\ ev.nid \in Node
      /\ conn[c].flag = "client" /\ conn[c].st = "NONE"
      /\ \A n \in Node : ctx[n] # c
  BY <1>1 DEF IInv, EventThreadOK, Dialling
<1>3. live' = live \ {o} /\ UNCHANGED <<alloc, queue, late>>
  BY <1>1, <1>2, Closed DEF IInv, Safety
<1>4. conn[o].evs = {}
  BY <1>1, <1>2 DEF IInv, FailedDisarmed
<1>5. ev' \in EventState /\ ev'.pc = "name" /\ ev'.c = c /\ ev'.old = o /\ ev'.nid = ev.nid
  BY <1>1 DEF IInv, TypeOK, EventState
<1>6. TypeOK'
  BY <1>1, <1>3, <1>5 DEF IInv, TypeOK
<1>7. o # NoConn
  BY <1>1, TypeFacts DEF IInv, Conn, NoConn
<1>8. \A n \in Node : ctx[n] = o => n = ev.nid
  BY <1>2, <1>7 DEF IInv, ContextsOK
<1>9. \A w \in Worker : wk[w].pc # "arm"
  BY <1>1, SendPathAssumption DEF IInv, Safety, TargetsAlive, SendPathAssumption
<1>10. TargetsAlive'
  BY <1>1, <1>3, <1>5, <1>8, <1>9 DEF IInv, Safety, TargetsAlive
<1>11. NoEventOnDeleted' /\ DescriptorsDistinct'
  BY <1>1, <1>3, <1>4 DEF IInv, Safety, NoEventOnDeleted, DescriptorsDistinct
<1>12. QueuesOwned'
  BY <1>1, <1>2, <1>3 DEF IInv, Safety, QueuesOwned
<1>13. FailedDisarmed' /\ AllCached'
  BY <1>1, <1>3, <1>5 DEF IInv, FailedDisarmed, AllCached
<1>14. ContextsOK'
  BY <1>1 DEF IInv, ContextsOK
<1>15. EventThreadOK'
  BY <1>1, <1>2, <1>5 DEF EventThreadOK, Dialling
<1>. QED
  BY <1>6, <1>10, <1>11, <1>12, <1>13, <1>14, <1>15 DEF IInv, Safety

LEMMA SetNodeInfoStep ==
  ASSUME IInv, SetNodeInfo
  PROVE  IInv'
<1>. DEFINE c == ev.c
<1>1. /\ ev.pc = "name" /\ c \in live /\ c \in Conn /\ conn \in [Conn -> Connection]
      /\ live \subseteq Conn
      /\ ev.nid \in Node /\ conn[c].flag = "client" /\ conn[c].st = "NONE"
      /\ \A n \in Node : ctx[n] # c
  BY Served, TypeFacts DEF SetNodeInfo, IInv, EventThreadOK, Dialling
<1>2. /\ conn' = [conn EXCEPT ![c].nid = ev.nid]
      /\ ev' = [ev EXCEPT !.pc = "ready"]
      /\ UNCHANGED <<born, live, queue, alloc, ctx, lock, wk, wire, late>>
  BY DEF SetNodeInfo
<1>3. /\ conn' \in [Conn -> Connection]
      /\ \A d \in Conn : /\ Kept(d) /\ conn'[d].st = conn[d].st
                         /\ conn'[d].evs = conn[d].evs
  BY <1>1, <1>2 DEF Connection, Kept, Nid
<1>4. ev' \in EventState /\ ev'.pc = "ready" /\ ev'.c = c /\ ev'.nid = ev.nid
  BY <1>2 DEF IInv, TypeOK, EventState
<1>5. KeepsObjects
  BY <1>2, <1>3 DEF KeepsObjects
<1>6. TypeOK'
  BY <1>2, <1>3, <1>4 DEF IInv, TypeOK
<1>7. TargetsAlive'
  BY <1>1, <1>2, <1>4 DEF IInv, Safety, TargetsAlive
<1>8. NoEventOnDeleted'
  BY <1>2, <1>3 DEF IInv, Safety, NoEventOnDeleted
<1>9. DescriptorsDistinct' /\ QueuesOwned' /\ AllCached' /\ ContextsOK'
  BY <1>1, <1>2, <1>5, KeepStep, KeepContexts
<1>10. FailedDisarmed'
  BY <1>1, <1>2, <1>3 DEF IInv, FailedDisarmed
<1>11. EventThreadOK'
  BY <1>1, <1>2, <1>3, <1>4 DEF EventThreadOK, Dialling, Kept
<1>. QED
  BY <1>6, <1>7, <1>8, <1>9, <1>10, <1>11 DEF IInv, Safety

LEMMA NodeReadyStep ==
  ASSUME IInv, NodeReady
  PROVE  IInv'
<1>. DEFINE c == ev.c  n == ev.nid
<1>1. /\ ev.pc = "ready" /\ c \in live /\ c \in Conn /\ conn[c].out \in Conn
      /\ live \subseteq Conn
      /\ n \in Node /\ conn[c].flag = "client"
      /\ \A m \in Node : ctx[m] # c
  BY Served, TypeFacts DEF NodeReady, IInv, EventThreadOK, Dialling
<1>2. /\ conn' = [conn EXCEPT ![c].st = "AUTH"]
      /\ ctx' = [ctx EXCEPT ![n] = c]
      /\ ev' = Idle /\ late' \subseteq Conn
      /\ UNCHANGED <<born, live, queue, alloc, lock, wk, wire>>
  BY <1>1 DEF NodeReady, IInv, TypeOK
<1>3. /\ conn' \in [Conn -> Connection]
      /\ \A d \in Conn : /\ Kept(d) /\ conn'[d].evs = conn[d].evs
                         /\ conn'[d].st = IF d = c THEN "AUTH" ELSE conn[d].st
  <2>1. "AUTH" \in ConnState
    BY DEF ConnState
  <2>. QED
    BY <1>1, <1>2, <2>1, SetState, TypeFacts DEF IInv
<1>4. /\ ctx' \in [Node -> Conn \cup {NoConn}]
      /\ \A m \in Node : ctx'[m] = IF m = n THEN c ELSE ctx[m]
  BY <1>1, <1>2 DEF IInv, TypeOK
<1>5. KeepsObjects
  BY <1>2, <1>3 DEF KeepsObjects
<1>6. TypeOK'
  BY <1>2, <1>3, <1>4, IdleType DEF IInv, TypeOK
<1>7. TargetsAlive'
  BY <1>1, <1>2, <1>4, IdleType DEF IInv, Safety, TargetsAlive
<1>8. NoEventOnDeleted'
  BY <1>2, <1>3 DEF IInv, Safety, NoEventOnDeleted
<1>9. DescriptorsDistinct' /\ QueuesOwned' /\ AllCached'
  BY <1>1, <1>5, KeepStep
<1>10. FailedDisarmed'
  BY <1>1, <1>2, <1>3 DEF IInv, FailedDisarmed, Failed
<1>11. ContextsOK'
  <2>1. 1..born \subseteq Conn /\ c \in 1..born
    BY <1>1, SendPathAssumption DEF IInv, TypeOK, SendPathAssumption, Conn
  <2>. QED
    BY <1>1, <1>2, <1>3, <1>4, <2>1 DEF IInv, ContextsOK, Kept
<1>12. EventThreadOK'
  BY <1>2, IdleType DEF EventThreadOK, Dialling
<1>. QED
  BY <1>6, <1>7, <1>8, <1>9, <1>10, <1>11, <1>12 DEF IInv, Safety

-----------------------------------------------------------------------------
LEMMA InitInv == Init => IInv
<1>1. Init => TypeOK
  BY SendPathAssumption, IdleType
     DEF Init, TypeOK, Connection, Fresh, ConnState, WorkerState, SendPathAssumption
<1>2. Init => Safety /\ FailedDisarmed /\ AllCached /\ ContextsOK /\ EventThreadOK
  BY DEF Init, Safety, TargetsAlive, NoEventOnDeleted, DescriptorsDistinct,
         QueuesOwned, FailedDisarmed, AllCached, ContextsOK, EventThreadOK,
         Dialling, Fresh, Idle
<1>. QED
  BY <1>1, <1>2 DEF IInv

LEMMA NextInv == IInv /\ [Next]_vars => IInv'
<1>. SUFFICES ASSUME IInv, [Next]_vars PROVE IInv'
  OBVIOUS
<1>1. ASSUME NEW w \in Worker, WorkerStep(w) PROVE IInv'
  BY <1>1, SendMissStep, SendPushStep, SendArmStep DEF WorkerStep
<1>2. CASE WriteStep
  BY <1>2, WriteReadyStep, LoadPktStep, SendWholeStep, MoveOnStep, SendFailsStep,
     DisarmStep DEF WriteStep
<1>3. CASE ReadStep
  BY <1>3, AcceptStep, PeerAuthStep, SendRspStep, RecvAuthRspStep, ReadFailsStep,
     FailDisarmStep, FailCloseStep DEF ReadStep
<1>4. CASE CronStep
  BY <1>4, DialStep, TakeQueueStep, DropOldStep, SetNodeInfoStep, NodeReadyStep,
     GiveUpStep DEF CronStep
<1>5. CASE UNCHANGED vars
  BY <1>5 DEF vars, IInv, TypeOK, Safety, TargetsAlive, NoEventOnDeleted,
     DescriptorsDistinct, QueuesOwned, FailedDisarmed, AllCached, ContextsOK,
     EventThreadOK, Dialling
<1>. QED
  BY <1>1, <1>2, <1>3, <1>4, <1>5 DEF Next

(* The inductive invariant holds of every reachable state.                 *)
THEOREM Invariance == Spec => []IInv
BY InitInv, NextInv, PTL DEF Spec

(* Type correctness.                                                       *)
THEOREM TypeCorrect == Spec => []TypeOK
<1>1. IInv => TypeOK
  BY DEF IInv
<1>. QED
  BY <1>1, Invariance, PTL

(* Whatever the interleaving of workers and event thread: connections and  *)
(* queues are not used after they are freed, queues are neither leaked nor *)
(* freed twice, and no libevent registration outlives its connection.      *)
THEOREM MemorySafety == Spec => []Safety
<1>1. IInv => Safety
  BY DEF IInv
<1>. QED
  BY <1>1, Invariance, PTL

(* What a worker found stays in m_conns until it has armed it, and what    *)
(* libevent, the handlers and the nodes point to is not deleted.           *)
THEOREM NoUseAfterFree == Spec => []TargetsAlive
<1>1. Safety => TargetsAlive
  BY DEF Safety
<1>. QED
  BY <1>1, MemorySafety, PTL

(* libevent never calls back for a connection that was deleted.            *)
THEOREM NoStaleRegistration == Spec => []NoEventOnDeleted
<1>1. Safety => NoEventOnDeleted
  BY DEF Safety
<1>. QED
  BY <1>1, MemorySafety, PTL

(* delFileEvent and closeConnection, which search by descriptor, find the  *)
(* connection they are called for.                                         *)
THEOREM SearchFindsIt == Spec => []DescriptorsDistinct
<1>1. Safety => DescriptorsDistinct
  BY DEF Safety
<1>. QED
  BY <1>1, MemorySafety, PTL

(* No send queue is leaked, freed twice, or used after it is freed.        *)
THEOREM QueuesHaveOneOwner == Spec => []QueuesOwned
<1>1. Safety => QueuesOwned
  BY DEF Safety
<1>. QED
  BY <1>1, MemorySafety, PTL

-----------------------------------------------------------------------------
(* A failed connection is never put back into use.                         *)
StaysFailed == \A c \in live : conn[c].st \in Failed => conn'[c].st \in Failed

LEMMA NextStaysFailed == IInv /\ [Next]_vars => StaysFailed
<1>. SUFFICES ASSUME IInv, [Next]_vars, NEW c \in live, conn[c].st \in Failed
              PROVE  conn'[c].st \in Failed
  BY DEF StaysFailed
<1>0. conn \in [Conn -> Connection] /\ live \subseteq Conn /\ conn[c] \in Connection
  BY TypeFacts DEF IInv
<1>1. ASSUME NEW w \in Worker, WorkerStep(w) PROVE conn'[c].st \in Failed
  BY <1>0, <1>1 DEF WorkerStep, SendMiss, SendPush, SendArm, Connection
<1>2. CASE WriteStep
  <2>1. ASSUME NEW s \in Failed, SendFails(s) PROVE conn'[c].st \in Failed
    BY <1>0, <2>1 DEF SendFails, Connection
  <2>2. CASE Disarm
    BY <1>0, <2>2 DEF Disarm, DelFileEvent, Connection
  <2>3. CASE LoadPkt
    BY <1>0, <2>3 DEF LoadPkt, Connection
  <2>4. CASE SendWhole
    BY <1>0, <2>4 DEF SendWhole, Connection
  <2>5. ASSUME UNCHANGED conn PROVE conn'[c].st \in Failed
    BY <2>5
  <2>. QED
    BY <1>2, <2>1, <2>2, <2>3, <2>4, <2>5
       DEF WriteStep, WriteReady, SendAgain, WriteDone, CheckEmpty
<1>3. CASE ReadStep
  <2>1. CASE Accept
    BY <1>0, <2>1, Created DEF Accept, IInv, ConnState
  <2>2. ASSUME NEW d \in Conn, NEW n \in Peer, PeerAuth(d, n) PROVE conn'[c].st \in Failed
    BY <1>0, <2>2 DEF PeerAuth, Failed, Connection
  <2>3. CASE SendRsp
    BY <1>0, <2>3 DEF SendRsp, Connection
  <2>4. ASSUME NEW n \in Node, RecvAuthRsp(n) PROVE conn'[c].st \in Failed
    <3>1. c # ctx[n]
      BY <2>4 DEF RecvAuthRsp, IInv, FailedDisarmed
    <3>. QED
      BY <1>0, <2>4, <3>1 DEF RecvAuthRsp
  <2>5. ASSUME NEW d \in Conn, NEW s \in Failed, ReadFails(d, s)
        PROVE  conn'[c].st \in Failed
    BY <1>0, <2>5 DEF ReadFails, Connection
  <2>6. CASE FailDisarm
    BY <1>0, <2>6 DEF FailDisarm, DelFileEvent, Connection
  <2>7. CASE FailClose
    BY <2>7 DEF FailClose
  <2>. QED
    BY <1>3, <2>1, <2>2, <2>3, <2>4, <2>5, <2>6, <2>7 DEF ReadStep
<1>4. CASE CronStep
  <2>1. ASSUME NEW n \in Node, Dial(n) \/ Redial(n) PROVE conn'[c].st \in Failed
    BY <1>0, <2>1, Created DEF Dial, Redial, IInv, ConnState
  <2>2. CASE TakeQueue
    BY <1>0, <2>2 DEF TakeQueue, Connection
  <2>3. CASE SetNodeInfo
    BY <1>0, <2>3 DEF SetNodeInfo, Connection
  <2>4. CASE NodeReady
    <3>1. c # ev.c
      BY <2>4 DEF NodeReady, IInv, EventThreadOK, Dialling, Failed
    <3>. QED
      BY <1>0, <2>4, <3>1 DEF NodeReady
  <2>. QED
    BY <1>4, <2>1, <2>2, <2>3, <2>4 DEF CronStep, DropOld, GiveUp
<1>5. CASE UNCHANGED vars
  BY <1>5 DEF vars
<1>. QED
  BY <1>1, <1>2, <1>3, <1>4, <1>5 DEF Next

(* Once setState(STATE_ERROR or STATE_CLOSED) has run, no later             *)
(* authentication response, send or cron round brings the connection back. *)
THEOREM FailureIsFinal == Spec => NoRevival
<1>1. IInv /\ [Next]_vars => StaysFailed
  BY NextStaysFailed
<1>2. [][StaysFailed]_vars => NoRevival
  BY PTL DEF NoRevival, StaysFailed
<1>. QED
  BY <1>1, <1>2, Invariance, PTL DEF Spec

-----------------------------------------------------------------------------
(* Part 2: attention and order                                             *)

(* While the writer serves a connection it is armed for writing: libevent  *)
(* called it, and only the writer itself disarms a connection that has not *)
(* failed, when there is no packet left.                                   *)
Arming ==
  /\ HalfSentStaysArmed
  /\ ev.pc \in {"write", "check", "disarm"} => "W" \in conn[ev.c].evs
  /\ ev.pc \in {"check", "disarm"} => conn[ev.c].cur = None

LEMMA InitArming == Init => Arming
BY DEF Init, Arming, HalfSentStaysArmed, Idle

LEMMA CreatedFresh ==
  ASSUME TypeOK, NEW flag \in {"client", "server"}, NEW s \in ConnState,
         Create(born + 1, flag, s)
  PROVE  conn'[born + 1].cur = None /\ conn'[born + 1].nid = None
BY DEF Create, TypeOK

(* No step that leaves the writer's place alone disarms or loads.          *)
LEMMA ArmingKept ==
  ASSUME IInv, IInv', Arming, StaysFailed,
         \A c \in live' : \/ c \in live /\ conn'[c].cur = conn[c].cur
                             /\ conn[c].evs \subseteq conn'[c].evs
                          \/ c \in live /\ conn[c].st \in Failed
                          \/ conn'[c].cur = None,
         \/ ev'.pc \notin {"write", "check", "disarm"}
         \/ /\ UNCHANGED ev /\ ev.c \in live
            /\ conn'[ev.c].cur = conn[ev.c].cur /\ conn[ev.c].evs \subseteq conn'[ev.c].evs
  PROVE  Arming'
BY DEF Arming, HalfSentStaysArmed, StaysFailed

LEMMA NextArming == IInv /\ IInv' /\ Arming /\ [Next]_vars => Arming'
<1>. SUFFICES ASSUME IInv, IInv', Arming, [Next]_vars PROVE Arming'
  OBVIOUS
<1>0. /\ conn \in [Conn -> Connection] /\ live \subseteq Conn /\ StaysFailed
      /\ DescriptorsDistinct
      /\ ev.pc # "idle" => ev.c \in live
  BY TypeFacts, NextStaysFailed DEF IInv, Safety, TargetsAlive
<1>1. ASSUME NEW w \in Worker, WorkerStep(w) PROVE Arming'
  <2>1. CASE SendMiss(w) \/ SendPush(w)
    <3>1. UNCHANGED <<conn, live, ev>>
      BY <2>1 DEF SendMiss, SendPush
    <3>. QED
      BY <3>1 DEF Arming, HalfSentStaysArmed
  <2>2. CASE SendArm(w)
    <3>1. /\ live' = live /\ ev' = ev
          /\ \A c \in Conn : /\ conn'[c].cur = conn[c].cur /\ conn[c].evs \subseteq conn'[c].evs
                             /\ conn'[c].st = conn[c].st
      BY <1>0, <2>2 DEF SendArm, Connection
    <3>2. ev.pc # "idle" => ev.c \in Conn
      BY <1>0
    <3>. QED
      BY <1>0, <3>1, <3>2 DEF Arming, HalfSentStaysArmed
  <2>. QED
    BY <1>1, <2>1, <2>2 DEF WorkerStep
<1>2. CASE WriteStep
  <2>1. ASSUME NEW c \in Conn, WriteReady(c) PROVE Arming'
    BY <2>1 DEF WriteReady, Arming, HalfSentStaysArmed, IInv, TypeOK, EventState
  <2>2. CASE LoadPkt
    BY <1>0, <2>2 DEF LoadPkt, Arming, HalfSentStaysArmed, Connection
  <2>3. CASE SendWhole
    BY <1>0, <2>3 DEF SendWhole, Arming, HalfSentStaysArmed, Connection
  <2>4. CASE SendAgain
    BY <1>0, <2>4, ArmingKept DEF SendAgain, Idle
  <2>5. ASSUME NEW s \in Failed, SendFails(s) PROVE Arming'
    BY <1>0, <2>5 DEF SendFails, Arming, HalfSentStaysArmed, Connection, IInv, TypeOK, EventState
  <2>6. CASE WriteDone
    BY <2>6 DEF WriteDone, Arming, HalfSentStaysArmed, IInv, TypeOK, EventState
  <2>7. CASE CheckEmpty
    BY <2>7 DEF CheckEmpty, Arming, HalfSentStaysArmed, IInv, TypeOK, EventState, Idle
  <2>8. CASE Disarm
    <3>1. conn' = [conn EXCEPT ![ev.c].evs = @ \ {"W"}] /\ ev' = Idle /\ live' = live
      <4>1. ev.pc = "disarm" /\ DelFileEvent(ev.c, {"W"}) /\ ev' = Idle /\ live' = live
        BY <2>8 DEF Disarm
      <4>2. ev.c \in live
        BY <1>0, <4>1
      <4>. QED
        BY <1>0, <4>1, <4>2, Deleted DEF IInv
    <3>2. conn[ev.c].cur = None
      BY <2>8 DEF Disarm, Arming
    <3>. QED
      BY <1>0, <3>1, <3>2 DEF Arming, HalfSentStaysArmed, Connection, Idle
  <2>. QED
    BY <1>2, <2>1, <2>2, <2>3, <2>4, <2>5, <2>6, <2>7, <2>8 DEF WriteStep
<1>3. CASE ReadStep
  <2>1. CASE Accept
    <3>1. Create(born + 1, "server", "AUTH") /\ ev' = ev /\ ev.pc = "idle"
      BY <2>1 DEF Accept
    <3>. QED
      BY <1>0, <3>1, Created, CreatedFresh, ArmingKept DEF IInv, ConnState
  <2>2. ASSUME NEW d \in Conn, NEW n \in Peer, PeerAuth(d, n) PROVE Arming'
    <3>1. /\ live' = live /\ ev'.pc = "rsp"
          /\ \A c \in Conn : conn'[c].cur = conn[c].cur /\ conn[c].evs \subseteq conn'[c].evs
      BY <1>0, <2>2 DEF PeerAuth, Connection, IInv, TypeOK, EventState
    <3>. QED
      BY <1>0, <3>1, ArmingKept
  <2>3. CASE SendRsp
    <3>1. /\ live' = live /\ ev' = Idle
          /\ \A c \in Conn : conn'[c].cur = conn[c].cur /\ conn[c].evs \subseteq conn'[c].evs
      BY <1>0, <2>3 DEF SendRsp, Connection
    <3>. QED
      BY <1>0, <3>1, ArmingKept DEF Idle
  <2>4. ASSUME NEW n \in Node, RecvAuthRsp(n) PROVE Arming'
    <3>1. /\ live' = live /\ ev' = ev /\ ev.pc = "idle"
          /\ \A c \in Conn : conn'[c].cur = conn[c].cur /\ conn[c].evs \subseteq conn'[c].evs
      BY <1>0, <2>4 DEF RecvAuthRsp, Connection
    <3>. QED
      BY <1>0, <3>1, ArmingKept
  <2>5. ASSUME NEW d \in Conn, NEW s \in Failed, ReadFails(d, s) PROVE Arming'
    <3>1. /\ live' = live /\ ev'.pc = "fail"
          /\ \A c \in Conn : conn'[c].cur = conn[c].cur /\ conn[c].evs \subseteq conn'[c].evs
      BY <1>0, <2>5 DEF ReadFails, Connection, IInv, TypeOK, EventState
    <3>. QED
      BY <1>0, <3>1, ArmingKept
  <2>6. CASE FailDisarm
    <3>1. /\ conn' = [conn EXCEPT ![ev.c].evs = @ \ {"R", "W"}] /\ live' = live
          /\ ev'.pc \in {"idle", "close"} /\ conn[ev.c].st \in Failed
      <4>1. /\ ev.pc = "fail" /\ DelFileEvent(ev.c, {"R", "W"}) /\ live' = live
            /\ ev'.pc \in {"idle", "close"} /\ conn[ev.c].st \in Failed
        BY <2>6 DEF FailDisarm, IInv, TypeOK, EventState, Idle, EventThreadOK
      <4>2. ev.c \in live
        BY <1>0, <4>1
      <4>. QED
        BY <1>0, <4>1, <4>2, Deleted DEF IInv
    <3>2. \A c \in live : c = ev.c \/ conn'[c] = conn[c]
      BY <1>0, <3>1
    <3>. QED
      BY <1>0, <3>1, <3>2, ArmingKept
  <2>7. CASE FailClose
    <3>1. live' \subseteq live /\ conn' = conn /\ ev' = Idle
      BY <2>7 DEF FailClose, CloseConnection
    <3>. QED
      BY <1>0, <3>1, ArmingKept DEF Idle
  <2>. QED
    BY <1>3, <2>1, <2>2, <2>3, <2>4, <2>5, <2>6, <2>7 DEF ReadStep
<1>4. CASE CronStep
  <2>1. ASSUME NEW n \in Node, Dial(n) \/ Redial(n) PROVE Arming'
    <3>1. Create(born + 1, "client", "NONE") /\ ev'.pc \in {"name", "alias"}
      BY <2>1 DEF Dial, Redial
    <3>. QED
      BY <1>0, <3>1, Created, CreatedFresh, ArmingKept DEF IInv, ConnState
  <2>2. CASE TakeQueue
    <3>1. /\ live' = live /\ ev'.pc = "drop"
          /\ \A c \in Conn : conn'[c].cur = conn[c].cur /\ conn[c].evs \subseteq conn'[c].evs
      <4>1. /\ live' = live /\ ev'.pc = "drop" /\ ev.c \in Conn /\ ev.old \in Conn
            /\ conn' = [conn EXCEPT ![ev.c].out = conn[ev.old].out, ![ev.old].cache = FALSE]
        BY <1>0, <2>2 DEF TakeQueue, IInv, TypeOK, EventState, Safety, TargetsAlive
      <4>. QED
        BY <1>0, <4>1 DEF Connection
    <3>. QED
      BY <1>0, <3>1, ArmingKept
  <2>3. CASE DropOld
    <3>1. live' \subseteq live /\ conn' = conn /\ ev'.pc = "name"
      BY <2>3 DEF DropOld, CloseConnection, IInv, TypeOK, EventState
    <3>. QED
      BY <1>0, <3>1, ArmingKept
  <2>4. CASE SetNodeInfo
    <3>1. /\ live' = live /\ ev'.pc = "ready"
          /\ \A c \in Conn : conn'[c].cur = conn[c].cur /\ conn[c].evs \subseteq conn'[c].evs
      BY <1>0, <2>4 DEF SetNodeInfo, Connection, IInv, TypeOK, EventState
    <3>. QED
      BY <1>0, <3>1, ArmingKept
  <2>5. CASE NodeReady
    <3>1. /\ live' = live /\ ev' = Idle
          /\ \A c \in Conn : conn'[c].cur = conn[c].cur /\ conn[c].evs \subseteq conn'[c].evs
      BY <1>0, <2>5 DEF NodeReady, Connection
    <3>. QED
      BY <1>0, <3>1, ArmingKept DEF Idle
  <2>6. ASSUME NEW n \in Node, GiveUp(n) PROVE Arming'
    <3>1. live' \subseteq live /\ conn' = conn /\ ev' = ev /\ ev.pc = "idle"
      BY <2>6 DEF GiveUp, CloseConnection
    <3>. QED
      BY <1>0, <3>1, ArmingKept
  <2>. QED
    BY <1>4, <2>1, <2>2, <2>3, <2>4, <2>5, <2>6 DEF CronStep
<1>5. CASE UNCHANGED vars
  BY <1>5 DEF vars, Arming, HalfSentStaysArmed
<1>. QED
  BY <1>1, <1>2, <1>3, <1>4, <1>5 DEF Next

(* A packet that was only partly sent is never left without the attention  *)
(* of its socket, unless the connection failed.                            *)
THEOREM HalfSentIsArmed == Spec => []HalfSentStaysArmed
<1>1. Spec => []Arming
  BY Invariance, InitArming, NextArming, PTL DEF Spec
<1>2. Arming => HalfSentStaysArmed
  BY DEF Arming
<1>. QED
  BY <1>1, <1>2, PTL

-----------------------------------------------------------------------------
(* The nodes this process dials do not dial it as well.                    *)
DialledOnly == Node \cap Peer = {}

(* A connection that carries a dialled node's id is that node's context,   *)
(* or is about to become it; the context it replaces was closed before.    *)
Naming ==
  /\ \A c \in live : conn[c].nid \in Node =>
       \/ ctx[conn[c].nid] = c
       \/ ev.pc = "ready" /\ ev.c = c /\ ev.nid = conn[c].nid
  /\ ev.pc \in {"name", "ready"} => ctx[ev.nid] \notin live

LEMMA InitNaming == Init => Naming
BY DEF Init, Naming, Idle

(* No step outside SetNodeInfo and NodeReady names a connection.           *)
LEMMA NamingKept ==
  ASSUME Naming, UNCHANGED ctx, live' \subseteq live \cup {born + 1}, born + 1 \notin live,
         \A c \in live' : \/ c \in live /\ conn'[c].nid = conn[c].nid
                          \/ conn'[c].nid \notin Node,
         \/ ev.pc # "ready" /\ ev'.pc \notin {"name", "ready"}
         \/ UNCHANGED <<ev, live>>
  PROVE  Naming'
BY DEF Naming

LEMMA NextNaming ==
  ASSUME DialledOnly
  PROVE  IInv /\ Naming /\ [Next]_vars => Naming'
<1>. SUFFICES ASSUME IInv, Naming, [Next]_vars PROVE Naming'
  OBVIOUS
<1>0. /\ conn \in [Conn -> Connection] /\ live \subseteq Conn
      /\ DescriptorsDistinct /\ born + 1 \notin live
      /\ ev.pc # "idle" => ev.c \in live
      /\ None \notin Node
  BY TypeFacts, SendPathAssumption DEF IInv, Safety, TargetsAlive, SendPathAssumption, Nid
<1>1. ASSUME NEW w \in Worker, WorkerStep(w) PROVE Naming'
  <2>1. /\ UNCHANGED <<live, ev, ctx>>
        /\ \A c \in Conn : conn'[c].nid = conn[c].nid
    BY <1>0, <1>1 DEF WorkerStep, SendMiss, SendPush, SendArm, Connection
  <2>. QED
    BY <1>0, <2>1, NamingKept
<1>2. CASE WriteStep
  <2>1. /\ UNCHANGED <<live, ctx>>
        /\ \A c \in Conn : conn'[c].nid = conn[c].nid
    <3>1. CASE Disarm
      BY <1>0, <3>1 DEF Disarm, DelFileEvent, Connection
    <3>2. CASE LoadPkt \/ SendWhole
      BY <1>0, <3>2 DEF LoadPkt, SendWhole, Connection
    <3>3. ASSUME NEW s \in Failed, SendFails(s)
          PROVE  UNCHANGED <<live, ctx>> /\ \A c \in Conn : conn'[c].nid = conn[c].nid
      BY <1>0, <3>3 DEF SendFails, Connection
    <3>. QED
      BY <1>2, <3>1, <3>2, <3>3 DEF WriteStep, WriteReady, SendAgain, WriteDone, CheckEmpty
  <2>2. ev.pc # "ready" /\ ev'.pc \notin {"name", "ready"}
    <3>0. ev \in EventState
      BY DEF IInv, TypeOK
    <3>1. ASSUME NEW c \in Conn, WriteReady(c)
          PROVE  ev.pc # "ready" /\ ev'.pc \notin {"name", "ready"}
      BY <3>0, <3>1 DEF WriteReady, EventState
    <3>2. CASE LoadPkt \/ SendWhole
      BY <3>2 DEF LoadPkt, SendWhole
    <3>3. ASSUME NEW s \in Failed, SendFails(s)
          PROVE  ev.pc # "ready" /\ ev'.pc \notin {"name", "ready"}
      BY <3>0, <3>3 DEF SendFails, EventState
    <3>4. CASE SendAgain \/ WriteDone \/ CheckEmpty \/ Disarm
      BY <3>0, <3>4 DEF SendAgain, WriteDone, CheckEmpty, Disarm, Idle, EventState
    <3>. QED
      BY <1>2, <3>1, <3>2, <3>3, <3>4 DEF WriteStep
  <2>. QED
    BY <1>0, <2>1, <2>2, NamingKept
<1>3. CASE ReadStep
  <2>0. ev.pc # "ready" /\ ev'.pc \notin {"name", "ready"} /\ ctx' = ctx
    <3>. DEFINE Quiet == ev.pc # "ready" /\ ev'.pc \notin {"name", "ready"} /\ ctx' = ctx
    <3>0. ev \in EventState
      BY DEF IInv, TypeOK
    <3>1. ASSUME NEW c \in Conn, NEW n \in Peer, PeerAuth(c, n) PROVE Quiet
      BY <3>0, <3>1 DEF PeerAuth, EventState
    <3>2. ASSUME NEW n \in Node, RecvAuthRsp(n) PROVE Quiet
      BY <3>2 DEF RecvAuthRsp
    <3>3. ASSUME NEW c \in Conn, NEW s \in Failed, ReadFails(c, s) PROVE Quiet
      BY <3>0, <3>3 DEF ReadFails, EventState
    <3>4. CASE Accept \/ SendRsp \/ FailDisarm \/ FailClose
      BY <3>0, <3>4 DEF Accept, SendRsp, FailDisarm, FailClose, Idle, EventState
    <3>. QED
      BY <1>3, <3>1, <3>2, <3>3, <3>4 DEF ReadStep
  <2>1. CASE Accept
    <3>1. Create(born + 1, "server", "AUTH")
      BY <2>1 DEF Accept
    <3>2. /\ live' = live \cup {born + 1} /\ conn'[born + 1].nid = None
          /\ \A d \in Conn : d # born + 1 => conn'[d] = conn[d]
      BY <3>1, Created, CreatedFresh DEF IInv, ConnState
    <3>. QED
      BY <1>0, <2>0, <3>2, NamingKept
  <2>2. ASSUME NEW d \in Conn, NEW n \in Peer, PeerAuth(d, n) PROVE Naming'
    <3>1. /\ live' = live /\ n \notin Node
          /\ \A c \in Conn : conn'[c].nid = IF c = d THEN n ELSE conn[c].nid
      BY <1>0, <2>2 DEF PeerAuth, Connection, DialledOnly
    <3>. QED
      BY <1>0, <2>0, <3>1, NamingKept
  <2>3. ASSUME live' \subseteq live, \A c \in Conn : conn'[c].nid = conn[c].nid
        PROVE  Naming'
    BY <1>0, <2>0, <2>3, NamingKept
  <2>4. CASE SendRsp
    BY <1>0, <2>3, <2>4 DEF SendRsp, Connection
  <2>5. ASSUME NEW n \in Node, RecvAuthRsp(n) PROVE Naming'
    BY <1>0, <2>3, <2>5 DEF RecvAuthRsp, Connection
  <2>6. ASSUME NEW d \in Conn, NEW s \in Failed, ReadFails(d, s) PROVE Naming'
    BY <1>0, <2>3, <2>6 DEF ReadFails, Connection
  <2>7. CASE FailDisarm
    BY <1>0, <2>3, <2>7 DEF FailDisarm, DelFileEvent, Connection
  <2>8. CASE FailClose
    BY <2>3, <2>8 DEF FailClose, CloseConnection
  <2>. QED
    BY <1>3, <2>1, <2>2, <2>4, <2>5, <2>6, <2>7, <2>8 DEF ReadStep
<1>4. CASE CronStep
  <2>1. ASSUME NEW n \in Node, Dial(n) \/ Redial(n) PROVE Naming'
    <3>1. Create(born + 1, "client", "NONE") /\ ctx' = ctx /\ ev.pc = "idle"
      BY <2>1 DEF Dial, Redial
    <3>2. /\ live' = live \cup {born + 1} /\ conn'[born + 1].nid = None
          /\ \A d \in Conn : d # born + 1 => conn'[d] = conn[d]
      BY <3>1, Created, CreatedFresh DEF IInv, ConnState
    <3>3. CASE Dial(n)
      <4>1. ev'.pc = "name" /\ ev'.nid = n /\ ctx[n] = NoConn
        BY <3>3 DEF Dial
      <4>2. ctx'[n] \notin live'
        BY <1>0, <3>1, <3>2, <4>1, TypeFacts DEF NoConn, IInv
      <4>. QED
        BY <1>0, <3>1, <3>2, <4>1, <4>2 DEF Naming
    <3>4. CASE Redial(n)
      <4>1. ev'.pc = "alias"
        BY <3>4 DEF Redial
      <4>. QED
        BY <1>0, <3>1, <3>2, <4>1, NamingKept
    <3>. QED
      BY <2>1, <3>3, <3>4
  <2>2. CASE TakeQueue
    <3>1. /\ live' = live /\ ev'.pc = "drop" /\ ev.pc = "alias" /\ ctx' = ctx
          /\ ev.c \in Conn /\ ev.old \in Conn
          /\ conn' = [conn EXCEPT ![ev.c].out = conn[ev.old].out, ![ev.old].cache = FALSE]
      BY <1>0, <2>2 DEF TakeQueue, IInv, TypeOK, EventState, Safety, TargetsAlive
    <3>2. \A c \in Conn : conn'[c].nid = conn[c].nid
      BY <1>0, <3>1 DEF Connection
    <3>. QED
      BY <1>0, <3>1, <3>2, NamingKept
  <2>3. CASE DropOld
    <3>1. /\ ev.pc = "drop" /\ ev.old \in live /\ ctx[ev.nid] = ev.old
          /\ CloseConnection(ev.old) /\ UNCHANGED <<conn, ctx>>
          /\ ev'.nid = ev.nid /\ ev'.pc = "name"
      BY <2>3 DEF DropOld, IInv, Safety, TargetsAlive, EventThreadOK, TypeOK, EventState
    <3>2. live' = live \ {ev.old}
      BY <1>0, <3>1, Closed
    <3>. QED
      BY <3>1, <3>2 DEF Naming
  <2>4. CASE SetNodeInfo
    <3>1. /\ ev.pc = "name" /\ UNCHANGED <<live, ctx>> /\ ev.c \in live
          /\ ev'.pc = "ready" /\ ev'.c = ev.c /\ ev'.nid = ev.nid
          /\ \A c \in Conn : conn'[c].nid = IF c = ev.c THEN ev.nid ELSE conn[c].nid
      BY <1>0, <2>4 DEF SetNodeInfo, Connection, IInv, TypeOK, EventState
    <3>. QED
      BY <1>0, <3>1 DEF Naming
  <2>5. CASE NodeReady
    <3>1. /\ ev.pc = "ready" /\ live' = live /\ ev' = Idle /\ ev.c \in live
          /\ ev.nid \in Node /\ \A c \in Conn : conn'[c].nid = conn[c].nid
          /\ ctx' = [ctx EXCEPT ![ev.nid] = ev.c] /\ ctx \in [Node -> Conn \cup {NoConn}]
      BY <1>0, <2>5 DEF NodeReady, Connection, IInv, TypeOK, EventThreadOK, Dialling
    <3>2. \A c \in live : conn[c].nid \in Node => ctx'[conn[c].nid] = c
      BY <1>0, <3>1 DEF Naming
    <3>. QED
      BY <1>0, <3>1, <3>2 DEF Naming, Idle
  <2>6. ASSUME NEW n \in Node, GiveUp(n) PROVE Naming'
    <3>1. /\ ev.pc = "idle" /\ ctx[n] \in live /\ CloseConnection(ctx[n])
          /\ ctx' = [ctx EXCEPT ![n] = NoConn] /\ UNCHANGED <<conn, ev>>
          /\ ctx \in [Node -> Conn \cup {NoConn}]
      BY <2>6 DEF GiveUp, IInv, TypeOK, Safety, TargetsAlive
    <3>2. live' = live \ {ctx[n]}
      BY <1>0, <3>1, Closed
    <3>. QED
      BY <3>1, <3>2 DEF Naming
  <2>. QED
    BY <1>4, <2>1, <2>2, <2>3, <2>4, <2>5, <2>6 DEF CronStep
<1>5. CASE UNCHANGED vars
  BY <1>5 DEF vars, Naming
<1>. QED
  BY <1>1, <1>2, <1>3, <1>4, <1>5 DEF Next

(* The messages to a dialled node never split between two connections.     *)
THEOREM NodesHaveOneConnection ==
  ASSUME DialledOnly
  PROVE  Spec => []OneConnectionPerNode
<1>1. Spec => []Naming
  BY Invariance, InitNaming, NextNaming, PTL DEF Spec
<1>2. Naming => OneConnectionPerNode
  <2>. SUFFICES ASSUME Naming, NEW n \in Node, NEW c \in WithNid(n), NEW d \in WithNid(n)
                PROVE  c = d
    BY DEF OneConnectionPerNode
  <2>. QED
    BY DEF Naming, WithNid
<1>. QED
  BY <1>1, <1>2, PTL

-----------------------------------------------------------------------------
(* What the threads at rest and the freed queues are like.                 *)
FreedQueuesEmpty == \A q \in Conn \ alloc : queue[q] = <<>>

ThreadsAtRest ==
  /\ ev.pc = "idle" => ev.c = NoConn /\ ev.old = NoConn
  /\ ev.pc \notin {"alias", "drop"} => ev.old \notin live
  /\ \A w \in Worker : wk[w].pc = "idle" => wk[w].tgt = NoConn

(* A node's connection has been through NodeReady.                         *)
ContextsReady == \A n \in Node : ctx[n] \in live => conn[ctx[n]].st # "NONE"

AtRest == FreedQueuesEmpty /\ ThreadsAtRest /\ ContextsReady

LEMMA InitAtRest == Init => AtRest
BY DEF Init, AtRest, FreedQueuesEmpty, ThreadsAtRest, ContextsReady, Idle

LEMMA NextFreed == IInv /\ FreedQueuesEmpty /\ [Next]_vars => FreedQueuesEmpty'
<1>. SUFFICES ASSUME IInv, FreedQueuesEmpty, [Next]_vars PROVE FreedQueuesEmpty'
  OBVIOUS
<1>0. /\ queue \in [Conn -> Seq(Msg)] /\ live \subseteq Conn /\ alloc \subseteq Conn
      /\ DescriptorsDistinct
      /\ \A c \in live : conn[c].out \in alloc
      /\ ev.pc # "idle" => ev.c \in live
  BY TypeFacts DEF IInv, Safety, TargetsAlive, QueuesOwned, TypeOK
(* A push or a pop is on the queue of a live connection.                   *)
<1>1. ASSUME alloc' = alloc, NEW c \in live,
             \A q \in Conn : q # conn[c].out => queue'[q] = queue[q]
      PROVE  FreedQueuesEmpty'
  BY <1>0, <1>1 DEF FreedQueuesEmpty
<1>2. ASSUME NEW w \in Worker, WorkerStep(w) PROVE FreedQueuesEmpty'
  <2>1. CASE SendPush(w)
    <3>1. PICK c \in live : queue' = [queue EXCEPT ![conn[c].out] =
                                       Append(@, <<w, wk[w].cnt + 1>>)]
      BY <2>1 DEF SendPush
    <3>. QED
      BY <1>0, <1>1, <2>1, <3>1 DEF SendPush
  <2>. QED
    BY <1>2, <2>1 DEF WorkerStep, SendMiss, SendArm, FreedQueuesEmpty
<1>3. CASE LoadPkt
  BY <1>0, <1>1, <1>3 DEF LoadPkt
<1>4. CASE SendRsp
  <2>1. PICK d \in live : queue' = [queue EXCEPT ![conn[d].out] = Append(@, <<"rsp", ev.c>>)]
    BY <1>4 DEF SendRsp
  <2>. QED
    BY <1>0, <1>1, <1>4, <2>1 DEF SendRsp
(* A connection that is closed takes its queue with it.                    *)
<1>5. ASSUME NEW c \in live, CloseConnection(c) PROVE FreedQueuesEmpty'
  <2>1. CASE conn[c].cache
    <3>1. alloc' = alloc \ {conn[c].out} /\ queue' = [queue EXCEPT ![conn[c].out] = <<>>]
      BY <1>0, <1>5, <2>1, Closed
    <3>. QED
      BY <1>0, <3>1 DEF FreedQueuesEmpty
  <2>2. CASE ~conn[c].cache
    BY <1>0, <1>5, <2>2, Closed DEF FreedQueuesEmpty
  <2>. QED
    BY <2>1, <2>2
<1>6. CASE FailClose \/ DropOld
  <2>1. /\ FailClose => ev.c \in live
        /\ DropOld => ev.old \in live
    BY <1>0 DEF FailClose, DropOld, IInv, Safety, TargetsAlive
  <2>. QED
    BY <1>5, <1>6, <2>1 DEF FailClose, DropOld
<1>7. ASSUME NEW n \in Node, GiveUp(n) PROVE FreedQueuesEmpty'
  <2>1. ctx[n] \in live
    BY <1>7 DEF GiveUp, IInv, Safety, TargetsAlive
  <2>. QED
    BY <1>5, <1>7, <2>1 DEF GiveUp
<1>8. CASE TakeQueue
  <2>1. /\ alloc' = alloc \ {conn[ev.c].out} /\ queue' = [queue EXCEPT ![conn[ev.c].out] = <<>>]
        /\ conn[ev.c].out \in Conn
    BY <1>0, <1>8 DEF TakeQueue
  <2>. QED
    BY <1>0, <2>1 DEF FreedQueuesEmpty
<1>9. ASSUME queue' = queue, alloc \subseteq alloc' PROVE FreedQueuesEmpty'
  BY <1>9 DEF FreedQueuesEmpty
<1>10. CASE Accept
  BY <1>9, <1>10 DEF Accept, Create
<1>11. ASSUME NEW n \in Node, Dial(n) \/ Redial(n) PROVE FreedQueuesEmpty'
  BY <1>9, <1>11 DEF Dial, Redial, Create
<1>12. CASE WriteStep
  BY <1>3, <1>9, <1>12 DEF WriteStep, WriteReady, SendWhole, SendAgain, SendFails, WriteDone,
                           CheckEmpty, Disarm
<1>13. CASE ReadStep
  BY <1>4, <1>6, <1>9, <1>10, <1>13 DEF ReadStep, PeerAuth, RecvAuthRsp, ReadFails, FailDisarm
<1>14. CASE CronStep
  BY <1>6, <1>7, <1>8, <1>9, <1>11, <1>14 DEF CronStep, SetNodeInfo, NodeReady
<1>15. CASE UNCHANGED vars
  BY <1>9, <1>15 DEF vars
<1>. QED
  BY <1>2, <1>12, <1>13, <1>14, <1>15 DEF Next

LEMMA NextThreads == IInv /\ ThreadsAtRest /\ [Next]_vars => ThreadsAtRest'
<1>. SUFFICES ASSUME IInv, ThreadsAtRest, [Next]_vars PROVE ThreadsAtRest'
  OBVIOUS
<1>0. /\ ev \in EventState /\ wk \in [Worker -> WorkerState] /\ live \subseteq Conn
      /\ NoConn \notin Conn /\ born \in Nat /\ DescriptorsDistinct
  BY TypeFacts DEF IInv, Safety, NoConn, Conn
<1>1. ASSUME NEW w \in Worker, WorkerStep(w) PROVE ThreadsAtRest'
  <2>1. /\ UNCHANGED <<ev, live>>
        /\ wk'[w].pc = "idle" => wk'[w].tgt = NoConn
        /\ \A v \in Worker : v # w => wk'[v] = wk[v]
    BY <1>0, <1>1 DEF WorkerStep, SendMiss, SendPush, SendArm
  <2>. QED
    BY <2>1 DEF ThreadsAtRest
(* The steps of a handler other than the cron's.                           *)
<1>2. ASSUME live' \subseteq live, wk' = wk, ev.pc \notin {"alias", "drop"},
             \/ ev' = ev
             \/ ev' = Idle
             \/ ev'.pc # "idle" /\ ev'.old = ev.old
      PROVE  ThreadsAtRest'
  BY <1>0, <1>2 DEF ThreadsAtRest, Idle
<1>3. CASE WriteStep
  <2>1. ASSUME NEW c \in Conn, WriteReady(c) PROVE ThreadsAtRest'
    BY <1>0, <1>2, <2>1 DEF WriteReady, EventState
  <2>2. CASE LoadPkt \/ SendWhole \/ SendAgain
    BY <1>2, <2>2 DEF LoadPkt, SendWhole, SendAgain
  <2>3. ASSUME NEW s \in Failed, SendFails(s) PROVE ThreadsAtRest'
    BY <1>0, <1>2, <2>3 DEF SendFails, EventState
  <2>4. CASE WriteDone \/ CheckEmpty \/ Disarm
    BY <1>0, <1>2, <2>4 DEF WriteDone, CheckEmpty, Disarm, EventState
  <2>. QED
    BY <1>3, <2>1, <2>2, <2>3, <2>4 DEF WriteStep
<1>4. CASE ReadStep
  <2>1. CASE Accept
    BY <1>0, <2>1 DEF Accept, Create, ThreadsAtRest, NoConn
  <2>2. ASSUME NEW d \in Conn, NEW n \in Peer, PeerAuth(d, n) PROVE ThreadsAtRest'
    BY <1>0, <1>2, <2>2 DEF PeerAuth, EventState
  <2>3. ASSUME NEW n \in Node, RecvAuthRsp(n) PROVE ThreadsAtRest'
    BY <1>2, <2>3 DEF RecvAuthRsp
  <2>4. ASSUME NEW d \in Conn, NEW s \in Failed, ReadFails(d, s) PROVE ThreadsAtRest'
    BY <1>0, <1>2, <2>4 DEF ReadFails, EventState
  <2>5. CASE SendRsp \/ FailDisarm
    BY <1>0, <1>2, <2>5 DEF SendRsp, FailDisarm, EventState
  <2>6. CASE FailClose
    BY <1>0, <1>2, <2>6 DEF FailClose, CloseConnection
  <2>. QED
    BY <1>4, <2>1, <2>2, <2>3, <2>4, <2>5, <2>6 DEF ReadStep
<1>5. CASE CronStep
  <2>1. ASSUME NEW n \in Node, Dial(n) PROVE ThreadsAtRest'
    <3>1. /\ ev'.pc = "name" /\ ev'.old = NoConn /\ wk' = wk /\ live' = live \cup {born + 1}
          /\ born + 1 \in Nat \ {0}
      BY <1>0, <2>1 DEF Dial, Create
    <3>. QED
      BY <1>0, <3>1 DEF ThreadsAtRest, NoConn
  <2>2. ASSUME NEW n \in Node, Redial(n) PROVE ThreadsAtRest'
    BY <2>2 DEF Redial, ThreadsAtRest
  <2>3. CASE TakeQueue
    BY <1>0, <2>3 DEF TakeQueue, ThreadsAtRest, EventState
  <2>4. CASE DropOld
    <3>1. /\ ev.old \in live /\ CloseConnection(ev.old) /\ wk' = wk
          /\ ev'.pc = "name" /\ ev'.old = ev.old
      BY <1>0, <2>4 DEF DropOld, IInv, Safety, TargetsAlive, EventState
    <3>2. ev.old \notin live'
      BY <1>0, <3>1, Closed
    <3>. QED
      BY <3>1, <3>2 DEF ThreadsAtRest
  <2>5. CASE SetNodeInfo \/ NodeReady
    BY <1>0, <1>2, <2>5 DEF SetNodeInfo, NodeReady, EventState
  <2>6. ASSUME NEW n \in Node, GiveUp(n) PROVE ThreadsAtRest'
    BY <1>2, <2>6 DEF GiveUp, CloseConnection
  <2>. QED
    BY <1>5, <2>1, <2>2, <2>3, <2>4, <2>5, <2>6 DEF CronStep
<1>6. CASE UNCHANGED vars
  BY <1>6 DEF vars, ThreadsAtRest
<1>. QED
  BY <1>1, <1>3, <1>4, <1>5, <1>6 DEF Next

LEMMA NextContexts == IInv /\ ContextsReady /\ [Next]_vars => ContextsReady'
<1>. SUFFICES ASSUME IInv, ContextsReady, [Next]_vars PROVE ContextsReady'
  OBVIOUS
<1>0. /\ conn \in [Conn -> Connection] /\ live \subseteq Conn /\ live \subseteq 1..born
      /\ born \in Nat /\ ctx \in [Node -> Conn \cup {NoConn}] /\ DescriptorsDistinct
      /\ \A n \in Node : ctx[n] # NoConn => ctx[n] \in 1..born
  BY TypeFacts DEF IInv, Safety, TypeOK, ContextsOK
<1>1. ASSUME ctx' = ctx, live' \subseteq live,
             \A c \in Conn : conn[c].st # "NONE" => conn'[c].st # "NONE"
      PROVE  ContextsReady'
  BY <1>0, <1>1 DEF ContextsReady
<1>2. ASSUME NEW w \in Worker, WorkerStep(w) PROVE ContextsReady'
  BY <1>0, <1>1, <1>2 DEF WorkerStep, SendMiss, SendPush, SendArm, Connection
<1>3. CASE WriteStep
  <2>1. CASE Disarm
    BY <1>0, <1>1, <2>1 DEF Disarm, DelFileEvent, Connection
  <2>2. CASE LoadPkt \/ SendWhole
    BY <1>0, <1>1, <2>2 DEF LoadPkt, SendWhole, Connection
  <2>3. ASSUME NEW s \in Failed, SendFails(s) PROVE ContextsReady'
    BY <1>0, <1>1, <2>3 DEF SendFails, Connection, Failed
  <2>4. ASSUME UNCHANGED <<conn, live, ctx>> PROVE ContextsReady'
    BY <1>1, <2>4
  <2>. QED
    BY <1>3, <2>1, <2>2, <2>3, <2>4 DEF WriteStep, WriteReady, SendAgain, WriteDone, CheckEmpty
(* A new connection is no node's context yet.                              *)
<1>4. ASSUME ctx' = ctx, NEW flag \in {"client", "server"}, NEW s \in ConnState,
             Create(born + 1, flag, s)
      PROVE  ContextsReady'
  <2>1. /\ live' = live \cup {born + 1} /\ \A d \in Conn : d # born + 1 => conn'[d] = conn[d]
    BY <1>4, Created DEF IInv
  <2>2. \A n \in Node : ctx[n] # born + 1
    BY <1>0 DEF NoConn
  <2>. QED
    BY <1>0, <1>4, <2>1, <2>2 DEF ContextsReady
<1>5. CASE ReadStep
  <2>1. CASE Accept
    BY <1>4, <2>1 DEF Accept, ConnState
  <2>2. ASSUME NEW d \in Conn, NEW n \in Peer, PeerAuth(d, n) PROVE ContextsReady'
    BY <1>0, <1>1, <2>2 DEF PeerAuth, Connection
  <2>3. CASE SendRsp
    BY <1>0, <1>1, <2>3 DEF SendRsp, Connection
  <2>4. ASSUME NEW n \in Node, RecvAuthRsp(n) PROVE ContextsReady'
    BY <1>0, <1>1, <2>4 DEF RecvAuthRsp, Connection
  <2>5. ASSUME NEW d \in Conn, NEW s \in Failed, ReadFails(d, s) PROVE ContextsReady'
    BY <1>0, <1>1, <2>5 DEF ReadFails, Connection, Failed
  <2>6. CASE FailDisarm
    BY <1>0, <1>1, <2>6 DEF FailDisarm, DelFileEvent, Connection
  <2>7. CASE FailClose
    BY <1>1, <2>7 DEF FailClose, CloseConnection
  <2>. QED
    BY <1>5, <2>1, <2>2, <2>3, <2>4, <2>5, <2>6, <2>7 DEF ReadStep
<1>6. CASE CronStep
  <2>1. ASSUME NEW n \in Node, Dial(n) \/ Redial(n) PROVE ContextsReady'
    BY <1>4, <2>1 DEF Dial, Redial, ConnState
  <2>2. CASE TakeQueue
    <3>1. \A c \in Conn : conn'[c].st = conn[c].st
      BY <1>0, <2>2 DEF TakeQueue, Connection
    <3>. QED
      BY <1>1, <2>2, <3>1 DEF TakeQueue
  <2>3. CASE DropOld
    BY <1>1, <2>3 DEF DropOld, CloseConnection
  <2>4. CASE SetNodeInfo
    BY <1>0, <1>1, <2>4 DEF SetNodeInfo, Connection
  <2>5. CASE NodeReady
    <3>1. /\ live' = live /\ ctx' = [ctx EXCEPT ![ev.nid] = ev.c]
          /\ conn' = [conn EXCEPT ![ev.c].st = "AUTH"]
      BY <2>5 DEF NodeReady
    <3>2. \A c \in Conn : conn'[c].st = IF c = ev.c THEN "AUTH" ELSE conn[c].st
      BY <1>0, <3>1 DEF Connection
    <3>. QED
      BY <1>0, <3>1, <3>2 DEF ContextsReady
  <2>6. ASSUME NEW n \in Node, GiveUp(n) PROVE ContextsReady'
    <3>1. live' \subseteq live /\ conn' = conn /\ ctx' = [ctx EXCEPT ![n] = NoConn]
      BY <2>6 DEF GiveUp, CloseConnection
    <3>2. NoConn \notin live
      BY <1>0 DEF NoConn
    <3>. QED
      BY <1>0, <3>1, <3>2 DEF ContextsReady
  <2>. QED
    BY <1>6, <2>1, <2>2, <2>3, <2>4, <2>5, <2>6 DEF CronStep
<1>7. CASE UNCHANGED vars
  BY <1>7 DEF vars, ContextsReady
<1>. QED
  BY <1>2, <1>3, <1>5, <1>6, <1>7 DEF Next

-----------------------------------------------------------------------------
(* Two connections share a queue only while it is handed over.             *)
LEMMA OwnQueue ==
  ASSUME IInv, NEW c \in live, NEW d \in live, c # d, ev.c # c, ev.old # c
  PROVE  conn[c].out # conn[d].out
<1>. SUFFICES ASSUME conn[c].out = conn[d].out PROVE FALSE
  OBVIOUS
<1>1. conn[c].cache
  BY DEF IInv, AllCached
<1>2. ~conn[d].cache
  BY <1>1 DEF IInv, Safety, QueuesOwned
<1>3. ev.pc = "drop" /\ ev.old = d
  BY <1>2 DEF IInv, AllCached
<1>4. ev.c \in live /\ conn[ev.c].out = conn[d].out /\ ev.old # ev.c
  BY <1>3 DEF IInv, Safety, TargetsAlive, EventThreadOK
<1>5. conn[ev.c].cache
  BY <1>3, <1>4 DEF IInv, AllCached
<1>. QED
  BY <1>1, <1>4, <1>5 DEF IInv, Safety, QueuesOwned

(* A connection in use that has something to send, but not the attention   *)
(* of libevent or of a thread.                                             *)
Stranded(c) ==
  /\ conn[c].st \in {"AUTH", "CONNECTED"}
  /\ queue[conn[c].out] # <<>>
  /\ "W" \notin conn[c].evs
  /\ ev.c # c /\ ev.old # c
  /\ \A w \in Worker : wk[w].tgt # c

LEMMA StrandedIs == StrandedOnlyIfLate <=> \A c \in live : Stranded(c) => conn[c].out \in late
BY DEF StrandedOnlyIfLate, Stranded

(* The step neither does anything for c nor ends something that was to.    *)
Untouched(c) ==
  /\ c \in live
  /\ conn'[c].st = conn[c].st /\ conn'[c].evs = conn[c].evs /\ conn'[c].out = conn[c].out
  /\ queue'[conn[c].out] = queue[conn[c].out]
  /\ conn[c].out \in late => conn[c].out \in late'
  /\ ev.c # c /\ ev.old # c
  /\ \A w \in Worker : wk[w].tgt # c

LEMMA StrandedStep ==
  ASSUME StrandedOnlyIfLate,
         \A c \in live' : Stranded(c)' => Untouched(c) \/ conn'[c].out \in late'
  PROVE  StrandedOnlyIfLate'
<1>. SUFFICES ASSUME NEW c \in live', Stranded(c)' PROVE conn'[c].out \in late'
  BY DEF StrandedOnlyIfLate, Stranded
<1>1. CASE Untouched(c)
  BY <1>1 DEF Untouched, Stranded, StrandedOnlyIfLate
<1>. QED
  BY <1>1

Lateness == StrandedOnlyIfLate /\ AtRest /\ Arming

LEMMA LateFacts ==
  ASSUME IInv, Lateness
  PROVE  /\ conn \in [Conn -> Connection] /\ queue \in [Conn -> Seq(Msg)]
         /\ wk \in [Worker -> WorkerState] /\ ev \in EventState
         /\ live \subseteq Conn /\ NoConn \notin live /\ DescriptorsDistinct
         /\ StrandedOnlyIfLate /\ ThreadsAtRest
         /\ \A c \in live : conn[c].out \in Conn
         /\ ev.pc # "idle" => ev.c \in live
<1>1. /\ conn \in [Conn -> Connection] /\ queue \in [Conn -> Seq(Msg)]
      /\ wk \in [Worker -> WorkerState] /\ ev \in EventState /\ live \subseteq Conn
  BY TypeFacts DEF IInv, TypeOK
<1>2. NoConn \notin live
  BY <1>1 DEF NoConn, Conn
<1>3. /\ DescriptorsDistinct /\ \A c \in live : conn[c].out \in Conn
      /\ ev.pc # "idle" => ev.c \in live
  BY TypeFacts DEF IInv, Safety, TargetsAlive, QueuesOwned
<1>. QED
  BY <1>1, <1>2, <1>3 DEF Lateness, AtRest

LEMMA LateWorker ==
  ASSUME IInv, Lateness, NEW w \in Worker, WorkerStep(w)
  PROVE  StrandedOnlyIfLate'
<1>0. /\ conn \in [Conn -> Connection] /\ queue \in [Conn -> Seq(Msg)]
      /\ wk \in [Worker -> WorkerState] /\ live \subseteq Conn /\ NoConn \notin live
      /\ StrandedOnlyIfLate /\ ThreadsAtRest
      /\ \A c \in live : conn[c].out \in Conn
  BY LateFacts
<1>1. CASE SendMiss(w)
  <2>1. /\ UNCHANGED <<conn, live, queue, ev, late>>
        /\ \A v \in Worker : wk'[v].tgt = wk[v].tgt
    BY <1>0, <1>1 DEF SendMiss, ThreadsAtRest
  <2>. QED
    BY <1>0, <2>1 DEF StrandedOnlyIfLate
<1>2. CASE SendPush(w)
  <2>1. PICK t \in live :
          /\ queue' = [queue EXCEPT ![conn[t].out] = Append(@, <<w, wk[w].cnt + 1>>)]
          /\ wk' = [wk EXCEPT ![w] = [pc |-> "arm", tgt |-> t, cnt |-> wk[w].cnt + 1]]
    BY <1>2 DEF SendPush
  <2>2. UNCHANGED <<conn, live, ev, late>> /\ wk[w].tgt = NoConn
    BY <1>0, <1>2 DEF SendPush, ThreadsAtRest
  <2>3. ASSUME NEW c \in live', Stranded(c)' PROVE Untouched(c)
    <3>1. c \in live /\ ev.c # c /\ ev.old # c /\ \A v \in Worker : wk'[v].tgt # c
      BY <2>2, <2>3 DEF Stranded
    <3>2. c # t /\ \A v \in Worker : wk[v].tgt # c
      BY <1>0, <2>1, <2>2, <3>1
    <3>3. conn[c].out # conn[t].out
      BY <3>1, <3>2, OwnQueue
    <3>. QED
      BY <1>0, <2>1, <2>2, <3>1, <3>2, <3>3 DEF Untouched
  <2>. QED
    BY <1>0, <2>3, StrandedStep
<1>3. CASE SendArm(w)
  <2>. DEFINE t == wk[w].tgt
  <2>1. /\ t \in live /\ UNCHANGED <<live, ev, queue>>
        /\ \A v \in Worker : v # w => wk'[v] = wk[v]
    BY <1>0, <1>3 DEF SendArm, IInv, Safety, TargetsAlive
  <2>2. /\ \A d \in Conn : d # t => conn'[d] = conn[d]
        /\ conn'[t].st = conn[t].st /\ conn'[t].out = conn[t].out
        /\ conn[t].st \in Armable => "W" \in conn'[t].evs
        /\ late \ {conn[t].out} \subseteq late'
    BY <1>0, <1>3, <2>1 DEF SendArm, Connection
  <2>3. ASSUME NEW c \in live', Stranded(c)' PROVE Untouched(c)
    <3>1. c \in live /\ ev.c # c /\ ev.old # c
      BY <2>1, <2>3 DEF Stranded
    <3>2. c # t
      BY <2>2, <2>3 DEF Stranded, Armable
    <3>3. conn[c].out # conn[t].out
      BY <2>1, <3>1, <3>2, OwnQueue
    <3>4. \A v \in Worker : wk[v].tgt # c
      BY <2>1, <2>3, <3>2 DEF Stranded
    <3>. QED
      BY <1>0, <2>1, <2>2, <3>1, <3>2, <3>3, <3>4 DEF Untouched
  <2>. QED
    BY <1>0, <2>3, StrandedStep
<1>. QED
  BY <1>1, <1>2, <1>3 DEF WorkerStep

(* A step of the event thread that goes on serving ev.c, or has just begun *)
(* to, and touches no other connection's state or queue.                   *)
LEMMA LateServing ==
  ASSUME IInv, Lateness, UNCHANGED <<wk, late>>, live' \subseteq live,
         ev'.c \in live, ev.c \in {NoConn, ev'.c}, ev.old \in {NoConn, ev'.old},
         \A d \in live : d # ev'.c => /\ conn'[d].st = conn[d].st /\ conn'[d].evs = conn[d].evs
                                      /\ conn'[d].out = conn[d].out,
         \A q \in Conn : q # conn[ev'.c].out => queue'[q] = queue[q]
  PROVE  StrandedOnlyIfLate'
<1>1. ASSUME NEW c \in live', Stranded(c)' PROVE Untouched(c)
  <2>1. c \in live /\ ev'.c # c /\ ev'.old # c /\ \A w \in Worker : wk[w].tgt # c
    BY <1>1 DEF Stranded
  <2>2. ev.c # c /\ ev.old # c
    BY <2>1, LateFacts
  <2>3. conn[c].out # conn[ev'.c].out /\ conn[c].out \in Conn
    BY <2>1, <2>2, OwnQueue, LateFacts
  <2>. QED
    BY <2>1, <2>2, <2>3 DEF Untouched
<1>. QED
  BY <1>1, StrandedStep, LateFacts

(* A step that ends a handler, with ev.c armed, failed, gone or late.      *)
LEMMA LateEnding ==
  ASSUME IInv, Lateness, UNCHANGED <<wk>>, live' \subseteq live, ev.c \in live,
         ev.old \notin live', ev'.old = NoConn \/ ev'.old = ev.old,
         \A d \in live : d # ev.c => /\ conn'[d].st = conn[d].st /\ conn'[d].evs = conn[d].evs
                                     /\ conn'[d].out = conn[d].out,
         \A q \in Conn : q # conn[ev.c].out =>
           queue'[q] = queue[q] /\ (q \in late => q \in late'),
         \A c \in live' : c = ev.c /\ Stranded(c)' => conn'[c].out \in late'
  PROVE  StrandedOnlyIfLate'
<1>1. ASSUME NEW c \in live', Stranded(c)' PROVE Untouched(c) \/ conn'[c].out \in late'
  <2>1. CASE c = ev.c
    BY <1>1, <2>1
  <2>2. CASE c # ev.c
    <3>1. c \in live /\ ev.old # c /\ \A w \in Worker : wk[w].tgt # c
      BY <1>1 DEF Stranded
    <3>2. conn[c].out # conn[ev.c].out /\ conn[c].out \in Conn
      BY <2>2, <3>1, OwnQueue, LateFacts
    <3>. QED
      BY <2>2, <3>1, <3>2 DEF Untouched
  <2>. QED
    BY <2>1, <2>2
<1>. QED
  BY <1>1, StrandedStep, LateFacts

LEMMA LateWrite ==
  ASSUME IInv, Lateness, WriteStep
  PROVE  StrandedOnlyIfLate'
<1>0. /\ conn \in [Conn -> Connection] /\ queue \in [Conn -> Seq(Msg)] /\ ev \in EventState
      /\ live \subseteq Conn /\ NoConn \notin live /\ DescriptorsDistinct /\ ThreadsAtRest
      /\ \A c \in live : conn[c].out \in Conn
      /\ ev.pc # "idle" => ev.c \in live
      /\ ev.pc \in {"write", "check", "disarm"} => "W" \in conn[ev.c].evs
  BY LateFacts DEF Lateness, Arming
<1>1. ASSUME NEW c \in Conn, WriteReady(c) PROVE StrandedOnlyIfLate'
  <2>1. /\ c \in live /\ ev'.c = c /\ ev'.old = ev.old /\ ev.c = NoConn
        /\ UNCHANGED <<wk, late, live, conn, queue>>
    BY <1>0, <1>1 DEF WriteReady, ThreadsAtRest, EventState
  <2>. QED
    BY <2>1, LateServing
<1>2. CASE LoadPkt
  <2>1. /\ ev.c \in live /\ UNCHANGED <<wk, late, live, ev>>
        /\ \A d \in live : /\ conn'[d].st = conn[d].st /\ conn'[d].evs = conn[d].evs
                            /\ conn'[d].out = conn[d].out
        /\ \A q \in Conn : q # conn[ev.c].out => queue'[q] = queue[q]
    BY <1>0, <1>2 DEF LoadPkt, Connection
  <2>. QED
    BY <2>1, LateServing
<1>3. CASE SendWhole
  <2>1. /\ ev.c \in live /\ UNCHANGED <<wk, late, live, ev, queue>>
        /\ \A d \in live : /\ conn'[d].st = conn[d].st /\ conn'[d].evs = conn[d].evs
                            /\ conn'[d].out = conn[d].out
    BY <1>0, <1>3 DEF SendWhole, Connection
  <2>. QED
    BY <2>1, LateServing
<1>4. ASSUME NEW s \in Failed, SendFails(s) PROVE StrandedOnlyIfLate'
  <2>1. /\ ev.c \in live /\ UNCHANGED <<wk, late, live, queue>>
        /\ ev'.c = ev.c /\ ev'.old = ev.old
        /\ \A d \in live : d # ev.c => conn'[d] = conn[d]
    BY <1>0, <1>4 DEF SendFails, EventState
  <2>2. conn'[ev.c].out = conn[ev.c].out
    BY <1>0, <1>4, <2>1 DEF SendFails, Connection
  <2>. QED
    BY <2>1, <2>2, LateServing
<1>5. CASE WriteDone
  <2>1. /\ ev.c \in live /\ UNCHANGED <<wk, late, live, conn, queue>>
        /\ ev'.c = ev.c /\ ev'.old = ev.old
    BY <1>0, <1>5 DEF WriteDone, EventState
  <2>. QED
    BY <2>1, LateServing
(* The writer stops without disarming.                                     *)
<1>6. ASSUME ev.pc \in {"write", "check"}, ev' = Idle, UNCHANGED <<wk, late, live, conn, queue>>
      PROVE  StrandedOnlyIfLate'
  <2>1. ev.c \in live /\ ev.old \notin live' /\ ev'.old = NoConn
    BY <1>0, <1>6 DEF ThreadsAtRest, Idle
  <2>2. \A c \in live' : c = ev.c /\ Stranded(c)' => conn'[c].out \in late'
    BY <1>0, <1>6 DEF Stranded
  <2>. QED
    BY <1>6, <2>1, <2>2, LateEnding
<1>7. CASE SendAgain
  BY <1>6, <1>7 DEF SendAgain
<1>8. CASE CheckEmpty
  <2>1. CASE queue[conn[ev.c].out] = <<>>
    <3>1. /\ ev.c \in live /\ UNCHANGED <<wk, late, live, conn, queue>>
          /\ ev'.c = ev.c /\ ev'.old = ev.old
      BY <1>0, <1>8, <2>1 DEF CheckEmpty, EventState
    <3>. QED
      BY <3>1, LateServing
  <2>2. CASE queue[conn[ev.c].out] # <<>>
    BY <1>6, <1>8, <2>2 DEF CheckEmpty
  <2>. QED
    BY <2>1, <2>2
<1>9. CASE Disarm
  <2>1. /\ ev.pc = "disarm" /\ DelFileEvent(ev.c, {"W"}) /\ ev' = Idle
        /\ UNCHANGED <<live, queue, wk>>
        /\ late' = IF queue[conn[ev.c].out] # <<>> THEN late \cup {conn[ev.c].out} ELSE late
    BY <1>9 DEF Disarm
  <2>2. ev.c \in live /\ ev.old \notin live' /\ ev'.old = NoConn
    BY <1>0, <2>1 DEF ThreadsAtRest, Idle
  <2>3. conn' = [conn EXCEPT ![ev.c].evs = @ \ {"W"}]
    BY <1>0, <2>1, <2>2, Deleted DEF IInv
  <2>4. /\ \A d \in live : d # ev.c => conn'[d] = conn[d]
        /\ conn'[ev.c].out = conn[ev.c].out
    BY <1>0, <2>2, <2>3 DEF Connection
  <2>5. \A c \in live' : c = ev.c /\ Stranded(c)' => conn'[c].out \in late'
    BY <2>1, <2>4 DEF Stranded
  <2>. QED
    BY <2>1, <2>2, <2>4, <2>5, LateEnding
<1>. QED
  BY <1>1, <1>2, <1>3, <1>4, <1>5, <1>7, <1>8, <1>9 DEF WriteStep

(* A new connection is not stranded: its queue is empty.                   *)
LEMMA LateCreate ==
  ASSUME IInv, Lateness, ev.pc = "idle", UNCHANGED <<wk, late, queue>>,
         NEW flag \in {"client", "server"}, NEW s \in ConnState, Create(born + 1, flag, s)
  PROVE  StrandedOnlyIfLate'
<1>0. /\ live \subseteq Conn /\ NoConn \notin live /\ ThreadsAtRest
      /\ \A q \in Conn \ alloc : queue[q] = <<>>
  BY LateFacts DEF Lateness, AtRest, FreedQueuesEmpty
<1>1. /\ born + 1 \in Conn /\ born + 1 \notin alloc /\ live' = live \cup {born + 1}
      /\ \A d \in Conn : d # born + 1 => conn'[d] = conn[d]
      /\ conn'[born + 1].out = born + 1
  BY Created DEF IInv
<1>2. ASSUME NEW c \in live', Stranded(c)' PROVE Untouched(c)
  <2>1. c # born + 1
    BY <1>0, <1>1, <1>2 DEF Stranded
  <2>2. c \in live /\ ev.c # c /\ ev.old # c
    BY <1>0, <1>1, <2>1 DEF ThreadsAtRest
  <2>. QED
    BY <1>0, <1>1, <1>2, <2>1, <2>2 DEF Untouched, Stranded
<1>. QED
  BY <1>2, StrandedStep, LateFacts

LEMMA LateRead ==
  ASSUME IInv, Lateness, ReadStep
  PROVE  StrandedOnlyIfLate'
<1>0. /\ conn \in [Conn -> Connection] /\ queue \in [Conn -> Seq(Msg)] /\ ev \in EventState
      /\ live \subseteq Conn /\ NoConn \notin live /\ DescriptorsDistinct /\ ThreadsAtRest
      /\ \A c \in live : conn[c].out \in Conn
      /\ ev.pc # "idle" => ev.c \in live
  BY LateFacts
<1>1. CASE Accept
  BY <1>1, LateCreate DEF Accept, ConnState
<1>2. ASSUME NEW c \in Conn, NEW n \in Peer, PeerAuth(c, n) PROVE StrandedOnlyIfLate'
  <2>1. /\ c \in live /\ ev'.c = c /\ ev'.old = ev.old /\ ev.c = NoConn
        /\ UNCHANGED <<wk, late, live, queue>>
        /\ \A d \in live : d # c => conn'[d] = conn[d]
    BY <1>0, <1>2 DEF PeerAuth, ThreadsAtRest, EventState
  <2>. QED
    BY <2>1, LateServing
<1>3. CASE SendRsp
  <2>1. PICK d \in live :
          /\ IsFirst(d, WithFd(conn[ev.c].fd))
          /\ queue' = [queue EXCEPT ![conn[d].out] = Append(@, <<"rsp", ev.c>>)]
          /\ IF conn[d].st = "CONNECTED"
               THEN /\ conn' = [conn EXCEPT ![d].evs = @ \cup {"W"}]
                    /\ late' = late \ {conn[d].out}
               ELSE /\ late' = late \cup {conn[d].out}
                    /\ UNCHANGED conn
    BY <1>3 DEF SendRsp
  <2>2. /\ ev.c \in live /\ ev.old \notin live' /\ ev'.old = NoConn /\ ev' = Idle
        /\ UNCHANGED <<wk, live>>
    BY <1>0, <1>3 DEF SendRsp, ThreadsAtRest, Idle
  <2>3. d = ev.c
    BY <1>0, <2>1, <2>2, OwnDescriptor
  <2>4. /\ \A e \in live : e # ev.c => conn'[e] = conn[e]
        /\ conn'[ev.c].out = conn[ev.c].out
        /\ "W" \in conn'[ev.c].evs \/ conn[ev.c].out \in late'
    <3>1. CASE conn[d].st = "CONNECTED"
      <4>1. conn' = [conn EXCEPT ![ev.c].evs = @ \cup {"W"}]
        BY <2>1, <2>3, <3>1
      <4>2. conn'[ev.c].out = conn[ev.c].out /\ "W" \in conn'[ev.c].evs
        BY <1>0, <2>2, <4>1 DEF Connection
      <4>. QED
        BY <1>0, <4>1, <4>2
    <3>2. CASE conn[d].st # "CONNECTED"
      BY <2>1, <2>3, <3>2
    <3>. QED
      BY <3>1, <3>2
  <2>5. \A q \in Conn : q # conn[ev.c].out => queue'[q] = queue[q] /\ (q \in late => q \in late')
    BY <1>0, <2>1, <2>3
  <2>6. \A c \in live' : c = ev.c /\ Stranded(c)' => conn'[c].out \in late'
    BY <2>4 DEF Stranded
  <2>. QED
    BY <2>2, <2>4, <2>5, <2>6, LateEnding
<1>4. ASSUME NEW n \in Node, RecvAuthRsp(n) PROVE StrandedOnlyIfLate'
  <2>. DEFINE d == ctx[n]
  <2>1. /\ ev.pc = "idle" /\ d # NoConn /\ "R" \in conn[d].evs
        /\ conn' = [conn EXCEPT ![d].st = "CONNECTED"]
        /\ UNCHANGED <<live, queue, wk, ev, late>>
    BY <1>4 DEF RecvAuthRsp
  <2>2. d \in live
    BY <2>1 DEF IInv, Safety, TargetsAlive
  <2>3. conn[d].st \in {"AUTH", "CONNECTED"}
    <3>1. conn[d].st \notin Failed
      BY <2>1, <2>2 DEF IInv, FailedDisarmed
    <3>2. conn[d].st # "NONE"
      BY <2>2 DEF Lateness, AtRest, ContextsReady
    <3>3. conn[d].st \in ConnState
      BY <1>0, <2>2 DEF Connection
    <3>. QED
      BY <3>1, <3>2, <3>3 DEF ConnState
  <2>4. \A c \in live : /\ conn'[c].evs = conn[c].evs /\ conn'[c].out = conn[c].out
                        /\ conn'[c].st = IF c = d THEN "CONNECTED" ELSE conn[c].st
    BY <1>0, <2>1, <2>2 DEF Connection
  <2>. QED
    BY <1>0, <2>1, <2>3, <2>4, LateFacts DEF StrandedOnlyIfLate
<1>5. ASSUME NEW c \in Conn, NEW s \in Failed, ReadFails(c, s) PROVE StrandedOnlyIfLate'
  <2>1. /\ c \in live /\ ev'.c = c /\ ev'.old = ev.old /\ ev.c = NoConn
        /\ UNCHANGED <<wk, late, live, queue>>
        /\ \A d \in live : d # c => conn'[d] = conn[d]
    BY <1>0, <1>5 DEF ReadFails, ThreadsAtRest, EventState
  <2>. QED
    BY <2>1, LateServing
<1>6. CASE FailDisarm
  <2>1. /\ ev.pc = "fail" /\ DelFileEvent(ev.c, {"R", "W"}) /\ UNCHANGED <<live, queue, wk, late>>
        /\ ev'.old = NoConn \/ ev'.old = ev.old
        /\ conn[ev.c].st \in Failed
    BY <1>0, <1>6 DEF FailDisarm, IInv, EventThreadOK, EventState, Idle
  <2>2. ev.c \in live /\ ev.old \notin live'
    BY <1>0, <2>1 DEF ThreadsAtRest
  <2>3. conn' = [conn EXCEPT ![ev.c].evs = @ \ {"R", "W"}]
    BY <1>0, <2>1, <2>2, Deleted DEF IInv
  <2>4. /\ \A d \in live : d # ev.c => conn'[d] = conn[d]
        /\ conn'[ev.c].st = conn[ev.c].st
    <3>1. ev.c \in Conn /\ conn[ev.c] \in Connection
      BY <1>0, <2>2
    <3>2. \A d \in live : d # ev.c => conn'[d] = conn[d]
      BY <1>0, <2>3, <3>1
    <3>3. conn'[ev.c] = [conn[ev.c] EXCEPT !.evs = @ \ {"R", "W"}]
      BY <1>0, <2>3, <3>1
    <3>. QED
      BY <3>1, <3>2, <3>3 DEF Connection
  <2>5. \A c \in live' : c = ev.c /\ Stranded(c)' => conn'[c].out \in late'
    BY <2>1, <2>4 DEF Stranded, Failed
  <2>. QED
    BY <2>1, <2>2, <2>4, <2>5, LateEnding
<1>7. CASE FailClose
  <2>1. /\ ev.c \in live /\ CloseConnection(ev.c) /\ ev' = Idle /\ UNCHANGED <<conn, wk>>
        /\ ev.pc = "close" /\ ev.old \notin live
    BY <1>0, <1>7 DEF FailClose, ThreadsAtRest
  <2>2. /\ live' = live \ {ev.c}
        /\ \A q \in Conn : q # conn[ev.c].out => queue'[q] = queue[q] /\ (q \in late => q \in late')
    BY <1>0, <2>1, Closed
  <2>3. ev'.old = NoConn /\ ev.old \notin live'
    BY <2>1, <2>2 DEF Idle
  <2>4. \A c \in live' : c = ev.c /\ Stranded(c)' => conn'[c].out \in late'
    BY <2>2
  <2>. QED
    BY <2>1, <2>2, <2>3, <2>4, LateEnding
<1>. QED
  BY <1>1, <1>2, <1>3, <1>4, <1>5, <1>6, <1>7 DEF ReadStep

LEMMA LateCron ==
  ASSUME IInv, Lateness, CronStep
  PROVE  StrandedOnlyIfLate'
<1>0. /\ conn \in [Conn -> Connection] /\ queue \in [Conn -> Seq(Msg)] /\ ev \in EventState
      /\ live \subseteq Conn /\ NoConn \notin live /\ DescriptorsDistinct /\ ThreadsAtRest
      /\ \A c \in live : conn[c].out \in Conn
      /\ ev.pc # "idle" => ev.c \in live
  BY LateFacts
<1>1. ASSUME NEW n \in Node, Dial(n) \/ Redial(n) PROVE StrandedOnlyIfLate'
  BY <1>1, LateCreate DEF Dial, Redial, ConnState
(* The hand-over: the new connection's queue goes, the old one's stays.    *)
<1>2. CASE TakeQueue
  <2>1. /\ ev.pc = "alias" /\ ev.c \in live /\ ev.old \in live
        /\ ev'.c = ev.c /\ ev'.old = ev.old /\ UNCHANGED <<wk, late, live>>
        /\ conn' = [conn EXCEPT ![ev.c].out = conn[ev.old].out, ![ev.old].cache = FALSE]
        /\ queue' = [queue EXCEPT ![conn[ev.c].out] = <<>>]
    BY <1>0, <1>2 DEF TakeQueue, EventState, IInv, Safety, TargetsAlive
  <2>2. \A d \in live : d # ev.c => /\ conn'[d].st = conn[d].st /\ conn'[d].evs = conn[d].evs
                                    /\ conn'[d].out = conn[d].out
    BY <1>0, <2>1 DEF Connection
  <2>. QED
    BY <1>0, <2>1, <2>2, LateServing
<1>3. CASE DropOld
  <2>1. /\ ev.c \in live /\ ev.old \in live /\ CloseConnection(ev.old) /\ ~conn[ev.old].cache
        /\ ev'.c = ev.c /\ ev'.old = ev.old /\ UNCHANGED <<conn, wk>>
    BY <1>0, <1>3 DEF DropOld, EventState, IInv, Safety, TargetsAlive, EventThreadOK
  <2>2. live' = live \ {ev.old} /\ UNCHANGED <<queue, late>>
    BY <1>0, <2>1, Closed
  <2>. QED
    BY <2>1, <2>2, LateServing
<1>4. CASE SetNodeInfo
  <2>1. /\ ev.c \in live /\ ev'.c = ev.c /\ ev'.old = ev.old
        /\ UNCHANGED <<wk, late, live, queue>>
        /\ \A d \in live : d # ev.c => conn'[d] = conn[d]
    BY <1>0, <1>4 DEF SetNodeInfo, EventState
  <2>2. conn'[ev.c].out = conn[ev.c].out
    BY <1>0, <1>4, <2>1 DEF SetNodeInfo, Connection
  <2>. QED
    BY <2>1, <2>2, LateServing
<1>5. CASE NodeReady
  <2>1. /\ ev.c \in live /\ ev.old \notin live' /\ ev'.old = NoConn
        /\ UNCHANGED <<wk, live, queue>>
        /\ late' = IF queue[conn[ev.c].out] # <<>> THEN late \cup {conn[ev.c].out} ELSE late
        /\ \A d \in live : d # ev.c => conn'[d] = conn[d]
    BY <1>0, <1>5 DEF NodeReady, ThreadsAtRest, Idle
  <2>2. conn'[ev.c].out = conn[ev.c].out
    BY <1>0, <1>5, <2>1 DEF NodeReady, Connection
  <2>3. \A c \in live' : c = ev.c /\ Stranded(c)' => conn'[c].out \in late'
    BY <2>1, <2>2 DEF Stranded
  <2>. QED
    BY <2>1, <2>2, <2>3, LateEnding
<1>6. ASSUME NEW n \in Node, GiveUp(n) PROVE StrandedOnlyIfLate'
  <2>1. /\ ev.pc = "idle" /\ ctx[n] \in live /\ CloseConnection(ctx[n])
        /\ UNCHANGED <<conn, ev, wk>>
    BY <1>6 DEF GiveUp, IInv, Safety, TargetsAlive
  <2>2. /\ live' = live \ {ctx[n]}
        /\ \A q \in Conn : q # conn[ctx[n]].out =>
              queue'[q] = queue[q] /\ (q \in late => q \in late')
    BY <1>0, <2>1, Closed
  <2>3. ASSUME NEW c \in live', Stranded(c)' PROVE Untouched(c)
    <3>1. c \in live /\ c # ctx[n] /\ ev.c # c /\ ev.old # c /\ \A w \in Worker : wk[w].tgt # c
      BY <2>1, <2>2, <2>3 DEF Stranded
    <3>2. conn[c].out # conn[ctx[n]].out /\ conn[c].out \in Conn
      BY <1>0, <2>1, <3>1, OwnQueue
    <3>. QED
      BY <2>1, <2>2, <3>1, <3>2 DEF Untouched
  <2>. QED
    BY <2>3, StrandedStep, LateFacts
<1>. QED
  BY <1>1, <1>2, <1>3, <1>4, <1>5, <1>6 DEF CronStep

LEMMA NextLate == IInv /\ IInv' /\ Lateness /\ [Next]_vars => Lateness'
<1>. SUFFICES ASSUME IInv, IInv', Lateness, [Next]_vars PROVE Lateness'
  OBVIOUS
<1>1. AtRest' /\ Arming'
  BY NextFreed, NextThreads, NextContexts, NextArming DEF Lateness, AtRest
<1>2. StrandedOnlyIfLate'
  <2>1. CASE UNCHANGED vars
    BY <2>1 DEF vars, Lateness, StrandedOnlyIfLate
  <2>. QED
    BY <2>1, LateWorker, LateWrite, LateRead, LateCron DEF Next
<1>. QED
  BY <1>1, <1>2 DEF Lateness

(* No message is left without attention but in the three known ways: no    *)
(* other interleaving of workers and event thread loses a wake-up.         *)
THEOREM StrandedOnlyInKnownWays == Spec => []StrandedOnlyIfLate
<1>1. Init => Lateness
  BY InitAtRest, InitArming DEF Init, Lateness, StrandedOnlyIfLate
<1>2. Spec => []Lateness
  BY <1>1, Invariance, NextLate, PTL DEF Spec
<1>3. Lateness => StrandedOnlyIfLate
  BY DEF Lateness
<1>. QED
  BY <1>2, <1>3, PTL

-----------------------------------------------------------------------------
(* Part 3: the refinement of MessageStream                                 *)

StreamBegins(q) == Stream(q)!StreamInit
StreamSteps(q) == Stream(q)!StreamNext \/ UNCHANGED Stream(q)!streamVars

(* The connection that owns a queue.                                       *)
Owns(c, q) == c \in live /\ conn[c].out = q /\ conn[c].cache

LEMMA UnsentOfOwner ==
  ASSUME QueuesOwned, NEW q \in Conn, queue[q] \in Seq(Msg), NEW c, Owns(c, q)
  PROVE  Unsent(q) = IF conn[c].cur = None THEN queue[q] ELSE <<conn[c].cur>> \o queue[q]
<1>. DEFINE S == {d \in live : conn[d].out = q /\ conn[d].cache /\ conn[d].cur # None}
<1>1. \A d \in S : d = c
  BY DEF QueuesOwned, Owns
<1>2. CASE conn[c].cur = None
  <2>1. S = {}
    BY <1>1, <1>2
  <2>. QED
    BY <1>2, <2>1 DEF Unsent
<1>3. CASE conn[c].cur # None
  <2>1. S = {c}
    BY <1>1, <1>3 DEF Owns
  <2>2. (CHOOSE d \in S : TRUE) = c
    BY <2>1
  <2>. QED
    BY <1>3, <2>1, <2>2 DEF Unsent
<1>. QED
  BY <1>2, <1>3

LEMMA UnsentOfNobody ==
  ASSUME NEW q, \A c \in live : ~Owns(c, q)
  PROVE  Unsent(q) = queue[q]
BY DEF Unsent, Owns

(* A new connection has nothing to send, and a queue that was never there  *)
(* has sent nothing.                                                       *)
Unused ==
  /\ \A q \in Conn : q > born => wire[q] = <<>>
  /\ ev.pc = "alias" => conn[ev.c].cur = None

LEMMA InitUnused == Init => Unused
BY DEF Init, Unused, Idle

(* The steps of a stream.                                                  *)
LEMMA StreamUnchanged ==
  ASSUME NEW q, Unsent(q)' = Unsent(q), wire'[q] = wire[q], q \in alloc <=> q \in alloc'
  PROVE  StreamSteps(q)
BY DEF StreamSteps, Stream!streamVars

LEMMA StreamOpens ==
  ASSUME NEW q, q \notin alloc, q \in alloc', Unsent(q) = <<>>, Unsent(q)' = <<>>,
         wire[q] = <<>>, wire'[q] = <<>>
  PROVE  StreamSteps(q)
BY DEF StreamSteps, Stream!StreamNext, Stream!Open

LEMMA StreamAccepts ==
  ASSUME NEW q, NEW m \in Msg, q \in alloc, q \in alloc', Unsent(q)' = Append(Unsent(q), m),
         wire'[q] = wire[q]
  PROVE  StreamSteps(q)
BY DEF StreamSteps, Stream!StreamNext, Stream!Accept

LEMMA StreamDelivers ==
  ASSUME NEW q, q \in alloc, q \in alloc', Unsent(q) # <<>>, Unsent(q)' = Tail(Unsent(q)),
         wire'[q] = Append(wire[q], Head(Unsent(q)))
  PROVE  StreamSteps(q)
BY DEF StreamSteps, Stream!StreamNext, Stream!Deliver

LEMMA StreamLoses ==
  ASSUME NEW q, q \in alloc, q \in alloc', Unsent(q) # <<>>, Unsent(q)' = Tail(Unsent(q)),
         wire'[q] = wire[q]
  PROVE  StreamSteps(q)
BY DEF StreamSteps, Stream!StreamNext, Stream!Lose

LEMMA StreamDiscards ==
  ASSUME NEW q, q \in alloc, q \notin alloc', Unsent(q)' = <<>>, wire'[q] = wire[q]
  PROVE  StreamSteps(q)
BY DEF StreamSteps, Stream!StreamNext, Stream!Discard

-----------------------------------------------------------------------------
(* What the steps start from.                                              *)
Known == IInv /\ Lateness /\ Unused

LEMMA KnownFacts ==
  ASSUME Known
  PROVE  /\ conn \in [Conn -> Connection] /\ queue \in [Conn -> Seq(Msg)]
         /\ wire \in [Conn -> Seq(Msg)] /\ ev \in EventState
         /\ live \subseteq Conn /\ alloc \subseteq Conn
         /\ DescriptorsDistinct /\ QueuesOwned
         /\ \A c \in live : conn[c].out \in Conn /\ conn[c].out \in alloc
         /\ ev.pc # "idle" => ev.c \in live
         /\ ev.pc # "drop" => \A c \in live : conn[c].cache
         /\ \A q \in Conn \ alloc : queue[q] = <<>>
<1>1. /\ conn \in [Conn -> Connection] /\ queue \in [Conn -> Seq(Msg)]
      /\ wire \in [Conn -> Seq(Msg)] /\ ev \in EventState
      /\ live \subseteq Conn /\ alloc \subseteq Conn
  BY TypeFacts DEF Known, IInv, TypeOK
<1>. QED
  BY <1>1 DEF Known, IInv, Safety, TargetsAlive, QueuesOwned, AllCached, Lateness, AtRest,
              FreedQueuesEmpty

(* Each allocated queue has an owner, and its stream is the packet that    *)
(* the owner is writing, followed by the queue; a freed queue is empty.    *)
UnsentIs ==
  \A q \in Conn :
    /\ q \in alloc => \E c \in live : Owns(c, q)
    /\ q \notin alloc => Unsent(q) = <<>> /\ \A c \in live : ~Owns(c, q)
    /\ \A c \in live : Owns(c, q) =>
         Unsent(q) = IF conn[c].cur = None THEN queue[q] ELSE <<conn[c].cur>> \o queue[q]

LEMMA UnsentValue == Known => UnsentIs
<1>. SUFFICES ASSUME Known, NEW q \in Conn
              PROVE  /\ q \in alloc => \E c \in live : Owns(c, q)
                     /\ q \notin alloc => Unsent(q) = <<>> /\ \A c \in live : ~Owns(c, q)
                     /\ \A c \in live : Owns(c, q) =>
                          Unsent(q) = IF conn[c].cur = None THEN queue[q]
                                                            ELSE <<conn[c].cur>> \o queue[q]
  BY DEF UnsentIs
<1>1. q \in alloc => \E c \in live : Owns(c, q)
  BY KnownFacts DEF QueuesOwned, Owns
<1>2. q \notin alloc => \A c \in live : ~Owns(c, q)
  BY KnownFacts DEF Owns
<1>3. q \notin alloc => Unsent(q) = <<>>
  BY <1>2, UnsentOfNobody, KnownFacts
<1>4. \A c \in live : Owns(c, q) =>
        Unsent(q) = IF conn[c].cur = None THEN queue[q] ELSE <<conn[c].cur>> \o queue[q]
  BY UnsentOfOwner, KnownFacts
<1>. QED
  BY <1>1, <1>2, <1>3, <1>4

LEMMA UnsentValueNext == Known' => UnsentIs'
BY UnsentValue, PTL

(* Sequences taken apart at the front.                                     *)
LEMMA MoveToFront ==
  ASSUME NEW s \in Seq(Msg), s # <<>>
  PROVE  Head(s) \in Msg /\ <<Head(s)>> \o Tail(s) = s
OBVIOUS

LEMMA FrontOf ==
  ASSUME NEW s \in Seq(Msg), NEW m \in Msg
  PROVE  /\ <<m>> \o s # <<>> /\ Head(<<m>> \o s) = m
         /\ Tail(<<m>> \o s) = s
OBVIOUS

LEMMA UnsentKept ==
  ASSUME Known, Known', NEW q \in Conn, queue'[q] = queue[q], q \in alloc <=> q \in alloc',
         \A c \in live : Owns(c, q) => Owns(c, q)' /\ conn'[c].cur = conn[c].cur
  PROVE  Unsent(q)' = Unsent(q)
<1>0. UnsentIs /\ UnsentIs'
  BY UnsentValue, UnsentValueNext
<1>1. CASE q \in alloc
  <2>1. PICK c \in live : Owns(c, q)
    BY <1>0, <1>1 DEF UnsentIs
  <2>2. Unsent(q) = IF conn[c].cur = None THEN queue[q] ELSE <<conn[c].cur>> \o queue[q]
    BY <1>0, <2>1 DEF UnsentIs
  <2>3. Owns(c, q)' /\ c \in live'
    BY <2>1 DEF Owns
  <2>4. Unsent(q)' = IF conn'[c].cur = None THEN queue'[q] ELSE <<conn'[c].cur>> \o queue'[q]
    BY <1>0, <2>3 DEF UnsentIs
  <2>. QED
    BY <2>1, <2>2, <2>4
<1>2. CASE q \notin alloc
  BY <1>0, <1>2 DEF UnsentIs
<1>. QED
  BY <1>1, <1>2

(* A message pushed on a queue is the last of its stream.                  *)
LEMMA UnsentPushed ==
  ASSUME Known, Known', NEW q \in Conn, NEW m \in Msg, queue'[q] = Append(queue[q], m),
         q \in alloc,
         \A c \in live : Owns(c, q) => Owns(c, q)' /\ conn'[c].cur = conn[c].cur
  PROVE  Unsent(q)' = Append(Unsent(q), m)
<1>0. UnsentIs /\ UnsentIs' /\ queue[q] \in Seq(Msg)
  BY UnsentValue, UnsentValueNext, KnownFacts
<1>1. PICK c \in live : Owns(c, q)
  BY <1>0 DEF UnsentIs
<1>2. Unsent(q) = IF conn[c].cur = None THEN queue[q] ELSE <<conn[c].cur>> \o queue[q]
  BY <1>0, <1>1 DEF UnsentIs
<1>3. Owns(c, q)' /\ c \in live'
  BY <1>1 DEF Owns
<1>4. Unsent(q)' = IF conn'[c].cur = None THEN queue'[q] ELSE <<conn'[c].cur>> \o queue'[q]
  BY <1>0, <1>3 DEF UnsentIs
<1>5. CASE conn[c].cur = None
  BY <1>1, <1>2, <1>4, <1>5
<1>6. CASE conn[c].cur # None
  <2>1. conn[c].cur \in Msg
    BY <1>1, <1>6, KnownFacts DEF Connection
  <2>2. \A s \in Seq(Msg) : \A a \in Msg : <<a>> \o Append(s, m) = Append(<<a>> \o s, m)
    OBVIOUS
  <2>3. <<conn[c].cur>> \o Append(queue[q], m) = Append(<<conn[c].cur>> \o queue[q], m)
    BY <1>0, <2>1, <2>2
  <2>. QED
    BY <1>1, <1>2, <1>4, <1>6, <2>3
<1>. QED
  BY <1>5, <1>6

LEMMA StreamKept ==
  ASSUME Known, Known', NEW q \in Conn, queue'[q] = queue[q], wire'[q] = wire[q],
         q \in alloc <=> q \in alloc',
         \A c \in live : Owns(c, q) => Owns(c, q)' /\ conn'[c].cur = conn[c].cur
  PROVE  StreamSteps(q)
BY UnsentKept, StreamUnchanged

(* A step that changes the states and armed events of connections only.    *)
LEMMA StreamsAside ==
  ASSUME Known, Known', UNCHANGED <<live, queue, alloc, wire>>,
         \A c \in live : /\ conn'[c].out = conn[c].out /\ conn'[c].cache = conn[c].cache
                         /\ conn'[c].cur = conn[c].cur,
         NEW q \in Conn
  PROVE  StreamSteps(q)
BY StreamKept DEF Owns

(* A queue that is not owned any more when its connection goes.            *)
LEMMA StreamsOfClosed ==
  ASSUME Known, Known', NEW c \in live, CloseConnection(c), UNCHANGED <<conn, wire>>,
         NEW q \in Conn
  PROVE  StreamSteps(q)
<1>0. live' = live \ {c} /\ DescriptorsDistinct /\ QueuesOwned
  BY KnownFacts, Closed
<1>1. CASE conn[c].cache /\ q = conn[c].out
  <2>1. alloc' = alloc \ {q} /\ queue' = [queue EXCEPT ![q] = <<>>] /\ q \in alloc
    BY <1>0, <1>1, Closed, KnownFacts
  <2>2. Unsent(q)' = <<>>
    BY <2>1, UnsentValueNext DEF UnsentIs
  <2>. QED
    BY <2>1, <2>2, StreamDiscards
<1>2. CASE conn[c].cache /\ q # conn[c].out
  BY <1>0, <1>2, Closed, StreamKept, KnownFacts DEF Owns
<1>3. CASE ~conn[c].cache
  BY <1>0, <1>3, Closed, StreamKept DEF Owns
<1>. QED
  BY <1>1, <1>2, <1>3

(* A new connection opens the stream of its queue.                         *)
LEMMA StreamsOfCreated ==
  ASSUME Known, Known', NEW flag \in {"client", "server"}, NEW s \in ConnState,
         Create(born + 1, flag, s), UNCHANGED <<queue, wire>>, NEW q \in Conn
  PROVE  StreamSteps(q)
<1>0. /\ born + 1 \in Conn /\ born + 1 \notin live /\ born + 1 \notin alloc
      /\ live' = live \cup {born + 1} /\ alloc' = alloc \cup {born + 1}
      /\ \A d \in Conn : d # born + 1 => conn'[d] = conn[d]
      /\ conn'[born + 1].cur = None /\ conn'[born + 1].out = born + 1
      /\ conn'[born + 1].cache
  BY Created, CreatedFresh DEF Known, IInv
<1>1. CASE q = born + 1
  <2>1. queue[q] = <<>> /\ wire[q] = <<>>
    BY <1>0, <1>1, KnownFacts, TypeFacts DEF Known, Unused, IInv
  <2>2. Unsent(q) = <<>>
    BY <1>0, <1>1, UnsentValue DEF UnsentIs
  <2>3. Owns(q, q)' /\ q \in live'
    BY <1>0, <1>1 DEF Owns
  <2>4. Unsent(q)' = <<>>
    BY <1>0, <1>1, <2>1, <2>3, UnsentValueNext DEF UnsentIs
  <2>. QED
    BY <1>0, <1>1, <2>1, <2>2, <2>4, StreamOpens
<1>2. CASE q # born + 1
  <2>1. \A c \in live : conn'[c] = conn[c] /\ c \in live'
    BY <1>0, KnownFacts
  <2>. QED
    BY <1>0, <1>2, <2>1, StreamKept DEF Owns
<1>. QED
  BY <1>1, <1>2

-----------------------------------------------------------------------------
(* Arming a connection touches its events only.                            *)
LEMMA ArmKeeps ==
  ASSUME conn \in [Conn -> Connection], NEW w \in Worker, SendArm(w)
  PROVE  /\ UNCHANGED <<born, live, queue, alloc, wire, ev>>
         /\ \A c \in Conn : /\ conn'[c].out = conn[c].out /\ conn'[c].cur = conn[c].cur
                            /\ conn'[c].cache = conn[c].cache
<1>1. UNCHANGED <<born, live, queue, alloc, wire, ev>>
  BY DEF SendArm
<1>2. \/ UNCHANGED conn
      \/ conn' = [conn EXCEPT ![wk[w].tgt].evs = @ \cup {"W"}]
  BY DEF SendArm
<1>. QED
  BY <1>1, <1>2 DEF Connection

LEMMA NextUnused == IInv /\ Unused /\ [Next]_vars => Unused'
<1>. SUFFICES ASSUME IInv, Unused, [Next]_vars PROVE Unused'
  OBVIOUS
<1>0. /\ conn \in [Conn -> Connection] /\ ev \in EventState /\ born \in Nat
      /\ wire \in [Conn -> Seq(Msg)] /\ live \subseteq 1..born /\ live \subseteq Conn
      /\ alloc \subseteq 1..born
      /\ ev.pc # "idle" => ev.c \in live /\ conn[ev.c].out \in alloc
  BY TypeFacts DEF IInv, Safety, TargetsAlive, QueuesOwned, TypeOK
<1>1. ASSUME born' = born, wire' = wire, ev'.pc # "alias" PROVE Unused'
  BY <1>1 DEF Unused
<1>2. ASSUME NEW w \in Worker, WorkerStep(w) PROVE Unused'
  <2>1. /\ UNCHANGED <<born, wire, ev>>
        /\ \A c \in Conn : conn'[c].cur = conn[c].cur
    <3>1. CASE SendMiss(w) \/ SendPush(w)
      BY <3>1 DEF SendMiss, SendPush
    <3>2. CASE SendArm(w)
      BY <1>0, <3>2, ArmKeeps
    <3>. QED
      BY <1>2, <3>1, <3>2 DEF WorkerStep
  <2>. QED
    BY <1>0, <2>1 DEF Unused
<1>3. CASE WriteStep
  <2>1. CASE SendWhole
    <3>1. /\ UNCHANGED <<born, ev>> /\ ev.pc = "write"
          /\ wire' = [wire EXCEPT ![conn[ev.c].out] = Append(@, conn[ev.c].cur)]
      BY <2>1 DEF SendWhole
    <3>2. conn[ev.c].out \in 1..born
      BY <1>0, <3>1
    <3>3. ASSUME NEW q \in Conn, q > born PROVE wire'[q] = wire[q]
      <4>1. conn[ev.c].out # q
        BY <1>0, <3>2, <3>3
      <4>. QED
        BY <1>0, <3>1, <4>1
    <3>4. \A q \in Conn : q > born' => wire'[q] = <<>>
      BY <3>1, <3>3 DEF Unused
    <3>. QED
      BY <3>1, <3>4 DEF Unused
  <2>2. CASE LoadPkt
    BY <1>1, <2>2 DEF LoadPkt
  <2>3. ASSUME NEW c \in Conn, WriteReady(c) PROVE Unused'
    BY <1>0, <1>1, <2>3 DEF WriteReady, EventState
  <2>4. ASSUME NEW s \in Failed, SendFails(s) PROVE Unused'
    BY <1>0, <1>1, <2>4 DEF SendFails, EventState
  <2>5. CASE SendAgain \/ WriteDone \/ CheckEmpty \/ Disarm
    BY <1>0, <1>1, <2>5 DEF SendAgain, WriteDone, CheckEmpty, Disarm, Idle, EventState
  <2>. QED
    BY <1>3, <2>1, <2>2, <2>3, <2>4, <2>5 DEF WriteStep
<1>4. CASE ReadStep
  <2>1. CASE Accept
    BY <1>0, <2>1 DEF Accept, Create, Unused
  <2>2. ASSUME NEW c \in Conn, NEW n \in Peer, PeerAuth(c, n) PROVE Unused'
    BY <1>0, <1>1, <2>2 DEF PeerAuth, EventState
  <2>3. ASSUME NEW n \in Node, RecvAuthRsp(n) PROVE Unused'
    BY <1>1, <2>3 DEF RecvAuthRsp
  <2>4. ASSUME NEW c \in Conn, NEW s \in Failed, ReadFails(c, s) PROVE Unused'
    BY <1>0, <1>1, <2>4 DEF ReadFails, EventState
  <2>5. CASE SendRsp \/ FailDisarm \/ FailClose
    BY <1>0, <1>1, <2>5 DEF SendRsp, FailDisarm, FailClose, Idle, EventState
  <2>. QED
    BY <1>4, <2>1, <2>2, <2>3, <2>4, <2>5 DEF ReadStep
<1>5. CASE CronStep
  <2>1. ASSUME NEW n \in Node, Dial(n) \/ Redial(n) PROVE Unused'
    <3>1. /\ Create(born + 1, "client", "NONE") /\ wire' = wire
          /\ ev'.c = born + 1
      BY <2>1 DEF Dial, Redial
    <3>3. born' = born + 1
      BY <3>1 DEF Create
    <3>2. conn'[born + 1].cur = None
      BY <3>1, CreatedFresh DEF ConnState, IInv
    <3>. QED
      BY <1>0, <3>1, <3>2, <3>3 DEF Unused
  <2>2. CASE TakeQueue \/ DropOld \/ SetNodeInfo \/ NodeReady
    BY <1>0, <1>1, <2>2 DEF TakeQueue, DropOld, SetNodeInfo, NodeReady, Idle, EventState
  <2>3. ASSUME NEW n \in Node, GiveUp(n) PROVE Unused'
    BY <1>1, <2>3 DEF GiveUp
  <2>. QED
    BY <1>5, <2>1, <2>2, <2>3 DEF CronStep
<1>6. CASE UNCHANGED vars
  BY <1>6 DEF vars, Unused
<1>. QED
  BY <1>2, <1>3, <1>4, <1>5, <1>6 DEF Next

LEMMA StreamsOfWorkers ==
  ASSUME Known, Known', NEW w \in Worker, WorkerStep(w), NEW q \in Conn
  PROVE  StreamSteps(q)
<1>1. CASE SendPush(w)
  <2>1. PICK t \in live : queue' = [queue EXCEPT ![conn[t].out] = Append(@, <<w, wk[w].cnt + 1>>)]
    BY <1>1 DEF SendPush
  <2>2. UNCHANGED <<conn, live, alloc, wire>> /\ queue \in [Conn -> Seq(Msg)]
    BY <1>1, KnownFacts DEF SendPush
  <2>3. CASE q = conn[t].out
    <3>1. <<w, wk[w].cnt + 1>> \in Msg
      BY <1>1, CountSend DEF SendPush, Msg, Known, IInv
    <3>2. q \in alloc /\ queue'[q] = Append(queue[q], <<w, wk[w].cnt + 1>>)
      BY <2>1, <2>2, <2>3, KnownFacts
    <3>3. Unsent(q)' = Append(Unsent(q), <<w, wk[w].cnt + 1>>)
      BY <2>2, <3>1, <3>2, UnsentPushed DEF Owns
    <3>. QED
      BY <2>2, <3>1, <3>2, <3>3, StreamAccepts
  <2>4. CASE q # conn[t].out
    BY <2>1, <2>2, <2>4, StreamKept DEF Owns
  <2>. QED
    BY <2>3, <2>4
<1>2. CASE SendMiss(w)
  BY <1>2, StreamsAside DEF SendMiss
<1>3. CASE SendArm(w)
  BY <1>3, ArmKeeps, KnownFacts, StreamsAside
<1>. QED
  BY <1>1, <1>2, <1>3 DEF WorkerStep

LEMMA StreamsOfWriter ==
  ASSUME Known, Known', WriteStep, NEW q \in Conn
  PROVE  StreamSteps(q)
<1>. DEFINE c == ev.c
<1>0. /\ conn \in [Conn -> Connection] /\ queue \in [Conn -> Seq(Msg)]
      /\ wire \in [Conn -> Seq(Msg)] /\ live \subseteq Conn /\ QueuesOwned
      /\ ev.pc = "write" => c \in live /\ c \in Conn /\ Owns(c, conn[c].out)
      /\ \A d \in live : conn[d].out \in Conn /\ conn[d].out \in alloc
  BY KnownFacts DEF Owns
<1>1. CASE LoadPkt
  <2>1. /\ ev.pc = "write" /\ conn[c].cur = None /\ queue[conn[c].out] # <<>>
        /\ conn' = [conn EXCEPT ![c].cur = Head(queue[conn[c].out])]
        /\ queue' = [queue EXCEPT ![conn[c].out] = Tail(@)]
        /\ UNCHANGED <<live, alloc, wire>>
    BY <1>1 DEF LoadPkt
  <2>2. /\ \A d \in live : /\ conn'[d].out = conn[d].out /\ conn'[d].cache = conn[d].cache
                            /\ d # c => conn'[d].cur = conn[d].cur
        /\ conn'[c].cur = Head(queue[conn[c].out])
    BY <1>0, <2>1 DEF Connection
  <2>3. CASE q = conn[c].out
    <3>1. Head(queue[q]) \in Msg /\ <<Head(queue[q])>> \o Tail(queue[q]) = queue[q]
      BY <1>0, <2>1, <2>3, MoveToFront
    <3>2. Unsent(q) = queue[q]
      BY <1>0, <2>1, <2>3, UnsentValue DEF UnsentIs
    <3>3. Owns(c, q)
      BY <1>0, <2>1, <2>3
    <3>4. PICK d \in live : d = c
      BY <1>0, <2>1
    <3>5. Owns(d, q)' /\ d \in live' /\ queue'[q] = Tail(queue[q])
      BY <1>0, <2>1, <2>2, <2>3, <3>3, <3>4 DEF Owns
    <3>6. conn'[d].cur = Head(queue[q]) /\ conn'[d].cur # None
      BY <2>2, <2>3, <3>1, <3>4, NoneIsNoMsg
    <3>7. Unsent(q)' = <<Head(queue[q])>> \o Tail(queue[q])
      BY <3>5, <3>6, UnsentValueNext DEF UnsentIs
    <3>. QED
      BY <2>1, <3>1, <3>2, <3>7, StreamUnchanged
  <2>4. CASE q # conn[c].out
    BY <1>0, <2>1, <2>2, <2>4, StreamKept DEF Owns
  <2>. QED
    BY <2>3, <2>4
<1>2. CASE SendWhole
  <2>1. /\ ev.pc = "write" /\ conn[c].cur # None
        /\ wire' = [wire EXCEPT ![conn[c].out] = Append(@, conn[c].cur)]
        /\ conn' = [conn EXCEPT ![c].cur = None]
        /\ UNCHANGED <<live, alloc, queue>>
    BY <1>2 DEF SendWhole
  <2>2. /\ \A d \in live : /\ conn'[d].out = conn[d].out /\ conn'[d].cache = conn[d].cache
                            /\ d # c => conn'[d].cur = conn[d].cur
        /\ conn'[c].cur = None
    BY <1>0, <2>1 DEF Connection
  <2>3. CASE q = conn[c].out
    <3>1. conn[c].cur \in Msg /\ q \in alloc
      BY <1>0, <2>1, <2>3 DEF Connection
    <3>2. Unsent(q) = <<conn[c].cur>> \o queue[q]
      BY <1>0, <2>1, <2>3, UnsentValue DEF UnsentIs
    <3>3. PICK d \in live : d = c
      BY <1>0, <2>1
    <3>4. Owns(d, q)' /\ d \in live' /\ conn'[d].cur = None
      BY <1>0, <2>1, <2>2, <2>3, <3>3 DEF Owns
    <3>5. Unsent(q)' = queue[q]
      BY <2>1, <3>4, UnsentValueNext DEF UnsentIs
    <3>6. /\ Unsent(q) # <<>> /\ Head(Unsent(q)) = conn[c].cur
          /\ Tail(Unsent(q)) = queue[q]
      BY <1>0, <3>1, <3>2, FrontOf
    <3>7. wire'[q] = Append(wire[q], Head(Unsent(q)))
      BY <1>0, <2>1, <2>3, <3>6
    <3>. QED
      BY <2>1, <3>1, <3>5, <3>6, <3>7, StreamDelivers
  <2>4. CASE q # conn[c].out
    BY <1>0, <2>1, <2>2, <2>4, StreamKept DEF Owns
  <2>. QED
    BY <2>3, <2>4
<1>3. ASSUME NEW s \in Failed, SendFails(s) PROVE StreamSteps(q)
  <2>1. /\ UNCHANGED <<live, queue, alloc, wire>>
        /\ \A d \in live : /\ conn'[d].out = conn[d].out /\ conn'[d].cache = conn[d].cache
                            /\ conn'[d].cur = conn[d].cur
    BY <1>0, <1>3 DEF SendFails, Connection
  <2>. QED
    BY <2>1, StreamsAside
<1>4. CASE Disarm
  <2>1. /\ UNCHANGED <<live, queue, alloc, wire>>
        /\ \A d \in live : /\ conn'[d].out = conn[d].out /\ conn'[d].cache = conn[d].cache
                            /\ conn'[d].cur = conn[d].cur
    BY <1>0, <1>4 DEF Disarm, DelFileEvent, Connection
  <2>. QED
    BY <2>1, StreamsAside
<1>5. ASSUME UNCHANGED <<conn, live, queue, alloc, wire>> PROVE StreamSteps(q)
  BY <1>5, StreamsAside
<1>. QED
  BY <1>1, <1>2, <1>3, <1>4, <1>5
  DEF WriteStep, WriteReady, SendAgain, WriteDone, CheckEmpty

LEMMA StreamsOfReader ==
  ASSUME Known, Known', ReadStep, NEW q \in Conn
  PROVE  StreamSteps(q)
<1>0. /\ conn \in [Conn -> Connection] /\ queue \in [Conn -> Seq(Msg)]
      /\ live \subseteq Conn /\ QueuesOwned /\ DescriptorsDistinct /\ TypeOK
      /\ ev.pc # "idle" => ev.c \in live
  BY KnownFacts DEF Known, IInv
<1>1. CASE Accept
  <2>1. /\ Create(born + 1, "server", "AUTH") /\ UNCHANGED <<queue, wire>>
        /\ "AUTH" \in ConnState
    BY <1>1 DEF Accept, ConnState
  <2>. QED
    BY <2>1, StreamsOfCreated
<1>2. ASSUME NEW c \in Conn, NEW n \in Peer, PeerAuth(c, n) PROVE StreamSteps(q)
  <2>1. /\ UNCHANGED <<live, queue, alloc, wire>>
        /\ \A d \in live : /\ conn'[d].out = conn[d].out /\ conn'[d].cache = conn[d].cache
                            /\ conn'[d].cur = conn[d].cur
    BY <1>0, <1>2 DEF PeerAuth, Connection
  <2>. QED
    BY <2>1, StreamsAside
<1>3. CASE SendRsp
  <2>1. PICK d \in live :
          /\ IsFirst(d, WithFd(conn[ev.c].fd))
          /\ queue' = [queue EXCEPT ![conn[d].out] = Append(@, <<"rsp", ev.c>>)]
    BY <1>3 DEF SendRsp
  <2>2. /\ UNCHANGED <<live, alloc, wire>> /\ ev.c \in live /\ <<"rsp", ev.c>> \in Msg
        /\ \A e \in live : /\ conn'[e].out = conn[e].out /\ conn'[e].cache = conn[e].cache
                            /\ conn'[e].cur = conn[e].cur
    <3>1. UNCHANGED <<live, alloc, wire>> /\ ev.c \in live
      BY <1>0, <1>3 DEF SendRsp
    <3>2. UNCHANGED conn \/ \E e \in live : conn' = [conn EXCEPT ![e].evs = conn[e].evs \cup {"W"}]
      BY <1>3 DEF SendRsp
    <3>3. <<"rsp", ev.c>> \in Msg
      BY <1>0, <3>1 DEF Msg
    <3>4. \A e \in live : /\ conn'[e].out = conn[e].out /\ conn'[e].cache = conn[e].cache
                           /\ conn'[e].cur = conn[e].cur
      <4>1. ASSUME NEW e \in live, conn' = [conn EXCEPT ![e].evs = conn[e].evs \cup {"W"}]
            PROVE  \A x \in Conn : /\ conn'[x].out = conn[x].out /\ conn'[x].cache = conn[x].cache
                                   /\ conn'[x].cur = conn[x].cur
        BY <1>0, <4>1 DEF Connection
      <4>. QED
        BY <1>0, <3>2, <4>1
    <3>. QED
      BY <3>1, <3>3, <3>4
  <2>3. CASE q = conn[d].out
    <3>1. q \in alloc /\ queue'[q] = Append(queue[q], <<"rsp", ev.c>>)
      BY <1>0, <2>1, <2>3 DEF QueuesOwned
    <3>2. Unsent(q)' = Append(Unsent(q), <<"rsp", ev.c>>)
      BY <2>2, <3>1, UnsentPushed DEF Owns
    <3>. QED
      BY <2>2, <3>1, <3>2, StreamAccepts
  <2>4. CASE q # conn[d].out
    BY <1>0, <2>1, <2>2, <2>4, StreamKept DEF Owns
  <2>. QED
    BY <2>3, <2>4
<1>4. ASSUME NEW n \in Node, RecvAuthRsp(n) PROVE StreamSteps(q)
  <2>1. /\ UNCHANGED <<live, queue, alloc, wire>>
        /\ \A d \in live : /\ conn'[d].out = conn[d].out /\ conn'[d].cache = conn[d].cache
                            /\ conn'[d].cur = conn[d].cur
    BY <1>0, <1>4 DEF RecvAuthRsp, Connection
  <2>. QED
    BY <2>1, StreamsAside
<1>5. ASSUME NEW c \in Conn, NEW s \in Failed, ReadFails(c, s) PROVE StreamSteps(q)
  <2>1. /\ UNCHANGED <<live, queue, alloc, wire>>
        /\ \A d \in live : /\ conn'[d].out = conn[d].out /\ conn'[d].cache = conn[d].cache
                            /\ conn'[d].cur = conn[d].cur
    BY <1>0, <1>5 DEF ReadFails, Connection
  <2>. QED
    BY <2>1, StreamsAside
<1>6. CASE FailDisarm
  <2>1. /\ UNCHANGED <<live, queue, alloc, wire>>
        /\ \A d \in live : /\ conn'[d].out = conn[d].out /\ conn'[d].cache = conn[d].cache
                            /\ conn'[d].cur = conn[d].cur
    BY <1>0, <1>6 DEF FailDisarm, DelFileEvent, Connection
  <2>. QED
    BY <2>1, StreamsAside
<1>7. CASE FailClose
  BY <1>0, <1>7, StreamsOfClosed DEF FailClose
<1>. QED
  BY <1>1, <1>2, <1>3, <1>4, <1>5, <1>6, <1>7 DEF ReadStep

(* The hand-over: the new connection's own queue goes, and the old one's   *)
(* stream goes on without the packet that was being written.               *)
LEMMA StreamsOfTakeQueue ==
  ASSUME Known, Known', TakeQueue, NEW q \in Conn
  PROVE  StreamSteps(q)
<1>. DEFINE c == ev.c
            old == ev.old
<1>1. /\ c \in live /\ old \in live /\ old # c /\ conn[c].cur = None
      /\ conn[c].out \in alloc /\ conn[old].out \in Conn
      /\ Owns(c, conn[c].out) /\ Owns(old, conn[old].out) /\ conn[c].out # conn[old].out
      /\ c \in Conn /\ old \in Conn /\ conn \in [Conn -> Connection]
      /\ queue \in [Conn -> Seq(Msg)] /\ live \subseteq Conn /\ QueuesOwned
  <2>1. ev.pc = "alias" /\ ev.pc # "idle" /\ ev.pc # "drop"
    BY DEF TakeQueue
  <2>2. c \in live /\ old \in live /\ old # c /\ conn[c].cur = None
    BY <2>1 DEF Known, Unused, IInv, Safety, TargetsAlive
  <2>3. conn[c].cache /\ conn[old].cache
    BY <2>1, <2>2, KnownFacts
  <2>. QED
    BY <2>2, <2>3, KnownFacts DEF Owns, QueuesOwned
<1>2. /\ conn' = [conn EXCEPT ![c].out = conn[old].out, ![old].cache = FALSE]
      /\ alloc' = alloc \ {conn[c].out} /\ queue' = [queue EXCEPT ![conn[c].out] = <<>>]
      /\ live' = live /\ wire' = wire
  BY DEF TakeQueue
<1>3. /\ conn'[c].out = conn[old].out /\ conn'[c].cache = conn[c].cache
      /\ \A d \in live : conn'[d].cur = conn[d].cur
      /\ \A d \in live \ {c, old} : conn'[d] = conn[d]
  <2>. DEFINE r == [conn[c] EXCEPT !.out = conn[old].out]
              o == [conn[old] EXCEPT !.cache = FALSE]
  <2>1. conn[c] \in Connection /\ conn[old] \in Connection
    BY <1>1
  <2>2. r.out = conn[old].out /\ r.cache = conn[c].cache /\ r.cur = conn[c].cur
    BY <2>1 DEF Connection
  <2>3. o.cur = conn[old].cur
    BY <2>1 DEF Connection
  <2>4. conn' = [conn EXCEPT ![c] = r, ![old] = o]
    BY <1>1, <1>2
  <2>. HIDE DEF r, o
  <2>. QED
    BY <1>1, <2>2, <2>3, <2>4
<1>4. CASE q = conn[c].out
  <2>1. Unsent(q)' = <<>>
    BY <1>2, <1>4, UnsentValueNext DEF UnsentIs
  <2>. QED
    BY <1>1, <1>2, <1>4, <2>1, StreamDiscards
<1>5. CASE q = conn[old].out
  <2>1. q \in alloc /\ q \in alloc' /\ queue'[q] = queue[q]
    BY <1>1, <1>2, <1>5, KnownFacts
  <2>2. Unsent(q) = IF conn[old].cur = None THEN queue[q] ELSE <<conn[old].cur>> \o queue[q]
    BY <1>1, <1>5, UnsentValue DEF UnsentIs
  <2>3. PICK d \in live : d = c
    BY <1>1
  <2>4. Owns(d, q)' /\ d \in live' /\ conn'[d].cur = None
    BY <1>1, <1>2, <1>3, <1>5, <2>3 DEF Owns
  <2>5. Unsent(q)' = queue[q]
    BY <2>1, <2>4, UnsentValueNext DEF UnsentIs
  <2>6. CASE conn[old].cur = None
    BY <1>2, <2>1, <2>2, <2>5, <2>6, StreamUnchanged
  <2>7. CASE conn[old].cur # None
    <3>1. conn[old].cur \in Msg
      BY <1>1, <2>7 DEF Connection
    <3>2. Unsent(q) # <<>> /\ Tail(Unsent(q)) = queue[q]
      BY <1>1, <2>2, <2>7, <3>1, FrontOf
    <3>. QED
      BY <1>2, <2>1, <2>5, <3>2, StreamLoses
  <2>. QED
    BY <2>6, <2>7
<1>6. CASE q # conn[c].out /\ q # conn[old].out
  <2>1. \A d \in live : Owns(d, q) => Owns(d, q)' /\ conn'[d].cur = conn[d].cur
    BY <1>2, <1>3, <1>6 DEF Owns
  <2>. QED
    BY <1>2, <1>6, <2>1, StreamKept, KnownFacts
<1>. QED
  BY <1>4, <1>5, <1>6

LEMMA StreamsOfCron ==
  ASSUME Known, Known', CronStep, NEW q \in Conn
  PROVE  StreamSteps(q)
<1>0. /\ conn \in [Conn -> Connection] /\ live \subseteq Conn
      /\ ev.pc = "drop" => ev.old \in live
      /\ ev.pc = "idle" => \A n \in Node : ctx[n] # NoConn => ctx[n] \in live
  BY KnownFacts DEF Known, IInv, Safety, TargetsAlive
<1>1. ASSUME NEW n \in Node, Dial(n) \/ Redial(n) PROVE StreamSteps(q)
  <2>1. /\ Create(born + 1, "client", "NONE") /\ UNCHANGED <<queue, wire>>
        /\ "NONE" \in ConnState
    BY <1>1 DEF Dial, Redial, ConnState
  <2>. QED
    BY <2>1, StreamsOfCreated
<1>2. CASE TakeQueue
  BY <1>2, StreamsOfTakeQueue
<1>3. CASE DropOld
  BY <1>0, <1>3, StreamsOfClosed DEF DropOld
<1>4. CASE SetNodeInfo \/ NodeReady
  <2>1. /\ UNCHANGED <<live, queue, alloc, wire>>
        /\ \A d \in live : /\ conn'[d].out = conn[d].out /\ conn'[d].cache = conn[d].cache
                            /\ conn'[d].cur = conn[d].cur
    BY <1>0, <1>4 DEF SetNodeInfo, NodeReady, Connection
  <2>. QED
    BY <2>1, StreamsAside
<1>5. ASSUME NEW n \in Node, GiveUp(n) PROVE StreamSteps(q)
  BY <1>0, <1>5, StreamsOfClosed DEF GiveUp
<1>. QED
  BY <1>1, <1>2, <1>3, <1>4, <1>5 DEF CronStep

LEMMA StreamsOfNext == Known /\ Known' /\ [Next]_vars => \A q \in Conn : StreamSteps(q)
<1>. SUFFICES ASSUME Known, Known', [Next]_vars, NEW q \in Conn PROVE StreamSteps(q)
  OBVIOUS
<1>1. CASE UNCHANGED vars
  BY <1>1, StreamsAside DEF vars
<1>. QED
  BY <1>1, StreamsOfWorkers, StreamsOfWriter, StreamsOfReader, StreamsOfCron DEF Next

LEMMA StreamsBegin == Init => \A q \in Conn : StreamBegins(q)
BY UnsentOfNobody DEF Init, StreamBegins, Stream!StreamInit

(* Whatever the workers, the nodes, the peers and their timing, each send  *)
(* queue behaves as MessageStream says, through every hand-over of         *)
(* ServiceNode::checkState (ServiceNode.cpp:139).                          *)
THEOREM StreamsImplemented == Spec => StreamsRefined
<1>1. Known /\ Known' /\ [Next]_vars =>
        [\A q \in Conn : Stream(q)!StreamNext \/ UNCHANGED Stream(q)!streamVars]_vars
  BY StreamsOfNext DEF StreamSteps
<1>2. Init => \A q \in Conn : Stream(q)!StreamInit
  BY StreamsBegin DEF StreamBegins
<1>3. Spec => []IInv
  BY Invariance
<1>4. Init => Unused
  BY InitUnused
<1>5. IInv /\ Unused /\ [Next]_vars => Unused'
  BY NextUnused
<1>6. Init => Lateness
  BY InitAtRest, InitArming DEF Init, Lateness, StrandedOnlyIfLate
<1>7. IInv /\ IInv' /\ Lateness /\ [Next]_vars => Lateness'
  BY NextLate
<1>8. IInv /\ Lateness /\ Unused => Known
  BY DEF Known
<1>. QED
  BY <1>1, <1>2, <1>3, <1>4, <1>5, <1>6, <1>7, <1>8, PTL DEF Spec, StreamsRefined
=============================================================================
