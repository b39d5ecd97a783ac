------------------------------ MODULE SendPath ------------------------------
(***************************************************************************)
(* How a message gets from a worker thread to a socket: NetManager,        *)
(* Connection, the write and close half of TcpServer, and the hand-over    *)
(* of a send queue from a failed connection to its replacement             *)
(* (ServiceNode::checkState).                                              *)
(*                                                                         *)
(* Threads: the workers of the pool (protocol handlers, which send) and    *)
(* the one event thread, which accepts, dials, reads, writes, disarms and  *)
(* closes.  They share m_conns, guarded by NetManager::m_lock in the       *)
(* functions that take it: sendX, delFileEvent and closeConnection do,     *)
(* connect, addConnection and all of Connection do not.                    *)
(*                                                                         *)
(* Connection objects are numbered in the order of their creation; each is *)
(* appended to m_conns when created and no other operation reorders the    *)
(* list, so m_conns is the set "live" in numeric order and "the first      *)
(* connection that matches" is the least one.  A queue is named after the  *)
(* connection whose constructor allocated it.                              *)
(***************************************************************************)
EXTENDS Integers, Sequences, FiniteSets

CONSTANTS
  Worker,      \* worker threads
  Node,        \* nodes this process dials
  Peer,        \* nodes that dial this process
  Sid,         \* service types
  SidOf,       \* the service type of each node
  MaxConn,     \* bound: connection objects ever created
  MaxFd,       \* bound: file descriptors
  MaxSend,     \* bound: sends per worker
  None         \* model value: no node, no message, nobody

Nid == Node \cup Peer
Conn == 1..MaxConn
Fd == 1..MaxFd
NoConn == 0

ASSUME SendPathAssumption ==
  /\ MaxConn \in Nat /\ MaxFd \in Nat /\ MaxSend \in Nat
  /\ SidOf \in [Nid -> Sid]
  /\ None \notin Nid /\ None \notin Worker

(* A message of a worker, or the authentication response to connection c.  *)
Msg == (Worker \X (1..MaxSend)) \cup ({"rsp"} \X Conn)

ASSUME NoneIsNoMsg == None \notin Msg

Failed == {"ERROR", "CLOSED"}
ConnState == {"NONE", "AUTH", "CONNECTED"} \cup Failed
Armable == {"CONNECTED", "AUTH"}

VARIABLES
  conn,    \* [Conn -> Connection]: the objects, meaningful once created
  born,    \* how many connections were created
  live,    \* m_conns
  queue,   \* the contents of each IMQueue
  alloc,   \* the IMQueues that are allocated
  ctx,     \* Node::m_context of each dialled node
  lock,    \* the holder of NetManager::m_lock, None when free; the event
           \* thread takes and releases it within one step
  wk,      \* [Worker -> [pc, tgt, cnt]]
  ev,      \* the event thread: [pc, c, old, nid]
  wire,    \* history: what was completely written from each queue
  late     \* history: the queues that got a message nobody was told about

vars == <<conn, born, live, queue, alloc, ctx, lock, wk, ev, wire, late>>

Connection ==
  [flag : {"client", "server"}, fd : Fd \cup {0}, nid : Nid \cup {None},
   st : ConnState, evs : SUBSET {"R", "W"}, out : Conn \cup {NoConn},
   cache : BOOLEAN, cur : Msg \cup {None}]

Fresh == [flag |-> "client", fd |-> 0, nid |-> None, st |-> "NONE",
          evs |-> {}, out |-> NoConn, cache |-> FALSE, cur |-> None]

WorkerState ==
  [pc : {"idle", "arm"}, tgt : Conn \cup {NoConn}, cnt : 0..MaxSend]

EventState ==
  [pc : {"idle", "rsp", "fail", "close", "write", "check", "disarm",
         "alias", "drop", "name", "ready"},
   c : Conn \cup {NoConn}, old : Conn \cup {NoConn}, nid : Node \cup {None}]

Idle == [pc |-> "idle", c |-> NoConn, old |-> NoConn, nid |-> None]

Init ==
  /\ conn = [c \in Conn |-> Fresh]
  /\ born = 0
  /\ live = {}
  /\ queue = [q \in Conn |-> <<>>]
  /\ alloc = {}
  /\ ctx = [n \in Node |-> NoConn]
  /\ lock = None
  /\ wk = [w \in Worker |-> [pc |-> "idle", tgt |-> NoConn, cnt |-> 0]]
  /\ ev = Idle
  /\ wire = [q \in Conn |-> <<>>]
  /\ late = {}

-----------------------------------------------------------------------------
(* The list and its searches                                               *)

IsFirst(c, S) == c \in S /\ \A d \in S : c <= d

WithFd(f) == {c \in live : conn[c].fd = f}
WithNid(n) == {c \in live : conn[c].nid = n}
WithSid(s) == {c \in live : conn[c].nid # None /\ SidOf[conn[c].nid] = s}

(* The connections a send may go to: sendNode searches by node id, sendDb   *)
(* and sendState by service type.                                          *)
Routes == {WithNid(n) : n \in Nid} \cup {WithSid(s) : s \in Sid}

UsedFds == {conn[c].fd : c \in live}
LowestFree(f) == f \in Fd \ UsedFds /\ \A g \in Fd \ UsedFds : f <= g

(* A new Connection on the lowest free descriptor, at the tail of m_conns, *)
(* armed for reading.                                                      *)
Create(c, flag, st) ==
  /\ c = born + 1 /\ c \in Conn
  /\ \E f \in Fd :
       /\ LowestFree(f)
       /\ conn' = [conn EXCEPT ![c] =
            [flag |-> flag, fd |-> f, nid |-> None, st |-> st, evs |-> {"R"},
             out |-> c, cache |-> TRUE, cur |-> None]]
  /\ born' = c
  /\ live' = live \cup {c}
  /\ alloc' = alloc \cup {c}

(* delFileEvent(conn->fd, mask): the first connection with that descriptor. *)
DelFileEvent(c, mask) ==
  \E d \in live :
    /\ IsFirst(d, WithFd(conn[c].fd))
    /\ conn' = [conn EXCEPT ![d].evs = @ \ mask]

(* closeConnection(conn->fd): destroys the first connection with that       *)
(* descriptor, and its queue if it is the one to cache it.                  *)
CloseConnection(c) ==
  \E d \in live :
    /\ IsFirst(d, WithFd(conn[c].fd))
    /\ live' = live \ {d}
    /\ IF conn[d].cache
         THEN /\ alloc' = alloc \ {conn[d].out}
              /\ queue' = [queue EXCEPT ![conn[d].out] = <<>>]
              /\ late' = late \ {conn[d].out}
         ELSE UNCHANGED <<alloc, queue, late>>

-----------------------------------------------------------------------------
(* Wrong versions of the actions below, each with one plausible mistake.   *)
(* No specification uses them: they show that the properties notice.       *)

(* addFileEvent returns when any event is armed, not only the asked one.   *)
SendArmIgnoresMask(w) ==
  /\ wk[w].pc = "arm"
  /\ LET c == wk[w].tgt IN
       /\ conn' = [conn EXCEPT ![c].evs = IF @ = {} THEN {"W"} ELSE @]
       /\ late' = late \ {conn[c].out}
  /\ wk' = [wk EXCEPT ![w] = [pc |-> "idle", tgt |-> NoConn, cnt |-> wk[w].cnt]]
  /\ lock' = None
  /\ UNCHANGED <<born, live, queue, alloc, ctx, ev, wire>>

(* After a failure only the writing event is deleted.                      *)
FailDisarmsWriteOnly ==
  /\ ev.pc = "fail" /\ lock = None
  /\ DelFileEvent(ev.c, {"W"})
  /\ ev' = IF conn[ev.c].flag = "client" THEN Idle
                                         ELSE [ev EXCEPT !.pc = "close"]
  /\ UNCHANGED <<born, live, queue, alloc, ctx, lock, wk, wire, late>>

(* On IO_AGAIN the packet goes back to the end of the queue.               *)
SendAgainRequeues ==
  LET c == ev.c IN
  /\ ev.pc = "write" /\ conn[c].cur # None
  /\ queue' = [queue EXCEPT ![conn[c].out] = Append(@, conn[c].cur)]
  /\ conn' = [conn EXCEPT ![c].cur = None]
  /\ ev' = Idle
  /\ UNCHANGED <<born, live, alloc, ctx, lock, wk, wire, late>>

(* Connection::empty() looks at the queue and not at "finish".             *)
SendAgainThenDisarm ==
  /\ ev.pc = "write" /\ conn[ev.c].cur # None
  /\ ev' = IF queue[conn[ev.c].out] = <<>> THEN [ev EXCEPT !.pc = "disarm"]
                                           ELSE Idle
  /\ UNCHANGED <<conn, born, live, queue, alloc, ctx, lock, wk, wire, late>>

(* The old connection keeps its "cache" flag at the hand-over.             *)
TakeQueueKeepsCache ==
  /\ ev.pc = "alias"
  /\ conn' = [conn EXCEPT ![ev.c].out = conn[ev.old].out]
  /\ alloc' = alloc \ {conn[ev.c].out}
  /\ queue' = [queue EXCEPT ![conn[ev.c].out] = <<>>]
  /\ ev' = [ev EXCEPT !.pc = "drop"]
  /\ UNCHANGED <<born, live, ctx, lock, wk, wire, late>>

(* The new connection gets the node's id before the old one is closed.     *)
TakeQueueAndName ==
  /\ ev.pc = "alias"
  /\ conn' = [conn EXCEPT ![ev.c].out = conn[ev.old].out, ![ev.c].nid = ev.nid,
                          ![ev.old].cache = FALSE]
  /\ alloc' = alloc \ {conn[ev.c].out}
  /\ queue' = [queue EXCEPT ![conn[ev.c].out] = <<>>]
  /\ ev' = [ev EXCEPT !.pc = "drop"]
  /\ UNCHANGED <<born, live, ctx, lock, wk, wire, late>>

-----------------------------------------------------------------------------
(* Workers: sendNode, sendDb, sendState                                    *)

(* No connection matches: the send returns -1 and the message is gone.     *)
SendMiss(w) ==
  /\ lock = None /\ wk[w].pc = "idle" /\ wk[w].cnt < MaxSend
  /\ {} \in Routes
  /\ wk' = [wk EXCEPT ![w] =
               [pc |-> "idle", tgt |-> NoConn, cnt |-> wk[w].cnt + 1]]
  /\ UNCHANGED <<conn, born, live, queue, alloc, ctx, lock, ev, wire, late>>

(* Take m_lock, find the connection, push on its queue.                    *)
SendPush(w) ==
  /\ lock = None /\ wk[w].pc = "idle" /\ wk[w].cnt < MaxSend
  /\ \E R \in Routes, c \in live :
       /\ IsFirst(c, R)
       /\ queue' = [queue EXCEPT ![conn[c].out] =
                      Append(@, <<w, wk[w].cnt + 1>>)]
       /\ wk' = [wk EXCEPT ![w] =
                   [pc |-> "arm", tgt |-> c, cnt |-> wk[w].cnt + 1]]
  /\ lock' = w
  /\ UNCHANGED <<conn, born, live, alloc, ctx, ev, wire, late>>

(* Arm the connection for writing if its state allows it, release m_lock.  *)
SendArm(w) ==
  /\ wk[w].pc = "arm"
  /\ LET c == wk[w].tgt IN
       IF conn[c].st \in Armable
         THEN /\ conn' = [conn EXCEPT ![c].evs = @ \cup {"W"}]
              /\ late' = late \ {conn[c].out}
         ELSE /\ late' = late \cup {conn[c].out}
              /\ UNCHANGED conn
  /\ wk' = [wk EXCEPT ![w] = [pc |-> "idle", tgt |-> NoConn, cnt |-> wk[w].cnt]]
  /\ lock' = None
  /\ UNCHANGED <<born, live, queue, alloc, ctx, ev, wire>>

-----------------------------------------------------------------------------
(* Event thread: accepting, authenticating, reading                        *)

Accept ==
  /\ ev.pc = "idle"
  /\ Create(born + 1, "server", "AUTH")
  /\ UNCHANGED <<queue, ctx, lock, wk, ev, wire, late>>

(* The authentication request of a peer that dialled this process; the     *)
(* response goes through sendSock.  A peer authenticates once.             *)
PeerAuth(c, n) ==
  /\ ev.pc = "idle"
  /\ c \in live /\ "R" \in conn[c].evs
  /\ conn[c].flag = "server" /\ conn[c].st = "AUTH"
  /\ conn' = [conn EXCEPT ![c].nid = n, ![c].st = "CONNECTED"]
  /\ ev' = [ev EXCEPT !.pc = "rsp", !.c = c]
  /\ UNCHANGED <<born, live, queue, alloc, ctx, lock, wk, wire, late>>

SendRsp ==
  /\ ev.pc = "rsp" /\ lock = None
  /\ \E d \in live :
       /\ IsFirst(d, WithFd(conn[ev.c].fd))
       /\ queue' = [queue EXCEPT ![conn[d].out] = Append(@, <<"rsp", ev.c>>)]
       /\ IF conn[d].st = "CONNECTED"
            THEN /\ conn' = [conn EXCEPT ![d].evs = @ \cup {"W"}]
                 /\ late' = late \ {conn[d].out}
            ELSE /\ late' = late \cup {conn[d].out}
                 /\ UNCHANGED conn
  /\ ev' = Idle
  /\ UNCHANGED <<born, live, alloc, ctx, lock, wk, wire>>

(* The response to our own authentication request.                         *)
RecvAuthRsp(n) ==
  LET c == ctx[n] IN
  /\ ev.pc = "idle"
  /\ c # NoConn
  /\ "R" \in conn[c].evs
  /\ conn' = [conn EXCEPT ![c].st = "CONNECTED"]
  /\ UNCHANGED <<born, live, queue, alloc, ctx, lock, wk, ev, wire, late>>

(* recv fails or returns 0.                                                *)
ReadFails(c, s) ==
  /\ ev.pc = "idle"
  /\ c \in live /\ "R" \in conn[c].evs
  /\ conn' = [conn EXCEPT ![c].st = s]
  /\ ev' = [ev EXCEPT !.pc = "fail", !.c = c]
  /\ UNCHANGED <<born, live, queue, alloc, ctx, lock, wk, wire, late>>

(* After a failed read or write: disarm both directions, then delete the   *)
(* connection if the peer had opened it.                                   *)
FailDisarm ==
  /\ ev.pc = "fail" /\ lock = None
  /\ DelFileEvent(ev.c, {"R", "W"})
  /\ ev' = IF conn[ev.c].flag = "client" THEN Idle
                                         ELSE [ev EXCEPT !.pc = "close"]
  /\ UNCHANGED <<born, live, queue, alloc, ctx, lock, wk, wire, late>>

FailClose ==
  /\ ev.pc = "close" /\ lock = None
  /\ CloseConnection(ev.c)
  /\ ev' = Idle
  /\ UNCHANGED <<conn, born, ctx, lock, wk, wire>>

-----------------------------------------------------------------------------
(* Event thread: writing                                                   *)

WriteReady(c) ==
  /\ ev.pc = "idle"
  /\ c \in live /\ "W" \in conn[c].evs
  /\ ev' = [ev EXCEPT !.pc = "write", !.c = c]
  /\ UNCHANGED <<conn, born, live, queue, alloc, ctx, lock, wk, wire, late>>

(* nextPkt takes a packet off the queue.                                   *)
LoadPkt ==
  LET c == ev.c IN
  /\ ev.pc = "write"
  /\ conn[c].cur = None /\ queue[conn[c].out] # <<>>
  /\ conn' = [conn EXCEPT ![c].cur = Head(queue[conn[c].out])]
  /\ queue' = [queue EXCEPT ![conn[c].out] = Tail(@)]
  /\ UNCHANGED <<born, live, alloc, ctx, lock, wk, ev, wire, late>>

(* send takes all the bytes that were left of the packet.                  *)
SendWhole ==
  LET c == ev.c IN
  /\ ev.pc = "write" /\ conn[c].cur # None
  /\ wire' = [wire EXCEPT ![conn[c].out] = Append(@, conn[c].cur)]
  /\ conn' = [conn EXCEPT ![c].cur = None]
  /\ UNCHANGED <<born, live, queue, alloc, ctx, lock, wk, ev, late>>

(* send takes some or none of them and the socket is full: IO_AGAIN, and   *)
(* the packet stays the current one.                                       *)
SendAgain ==
  /\ ev.pc = "write" /\ conn[ev.c].cur # None
  /\ ev' = Idle
  /\ UNCHANGED <<conn, born, live, queue, alloc, ctx, lock, wk, wire, late>>

SendFails(s) ==
  /\ ev.pc = "write" /\ conn[ev.c].cur # None
  /\ conn' = [conn EXCEPT ![ev.c].st = s]
  /\ ev' = [ev EXCEPT !.pc = "fail"]
  /\ UNCHANGED <<born, live, queue, alloc, ctx, lock, wk, wire, late>>

(* nextPkt finds nothing: IO_FINISH.                                       *)
WriteDone ==
  /\ ev.pc = "write"
  /\ conn[ev.c].cur = None /\ queue[conn[ev.c].out] = <<>>
  /\ ev' = [ev EXCEPT !.pc = "check"]
  /\ UNCHANGED <<conn, born, live, queue, alloc, ctx, lock, wk, wire, late>>

(* conn->empty(), without m_lock.                                          *)
CheckEmpty ==
  /\ ev.pc = "check"
  /\ ev' = IF queue[conn[ev.c].out] = <<>> THEN [ev EXCEPT !.pc = "disarm"]
                                           ELSE Idle
  /\ UNCHANGED <<conn, born, live, queue, alloc, ctx, lock, wk, wire, late>>

Disarm ==
  /\ ev.pc = "disarm" /\ lock = None
  /\ DelFileEvent(ev.c, {"W"})
  /\ late' = IF queue[conn[ev.c].out] # <<>> THEN late \cup {conn[ev.c].out}
                                             ELSE late
  /\ ev' = Idle
  /\ UNCHANGED <<born, live, queue, alloc, ctx, lock, wk, wire>>

-----------------------------------------------------------------------------
(* Event thread: dialling and re-dialling a node                           *)

(* RouterNode::srvinfoBroadcast for a node not known yet: connect, then     *)
(* the steps SetNodeInfo and NodeReady.                                    *)
Dial(n) ==
  /\ ev.pc = "idle" /\ ctx[n] = NoConn
  /\ Create(born + 1, "client", "NONE")
  /\ ev' = [pc |-> "name", c |-> born + 1, old |-> NoConn, nid |-> n]
  /\ UNCHANGED <<queue, ctx, lock, wk, wire, late>>

(* ServiceNode::checkState for a node whose connection failed: connect ...  *)
Redial(n) ==
  /\ ev.pc = "idle" /\ ctx[n] # NoConn
  /\ conn[ctx[n]].st \in Failed
  /\ Create(born + 1, "client", "NONE")
  /\ ev' = [pc |-> "alias", c |-> born + 1, old |-> ctx[n], nid |-> n]
  /\ UNCHANGED <<queue, ctx, lock, wk, wire, late>>

(* ... setCache: delete the new connection's own queue, take over the old  *)
(* one's; the old connection no longer caches it ...                       *)
TakeQueue ==
  /\ ev.pc = "alias"
  /\ conn' = [conn EXCEPT ![ev.c].out = conn[ev.old].out,
                          ![ev.old].cache = FALSE]
  /\ alloc' = alloc \ {conn[ev.c].out}
  /\ queue' = [queue EXCEPT ![conn[ev.c].out] = <<>>]
  /\ ev' = [ev EXCEPT !.pc = "drop"]
  /\ UNCHANGED <<born, live, ctx, lock, wk, wire, late>>

(* ... close the old connection ...                                        *)
DropOld ==
  /\ ev.pc = "drop" /\ lock = None
  /\ CloseConnection(ev.old)
  /\ ev' = [ev EXCEPT !.pc = "name"]
  /\ UNCHANGED <<conn, born, ctx, lock, wk, wire>>

(* ... setNodeInfo: sends to the node find the new connection ...          *)
SetNodeInfo ==
  /\ ev.pc = "name"
  /\ conn' = [conn EXCEPT ![ev.c].nid = ev.nid]
  /\ ev' = [ev EXCEPT !.pc = "ready"]
  /\ UNCHANGED <<born, live, queue, alloc, ctx, lock, wk, wire, late>>

(* ... setState(STATE_AUTH) and setContext.  Messages that are already in  *)
(* the queue do not arm the connection.                                    *)
NodeReady ==
  /\ ev.pc = "ready"
  /\ conn' = [conn EXCEPT ![ev.c].st = "AUTH"]
  /\ ctx' = [ctx EXCEPT ![ev.nid] = ev.c]
  /\ late' = IF queue[conn[ev.c].out] # <<>> THEN late \cup {conn[ev.c].out}
                                             ELSE late
  /\ ev' = Idle
  /\ UNCHANGED <<born, live, queue, alloc, lock, wk, wire>>

(* checkState for a node that is not to be dialled again: forget the node,  *)
(* close its connection.                                                   *)
GiveUp(n) ==
  /\ ev.pc = "idle" /\ ctx[n] # NoConn /\ lock = None
  /\ conn[ctx[n]].st \in Failed
  /\ CloseConnection(ctx[n])
  /\ ctx' = [ctx EXCEPT ![n] = NoConn]
  /\ UNCHANGED <<conn, born, lock, wk, ev, wire>>

-----------------------------------------------------------------------------

WorkerStep(w) == SendMiss(w) \/ SendPush(w) \/ SendArm(w)

WriteStep ==
  \/ \E c \in Conn : WriteReady(c)
  \/ LoadPkt
  \/ SendWhole
  \/ SendAgain
  \/ \E s \in Failed : SendFails(s)
  \/ WriteDone
  \/ CheckEmpty
  \/ Disarm

ReadStep ==
  \/ Accept
  \/ \E c \in Conn, n \in Peer : PeerAuth(c, n)
  \/ SendRsp
  \/ \E n \in Node : RecvAuthRsp(n)
  \/ \E c \in Conn, s \in Failed : ReadFails(c, s)
  \/ FailDisarm
  \/ FailClose

CronStep ==
  \/ \E n \in Node : Dial(n)
  \/ \E n \in Node : Redial(n)
  \/ TakeQueue
  \/ DropOld
  \/ SetNodeInfo
  \/ NodeReady
  \/ \E n \in Node : GiveUp(n)

Next == (\E w \in Worker : WorkerStep(w)) \/ WriteStep \/ ReadStep \/ CronStep

Spec == Init /\ [][Next]_vars

(* A handler of the event thread runs to its end; a worker that holds       *)
(* m_lock releases it; libevent reports every writable socket in turn; a   *)
(* socket that stays connected keeps taking bytes.                         *)
HandlerStep ==
  \/ LoadPkt \/ WriteDone \/ CheckEmpty \/ Disarm
  \/ SendRsp \/ FailDisarm \/ FailClose
  \/ TakeQueue \/ DropOld \/ SetNodeInfo \/ NodeReady

Fairness ==
  /\ WF_vars(HandlerStep)
  /\ \A w \in Worker : WF_vars(SendArm(w))
  /\ \A c \in Conn : SF_vars(WriteReady(c))
  /\ \A c \in Conn : SF_vars(ev.c = c /\ SendWhole)

FairSpec == Spec /\ Fairness

-----------------------------------------------------------------------------
(* Properties                                                              *)

(* Every variable has its type; the connection, queue and descriptor        *)
(* references of Connection, Node and the threads are in range.             *)
TypeOK ==
  /\ conn \in [Conn -> Connection]
  /\ born \in 0..MaxConn
  /\ live \subseteq 1..born
  /\ queue \in [Conn -> Seq(Msg)]
  /\ alloc \subseteq 1..born
  /\ ctx \in [Node -> Conn \cup {NoConn}]
  /\ lock \in Worker \cup {None}
  /\ wk \in [Worker -> WorkerState]
  /\ ev \in EventState
  /\ wire \in [Conn -> Seq(Msg)]
  /\ late \subseteq Conn

(* No use after free: a connection that a worker found stays in m_conns     *)
(* until the worker has armed it and released m_lock, and the connections   *)
(* the event thread and the nodes still refer to have not been deleted      *)
(* (closeConnection deletes under m_lock; _read and _write use the raw      *)
(* Connection* that libevent holds).                                        *)
TargetsAlive ==
  /\ \A w \in Worker : wk[w].pc = "arm" => lock = w /\ wk[w].tgt \in live
  /\ ev.pc # "idle" => ev.c \in live
  /\ ev.pc \in {"alias", "drop"} => ev.old \in live /\ ev.old # ev.c
  /\ \A n \in Node :
       ctx[n] = NoConn \/ ctx[n] \in live \/ (ev.nid = n /\ ev.pc \in {"name", "ready"})

(* libevent never keeps a deleted connection as a callback argument:        *)
(* ~Connection does not call event_del, so every path that deletes one has  *)
(* to have disarmed it before, and no worker may have armed it again.       *)
NoEventOnDeleted == \A c \in Conn \ live : conn[c].evs = {}

(* delFileEvent and closeConnection find "their" connection by descriptor:  *)
(* no two connections of m_conns share one, although descriptors are reused *)
(* as soon as ~Connection closes them.                                      *)
DescriptorsDistinct ==
  \A c, d \in live : conn[c].fd = conn[d].fd => c = d

(* Queues are neither leaked, nor freed twice, nor used after they are      *)
(* freed: each allocated one is owned ("cache") by exactly one connection,  *)
(* and each connection's out_buffer is allocated, through the hand-over of  *)
(* checkState too.                                                          *)
QueuesOwned ==
  /\ \A c \in live : conn[c].out \in alloc
  /\ \A q \in alloc : \E c \in live : conn[c].out = q /\ conn[c].cache
  /\ \A c, d \in live :
       conn[c].cache /\ conn[d].cache /\ conn[c].out = conn[d].out => c = d

(* The messages to a dialled node never split between two connections: the  *)
(* old one is closed before its replacement is given the node's id.         *)
OneConnectionPerNode ==
  \A n \in Node : \A c, d \in WithNid(n) : c = d

(* What the safety of the above rests on: the inductive invariant.         *)
(* A failed connection is disarmed, unless the handler that saw the         *)
(* failure has yet to do it; from then on no state allows arming it.        *)
FailedDisarmed ==
  \A c \in live :
    conn[c].st \in Failed => conn[c].evs = {} \/ (ev.pc = "fail" /\ ev.c = c)

AllCached ==
  \A c \in live : conn[c].cache \/ (ev.pc = "drop" /\ ev.old = c)

(* The nodes refer to different connections, all dialled ones.             *)
ContextsOK ==
  /\ \A n \in Node :
       ctx[n] # NoConn => ctx[n] \in 1..born /\ conn[ctx[n]].flag = "client"
  /\ \A n, m \in Node : ctx[n] # NoConn /\ ctx[n] = ctx[m] => n = m

Dialling == ev.pc \in {"alias", "drop", "name", "ready"}

EventThreadOK ==
  /\ ev.pc \in {"fail", "close"} => conn[ev.c].st \in Failed
  /\ ev.pc = "close" => conn[ev.c].flag = "server"
  /\ Dialling => /\ conn[ev.c].flag = "client" /\ conn[ev.c].st = "NONE"
                 /\ ev.nid \in Node
                 /\ \A n \in Node : ctx[n] # ev.c
  /\ ev.pc \in {"alias", "drop"} =>
       /\ ctx[ev.nid] = ev.old /\ conn[ev.old].st \in Failed
  /\ ev.pc = "drop" => /\ conn[ev.c].out = conn[ev.old].out
                       /\ ~conn[ev.old].cache

(* What workers and the event thread do to shared connections and queues   *)
(* leads to no use after free, no stale registration with libevent, no     *)
(* mix-up of descriptors, and no queue that is leaked or freed twice.      *)
Safety ==
  /\ TargetsAlive
  /\ NoEventOnDeleted
  /\ DescriptorsDistinct
  /\ QueuesOwned

IInv == TypeOK /\ Safety /\ FailedDisarmed /\ AllCached /\ ContextsOK /\ EventThreadOK

(* Lost wake-up, bounded: outside the handlers, a connection in use that    *)
(* has something to send but is not armed for writing got it in one of      *)
(* three ways: pushed between conn->empty() and delFileEvent in             *)
(* TcpServer::write, pushed while the node was down or not yet in           *)
(* STATE_AUTH, or inherited at the hand-over.  No other interleaving of     *)
(* workers and event thread strands a message.                              *)
StrandedOnlyIfLate ==
  \A c \in live :
    ( /\ conn[c].st \in {"AUTH", "CONNECTED"}
      /\ queue[conn[c].out] # <<>>
      /\ "W" \notin conn[c].evs
      /\ ev.c # c /\ ev.old # c
      /\ \A w \in Worker : wk[w].tgt # c )
    => conn[c].out \in late

(* A packet that was only partly sent still has the socket's attention:     *)
(* Connection::empty() counts it, so it is never disarmed.                  *)
HalfSentStaysArmed ==
  \A c \in live :
    conn[c].cur # None /\ conn[c].st \notin Failed => "W" \in conn[c].evs

(* A connection that failed stays failed until it is deleted: a late        *)
(* authentication response or a send cannot revive it.                      *)
NoRevival ==
  [][\A c \in live : conn[c].st \in Failed => conn'[c].st \in Failed]_vars

(* Each queue is a MessageStream: what a worker pushed leaves in order and  *)
(* at most once, over all the connections that serve the queue; a message   *)
(* is lost only as the packet being written at a hand-over, or with the     *)
(* queue.                                                                   *)
Unsent(q) ==
  LET S == {c \in live : conn[c].out = q /\ conn[c].cache /\ conn[c].cur # None}
  IN  IF S = {} THEN queue[q] ELSE <<conn[CHOOSE c \in S : TRUE].cur>> \o queue[q]

Stream(q) == INSTANCE MessageStream
  WITH pending <- Unsent(q), delivered <- wire[q], open <- q \in alloc

StreamsRefined ==
  /\ \A q \in Conn : Stream(q)!StreamInit
  /\ [][\A q \in Conn :
          Stream(q)!StreamNext \/ UNCHANGED Stream(q)!streamVars]_vars

(* A queued message is taken by the writer, unless its connection fails or  *)
(* the message came late in the sense of StrandedOnlyIfLate.                *)
Delivery ==
  \A q \in Conn :
    (queue[q] # <<>>) ~>
      \/ queue[q] = <<>>
      \/ q \in late
      \/ \E c \in live : conn[c].out = q /\ conn[c].st \in Failed
=============================================================================
