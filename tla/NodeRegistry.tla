---------------------------- MODULE NodeRegistry ----------------------------
(***************************************************************************)
(* Which nodes a process knows and how it keeps its connections to them:   *)
(* NodeMgr, ServiceNode, RouterNode, Node and the callback by which a      *)
(* Connection reports its failure.  Everything here runs on the event      *)
(* thread; a handler that loops over nodes takes one step per node, and no *)
(* other handler runs until it has finished.                               *)
(*                                                                         *)
(* The process registers with the router, learns of the other nodes from   *)
(* the router's pushes, dials them, and, once a second after the           *)
(* registration was answered, looks for nodes whose connection failed:     *)
(* they are dialled again, or forgotten when that failed too often.        *)
(* The messages this sends are left to SendPath.                           *)
(***************************************************************************)
EXTENDS Integers, FiniteSets

CONSTANTS
  Peer,      \* the nodes the router may announce
  Router,    \* the router's node
  MaxRetry,  \* connects that may fail before a node is forgotten: 4
  MaxConn,   \* bound: connection objects at a time; identities are reused
  None       \* model value: nobody

Node == Peer \cup {Router}
Conn == 1..MaxConn
NoConn == 0

ASSUME NodeRegistryAssumption ==
  /\ Router \notin Peer /\ None \notin Node
  /\ MaxRetry \in Nat \ {0}
  /\ IsFiniteSet(Peer) /\ MaxConn \in Nat /\ MaxConn >= Cardinality(Peer) + 2

(* None is no notification.                                                *)
ASSUME NoneIsNoNote == None \notin [arg : Peer, srv_id : Node \cup {None}]

Failed == {"ERROR", "CLOSED"}
ConnState == {"AUTH", "CONNECTED"} \cup Failed
NodeState == {"UNABLE", "AUTH", "ABLE"} \cup Failed

VARIABLES
  known,   \* the m_nodes of all services
  node,    \* the Node objects: [st, num, ctx] (m_state, m_num, m_context)
  live,    \* the dialled connections in m_conns
  conn,    \* those connections: [st, nid, cb]
  cron,    \* NodeMgr::timer has been added to the timers
  pc,      \* the event thread: "start", "idle", "push" or "check"
  todo,    \* the nodes the loop of "push" or "check" has not come to
  up,      \* environment: the nodes that accept connections
  note,    \* the notification this step passed to the application, or None
  fails    \* history: connects in a row that failed since a node was last up

vars == <<known, node, live, conn, cron, pc, todo, up, note, fails>>

NewNode(c, st) == [st |-> st, num |-> 0, ctx |-> c]
NoNode == NewNode(NoConn, "UNABLE")
NewConn(n, st, cb) == [st |-> st, nid |-> n, cb |-> cb]
Dead == NewConn(None, "CLOSED", None)

Init ==
  /\ known = {} /\ node = [n \in Node |-> NoNode]
  /\ live = {} /\ conn = [c \in Conn |-> Dead]
  /\ cron = FALSE
  /\ pc = "start" /\ todo = {}
  /\ up \in SUBSET Node
  /\ note = None
  /\ fails = [n \in Node |-> 0]

-----------------------------------------------------------------------------
(* Nodes                                                                   *)

(* Wrong version: the count of failed connects is never reset.             *)
SetStateNoReset(r, st) == [r EXCEPT !.st = st]

(* Node::setState: the count starts anew when a node leaves NODE_AUTH.     *)
SetState(r, st) ==
  [st |-> st, num |-> IF r.st = "AUTH" THEN 0 ELSE r.num, ctx |-> r.ctx]

(* Node::needReconnect; the router is not a persistent node.               *)
NeedReconnect(n) == n # Router /\ node[n].num < MaxRetry

(* The connection a step creates.                                          *)
Free(c) == c \in Conn \ live /\ \A d \in Conn \ live : c <= d

-----------------------------------------------------------------------------
(* The environment                                                         *)

Toggle(n) ==
  /\ up' = (up \ {n}) \cup ({n} \ up)
  /\ note' = None
  /\ UNCHANGED <<known, node, live, conn, cron, pc, todo, fails>>

-----------------------------------------------------------------------------
(* The router                                                              *)

(* registReq connects, up to four times, and sends the registration.  The   *)
(* router's connection gets no callback.  When it fails the process goes    *)
(* on without a router.                                                    *)
Register ==
  /\ pc = "start"
  /\ pc' = "idle"
  /\ IF Router \in up
       THEN \E c \in Conn :
              /\ Free(c)
              /\ live' = live \cup {c}
              /\ conn' = [conn EXCEPT ![c] = NewConn(Router, "CONNECTED", None)]
              /\ known' = known \cup {Router}
              /\ node' = [node EXCEPT ![Router] = NewNode(c, "ABLE")]
       ELSE UNCHANGED <<live, conn, known, node>>
  /\ note' = None
  /\ UNCHANGED <<cron, todo, up, fails>>

(* A message of the router can be read.                                    *)
RouterSpeaks ==
  /\ pc = "idle"
  /\ Router \in known /\ conn[node[Router].ctx].st \notin Failed

(* registRsp: NodeMgr::start adds the timer.                               *)
RegistRsp ==
  /\ RouterSpeaks
  /\ cron' = TRUE
  /\ note' = None
  /\ UNCHANGED <<known, node, live, conn, pc, todo, up, fails>>

(* srvinfoBroadcast announces the nodes of S ...                           *)
Push(S) ==
  /\ RouterSpeaks
  /\ pc' = "push" /\ todo' = S
  /\ note' = None
  /\ UNCHANGED <<known, node, live, conn, cron, up, fails>>

(* Wrong version: a node that is known is dialled once more.               *)
PushNodeAgain(n) ==
  /\ pc = "push" /\ n \in todo /\ n \in up
  /\ \E c \in Conn :
       /\ Free(c)
       /\ live' = live \cup {c}
       /\ conn' = [conn EXCEPT ![c] = NewConn(n, "AUTH", n)]
       /\ known' = known \cup {n}
       /\ node' = [node EXCEPT ![n] = NewNode(c, "AUTH")]
  /\ fails' = [fails EXCEPT ![n] = 0]
  /\ todo' = todo \ {n}
  /\ note' = None
  /\ UNCHANGED <<cron, pc, up>>

(* ... dials one that is not known ...                                     *)
PushNode(n) ==
  /\ pc = "push" /\ n \in todo
  /\ n \notin known /\ n \in up
  /\ \E c \in Conn :
       /\ Free(c)
       /\ live' = live \cup {c}
       /\ conn' = [conn EXCEPT ![c] = NewConn(n, "AUTH", n)]
       /\ known' = known \cup {n}
       /\ node' = [node EXCEPT ![n] = NewNode(c, "AUTH")]
  /\ fails' = [fails EXCEPT ![n] = 0]
  /\ todo' = todo \ {n}
  /\ note' = None
  /\ UNCHANGED <<cron, pc, up>>

(* ... passes over one that is known ...                                   *)
PushKnown(n) ==
  /\ pc = "push" /\ n \in todo
  /\ n \in known
  /\ todo' = todo \ {n}
  /\ note' = None
  /\ UNCHANGED <<known, node, live, conn, cron, pc, up, fails>>

(* ... and stops at one it cannot connect to, or at the end.               *)
PushEnds ==
  /\ pc = "push"
  /\ todo = {} \/ \E n \in todo : n \notin known \cup up
  /\ pc' = "idle" /\ todo' = {}
  /\ note' = None
  /\ UNCHANGED <<known, node, live, conn, cron, up, fails>>

-----------------------------------------------------------------------------
(* A connection that was dialled                                           *)

AuthenticationRsp(n) ==
  LET c == node[n].ctx IN
  /\ pc = "idle"
  /\ n \in known /\ n # Router
  /\ conn[c].st \notin Failed
  /\ node' = [node EXCEPT ![n] = SetState(@, "ABLE")]
  /\ conn' = [conn EXCEPT ![c].st = "CONNECTED"]
  /\ note' = None
  /\ UNCHANGED <<known, live, cron, pc, todo, up, fails>>

(* Reading or writing fails: Connection::setState calls notifyNodeState,    *)
(* which marks the node and tells the application.  The message is filled  *)
(* in before bufalloc allocates it: it names no node (srv_id 0).           *)
ConnFails(c, s) ==
  /\ pc = "idle"
  /\ c \in live /\ conn[c].st \notin Failed
  /\ conn' = [conn EXCEPT ![c].st = s]
  /\ IF conn[c].cb = None
       THEN node' = node /\ note' = None
       ELSE /\ node' = [node EXCEPT ![conn[c].cb] = SetState(@, s)]
            /\ note' = [arg |-> conn[c].cb, srv_id |-> None]
  /\ UNCHANGED <<known, live, cron, pc, todo, up, fails>>

-----------------------------------------------------------------------------
(* NodeMgr::cron, once a second                                            *)

Tick ==
  /\ pc = "idle" /\ cron
  /\ pc' = "check" /\ todo' = known
  /\ note' = None
  /\ UNCHANGED <<known, node, live, conn, cron, up, fails>>

Visiting(n) == pc = "check" /\ n \in todo

(* Wrong version: a node in NODE_ERROR is taken for a healthy one.         *)
VisitHealthyOrError(n) ==
  /\ Visiting(n) /\ node[n].st # "CLOSED"
  /\ todo' = todo \ {n}
  /\ note' = None
  /\ UNCHANGED <<known, node, live, conn, cron, pc, up, fails>>

VisitHealthy(n) ==
  /\ Visiting(n) /\ node[n].st \notin Failed
  /\ todo' = todo \ {n}
  /\ note' = None
  /\ UNCHANGED <<known, node, live, conn, cron, pc, up, fails>>

(* The node counts the connect, and has a connection to be authenticated.  *)
Redialled(r, c) == [SetState([r EXCEPT !.num = r.num + 1], "AUTH") EXCEPT !.ctx = c]

(* Wrong version: the callback is not taken over.                          *)
RedialNoCallback(n) ==
  LET old == node[n].ctx IN
  /\ Visiting(n) /\ node[n].st \in Failed
  /\ NeedReconnect(n) /\ n \in up
  /\ \E c \in Conn :
       /\ Free(c)
       /\ live' = (live \cup {c}) \ {old}
       /\ conn' = [conn EXCEPT ![c] = NewConn(n, "AUTH", None), ![old] = Dead]
       /\ node' = [node EXCEPT ![n] = Redialled(@, c)]
  /\ fails' = [fails EXCEPT ![n] = 0]
  /\ todo' = todo \ {n}
  /\ note' = None
  /\ UNCHANGED <<known, cron, pc, up>>

(* checkState: a new connection takes the old one's place.                 *)
Redial(n) ==
  LET old == node[n].ctx IN
  /\ Visiting(n) /\ node[n].st \in Failed
  /\ NeedReconnect(n) /\ n \in up
  /\ \E c \in Conn :
       /\ Free(c)
       /\ live' = (live \cup {c}) \ {old}
       /\ conn' = [conn EXCEPT ![c] = NewConn(n, "AUTH", conn[old].cb),
                               ![old] = Dead]
       /\ node' = [node EXCEPT ![n] = Redialled(@, c)]
  /\ fails' = [fails EXCEPT ![n] = 0]
  /\ todo' = todo \ {n}
  /\ note' = None
  /\ UNCHANGED <<known, cron, pc, up>>

RedialFails(n) ==
  /\ Visiting(n) /\ node[n].st \in Failed
  /\ NeedReconnect(n) /\ n \notin up
  /\ node' = [node EXCEPT ![n].num = @ + 1]
  /\ fails' = [fails EXCEPT ![n] = @ + 1]
  /\ todo' = todo \ {n}
  /\ note' = None
  /\ UNCHANGED <<known, live, conn, cron, pc, up>>

(* Wrong version: the node is deleted and its connection is not.           *)
ForgetKeepsConn(n) ==
  /\ Visiting(n) /\ node[n].st \in Failed
  /\ ~NeedReconnect(n)
  /\ known' = known \ {n}
  /\ node' = [node EXCEPT ![n] = NoNode]
  /\ todo' = todo \ {n}
  /\ note' = None
  /\ UNCHANGED <<live, conn, cron, pc, up, fails>>

(* The node is erased and its connection closed.  (If it is the router's,  *)
(* ServiceNode::reinit registers again, as in Register.)                   *)
Forget(n) ==
  LET old == node[n].ctx IN
  /\ Visiting(n) /\ node[n].st \in Failed
  /\ ~NeedReconnect(n)
  /\ known' = known \ {n}
  /\ live' = live \ {old}
  /\ conn' = [conn EXCEPT ![old] = Dead]
  /\ node' = [node EXCEPT ![n] = NoNode]
  /\ IF n = Router THEN pc' = "start" /\ todo' = {}
                   ELSE pc' = pc /\ todo' = todo \ {n}
  /\ note' = None
  /\ UNCHANGED <<cron, up, fails>>

CheckEnds ==
  /\ pc = "check" /\ todo = {}
  /\ pc' = "idle"
  /\ note' = None
  /\ UNCHANGED <<known, node, live, conn, cron, todo, up, fails>>

-----------------------------------------------------------------------------

PushStep == PushEnds \/ \E n \in Peer : PushNode(n) \/ PushKnown(n)

CheckStep ==
  \/ CheckEnds
  \/ \E n \in Node :
       VisitHealthy(n) \/ Redial(n) \/ RedialFails(n) \/ Forget(n)

Next ==
  \/ \E n \in Node : Toggle(n)
  \/ Register \/ RegistRsp
  \/ \E S \in SUBSET Peer : Push(S)
  \/ PushStep
  \/ \E n \in Peer : AuthenticationRsp(n)
  \/ \E c \in Conn, s \in Failed : ConnFails(c, s)
  \/ Tick \/ CheckStep

Spec == Init /\ [][Next]_vars

(* Handlers run to their end, and the timer comes round again and again,   *)
(* whatever else the event loop has to do.                                 *)
FairSpec ==
  Spec /\ WF_vars(Register) /\ WF_vars(PushStep) /\ SF_vars(Tick) /\ WF_vars(CheckStep)

-----------------------------------------------------------------------------
(* Properties                                                              *)

(* Every variable has its type.                                            *)
TypeOK ==
  /\ known \subseteq Node /\ live \subseteq Conn
  /\ node \in [Node -> [st : NodeState, num : 0..MaxRetry, ctx : Conn \cup {NoConn}]]
  /\ conn \in [Conn -> [st : ConnState, nid : Node \cup {None}, cb : Peer \cup {None}]]
  /\ cron \in BOOLEAN
  /\ pc \in {"start", "idle", "push", "check"}
  /\ todo \subseteq Node /\ up \subseteq Node
  /\ note = None \/ note \in [arg : Peer, srv_id : Node \cup {None}]
  /\ fails \in [Node -> 0..MaxRetry]

(* The connection of node n has failed.                                    *)
Down(n) == conn[node[n].ctx].st \in Failed

(* checkState only looks at the state of the Node, which only the callback  *)
(* of the Connection sets: a peer is marked failed exactly when its         *)
(* connection is, through any number of re-dials.                          *)
NodeFollowsConn ==
  \A n \in known \ {Router} : node[n].st \in Failed <=> Down(n)

(* The Node a callback would write to has not been deleted.                *)
CallbackAlive == \A c \in live : conn[c].cb # None => conn[c].cb \in known

(* No connection is leaked or shared: each belongs to the one node that     *)
(* has it as its context.                                                  *)
ConnsOwned ==
  /\ \A n \in known : node[n].ctx \in live
  /\ \A c \in live :
       /\ conn[c].nid \in known /\ node[conn[c].nid].ctx = c
       /\ \A d \in live : conn[c].nid = conn[d].nid => c = d

(* A node is given up only after MaxRetry connects in a row have failed,    *)
(* however often it came back before ("connect fail num", Node.h:29).      *)
GivenUpOnlyAfterRetries ==
  [][\A n \in known : n \notin known' => fails[n] = MaxRetry]_vars

(* The application hears of the failure of a node's connection once, in     *)
(* the step that detects it, and of nothing else.                          *)
ToldOfFailures ==
  [][\A n \in Peer :
       (note' # None /\ note'.arg = n) <=>
         (n \in known \cap known' /\ ~Down(n) /\ Down(n)')]_vars

(* Once the timer runs, a failed node does not stay failed: it is dialled   *)
(* again or forgotten.                                                     *)
FailedIsDealtWith ==
  \A n \in Peer :
    (cron /\ n \in known /\ node[n].st \in Failed) ~>
      (n \notin known \/ node[n].st \notin Failed)

(* RouterNode.cpp:19 and 20 say that the notification carries the node's   *)
(* id ("srv_id").                                                          *)
NotificationNamesNode == note # None => note.srv_id = note.arg

(* RouterNode.cpp:96: "when the router disconnects one has to register      *)
(* again"; ServiceNode.cpp:172: on disconnection the router service is      *)
(* initialised again.                                                      *)
RouterIsRegisteredAgain ==
  (cron /\ Router \in known /\ Down(Router)) ~> (Router \notin known \/ ~Down(Router))
=============================================================================
