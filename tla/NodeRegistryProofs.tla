------------------------- MODULE NodeRegistryProofs -------------------------
(***************************************************************************)
(* Proofs about NodeRegistry, for any set of nodes and any retry limit:    *)
(* nodes and their connections stay in step (NodeFollowsConn, ConnsOwned,  *)
(* CallbackAlive), and what the process does about a failure               *)
(* (GivenUpOnlyAfterRetries, ToldOfFailures).                              *)
(*                                                                         *)
(* None of these is inductive.  The notification that keeps a Node in step *)
(* with its Connection reaches the right Node only because the callback of *)
(* a connection names the node the connection belongs to (Callbacks); that *)
(* this is so across a re-dial needs ConnsOwned; the router's node, which  *)
(* has no callback, is never marked failed and so never looked at          *)
(* (RouterOK); and m_num counts what it should because it is 0 in NODE_ABLE *)
(* and equals the failures since then in a failed node (Counted).          *)
(***************************************************************************)
EXTENDS NodeRegistry, TLAPS

(* The callback of a connection is that of the node it belongs to.         *)
Callbacks ==
  \A c \in live : conn[c].cb = IF conn[c].nid = Router THEN None ELSE conn[c].nid

(* The connection of a node bears its id.                                  *)
Named == \A n \in known : conn[node[n].ctx].nid = n

RouterOK ==
  /\ Router \in known => node[Router].st = "ABLE"
  /\ pc = "start" => Router \notin known

Counted ==
  \A n \in known \ {Router} :
    /\ node[n].st \in {"AUTH", "ABLE"} \cup Failed
    /\ node[n].st = "ABLE" => node[n].num = 0
    /\ node[n].st \in Failed => node[n].num = fails[n]
    /\ node[n].st \notin Failed => fails[n] = 0

Loops == /\ pc = "check" => todo \subseteq known
         /\ pc = "push" => todo \subseteq Peer

IInv ==
  /\ TypeOK /\ ConnsOwned /\ Named /\ NodeFollowsConn /\ Callbacks
  /\ RouterOK /\ Counted /\ Loops

NodeType == [st : NodeState, num : 0..MaxRetry, ctx : Conn \cup {NoConn}]
ConnType == [st : ConnState, nid : Node \cup {None}, cb : Peer \cup {None}]

LEMMA Constants ==
  /\ Router \in Node /\ Router \notin Peer /\ Peer \subseteq Node
  /\ None \notin Node /\ MaxRetry \in Nat \ {0} /\ MaxConn \in Nat
  /\ \A n \in Node : n = Router \/ n \in Peer
  /\ NoConn \notin Conn
BY NodeRegistryAssumption DEF NodeRegistryAssumption, Node, Conn, NoConn

LEMMA States ==
  /\ \A s \in Failed : s \in NodeState /\ s \in ConnState
  /\ {"AUTH", "ABLE", "UNABLE"} \subseteq NodeState
  /\ {"AUTH", "CONNECTED"} \subseteq ConnState
  /\ Failed = {"ERROR", "CLOSED"}
BY DEF Failed, NodeState, ConnState

(* The parts of the invariant that a step which leaves nodes and           *)
(* connections alone could disturb.                                        *)
LEMMA QuietStep ==
  ASSUME IInv, UNCHANGED <<known, node, live, conn, fails>>, TypeOK', Loops',
         pc' = "start" => pc = "start"
  PROVE  IInv'
BY DEF IInv, ConnsOwned, Named, NodeFollowsConn, Down, Callbacks, RouterOK, Counted

LEMMA InitInv == Init => IInv
<1>. SUFFICES ASSUME Init PROVE IInv
  OBVIOUS
<1>1. NoNode \in NodeType /\ Dead \in ConnType
  BY Constants, States DEF NoNode, NewNode, Dead, NewConn, NodeType, ConnType, Failed, Conn
<1>2. TypeOK
  <2>1. node \in [Node -> NodeType] /\ conn \in [Conn -> ConnType]
    BY <1>1 DEF Init
  <2>2. fails \in [Node -> 0..MaxRetry]
    BY Constants DEF Init
  <2>. QED
    BY <2>1, <2>2 DEF Init, TypeOK, NodeType, ConnType
<1>. QED
  BY <1>2 DEF Init, IInv, ConnsOwned, Named, NodeFollowsConn, Callbacks, RouterOK, Counted, Loops

(* A connection that is not in m_conns becomes that of n, in place of old, *)
(* the connection n had, if any.                                           *)
Dialled(n, c, old, k) ==
  /\ n \in known => old = node[n].ctx
  /\ n \notin known => old = NoConn
  /\ live' = (live \cup {c}) \ {old}
  /\ conn' \in [Conn -> ConnType]
  /\ conn'[c] = NewConn(n, "AUTH", n)
  /\ \A d \in Conn : d # c /\ d # old => conn'[d] = conn[d]
  /\ known' = known \cup {n}
  /\ node' = [node EXCEPT ![n] = [st |-> "AUTH", num |-> k, ctx |-> c]]
  /\ fails' = [fails EXCEPT ![n] = 0]
  /\ todo' = todo \ {n} /\ note' = None /\ UNCHANGED <<cron, up, pc>>

LEMMA DialledStep ==
  ASSUME IInv, NEW n \in Peer, NEW c \in Conn \ live, NEW old \in Conn \cup {NoConn},
         NEW k \in 0..MaxRetry, Dialled(n, c, old, k)
  PROVE  IInv'
<1>. USE DEF Dialled
<1>1. TypeOK'
  BY Constants, States DEF IInv, TypeOK, ConnType, NodeType
<1>2. /\ \A m \in Node : node'[m] = IF m = n THEN [st |-> "AUTH", num |-> k, ctx |-> c] ELSE node[m]
      /\ \A m \in Node : fails'[m] = IF m = n THEN 0 ELSE fails[m]
      /\ conn'[c].st = "AUTH" /\ conn'[c].nid = n /\ conn'[c].cb = n
  BY Constants DEF IInv, TypeOK, NewConn
<1>3. /\ known \subseteq Node /\ live \subseteq Conn
      /\ \A d \in live : d # old => d # c /\ conn'[d] = conn[d]
  BY DEF IInv, TypeOK
<1>4. \A m \in known : m # n => node[m].ctx \in live /\ node[m].ctx # old
  BY Constants, <1>3 DEF IInv, ConnsOwned, Named
<1>5. \A d \in live : d # old => conn[d].nid # n
  BY DEF IInv, ConnsOwned
<1>6. ConnsOwned' /\ Named'
  <2>1. \A m \in known' : node'[m].ctx \in live' /\ conn'[node'[m].ctx].nid = m
    BY <1>2, <1>3, <1>4, Constants DEF IInv, ConnsOwned, Named
  <2>2. ASSUME NEW d \in live'
        PROVE  conn'[d].nid \in known' /\ node'[conn'[d].nid].ctx = d
    <3>1. CASE d = c
      BY <1>2, <3>1, Constants
    <3>2. CASE d # c
      <4>1. d \in live /\ d # old /\ conn'[d] = conn[d] /\ conn[d].nid # n
        BY <1>3, <1>5, <3>2
      <4>2. conn[d].nid \in known /\ node[conn[d].nid].ctx = d
        BY <4>1 DEF IInv, ConnsOwned
      <4>. QED
        BY <1>2, <1>3, <4>1, <4>2
    <3>. QED
      BY <3>1, <3>2
  <2>3. \A d, e \in live' : conn'[d].nid = conn'[e].nid => d = e
    BY <2>2
  <2>. QED
    BY <2>1, <2>2, <2>3 DEF ConnsOwned, Named
<1>7. NodeFollowsConn'
  <2>1. \A m \in known \ {Router} : m # n => (node'[m].st \in Failed <=> Down(m)')
    BY <1>2, <1>3, <1>4 DEF IInv, NodeFollowsConn, Down
  <2>2. node'[n].st \notin Failed /\ ~Down(n)'
    BY <1>2, States, Constants DEF Down
  <2>. QED
    BY <2>1, <2>2 DEF NodeFollowsConn
<1>8. Callbacks'
  BY <1>2, <1>3, Constants DEF IInv, Callbacks
<1>9. RouterOK' /\ Loops'
  BY <1>2, Constants DEF IInv, RouterOK, Loops
<1>10. Counted'
  <2>1. node'[n].st = "AUTH" /\ fails'[n] = 0
    BY <1>2, Constants
  <2>2. \A m \in known : m # n => node'[m] = node[m] /\ fails'[m] = fails[m]
    BY <1>2, <1>3
  <2>. QED
    BY <2>1, <2>2, States DEF IInv, Counted
<1>. QED
  BY <1>1, <1>6, <1>7, <1>8, <1>9, <1>10 DEF IInv
LEMMA PushNodeStep ==
  ASSUME IInv, NEW n \in Peer, PushNode(n)
  PROVE  IInv'
<1>1. PICK c \in Conn :
        /\ c \notin live /\ live' = live \cup {c}
        /\ conn' = [conn EXCEPT ![c] = NewConn(n, "AUTH", n)]
        /\ known' = known \cup {n}
        /\ node' = [node EXCEPT ![n] = [st |-> "AUTH", num |-> 0, ctx |-> c]]
  BY DEF PushNode, Free, NewNode
<1>2. /\ n \notin known /\ fails' = [fails EXCEPT ![n] = 0] /\ todo' = todo \ {n}
      /\ note' = None /\ UNCHANGED <<cron, pc, up>>
  BY DEF PushNode
<1>3. NewConn(n, "AUTH", n) \in ConnType
  BY Constants, States DEF NewConn, ConnType
<1>4. conn' \in [Conn -> ConnType] /\ conn'[c] = NewConn(n, "AUTH", n)
      /\ \A d \in Conn : d # c => conn'[d] = conn[d]
  BY <1>1, <1>3 DEF IInv, TypeOK, ConnType
<1>5. live' = (live \cup {c}) \ {NoConn}
  BY <1>1, Constants DEF IInv, TypeOK
<1>6. Dialled(n, c, NoConn, 0)
  BY <1>1, <1>2, <1>4, <1>5 DEF Dialled
<1>7. 0 \in 0..MaxRetry
  BY Constants
<1>. QED
  BY <1>1, <1>6, <1>7, DialledStep

LEMMA RedialStep ==
  ASSUME IInv, NEW n \in Node, Redial(n)
  PROVE  IInv'
<1>. DEFINE old == node[n].ctx
<1>1. /\ n \in known /\ n \in Peer /\ node[n].num < MaxRetry
      /\ fails' = [fails EXCEPT ![n] = 0] /\ todo' = todo \ {n}
      /\ note' = None /\ UNCHANGED <<known, cron, pc, up>>
  BY Constants DEF Redial, Visiting, NeedReconnect, IInv, Loops
<1>2. old \in live /\ old \in Conn /\ conn[old].cb = n
  BY <1>1, Constants DEF IInv, ConnsOwned, Named, Callbacks, TypeOK
<1>3. PICK c \in Conn :
        /\ c \notin live /\ live' = (live \cup {c}) \ {old}
        /\ conn' = [conn EXCEPT ![c] = NewConn(n, "AUTH", n), ![old] = Dead]
        /\ node' = [node EXCEPT ![n] = Redialled(node[n], c)]
  BY <1>2 DEF Redial, Free
<1>4. node[n] \in NodeType /\ node[n].st \in Failed
  BY DEF IInv, TypeOK, NodeType, Redial
<1>5. Redialled(node[n], c) = [st |-> "AUTH", num |-> node[n].num + 1, ctx |-> c]
  <2>1. PICK r \in NodeType : r = node[n]
    BY <1>4
  <2>2. [r EXCEPT !.num = r.num + 1] = [st |-> r.st, num |-> r.num + 1, ctx |-> r.ctx]
    BY DEF NodeType
  <2>3. r.st # "AUTH"
    BY <1>4, <2>1 DEF Failed
  <2>4. SetState([r EXCEPT !.num = r.num + 1], "AUTH")
          = [st |-> "AUTH", num |-> r.num + 1, ctx |-> r.ctx]
    BY <2>2, <2>3 DEF SetState
  <2>. QED
    BY <2>1, <2>4 DEF Redialled
<1>6. NewConn(n, "AUTH", n) \in ConnType /\ Dead \in ConnType
  BY <1>1, Constants, States DEF NewConn, Dead, ConnType
<1>7. /\ conn' \in [Conn -> ConnType] /\ conn'[c] = NewConn(n, "AUTH", n)
      /\ \A d \in Conn : d # c /\ d # old => conn'[d] = conn[d]
  BY <1>2, <1>3, <1>6 DEF IInv, TypeOK, ConnType
<1>8. node[n].num + 1 \in 0..MaxRetry
  BY <1>1, <1>4, Constants DEF NodeType
<1>9. known' = known \cup {n}
  BY <1>1
<1>10. node' = [node EXCEPT ![n] = [st |-> "AUTH", num |-> node[n].num + 1, ctx |-> c]]
  BY <1>3, <1>5
<1>11. Dialled(n, c, old, node[n].num + 1)
  BY <1>1, <1>3, <1>7, <1>9, <1>10 DEF Dialled
<1>. QED
  BY <1>1, <1>2, <1>3, <1>8, <1>11, DialledStep

(* A node and its connection change their states together.                 *)
LEMMA MarkedStep ==
  ASSUME IInv, NEW n \in known \ {Router}, NEW s \in {"ABLE"} \cup Failed,
         NEW t \in ConnState, s \in Failed <=> t \in Failed,
         conn[node[n].ctx].st \notin Failed,
         conn' = [conn EXCEPT ![node[n].ctx].st = t],
         node' = [node EXCEPT ![n] = SetState(@, s)],
         UNCHANGED <<known, live, fails, cron, todo, up, pc>>,
         note' = None \/ note' \in [arg : Peer, srv_id : Node \cup {None}]
  PROVE  IInv'
<1>. DEFINE c == node[n].ctx
<1>1. /\ known \subseteq Node /\ live \subseteq Conn /\ c \in live /\ conn[c].nid = n
      /\ node \in [Node -> NodeType] /\ conn \in [Conn -> ConnType]
  BY DEF IInv, TypeOK, ConnsOwned, Named, NodeType, ConnType
<1>2. node[n].st \in {"AUTH", "ABLE"} /\ fails[n] = 0
      /\ (node[n].st = "ABLE" => node[n].num = 0)
  BY DEF IInv, NodeFollowsConn, Down, Counted
<1>3. SetState(node[n], s) = [st |-> s, num |-> 0, ctx |-> c]
  <2>1. PICK r \in NodeType : r = node[n]
    BY <1>1
  <2>2. (IF r.st = "AUTH" THEN 0 ELSE r.num) = 0
    BY <1>2, <2>1
  <2>. QED
    BY <2>1, <2>2 DEF SetState
<1>4. /\ \A m \in Node : m # n => node'[m] = node[m]
      /\ node'[n].st = s /\ node'[n].num = 0 /\ node'[n].ctx = c
      /\ node' \in [Node -> NodeType]
  BY <1>1, <1>3, States, Constants DEF NodeType
<1>5. /\ \A d \in Conn : /\ d # c => conn'[d] = conn[d]
                         /\ conn'[d].nid = conn[d].nid /\ conn'[d].cb = conn[d].cb
      /\ conn'[c].st = t /\ conn' \in [Conn -> ConnType]
  BY <1>1 DEF ConnType
<1>6. \A m \in known : m # n => node[m].ctx # c /\ node[m].ctx \in live
  BY <1>1 DEF IInv, Named, ConnsOwned
<1>7. TypeOK'
  BY <1>4, <1>5 DEF IInv, TypeOK, NodeType, ConnType
<1>. HIDE DEF c
<1>8. ConnsOwned' /\ Named'
  <2>1. \A m \in Node : node'[m].ctx = node[m].ctx
    BY <1>1, <1>4 DEF c
  <2>. QED
    BY <2>1, <1>1, <1>5 DEF IInv, ConnsOwned, Named
<1>9. NodeFollowsConn'
  <2>1. \A m \in known \ {Router} : m # n => (node'[m].st \in Failed <=> Down(m)')
    BY <1>1, <1>4, <1>5, <1>6 DEF IInv, NodeFollowsConn, Down
  <2>2. node'[n].st \in Failed <=> Down(n)'
    BY <1>4, <1>5 DEF Down
  <2>. QED
    BY <2>1, <2>2 DEF NodeFollowsConn
<1>10. Callbacks' /\ RouterOK' /\ Loops'
  BY <1>1, <1>4, <1>5, Constants DEF IInv, Callbacks, RouterOK, Loops
<1>11. Counted'
  BY <1>1, <1>2, <1>4 DEF IInv, Counted, Failed
<1>. QED
  BY <1>7, <1>8, <1>9, <1>10, <1>11 DEF IInv

LEMMA AuthenticationRspStep ==
  ASSUME IInv, NEW n \in Peer, AuthenticationRsp(n)
  PROVE  IInv'
<1>1. /\ n \in known \ {Router} /\ conn[node[n].ctx].st \notin Failed
      /\ conn' = [conn EXCEPT ![node[n].ctx].st = "CONNECTED"]
      /\ node' = [node EXCEPT ![n] = SetState(@, "ABLE")]
      /\ UNCHANGED <<known, live, fails, cron, todo, up, pc>> /\ note' = None
  BY DEF AuthenticationRsp
<1>2. "CONNECTED" \in ConnState /\ "CONNECTED" \notin Failed /\ "ABLE" \notin Failed
  BY States
<1>. QED
  BY <1>1, <1>2, MarkedStep

(* The connection of a node tells it; the router's tells nobody.           *)
LEMMA ConnFailsStep ==
  ASSUME IInv, NEW c \in Conn, NEW s \in Failed, ConnFails(c, s)
  PROVE  IInv'
<1>. DEFINE n == conn[c].nid
<1>1. /\ c \in live /\ n \in known /\ node[n].ctx = c /\ conn[c].st \notin Failed
      /\ conn' = [conn EXCEPT ![c].st = s]
      /\ conn[c].cb = IF n = Router THEN None ELSE n
      /\ UNCHANGED <<known, live, cron, pc, todo, up, fails>>
  BY DEF ConnFails, IInv, ConnsOwned, Callbacks
<1>2. known \subseteq Node
  BY DEF IInv, TypeOK
<1>3. CASE n # Router
  <2>1. n \in Peer /\ n # None /\ conn[c].cb = n
    BY <1>1, <1>2, <1>3, Constants
  <2>2. node' = [node EXCEPT ![n] = SetState(@, s)] /\ note' = [arg |-> n, srv_id |-> None]
    BY <2>1 DEF ConnFails
  <2>3. n \in known \ {Router} /\ s \in ConnState
    BY <1>1, <1>3, States
  <2>. HIDE DEF n
  <2>. QED
    BY <1>1, <2>1, <2>2, <2>3, MarkedStep
<1>4. CASE n = Router
  <2>1. node' = node /\ note' = None
    BY <1>1, <1>4 DEF ConnFails
  <2>2. /\ conn' \in [Conn -> ConnType] /\ conn'[c].st = s
        /\ \A d \in Conn : /\ d # c => conn'[d] = conn[d]
                           /\ conn'[d].nid = conn[d].nid /\ conn'[d].cb = conn[d].cb
    BY <1>1, States DEF IInv, TypeOK, ConnType
  <2>3. TypeOK' /\ Loops' /\ RouterOK' /\ Counted'
    BY <1>1, <2>1, <2>2 DEF IInv, TypeOK, ConnType, Loops, RouterOK, Counted
  <2>4. /\ live \subseteq Conn /\ \A m \in known : node[m].ctx \in live
        /\ \A m \in known \ {Router} : node[m].ctx # c
    BY <1>1, <1>4 DEF IInv, TypeOK, ConnsOwned, Named
  <2>5. ConnsOwned' /\ Named' /\ Callbacks'
    BY <1>1, <2>1, <2>2, <2>4 DEF IInv, ConnsOwned, Named, Callbacks
  <2>6. NodeFollowsConn'
    BY <1>1, <2>1, <2>2, <2>4 DEF IInv, NodeFollowsConn, Down
  <2>. QED
    BY <2>3, <2>5, <2>6 DEF IInv
<1>. QED
  BY <1>3, <1>4

(* registReq: there is no router's node yet.                               *)
LEMMA RegisterStep ==
  ASSUME IInv, Register
  PROVE  IInv'
<1>1. /\ pc' = "idle" /\ note' = None /\ UNCHANGED <<cron, todo, up, fails>>
      /\ Router \notin known
  BY DEF Register, IInv, RouterOK
<1>2. CASE Router \notin up
  <2>1. UNCHANGED <<live, conn, known, node>>
    BY <1>2 DEF Register
  <2>2. TypeOK' /\ Loops'
    BY <1>1, <2>1 DEF IInv, TypeOK, Loops
  <2>. QED
    BY <1>1, <2>1, <2>2, QuietStep
<1>3. CASE Router \in up
  <2>1. PICK c \in Conn :
          /\ c \notin live /\ live' = live \cup {c}
          /\ conn' = [conn EXCEPT ![c] = NewConn(Router, "CONNECTED", None)]
          /\ known' = known \cup {Router}
          /\ node' = [node EXCEPT ![Router] = NewNode(c, "ABLE")]
    BY <1>3 DEF Register, Free
  <2>2. NewConn(Router, "CONNECTED", None) \in ConnType /\ NewNode(c, "ABLE") \in NodeType
    BY Constants, States DEF NewConn, NewNode, ConnType, NodeType
  <2>3. /\ conn' \in [Conn -> ConnType] /\ node' \in [Node -> NodeType]
        /\ \A d \in live : conn'[d] = conn[d]
        /\ conn'[c] = NewConn(Router, "CONNECTED", None)
        /\ \A m \in Node : m # Router => node'[m] = node[m]
        /\ node'[Router] = NewNode(c, "ABLE")
    BY <2>1, <2>2, Constants DEF IInv, TypeOK, ConnType, NodeType
  <2>4. /\ conn'[c].nid = Router /\ conn'[c].st = "CONNECTED" /\ conn'[c].cb = None
        /\ node'[Router].ctx = c /\ node'[Router].st = "ABLE"
    BY <2>3 DEF NewConn, NewNode
  <2>5. TypeOK' /\ Loops'
    BY <1>1, <2>1, <2>3, Constants DEF IInv, TypeOK, ConnType, NodeType, Loops
  <2>6. known \subseteq Node /\ live \subseteq Conn
    BY DEF IInv, TypeOK
  <2>7. \A m \in known : node'[m] = node[m] /\ node[m].ctx \in live
                          /\ conn'[node[m].ctx] = conn[node[m].ctx]
    BY <1>1, <2>3, <2>6 DEF IInv, ConnsOwned
  <2>8. ConnsOwned'
    <3>1. \A m \in known' : node'[m].ctx \in live'
      BY <2>1, <2>4, <2>7
    <3>2. \A d \in live : /\ conn'[d].nid \in known'
                          /\ node'[conn'[d].nid].ctx = d
      BY <2>1, <2>3, <2>6, <2>7 DEF IInv, ConnsOwned
    <3>3. \A d \in live' : conn'[d].nid \in known' /\ node'[conn'[d].nid].ctx = d
      BY <2>1, <2>4, <3>2
    <3>. QED
      BY <3>1, <3>3 DEF ConnsOwned
  <2>9. Named' /\ Callbacks'
    BY <2>1, <2>3, <2>4, <2>7 DEF IInv, Named, Callbacks
  <2>10. NodeFollowsConn' /\ Counted'
    BY <1>1, <2>1, <2>7 DEF IInv, NodeFollowsConn, Down, Counted
  <2>11. RouterOK'
    BY <1>1, <2>4 DEF RouterOK
  <2>. QED
    BY <2>5, <2>8, <2>9, <2>10, <2>11 DEF IInv
<1>. QED
  BY <1>2, <1>3

LEMMA RedialFailsStep ==
  ASSUME IInv, NEW n \in Node, RedialFails(n)
  PROVE  IInv'
<1>1. /\ n \in known /\ n # Router /\ node[n].st \in Failed
      /\ node[n].num < MaxRetry /\ node[n].num = fails[n]
      /\ node' = [node EXCEPT ![n].num = @ + 1] /\ fails' = [fails EXCEPT ![n] = @ + 1]
      /\ todo' = todo \ {n} /\ note' = None
      /\ UNCHANGED <<known, live, conn, cron, pc, up>>
  BY DEF RedialFails, Visiting, NeedReconnect, IInv, Loops, Counted
<1>2. known \subseteq Node /\ node \in [Node -> NodeType] /\ fails \in [Node -> 0..MaxRetry]
  BY DEF IInv, TypeOK, NodeType
<1>3. /\ node' \in [Node -> NodeType] /\ fails' \in [Node -> 0..MaxRetry]
      /\ \A m \in Node : /\ node'[m].st = node[m].st /\ node'[m].ctx = node[m].ctx
                         /\ m # n => node'[m] = node[m] /\ fails'[m] = fails[m]
      /\ node'[n].num = node[n].num + 1 /\ fails'[n] = fails[n] + 1
  BY <1>1, <1>2, Constants DEF NodeType
<1>4. TypeOK' /\ Loops'
  BY <1>1, <1>3 DEF IInv, TypeOK, NodeType, Loops
<1>5. ConnsOwned' /\ Named' /\ Callbacks'
  BY <1>1, <1>2, <1>3 DEF IInv, ConnsOwned, Named, Callbacks
<1>6. NodeFollowsConn'
  BY <1>1, <1>2, <1>3 DEF IInv, NodeFollowsConn, Down
<1>7. RouterOK'
  BY <1>1, <1>3, Constants DEF IInv, RouterOK
<1>8. Counted'
  BY <1>1, <1>2, <1>3, States DEF IInv, Counted, Failed
<1>. QED
  BY <1>4, <1>5, <1>6, <1>7, <1>8 DEF IInv

(* Only a peer is forgotten: the router's node is never marked failed.     *)
LEMMA ForgetStep ==
  ASSUME IInv, NEW n \in Node, Forget(n)
  PROVE  IInv'
<1>. DEFINE old == node[n].ctx
<1>1. n \in known /\ n # Router /\ node[n].st \in Failed
  BY States DEF Forget, Visiting, IInv, Loops, RouterOK
<1>2. /\ known' = known \ {n} /\ live' = live \ {old}
      /\ conn' = [conn EXCEPT ![old] = Dead] /\ node' = [node EXCEPT ![n] = NoNode]
      /\ todo' = todo \ {n} /\ note' = None /\ UNCHANGED <<pc, cron, up, fails>>
  BY <1>1 DEF Forget
<1>3. /\ known \subseteq Node /\ live \subseteq Conn /\ old \in live /\ conn[old].nid = n
      /\ node \in [Node -> NodeType] /\ conn \in [Conn -> ConnType]
  BY <1>1 DEF IInv, TypeOK, ConnsOwned, Named, NodeType, ConnType
<1>4. NoNode \in NodeType /\ Dead \in ConnType
  BY Constants, States DEF NoNode, NewNode, Dead, NewConn, NodeType, ConnType, Failed
<1>5. /\ node' \in [Node -> NodeType] /\ conn' \in [Conn -> ConnType]
      /\ \A m \in Node : m # n => node'[m] = node[m]
      /\ \A d \in Conn : d # old => conn'[d] = conn[d]
  BY <1>2, <1>3, <1>4
<1>6. TypeOK' /\ Loops'
  BY <1>2, <1>5, Constants DEF IInv, TypeOK, NodeType, ConnType, Loops
<1>7. \A m \in known' : /\ m # n /\ m \in known /\ node'[m] = node[m]
                        /\ node[m].ctx \in live' /\ node[m].ctx # old
                        /\ conn'[node[m].ctx] = conn[node[m].ctx]
  BY <1>2, <1>3, <1>5 DEF IInv, ConnsOwned, Named
<1>8. \A d \in live' : /\ d \in live /\ conn'[d] = conn[d]
                       /\ conn[d].nid \in known' /\ node'[conn[d].nid].ctx = d
  <2>1. \A d \in live : d # old => conn[d].nid # n
    BY DEF IInv, ConnsOwned
  <2>. QED
    BY <1>2, <1>3, <1>5, <2>1 DEF IInv, ConnsOwned
<1>9. ConnsOwned' /\ Named' /\ Callbacks'
  BY <1>7, <1>8 DEF IInv, ConnsOwned, Named, Callbacks
<1>10. NodeFollowsConn' /\ Counted'
  BY <1>2, <1>7 DEF IInv, NodeFollowsConn, Down, Counted
<1>11. RouterOK'
  BY <1>1, <1>2, <1>5, Constants DEF IInv, RouterOK
<1>. QED
  BY <1>6, <1>9, <1>10, <1>11 DEF IInv

LEMMA NextInv == IInv /\ [Next]_vars => IInv'
<1>. SUFFICES ASSUME IInv, [Next]_vars PROVE IInv'
  OBVIOUS
<1>1. CASE UNCHANGED vars
  BY <1>1, QuietStep DEF vars, IInv, TypeOK, Loops
<1>2. ASSUME NEW n \in Node, Toggle(n) PROVE IInv'
  BY <1>2, QuietStep DEF Toggle, IInv, TypeOK, Loops
<1>3. CASE RegistRsp
  BY <1>3, QuietStep DEF RegistRsp, IInv, TypeOK, Loops
<1>4. ASSUME NEW S \in SUBSET Peer, Push(S) PROVE IInv'
  BY <1>4, QuietStep, Constants DEF Push, RouterSpeaks, IInv, TypeOK, Loops
<1>5. CASE PushEnds
  BY <1>5, QuietStep DEF PushEnds, IInv, TypeOK, Loops
<1>6. ASSUME NEW n \in Peer, PushKnown(n) PROVE IInv'
  BY <1>6, QuietStep DEF PushKnown, IInv, TypeOK, Loops
<1>7. CASE Tick
  BY <1>7, QuietStep DEF Tick, IInv, TypeOK, Loops
<1>8. CASE CheckEnds
  BY <1>8, QuietStep DEF CheckEnds, IInv, TypeOK, Loops
<1>9. ASSUME NEW n \in Node, VisitHealthy(n) PROVE IInv'
  BY <1>9, QuietStep DEF VisitHealthy, IInv, TypeOK, Loops
<1>. QED
  BY <1>1, <1>2, <1>3, <1>4, <1>5, <1>6, <1>7, <1>8, <1>9, RegisterStep, PushNodeStep,
     AuthenticationRspStep, ConnFailsStep, RedialStep, RedialFailsStep, ForgetStep
  DEF Next, PushStep, CheckStep

-----------------------------------------------------------------------------
(* What a step may do                                                      *)

GivenUpStep == \A n \in known : n \notin known' => fails[n] = MaxRetry

LEMMA NextGivenUp == IInv /\ [Next]_vars => GivenUpStep
<1>. SUFFICES ASSUME IInv, [Next]_vars PROVE GivenUpStep
  OBVIOUS
<1>1. ASSUME NEW n \in Node, Forget(n) PROVE GivenUpStep
  <2>1. known' = known \ {n}
    BY <1>1 DEF Forget
  <2>2. n \in known \ {Router} /\ node[n].st \in Failed
    BY <1>1, States DEF Forget, Visiting, IInv, Loops, RouterOK
  <2>3. node[n].num = fails[n] /\ ~(node[n].num < MaxRetry)
    BY <1>1, <2>2 DEF Forget, NeedReconnect, IInv, Counted
  <2>4. fails[n] \in 0..MaxRetry
    BY DEF IInv, TypeOK
  <2>. QED
    BY <2>1, <2>3, <2>4, Constants DEF GivenUpStep
<1>2. CASE \A n \in Node : ~Forget(n)
  <2>1. known \subseteq known'
    BY <1>2 DEF vars, Next, Toggle, Register, RegistRsp, Push, PushStep, PushEnds, PushNode,
         PushKnown, AuthenticationRsp, ConnFails, Tick, CheckStep, CheckEnds, VisitHealthy,
         Redial, RedialFails
  <2>. QED
    BY <2>1 DEF GivenUpStep
<1>. QED
  BY <1>1, <1>2

ToldStep ==
  \A n \in Peer :
    (note' # None /\ note'.arg = n) <=> (n \in known \cap known' /\ ~Down(n) /\ Down(n)')

(* As connections and nodes fail together, the nodes tell which failed.    *)
LEMMA ToldByNodes ==
  ASSUME IInv, IInv', NEW told \in SUBSET Peer,
         \A n \in Peer : (note' # None /\ note'.arg = n) <=> n \in told,
         \A n \in Peer \cap known \cap known' :
           (node[n].st \notin Failed /\ node'[n].st \in Failed) <=> n \in told,
         told \subseteq known \cap known'
  PROVE  ToldStep
<1>1. \A n \in Peer \cap known \cap known' :
        (node[n].st \in Failed <=> Down(n)) /\ (node'[n].st \in Failed <=> Down(n)')
  BY Constants DEF IInv, NodeFollowsConn
<1>. QED
  BY <1>1 DEF ToldStep

LEMMA SilentStep ==
  ASSUME IInv, IInv', note' = None,
         \A n \in Peer \cap known \cap known' :
           node'[n].st \in Failed => node[n].st \in Failed
  PROVE  ToldStep
<1>1. {} \in SUBSET Peer /\ {} \subseteq known \cap known'
  OBVIOUS
<1>2. \A n \in Peer : (note' # None /\ note'.arg = n) <=> n \in {}
  OBVIOUS
<1>3. \A n \in Peer \cap known \cap known' :
        (node[n].st \notin Failed /\ node'[n].st \in Failed) <=> n \in {}
  OBVIOUS
<1>. QED
  BY <1>1, <1>2, <1>3, ToldByNodes

LEMMA NextTold == IInv /\ IInv' /\ Next => ToldStep
<1>. SUFFICES ASSUME IInv, IInv', Next PROVE ToldStep
  OBVIOUS
<1>0. /\ known \subseteq Node /\ node \in [Node -> NodeType]
      /\ \A n \in Peer : n \in Node
  BY Constants DEF IInv, TypeOK, NodeType
<1>1. ASSUME NEW c \in Conn, NEW s \in Failed, ConnFails(c, s) PROVE ToldStep
  <2>. DEFINE m == conn[c].nid
  <2>1. /\ m \in known /\ node[m].ctx = c /\ conn[c].st \notin Failed /\ known' = known
        /\ conn[c].cb = IF m = Router THEN None ELSE m
    BY <1>1 DEF ConnFails, IInv, ConnsOwned, Callbacks
  <2>2. CASE m = Router
    <3>1. note' = None /\ node' = node
      BY <1>1, <2>1, <2>2 DEF ConnFails
    <3>. QED
      BY <3>1, SilentStep
  <2>3. CASE m # Router
    <3>1. m \in Peer /\ m # None
      BY <1>0, <2>1, <2>3, Constants
    <3>2. node' = [node EXCEPT ![m] = SetState(@, s)] /\ note' = [arg |-> m, srv_id |-> None]
      BY <1>1, <2>1, <2>3, <3>1 DEF ConnFails
    <3>3. \A n \in Node : node'[n].st = IF n = m THEN s ELSE node[n].st
      BY <1>0, <2>1, <3>2 DEF SetState
    <3>4. node[m].st \notin Failed
      BY <2>1, <2>3 DEF IInv, NodeFollowsConn, Down
    <3>5. note' # None /\ note'.arg = m
      BY <3>1, <3>2, NoneIsNoNote
    <3>6. \A n \in Peer : (note' # None /\ note'.arg = n) <=> n \in {m}
      BY <3>5
    <3>7. \A n \in Peer \cap known \cap known' :
            (node[n].st \notin Failed /\ node'[n].st \in Failed) <=> n \in {m}
      BY <1>0, <3>3, <3>4
    <3>8. {m} \subseteq known \cap known' /\ {m} \in SUBSET Peer
      BY <2>1, <3>1
    <3>. HIDE DEF m
    <3>. QED
      BY <3>6, <3>7, <3>8, ToldByNodes
  <2>. QED
    BY <2>2, <2>3
<1>2. CASE Register
  <2>1. note' = None /\ \A n \in Peer : node'[n] = node[n]
    BY <1>0, <1>2, Constants DEF Register
  <2>. QED
    BY <2>1, SilentStep
<1>3. ASSUME NEW n \in Peer, PushNode(n) PROVE ToldStep
  <2>1. note' = None /\ \A m \in Node : m # n => node'[m] = node[m]
    BY <1>0, <1>3 DEF PushNode
  <2>2. n \notin known
    BY <1>3 DEF PushNode
  <2>. QED
    BY <1>0, <2>1, <2>2, SilentStep
<1>4. ASSUME NEW n \in Peer, AuthenticationRsp(n) PROVE ToldStep
  <2>1. note' = None /\ \A m \in Node : m # n => node'[m] = node[m]
    BY <1>0, <1>4 DEF AuthenticationRsp
  <2>2. node'[n].st = "ABLE"
    BY <1>0, <1>4 DEF AuthenticationRsp, SetState
  <2>. QED
    BY <1>0, <2>1, <2>2, States, SilentStep
<1>5. ASSUME NEW n \in Node, Redial(n) \/ RedialFails(n) \/ Forget(n) PROVE ToldStep
  <2>1. note' = None /\ \A m \in Node : m # n => node'[m] = node[m]
    BY <1>0, <1>5 DEF Redial, RedialFails, Forget
  <2>2. node[n].st \in Failed
    BY <1>5 DEF Redial, RedialFails, Forget
  <2>. QED
    BY <1>0, <2>1, <2>2, SilentStep
<1>6. CASE note' = None /\ node' = node
  BY <1>6, SilentStep
<1>. QED
  BY <1>1, <1>2, <1>3, <1>4, <1>5, <1>6
  DEF Next, Toggle, RegistRsp, Push, PushStep, PushEnds, PushKnown, Tick,
      CheckStep, CheckEnds, VisitHealthy

-----------------------------------------------------------------------------
(* Theorems                                                                *)

(* The inductive invariant of the registry: nodes, their connections and   *)
(* the callbacks that tie them together (ServiceNode.cpp, Node.cpp).       *)
THEOREM Invariance == Spec => []IInv
BY InitInv, NextInv, PTL DEF Spec

(* Types; the count of failed connects stays below its limit (Node.cpp).   *)
THEOREM TypeCorrect == Spec => []TypeOK
<1>1. IInv => TypeOK
  BY DEF IInv
<1>. QED
  BY <1>1, Invariance, PTL

(* A peer's Node is marked failed exactly when its Connection has failed,  *)
(* so that checkState, which looks at the Node only, sees every failure    *)
(* and no other (RouterNode::notifyNodeState, ServiceNode::checkState).    *)
THEOREM NodesFollowConnections == Spec => []NodeFollowsConn
<1>1. IInv => NodeFollowsConn
  BY DEF IInv
<1>. QED
  BY <1>1, Invariance, PTL

(* Connection::setState never calls back into a deleted Node.              *)
THEOREM CallbacksAlive == Spec => []CallbackAlive
<1>1. IInv => CallbackAlive
  BY DEF IInv, Callbacks, ConnsOwned, CallbackAlive
<1>. QED
  BY <1>1, Invariance, PTL

(* Through pushes, re-dials and forgetting, no connection is leaked or      *)
(* shared by two nodes.                                                    *)
THEOREM ConnectionsOwned == Spec => []ConnsOwned
<1>1. IInv => ConnsOwned
  BY DEF IInv
<1>. QED
  BY <1>1, Invariance, PTL

(* Node::needReconnect gives a node up only after MaxRetry connects in a   *)
(* row have failed.                                                        *)
THEOREM GivenUpAfterRetries == Spec => GivenUpOnlyAfterRetries
<1>1. IInv /\ [Next]_vars => [GivenUpStep]_vars
  BY NextGivenUp
<1>2. Spec => [][GivenUpStep]_vars
  BY <1>1, Invariance, PTL DEF Spec
<1>. QED
  BY <1>2 DEF GivenUpOnlyAfterRetries, GivenUpStep

(* notifyNodeState is called for each failure of a node's connection, once, *)
(* in the step that detects it.                                            *)
THEOREM FailuresAreTold == Spec => ToldOfFailures
<1>1. IInv /\ IInv' /\ [Next]_vars => [ToldStep]_vars
  BY NextTold
<1>2. Spec => [][ToldStep]_vars
  BY <1>1, Invariance, PTL DEF Spec
<1>. QED
  BY <1>2 DEF ToldOfFailures, ToldStep
=============================================================================
