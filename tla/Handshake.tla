----------------------------- MODULE Handshake ------------------------------
(***************************************************************************)
(* How two nodes get to know each other: the node that dials sends an      *)
(* authentication request as soon as it is connected, the acceptor labels  *)
(* its side with the id it finds there and answers, and from then on both  *)
(* sides pick a connection by that label (NetManager::sendNode) and pass   *)
(* it to their handlers with each message (TcpServer::handler).            *)
(*                                                                         *)
(* Each process is taken with its event thread's handlers as steps; how a  *)
(* message gets from the queue to the socket is SendPath's subject.        *)
(***************************************************************************)
EXTENDS Naturals, Sequences, SequencesExt

CONSTANTS
  Node,     \* the processes, by their node ids
  Dials,    \* pairs <<a, b>>: a is told of b by the router
  MaxLink,  \* bound: TCP connections at a time; identities are reused
  MaxAsk,   \* bound: messages that diallers' applications send
  MaxCut,   \* bound: connections that break
  None      \* model value: no label (nid 0), no link

ASSUME HandshakeAssumption ==
  /\ Dials \subseteq {p \in Node \X Node : p[1] # p[2]}
  /\ MaxLink \in Nat /\ None \notin Node \cup 1..MaxLink

VARIABLES
  link,   \* the TCP connections: see NewLink
  m_conns,\* per process, its connections in the order of NetManager's list
  state,  \* per process and node: Node::m_state
  ctx,    \* per process and node: Node::m_context
  asks,   \* messages sent
  cuts,   \* connections broken
  got     \* history: messages handed to handlers, [m, at, label, auth]

vars == <<link, m_conns, state, ctx, asks, cuts, got>>

Link == 1..MaxLink

(* What can be on a connection: an authentication request and its answer   *)
(* (both name one node), and the applications' requests and replies.       *)
Req(n) == [t |-> "req", nid |-> n]
Rsp(n) == [t |-> "rsp", nid |-> n]
Ask(a, b) == [t |-> "ask", by |-> a, to |-> b]
Reply(a) == [t |-> "reply", to |-> a]

(* Both ends of a connection and what is between them: dst and ast are the *)
(* states of the Connection at the dialler and at the acceptor, label the  *)
(* acceptor's nid (the dialler's is the node it dialled), q the dialler's   *)
(* out_buffer, up and down what has been sent either way.                  *)
NewLink(a, b, queue, sent) ==
  [from |-> a, to |-> b, dst |-> "AUTH", ast |-> "BACKLOG", label |-> None,
   q |-> queue, up |-> sent, down |-> <<>>, cut |-> FALSE]

NoLink == [NewLink(None, None, <<>>, <<>>) EXCEPT !.dst = "GONE", !.ast = "GONE"]

Unused(l) == link[l].dst = "GONE" /\ link[l].ast = "GONE"
Fresh(l) == Unused(l) /\ \A k \in 1..(l - 1) : ~Unused(k)

Init ==
  /\ link = [l \in Link |-> NoLink]
  /\ m_conns = [a \in Node |-> <<>>]
  /\ state = [a \in Node |-> [b \in Node |-> "UNABLE"]]
  /\ ctx = [a \in Node |-> [b \in Node |-> None]]
  /\ asks = 0 /\ cuts = 0 /\ got = {}

(* conn->nid at process a.                                                 *)
Label(a, l) == IF link[l].from = a THEN link[l].to ELSE link[l].label

(* The places in m_conns of what sendNode(msg, n) may use.                 *)
Labelled(a, n) == {i \in 1..Len(m_conns[a]) : Label(a, m_conns[a][i]) = n}

(* sendNode walks m_conns and takes the first, if there is one.            *)
Pick(a, n) ==
  {m_conns[a][i] : i \in {k \in Labelled(a, n) : \A j \in Labelled(a, n) : k <= j}}

(* Where a connection is in m_conns, to take it out.                       *)
Places(a, l) == {i \in 1..Len(m_conns[a]) : m_conns[a][i] = l}

(* Connection::push at process a; what an acceptor has to send is at once   *)
(* on its way.                                                             *)
Push(ls, a, l, m) ==
  IF ls[l].from = a THEN [ls EXCEPT ![l].q = Append(@, m)]
  ELSE IF ls[l].cut THEN ls
  ELSE [ls EXCEPT ![l].down = Append(@, m)]

-----------------------------------------------------------------------------
(* The dialler                                                             *)

(* srvinfoBroadcast: connect, add the node, authenticate.                  *)
Dial(a, b) ==
  /\ <<a, b>> \in Dials /\ state[a][b] = "UNABLE"
  /\ \E l \in Link :
       /\ Fresh(l)
       /\ link' = [link EXCEPT ![l] = NewLink(a, b, <<>>, <<Req(b)>>)]
       /\ m_conns' = [m_conns EXCEPT ![a] = Append(@, l)]
       /\ ctx' = [ctx EXCEPT ![a][b] = l]
  /\ state' = [state EXCEPT ![a][b] = "AUTH"]
  /\ UNCHANGED <<asks, cuts, got>>

(* Wrong version: the request goes through the queue, behind what the old   *)
(* connection left.                                                        *)
RedialedQueued(a, b, old) ==
  NewLink(a, b, Append(link[old].q, Req(b)), <<>>)

(* What the new connection has: the old one's out_buffer (setCache), and    *)
(* on its way already the request, which sendBlock wrote to the socket.     *)
Redialed(a, b, old) == NewLink(a, b, link[old].q, <<Req(b)>>)

(* checkState: the connection failed.                                      *)
Redial(a, b) ==
  LET old == ctx[a][b] IN
  /\ state[a][b] = "FAILED"
  /\ \E l \in Link :
       /\ Fresh(l)
       /\ link' = [link EXCEPT ![l] = Redialed(a, b, old), ![old].dst = "GONE"]
       /\ \E i \in Places(a, old) :
            m_conns' = [m_conns EXCEPT ![a] = Append(RemoveAt(@, i), l)]
       /\ ctx' = [ctx EXCEPT ![a][b] = l]
  /\ state' = [state EXCEPT ![a][b] = "AUTH"]
  /\ UNCHANGED <<asks, cuts, got>>

(* AuthenticationRsp finds the node by the id in the answer.               *)
AuthenticationRsp(l) ==
  LET a == link[l].from
      m == Head(link[l].down)
  IN
  /\ link[l].dst \in {"AUTH", "CONNECTED"} /\ link[l].down # <<>> /\ m.t = "rsp"
  /\ link' = [link EXCEPT ![l].down = Tail(@), ![l].dst = "CONNECTED"]
  /\ state' = [state EXCEPT ![a][m.nid] = "ABLE"]
  /\ UNCHANGED <<m_conns, ctx, asks, cuts, got>>

(* Reading fails: the Connection stays, and notifyNodeState marks the node. *)
DiallerFails(l) ==
  /\ link[l].cut /\ link[l].dst \in {"AUTH", "CONNECTED"}
  /\ link' = [link EXCEPT ![l].dst = "FAILED"]
  /\ state' = [state EXCEPT ![link[l].from][link[l].to] = "FAILED"]
  /\ UNCHANGED <<m_conns, ctx, asks, cuts, got>>

(* An application sends to node b: sendNode queues it, on a connection in   *)
(* whatever state.                                                         *)
Sends(a, b) ==
  /\ asks < MaxAsk /\ ctx[a][b] # None
  /\ asks' = asks + 1
  /\ \E l \in Pick(a, b) : link' = Push(link, a, l, Ask(a, b))
  /\ UNCHANGED <<m_conns, state, ctx, cuts, got>>

(* The event thread writes.                                                *)
Flush(l) ==
  /\ link[l].dst \in {"AUTH", "CONNECTED"} /\ link[l].q # <<>>
  /\ link' = [link EXCEPT ![l].q = Tail(@),
                          ![l].up = IF link[l].cut THEN @ ELSE Append(@, Head(link[l].q))]
  /\ UNCHANGED <<m_conns, state, ctx, asks, cuts, got>>

-----------------------------------------------------------------------------
(* The acceptor                                                            *)

(* NetServer::accept: a connection in STATE_AUTH, without a label.         *)
Accept(l) ==
  /\ link[l].ast = "BACKLOG"
  /\ link' = [link EXCEPT ![l].ast = "AUTH"]
  /\ m_conns' = [m_conns EXCEPT ![link[l].to] = Append(@, l)]
  /\ UNCHANGED <<state, ctx, asks, cuts, got>>

Readable(l) == link[l].ast \in {"AUTH", "CONNECTED"} /\ link[l].up # <<>>

(* Wrong version: no answer when the connection has an answer already or   *)
(* belongs to a node that is known.                                        *)
AuthenticationReqOnce(l) ==
  LET m == Head(link[l].up)
      known == \E i \in 1..Len(m_conns[link[l].to]) :
                 link[m_conns[link[l].to][i]].label = m.nid
  IN
  /\ Readable(l) /\ m.t = "req"
  /\ link' = [link EXCEPT ![l].up = Tail(@),
                          ![l].label = m.nid, ![l].ast = "CONNECTED",
                          ![l].down = IF link[l].cut \/ known THEN @ ELSE Append(@, Rsp(m.nid))]
  /\ UNCHANGED <<m_conns, state, ctx, asks, cuts, got>>

(* The label is the id in the request, and so is the id in the answer.     *)
AuthenticationReq(l) ==
  LET m == Head(link[l].up) IN
  /\ Readable(l) /\ m.t = "req"
  /\ link' = [link EXCEPT ![l].up = Tail(@),
                          ![l].label = m.nid, ![l].ast = "CONNECTED",
                          ![l].down = IF link[l].cut THEN @ ELSE Append(@, Rsp(m.nid))]
  /\ UNCHANGED <<m_conns, state, ctx, asks, cuts, got>>

(* The peer is gone: a connection that was accepted is closed at once.     *)
AcceptorFails(l) ==
  /\ link[l].cut /\ link[l].ast \in {"AUTH", "CONNECTED"}
  /\ link' = [link EXCEPT ![l].ast = "GONE"]
  /\ \E i \in Places(link[l].to, l) :
       m_conns' = [m_conns EXCEPT ![link[l].to] = RemoveAt(@, i)]
  /\ UNCHANGED <<state, ctx, asks, cuts, got>>

(* What an application sent: the handler gets it with the label of its     *)
(* connection, and replies to a request by sending to the node of that     *)
(* label.                                                                  *)
Handles(l) ==
  LET b == link[l].to
      m == Head(link[l].up)
      ks == Pick(b, link[l].label)
      read == [link EXCEPT ![l].up = Tail(@)]
  IN
  /\ Readable(l) /\ m.t \in {"ask", "reply"}
  /\ got' = got \cup {[m |-> m, at |-> b, label |-> link[l].label,
                       auth |-> link[l].ast = "CONNECTED"]}
  /\ IF m.t = "reply" \/ ks = {} THEN link' = read
     ELSE \E k \in ks : link' = Push(read, b, k, Reply(m.by))
  /\ UNCHANGED <<m_conns, state, ctx, asks, cuts>>

(* The same at the dialler's end, where only replies arrive.               *)
GetsReply(l) ==
  /\ link[l].dst \in {"AUTH", "CONNECTED"} /\ link[l].down # <<>>
  /\ Head(link[l].down).t = "reply"
  /\ got' = got \cup {[m |-> Head(link[l].down), at |-> link[l].from,
                       label |-> link[l].to, auth |-> TRUE]}
  /\ link' = [link EXCEPT ![l].down = Tail(@)]
  /\ UNCHANGED <<m_conns, state, ctx, asks, cuts>>

-----------------------------------------------------------------------------

(* The network breaks a connection: what was on its way is lost.           *)
Cut(l) ==
  /\ cuts < MaxCut /\ ~link[l].cut /\ ~Unused(l)
  /\ cuts' = cuts + 1
  /\ link' = [link EXCEPT ![l].cut = TRUE, ![l].up = <<>>, ![l].down = <<>>]
  /\ UNCHANGED <<m_conns, state, ctx, asks, got>>

Step(l) ==
  \/ AuthenticationRsp(l) \/ DiallerFails(l) \/ Accept(l)
  \/ AuthenticationReq(l) \/ AcceptorFails(l) \/ Handles(l) \/ GetsReply(l)

Next ==
  \/ \E a, b \in Node : Dial(a, b) \/ Redial(a, b) \/ Sends(a, b)
  \/ \E l \in Link : Step(l) \/ Flush(l) \/ Cut(l)

(* Each process serves its sockets, is pushed its nodes and runs its timer. *)
Fairness ==
  /\ \A a, b \in Node : WF_vars(Dial(a, b)) /\ WF_vars(Redial(a, b))
  /\ \A l \in Link : WF_vars(Step(l))

Spec == Init /\ [][Next]_vars /\ Fairness

-----------------------------------------------------------------------------
(* Properties                                                              *)

Msgs == {Req(n) : n \in Node} \cup {Rsp(n) : n \in Node}
        \cup {Ask(a, b) : a, b \in Node} \cup {Reply(n) : n \in Node}

LinkType ==
  [from : Node \cup {None}, to : Node \cup {None}, label : Node \cup {None},
   dst : {"AUTH", "CONNECTED", "FAILED", "GONE"},
   ast : {"BACKLOG", "AUTH", "CONNECTED", "GONE"},
   q : Seq(Msgs), up : Seq(Msgs), down : Seq(Msgs), cut : BOOLEAN]

(* Types; and m_conns and the links agree on which ends are there.         *)
TypeOK ==
  /\ link \in [Link -> LinkType]
  /\ m_conns \in [Node -> Seq(Link)]
  /\ state \in [Node -> [Node -> {"UNABLE", "AUTH", "ABLE", "FAILED"}]]
  /\ ctx \in [Node -> [Node -> Link \cup {None}]]
  /\ \A a \in Node : ToSet(m_conns[a]) =
       {l \in Link : \/ link[l].from = a /\ link[l].dst # "GONE"
                     \/ link[l].to = a /\ link[l].ast \in {"AUTH", "CONNECTED"}}

(* A node that is taken for able has answered on the connection it has     *)
(* now, not on one that failed since, and labelled its end of it.          *)
AbleWasAnswered ==
  \A a, b \in Node : state[a][b] = "ABLE" =>
    LET l == link[ctx[a][b]] IN
    /\ l.dst = "CONNECTED" /\ l.ast \in {"CONNECTED", "GONE"} /\ l.label = b

(* The acceptor does not ask whether a connection was authenticated before *)
(* it handles what comes in; that it was is up to the order in which the   *)
(* dialler sends, also when it takes over a queue from a failed connection. *)
AuthenticatedFirst == \A g \in got : g.auth

(* Requests reach the node they are for and replies the node that asked,   *)
(* although connections are chosen by a label, broken ones still are in    *)
(* the list, and an acceptor's label is its own id.  (One dialler for each *)
(* acceptor: two would get each other's replies.)                          *)
OneDialler == \A p, q \in Dials : p[2] = q[2] => p = q
ReachesItsNode == OneDialler => \A g \in got : g.at = g.m.to

(* What the runs check of the above, in one.                               *)
LinksAreTrue == TypeOK /\ AbleWasAnswered /\ AuthenticatedFirst /\ ReachesItsNode

(* When connections stop breaking, every node that was announced gets able. *)
EventuallyAble == \A p \in Dials : <>[](state[p[1]][p[2]] = "ABLE")

(* Connection.h says of nid: "node id".  A message of a node is passed to  *)
(* the handler with the id of that node.                                   *)
LabelNamesSender == \A g \in got : g.m.t = "ask" => g.label = g.m.by
=============================================================================
