--------------------------- MODULE HandshakeProofs ---------------------------
(***************************************************************************)
(* Proofs about Handshake, for any processes, any pairs that dial, and     *)
(* any number of connections, messages and breaks.                         *)
(*                                                                         *)
(* IInv has three parts.  Sound says of one connection what may be on its  *)
(* way in each pair of states of its ends: the request is in front of all  *)
(* else that goes up until the acceptor takes it, and an answer goes down  *)
(* only when the acceptor has labelled its end.  Coupled ties it to the    *)
(* node table of the dialler, Listed to the lists of connections.          *)
(***************************************************************************)
EXTENDS Handshake, TLAPS

-----------------------------------------------------------------------------
(* The inductive invariant                                                 *)

VarTypes ==
  /\ link \in [Link -> LinkType]
  /\ m_conns \in [Node -> Seq(Link)]
  /\ state \in [Node -> [Node -> {"UNABLE", "AUTH", "ABLE", "FAILED"}]]
  /\ ctx \in [Node -> [Node -> Link \cup {None}]]

Used(r) == ~(r.dst = "GONE" /\ r.ast = "GONE")
AllAre(s, m) == \A i \in 1..Len(s) : s[i] = m

(* What goes up: behind the request, requests of the dialler's handlers.   *)
UpIs(r) ==
  IF r.ast \in {"BACKLOG", "AUTH"}
    THEN /\ 1 <= Len(r.up) /\ r.up[1] = Req(r.to)
         /\ \A i \in 2..Len(r.up) : r.up[i] = Ask(r.from, r.to)
    ELSE AllAre(r.up, Ask(r.from, r.to))

(* What goes down, from an acceptor that has labelled its end.             *)
DownIs(r) ==
  /\ \A i \in 1..Len(r.down) :
       r.down[i] = Rsp(r.to) \/ \E n \in Node : r.down[i] = Reply(n)
  /\ r.down # <<>> => r.ast = "CONNECTED"

LabelIs(r) ==
  /\ r.ast \in {"BACKLOG", "AUTH"} => r.label = None
  /\ r.ast = "CONNECTED" => r.label = r.to
  /\ r.label \in {None, r.to}

Sound(r) ==
  /\ <<r.from, r.to>> \in Dials
  /\ r.dst \in {"FAILED", "GONE"} \/ r.ast = "GONE" => r.cut
  /\ r.cut => r.up = <<>> /\ r.down = <<>>
  /\ ~r.cut => UpIs(r)
  /\ AllAre(r.q, Ask(r.from, r.to))
  /\ DownIs(r) /\ LabelIs(r)
  /\ r.dst = "CONNECTED" => r.ast \in {"CONNECTED", "GONE"} /\ r.label = r.to

Links == \A l \in Link : Used(link[l]) => Sound(link[l])

(* The state of the connection of a node in each of the node's states.     *)
ConnState(s) == CASE s = "AUTH" -> "AUTH" [] s = "ABLE" -> "CONNECTED"
                  [] s = "FAILED" -> "FAILED" [] OTHER -> "GONE"

Coupled ==
  /\ \A a, b \in Node :
       /\ (ctx[a][b] = None) = (state[a][b] = "UNABLE")
       /\ ctx[a][b] # None =>
            /\ link[ctx[a][b]].from = a /\ link[ctx[a][b]].to = b
            /\ link[ctx[a][b]].dst = ConnState(state[a][b])
  /\ \A l \in Link : link[l].dst # "GONE" => ctx[link[l].from][link[l].to] = l

Held(a, l) == \/ link[l].from = a /\ link[l].dst # "GONE"
              \/ link[l].to = a /\ link[l].ast \in {"AUTH", "CONNECTED"}

(* A sequence that holds each element of a set once, and nothing else.     *)
IsList(s, S) ==
  /\ \A i \in 1..Len(s) : s[i] \in S
  /\ \A i, j \in 1..Len(s) : s[i] = s[j] => i = j
  /\ \A l \in S : \E i \in 1..Len(s) : s[i] = l

Holding(a) == {l \in Link : Held(a, l)}

Listed == \A a \in Node : IsList(m_conns[a], Holding(a))

IInv == VarTypes /\ Links /\ Coupled /\ Listed /\ AuthenticatedFirst

(* When no node is dialled by two others, a reply is on the connection of  *)
(* the node that asked.                                                    *)
TrueReplies(r) ==
  \A i \in 1..Len(r.down), n \in Node : r.down[i] = Reply(n) => n = r.from

RepliesAreTrue == \A l \in Link : Used(link[l]) => TrueReplies(link[l])

Reached == \A g \in got : g.at = g.m.to

HInv == IInv /\ RepliesAreTrue /\ Reached

-----------------------------------------------------------------------------
(* Facts about the data                                                    *)

LEMMA MsgTypes ==
  /\ \A n \in Node : Req(n) \in Msgs /\ Rsp(n) \in Msgs /\ Reply(n) \in Msgs
  /\ \A a, b \in Node : Ask(a, b) \in Msgs
BY DEF Msgs

LEMMA NoneIsNoLink == None \notin Link
BY HandshakeAssumption DEF Link

LEMMA AppendAll ==
  ASSUME NEW S, NEW s \in Seq(S), NEW m \in S, AllAre(s, m)
  PROVE  AllAre(Append(s, m), m)
BY DEF AllAre

LEMMA TailAll ==
  ASSUME NEW S, NEW s \in Seq(S), NEW m, s # <<>>, AllAre(s, m)
  PROVE  AllAre(Tail(s), m)
BY DEF AllAre

(* Who is in m_conns and carries the label that is looked for.             *)
LEMMA PickIs ==
  ASSUME VarTypes, Listed, NEW a \in Node, NEW n, NEW l \in Pick(a, n)
  PROVE  l \in Link /\ Held(a, l) /\ Label(a, l) = n
<1>1. PICK i \in 1..Len(m_conns[a]) : l = m_conns[a][i] /\ Label(a, m_conns[a][i]) = n
  BY DEF Pick, Labelled
<1>. QED
  BY <1>1 DEF VarTypes, Listed, IsList, Holding

(* m_conns without its i-th element.                                       *)
LEMMA WithoutIs ==
  ASSUME NEW s \in Seq(Link), NEW i \in 1..Len(s)
  PROVE  /\ RemoveAt(s, i) \in Seq(Link)
         /\ Len(RemoveAt(s, i)) = Len(s) - 1
         /\ \A j \in 1..(Len(s) - 1) :
              RemoveAt(s, i)[j] = IF j < i THEN s[j] ELSE s[j + 1]
<1>. DEFINE f == SubSeq(s, 1, i - 1)
            g == SubSeq(s, i + 1, Len(s))
<1>1. f \in Seq(Link) /\ Len(f) = i - 1 /\ \A j \in 1..(i - 1) : f[j] = s[j]
  OBVIOUS
<1>2. /\ g \in Seq(Link) /\ Len(g) = Len(s) - i
      /\ \A j \in 1..(Len(s) - i) : g[j] = s[i + j]
  OBVIOUS
<1>3. RemoveAt(s, i) = f \o g
  BY DEF RemoveAt
<1>. HIDE DEF f, g
<1>4. /\ f \o g \in Seq(Link) /\ Len(f \o g) = Len(s) - 1
      /\ \A j \in 1..(Len(s) - 1) : (f \o g)[j] = IF j < i THEN f[j] ELSE g[j - (i - 1)]
  <2>0. f \in Seq(Link) /\ g \in Seq(Link)
    BY <1>1, <1>2
  <2>1. f \o g \in Seq(Link) /\ Len(f \o g) = Len(f) + Len(g)
    BY <2>0
  <2>2. \A j \in 1..(Len(f) + Len(g)) :
          (f \o g)[j] = IF j <= Len(f) THEN f[j] ELSE g[j - Len(f)]
    BY <1>1, <1>2
  <2>3. Len(s) \in Nat /\ Len(f) + Len(g) = Len(s) - 1
    BY <1>1, <1>2
  <2>. QED
    BY <1>1, <2>1, <2>2, <2>3
<1>5. \A j \in 1..(Len(s) - 1) : ~(j < i) =>
        j - (i - 1) \in 1..(Len(s) - i) /\ i + (j - (i - 1)) = j + 1
  OBVIOUS
<1>. QED
  BY <1>1, <1>2, <1>3, <1>4, <1>5

LEMMA ListGrows ==
  ASSUME NEW s \in Seq(Link), NEW S, IsList(s, S), NEW l \in Link, l \notin S
  PROVE  IsList(Append(s, l), S \cup {l})
<1>1. /\ Len(Append(s, l)) = Len(s) + 1 /\ Append(s, l)[Len(s) + 1] = l
      /\ \A i \in 1..Len(s) : Append(s, l)[i] = s[i]
      /\ Len(s) \in Nat
  OBVIOUS
<1>. QED
  BY <1>1 DEF IsList

LEMMA ListShrinks ==
  ASSUME NEW s \in Seq(Link), NEW S, IsList(s, S), NEW i \in 1..Len(s)
  PROVE  RemoveAt(s, i) \in Seq(Link) /\ IsList(RemoveAt(s, i), S \ {s[i]})
<1>. DEFINE r == RemoveAt(s, i)
<1>0. Len(s) \in Nat
  OBVIOUS
<1>1. /\ r \in Seq(Link) /\ Len(r) = Len(s) - 1
      /\ \A j \in 1..(Len(s) - 1) : r[j] = IF j < i THEN s[j] ELSE s[j + 1]
  BY WithoutIs
<1>. HIDE DEF r
<1>2. \A j \in 1..Len(r) : \E k \in 1..Len(s) : k # i /\ r[j] = s[k]
  BY <1>0, <1>1
<1>3. ASSUME NEW j \in 1..Len(r), NEW k \in 1..Len(r), r[j] = r[k] PROVE j = k
  BY <1>0, <1>1, <1>3 DEF IsList
<1>4. ASSUME NEW l \in S \ {s[i]} PROVE \E j \in 1..Len(r) : r[j] = l
  <2>1. PICK k \in 1..Len(s) : s[k] = l /\ k # i
    BY DEF IsList
  <2>2. CASE k < i
    BY <1>0, <1>1, <2>1, <2>2
  <2>3. CASE k > i
    <3>1. k - 1 \in 1..Len(r) /\ r[k - 1] = s[k]
      BY <1>0, <1>1, <2>3
    <3>. QED
      BY <2>1, <3>1
  <2>. QED
    BY <1>0, <2>1, <2>2, <2>3
<1>5. \A j \in 1..Len(r) : r[j] \in S \ {s[i]}
  BY <1>2 DEF IsList
<1>. QED
  <2>1. r \in Seq(Link) /\ IsList(r, S \ {s[i]})
    BY <1>1, <1>3, <1>4, <1>5 DEF IsList
  <2>. QED
    BY <2>1 DEF r

-----------------------------------------------------------------------------
(* Steps that change one connection                                        *)

LEMMA OneLink ==
  ASSUME IInv, NEW l \in Link, NEW r \in LinkType, Used(r) => Sound(r),
         link' = [link EXCEPT ![l] = r]
  PROVE  link' \in [Link -> LinkType] /\ Links'
BY DEF IInv, VarTypes, Links

(* The ends of all connections are as they were.                           *)
SameEnds ==
  \A l \in Link : /\ link'[l].from = link[l].from /\ link'[l].to = link[l].to
                  /\ link'[l].dst = link[l].dst /\ link'[l].ast = link[l].ast

LEMMA SameEndsStep ==
  ASSUME IInv, SameEnds, UNCHANGED <<m_conns, state, ctx>>,
         link' \in [Link -> LinkType]
  PROVE  /\ VarTypes' /\ Coupled' /\ Listed'
<1>1. VarTypes'
  BY DEF IInv, VarTypes
<1>2. Coupled'
  <2>1. \A a, b \in Node : ctx[a][b] # None => ctx[a][b] \in Link
    BY DEF IInv, VarTypes
  <2>. QED
    BY <2>1 DEF IInv, Coupled, SameEnds
<1>3. \A a \in Node, l \in Link : Held(a, l)' = Held(a, l)
  BY DEF SameEnds, Held
<1>4. \A a \in Node : Holding(a)' = Holding(a)
  BY <1>3 DEF Holding
<1>5. Listed'
  BY <1>4 DEF IInv, Listed
<1>. QED
  BY <1>1, <1>2, <1>5

(* One connection whose ends stay as they are.                             *)
LEMMA InnerStep ==
  ASSUME IInv, NEW l \in Link, NEW r \in LinkType, Used(r) => Sound(r),
         link' = [link EXCEPT ![l] = r],
         r.from = link[l].from, r.to = link[l].to,
         r.dst = link[l].dst, r.ast = link[l].ast,
         UNCHANGED <<m_conns, state, ctx>>, AuthenticatedFirst'
  PROVE  IInv'
<1>1. link' \in [Link -> LinkType] /\ Links'
  BY OneLink
<1>2. SameEnds
  BY DEF SameEnds, IInv, VarTypes
<1>. QED
  BY <1>1, <1>2, SameEndsStep DEF IInv

LEMMA DialIsNode ==
  ASSUME NEW r, Sound(r)
  PROVE  r.from \in Node /\ r.to \in Node /\ r.from # r.to
BY HandshakeAssumption DEF Sound

LEMMA FlushSound ==
  ASSUME NEW r \in LinkType, Sound(r), r.q # <<>>,
         NEW s, s = [r EXCEPT !.q = Tail(@), !.up = IF r.cut THEN @ ELSE Append(@, Head(r.q))]
  PROVE  s \in LinkType /\ Sound(s)
<1>1. r.q \in Seq(Msgs) /\ r.up \in Seq(Msgs)
  BY DEF LinkType
<1>2. Head(r.q) = Ask(r.from, r.to) /\ Head(r.q) \in Msgs
  BY <1>1 DEF Sound, AllAre
<1>3. Tail(r.q) \in Seq(Msgs) /\ AllAre(Tail(r.q), Ask(r.from, r.to))
  BY <1>1, TailAll DEF Sound
<1>4. Append(r.up, Head(r.q)) \in Seq(Msgs)
  BY <1>1, <1>2
<1>5. s \in LinkType
  BY <1>3, <1>4 DEF LinkType
<1>6. /\ s.from = r.from /\ s.to = r.to /\ s.dst = r.dst /\ s.ast = r.ast
      /\ s.label = r.label /\ s.q = Tail(r.q) /\ s.down = r.down /\ s.cut = r.cut
      /\ s.up = IF r.cut THEN r.up ELSE Append(r.up, Ask(r.from, r.to))
  BY <1>2 DEF LinkType
<1>7. ~r.cut => UpIs(s)
  <2>. SUFFICES ASSUME ~r.cut PROVE UpIs(s)
    OBVIOUS
  <2>1. /\ Len(s.up) = Len(r.up) + 1 /\ s.up[Len(s.up)] = Ask(r.from, r.to)
        /\ \A i \in 1..Len(r.up) : s.up[i] = r.up[i]
    BY <1>1, <1>6
  <2>2. UpIs(r)
    BY DEF Sound
  <2>3. Len(r.up) \in Nat
    BY <1>1
  <2>. QED
    BY <1>6, <2>1, <2>2, <2>3 DEF UpIs, AllAre
<1>. QED
  BY <1>3, <1>5, <1>6, <1>7 DEF Sound, DownIs, LabelIs

LEMMA FlushStep ==
  ASSUME IInv, NEW l \in Link, Flush(l)
  PROVE  IInv'
<1>. DEFINE s == [link[l] EXCEPT !.q = Tail(@),
                    !.up = IF link[l].cut THEN @ ELSE Append(@, Head(link[l].q))]
<1>1. link[l] \in LinkType /\ Used(link[l]) /\ Sound(link[l]) /\ link[l].q # <<>>
  BY DEF Flush, IInv, VarTypes, Links, Used
<1>2. s \in LinkType /\ Sound(s)
  BY <1>1, FlushSound
<1>3. link' = [link EXCEPT ![l] = s]
  BY DEF Flush
<1>4. /\ s.from = link[l].from /\ s.to = link[l].to
      /\ s.dst = link[l].dst /\ s.ast = link[l].ast
  BY <1>1 DEF LinkType
<1>5. UNCHANGED <<m_conns, state, ctx>> /\ AuthenticatedFirst'
  BY DEF Flush, IInv, AuthenticatedFirst
<1>. HIDE DEF s
<1>. QED
  BY <1>2, <1>3, <1>4, <1>5, InnerStep

LEMMA CutStep ==
  ASSUME IInv, NEW l \in Link, Cut(l)
  PROVE  IInv'
<1>. DEFINE r == link[l]
            s == [r EXCEPT !.cut = TRUE, !.up = <<>>, !.down = <<>>]
<1>1. r \in LinkType /\ Used(r) /\ Sound(r)
  BY DEF Cut, Unused, IInv, VarTypes, Links, Used
<1>2. s \in LinkType
  <2>1. <<>> \in Seq(Msgs)
    OBVIOUS
  <2>. QED
    BY <1>1, <2>1 DEF LinkType
<1>3. /\ s.from = r.from /\ s.to = r.to /\ s.dst = r.dst /\ s.ast = r.ast
      /\ s.label = r.label /\ s.q = r.q /\ s.cut = TRUE /\ s.up = <<>> /\ s.down = <<>>
  BY <1>1 DEF LinkType
<1>4. link' = [link EXCEPT ![l] = s]
  BY DEF Cut
<1>5. UNCHANGED <<m_conns, state, ctx>> /\ AuthenticatedFirst'
  BY DEF Cut, IInv, AuthenticatedFirst
<1>. HIDE DEF s
<1>6. Sound(s)
  BY <1>1, <1>3 DEF Sound, DownIs, LabelIs
<1>. QED
  BY <1>2, <1>3, <1>4, <1>5, <1>6, InnerStep

(* What sendNode adds at the dialler, and at the acceptor.                 *)
LEMMA AskSound ==
  ASSUME NEW r \in LinkType, Sound(r),
         NEW s, s = [r EXCEPT !.q = Append(@, Ask(r.from, r.to))]
  PROVE  s \in LinkType /\ Sound(s)
<1>1. r.q \in Seq(Msgs) /\ Ask(r.from, r.to) \in Msgs
  BY DialIsNode, MsgTypes DEF LinkType
<1>2. Append(r.q, Ask(r.from, r.to)) \in Seq(Msgs)
  BY <1>1
<1>3. /\ s.from = r.from /\ s.to = r.to /\ s.dst = r.dst /\ s.ast = r.ast
      /\ s.label = r.label /\ s.up = r.up /\ s.down = r.down /\ s.cut = r.cut
      /\ s.q = Append(r.q, Ask(r.from, r.to)) /\ s \in LinkType
  BY <1>2 DEF LinkType
<1>4. AllAre(s.q, Ask(r.from, r.to))
  BY <1>1, <1>3, AppendAll DEF Sound
<1>. QED
  BY <1>3, <1>4 DEF Sound, UpIs, DownIs, LabelIs

LEMMA ReplySound ==
  ASSUME NEW r \in LinkType, Sound(r), ~r.cut, r.ast = "CONNECTED", NEW n \in Node,
         NEW s, s = [r EXCEPT !.down = Append(@, Reply(n))]
  PROVE  s \in LinkType /\ Sound(s)
<1>1. r.down \in Seq(Msgs) /\ Reply(n) \in Msgs
  BY MsgTypes DEF LinkType
<1>2. Append(r.down, Reply(n)) \in Seq(Msgs)
  BY <1>1
<1>3. /\ s.from = r.from /\ s.to = r.to /\ s.dst = r.dst /\ s.ast = r.ast
      /\ s.label = r.label /\ s.up = r.up /\ s.q = r.q /\ s.cut = r.cut
      /\ s.down = Append(r.down, Reply(n)) /\ s \in LinkType
  BY <1>2 DEF LinkType
<1>4. DownIs(s)
  <2>1. /\ Len(s.down) = Len(r.down) + 1 /\ s.down[Len(r.down) + 1] = Reply(n)
        /\ \A i \in 1..Len(r.down) : s.down[i] = r.down[i]
        /\ Len(r.down) \in Nat
    BY <1>1, <1>3
  <2>. QED
    BY <1>3, <2>1 DEF Sound, DownIs
<1>. QED
  BY <1>3, <1>4 DEF Sound, UpIs, LabelIs

(* The connection of a node that has one.                                  *)
LEMMA ContextIs ==
  ASSUME IInv, NEW a \in Node, NEW b \in Node, ctx[a][b] # None
  PROVE  /\ ctx[a][b] \in Link /\ link[ctx[a][b]].from = a /\ link[ctx[a][b]].to = b
         /\ state[a][b] \in {"AUTH", "ABLE", "FAILED"}
         /\ link[ctx[a][b]].dst = ConnState(state[a][b])
         /\ link[ctx[a][b]].dst # "GONE"
<1>1. ctx[a][b] \in Link /\ state[a][b] \in {"UNABLE", "AUTH", "ABLE", "FAILED"}
  BY DEF IInv, VarTypes
<1>2. state[a][b] # "UNABLE" /\ link[ctx[a][b]].dst = ConnState(state[a][b])
  BY <1>1 DEF IInv, Coupled
<1>. QED
  BY <1>1, <1>2 DEF IInv, Coupled, ConnState

(* What sendNode finds for a node this one dialled.                        *)
LEMMA AsksAtDialler ==
  ASSUME IInv, NEW a \in Node, NEW b \in Node, Sends(a, b)
  PROVE  \E l \in Link :
           /\ link[l].from = a /\ link[l].to = b
           /\ link[l] \in LinkType /\ Used(link[l]) /\ Sound(link[l])
           /\ link' = [link EXCEPT ![l].q = Append(@, Ask(a, b))]
<1>1. PICK l \in Pick(a, b) : link' = Push(link, a, l, Ask(a, b))
  BY DEF Sends
<1>2. l \in Link /\ Held(a, l) /\ Label(a, l) = b
  BY PickIs DEF IInv
<1>. DEFINE r == link[l]
<1>3. r \in LinkType /\ Used(r) /\ Sound(r)
  BY <1>2 DEF IInv, VarTypes, Links, Held, Used
<1>4. r.from = a
  <2>. SUFFICES ASSUME r.from # a PROVE FALSE
    OBVIOUS
  <2>1. PICK c \in Link : link[c].from = a /\ link[c].to = b /\ link[c].dst # "GONE"
    BY ContextIs DEF Sends
  <2>2. r.to = a /\ r.label = b
    BY <1>2 DEF Held, Label
  <2>3. b = a
    BY <1>3, <2>2, HandshakeAssumption DEF Sound, LabelIs
  <2>. QED
    BY <2>1, <2>3, DialIsNode DEF IInv, Links, Used
<1>5. r.to = b
  BY <1>2, <1>4 DEF Label
<1>6. link' = [link EXCEPT ![l].q = Append(@, Ask(a, b))]
  BY <1>1, <1>4 DEF Push
<1>. QED
  BY <1>2, <1>3, <1>4, <1>5, <1>6

LEMMA SendsStep ==
  ASSUME IInv, NEW a \in Node, NEW b \in Node, Sends(a, b)
  PROVE  IInv'
<1>1. PICK l \in Link :
        /\ link[l].from = a /\ link[l].to = b
        /\ link[l] \in LinkType /\ Used(link[l]) /\ Sound(link[l])
        /\ link' = [link EXCEPT ![l].q = Append(@, Ask(a, b))]
  BY AsksAtDialler
<1>. DEFINE r == link[l]
            s == [r EXCEPT !.q = Append(@, Ask(a, b))]
<1>2. s \in LinkType /\ Sound(s)
  BY <1>1, AskSound
<1>3. link' = [link EXCEPT ![l] = s]
  BY <1>1
<1>4. /\ s.from = r.from /\ s.to = r.to /\ s.dst = r.dst /\ s.ast = r.ast
  BY <1>1 DEF LinkType
<1>5. UNCHANGED <<m_conns, state, ctx>> /\ AuthenticatedFirst'
  BY DEF Sends, IInv, AuthenticatedFirst
<1>. HIDE DEF s
<1>. QED
  BY <1>2, <1>3, <1>4, <1>5, InnerStep

LEMMA GetsReplyStep ==
  ASSUME IInv, NEW l \in Link, GetsReply(l)
  PROVE  IInv'
<1>. DEFINE r == link[l]
            s == [r EXCEPT !.down = Tail(@)]
<1>1. r \in LinkType /\ Used(r) /\ Sound(r) /\ r.down # <<>> /\ r.down \in Seq(Msgs)
  BY DEF GetsReply, IInv, VarTypes, Links, Used, LinkType
<1>2. Tail(r.down) \in Seq(Msgs)
  BY <1>1
<1>3. s \in LinkType
  BY <1>1, <1>2 DEF LinkType
<1>4. /\ s.from = r.from /\ s.to = r.to /\ s.dst = r.dst /\ s.ast = r.ast
      /\ s.label = r.label /\ s.q = r.q /\ s.cut = r.cut /\ s.up = r.up
      /\ s.down = Tail(r.down)
  BY <1>1 DEF LinkType
<1>5. link' = [link EXCEPT ![l] = s]
  BY DEF GetsReply
<1>6. UNCHANGED <<m_conns, state, ctx>> /\ AuthenticatedFirst'
  BY DEF GetsReply, IInv, AuthenticatedFirst
<1>. HIDE DEF s
<1>7. DownIs(s)
  <2>1. /\ Len(s.down) = Len(r.down) - 1
        /\ \A i \in 1..Len(s.down) : s.down[i] = r.down[i + 1]
        /\ Len(r.down) \in Nat
    BY <1>1, <1>4
  <2>. QED
    BY <1>1, <1>4, <2>1 DEF Sound, DownIs
<1>8. Sound(s)
  BY <1>1, <1>4, <1>7 DEF Sound, UpIs, LabelIs
<1>. QED
  BY <1>3, <1>4, <1>5, <1>6, <1>8, InnerStep

-----------------------------------------------------------------------------
(* Steps of the acceptor                                                   *)

(* The dialler's ends of all connections are as they were.                 *)
LEMMA SameDiallers ==
  ASSUME IInv, UNCHANGED <<state, ctx>>,
         \A k \in Link : /\ link'[k].from = link[k].from /\ link'[k].to = link[k].to
                         /\ link'[k].dst = link[k].dst
  PROVE  Coupled'
<1>1. \A a, b \in Node : ctx[a][b] # None => ctx[a][b] \in Link
  BY DEF IInv, VarTypes
<1>. QED
  BY <1>1 DEF IInv, Coupled

(* One list changes, and what it should hold.                              *)
LEMMA ListStep ==
  ASSUME IInv, NEW b \in Node, NEW s \in Seq(Link), NEW S,
         m_conns' = [m_conns EXCEPT ![b] = s], Holding(b)' = S, IsList(s, S),
         \A c \in Node \ {b} : Holding(c)' = Holding(c)
  PROVE  m_conns' \in [Node -> Seq(Link)] /\ Listed'
<1>1. m_conns' \in [Node -> Seq(Link)]
  BY DEF IInv, VarTypes
<1>2. ASSUME NEW a \in Node PROVE IsList(m_conns[a], Holding(a))'
  <2>1. CASE a = b
    <3>1. m_conns'[a] = s /\ Holding(a)' = S
      BY <2>1 DEF IInv, VarTypes
    <3>. QED
      BY <3>1
  <2>2. CASE a # b
    <3>1. m_conns'[a] = m_conns[a] /\ Holding(a)' = Holding(a)
      BY <2>2 DEF IInv, VarTypes
    <3>. QED
      BY <3>1 DEF IInv, Listed
  <2>. QED
    BY <2>1, <2>2
<1>. QED
  BY <1>1, <1>2 DEF Listed

LEMMA AcceptStep ==
  ASSUME IInv, NEW l \in Link, Accept(l)
  PROVE  IInv'
<1>. DEFINE r == link[l]
            s == [r EXCEPT !.ast = "AUTH"]
<1>1. r \in LinkType /\ Used(r) /\ Sound(r) /\ r.ast = "BACKLOG"
  BY DEF Accept, IInv, VarTypes, Links, Used
<1>0. PICK b \in Node : b = r.to /\ r.from # b
  BY <1>1, DialIsNode
<1>2. /\ s.from = r.from /\ s.to = r.to /\ s.dst = r.dst /\ s.ast = "AUTH"
      /\ s.label = r.label /\ s.q = r.q /\ s.cut = r.cut /\ s.up = r.up
      /\ s.down = r.down /\ s \in LinkType
  BY <1>1 DEF LinkType
<1>3. /\ link' = [link EXCEPT ![l] = s] /\ UNCHANGED <<state, ctx, got>>
      /\ m_conns' = [m_conns EXCEPT ![b] = Append(@, l)]
  BY <1>0 DEF Accept
<1>. HIDE DEF s
<1>5. Sound(s)
  BY <1>1, <1>2 DEF Sound, UpIs, DownIs, LabelIs
<1>6. link' \in [Link -> LinkType] /\ Links'
  BY <1>2, <1>3, <1>5, OneLink
<1>8. Coupled'
  BY <1>2, <1>3, SameDiallers DEF IInv, VarTypes
<1>9. l \notin Holding(b) /\ Holding(b)' = Holding(b) \cup {l}
  BY <1>1, <1>2, <1>3, <1>0 DEF Holding, Held, IInv, VarTypes
<1>10. \A c \in Node \ {b} : Holding(c)' = Holding(c)
  BY <1>1, <1>2, <1>3, <1>0 DEF Holding, Held, IInv, VarTypes
<1>11. m_conns' \in [Node -> Seq(Link)] /\ Listed'
  <2>1. m_conns[b] \in Seq(Link) /\ IsList(m_conns[b], Holding(b))
    BY <1>0 DEF IInv, VarTypes, Listed
  <2>2. Append(m_conns[b], l) \in Seq(Link) /\ IsList(Append(m_conns[b], l), Holding(b) \cup {l})
    BY <1>9, <2>1, ListGrows
  <2>3. m_conns' = [m_conns EXCEPT ![b] = Append(m_conns[b], l)]
    BY <1>3
  <2>. QED
    BY <1>0, <1>9, <1>10, <2>2, <2>3, ListStep
<1>12. AuthenticatedFirst'
  BY <1>3 DEF IInv, AuthenticatedFirst
<1>. QED
  BY <1>3, <1>6, <1>8, <1>11, <1>12 DEF IInv, VarTypes

(* A request is only in front of what comes up as long as the acceptor has *)
(* not labelled the connection.                                            *)
LEMMA HeadIs ==
  ASSUME NEW r \in LinkType, Sound(r), r.up # <<>>
  PROVE  /\ ~r.cut /\ UpIs(r) /\ Len(r.up) \in Nat /\ 1 <= Len(r.up)
         /\ Head(r.up) = r.up[1] /\ Tail(r.up) \in Seq(Msgs)
         /\ Len(Tail(r.up)) = Len(r.up) - 1
         /\ \A i \in 1..(Len(r.up) - 1) : Tail(r.up)[i] = r.up[i + 1]
<1>1. ~r.cut /\ UpIs(r)
  BY DEF Sound
<1>2. r.up \in Seq(Msgs)
  BY DEF LinkType
<1>. QED
  BY <1>1, <1>2

LEMMA AuthenticationReqSound ==
  ASSUME NEW r \in LinkType, Sound(r), r.ast \in {"AUTH", "CONNECTED"}, r.up # <<>>,
         Head(r.up).t = "req",
         NEW s, s = [r EXCEPT !.up = Tail(@), !.label = Head(r.up).nid, !.ast = "CONNECTED",
                              !.down = IF r.cut THEN @ ELSE Append(@, Rsp(Head(r.up).nid))]
  PROVE  s \in LinkType /\ Sound(s) /\ r.ast = "AUTH" /\ r.dst # "CONNECTED"
<1>1. /\ ~r.cut /\ UpIs(r) /\ Len(r.up) \in Nat /\ 1 <= Len(r.up)
      /\ Head(r.up) = r.up[1] /\ Tail(r.up) \in Seq(Msgs)
      /\ Len(Tail(r.up)) = Len(r.up) - 1
      /\ \A i \in 1..(Len(r.up) - 1) : Tail(r.up)[i] = r.up[i + 1]
  BY HeadIs
<1>2. r.ast = "AUTH"
  <2>1. r.ast = "CONNECTED" => Head(r.up) = Ask(r.from, r.to)
    BY <1>1 DEF UpIs, AllAre
  <2>. QED
    BY <2>1 DEF Ask
<1>3. Head(r.up) = Req(r.to) /\ Head(r.up).nid = r.to
  BY <1>1, <1>2 DEF UpIs, Req
<1>4. r.to \in Node /\ r.dst # "CONNECTED"
  BY <1>2, DialIsNode DEF Sound
<1>5. r.down \in Seq(Msgs) /\ Rsp(r.to) \in Msgs
  BY <1>4, MsgTypes DEF LinkType
<1>6. r.down = <<>> /\ Append(r.down, Rsp(r.to)) = <<Rsp(r.to)>>
  <2>1. r.down = <<>>
    BY <1>2, <1>5 DEF Sound, DownIs
  <2>. QED
    BY <1>5, <2>1
<1>7. <<Rsp(r.to)>> \in Seq(Msgs)
  BY <1>5
<1>8. /\ s.from = r.from /\ s.to = r.to /\ s.dst = r.dst /\ s.ast = "CONNECTED"
      /\ s.label = r.to /\ s.q = r.q /\ s.cut = r.cut /\ s.up = Tail(r.up)
      /\ s.down = <<Rsp(r.to)>>
  BY <1>1, <1>3, <1>6 DEF LinkType
<1>9. s \in LinkType
  BY <1>1, <1>3, <1>4, <1>6, <1>7 DEF LinkType
<1>10. AllAre(Tail(r.up), Ask(r.from, r.to))
  BY <1>1, <1>2 DEF UpIs, AllAre
<1>11. DownIs(s)
  BY <1>8 DEF DownIs
<1>. QED
  BY <1>1, <1>2, <1>4, <1>8, <1>9, <1>10, <1>11 DEF Sound, UpIs, LabelIs

LEMMA AuthenticationReqStep ==
  ASSUME IInv, NEW l \in Link, AuthenticationReq(l)
  PROVE  IInv'
<1>. DEFINE r == link[l]
            m == Head(r.up)
            s == [r EXCEPT !.up = Tail(@), !.label = m.nid, !.ast = "CONNECTED",
                           !.down = IF r.cut THEN @ ELSE Append(@, Rsp(m.nid))]
<1>1. /\ r \in LinkType /\ Used(r) /\ Sound(r) /\ r.ast \in {"AUTH", "CONNECTED"}
      /\ r.up # <<>> /\ m.t = "req"
  BY DEF AuthenticationReq, Readable, IInv, VarTypes, Links, Used
<1>2. s \in LinkType /\ Sound(s) /\ r.ast = "AUTH"
  BY <1>1, AuthenticationReqSound
<1>3. /\ s.from = r.from /\ s.to = r.to /\ s.dst = r.dst /\ s.ast = "CONNECTED"
  BY <1>1 DEF LinkType
<1>4. link' = [link EXCEPT ![l] = s] /\ UNCHANGED <<m_conns, state, ctx, got>>
  BY DEF AuthenticationReq
<1>. HIDE DEF s, m
<1>5. link' \in [Link -> LinkType] /\ Links'
  BY <1>2, <1>4, OneLink
<1>6. Coupled'
  BY <1>3, <1>4, SameDiallers DEF IInv, VarTypes
<1>7. \A c \in Node : Holding(c)' = Holding(c)
  BY <1>2, <1>3, <1>4 DEF Holding, Held, IInv, VarTypes
<1>8. Listed' /\ AuthenticatedFirst'
  BY <1>4, <1>7 DEF IInv, Listed, AuthenticatedFirst
<1>. QED
  BY <1>4, <1>5, <1>6, <1>8 DEF IInv, VarTypes

LEMMA AcceptorFailsStep ==
  ASSUME IInv, NEW l \in Link, AcceptorFails(l)
  PROVE  IInv'
<1>. DEFINE r == link[l]
            s == [r EXCEPT !.ast = "GONE"]
<1>1. r \in LinkType /\ Used(r) /\ Sound(r) /\ r.ast \in {"AUTH", "CONNECTED"} /\ r.cut
  BY DEF AcceptorFails, IInv, VarTypes, Links, Used
<1>0. PICK b \in Node : b = r.to /\ r.from # b
  BY <1>1, DialIsNode
<1>2. /\ s.from = r.from /\ s.to = r.to /\ s.dst = r.dst /\ s.ast = "GONE"
      /\ s.label = r.label /\ s.q = r.q /\ s.cut = r.cut /\ s.up = r.up
      /\ s.down = r.down /\ s \in LinkType
  BY <1>1 DEF LinkType
<1>3. PICK i \in Places(b, l) : m_conns' = [m_conns EXCEPT ![b] = RemoveAt(@, i)]
  BY <1>0 DEF AcceptorFails
<1>4. link' = [link EXCEPT ![l] = s] /\ UNCHANGED <<state, ctx, got>>
  BY DEF AcceptorFails
<1>5. i \in 1..Len(m_conns[b]) /\ m_conns[b][i] = l
  BY <1>3 DEF Places
<1>. HIDE DEF s
<1>6. Sound(s)
  BY <1>1, <1>2 DEF Sound, UpIs, DownIs, LabelIs
<1>7. link' \in [Link -> LinkType] /\ Links'
  BY <1>2, <1>4, <1>6, OneLink
<1>8. Coupled'
  BY <1>2, <1>4, SameDiallers DEF IInv, VarTypes
<1>9. Holding(b)' = Holding(b) \ {l}
  BY <1>1, <1>2, <1>4, <1>0, <1>5 DEF Holding, Held, IInv, VarTypes
<1>10. \A c \in Node \ {b} : Holding(c)' = Holding(c)
  BY <1>1, <1>2, <1>4, <1>0, <1>5 DEF Holding, Held, IInv, VarTypes
<1>11. RemoveAt(m_conns[b], i) \in Seq(Link) /\ IsList(RemoveAt(m_conns[b], i), Holding(b) \ {l})
  BY <1>0, <1>5, ListShrinks DEF IInv, VarTypes, Listed
<1>12. m_conns' \in [Node -> Seq(Link)] /\ Listed'
  <2>1. m_conns' = [m_conns EXCEPT ![b] = RemoveAt(m_conns[b], i)]
    BY <1>3
  <2>. QED
    BY <1>0, <1>5, <1>9, <1>10, <1>11, <2>1, ListStep
<1>13. AuthenticatedFirst'
  BY <1>4 DEF IInv, AuthenticatedFirst
<1>. QED
  BY <1>4, <1>7, <1>8, <1>12, <1>13 DEF IInv, VarTypes

-----------------------------------------------------------------------------
(* Steps of the dialler                                                    *)

(* The connection of a node and the node's state change together.          *)
LEMMA NodeStep ==
  ASSUME IInv, NEW l \in Link, link[l].dst # "GONE",
         NEW r \in LinkType, Used(r) => Sound(r),
         r.from = link[l].from, r.to = link[l].to, r.ast = link[l].ast,
         NEW a \in Node, NEW b \in Node, a = r.from, b = r.to,
         NEW x \in {"ABLE", "FAILED"}, r.dst = ConnState(x),
         link' = [link EXCEPT ![l] = r],
         state' = [state EXCEPT ![a][b] = x],
         UNCHANGED <<m_conns, ctx>>, AuthenticatedFirst'
  PROVE  IInv'
<1>1. link' \in [Link -> LinkType] /\ Links'
  BY OneLink
<1>2. state' \in [Node -> [Node -> {"UNABLE", "AUTH", "ABLE", "FAILED"}]]
  BY DEF IInv, VarTypes
<1>3. r.dst \in {"CONNECTED", "FAILED"}
  BY DEF ConnState
<1>4. ctx[a][b] = l /\ ctx[a][b] # None
  BY NoneIsNoLink DEF IInv, Coupled
<1>5. Coupled'
  <2>1. ASSUME NEW c \in Node, NEW d \in Node
        PROVE  /\ (ctx[c][d] = None) = (state'[c][d] = "UNABLE")
               /\ ctx[c][d] # None =>
                    /\ link'[ctx[c][d]].from = c /\ link'[ctx[c][d]].to = d
                    /\ link'[ctx[c][d]].dst = ConnState(state'[c][d])
    <3>1. CASE c = a /\ d = b
      <4>1. state'[c][d] = x /\ link'[l] = r
        BY <3>1 DEF IInv, VarTypes
      <4>. QED
        BY <1>4, <3>1, <4>1
    <3>2. CASE ~(c = a /\ d = b)
      <4>1. state'[c][d] = state[c][d]
        BY <3>2 DEF IInv, VarTypes
      <4>2. CASE ctx[c][d] = None
        BY <4>1, <4>2 DEF IInv, Coupled
      <4>3. CASE ctx[c][d] # None
        <5>1. ctx[c][d] \in Link /\ link[ctx[c][d]].from = c /\ link[ctx[c][d]].to = d
          BY <4>3, ContextIs
        <5>2. ctx[c][d] # l
          BY <3>2, <5>1
        <5>3. link'[ctx[c][d]] = link[ctx[c][d]]
          BY <5>1, <5>2 DEF IInv, VarTypes
        <5>. QED
          BY <4>1, <4>3, <5>3 DEF IInv, Coupled
      <4>. QED
        BY <4>2, <4>3
    <3>. QED
      BY <3>1, <3>2
  <2>2. ASSUME NEW k \in Link, link'[k].dst # "GONE"
        PROVE  ctx[link'[k].from][link'[k].to] = k
    BY <1>4, <2>2 DEF IInv, VarTypes, Coupled
  <2>. QED
    BY <2>1, <2>2 DEF Coupled
<1>6. \A c \in Node : Holding(c)' = Holding(c)
  BY <1>3 DEF Holding, Held, IInv, VarTypes
<1>7. Listed'
  BY <1>6 DEF IInv, Listed
<1>. QED
  BY <1>1, <1>2, <1>5, <1>7 DEF IInv, VarTypes

LEMMA DiallerFailsStep ==
  ASSUME IInv, NEW l \in Link, DiallerFails(l)
  PROVE  IInv'
<1>. DEFINE r == link[l]
            s == [r EXCEPT !.dst = "FAILED"]
<1>1. r \in LinkType /\ Used(r) /\ Sound(r) /\ r.dst \in {"AUTH", "CONNECTED"} /\ r.cut
  BY DEF DiallerFails, IInv, VarTypes, Links, Used
<1>2. PICK a \in Node, b \in Node : a = r.from /\ b = r.to
  BY <1>1, DialIsNode
<1>3. /\ s.from = r.from /\ s.to = r.to /\ s.dst = "FAILED" /\ s.ast = r.ast
      /\ s.label = r.label /\ s.q = r.q /\ s.cut = r.cut /\ s.up = r.up
      /\ s.down = r.down /\ s \in LinkType
  BY <1>1 DEF LinkType
<1>4. /\ link' = [link EXCEPT ![l] = s] /\ UNCHANGED <<m_conns, ctx, got>>
      /\ state' = [state EXCEPT ![a][b] = "FAILED"]
  BY <1>2 DEF DiallerFails
<1>. HIDE DEF s
<1>5. Sound(s)
  BY <1>1, <1>3 DEF Sound, UpIs, DownIs, LabelIs
<1>6. s.dst = ConnState("FAILED") /\ AuthenticatedFirst'
  BY <1>3, <1>4 DEF ConnState, IInv, AuthenticatedFirst
<1>. QED
  BY <1>1, <1>2, <1>3, <1>4, <1>5, <1>6, NodeStep

(* An answer comes from an acceptor that has labelled its end.             *)
LEMMA AuthenticationRspStep ==
  ASSUME IInv, NEW l \in Link, AuthenticationRsp(l)
  PROVE  IInv'
<1>. DEFINE r == link[l]
            m == Head(r.down)
            s == [r EXCEPT !.down = Tail(@), !.dst = "CONNECTED"]
<1>1. /\ r \in LinkType /\ Used(r) /\ Sound(r) /\ r.dst \in {"AUTH", "CONNECTED"}
      /\ r.down # <<>> /\ r.down \in Seq(Msgs) /\ m.t = "rsp"
  BY DEF AuthenticationRsp, IInv, VarTypes, Links, Used, LinkType
<1>2. PICK a \in Node, b \in Node : a = r.from /\ b = r.to
  BY <1>1, DialIsNode
<1>3. /\ Len(r.down) \in Nat /\ 1 <= Len(r.down) /\ m = r.down[1]
      /\ Tail(r.down) \in Seq(Msgs) /\ Len(Tail(r.down)) = Len(r.down) - 1
      /\ \A i \in 1..(Len(r.down) - 1) : Tail(r.down)[i] = r.down[i + 1]
  BY <1>1
<1>4. m.nid = b
  <2>1. m = Rsp(r.to) \/ \E n \in Node : m = Reply(n)
    BY <1>1, <1>3 DEF Sound, DownIs
  <2>2. \A n : Reply(n).t = "reply"
    BY DEF Reply
  <2>3. m = Rsp(r.to)
    BY <1>1, <2>1, <2>2
  <2>. QED
    BY <1>2, <2>3 DEF Rsp
<1>5. r.ast = "CONNECTED" /\ r.label = r.to
  BY <1>1 DEF Sound, DownIs, LabelIs
<1>6. /\ s.from = r.from /\ s.to = r.to /\ s.dst = "CONNECTED" /\ s.ast = r.ast
      /\ s.label = r.label /\ s.q = r.q /\ s.cut = r.cut /\ s.up = r.up
      /\ s.down = Tail(r.down) /\ s \in LinkType
  BY <1>1, <1>3 DEF LinkType
<1>7. /\ link' = [link EXCEPT ![l] = s] /\ UNCHANGED <<m_conns, ctx, got>>
      /\ state' = [state EXCEPT ![a][b] = "ABLE"]
  BY <1>2, <1>4 DEF AuthenticationRsp
<1>. HIDE DEF s
<1>8. DownIs(s)
  BY <1>1, <1>3, <1>5, <1>6 DEF Sound, DownIs
<1>9. Sound(s)
  BY <1>1, <1>3, <1>5, <1>6, <1>8 DEF Sound, UpIs, LabelIs
<1>10. s.dst = ConnState("ABLE") /\ AuthenticatedFirst'
  BY <1>6, <1>7 DEF ConnState, IInv, AuthenticatedFirst
<1>. QED
  BY <1>1, <1>2, <1>6, <1>7, <1>9, <1>10, NodeStep

(* A connection that is set up, with the request on its way.               *)
LEMMA NewLinkIs ==
  ASSUME NEW a \in Node, NEW b \in Node, <<a, b>> \in Dials,
         NEW queue \in Seq(Msgs), AllAre(queue, Ask(a, b)),
         NEW s, s = NewLink(a, b, queue, <<Req(b)>>)
  PROVE  s \in LinkType /\ Sound(s)
<1>1. Req(b) \in Msgs
  BY MsgTypes
<1>2. <<Req(b)>> \in Seq(Msgs) /\ <<>> \in Seq(Msgs)
  BY <1>1
<1>3. s \in LinkType
  BY <1>2 DEF NewLink, LinkType
<1>4. /\ s.from = a /\ s.to = b /\ s.dst = "AUTH" /\ s.ast = "BACKLOG" /\ s.cut = FALSE
      /\ s.q = queue /\ s.up = <<Req(b)>> /\ s.down = <<>> /\ s.label = None
  BY DEF NewLink
<1>5. Sound(s)
  BY <1>4 DEF Sound, UpIs, DownIs, LabelIs, AllAre
<1>. QED
  BY <1>3, <1>4, <1>5

(* A node gets a connection, and the one it may have had goes.             *)
GetsContext(a, b, l) ==
  /\ link[l].dst = "GONE"
  /\ link'[l].from = a /\ link'[l].to = b /\ link'[l].dst = "AUTH"
  /\ \A k \in Link \ {l} :
       IF k = ctx[a][b] THEN link'[k].dst = "GONE" ELSE link'[k] = link[k]
  /\ ctx' = [ctx EXCEPT ![a][b] = l] /\ state' = [state EXCEPT ![a][b] = "AUTH"]

LEMMA NewContext ==
  ASSUME IInv, NEW a \in Node, NEW b \in Node, NEW l \in Link, GetsContext(a, b, l)
  PROVE  Coupled'
<1>0. /\ link[l].dst = "GONE"
      /\ link'[l].from = a /\ link'[l].to = b /\ link'[l].dst = "AUTH"
      /\ \A k \in Link \ {l} :
           IF k = ctx[a][b] THEN link'[k].dst = "GONE" ELSE link'[k] = link[k]
  BY DEF GetsContext
<1>1. \A c, d \in Node :
        /\ ctx'[c][d] = (IF c = a /\ d = b THEN l ELSE ctx[c][d])
        /\ state'[c][d] = (IF c = a /\ d = b THEN "AUTH" ELSE state[c][d])
  BY DEF GetsContext, IInv, VarTypes
<1>2. ConnState("AUTH") = "AUTH"
  BY DEF ConnState
<1>3. ASSUME NEW c \in Node, NEW d \in Node
      PROVE  /\ (ctx'[c][d] = None) = (state'[c][d] = "UNABLE")
             /\ ctx'[c][d] # None =>
                  /\ link'[ctx'[c][d]].from = c /\ link'[ctx'[c][d]].to = d
                  /\ link'[ctx'[c][d]].dst = ConnState(state'[c][d])
  <2>1. CASE c = a /\ d = b
    BY <1>0, <1>1, <1>2, <2>1, NoneIsNoLink
  <2>2. CASE ~(c = a /\ d = b) /\ ctx[c][d] = None
    BY <1>1, <2>2 DEF IInv, Coupled
  <2>3. CASE ~(c = a /\ d = b) /\ ctx[c][d] # None
    <3>1. /\ ctx[c][d] \in Link /\ link[ctx[c][d]].from = c /\ link[ctx[c][d]].to = d
          /\ link[ctx[c][d]].dst # "GONE"
      BY <2>3, ContextIs
    <3>2. ctx[c][d] # l /\ ctx[c][d] # ctx[a][b]
      <4>1. ctx[a][b] # None => link[ctx[a][b]].from = a /\ link[ctx[a][b]].to = b
        BY ContextIs
      <4>. QED
        BY <1>0, <2>3, <3>1, <4>1
    <3>3. link'[ctx[c][d]] = link[ctx[c][d]]
      BY <1>0, <3>1, <3>2
    <3>. QED
      BY <1>1, <2>3, <3>3 DEF IInv, Coupled
  <2>. QED
    BY <2>1, <2>2, <2>3
<1>4. ASSUME NEW k \in Link, link'[k].dst # "GONE"
      PROVE  ctx'[link'[k].from][link'[k].to] = k
  <2>1. CASE k = l
    BY <1>0, <1>1, <2>1
  <2>2. CASE k # l
    <3>0. k \in Link \ {l}
      BY <2>2
    <3>1. k # ctx[a][b] /\ link'[k] = link[k] /\ link[k].dst # "GONE"
      BY <1>0, <1>4, <3>0
    <3>2. link[k].from \in Node /\ link[k].to \in Node
      BY <3>1, DialIsNode DEF IInv, Links, Used
    <3>3. ctx[link[k].from][link[k].to] = k
      BY <3>1 DEF IInv, Coupled
    <3>. QED
      BY <1>1, <3>1, <3>2, <3>3
  <2>. QED
    BY <2>1, <2>2
<1>. QED
  BY <1>3, <1>4 DEF Coupled

(* A new connection to a node, and none to it before.                      *)
LEMMA DialStep ==
  ASSUME IInv, NEW a \in Node, NEW b \in Node, Dial(a, b)
  PROVE  IInv'
<1>. DEFINE s == NewLink(a, b, <<>>, <<Req(b)>>)
<1>1. PICK l \in Link : /\ Fresh(l)
                        /\ link' = [link EXCEPT ![l] = s]
                        /\ m_conns' = [m_conns EXCEPT ![a] = Append(@, l)]
                        /\ ctx' = [ctx EXCEPT ![a][b] = l]
  BY DEF Dial
<1>2. /\ <<a, b>> \in Dials /\ state[a][b] = "UNABLE" /\ UNCHANGED got
      /\ state' = [state EXCEPT ![a][b] = "AUTH"]
  BY DEF Dial
<1>3. a # b
  BY <1>2, HandshakeAssumption
<1>4. s.from = a /\ s.to = b /\ s.dst = "AUTH" /\ s.ast = "BACKLOG"
  BY DEF NewLink
<1>5. s \in LinkType /\ Sound(s)
  <2>1. <<>> \in Seq(Msgs) /\ AllAre(<<>>, Ask(a, b))
    BY DEF AllAre
  <2>2. <<a, b>> \in Dials
    BY <1>2
  <2>. QED
    BY <2>1, <2>2, NewLinkIs
<1>6. link[l].dst = "GONE" /\ link[l].ast = "GONE"
  BY <1>1 DEF Fresh, Unused
<1>. HIDE DEF s
<1>7. link' \in [Link -> LinkType] /\ Links'
  BY <1>1, <1>5, OneLink
<1>8. /\ state' \in [Node -> [Node -> {"UNABLE", "AUTH", "ABLE", "FAILED"}]]
      /\ ctx' \in [Node -> [Node -> Link \cup {None}]]
  BY <1>1, <1>2 DEF IInv, VarTypes
<1>9. ctx[a][b] = None
  BY <1>2 DEF IInv, Coupled
<1>10. Coupled'
  <2>1. link'[l] = s /\ \A k \in Link \ {l} : k # ctx[a][b] /\ link'[k] = link[k]
    BY <1>1, <1>9, NoneIsNoLink DEF IInv, VarTypes
  <2>2. GetsContext(a, b, l)
    BY <1>1, <1>2, <1>4, <1>6, <2>1 DEF GetsContext
  <2>. QED
    BY <2>2, NewContext
<1>11. l \notin Holding(a) /\ Holding(a)' = Holding(a) \cup {l}
  BY <1>1, <1>3, <1>4, <1>6 DEF Holding, Held, IInv, VarTypes
<1>12. \A c \in Node \ {a} : Holding(c)' = Holding(c)
  BY <1>1, <1>3, <1>4, <1>6 DEF Holding, Held, IInv, VarTypes
<1>13. m_conns' \in [Node -> Seq(Link)] /\ Listed'
  <2>1. m_conns[a] \in Seq(Link) /\ IsList(m_conns[a], Holding(a))
    BY DEF IInv, VarTypes, Listed
  <2>2. Append(m_conns[a], l) \in Seq(Link) /\ IsList(Append(m_conns[a], l), Holding(a) \cup {l})
    BY <1>11, <2>1, ListGrows
  <2>3. m_conns' = [m_conns EXCEPT ![a] = Append(m_conns[a], l)]
    BY <1>1
  <2>. QED
    BY <1>11, <1>12, <2>2, <2>3, ListStep
<1>14. AuthenticatedFirst'
  BY <1>2 DEF IInv, AuthenticatedFirst
<1>. QED
  BY <1>7, <1>8, <1>10, <1>13, <1>14 DEF IInv, VarTypes

(* The new connection takes the old one's place: that one failed, so it    *)
(* was cut, and the acceptor closes its end by itself.                     *)
LEMMA RedialStep ==
  ASSUME IInv, NEW a \in Node, NEW b \in Node, Redial(a, b)
  PROVE  IInv'
<1>0. state[a][b] = "FAILED" /\ ctx[a][b] # None
  BY DEF Redial, IInv, Coupled
<1>1. PICK old \in Link : /\ ctx[a][b] = old /\ link[old].from = a /\ link[old].to = b
                          /\ link[old].dst = "FAILED"
  BY <1>0, ContextIs DEF ConnState
<1>. DEFINE o == link[old]
            s == NewLink(a, b, o.q, <<Req(b)>>)
            g == [o EXCEPT !.dst = "GONE"]
<1>2. PICK l \in Link :
        /\ Fresh(l)
        /\ link' = [link EXCEPT ![l] = Redialed(a, b, old), ![old].dst = "GONE"]
        /\ \E i \in Places(a, old) :
             m_conns' = [m_conns EXCEPT ![a] = Append(RemoveAt(@, i), l)]
        /\ ctx' = [ctx EXCEPT ![a][b] = l]
  BY <1>1 DEF Redial
<1>3. /\ UNCHANGED got /\ state' = [state EXCEPT ![a][b] = "AUTH"]
  BY DEF Redial
<1>4. o \in LinkType /\ Used(o) /\ Sound(o) /\ o.q \in Seq(Msgs)
  BY <1>1 DEF IInv, VarTypes, Links, Used, LinkType
<1>5. <<a, b>> \in Dials /\ a # b
  BY <1>1, <1>4, HandshakeAssumption DEF Sound
<1>6. /\ s \in LinkType /\ Sound(s)
      /\ s.from = a /\ s.to = b /\ s.dst = "AUTH" /\ s.ast = "BACKLOG"
  <2>1. AllAre(o.q, Ask(a, b))
    BY <1>1, <1>4 DEF Sound
  <2>2. s \in LinkType /\ Sound(s)
    BY <1>4, <1>5, <2>1, NewLinkIs
  <2>. QED
    BY <2>2 DEF NewLink
<1>7. /\ g.from = a /\ g.to = b /\ g.dst = "GONE" /\ g.ast = o.ast
      /\ g.label = o.label /\ g.q = o.q /\ g.cut = o.cut /\ g.up = o.up
      /\ g.down = o.down /\ g \in LinkType
  BY <1>1, <1>4 DEF LinkType
<1>8. link[l].dst = "GONE" /\ link[l].ast = "GONE" /\ l # old
  BY <1>1, <1>2 DEF Fresh, Unused
<1>9. /\ link' \in [Link -> LinkType] /\ link'[l] = s /\ link'[old] = g
      /\ \A k \in Link : k # l /\ k # old => link'[k] = link[k]
  BY <1>2, <1>6, <1>7, <1>8 DEF IInv, VarTypes, Redialed
<1>. HIDE DEF s, g
<1>10. Sound(g)
  BY <1>1, <1>4, <1>7 DEF Sound, UpIs, DownIs, LabelIs
<1>11. Links'
  BY <1>6, <1>9, <1>10 DEF IInv, Links
<1>12. /\ state' \in [Node -> [Node -> {"UNABLE", "AUTH", "ABLE", "FAILED"}]]
       /\ ctx' \in [Node -> [Node -> Link \cup {None}]]
  BY <1>2, <1>3 DEF IInv, VarTypes
<1>13. Coupled'
  <2>1. GetsContext(a, b, l)
    BY <1>1, <1>2, <1>3, <1>6, <1>7, <1>8, <1>9 DEF GetsContext
  <2>. QED
    BY <2>1, NewContext
<1>14. \A c \in Node, k \in Link \ {l, old} : Held(c, k)' = Held(c, k)
  BY <1>9 DEF Held
<1>15. /\ l \notin Holding(a) /\ old \in Holding(a)
       /\ Holding(a)' = (Holding(a) \ {old}) \cup {l}
  BY <1>1, <1>5, <1>6, <1>7, <1>8, <1>9, <1>14 DEF Holding, Held
<1>16. \A c \in Node \ {a} : Holding(c)' = Holding(c)
  BY <1>1, <1>5, <1>6, <1>7, <1>8, <1>9, <1>14 DEF Holding, Held
<1>17. m_conns' \in [Node -> Seq(Link)] /\ Listed'
  <2>1. m_conns[a] \in Seq(Link) /\ IsList(m_conns[a], Holding(a))
    BY DEF IInv, VarTypes, Listed
  <2>2. PICK i \in 1..Len(m_conns[a]) :
          /\ m_conns[a][i] = old
          /\ m_conns' = [m_conns EXCEPT ![a] = Append(RemoveAt(m_conns[a], i), l)]
    BY <1>2 DEF Places
  <2>3. /\ RemoveAt(m_conns[a], i) \in Seq(Link)
        /\ IsList(RemoveAt(m_conns[a], i), Holding(a) \ {old})
    BY <2>1, <2>2, ListShrinks
  <2>4. /\ Append(RemoveAt(m_conns[a], i), l) \in Seq(Link)
        /\ IsList(Append(RemoveAt(m_conns[a], i), l), (Holding(a) \ {old}) \cup {l})
    BY <1>15, <2>3, ListGrows
  <2>. QED
    BY <1>15, <1>16, <2>2, <2>4, ListStep
<1>18. AuthenticatedFirst'
  BY <1>3 DEF IInv, AuthenticatedFirst
<1>. QED
  BY <1>9, <1>11, <1>12, <1>13, <1>17, <1>18 DEF IInv, VarTypes

-----------------------------------------------------------------------------
(* A message is handled                                                    *)

(* The connection has been labelled, with the id of this node; and so has  *)
(* the one that the reply goes to.                                         *)
LEMMA HandlesIs ==
  ASSUME IInv, NEW l \in Link, Handles(l)
  PROVE  LET r == link[l] IN
         /\ r \in LinkType /\ Used(r) /\ Sound(r) /\ r.ast = "CONNECTED"
         /\ r.from \in Node /\ r.to \in Node /\ r.label = r.to
         /\ r.up # <<>> /\ Head(r.up) = Ask(r.from, r.to)
         /\ \A k \in Pick(r.to, r.label) :
              /\ k \in Link /\ Used(link[k]) /\ link[k].from # r.to
              /\ link[k].to = r.to /\ link[k].ast = "CONNECTED"
<1>. DEFINE r == link[l]
<1>1. /\ r \in LinkType /\ Used(r) /\ Sound(r) /\ r.ast \in {"AUTH", "CONNECTED"}
      /\ r.up # <<>> /\ Head(r.up).t \in {"ask", "reply"}
  BY DEF Handles, Readable, IInv, VarTypes, Links, Used
<1>2. UpIs(r) /\ 1 <= Len(r.up) /\ Len(r.up) \in Nat /\ Head(r.up) = r.up[1]
  BY <1>1, HeadIs
<1>3. r.ast = "CONNECTED"
  <2>1. r.ast = "AUTH" => Head(r.up) = Req(r.to)
    BY <1>2 DEF UpIs
  <2>. QED
    BY <1>1, <2>1 DEF Req
<1>4. Head(r.up) = Ask(r.from, r.to)
  BY <1>2, <1>3 DEF UpIs, AllAre
<1>5. r.from \in Node /\ r.to \in Node /\ r.label = r.to
  BY <1>1, <1>3, DialIsNode DEF Sound, LabelIs
<1>6. ASSUME NEW k \in Pick(r.to, r.label)
      PROVE  /\ k \in Link /\ Used(link[k]) /\ link[k].from # r.to
             /\ link[k].to = r.to /\ link[k].ast = "CONNECTED"
  <2>1. k \in Link /\ Held(r.to, k) /\ Label(r.to, k) = r.to
    BY <1>5, <1>6, PickIs DEF IInv
  <2>2. Used(link[k]) /\ Sound(link[k])
    BY <2>1 DEF Held, Used, IInv, Links
  <2>3. link[k].from # r.to
    BY <2>1, <2>2, DialIsNode DEF Label
  <2>4. link[k].to = r.to /\ link[k].ast \in {"AUTH", "CONNECTED"} /\ link[k].label = r.to
    BY <2>1, <2>3 DEF Held, Label
  <2>. QED
    BY <1>5, <2>1, <2>2, <2>3, <2>4, HandshakeAssumption DEF Sound, LabelIs
<1>. QED
  BY <1>1, <1>3, <1>4, <1>5, <1>6

(* The connections when the message has been read.                         *)
Read(l) == [link EXCEPT ![l].up = Tail(@)]

LEMMA ReadIs ==
  ASSUME IInv, NEW l \in Link, Handles(l)
  PROVE  /\ Read(l) \in [Link -> LinkType]
         /\ \A k \in Link \ {l} : Read(l)[k] = link[k]
         /\ \A k \in Link :
              /\ Read(l)[k].from = link[k].from /\ Read(l)[k].to = link[k].to
              /\ Read(l)[k].dst = link[k].dst /\ Read(l)[k].ast = link[k].ast
              /\ Read(l)[k].down = link[k].down /\ Read(l)[k].cut = link[k].cut
              /\ Used(Read(l)[k]) => Sound(Read(l)[k])
<1>. DEFINE r == link[l]
            s == [r EXCEPT !.up = Tail(@)]
<1>1. /\ r \in LinkType /\ Used(r) /\ Sound(r) /\ r.ast = "CONNECTED" /\ r.up # <<>>
  BY HandlesIs
<1>2. r.up \in Seq(Msgs) /\ Tail(r.up) \in Seq(Msgs)
  BY <1>1 DEF LinkType
<1>3. /\ s.from = r.from /\ s.to = r.to /\ s.dst = r.dst /\ s.ast = r.ast
      /\ s.label = r.label /\ s.q = r.q /\ s.cut = r.cut /\ s.down = r.down
      /\ s.up = Tail(r.up) /\ s \in LinkType
  BY <1>1, <1>2 DEF LinkType
<1>4. Read(l) = [link EXCEPT ![l] = s]
  BY DEF Read
<1>. HIDE DEF s
<1>5. ~r.cut /\ AllAre(s.up, Ask(r.from, r.to))
  <2>1. ~r.cut /\ AllAre(r.up, Ask(r.from, r.to))
    BY <1>1, HeadIs DEF UpIs
  <2>. QED
    BY <1>1, <1>2, <1>3, <2>1, TailAll
<1>6. Sound(s)
  BY <1>1, <1>3, <1>5 DEF Sound, UpIs, DownIs, LabelIs
<1>. QED
  BY <1>3, <1>4, <1>6 DEF IInv, VarTypes, Links

LEMMA HandlesStep ==
  ASSUME IInv, NEW l \in Link, Handles(l)
  PROVE  IInv'
<1>. DEFINE r == link[l]
            rd == Read(l)
<1>0. /\ r.ast = "CONNECTED" /\ r.from \in Node /\ r.to \in Node
      /\ Head(r.up) = Ask(r.from, r.to)
  BY HandlesIs
<1>1. /\ rd \in [Link -> LinkType]
      /\ \A k \in Link :
           /\ rd[k].from = link[k].from /\ rd[k].to = link[k].to
           /\ rd[k].dst = link[k].dst /\ rd[k].ast = link[k].ast
           /\ Used(rd[k]) => Sound(rd[k])
  BY ReadIs
<1>2. /\ UNCHANGED <<m_conns, state, ctx>>
      /\ \/ link' = rd
         \/ \E k \in Pick(r.to, r.label) : link' = Push(rd, r.to, k, Reply(Head(r.up).by))
  BY DEF Handles, Read
<1>3. AuthenticatedFirst'
  <2>. DEFINE g == [m |-> Head(r.up), at |-> r.to, label |-> r.label,
                    auth |-> r.ast = "CONNECTED"]
  <2>1. got' = got \cup {g}
    BY DEF Handles
  <2>2. g.auth
    BY <1>0
  <2>. HIDE DEF g
  <2>. QED
    BY <2>1, <2>2 DEF IInv, AuthenticatedFirst
<1>. HIDE DEF rd
<1>4. link' \in [Link -> LinkType] /\ SameEnds /\ Links'
  <2>1. CASE link' = rd
    BY <1>1, <2>1 DEF SameEnds, Links
  <2>2. ASSUME NEW k \in Pick(r.to, r.label),
               link' = Push(rd, r.to, k, Reply(Head(r.up).by))
        PROVE  link' \in [Link -> LinkType] /\ SameEnds /\ Links'
    <3>1. k \in Link /\ Used(link[k]) /\ link[k].from # r.to /\ link[k].ast = "CONNECTED"
      BY HandlesIs
    <3>2. Head(r.up).by = r.from
      BY <1>0 DEF Ask
    <3>3. link' = Push(rd, r.to, k, Reply(r.from))
      BY <2>2, <3>2
    <3>4. rd[k] \in LinkType /\ Sound(rd[k]) /\ rd[k].from # r.to /\ rd[k].ast = "CONNECTED"
      BY <1>1, <3>1 DEF Used
    <3>5. CASE rd[k].cut
      BY <1>1, <3>3, <3>4, <3>5 DEF Push, SameEnds, Links
    <3>6. CASE ~rd[k].cut
      <4>. DEFINE s == [rd[k] EXCEPT !.down = Append(@, Reply(r.from))]
      <4>1. link' = [rd EXCEPT ![k] = s]
        BY <3>3, <3>4, <3>6 DEF Push
      <4>2. s \in LinkType /\ Sound(s)
        BY <1>0, <3>4, <3>6, ReplySound
      <4>3. /\ s.from = rd[k].from /\ s.to = rd[k].to
            /\ s.dst = rd[k].dst /\ s.ast = rd[k].ast
        BY <3>4 DEF LinkType
      <4>. HIDE DEF s
      <4>. QED
        BY <1>1, <3>1, <4>1, <4>2, <4>3 DEF SameEnds, Links
    <3>. QED
      BY <3>5, <3>6
  <2>. QED
    BY <1>2, <2>1, <2>2
<1>. QED
  BY <1>2, <1>3, <1>4, SameEndsStep DEF IInv

-----------------------------------------------------------------------------
(* The invariant                                                           *)

LEMMA InitInv == Init => IInv
<1>. SUFFICES ASSUME Init PROVE IInv
  OBVIOUS
<1>1. <<>> \in Seq(Msgs) /\ <<>> \in Seq(Link)
  OBVIOUS
<1>2. NoLink \in LinkType /\ NoLink.dst = "GONE" /\ NoLink.ast = "GONE"
      /\ NoLink.from = None /\ NoLink.to = None
  BY <1>1 DEF NoLink, NewLink, LinkType
<1>3. VarTypes
  BY <1>1, <1>2 DEF Init, VarTypes
<1>4. \A l \in Link : link[l] = NoLink
  BY DEF Init
<1>5. Links /\ Coupled
  BY <1>2, <1>4 DEF Init, Links, Used, Coupled
<1>6. \A a \in Node : Holding(a) = {} /\ m_conns[a] = <<>>
  BY <1>2, <1>4 DEF Init, Holding, Held
<1>7. Listed
  BY <1>6 DEF Listed, IsList
<1>. QED
  BY <1>3, <1>5, <1>7 DEF Init, IInv, AuthenticatedFirst

LEMMA NextInv == IInv /\ [Next]_vars => IInv'
<1>. SUFFICES ASSUME IInv, [Next]_vars PROVE IInv'
  OBVIOUS
<1>1. CASE UNCHANGED vars
  <2>1. UNCHANGED <<link, m_conns, state, ctx, got>>
    BY <1>1 DEF vars
  <2>2. Links' /\ AuthenticatedFirst' /\ link' \in [Link -> LinkType] /\ SameEnds
    BY <2>1 DEF IInv, VarTypes, Links, AuthenticatedFirst, SameEnds
  <2>. QED
    BY <2>1, <2>2, SameEndsStep DEF IInv
<1>2. ASSUME NEW a \in Node, NEW b \in Node, Dial(a, b) \/ Redial(a, b) \/ Sends(a, b)
      PROVE  IInv'
  BY <1>2, DialStep, RedialStep, SendsStep
<1>3. ASSUME NEW l \in Link, Step(l) \/ Flush(l) \/ Cut(l)
      PROVE  IInv'
  BY <1>3, AuthenticationRspStep, DiallerFailsStep, AcceptStep, AuthenticationReqStep,
     AcceptorFailsStep, HandlesStep, GetsReplyStep, FlushStep, CutStep DEF Step
<1>. QED
  BY <1>1, <1>2, <1>3 DEF Next

-----------------------------------------------------------------------------
(* With one dialler for each acceptor                                      *)

(* Nothing comes down that was not there before, but answers.              *)
NoNewReply(s, r) ==
  /\ Used(s) => Used(r) /\ s.from = r.from
  /\ \A i \in 1..Len(s.down) :
       \/ \E j \in 1..Len(r.down) : s.down[i] = r.down[j]
       \/ s.down[i].t = "rsp"

LEMMA NoNewReplyStep ==
  ASSUME RepliesAreTrue, NEW l \in Link, NoNewReply(link'[l], link[l])
  PROVE  Used(link'[l]) => TrueReplies(link'[l])
<1>1. \A n : Reply(n).t # "rsp"
  BY DEF Reply
<1>. QED
  BY <1>1 DEF RepliesAreTrue, NoNewReply, TrueReplies

LEMMA TailIsOld ==
  ASSUME NEW r \in LinkType, r.down # <<>>
  PROVE  \A i \in 1..Len(Tail(r.down)) : \E j \in 1..Len(r.down) : Tail(r.down)[i] = r.down[j]
<1>1. /\ Len(r.down) \in Nat /\ Len(Tail(r.down)) = Len(r.down) - 1
      /\ \A i \in 1..(Len(r.down) - 1) : Tail(r.down)[i] = r.down[i + 1]
  BY DEF LinkType
<1>. QED
  BY <1>1

(* All steps but those that send a reply.                                  *)
LEMMA OtherReplies ==
  ASSUME IInv, RepliesAreTrue, NEW l \in Link,
         \/ \E a, b \in Node : Dial(a, b) \/ Redial(a, b) \/ Sends(a, b)
         \/ AuthenticationRsp(l) \/ DiallerFails(l) \/ Accept(l)
         \/ AuthenticationReq(l) \/ AcceptorFails(l) \/ GetsReply(l)
         \/ Flush(l) \/ Cut(l)
  PROVE  RepliesAreTrue'
<1>1. \A k \in Link : link[k] \in LinkType
  BY DEF IInv, VarTypes
<1>2. \A s, r : s.down = r.down /\ s.from = r.from /\ (Used(s) => Used(r)) => NoNewReply(s, r)
  BY DEF NoNewReply
<1>. SUFFICES ASSUME NEW k \in Link PROVE Used(link'[k]) => TrueReplies(link'[k])
  BY DEF RepliesAreTrue
<1>3. CASE link'[k].down = <<>>
  BY <1>3 DEF TrueReplies
<1>4. CASE link'[k].down = link[k].down /\ link'[k].from = link[k].from
           /\ (Used(link'[k]) => Used(link[k]))
  BY <1>2, <1>4, NoNewReplyStep
<1>5. CASE k # l /\ link'[k] = link[k]
  BY <1>4, <1>5
<1>6. ASSUME NEW a \in Node, NEW b \in Node, Dial(a, b)
      PROVE  Used(link'[k]) => TrueReplies(link'[k])
  <2>1. PICK j \in Link : link' = [link EXCEPT ![j] = NewLink(a, b, <<>>, <<Req(b)>>)]
    BY <1>6 DEF Dial
  <2>2. CASE k = j
    <3>1. link'[k].down = <<>>
      BY <2>1, <2>2 DEF IInv, VarTypes, NewLink
    <3>. QED
      BY <1>3, <3>1
  <2>3. CASE k # j
    <3>1. link'[k] = link[k]
      BY <2>1, <2>3 DEF IInv, VarTypes
    <3>. QED
      BY <1>4, <3>1
  <2>. QED
    BY <2>2, <2>3
<1>7. ASSUME NEW a \in Node, NEW b \in Node, Redial(a, b)
      PROVE  Used(link'[k]) => TrueReplies(link'[k])
  <2>1. state[a][b] = "FAILED" /\ ctx[a][b] # None
    BY <1>7 DEF Redial, IInv, Coupled
  <2>2. PICK old \in Link : old = ctx[a][b] /\ link[old].dst = "FAILED"
    BY <2>1, ContextIs DEF ConnState
  <2>3. PICK j \in Link :
          /\ Fresh(j)
          /\ link' = [link EXCEPT ![j] = Redialed(a, b, old), ![old].dst = "GONE"]
    BY <1>7, <2>2 DEF Redial
  <2>4. j # old
    BY <2>2, <2>3 DEF Fresh, Unused
  <2>5. CASE k = j
    <3>1. link'[k].down = <<>>
      BY <2>3, <2>4, <2>5 DEF IInv, VarTypes, Redialed, NewLink
    <3>. QED
      BY <1>3, <3>1
  <2>6. CASE k = old
    <3>1. link'[k] = [link[k] EXCEPT !.dst = "GONE"] /\ Used(link[k])
      BY <2>2, <2>3, <2>4, <2>6 DEF IInv, VarTypes, Used
    <3>2. link'[k].down = link[k].down /\ link'[k].from = link[k].from
      BY <1>1, <3>1 DEF LinkType
    <3>. QED
      BY <1>4, <3>1, <3>2
  <2>7. CASE k # j /\ k # old
    <3>1. link'[k] = link[k]
      BY <2>3, <2>7 DEF IInv, VarTypes
    <3>. QED
      BY <1>4, <3>1
  <2>. QED
    BY <2>5, <2>6, <2>7
<1>8. ASSUME NEW a \in Node, NEW b \in Node, Sends(a, b)
      PROVE  Used(link'[k]) => TrueReplies(link'[k])
  <2>1. PICK j \in Link : link' = [link EXCEPT ![j].q = Append(@, Ask(a, b))]
    BY <1>8, AsksAtDialler
  <2>2. /\ link'[k].down = link[k].down /\ link'[k].from = link[k].from
        /\ Used(link'[k]) => Used(link[k])
    BY <1>1, <2>1 DEF IInv, VarTypes, LinkType, Used
  <2>. QED
    BY <1>4, <2>2
<1>9. ASSUME \/ AuthenticationRsp(l) \/ DiallerFails(l) \/ Accept(l)
             \/ AuthenticationReq(l) \/ AcceptorFails(l) \/ GetsReply(l)
             \/ Flush(l) \/ Cut(l),
             k # l
      PROVE  link'[k] = link[k]
  <2>1. link \in [Link -> LinkType]
    BY DEF IInv, VarTypes
  <2>2. CASE AuthenticationRsp(l) \/ DiallerFails(l) \/ Accept(l) \/ GetsReply(l)
    BY <1>9, <2>1, <2>2 DEF AuthenticationRsp, DiallerFails, Accept, GetsReply
  <2>3. CASE AuthenticationReq(l) \/ AcceptorFails(l) \/ Flush(l) \/ Cut(l)
    BY <1>9, <2>1, <2>3 DEF AuthenticationReq, AcceptorFails, Flush, Cut
  <2>. QED
    BY <1>9, <2>2, <2>3
<1>10. ASSUME AuthenticationRsp(l) \/ GetsReply(l), k = l
       PROVE  Used(link'[k]) => TrueReplies(link'[k])
  <2>1. /\ link[k].down # <<>> /\ Used(link[k]) /\ link'[k].from = link[k].from
        /\ link'[k].down = Tail(link[k].down)
    <3>1. link \in [Link -> LinkType] /\ link[k] \in LinkType
      BY <1>1 DEF IInv, VarTypes
    <3>2. CASE AuthenticationRsp(l)
      BY <1>10, <3>1, <3>2 DEF AuthenticationRsp, Used, LinkType
    <3>3. CASE GetsReply(l)
      BY <1>10, <3>1, <3>3 DEF GetsReply, Used, LinkType
    <3>. QED
      BY <1>10, <3>2, <3>3
  <2>2. NoNewReply(link'[k], link[k])
    BY <1>1, <2>1, TailIsOld DEF NoNewReply
  <2>. QED
    BY <2>2, NoNewReplyStep
<1>11. ASSUME AuthenticationReq(l), k = l
       PROVE  Used(link'[k]) => TrueReplies(link'[k])
  <2>. DEFINE m == Head(link[l].up)
  <2>1. /\ Used(link[k]) /\ link'[k].from = link[k].from
        /\ \/ link'[k].down = link[k].down
           \/ link'[k].down = Append(link[k].down, Rsp(m.nid))
    BY <1>1, <1>11 DEF IInv, VarTypes, AuthenticationReq, Readable, Used, LinkType
  <2>2. Rsp(m.nid).t = "rsp" /\ link[k].down \in Seq(Msgs)
    BY <1>1 DEF Rsp, LinkType
  <2>. HIDE DEF m
  <2>3. NoNewReply(link'[k], link[k])
    <3>1. CASE link'[k].down = link[k].down
      BY <2>1, <3>1 DEF NoNewReply
    <3>2. CASE link'[k].down = Append(link[k].down, Rsp(m.nid))
      <4>. DEFINE d == link[k].down
                  x == Rsp(m.nid)
      <4>1. /\ Len(Append(d, x)) = Len(d) + 1 /\ Append(d, x)[Len(d) + 1] = x
            /\ \A i \in 1..Len(d) : Append(d, x)[i] = d[i]
            /\ Len(d) \in Nat
        BY <2>2
      <4>2. \A i \in 1..Len(Append(d, x)) :
              i \in 1..Len(d) \/ Append(d, x)[i].t = "rsp"
        BY <2>2, <4>1
      <4>. QED
        BY <2>1, <3>2, <4>1, <4>2 DEF NoNewReply
    <3>. QED
      BY <2>1, <3>1, <3>2
  <2>. QED
    BY <2>3, NoNewReplyStep
<1>12. ASSUME Cut(l), k = l
       PROVE  Used(link'[k]) => TrueReplies(link'[k])
  <2>1. link'[k].down = <<>>
    BY <1>1, <1>12 DEF IInv, VarTypes, Cut, LinkType
  <2>. QED
    BY <1>3, <2>1
<1>13. ASSUME DiallerFails(l) \/ Accept(l) \/ AcceptorFails(l) \/ Flush(l), k = l
       PROVE  Used(link'[k]) => TrueReplies(link'[k])
  <2>1. /\ link'[k].down = link[k].down /\ link'[k].from = link[k].from /\ Used(link[k])
    BY <1>1, <1>13 DEF IInv, VarTypes, DiallerFails, Accept, AcceptorFails, Flush, Used, LinkType
  <2>. QED
    BY <1>4, <2>1
<1>. QED
  BY <1>4, <1>5, <1>6, <1>7, <1>8, <1>9, <1>10, <1>11, <1>12, <1>13

(* A reply goes to the connection of the node that asked: both connections *)
(* carry the acceptor's label, and it has one dialler.                     *)
LEMMA HandlesReplies ==
  ASSUME HInv, OneDialler, NEW l \in Link, Handles(l)
  PROVE  RepliesAreTrue' /\ Reached'
<1>. DEFINE r == link[l]
            rd == Read(l)
<1>0. IInv
  BY DEF HInv
<1>1. /\ r.from \in Node /\ r.to \in Node /\ r.label = r.to /\ Sound(r)
      /\ Head(r.up) = Ask(r.from, r.to)
  BY <1>0, HandlesIs
<1>2. /\ rd \in [Link -> LinkType]
      /\ \A k \in Link : /\ rd[k].from = link[k].from /\ rd[k].down = link[k].down
                         /\ rd[k].dst = link[k].dst /\ rd[k].ast = link[k].ast
                         /\ rd[k].cut = link[k].cut
  BY <1>0, ReadIs
<1>3. \/ link' = rd
      \/ \E k \in Pick(r.to, r.label) : link' = Push(rd, r.to, k, Reply(r.from))
  <2>1. Head(r.up).by = r.from
    BY <1>1 DEF Ask
  <2>2. \/ link' = rd
        \/ \E k \in Pick(r.to, r.label) : link' = Push(rd, r.to, k, Reply(Head(r.up).by))
    BY DEF Handles, Read
  <2>. QED
    BY <2>1, <2>2
<1>. HIDE DEF rd
<1>4. \A k \in Link : Used(rd[k]) => TrueReplies(rd[k])
  BY <1>2 DEF HInv, RepliesAreTrue, TrueReplies, Used
<1>5. ASSUME NEW k \in Pick(r.to, r.label), link' = Push(rd, r.to, k, Reply(r.from))
      PROVE  RepliesAreTrue'
  <2>1. /\ k \in Link /\ Used(link[k]) /\ link[k].from # r.to /\ link[k].to = r.to
    BY <1>0, HandlesIs
  <2>2. link[k].from = r.from
    <3>1. Sound(link[k])
      BY <1>0, <2>1 DEF IInv, Links
    <3>2. <<link[k].from, r.to>> \in Dials /\ <<r.from, r.to>> \in Dials
      BY <1>1, <2>1, <3>1 DEF Sound
    <3>. QED
      BY <3>2 DEF OneDialler
  <2>3. CASE rd[k].cut
    BY <1>2, <1>4, <1>5, <2>1, <2>3 DEF Push, RepliesAreTrue
  <2>4. CASE ~rd[k].cut
    <3>. DEFINE x == Reply(r.from)
                d == rd[k].down
                s == [rd[k] EXCEPT !.down = Append(@, x)]
    <3>1. link' = [rd EXCEPT ![k] = s]
      BY <1>2, <1>5, <2>1, <2>4 DEF Push
    <3>2. rd[k] \in LinkType /\ rd[k].from = r.from /\ d \in Seq(Msgs) /\ TrueReplies(rd[k])
      BY <1>2, <1>4, <2>1, <2>2 DEF LinkType, Used
    <3>3. s.down = Append(d, x) /\ s.from = r.from
      BY <3>2 DEF LinkType
    <3>4. /\ Len(Append(d, x)) = Len(d) + 1 /\ Append(d, x)[Len(d) + 1] = x
          /\ \A i \in 1..Len(d) : Append(d, x)[i] = d[i]
          /\ Len(d) \in Nat
      BY <3>2
    <3>5. \A n : x = Reply(n) => n = r.from
      <4>1. x.to = r.from /\ \A n : Reply(n).to = n
        BY DEF Reply
      <4>. QED
        BY <4>1
    <3>. HIDE DEF x, s
    <3>6. TrueReplies(s)
      BY <3>2, <3>3, <3>4, <3>5 DEF TrueReplies
    <3>. QED
      BY <1>2, <1>4, <2>1, <3>1, <3>6 DEF RepliesAreTrue
  <2>. QED
    BY <2>3, <2>4
<1>6. RepliesAreTrue'
  BY <1>3, <1>4, <1>5 DEF RepliesAreTrue
<1>7. Reached'
  <2>. DEFINE g == [m |-> Head(r.up), at |-> r.to, label |-> r.label,
                    auth |-> r.ast = "CONNECTED"]
  <2>1. got' = got \cup {g}
    BY DEF Handles
  <2>2. g.at = g.m.to
    BY <1>1 DEF Ask
  <2>. HIDE DEF g
  <2>. QED
    BY <2>1, <2>2 DEF HInv, Reached
<1>. QED
  BY <1>6, <1>7

LEMMA GetsReplyReaches ==
  ASSUME HInv, NEW l \in Link, GetsReply(l)
  PROVE  Reached'
<1>. DEFINE r == link[l]
            g == [m |-> Head(r.down), at |-> r.from, label |-> r.to, auth |-> TRUE]
<1>1. /\ r \in LinkType /\ Used(r) /\ Sound(r) /\ r.down # <<>> /\ r.down \in Seq(Msgs)
      /\ Head(r.down).t = "reply" /\ TrueReplies(r)
  BY DEF HInv, RepliesAreTrue, GetsReply, IInv, VarTypes, Links, Used, LinkType
<1>2. 1 \in 1..Len(r.down) /\ Head(r.down) = r.down[1]
  BY <1>1
<1>3. PICK n \in Node : r.down[1] = Reply(n)
  <2>1. Rsp(r.to).t # "reply"
    BY DEF Rsp
  <2>. QED
    BY <1>1, <1>2, <2>1 DEF Sound, DownIs
<1>4. n = r.from /\ Reply(n).to = n
  BY <1>1, <1>2, <1>3 DEF TrueReplies, Reply
<1>5. g.at = g.m.to
  BY <1>2, <1>3, <1>4
<1>6. got' = got \cup {g}
  BY DEF GetsReply
<1>. HIDE DEF g
<1>. QED
  BY <1>5, <1>6 DEF HInv, Reached

LEMMA InitHInv == Init => HInv
<1>. SUFFICES ASSUME Init PROVE HInv
  OBVIOUS
<1>1. \A l \in Link : ~Used(link[l])
  BY DEF Init, NoLink, NewLink, Used
<1>2. RepliesAreTrue
  BY <1>1 DEF RepliesAreTrue
<1>. QED
  BY <1>2, InitInv DEF HInv, Init, Reached

LEMMA NextHInv == OneDialler /\ HInv /\ [Next]_vars => HInv'
<1>. SUFFICES ASSUME OneDialler, HInv, [Next]_vars PROVE HInv'
  OBVIOUS
<1>0. IInv /\ IInv' /\ RepliesAreTrue /\ Reached
  BY NextInv DEF HInv
<1>1. CASE UNCHANGED vars
  <2>1. RepliesAreTrue' /\ Reached'
    BY <1>0, <1>1 DEF vars, RepliesAreTrue, Reached
  <2>. QED
    BY <1>0, <2>1 DEF HInv
<1>2. ASSUME NEW l \in Link, Handles(l) PROVE HInv'
  BY <1>0, <1>2, HandlesReplies DEF HInv
<1>3. ASSUME NEW l \in Link, GetsReply(l) PROVE HInv'
  BY <1>0, <1>3, GetsReplyReaches, OtherReplies DEF HInv
<1>4. ASSUME NEW a \in Node, NEW b \in Node, Dial(a, b) \/ Redial(a, b) \/ Sends(a, b)
      PROVE  HInv'
  <2>1. UNCHANGED got
    BY <1>4 DEF Dial, Redial, Sends
  <2>2. Link # {}
    <3>1. CASE Dial(a, b) \/ Redial(a, b)
      BY <3>1 DEF Dial, Redial
    <3>2. CASE Sends(a, b)
      BY <1>0, <3>2, AsksAtDialler, ContextIs DEF Sends
    <3>. QED
      BY <1>4, <3>1, <3>2
  <2>3. RepliesAreTrue'
    BY <1>0, <1>4, <2>2, OtherReplies
  <2>. QED
    BY <1>0, <2>1, <2>3 DEF HInv, Reached
<1>5. ASSUME NEW l \in Link,
             \/ AuthenticationRsp(l) \/ DiallerFails(l) \/ Accept(l)
             \/ AuthenticationReq(l) \/ AcceptorFails(l) \/ Flush(l) \/ Cut(l)
      PROVE  HInv'
  <2>1. UNCHANGED got
    BY <1>5 DEF AuthenticationRsp, DiallerFails, Accept, AuthenticationReq, AcceptorFails,
       Flush, Cut
  <2>2. RepliesAreTrue'
    BY <1>0, <1>5, OtherReplies
  <2>. QED
    BY <1>0, <2>1, <2>2 DEF HInv, Reached
<1>. QED
  BY <1>1, <1>2, <1>3, <1>4, <1>5 DEF Next, Step

-----------------------------------------------------------------------------
(* Theorems                                                                *)

(* The inductive invariant holds however connections are set up, broken    *)
(* and replaced (ServiceNode::checkState, TcpServer::read).                *)
THEOREM Invariance == Spec => []IInv
BY InitInv, NextInv, PTL DEF Spec

(* The types, and that NetManager's lists hold the ends there are.         *)
THEOREM TypeCorrect == Spec => []TypeOK
<1>1. ASSUME IInv, NEW a \in Node PROVE ToSet(m_conns[a]) = Holding(a)
  <2>1. m_conns[a] \in Seq(Link) /\ IsList(m_conns[a], Holding(a))
    BY <1>1 DEF IInv, VarTypes, Listed
  <2>2. ToSet(m_conns[a]) = {m_conns[a][i] : i \in 1..Len(m_conns[a])}
    BY <2>1 DEF ToSet
  <2>. QED
    BY <2>1, <2>2 DEF IsList
<1>2. IInv => TypeOK
  BY <1>1 DEF IInv, VarTypes, TypeOK, Holding, Held
<1>. QED
  BY <1>2, Invariance, PTL

(* A node that is taken for able has answered on the connection it has now *)
(* (NodeMgr::AuthenticationRsp, notifyNodeState).                          *)
LEMMA AbleInv == IInv => AbleWasAnswered
<1>. SUFFICES ASSUME IInv, NEW a \in Node, NEW b \in Node, state[a][b] = "ABLE"
     PROVE LET l == link[ctx[a][b]] IN
           l.dst = "CONNECTED" /\ l.ast \in {"CONNECTED", "GONE"} /\ l.label = b
  BY DEF AbleWasAnswered
<1>1. ctx[a][b] # None
  BY DEF IInv, Coupled
<1>2. /\ ctx[a][b] \in Link /\ link[ctx[a][b]].to = b
      /\ link[ctx[a][b]].dst = "CONNECTED"
  BY <1>1, ContextIs DEF ConnState
<1>. QED
  BY <1>2 DEF IInv, Links, Used, Sound

(* Both hold for any pairs that dial.                                      *)
THEOREM AnsweredAndInOrder == Spec => [](AbleWasAnswered /\ AuthenticatedFirst)
<1>1. IInv => AbleWasAnswered /\ AuthenticatedFirst
  BY AbleInv DEF IInv
<1>. QED
  BY <1>1, Invariance, PTL

(* What the run checks of the handshake, for any number of nodes,          *)
(* connections, messages and breaks: also that, when no node is dialled by *)
(* two others, requests and replies reach the node they are for.           *)
THEOREM HandshakeCorrect == Spec => []LinksAreTrue
<1>1. Spec => [](OneDialler => HInv)
  <2>1. CASE OneDialler
    <3>1. Init => HInv
      BY InitHInv
    <3>2. HInv /\ [Next]_vars => HInv'
      BY <2>1, NextHInv
    <3>3. Spec => []HInv
      BY <3>1, <3>2, PTL DEF Spec
    <3>4. HInv => (OneDialler => HInv)
      OBVIOUS
    <3>. QED
      BY <3>3, <3>4, PTL
  <2>2. CASE ~OneDialler
    <3>1. OneDialler => HInv
      BY <2>2
    <3>. QED
      BY <3>1, PTL
  <2>. QED
    BY <2>1, <2>2
<1>2. (OneDialler => HInv) => ReachesItsNode
  BY DEF HInv, Reached, ReachesItsNode
<1>3. TypeOK /\ AbleWasAnswered /\ AuthenticatedFirst /\ ReachesItsNode => LinksAreTrue
  BY DEF LinksAreTrue
<1>. QED
  BY <1>1, <1>2, <1>3, TypeCorrect, AnsweredAndInOrder, PTL
=============================================================================
