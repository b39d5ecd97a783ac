------------------------- MODULE PacketParserProofs -------------------------
(***************************************************************************)
(* Proofs about PacketParser, for any header length, buffer size, bodies   *)
(* and junk: the buffers are never overrun and always have room, packets   *)
(* come out as they went in when nothing else was sent (PacketsIntact),    *)
(* and between junk no packet is made up, reordered or doubled, and the    *)
(* parser keeps its step (JunkIsPassedOver).                               *)
(*                                                                         *)
(* The properties relate what comes out to what the peer sent long before. *)
(* The invariant that connects the two lays out everything the peer sent   *)
(* as one sequence of bytes S: piece k of "sent" takes the bytes from      *)
(* pos[k] + 1 to pos[k + 1], the parser has consumed the first c bytes,    *)
(* and what is still in its hands or on its way (Stream) is the rest.      *)
(***************************************************************************)
EXTENDS PacketParser, SequenceTheorems, TLAPS

(* What is not yet cut: set aside, in the buffer, on its way.              *)
Stream == (pkt \o buf) \o net

(* The pieces are packets, each with its number, or junk.                  *)
Frames ==
  \A k \in 1..Len(sent) : IsPacket(k) => \E b \in Body : sent[k] = Packet(k, b)

Layout(S, pos, c) ==
  /\ S \in Seq(Nat) /\ c \in Nat
  /\ pos \in [1..(Len(sent) + 1) -> Nat]
  /\ pos[1] = 0 /\ pos[Len(sent) + 1] = Len(S)
  /\ \A k \in 1..Len(sent) : pos[k + 1] = pos[k] + Len(sent[k])
  /\ \A j, k \in 1..(Len(sent) + 1) : j <= k => pos[j] <= pos[k]
  /\ \A i \in 1..Len(S) : \E k \in 1..Len(sent) : pos[k] < i /\ i <= pos[k + 1]
  /\ \A k \in 1..Len(sent) : \A i \in 1..Len(sent[k]) : S[pos[k] + i] = sent[k][i]
  /\ Len(S) = c + Len(Stream)
  /\ \A i \in 1..Len(Stream) : Stream[i] = S[c + i]

(* As long as only packets were sent, what was cut are the first of them.  *)
InStep(pos, c) ==
  /\ Len(out) <= Len(sent)
  /\ c = pos[Len(out) + 1]
  /\ \A i \in 1..Len(out) : out[i].pkt = sent[i]

(* With junk, what was cut are some of the packets that were consumed.     *)
Handled(pos, c) ==
  \A i \in 1..Len(out) :
    /\ Number(i) \in 1..Len(sent)
    /\ out[i].pkt = sent[Number(i)]
    /\ pos[Number(i) + 1] <= c
    /\ \A j \in 1..(i - 1) : Number(j) < Number(i)

(* What is set aside is the beginning of a packet.                         *)
Aside(pos, c) ==
  less > 0 => \E k \in 1..Len(sent) : pos[k] = c /\ IsPacket(k)

(* A packet that follows one that was cut, and was not cut, is next.       *)
NextInLine(pos, c) ==
  \A k \in 1..Len(sent) :
    /\ k + 1 <= Len(sent) /\ IsPacket(k + 1)
    /\ Cut(k) /\ ~Cut(k + 1)
    => c = pos[k + 1]

Placed(S, pos, c) ==
  /\ Layout(S, pos, c)
  /\ OnlyPackets => InStep(pos, c)
  /\ Plain => Handled(pos, c) /\ Aside(pos, c) /\ NextInLine(pos, c)

IInv ==
  /\ TypeOK /\ BuffersFit /\ RoomToRead /\ Frames
  /\ \E S, pos, c : Placed(S, pos, c)

-----------------------------------------------------------------------------
(* Types, and the buffers                                                  *)

LEMMA PrefixRest ==
  ASSUME NEW s \in Seq(Nat), NEW n \in 0..Len(s)
  PROVE  /\ Prefix(s, n) \in Seq(Nat) /\ Len(Prefix(s, n)) = n
         /\ \A i \in 1..n : Prefix(s, n)[i] = s[i]
         /\ Rest(s, n) \in Seq(Nat) /\ Len(Rest(s, n)) = Len(s) - n
         /\ \A i \in 1..(Len(s) - n) : Rest(s, n)[i] = s[n + i]
<1>1. Len(s) \in Nat /\ \A i \in 1..Len(s) : s[i] \in Nat
  BY ElementOfSeq, LenProperties
<1>2. /\ Prefix(s, n) \in Seq(Nat) /\ Len(Prefix(s, n)) = n
      /\ \A i \in 1..n : Prefix(s, n)[i] = s[i]
  <2>1. \A i \in 1..n : s[i] \in Nat
    BY <1>1
  <2>2. /\ SubSeq(s, 1, n) \in Seq(Nat)
        /\ Len(SubSeq(s, 1, n)) = IF 1 <= n THEN n - 1 + 1 ELSE 0
        /\ \A i \in 1..(n - 1 + 1) : SubSeq(s, 1, n)[i] = s[1 + i - 1]
    BY <2>1, SubSeqProperties, <1>1
  <2>. QED
    BY <2>2, <1>1 DEF Prefix
<1>3. /\ Rest(s, n) \in Seq(Nat) /\ Len(Rest(s, n)) = Len(s) - n
      /\ \A i \in 1..(Len(s) - n) : Rest(s, n)[i] = s[n + i]
  <2>1. \A i \in (n + 1)..Len(s) : s[i] \in Nat
    BY <1>1
  <2>2. /\ SubSeq(s, n + 1, Len(s)) \in Seq(Nat)
        /\ Len(SubSeq(s, n + 1, Len(s))) = IF n + 1 <= Len(s) THEN Len(s) - (n + 1) + 1 ELSE 0
        /\ \A i \in 1..(Len(s) - (n + 1) + 1) : SubSeq(s, n + 1, Len(s))[i] = s[(n + 1) + i - 1]
    BY <2>1, SubSeqProperties, <1>1
  <2>. QED
    BY <2>2, <1>1 DEF Rest
<1>. QED
  BY <1>2, <1>3

(* A packet: tags, number, and length of the body are where they are       *)
(* looked for.                                                             *)
LEMMA PacketFacts ==
  ASSUME NEW k \in Nat, NEW b \in Body
  PROVE  /\ Packet(k, b) \in Seq(Nat)
         /\ Len(Packet(k, b)) = HeadLen + Len(b)
         /\ Packet(k, b)[1] = Tag1 /\ Packet(k, b)[2] = Tag2
         /\ Packet(k, b)[3] = k /\ Packet(k, b)[HeadLen] = Len(b)
<1>. USE PacketParserAssumption
<1>1. b \in Seq(Nat) /\ Len(b) \in Nat
  OBVIOUS
<1>. DEFINE h == Header(k, Len(b))
<1>2. /\ h \in Seq(Nat) /\ Len(h) = HeadLen
      /\ h[1] = Tag1 /\ h[2] = Tag2 /\ h[3] = k /\ h[HeadLen] = Len(b)
  <2>1. h \in [1..HeadLen -> Nat]
    BY <1>1 DEF Header
  <2>2. h \in Seq(Nat) /\ Len(h) = HeadLen
    BY <2>1
  <2>3. /\ h[1] = Tag1 /\ h[2] = Tag2 /\ h[3] = k
    BY DEF Header
  <2>4. h[HeadLen] = Len(b)
    BY DEF Header
  <2>. QED
    BY <2>2, <2>3, <2>4
<1>. HIDE DEF h
<1>3. /\ h \o b \in Seq(Nat) /\ Len(h \o b) = Len(h) + Len(b)
      /\ \A i \in 1..(Len(h) + Len(b)) : (h \o b)[i] = IF i <= Len(h) THEN h[i] ELSE b[i - Len(h)]
  BY <1>1, <1>2, ConcatProperties
<1>4. \A i \in 1..HeadLen : (h \o b)[i] = h[i]
  BY <1>1, <1>2, <1>3
<1>5. Packet(k, b) = h \o b
  BY DEF Packet, h
<1>. QED
  BY <1>1, <1>2, <1>3, <1>4, <1>5

LEMMA ConcatFacts ==
  ASSUME NEW s \in Seq(Nat), NEW t \in Seq(Nat)
  PROVE  /\ s \o t \in Seq(Nat) /\ Len(s \o t) = Len(s) + Len(t)
         /\ \A i \in 1..Len(s) : (s \o t)[i] = s[i]
         /\ \A i \in 1..Len(t) : (s \o t)[Len(s) + i] = t[i]
<1>1. Len(s) \in Nat /\ Len(t) \in Nat
  BY LenProperties
<1>2. /\ s \o t \in Seq(Nat) /\ Len(s \o t) = Len(s) + Len(t)
      /\ \A i \in 1..(Len(s) + Len(t)) : (s \o t)[i] = IF i <= Len(s) THEN s[i] ELSE t[i - Len(s)]
  BY ConcatProperties
<1>3. \A i \in 1..Len(s) : (s \o t)[i] = s[i]
  BY <1>1, <1>2
<1>4. ASSUME NEW i \in 1..Len(t) PROVE (s \o t)[Len(s) + i] = t[i]
  <2>1. Len(s) + i \in 1..(Len(s) + Len(t)) /\ ~(Len(s) + i <= Len(s)) /\ Len(s) + i - Len(s) = i
    BY <1>1
  <2>. QED
    BY <1>2, <2>1
<1>. QED
  BY <1>2, <1>3, <1>4

LEMMA SendTypes ==
  ASSUME TypeOK, NEW f, f \in {Packet(Len(sent) + 1, b) : b \in Body} \cup Junk
  PROVE  f \in Seq(Nat)
<1>1. Len(sent) + 1 \in Nat
  BY LenProperties DEF TypeOK
<1>. QED
  BY <1>1, PacketFacts, PacketParserAssumption

(* How a packet is handed out.                                             *)
LEMMA HandleFacts ==
  ASSUME TypeOK, NEW p \in Seq(Nat), Handle(p)
  PROVE  /\ out' \in Seq([pkt : Seq(Nat), ok : BOOLEAN])
         /\ Len(out') = Len(out) + 1
         /\ \A i \in 1..Len(out) : out'[i] = out[i]
         /\ out'[Len(out) + 1].pkt = p
<1>1. PICK ok \in BOOLEAN : out' = Append(out, [pkt |-> p, ok |-> ok])
  <2>1. PICK ok \in Check(p) : out' = Append(out, [pkt |-> p, ok |-> ok])
    BY DEF Handle
  <2>2. Check(p) \subseteq BOOLEAN
    BY DEF Check
  <2>. QED
    BY <2>1, <2>2
<1>2. [pkt |-> p, ok |-> ok] \in [pkt : Seq(Nat), ok : BOOLEAN]
  OBVIOUS
<1>. QED
  BY <1>1, <1>2, AppendProperties DEF TypeOK

Buffers == TypeOK /\ BuffersFit /\ RoomToRead

LEMMA InitBuffers == Init => Buffers
<1>. SUFFICES ASSUME Init PROVE Buffers
  OBVIOUS
<1>1. <<>> \in Seq(Nat) /\ Len(<<>>) = 0
      /\ <<>> \in Seq(Seq(Nat)) /\ <<>> \in Seq([pkt : Seq(Nat), ok : BOOLEAN])
  BY EmptySeq
<1>. QED
  BY <1>1, PacketParserAssumption DEF Init, Buffers, TypeOK, BuffersFit, RoomToRead, Room

LEMMA LengthByte ==
  ASSUME NEW s \in Seq(Nat), Len(s) >= HeadLen
  PROVE  s[HeadLen] \in Nat /\ PktLen(s) \in Nat /\ PktLen(s) >= HeadLen
BY PacketParserAssumption, ElementOfSeq DEF PktLen

(* The first n bytes of the stream are gone.                               *)
Moves(n) ==
  /\ n \in 0..Len(Stream)
  /\ Len(Stream') = Len(Stream) - n
  /\ \A i \in 1..(Len(Stream) - n) : Stream'[i] = Stream[n + i]

LEMMA StreamFacts ==
  ASSUME TypeOK
  PROVE  /\ Stream \in Seq(Nat)
         /\ Len(pkt) \in Nat /\ Len(buf) \in Nat /\ Len(net) \in Nat
         /\ Len(Stream) = Len(pkt) + Len(buf) + Len(net)
         /\ \A i \in 1..Len(pkt) : Stream[i] = pkt[i]
         /\ \A i \in 1..Len(buf) : Stream[Len(pkt) + i] = buf[i]
         /\ \A i \in 1..Len(net) : Stream[Len(pkt) + Len(buf) + i] = net[i]
<1>1. Len(pkt) \in Nat /\ Len(buf) \in Nat /\ Len(net) \in Nat
  BY LenProperties DEF TypeOK
<1>2. /\ pkt \o buf \in Seq(Nat) /\ Len(pkt \o buf) = Len(pkt) + Len(buf)
      /\ \A i \in 1..Len(pkt) : (pkt \o buf)[i] = pkt[i]
      /\ \A i \in 1..Len(buf) : (pkt \o buf)[Len(pkt) + i] = buf[i]
  BY ConcatFacts DEF TypeOK
<1>3. /\ Stream \in Seq(Nat) /\ Len(Stream) = Len(pkt \o buf) + Len(net)
      /\ \A i \in 1..Len(pkt \o buf) : Stream[i] = (pkt \o buf)[i]
      /\ \A i \in 1..Len(net) : Stream[Len(pkt \o buf) + i] = net[i]
  BY <1>2, ConcatFacts DEF TypeOK, Stream
<1>4. \A i \in 1..Len(buf) : Len(pkt) + i \in 1..Len(pkt \o buf)
  BY <1>1, <1>2
<1>5. \A i \in 1..Len(pkt) : i \in 1..Len(pkt \o buf)
  BY <1>1, <1>2
<1>. QED
  BY <1>1, <1>2, <1>3, <1>4, <1>5

LEMMA Regroup ==
  ASSUME NEW s \in Seq(Nat), NEW t \in Seq(Nat), NEW u \in Seq(Nat)
  PROVE  s \o (t \o u) = (s \o t) \o u
BY ConcatAssociative, SMTT(30)

LEMMA StreamKept ==
  ASSUME TypeOK, Stream' = Stream
  PROVE  Moves(0)
BY StreamFacts, LenProperties DEF Moves

(* What a read takes from the network is behind what is there.             *)
LEMMA ReadStep ==
  ASSUME Buffers, NEW n \in Nat, n <= Room, n <= Len(net),
         buf' = buf \o Prefix(net, n), net' = Rest(net, n),
         UNCHANGED <<pkt, less, sent, out>>, pc' \in {"parse", "closed"}
  PROVE  Buffers' /\ Moves(0)
<1>1. net \in Seq(Nat) /\ buf \in Seq(Nat) /\ pkt \in Seq(Nat) /\ Len(net) \in Nat /\ Len(buf) \in Nat /\ Len(pkt) \in Nat
  BY LenProperties DEF Buffers, TypeOK
<1>2. /\ Prefix(net, n) \in Seq(Nat) /\ Len(Prefix(net, n)) = n
      /\ Rest(net, n) \in Seq(Nat)
  BY <1>1, PrefixRest
<1>3. buf' \in Seq(Nat) /\ Len(buf') = Len(buf) + n
  BY <1>1, <1>2, ConcatFacts
<1>4. Buffers'
  BY <1>1, <1>2, <1>3, PacketParserAssumption DEF Buffers, TypeOK, BuffersFit, RoomToRead, Room
<1>5. Prefix(net, n) \o Rest(net, n) = net
  <2>1. SubSeq(net, 1, n) \o SubSeq(net, n + 1, Len(net)) = SubSeq(net, 1, Len(net))
    BY <1>1, 1 \in 1..(Len(net) + 1), n \in (1 - 1)..Len(net), Len(net) \in n..Len(net),
       ConcatAdjacentSubSeq
  <2>. QED
    BY <2>1, <1>1, SubSeqFull DEF Prefix, Rest
<1>6. Stream' = Stream
  <2>1. pkt \o (buf \o Prefix(net, n)) = (pkt \o buf) \o Prefix(net, n)
    BY <1>1, <1>2, Regroup
  <2>2. pkt \o buf \in Seq(Nat)
    BY <1>1, ConcatFacts
  <2>3. ((pkt \o buf) \o Prefix(net, n)) \o Rest(net, n) = (pkt \o buf) \o (Prefix(net, n) \o Rest(net, n))
    BY <2>2, <1>2, ConcatAssociative, SMTT(30)
  <2>. QED
    BY <2>1, <2>3, <1>5, Zenon DEF Stream
<1>. QED
  BY <1>4, <1>6, StreamKept DEF Buffers

LEMMA SendStep ==
  ASSUME Buffers, Send
  PROVE  Buffers'
<1>1. PICK f \in {Packet(Len(sent) + 1, b) : b \in Body} \cup Junk :
        sent' = Append(sent, f) /\ net' = net \o f
  BY DEF Send
<1>2. f \in Seq(Nat)
  BY SendTypes DEF Buffers
<1>3. net' \in Seq(Nat) /\ sent' \in Seq(Seq(Nat))
  BY <1>1, <1>2, ConcatFacts, AppendProperties DEF Buffers, TypeOK
<1>. QED
  BY <1>3 DEF Send, Buffers, TypeOK, BuffersFit, RoomToRead, Room

LEMMA LeaveLoopStep ==
  ASSUME Buffers, LeaveLoop
  PROVE  Buffers' /\ Moves(0)
<1>1. Buffers'
  BY PacketParserAssumption DEF LeaveLoop, Buffers, TypeOK, BuffersFit, RoomToRead, Room
<1>2. Stream' = Stream
  BY DEF LeaveLoop, Stream
<1>. QED
  BY <1>1, <1>2, StreamKept DEF Buffers

(* n bytes at the front of the buffer are done with, nothing is set aside. *)
LEMMA BufferMoves ==
  ASSUME Buffers, pkt = <<>>, pkt' = <<>>, less' = 0, NEW n \in 0..Len(buf),
         buf' = Rest(buf, n) \/ (n = Len(buf) /\ buf' = <<>>), net' = net, sent' = sent,
         out' \in Seq([pkt : Seq(Nat), ok : BOOLEAN]),
         pc' \in {"idle", "parse", "closed"}, pc' = "idle" => buf' = <<>>
  PROVE  Buffers' /\ Moves(n)
<1>0. Len(<<>>) = 0 /\ <<>> \in Seq(Nat)
  BY EmptySeq
<1>1. net \in Seq(Nat) /\ buf \in Seq(Nat) /\ pkt \in Seq(Nat) /\ Len(net) \in Nat /\ Len(buf) \in Nat /\ Len(pkt) = 0
  BY LenProperties, EmptySeq DEF Buffers, TypeOK
<1>2. /\ buf' \in Seq(Nat) /\ Len(buf') = Len(buf) - n
      /\ \A i \in 1..(Len(buf) - n) : buf'[i] = buf[n + i]
  <2>1. CASE buf' = Rest(buf, n)
    BY <1>1, <2>1, PrefixRest
  <2>2. CASE n = Len(buf) /\ buf' = <<>>
    BY <1>0, <1>1, <2>2
  <2>. QED
    BY <2>1, <2>2
<1>3. Buffers'
  BY <1>0, <1>1, <1>2, PacketParserAssumption DEF Buffers, TypeOK, BuffersFit, RoomToRead, Room
<1>4. /\ Len(Stream) = Len(buf) + Len(net)
      /\ \A i \in 1..Len(buf) : Stream[i] = buf[i]
      /\ \A i \in 1..Len(net) : Stream[Len(buf) + i] = net[i]
  <2>1. TypeOK
    BY DEF Buffers
  <2>2. /\ Len(Stream) = Len(pkt) + Len(buf) + Len(net)
        /\ \A i \in 1..Len(buf) : Stream[Len(pkt) + i] = buf[i]
        /\ \A i \in 1..Len(net) : Stream[Len(pkt) + Len(buf) + i] = net[i]
    BY <2>1, StreamFacts
  <2>3. /\ Len(pkt) + Len(buf) = Len(buf)
        /\ \A i \in 1..Len(buf) : Len(pkt) + i = i
    BY <1>1
  <2>. QED
    BY <2>2, <2>3
<1>5. TypeOK'
  BY <1>3 DEF Buffers
<1>6. /\ Len(Stream') = Len(buf') + Len(net)
      /\ \A i \in 1..Len(buf') : Stream'[i] = buf'[i]
      /\ \A i \in 1..Len(net) : Stream'[Len(buf') + i] = net[i]
  <2>1. pkt' \in Seq(Nat) /\ Len(pkt') = 0 /\ net' = net /\ Len(buf') \in Nat
    BY <1>0, <1>2, LenProperties
  <2>2. (/\ Len(Stream) = Len(pkt) + Len(buf) + Len(net)
         /\ \A i \in 1..Len(buf) : Stream[Len(pkt) + i] = buf[i]
         /\ \A i \in 1..Len(net) : Stream[Len(pkt) + Len(buf) + i] = net[i])'
    BY <1>5, StreamFacts, PTL
  <2>. QED
    BY <2>1, <2>2, <1>1
<1>7. ASSUME NEW i \in 1..(Len(Stream) - n) PROVE Stream'[i] = Stream[n + i]
  <2>1. CASE i <= Len(buf) - n
    <3>1. n + i \in 1..Len(buf) /\ i \in 1..(Len(buf) - n) /\ i \in 1..Len(buf')
      BY <2>1, <1>1, <1>2
    <3>. QED
      BY <3>1, <1>2, <1>4, <1>6
  <2>2. CASE ~(i <= Len(buf) - n)
    <3>. DEFINE j == i - (Len(buf) - n)
    <3>1. j \in 1..Len(net) /\ Len(buf') + j = i /\ Len(buf) + j = n + i
      BY <2>2, <1>1, <1>2, <1>4
    <3>. QED
      BY <3>1, <1>4, <1>6, ZenonT(60)
  <2>. QED
    BY <2>1, <2>2
<1>8. n \in 0..Len(Stream) /\ Len(Stream') = Len(Stream) - n
  BY <1>1, <1>2, <1>4, <1>6
<1>. QED
  BY <1>3, <1>7, <1>8 DEF Moves

LEMMA CutWholeStep ==
  ASSUME Buffers, CutWhole
  PROVE  /\ Buffers' /\ pkt = <<>> /\ PktLen(buf) \in 1..Len(buf) /\ Moves(PktLen(buf))
<1>1. less = 0 /\ pkt = <<>> /\ buf \in Seq(Nat) /\ Len(buf) \in Nat
  BY LenProperties DEF CutWhole, Buffers, BuffersFit, TypeOK
<1>2. PktLen(buf) \in 1..Len(buf)
  BY <1>1, LengthByte, PacketParserAssumption DEF CutWhole, InLoop
<1>3. Prefix(buf, PktLen(buf)) \in Seq(Nat)
  BY <1>1, <1>2, PrefixRest
<1>4. out' \in Seq([pkt : Seq(Nat), ok : BOOLEAN])
  BY <1>3, HandleFacts DEF CutWhole, Buffers
<1>5. Buffers' /\ Moves(PktLen(buf))
  BY <1>1, <1>2, <1>4, BufferMoves DEF CutWhole, InLoop
<1>. QED
  BY <1>1, <1>2, <1>5

LEMMA SkipToHeaderStep ==
  ASSUME Buffers, SkipToHeader
  PROVE  Buffers' /\ \E n \in 0..Len(buf) : Moves(n)
<1>1. less = 0 /\ pkt = <<>> /\ buf \in Seq(Nat) /\ Len(buf) \in Nat
      /\ out' \in Seq([pkt : Seq(Nat), ok : BOOLEAN]) /\ less' = 0 /\ pkt' = <<>>
      /\ net' = net /\ sent' = sent /\ pc = "parse"
  BY LenProperties DEF SkipToHeader, InLoop, Buffers, BuffersFit, TypeOK
<1>2. PICK i \in 2..Len(buf) :
        \/ buf' = <<>> /\ pc' = "idle"
        \/ buf' = Rest(buf, i - 1) /\ pc' = pc
  BY DEF SkipToHeader
<1>3. CASE buf' = <<>> /\ pc' = "idle"
  <2>1. Len(buf) \in 0..Len(buf)
    BY <1>1
  <2>. QED
    BY <1>1, <1>3, <2>1, BufferMoves
<1>4. CASE buf' = Rest(buf, i - 1) /\ pc' = pc
  <2>1. i - 1 \in 0..Len(buf)
    BY <1>1
  <2>. QED
    BY <1>1, <1>4, <2>1, BufferMoves
<1>. QED
  BY <1>2, <1>3, <1>4

LEMMA SkipAllStep ==
  ASSUME Buffers, SkipAll
  PROVE  Buffers' /\ \E n \in 0..Len(buf) : Moves(n)
<1>1. less = 0 /\ pkt = <<>> /\ buf \in Seq(Nat) /\ Len(buf) \in Nat
      /\ out' \in Seq([pkt : Seq(Nat), ok : BOOLEAN])
  BY LenProperties DEF SkipAll, Buffers, BuffersFit, TypeOK
<1>2. Len(buf) \in 0..Len(buf)
  BY <1>1
<1>. QED
  BY <1>1, <1>2, BufferMoves DEF SkipAll

LEMMA StorePartStep ==
  ASSUME Buffers, StorePart
  PROVE  Buffers' /\ pkt = <<>> /\ Moves(0)
<1>1. less = 0 /\ pkt = <<>> /\ buf \in Seq(Nat) /\ Len(buf) \in Nat /\ net \in Seq(Nat)
      /\ <<>> \in Seq(Nat) /\ Len(<<>>) = 0
  BY LenProperties, EmptySeq DEF StorePart, Buffers, BuffersFit, TypeOK
<1>2. PktLen(buf) \in Nat /\ Len(buf) >= HeadLen
  BY <1>1, LengthByte DEF StorePart, InLoop
<1>3. Buffers'
  BY <1>1, <1>2, PacketParserAssumption, SMTT(30)
     DEF StorePart, Buffers, TypeOK, BuffersFit, RoomToRead, Room, PktLen
<1>4. Stream' = Stream
  <2>1. buf \o <<>> = buf /\ <<>> \o buf = buf
    BY <1>1, ConcatEmptySeq
  <2>. QED
    BY <1>1, <2>1 DEF StorePart, Stream
<1>. QED
  BY <1>1, <1>3, <1>4, StreamKept DEF Buffers

LEMMA ExtendPartStep ==
  ASSUME Buffers, ExtendPart
  PROVE  Buffers' /\ Moves(0) /\ less' > 0
<1>1. pkt \in Seq(Nat) /\ buf \in Seq(Nat) /\ net \in Seq(Nat)
      /\ Len(buf) \in Nat /\ Len(pkt) \in Nat /\ less \in Nat
      /\ <<>> \in Seq(Nat) /\ Len(<<>>) = 0
  BY LenProperties, EmptySeq DEF Buffers, TypeOK
<1>2. less > 0 /\ Len(buf) < less /\ Len(pkt) >= HeadLen /\ Len(pkt) + less = PktLen(pkt)
  BY DEF ExtendPart, Buffers, BuffersFit
<1>3. /\ pkt' \in Seq(Nat) /\ Len(pkt') = Len(pkt) + Len(buf) /\ pkt'[HeadLen] = pkt[HeadLen]
  <2>1. HeadLen \in 1..Len(pkt)
    BY <1>1, <1>2, PacketParserAssumption
  <2>. QED
    BY <1>1, <2>1, ConcatFacts DEF ExtendPart
<1>4. Buffers' /\ less' > 0
  <2>1. less' = less - Len(buf) /\ less' \in Nat /\ less' > 0
    BY <1>1, <1>2 DEF ExtendPart
  <2>2. Len(pkt') >= HeadLen
    BY <1>1, <1>2, <1>3, PacketParserAssumption
  <2>3. Len(pkt') + less' = PktLen(pkt)
    BY <1>1, <1>2, <1>3, <2>1
  <2>4. PktLen(pkt') = PktLen(pkt)
    BY <1>3 DEF PktLen
  <2>5. TypeOK'
    BY <1>1, <1>3, <2>1 DEF ExtendPart, Buffers, TypeOK
  <2>6. BuffersFit'
    BY <1>1, <2>1, <2>2, <2>3, <2>4, PacketParserAssumption DEF ExtendPart, BuffersFit
  <2>7. RoomToRead'
    BY DEF ExtendPart, InLoop, RoomToRead
  <2>. QED
    BY <2>1, <2>5, <2>6, <2>7 DEF Buffers
<1>5. Stream' = Stream
  <2>1. (pkt \o buf) \o <<>> = pkt \o buf
    BY <1>1, ConcatFacts, ConcatEmptySeq
  <2>. QED
    BY <2>1 DEF ExtendPart, Stream
<1>. QED
  BY <1>4, <1>5, StreamKept DEF Buffers

LEMMA CompletePartStep ==
  ASSUME Buffers, CompletePart
  PROVE  Buffers' /\ PktLen(pkt) \in 1..(Len(pkt) + Len(buf)) /\ Moves(PktLen(pkt))
<1>1. pkt \in Seq(Nat) /\ buf \in Seq(Nat) /\ net \in Seq(Nat)
      /\ Len(buf) \in Nat /\ Len(pkt) \in Nat /\ Len(net) \in Nat /\ less \in Nat
      /\ <<>> \in Seq(Nat) /\ Len(<<>>) = 0
  BY LenProperties, EmptySeq DEF Buffers, TypeOK
<1>2. less > 0 /\ Len(buf) >= less /\ Len(pkt) >= HeadLen /\ Len(pkt) + less = PktLen(pkt)
      /\ buf' = Rest(buf, less) /\ pkt' = <<>> /\ less' = 0 /\ net' = net /\ pc' = "parse" /\ sent' = sent
  BY DEF CompletePart, InLoop, Buffers, BuffersFit
<1>3. /\ Prefix(buf, less) \in Seq(Nat)
      /\ buf' \in Seq(Nat) /\ Len(buf') = Len(buf) - less
      /\ \A i \in 1..(Len(buf) - less) : buf'[i] = buf[less + i]
  BY <1>1, <1>2, less \in 0..Len(buf), PrefixRest
<1>4. out' \in Seq([pkt : Seq(Nat), ok : BOOLEAN])
  <2>1. pkt \o Prefix(buf, less) \in Seq(Nat)
    BY <1>1, <1>3, ConcatFacts
  <2>. QED
    BY <2>1, HandleFacts DEF CompletePart, Buffers
<1>5. Buffers'
  BY <1>1, <1>2, <1>3, <1>4, PacketParserAssumption
     DEF Buffers, TypeOK, BuffersFit, RoomToRead, Room
<1>. DEFINE n == PktLen(pkt)
<1>6. n \in Nat /\ n = Len(pkt) + less /\ n \in 1..(Len(pkt) + Len(buf))
  BY <1>1, <1>2
<1>. HIDE DEF n
<1>7. /\ Len(Stream) = Len(pkt) + Len(buf) + Len(net)
      /\ \A i \in 1..Len(buf) : Stream[Len(pkt) + i] = buf[i]
      /\ \A i \in 1..Len(net) : Stream[Len(pkt) + Len(buf) + i] = net[i]
  BY StreamFacts DEF Buffers
<1>8. /\ Len(Stream') = Len(buf') + Len(net)
      /\ \A i \in 1..Len(buf') : Stream'[i] = buf'[i]
      /\ \A i \in 1..Len(net) : Stream'[Len(buf') + i] = net[i]
  <2>1. Len(pkt') = 0 /\ net' = net /\ Len(buf') \in Nat
    BY <1>1, <1>2, <1>3
  <2>2. TypeOK'
    BY <1>5 DEF Buffers
  <2>3. (/\ Len(Stream) = Len(pkt) + Len(buf) + Len(net)
         /\ \A i \in 1..Len(buf) : Stream[Len(pkt) + i] = buf[i]
         /\ \A i \in 1..Len(net) : Stream[Len(pkt) + Len(buf) + i] = net[i])'
    BY <2>2, StreamFacts, PTL
  <2>. QED
    BY <2>1, <2>3, <1>1
<1>0. Len(Stream) = Len(pkt) + Len(buf) + Len(net) /\ Len(buf') = Len(buf) - less
  BY <1>3, <1>7
<1>9. ASSUME NEW i \in 1..(Len(Stream) - n) PROVE Stream'[i] = Stream[n + i]
  <2>1. CASE i <= Len(buf) - less
    <3>1. less + i \in 1..Len(buf) /\ i \in 1..(Len(buf) - less) /\ i \in 1..Len(buf')
          /\ Len(pkt) + (less + i) = n + i
      BY <2>1, <1>0, <1>1, <1>2, <1>6
    <3>. QED
      BY <3>1, <1>3, <1>7, <1>8
  <2>2. CASE ~(i <= Len(buf) - less)
    <3>. DEFINE j == i - (Len(buf) - less)
    <3>1. j \in 1..Len(net) /\ Len(buf') + j = i /\ Len(pkt) + Len(buf) + j = n + i
      BY <2>2, <1>0, <1>1, <1>2, <1>6
    <3>. QED
      BY <3>1, <1>7, <1>8
  <2>. QED
    BY <2>1, <2>2
<1>10. n \in 0..Len(Stream) /\ Len(Stream') = Len(Stream) - n
  BY <1>1, <1>2, <1>3, <1>6, <1>7, <1>8
<1>11. Moves(n)
  BY <1>9, <1>10 DEF Moves
<1>. QED
  BY <1>5, <1>6, <1>11 DEF n

-----------------------------------------------------------------------------
(* The layout of what the peer sent                                        *)

LEMMA InitLayout ==
  Init => Placed(<<>>, [k \in 1..1 |-> 0], 0) /\ Frames
<1>. SUFFICES ASSUME Init PROVE Placed(<<>>, [k \in 1..1 |-> 0], 0) /\ Frames
  OBVIOUS
<1>1. <<>> \in Seq(Nat) /\ Len(<<>>) = 0 /\ (<<>> \o <<>>) \o <<>> = <<>>
  BY EmptySeq, ConcatEmptySeq
<1>2. sent = <<>> /\ out = <<>> /\ Stream = <<>> /\ less = 0 /\ Len(sent) = 0 /\ Len(out) = 0
  BY <1>1 DEF Init, Stream
<1>3. Layout(<<>>, [k \in 1..1 |-> 0], 0)
  BY <1>1, <1>2 DEF Layout
<1>4. InStep([k \in 1..1 |-> 0], 0)
  BY <1>2 DEF InStep
<1>5. Handled([k \in 1..1 |-> 0], 0) /\ Aside([k \in 1..1 |-> 0], 0) /\ NextInLine([k \in 1..1 |-> 0], 0)
  BY <1>2 DEF Handled, Aside, NextInLine
<1>6. Frames
  BY <1>2 DEF Frames
<1>. QED
  BY <1>3, <1>4, <1>5, <1>6 DEF Placed

LEMMA LayoutMoved ==
  ASSUME TypeOK, NEW S, NEW pos, NEW c, Layout(S, pos, c), NEW n, Moves(n), sent' = sent
  PROVE  Layout(S, pos, c + n)'
<1>1. Len(Stream) \in Nat /\ n \in Nat /\ c \in Nat /\ Len(S) \in Nat
  BY StreamFacts, LenProperties DEF Moves, Layout
<1>2. Len(S) = (c + n) + Len(Stream') /\ c + n \in Nat
  BY <1>1 DEF Layout, Moves
<1>3. ASSUME NEW i \in 1..Len(Stream') PROVE Stream'[i] = S[(c + n) + i]
  <2>1. i \in 1..(Len(Stream) - n) /\ n + i \in 1..Len(Stream) /\ c + (n + i) = (c + n) + i
    BY <1>1 DEF Moves
  <2>. QED
    BY <2>1 DEF Layout, Moves
<1>. QED
  BY <1>2, <1>3 DEF Layout

(* Where piece k ends is where the next one begins; a send adds one more.  *)
Longer(pos, n) == [k \in 1..(Len(sent) + 2) |-> IF k <= Len(sent) + 1 THEN pos[k] ELSE n]

LEMMA LayoutSend ==
  ASSUME TypeOK, NEW S, NEW pos, NEW c, Layout(S, pos, c),
         NEW f \in Seq(Nat), sent' = Append(sent, f), net' = net \o f,
         UNCHANGED <<pkt, buf>>,
         NEW T, T = S \o f, NEW q, q = Longer(pos, Len(S) + Len(f))
  PROVE  Layout(T, q, c)'
<1>. PICK N : N = Len(sent)
  OBVIOUS
<1>. PICK m : m = Len(S)
  OBVIOUS
<1>1. N \in Nat /\ m \in Nat /\ N = Len(sent) /\ m = Len(S) /\ Len(f) \in Nat /\ c \in Nat /\ S \in Seq(Nat)
      /\ pos \in [1..(N + 1) -> Nat]
  BY LenProperties DEF TypeOK, Layout
<1>0. /\ N + 1 \in 1..(N + 1) /\ N + 1 \in 1..(N + 2) /\ N + 2 \in 1..(N + 2) /\ (N + 1) + 1 = N + 2
      /\ \A k \in 1..N : k \in 1..(N + 1) /\ k + 1 \in 1..(N + 1) /\ k \in Nat
      /\ \A k \in 1..(N + 1) : pos[k] \in Nat /\ k \in Nat
  <2>1. N \in Nat
    BY <1>1
  <2>2. /\ N + 1 \in 1..(N + 1) /\ N + 1 \in 1..(N + 2) /\ N + 2 \in 1..(N + 2)
    BY <2>1
  <2>3. (N + 1) + 1 = N + 2
    BY <2>1
  <2>4. \A k \in 1..N : k \in 1..(N + 1) /\ k + 1 \in 1..(N + 1) /\ k \in Nat
    BY <2>1
  <2>5. \A k \in 1..(N + 1) : pos[k] \in Nat /\ k \in Nat
    <3>1. pos \in [1..(N + 1) -> Nat]
      BY <1>1
    <3>2. \A k \in 1..(N + 1) : pos[k] \in Nat
      BY <3>1
    <3>3. \A k \in 1..(N + 1) : k \in Nat
      BY <2>1
    <3>. QED
      BY <3>2, <3>3
  <2>. QED
    BY <2>2, <2>3, <2>4, <2>5
<1>2. /\ sent' \in Seq(Seq(Nat)) /\ Len(sent') = N + 1
      /\ \A k \in 1..N : sent'[k] = sent[k]
      /\ sent'[N + 1] = f
  BY AppendProperties DEF TypeOK
<1>3. /\ T \in Seq(Nat) /\ Len(T) = m + Len(f)
      /\ \A i \in 1..m : T[i] = S[i]
      /\ \A i \in 1..Len(f) : T[m + i] = f[i]
  BY <1>1, ConcatFacts
<1>4. /\ q \in [1..(N + 2) -> Nat]
      /\ \A k \in 1..(N + 1) : q[k] = pos[k]
      /\ q[N + 2] = m + Len(f)
  BY <1>1 DEF Longer
<1>5. \A k \in 1..N : pos[k + 1] = pos[k] + Len(sent[k]) /\ Len(sent[k]) \in Nat
  BY LenProperties, ElementOfSeq DEF TypeOK, Layout
<1>6. pos[1] = 0 /\ pos[N + 1] = m
      /\ \A j, k \in 1..(N + 1) : j <= k => pos[j] <= pos[k]
  BY DEF Layout
<1>7. \A k \in 1..(N + 1) : q[k + 1] = q[k] + Len(sent'[k])
  <2>1. ASSUME NEW k \in 1..N PROVE q[k + 1] = q[k] + Len(sent'[k])
    BY <1>1, <1>2, <1>4, <1>5, SMTT(30)
  <2>2. q[(N + 1) + 1] = q[N + 1] + Len(sent'[N + 1])
    <3>1. q[N + 2] = m + Len(f) /\ q[N + 1] = pos[N + 1] /\ pos[N + 1] = m /\ sent'[N + 1] = f
      BY <1>0, <1>2, <1>4, <1>6
    <3>. QED
      BY <3>1, <1>0
  <2>. QED
    BY <2>1, <2>2, <1>1
<1>8. \A j, k \in 1..(N + 2) : j <= k => q[j] <= q[k]
  <2>1. \A j \in 1..(N + 1) : pos[j] <= m /\ pos[j] \in Nat
    <3>. TAKE j \in 1..(N + 1)
    <3>1. j <= N + 1 /\ N + 1 \in 1..(N + 1)
      BY <1>1
    <3>2. pos[j] <= pos[N + 1]
      BY <3>1, <1>6
    <3>. QED
      BY <3>2, <1>0, <1>6
  <2>2. ASSUME NEW j \in 1..(N + 2), NEW k \in 1..(N + 2), j <= k PROVE q[j] <= q[k]
    <3>1. CASE k <= N + 1
      <4>1. j \in 1..(N + 1) /\ k \in 1..(N + 1)
        BY <3>1, <2>2, <1>1
      <4>2. pos[j] <= pos[k]
        BY <4>1, <2>2, <1>6
      <4>. QED
        BY <4>1, <4>2, <1>4
    <3>2. CASE k = N + 2 /\ j <= N + 1
      BY <3>2, <2>1, <1>1, <1>4
    <3>3. CASE k = N + 2 /\ j = N + 2
      BY <3>3, <1>1, <1>4
    <3>. QED
      BY <3>1, <3>2, <3>3, <2>2, <1>1
  <2>. QED
    BY <2>2
<1>9. \A i \in 1..Len(T) : \E k \in 1..(N + 1) : q[k] < i /\ i <= q[k + 1]
  <2>. TAKE i \in 1..Len(T)
  <2>1. CASE i <= m
    <3>1. PICK k \in 1..N : pos[k] < i /\ i <= pos[k + 1]
      BY <2>1, <1>1 DEF Layout
    <3>2. k \in 1..(N + 1) /\ k + 1 \in 1..(N + 1)
      BY <1>1
    <3>. QED
      BY <3>1, <3>2, <1>4
  <2>2. CASE i > m
    <3>1. q[N + 1] < i /\ i <= q[(N + 1) + 1] /\ N + 1 \in 1..(N + 1)
      <4>1. q[N + 1] = m /\ q[(N + 1) + 1] = m + Len(f)
        BY <1>0, <1>4, <1>6
      <4>. QED
        BY <4>1, <2>2, <1>0, <1>1, <1>3
    <3>. QED
      BY <3>1
  <2>. QED
    BY <2>1, <2>2, <1>1, <1>3
<1>10. \A k \in 1..(N + 1) : \A i \in 1..Len(sent'[k]) : T[q[k] + i] = sent'[k][i]
  <2>1. ASSUME NEW k \in 1..N, NEW i \in 1..Len(sent'[k]) PROVE T[q[k] + i] = sent'[k][i]
    <3>1. i \in 1..Len(sent[k]) /\ sent'[k] = sent[k] /\ q[k] = pos[k]
      BY <1>1, <1>2, <1>4
    <3>2. S[pos[k] + i] = sent[k][i]
      BY <3>1 DEF Layout
    <3>3. pos[k] + i \in 1..m
      <4>1. pos[k + 1] <= pos[N + 1] /\ pos[k] \in Nat /\ pos[k + 1] = pos[k] + Len(sent[k]) /\ Len(sent[k]) \in Nat
        <5>1. k \in Nat /\ k + 1 \in 1..(N + 1) /\ N + 1 \in 1..(N + 1) /\ k + 1 <= N + 1
          BY <1>1
        <5>2. pos[k + 1] <= pos[N + 1]
          BY <5>1, <1>6
        <5>. QED
          BY <5>2, <1>0, <1>5
      <4>. QED
        BY <4>1, <3>1, <1>1, <1>6, SMTT(30)
    <3>. QED
      BY <3>1, <3>2, <3>3, <1>3
  <2>2. ASSUME NEW i \in 1..Len(sent'[N + 1]) PROVE T[q[N + 1] + i] = sent'[N + 1][i]
    <3>1. q[N + 1] = m /\ sent'[N + 1] = f
      BY <1>0, <1>2, <1>4, <1>6
    <3>. QED
      BY <3>1, <1>3
  <2>. QED
    <3>. SUFFICES ASSUME NEW k \in 1..(N + 1), NEW i \in 1..Len(sent'[k])
                  PROVE  T[q[k] + i] = sent'[k][i]
      OBVIOUS
    <3>1. k \in 1..N \/ k = N + 1
      BY <1>1, SMTT(30)
    <3>. QED
      BY <2>1, <2>2, <3>1
<1>11. /\ Stream \in Seq(Nat) /\ Len(Stream) \in Nat
       /\ Stream' \in Seq(Nat) /\ Len(Stream') = Len(Stream) + Len(f)
       /\ \A i \in 1..Len(Stream) : Stream'[i] = Stream[i]
       /\ \A i \in 1..Len(f) : Stream'[Len(Stream) + i] = f[i]
  <2>1. Stream \in Seq(Nat) /\ Len(Stream) \in Nat /\ pkt \o buf \in Seq(Nat) /\ net \in Seq(Nat)
    BY StreamFacts, ConcatFacts, LenProperties DEF TypeOK
  <2>2. (pkt \o buf) \o (net \o f) = ((pkt \o buf) \o net) \o f
    BY <2>1, Regroup
  <2>3. Stream' = Stream \o f
    BY <2>2 DEF Stream
  <2>. QED
    BY <2>1, <2>3, ConcatFacts, ZenonT(60)
<1>12. Len(T) = c + Len(Stream') /\ m = c + Len(Stream)
  BY <1>1, <1>3, <1>11 DEF Layout
<1>13. ASSUME NEW i \in 1..Len(Stream') PROVE Stream'[i] = T[c + i]
  <2>0. Len(Stream') = Len(Stream) + Len(f) /\ Len(Stream) \in Nat
    BY <1>11
  <2>1. CASE i <= Len(Stream)
    <3>1. i \in 1..Len(Stream) /\ c + i \in 1..m
      BY <2>0, <2>1, <1>1, <1>12
    <3>. QED
      BY <3>1, <1>3, <1>11 DEF Layout
  <2>2. CASE ~(i <= Len(Stream))
    <3>. DEFINE j == i - Len(Stream)
    <3>1. j \in 1..Len(f) /\ Len(Stream) + j = i /\ m + j = c + i
      BY <2>0, <2>2, <1>1, <1>12
    <3>. QED
      BY <3>1, <1>3, <1>11
  <2>. QED
    BY <2>1, <2>2
<1>14. q[1] = 0 /\ q[Len(sent') + 1] = Len(T) /\ Len(sent') + 1 = N + 2
  BY <1>1, <1>2, <1>3, <1>4, <1>6
<1>. QED
  BY <1>1, <1>2, <1>3, <1>4, <1>7, <1>8, <1>9, <1>10, <1>12, <1>13, <1>14, ZenonT(60) DEF Layout

LEMMA SentFacts ==
  ASSUME TypeOK
  PROVE  /\ Len(sent) \in Nat /\ Len(out) \in Nat
         /\ \A k \in 1..Len(sent) : sent[k] \in Seq(Nat) /\ Len(sent[k]) \in Nat
BY ElementOfSeq, LenProperties DEF TypeOK

LEMMA PosFacts ==
  ASSUME TypeOK, NEW S, NEW pos, NEW c, Layout(S, pos, c), NEW k \in 1..Len(sent)
  PROVE  /\ k \in Nat /\ k + 1 \in 1..(Len(sent) + 1) /\ k \in 1..(Len(sent) + 1)
         /\ pos[k] \in Nat /\ pos[k + 1] \in Nat /\ Len(S) \in Nat /\ c \in Nat
         /\ pos[k + 1] = pos[k] + Len(sent[k]) /\ pos[k + 1] <= Len(S)
<1>1. Len(sent) \in Nat
  BY SentFacts
<1>2. k \in Nat /\ k + 1 \in 1..(Len(sent) + 1) /\ k \in 1..(Len(sent) + 1)
      /\ Len(sent) + 1 \in 1..(Len(sent) + 1) /\ k + 1 <= Len(sent) + 1
  BY <1>1
<1>3. pos[k] \in Nat /\ pos[k + 1] \in Nat /\ c \in Nat
  BY <1>2 DEF Layout
<1>4. Len(S) \in Nat
  BY LenProperties DEF Layout
<1>5. pos[k + 1] <= pos[Len(sent) + 1]
  BY <1>2 DEF Layout
<1>6. pos[k + 1] = pos[k] + Len(sent[k]) /\ pos[Len(sent) + 1] = Len(S)
  BY DEF Layout
<1>. QED
  BY <1>2, <1>3, <1>4, <1>5, <1>6

(* In a plain stream the tags are the beginning of a packet.               *)
LEMMA PlainTags ==
  ASSUME TypeOK, Plain, NEW S, NEW pos, NEW c, Layout(S, pos, c),
         NEW i \in Nat, i >= 1, i + 1 <= Len(S), S[i] = Tag1, S[i + 1] = Tag2
  PROVE  \E k \in 1..Len(sent) : pos[k] = i - 1 /\ IsPacket(k)
<1>0. Len(S) \in Nat /\ Len(sent) \in Nat
  BY SentFacts, LenProperties DEF Layout
<1>1. PICK k \in 1..Len(sent) : pos[k] < i /\ i <= pos[k + 1]
  <2>1. i \in 1..Len(S)
    BY <1>0
  <2>. QED
    BY <2>1 DEF Layout
<1>2. k \in Nat /\ pos[k] \in Nat /\ pos[k + 1] = pos[k] + Len(sent[k]) /\ Len(sent[k]) \in Nat
  BY PosFacts, SentFacts
<1>. PICK j : j = i - pos[k]
  OBVIOUS
<1>3. j \in 1..Len(sent[k]) /\ pos[k] + j = i
  BY <1>1, <1>2, SMTT(30)
<1>4. sent[k][j] = Tag1
  BY <1>3 DEF Layout
<1>5. CASE j < Len(sent[k])
  <2>1. j + 1 \in 1..Len(sent[k]) /\ pos[k] + (j + 1) = i + 1 /\ j \in 1..(Len(sent[k]) - 1)
    BY <1>2, <1>3, <1>5, SMTT(30)
  <2>2. sent[k][j + 1] = Tag2
    BY <2>1 DEF Layout
  <2>3. j = 1 /\ IsPacket(k)
    BY <1>4, <2>1, <2>2 DEF Plain
  <2>. QED
    BY <1>2, <2>3, SMTT(30)
<1>6. CASE j = Len(sent[k])
  <2>1. pos[k + 1] = i
    BY <1>2, <1>6
  <2>2. k < Len(sent)
    <3>1. k = Len(sent) => pos[k + 1] = Len(S)
      BY DEF Layout
    <3>. QED
      BY <3>1, <2>1, <1>0, <1>2
  <2>3. k + 1 \in 1..Len(sent)
    BY <2>2, <1>0, <1>2
  <2>4. sent[k + 1] # <<>> /\ sent[k + 1][1] # Tag2
    BY <2>3 DEF Plain
  <2>5. 1 \in 1..Len(sent[k + 1])
    <3>1. sent[k + 1] \in Seq(Nat)
      BY <2>3, SentFacts
    <3>2. Len(sent[k + 1]) \in Nat \ {0}
      BY <3>1, <2>4, EmptySeq
    <3>. QED
      BY <3>2
  <2>6. S[pos[k + 1] + 1] = sent[k + 1][1]
    BY <2>3, <2>5 DEF Layout
  <2>. QED
    BY <2>1, <2>4, <2>6
<1>. QED
  BY <1>2, <1>3, <1>5, <1>6

(* The next packet in the stream.                                          *)
LEMMA NextPacket ==
  ASSUME Buffers, Frames, NEW S, NEW pos, NEW c, Layout(S, pos, c),
         NEW k \in 1..Len(sent), pos[k] = c, IsPacket(k)
  PROVE  /\ sent[k] \in Seq(Nat) /\ Len(sent[k]) \in Nat /\ Len(sent[k]) >= HeadLen
         /\ sent[k][1] = Tag1 /\ sent[k][2] = Tag2 /\ sent[k][3] = k
         /\ sent[k][HeadLen] + HeadLen = Len(sent[k])
         /\ Len(sent[k]) <= Len(Stream)
         /\ \A i \in 1..Len(sent[k]) : Stream[i] = sent[k][i]
<1>. TypeOK /\ BuffersFit
  BY DEF Buffers
<1>1. k \in Nat /\ c \in Nat /\ pos[k + 1] = c + Len(sent[k]) /\ pos[k + 1] <= Len(S) /\ Len(S) \in Nat
  BY PosFacts
<1>2. PICK b \in Body : sent[k] = Packet(k, b)
  BY DEF Frames
<1>3. b \in Seq(Nat) /\ Len(b) \in Nat
  BY PacketParserAssumption, LenProperties
<1>4. /\ sent[k] \in Seq(Nat) /\ Len(sent[k]) = HeadLen + Len(b)
      /\ sent[k][1] = Tag1 /\ sent[k][2] = Tag2 /\ sent[k][3] = k
      /\ sent[k][HeadLen] = Len(b)
  BY <1>1, <1>2, PacketFacts
<1>5. Len(sent[k]) \in Nat /\ Len(sent[k]) >= HeadLen /\ sent[k][HeadLen] + HeadLen = Len(sent[k])
  BY <1>3, <1>4, PacketParserAssumption
<1>6. Len(Stream) \in Nat /\ Len(S) = c + Len(Stream)
  BY StreamFacts DEF Layout
<1>7. Len(sent[k]) <= Len(Stream)
  BY <1>1, <1>5, <1>6
<1>8. ASSUME NEW i \in 1..Len(sent[k]) PROVE Stream[i] = sent[k][i]
  <2>1. i \in 1..Len(Stream)
    BY <1>5, <1>6, <1>7
  <2>. QED
    BY <2>1 DEF Layout
<1>. QED
  BY <1>4, <1>5, <1>7, <1>8

(* What the parser cuts at the beginning of a packet is that packet.       *)
CutsPacket(k) ==
  /\ less' = 0
  /\ Len(out') = Len(out) + 1
  /\ \A i \in 1..Len(out) : out'[i] = out[i]
  /\ out'[Len(out) + 1].pkt = sent[k]

LEMMA CutWholePacket ==
  ASSUME Buffers, Frames, NEW S, NEW pos, NEW c, Layout(S, pos, c),
         NEW k \in 1..Len(sent), pos[k] = c, IsPacket(k), CutWhole
  PROVE  CutsPacket(k) /\ Moves(Len(sent[k]))
<1>. TypeOK /\ BuffersFit
  BY DEF Buffers
<1>1. buf \in Seq(Nat) /\ pkt = <<>> /\ less' = 0 /\ Len(buf) \in Nat /\ Len(buf) >= HeadLen
      /\ PktLen(buf) \in 1..Len(buf) /\ Moves(PktLen(buf)) /\ Handle(Prefix(buf, PktLen(buf)))
  BY CutWholeStep, LenProperties DEF CutWhole, InLoop, TypeOK
<1>2. Len(pkt) = 0
  BY <1>1, EmptySeq
<1>3. \A i \in 1..Len(buf) : Stream[i] = buf[i]
  <2>1. \A i \in 1..Len(buf) : Stream[Len(pkt) + i] = buf[i]
    BY StreamFacts
  <2>2. \A i \in 1..Len(buf) : Len(pkt) + i = i
    BY <1>1, <1>2
  <2>. QED
    BY <2>1, <2>2
<1>4. /\ sent[k] \in Seq(Nat) /\ Len(sent[k]) \in Nat /\ Len(sent[k]) >= HeadLen
      /\ sent[k][HeadLen] + HeadLen = Len(sent[k])
      /\ \A i \in 1..Len(sent[k]) : Stream[i] = sent[k][i]
  BY NextPacket
<1>5. PktLen(buf) = Len(sent[k])
  <2>1. HeadLen \in 1..Len(buf) /\ HeadLen \in 1..Len(sent[k])
    BY <1>1, <1>4, PacketParserAssumption
  <2>. QED
    BY <2>1, <1>3, <1>4 DEF PktLen
<1>6. Prefix(buf, PktLen(buf)) = sent[k]
  <2>1. /\ Prefix(buf, PktLen(buf)) \in Seq(Nat) /\ Len(Prefix(buf, PktLen(buf))) = PktLen(buf)
        /\ \A i \in 1..PktLen(buf) : Prefix(buf, PktLen(buf))[i] = buf[i]
    BY <1>1, PktLen(buf) \in 0..Len(buf), PrefixRest
  <2>2. \A i \in 1..Len(sent[k]) : i \in 1..Len(buf)
    BY <1>1, <1>5
  <2>. QED
    BY <2>1, <2>2, <1>3, <1>4, <1>5, SeqEqual
<1>. QED
  BY <1>1, <1>4, <1>5, <1>6, HandleFacts DEF CutsPacket

LEMMA CompletesPacket ==
  ASSUME Buffers, Frames, NEW S, NEW pos, NEW c, Layout(S, pos, c),
         NEW k \in 1..Len(sent), pos[k] = c, IsPacket(k), CompletePart
  PROVE  CutsPacket(k) /\ Moves(Len(sent[k]))
<1>. TypeOK /\ BuffersFit
  BY DEF Buffers
<1>1. /\ pkt \in Seq(Nat) /\ buf \in Seq(Nat) /\ Len(pkt) \in Nat /\ Len(buf) \in Nat /\ less \in Nat
      /\ less' = 0 /\ less > 0 /\ less <= Len(buf)
      /\ Len(pkt) >= HeadLen /\ Len(pkt) + less = PktLen(pkt)
      /\ Moves(PktLen(pkt)) /\ Handle(pkt \o Prefix(buf, less))
  BY CompletePartStep, LenProperties DEF CompletePart, BuffersFit, TypeOK
<1>2. /\ \A i \in 1..Len(pkt) : Stream[i] = pkt[i]
      /\ \A i \in 1..Len(buf) : Stream[Len(pkt) + i] = buf[i]
  BY StreamFacts
<1>3. /\ sent[k] \in Seq(Nat) /\ Len(sent[k]) \in Nat /\ Len(sent[k]) >= HeadLen
      /\ sent[k][HeadLen] + HeadLen = Len(sent[k])
      /\ \A i \in 1..Len(sent[k]) : Stream[i] = sent[k][i]
  BY NextPacket
<1>4. PktLen(pkt) = Len(sent[k])
  <2>1. HeadLen \in 1..Len(pkt) /\ HeadLen \in 1..Len(sent[k])
    BY <1>1, <1>3, PacketParserAssumption
  <2>. QED
    BY <2>1, <1>2, <1>3 DEF PktLen
<1>5. less \in 0..Len(buf)
  BY <1>1
<1>6. /\ Prefix(buf, less) \in Seq(Nat) /\ Len(Prefix(buf, less)) = less
      /\ \A i \in 1..less : Prefix(buf, less)[i] = buf[i]
  BY <1>1, <1>5, PrefixRest
<1>. DEFINE p == pkt \o Prefix(buf, less)
<1>7. /\ p \in Seq(Nat) /\ Len(p) = Len(pkt) + less
      /\ \A i \in 1..Len(pkt) : p[i] = pkt[i]
      /\ \A i \in 1..less : p[Len(pkt) + i] = Prefix(buf, less)[i]
  <2>. HIDE DEF p
  <2>1. p = pkt \o Prefix(buf, less)
    BY DEF p
  <2>2. pkt \in Seq(Nat) /\ Prefix(buf, less) \in Seq(Nat) /\ Len(Prefix(buf, less)) = less
    BY <1>1, <1>6
  <2>3. /\ p \in Seq(Nat) /\ Len(p) = Len(pkt) + Len(Prefix(buf, less))
        /\ \A i \in 1..Len(pkt) : p[i] = pkt[i]
        /\ \A i \in 1..Len(Prefix(buf, less)) : p[Len(pkt) + i] = Prefix(buf, less)[i]
    BY <2>1, <2>2, ConcatFacts
  <2>. QED
    BY <2>2, <2>3
<1>. HIDE DEF p
<1>8. p = sent[k]
  <2>1. Len(p) = Len(sent[k])
    BY <1>1, <1>4, <1>7
  <2>2. ASSUME NEW i \in 1..Len(p) PROVE p[i] = sent[k][i]
    <3>1. CASE i <= Len(pkt)
      <4>1. i \in 1..Len(pkt) /\ i \in 1..Len(sent[k])
        BY <3>1, <2>1, <1>1, <1>3
      <4>. QED
        BY <4>1, <1>2, <1>3, <1>7
    <3>2. CASE ~(i <= Len(pkt))
      <4>. PICK j : j = i - Len(pkt)
        OBVIOUS
      <4>0. Len(p) = Len(pkt) + less
        BY <1>7
      <4>1. j \in 1..less /\ j \in 1..Len(buf) /\ Len(pkt) + j = i /\ i \in 1..Len(sent[k])
        <5>1. Len(pkt) \in Nat /\ less \in Nat /\ Len(buf) \in Nat /\ less <= Len(buf)
          BY <1>1
        <5>2. i \in 1..(Len(pkt) + less) /\ i \in 1..Len(sent[k])
          BY <4>0, <2>1
        <5>. QED
          BY <5>1, <5>2, <3>2
      <4>2. p[i] = buf[j]
        BY <4>1, <1>6, <1>7
      <4>3. Stream[i] = buf[j]
        BY <4>1, <1>2
      <4>. QED
        BY <4>1, <4>2, <4>3, <1>3
    <3>. QED
      BY <3>1, <3>2
  <2>. QED
    BY <2>1, <2>2, <1>3, <1>7, SeqEqual
<1>9. Handle(p)
  BY <1>1 DEF p
<1>. QED
  BY <1>1, <1>3, <1>4, <1>8, <1>9, HandleFacts DEF CutsPacket

-----------------------------------------------------------------------------
(* The steps                                                               *)

(* The stream is not empty and only packets were sent: the next one is     *)
(* where the parser is.                                                    *)
LEMMA NextInStep ==
  ASSUME TypeOK, NEW S, NEW pos, NEW c, Layout(S, pos, c), OnlyPackets, InStep(pos, c),
         Len(Stream) > 0
  PROVE  /\ Len(out) + 1 \in 1..Len(sent) /\ IsPacket(Len(out) + 1)
         /\ pos[Len(out) + 1] = c
<1>1. Len(sent) \in Nat /\ Len(out) \in Nat /\ Len(out) <= Len(sent) /\ c = pos[Len(out) + 1]
  BY SentFacts DEF InStep
<1>2. Len(Stream) \in Nat /\ Len(S) = c + Len(Stream) /\ c \in Nat /\ pos[Len(sent) + 1] = Len(S)
  BY StreamFacts DEF Layout
<1>3. Len(out) # Len(sent)
  BY <1>1, <1>2
<1>4. Len(out) + 1 \in 1..Len(sent)
  BY <1>1, <1>3
<1>. QED
  BY <1>1, <1>4 DEF OnlyPackets

(* A step that cuts nothing and consumes nothing.                          *)
LEMMA PlacedKept ==
  ASSUME TypeOK, NEW S, NEW pos, NEW c, Placed(S, pos, c), Moves(0), UNCHANGED <<sent, out>>,
         Plain => Aside(pos, c)'
  PROVE  Placed(S, pos, c)'
<1>1. c \in Nat /\ c + 0 = c
  BY DEF Placed, Layout
<1>2. Layout(S, pos, c)'
  <2>1. PICK d : d = c + 0
    OBVIOUS
  <2>2. Layout(S, pos, d)'
    BY <2>1, LayoutMoved DEF Placed
  <2>. QED
    BY <1>1, <2>1, <2>2
<1>3. OnlyPackets' = OnlyPackets /\ Plain' = Plain
  BY DEF OnlyPackets, Plain, IsPacket
<1>4. InStep(pos, c)' = InStep(pos, c) /\ Handled(pos, c)' = Handled(pos, c)
  BY DEF InStep, Handled, Number
<1>5. NextInLine(pos, c)' = NextInLine(pos, c)
  BY DEF NextInLine, IsPacket, Cut, Number
<1>. QED
  BY <1>2, <1>3, <1>4, <1>5 DEF Placed

LEMMA FramesKept ==
  ASSUME Frames, sent' = sent
  PROVE  Frames'
BY DEF Frames, IsPacket

LEMMA PlacedSend ==
  ASSUME Buffers, Frames, NEW S, NEW pos, NEW c, Placed(S, pos, c), Send
  PROVE  Frames' /\ \E T, q : Placed(T, q, c)'
<1>. TypeOK /\ Layout(S, pos, c)
  BY DEF Buffers, Placed
<1>1. PICK f \in {Packet(Len(sent) + 1, b) : b \in Body} \cup Junk :
        sent' = Append(sent, f) /\ net' = net \o f
  BY DEF Send
<1>2. f \in Seq(Nat)
  BY SendTypes
<1>3. UNCHANGED <<buf, pkt, less, pc, out>>
  BY DEF Send
<1>. PICK N : N = Len(sent)
  OBVIOUS
<1>4. /\ N \in Nat /\ N = Len(sent) /\ sent' \in Seq(Seq(Nat)) /\ Len(sent') = N + 1
      /\ \A k \in 1..N : sent'[k] = sent[k]
      /\ sent'[N + 1] = f
  BY <1>1, <1>2, SentFacts, AppendProperties DEF TypeOK
<1>5. \A k \in 1..N : k \in 1..(N + 1) /\ (IsPacket(k)' <=> IsPacket(k))
  BY <1>4 DEF IsPacket
<1>6. Frames'
  <2>. SUFFICES ASSUME NEW k \in 1..(N + 1), IsPacket(k)'
                PROVE  \E b \in Body : sent'[k] = Packet(k, b)
    BY <1>4 DEF Frames
  <2>1. CASE k \in 1..N
    <3>1. PICK b \in Body : sent[k] = Packet(k, b)
      BY <2>1, <1>4, <1>5 DEF Frames
    <3>. QED
      BY <2>1, <3>1, <1>4
  <2>2. CASE k = N + 1
    <3>1. f \notin Junk
      BY <2>2, <1>4 DEF IsPacket
    <3>. QED
      BY <2>2, <3>1, <1>1, <1>4
  <2>. QED
    BY <2>1, <2>2, <1>4
<1>7. PICK T, q : T = S \o f /\ q = Longer(pos, Len(S) + Len(f))
  OBVIOUS
<1>8. Layout(T, q, c)'
  BY <1>1, <1>2, <1>3, <1>7, LayoutSend
<1>9. \A k \in 1..(N + 1) : q[k] = pos[k]
  BY <1>4, <1>7 DEF Longer
<1>10. OnlyPackets' => OnlyPackets
  BY <1>4, <1>5 DEF OnlyPackets
<1>11. Plain' => Plain
  <2>. SUFFICES ASSUME Plain' PROVE Plain
    OBVIOUS
  <2>. SUFFICES ASSUME NEW k \in 1..N
                PROVE  /\ sent[k] # <<>> /\ sent[k][1] # Tag2
                       /\ \A i \in 1..(Len(sent[k]) - 1) :
                            sent[k][i] = Tag1 /\ sent[k][i + 1] = Tag2 => i = 1 /\ IsPacket(k)
    BY <1>4 DEF Plain
  <2>1. k \in 1..Len(sent') /\ sent'[k] = sent[k] /\ (IsPacket(k)' <=> IsPacket(k))
    BY <1>4, <1>5
  <2>. QED
    BY <2>1 DEF Plain
<1>12. InStep(pos, c) => InStep(q, c)'
  <2>. SUFFICES ASSUME InStep(pos, c) PROVE InStep(q, c)'
    OBVIOUS
  <2>1. Len(out) \in Nat /\ Len(out) <= N /\ c = pos[Len(out) + 1]
    BY SentFacts, <1>4 DEF InStep
  <2>2. Len(out) + 1 \in 1..(N + 1) /\ Len(out) <= N + 1 /\ \A i \in 1..Len(out) : i \in 1..N
    BY <2>1, <1>4
  <2>. QED
    BY <2>1, <2>2, <1>3, <1>4, <1>9 DEF InStep
<1>13. Handled(pos, c) => Handled(q, c)'
  <2>. SUFFICES ASSUME Handled(pos, c), NEW i \in 1..Len(out)
                PROVE  /\ Number(i) \in 1..(N + 1)
                       /\ out[i].pkt = sent'[Number(i)]
                       /\ q[Number(i) + 1] <= c
                       /\ \A j \in 1..(i - 1) : Number(j) < Number(i)
    BY <1>3, <1>4 DEF Handled, Number
  <2>1. /\ Number(i) \in 1..N /\ out[i].pkt = sent[Number(i)] /\ pos[Number(i) + 1] <= c
        /\ \A j \in 1..(i - 1) : Number(j) < Number(i)
    BY <1>4 DEF Handled
  <2>2. Number(i) \in 1..(N + 1) /\ Number(i) + 1 \in 1..(N + 1)
    BY <2>1, <1>4
  <2>. QED
    BY <2>1, <2>2, <1>4, <1>9
<1>14. Aside(pos, c) => Aside(q, c)'
  <2>. SUFFICES ASSUME Aside(pos, c), less > 0
                PROVE  \E k \in 1..(N + 1) : q[k] = c /\ IsPacket(k)'
    BY <1>3, <1>4 DEF Aside
  <2>1. PICK k \in 1..N : pos[k] = c /\ IsPacket(k)
    BY <1>4 DEF Aside
  <2>. QED
    BY <2>1, <1>5, <1>9
<1>15. Handled(pos, c) /\ NextInLine(pos, c) => NextInLine(q, c)'
  <2>. SUFFICES ASSUME Handled(pos, c), NextInLine(pos, c),
                       NEW k \in 1..(N + 1), k + 1 <= N + 1, IsPacket(k + 1)', Cut(k), ~Cut(k + 1)
                PROVE  c = q[k + 1]
    BY <1>3, <1>4 DEF NextInLine, Cut, Number
  <2>1. CASE k + 1 <= N
    <3>1. k \in 1..N /\ k + 1 \in 1..N /\ k + 1 \in 1..(N + 1)
      BY <2>1, <1>4
    <3>2. IsPacket(k + 1)
      BY <3>1, <1>5
    <3>3. c = pos[k + 1]
      BY <2>1, <3>1, <3>2, <1>4 DEF NextInLine
    <3>. QED
      BY <3>1, <3>3, <1>9
  <2>2. CASE k = N
    <3>1. PICK i \in 1..Len(out) : Number(i) = k
      BY DEF Cut
    <3>2. pos[N + 1] <= c
      BY <3>1, <2>2 DEF Handled
    <3>3. pos[N + 1] = Len(S) /\ Len(S) = c + Len(Stream) /\ Len(Stream) \in Nat /\ c \in Nat
      BY <1>4, StreamFacts DEF Layout
    <3>4. c = pos[N + 1] /\ N + 1 \in 1..(N + 1)
      BY <3>2, <3>3, <1>4
    <3>. QED
      BY <3>4, <2>2, <1>9
  <2>. QED
    BY <2>1, <2>2, <1>4
<1>16. Placed(T, q, c)'
  BY <1>8, <1>10, <1>11, <1>12, <1>13, <1>14, <1>15 DEF Placed
<1>. QED
  BY <1>6, <1>16

(* The number of a packet is its place among what was sent.                *)
LEMMA PlacedCut ==
  ASSUME Buffers, Frames, NEW S, NEW pos, NEW c, Placed(S, pos, c), sent' = sent,
         CutWhole \/ CompletePart,
         OnlyPackets => InStep(pos, c) /\ IsPacket(Len(out) + 1)
                        /\ Len(out) + 1 \in 1..Len(sent) /\ pos[Len(out) + 1] = c,
         Plain => \E k \in 1..Len(sent) : pos[k] = c /\ IsPacket(k)
  PROVE  \E d : Placed(S, pos, d)'
<1>. TypeOK /\ Layout(S, pos, c)
  BY DEF Buffers, Placed
<1>0. Len(out) \in Nat /\ Len(sent) \in Nat
  BY SentFacts
<1>1. OnlyPackets' = OnlyPackets /\ Plain' = Plain /\ \A k : IsPacket(k)' = IsPacket(k)
  BY DEF OnlyPackets, Plain, IsPacket
<1>2. CASE ~OnlyPackets /\ ~Plain
  <2>1. PICK n : Moves(n)
    BY CutWholeStep, CompletePartStep
  <2>2. PICK d : d = c + n
    OBVIOUS
  <2>3. Layout(S, pos, d)'
    BY <2>1, <2>2, LayoutMoved
  <2>. QED
    BY <2>3, <1>1, <1>2 DEF Placed
<1>3. CASE OnlyPackets \/ Plain
  <2>1. PICK k \in 1..Len(sent) :
          /\ pos[k] = c /\ IsPacket(k)
          /\ OnlyPackets => k = Len(out) + 1
    BY <1>3
  <2>2. CutsPacket(k) /\ Moves(Len(sent[k]))
    BY <2>1, CutWholePacket, CompletesPacket
  <2>3. pos[k + 1] = c + Len(sent[k]) /\ pos[k + 1] \in Nat /\ k \in Nat /\ c \in Nat
    BY <2>1, PosFacts
  <2>4. PICK d : d = pos[k + 1]
    OBVIOUS
  <2>5. Layout(S, pos, d)'
    BY <2>2, <2>3, <2>4, LayoutMoved
  <2>6. /\ Len(sent[k]) \in Nat /\ Len(sent[k]) >= HeadLen /\ sent[k][3] = k
    BY <2>1, NextPacket
  <2>7. c < d /\ d \in Nat
    BY <2>3, <2>4, <2>6, PacketParserAssumption
  <2>8. ASSUME OnlyPackets PROVE InStep(pos, d)'
    <3>1. InStep(pos, c) /\ k = Len(out) + 1 /\ k <= Len(sent)
      BY <2>1, <2>8, <1>0
    <3>2. Len(out') = k /\ \A i \in 1..k : i \in 1..Len(out) \/ i = k
      BY <3>1, <2>2, <2>3, <1>0 DEF CutsPacket
    <3>3. \A i \in 1..k : out'[i].pkt = sent[i]
      BY <3>1, <3>2, <2>2 DEF CutsPacket, InStep
    <3>. QED
      BY <3>1, <3>2, <3>3, <2>4 DEF InStep
  <2>9. ASSUME Plain PROVE Handled(pos, d)' /\ Aside(pos, d)' /\ NextInLine(pos, d)'
    <3>0. Handled(pos, c) /\ NextInLine(pos, c)
      BY <2>9 DEF Placed
    <3>. PICK M : M = Len(out)
      OBVIOUS
    <3>1. /\ M = Len(out) /\ M \in Nat /\ Len(out') = M + 1
          /\ \A i \in 1..M : out'[i] = out[i] /\ Number(i)' = Number(i)
          /\ out'[M + 1].pkt = sent[k] /\ Number(M + 1)' = k
      BY <1>0, <2>2, <2>6 DEF CutsPacket, Number
    <3>2. ASSUME NEW i \in 1..M PROVE Number(i) < k
      <4>1. Number(i) \in 1..Len(sent) /\ pos[Number(i) + 1] <= c
        BY <3>0, <3>1 DEF Handled
      <4>2. ASSUME ~(Number(i) < k) PROVE FALSE
        <5>1. k + 1 <= Number(i) + 1 /\ k + 1 \in 1..(Len(sent) + 1) /\ Number(i) + 1 \in 1..(Len(sent) + 1)
          BY <4>1, <4>2, <1>0
        <5>2. pos[k + 1] <= pos[Number(i) + 1] /\ pos[Number(i) + 1] \in Nat
          BY <5>1 DEF Layout
        <5>. QED
          BY <5>2, <4>1, <2>3, <2>4, <2>7
      <4>. QED
        BY <4>2
    <3>3. Handled(pos, d)'
      <4>. SUFFICES ASSUME NEW i \in 1..(M + 1)
                    PROVE  /\ Number(i)' \in 1..Len(sent)
                           /\ out'[i].pkt = sent[Number(i)']
                           /\ pos[Number(i)' + 1] <= d
                           /\ \A j \in 1..(i - 1) : Number(j)' < Number(i)'
        BY <3>1 DEF Handled
      <4>1. CASE i \in 1..M
        <5>1. /\ Number(i) \in 1..Len(sent) /\ out[i].pkt = sent[Number(i)] /\ pos[Number(i) + 1] <= c
              /\ \A j \in 1..(i - 1) : Number(j) < Number(i)
          BY <4>1, <3>0, <3>1 DEF Handled
        <5>2. Number(i) + 1 \in 1..(Len(sent) + 1)
          BY <5>1, <1>0
        <5>3. pos[Number(i) + 1] \in Nat
          BY <5>2 DEF Layout
        <5>4. pos[Number(i) + 1] <= d
          BY <5>1, <5>3, <2>7, <2>3
        <5>5. \A j \in 1..(i - 1) : j \in 1..M
          BY <4>1, <3>1
        <5>. QED
          BY <4>1, <5>1, <5>4, <5>5, <3>1
      <4>2. CASE i = M + 1
        <5>1. \A j \in 1..(i - 1) : j \in 1..M
          BY <4>2, <3>1
        <5>2. pos[k + 1] <= d
          BY <2>3, <2>4
        <5>. QED
          BY <4>2, <5>1, <5>2, <3>1, <3>2
      <4>. QED
        BY <4>1, <4>2, <3>1
    <3>4. Aside(pos, d)'
      BY <2>2 DEF Aside, CutsPacket
    <3>5. \A j : Cut(j)' <=> Cut(j) \/ j = k
      <4>1. \A i \in 1..(M + 1) : i \in 1..M \/ i = M + 1
        BY <3>1
      <4>2. \A i \in 1..M : i \in 1..(M + 1)
        BY <3>1
      <4>3. M + 1 \in 1..(M + 1)
        BY <3>1
      <4>. QED
        BY <4>1, <4>2, <4>3, <3>1 DEF Cut
    <3>6. NextInLine(pos, d)'
      <4>. SUFFICES ASSUME NEW j \in 1..Len(sent), j + 1 <= Len(sent), IsPacket(j + 1),
                           Cut(j)', ~Cut(j + 1)'
                    PROVE  d = pos[j + 1]
        BY <1>1 DEF NextInLine
      <4>1. CASE j = k
        BY <4>1, <2>4
      <4>2. CASE j # k
        <5>1. Cut(j) /\ ~Cut(j + 1) /\ j + 1 # k
          BY <4>2, <3>5
        <5>2. c = pos[j + 1]
          BY <5>1, <3>0 DEF NextInLine
        <5>3. j + 1 \in 1..Len(sent) /\ k \in 1..Len(sent)
          BY <1>0
        <5>4. pos[(j + 1) + 1] = pos[j + 1] + Len(sent[j + 1]) /\ pos[j + 1] \in Nat
              /\ pos[(j + 1) + 1] \in Nat
          BY <5>3, PosFacts
        <5>5. Len(sent[j + 1]) \in Nat /\ Len(sent[j + 1]) >= HeadLen
          BY <5>2, <5>3, NextPacket
        <5>6. CASE j + 1 < k
          <6>1. (j + 1) + 1 \in 1..(Len(sent) + 1) /\ k \in 1..(Len(sent) + 1) /\ (j + 1) + 1 <= k
            BY <5>3, <5>6, <1>0
          <6>2. pos[(j + 1) + 1] <= pos[k]
            BY <6>1 DEF Layout
          <6>. QED
            BY <6>2, <5>2, <5>4, <5>5, <2>1, <2>3, PacketParserAssumption, SMTT(30)
        <5>7. CASE k < j + 1
          <6>1. k + 1 \in 1..(Len(sent) + 1) /\ j + 1 \in 1..(Len(sent) + 1) /\ k + 1 <= j + 1
            BY <5>3, <5>7, <1>0
          <6>2. pos[k + 1] <= pos[j + 1]
            BY <6>1 DEF Layout
          <6>. QED
            BY <6>2, <5>2, <2>3, <2>4, <2>7
        <5>. QED
          BY <5>1, <5>3, <5>6, <5>7, <1>0
      <4>. QED
        BY <4>1, <4>2
    <3>. QED
      BY <3>3, <3>4, <3>6
  <2>. QED
    BY <2>5, <2>8, <2>9, <1>1 DEF Placed
<1>. QED
  BY <1>2, <1>3

(* With nothing set aside, a packet that is next has its tags at the front *)
(* of the buffer.                                                          *)
LEMMA HeaderAhead ==
  ASSUME Buffers, Frames, NEW S, NEW pos, NEW c, Layout(S, pos, c),
         NEW k \in 1..Len(sent), pos[k] = c, IsPacket(k), less = 0, Len(buf) >= HeadLen
  PROVE  TagAt(1)
<1>. TypeOK /\ BuffersFit
  BY DEF Buffers
<1>1. Len(pkt) = 0 /\ Len(buf) \in Nat /\ Len(buf) >= 2
  BY EmptySeq, LenProperties, PacketParserAssumption DEF BuffersFit, TypeOK
<1>2. 1 \in 1..Len(buf) /\ 2 \in 1..Len(buf) /\ 0 + 1 = 1 /\ 0 + 2 = 2
  BY <1>1
<1>3. Stream[1] = buf[1] /\ Stream[2] = buf[2]
  BY <1>1, <1>2, StreamFacts
<1>4. /\ Len(sent[k]) \in Nat /\ Len(sent[k]) >= HeadLen
      /\ sent[k][1] = Tag1 /\ sent[k][2] = Tag2
      /\ \A i \in 1..Len(sent[k]) : Stream[i] = sent[k][i]
  BY NextPacket
<1>5. 1 \in 1..Len(sent[k]) /\ 2 \in 1..Len(sent[k])
  BY <1>4, PacketParserAssumption
<1>6. buf[1] = Tag1 /\ buf[2] = Tag2
  BY <1>3, <1>4, <1>5
<1>. QED
  BY <1>1, <1>6 DEF TagAt

LEMMA PlacedSkip ==
  ASSUME Buffers, Frames, NEW S, NEW pos, NEW c, Placed(S, pos, c), SkipToHeader \/ SkipAll
  PROVE  \E d : Placed(S, pos, d)'
<1>. TypeOK /\ Layout(S, pos, c)
  BY DEF Buffers, Placed
<1>1. /\ less = 0 /\ less' = 0 /\ ~TagAt(1) /\ Len(buf) >= HeadLen
      /\ UNCHANGED <<sent, out>> /\ Len(buf) \in Nat
  <2>1. Len(buf) \in Nat
    BY StreamFacts
  <2>2. Len(buf) >= HeadLen => 1 \in 1..Len(buf)
    BY <2>1, PacketParserAssumption
  <2>. QED
    BY <2>1, <2>2 DEF SkipToHeader, SkipAll, InLoop
<1>2. PICK n : Moves(n)
  BY SkipToHeaderStep, SkipAllStep
<1>3. c \in Nat /\ n \in Nat
  BY <1>2, StreamFacts DEF Moves, Layout
<1>4. PICK d : d = c + n
  OBVIOUS
<1>5. d \in Nat /\ c <= d
  BY <1>3, <1>4
<1>6. Layout(S, pos, d)'
  BY <1>1, <1>2, <1>4, LayoutMoved
<1>7. OnlyPackets' = OnlyPackets /\ Plain' = Plain
  BY <1>1 DEF OnlyPackets, Plain, IsPacket
<1>8. ~OnlyPackets
  <2>. SUFFICES ASSUME OnlyPackets PROVE FALSE
    OBVIOUS
  <2>1. Len(Stream) > 0
    <3>1. Len(Stream) = Len(pkt) + Len(buf) + Len(net) /\ Len(pkt) \in Nat /\ Len(net) \in Nat
      BY StreamFacts
    <3>. QED
      BY <3>1, <1>1, PacketParserAssumption
  <2>2. PICK k \in 1..Len(sent) : pos[k] = c /\ IsPacket(k)
    BY <2>1, NextInStep DEF Placed
  <2>. QED
    BY <2>2, <1>1, HeaderAhead
<1>9. ASSUME Plain PROVE Handled(pos, d)' /\ Aside(pos, d)' /\ NextInLine(pos, d)'
  <2>0. Handled(pos, c) /\ NextInLine(pos, c) /\ Len(sent) \in Nat
    BY <1>9, SentFacts DEF Placed
  <2>1. Handled(pos, d)
    <3>. SUFFICES ASSUME NEW i \in 1..Len(out)
                  PROVE  /\ Number(i) \in 1..Len(sent) /\ out[i].pkt = sent[Number(i)]
                         /\ pos[Number(i) + 1] <= d
                         /\ \A j \in 1..(i - 1) : Number(j) < Number(i)
      BY DEF Handled
    <3>1. /\ Number(i) \in 1..Len(sent) /\ out[i].pkt = sent[Number(i)]
          /\ pos[Number(i) + 1] <= c
          /\ \A j \in 1..(i - 1) : Number(j) < Number(i)
      BY <2>0 DEF Handled
    <3>2. pos[Number(i) + 1] \in Nat
      BY <3>1, PosFacts
    <3>. QED
      BY <3>1, <3>2, <1>3, <1>5
  <2>2. NextInLine(pos, d)
    <3>. SUFFICES ASSUME NEW k \in 1..Len(sent), k + 1 <= Len(sent), IsPacket(k + 1),
                         Cut(k), ~Cut(k + 1)
                  PROVE  FALSE
      BY DEF NextInLine
    <3>1. c = pos[k + 1]
      BY <2>0 DEF NextInLine
    <3>2. k + 1 \in 1..Len(sent)
      BY <2>0
    <3>. QED
      BY <3>1, <3>2, <1>1, HeaderAhead
  <2>. QED
    BY <2>1, <2>2, <1>1 DEF Handled, Aside, NextInLine, IsPacket, Number, Cut
<1>. QED
  BY <1>6, <1>7, <1>8, <1>9 DEF Placed

LEMMA PlacedRead ==
  ASSUME Buffers, NEW S, NEW pos, NEW c, Placed(S, pos, c),
         Read \/ ReadFails \/ LeaveLoop \/ ExtendPart
  PROVE  Buffers' /\ sent' = sent /\ Placed(S, pos, c)'
<1>. TypeOK
  BY DEF Buffers
<1>1. Len(buf) \in Nat /\ BufLen \in Nat
  BY StreamFacts, PacketParserAssumption
<1>2. CASE Read
  <2>1. PICK n \in 1..Room : n <= Len(net) /\ buf' = buf \o Prefix(net, n) /\ net' = Rest(net, n)
    BY <1>2 DEF Read
  <2>2. n \in Nat /\ n <= Room
    BY <1>1 DEF Room
  <2>3. Buffers' /\ Moves(0)
    BY <1>2, <2>1, <2>2, ReadStep DEF Read
  <2>4. Aside(pos, c) => Aside(pos, c)'
    BY <1>2 DEF Read, Aside, IsPacket
  <2>. QED
    BY <1>2, <2>3, <2>4, PlacedKept DEF Read, Placed
<1>3. CASE ReadFails
  <2>1. PICK n \in 0..(Room - 1) : n <= Len(net) /\ buf' = buf \o Prefix(net, n) /\ net' = Rest(net, n)
    BY <1>3 DEF ReadFails
  <2>2. n \in Nat /\ n <= Room
    BY <1>1 DEF Room
  <2>3. Buffers' /\ Moves(0)
    BY <1>3, <2>1, <2>2, ReadStep DEF ReadFails
  <2>4. Aside(pos, c) => Aside(pos, c)'
    BY <1>3 DEF ReadFails, Aside, IsPacket
  <2>. QED
    BY <1>3, <2>3, <2>4, PlacedKept DEF ReadFails, Placed
<1>4. CASE LeaveLoop
  <2>1. Aside(pos, c) => Aside(pos, c)'
    BY <1>4 DEF LeaveLoop, Aside, IsPacket
  <2>. QED
    BY <1>4, <2>1, LeaveLoopStep, PlacedKept DEF LeaveLoop, Placed
<1>5. CASE ExtendPart
  <2>1. Aside(pos, c) => Aside(pos, c)'
    BY <1>5 DEF ExtendPart, Aside, IsPacket
  <2>. QED
    BY <1>5, <2>1, ExtendPartStep, PlacedKept DEF ExtendPart, Placed
<1>. QED
  BY <1>2, <1>3, <1>4, <1>5

(* In a plain stream what starts with the tags is a packet.                *)
LEMMA TagsAhead ==
  ASSUME Buffers, Plain, NEW S, NEW pos, NEW c, Layout(S, pos, c),
         pkt = <<>>, TagAt(1), Len(buf) >= HeadLen
  PROVE  \E k \in 1..Len(sent) : pos[k] = c /\ IsPacket(k)
<1>. TypeOK
  BY DEF Buffers
<1>1. Len(pkt) = 0 /\ Len(buf) \in Nat /\ Len(buf) >= 2 /\ Len(Stream) >= Len(buf) /\ Len(Stream) \in Nat
  <2>1. Len(pkt) = 0
    BY EmptySeq
  <2>2. Len(Stream) = Len(pkt) + Len(buf) + Len(net) /\ Len(buf) \in Nat /\ Len(net) \in Nat
    BY StreamFacts
  <2>. QED
    BY <2>1, <2>2, PacketParserAssumption
<1>2. 1 \in 1..Len(buf) /\ 2 \in 1..Len(buf) /\ 0 + 1 = 1 /\ 0 + 2 = 2
  BY <1>1
<1>3. Stream[1] = Tag1 /\ Stream[2] = Tag2
  BY <1>1, <1>2, StreamFacts DEF TagAt
<1>4. 1 \in 1..Len(Stream) /\ 2 \in 1..Len(Stream)
  BY <1>1
<1>5. S[c + 1] = Tag1 /\ S[c + 2] = Tag2 /\ c \in Nat /\ Len(S) = c + Len(Stream)
  BY <1>3, <1>4 DEF Layout
<1>6. PICK i : i = c + 1
  OBVIOUS
<1>7. i \in Nat /\ i >= 1 /\ i + 1 = c + 2 /\ i + 1 <= Len(S) /\ i - 1 = c
  BY <1>1, <1>5, <1>6
<1>. QED
  BY <1>5, <1>6, <1>7, PlainTags

LEMMA PlacedStore ==
  ASSUME Buffers, NEW S, NEW pos, NEW c, Placed(S, pos, c), StorePart
  PROVE  Buffers' /\ sent' = sent /\ Placed(S, pos, c)'
<1>. TypeOK
  BY DEF Buffers
<1>1. Buffers' /\ pkt = <<>> /\ Moves(0)
  BY StorePartStep
<1>2. ASSUME Plain PROVE Aside(pos, c)'
  <2>1. \E k \in 1..Len(sent) : pos[k] = c /\ IsPacket(k)
    BY <1>1, <1>2, TagsAhead DEF StorePart, InLoop, Placed
  <2>. QED
    BY <2>1 DEF Aside, StorePart, IsPacket
<1>. QED
  BY <1>1, <1>2, PlacedKept DEF StorePart

LEMMA PlacedCutAhead ==
  ASSUME Buffers, Frames, NEW S, NEW pos, NEW c, Placed(S, pos, c), CutWhole \/ CompletePart
  PROVE  Buffers' /\ sent' = sent /\ \E d : Placed(S, pos, d)'
<1>. TypeOK /\ Layout(S, pos, c)
  BY DEF Buffers, Placed
<1>1. Buffers' /\ sent' = sent
  BY CutWholeStep, CompletePartStep DEF CutWhole, CompletePart
<1>2. Len(Stream) > 0
  <2>1. Len(Stream) = Len(pkt) + Len(buf) + Len(net) /\ Len(pkt) \in Nat /\ Len(buf) \in Nat /\ Len(net) \in Nat
    BY StreamFacts
  <2>2. Len(buf) >= HeadLen
    BY DEF CutWhole, CompletePart, InLoop
  <2>. QED
    BY <2>1, <2>2, PacketParserAssumption
<1>3. OnlyPackets => InStep(pos, c) /\ IsPacket(Len(out) + 1)
                     /\ Len(out) + 1 \in 1..Len(sent) /\ pos[Len(out) + 1] = c
  BY <1>2, NextInStep DEF Placed
<1>4. ASSUME Plain PROVE \E k \in 1..Len(sent) : pos[k] = c /\ IsPacket(k)
  <2>1. CASE CutWhole
    BY <1>4, <2>1, CutWholeStep, TagsAhead DEF CutWhole, InLoop
  <2>2. CASE CompletePart
    BY <1>4, <2>2 DEF CompletePart, Placed, Aside
  <2>. QED
    BY <2>1, <2>2
<1>. QED
  BY <1>1, <1>3, <1>4, PlacedCut

-----------------------------------------------------------------------------
(* The theorems                                                            *)

THEOREM Invariance == Spec => []IInv
<1>. USE DEF IInv, Buffers
<1>1. Init => IInv
  BY InitBuffers, InitLayout
<1>2. IInv /\ [Next]_vars => IInv'
  <2>. SUFFICES ASSUME IInv, [Next]_vars PROVE IInv'
    OBVIOUS
  <2>0. PICK S, pos, c : Placed(S, pos, c)
    OBVIOUS
  <2>1. CASE Send
    BY <2>0, <2>1, SendStep, PlacedSend
  <2>2. CASE Read \/ ReadFails \/ LeaveLoop \/ ExtendPart
    BY <2>0, <2>2, PlacedRead, FramesKept
  <2>3. CASE StorePart
    BY <2>0, <2>3, PlacedStore, FramesKept
  <2>4. CASE CutWhole \/ CompletePart
    BY <2>0, <2>4, PlacedCutAhead, FramesKept
  <2>5. CASE SkipToHeader \/ SkipAll
    <3>1. Buffers' /\ sent' = sent
      BY <2>5, SkipToHeaderStep, SkipAllStep DEF SkipToHeader, SkipAll
    <3>. QED
      BY <2>0, <2>5, <3>1, PlacedSkip, FramesKept
  <2>6. CASE UNCHANGED vars
    <3>1. Buffers' /\ sent' = sent
      BY <2>6 DEF vars, TypeOK, BuffersFit, RoomToRead, Room
    <3>2. Stream' = Stream
      BY <2>6 DEF vars, Stream
    <3>3. Aside(pos, c) => Aside(pos, c)'
      BY <2>6 DEF vars, Aside, IsPacket
    <3>4. Placed(S, pos, c)'
      BY <2>0, <2>6, <3>2, <3>3, StreamKept, PlacedKept DEF vars, Placed
    <3>. QED
      BY <3>1, <3>4, FramesKept
  <2>. QED
    BY <2>1, <2>2, <2>3, <2>4, <2>5, <2>6 DEF Next, ParseStep
<1>. QED
  BY <1>1, <1>2, PTL DEF Spec

(* Every variable has its type.                                            *)
THEOREM TypeCorrect == Spec => []TypeOK
BY Invariance, PTL DEF IInv

(* recv never writes past Connection::buf nor a packet that is set aside   *)
(* past its announced length; the receive buffer always has room; and from *)
(* a peer that sends only packets they come out as they went in, in order, *)
(* wherever the stream was cut into reads.                                 *)
THEOREM PacketsComeOut == Spec => []PacketsIntact
<1>1. IInv => PacketsIntact
  BY DEF IInv, PacketsIntact, StreamIntact, Placed, InStep
<1>. QED
  BY <1>1, Invariance, PTL

(* As long as the tags occur where packets begin, the parser hands out     *)
(* nothing but packets that were sent, in their order and once, and passes *)
(* none over that follows one it handed out.                               *)
THEOREM ParserStaysInStep == Spec => []JunkIsPassedOver
<1>1. IInv => JunkIsPassedOver
  <2>. SUFFICES ASSUME IInv PROVE NoForgedPacket /\ StaysInSync
    BY DEF JunkIsPassedOver
  <2>. Buffers /\ TypeOK /\ Frames
    BY DEF IInv, Buffers
  <2>1. PICK S, pos, c : Placed(S, pos, c)
    BY DEF IInv
  <2>2. Layout(S, pos, c) /\ (Plain => Handled(pos, c) /\ NextInLine(pos, c))
    BY <2>1 DEF Placed
  <2>3. NoForgedPacket
    BY <2>2 DEF NoForgedPacket, Handled
  <2>4. StaysInSync
    <3>. SUFFICES ASSUME Plain, NEW k \in 1..Len(sent), NEW m \in 1..Len(sent),
                         k + 1 < m, Cut(k), IsPacket(k + 1), Cut(m), ~Cut(k + 1)
                  PROVE  FALSE
      BY DEF StaysInSync
    <3>0. Len(sent) \in Nat
      BY SentFacts
    <3>1. k + 1 \in 1..Len(sent) /\ k + 1 <= Len(sent)
      BY <3>0
    <3>2. c = pos[k + 1]
      BY <3>1, <2>2 DEF NextInLine
    <3>3. PICK i \in 1..Len(out) : Number(i) = m
      BY DEF Cut
    <3>4. pos[m + 1] <= c
      BY <3>3, <2>2 DEF Handled
    <3>5. pos[(k + 1) + 1] = pos[k + 1] + Len(sent[k + 1]) /\ pos[(k + 1) + 1] \in Nat
      BY <3>1, <2>2, PosFacts
    <3>6. Len(sent[k + 1]) \in Nat /\ Len(sent[k + 1]) >= HeadLen
      BY <3>1, <3>2, <2>2, NextPacket
    <3>7. (k + 1) + 1 \in 1..(Len(sent) + 1) /\ m + 1 \in 1..(Len(sent) + 1) /\ (k + 1) + 1 <= m + 1
      BY <3>0, <3>1
    <3>8. pos[(k + 1) + 1] <= pos[m + 1] /\ pos[m + 1] \in Nat /\ c \in Nat
      BY <3>7, <2>2 DEF Layout
    <3>. QED
      BY <3>2, <3>4, <3>5, <3>6, <3>8, PacketParserAssumption, SMTT(30)
  <2>. QED
    BY <2>3, <2>4
<1>. QED
  BY <1>1, Invariance, PTL
=============================================================================
