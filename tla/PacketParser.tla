---------------------------- MODULE PacketParser ----------------------------
(***************************************************************************)
(* How the packets of a TCP connection are cut out of its byte stream:     *)
(* Connection::read fills the receive buffer from the socket,              *)
(* TcpServer::parse takes packets from the buffer, keeps the beginning of  *)
(* an incomplete one aside in Connection::pkt, and skips bytes that are    *)
(* no packet.  All of it runs on the event thread.                         *)
(*                                                                         *)
(* A packet is a header of HeadLen bytes, tag bytes first and the length   *)
(* of the body last, and the body.  The buffer is the part of              *)
(* Connection::buf that is still to be parsed; the pointer "data" and the  *)
(* memmove that ends parse only keep that part where it belongs.           *)
(***************************************************************************)
EXTENDS Integers, Sequences

CONSTANTS
  HeadLen,    \* HEAD_LEN; at least two tag bytes, a packet number, a length
  BufLen,     \* RECV_BUF_LEN
  Tag1, Tag2, \* TAG_HEAD_1, TAG_HEAD_2
  Body,       \* the bodies peers send
  Junk,       \* what peers send that is no packet
  MaxFrame    \* bound: packets and pieces of junk sent

ASSUME PacketParserAssumption ==
  /\ HeadLen \in Nat /\ HeadLen >= 4 /\ BufLen \in Nat /\ BufLen >= HeadLen
  /\ MaxFrame \in Nat
  /\ Tag1 \in Nat /\ Tag2 \in Nat /\ Tag1 # Tag2
  /\ Body \subseteq Seq(Nat) /\ Junk \subseteq Seq(Nat)

VARIABLES
  net,    \* the bytes the peer has sent and recv has not returned
  buf,    \* Connection::buf, the first buf_len bytes from "data" on
  pkt,    \* Connection::pkt: the beginning of an incomplete packet
  less,   \* Connection::less_pkt_len: the bytes missing in pkt
  pc,     \* the event thread: "idle", "parse"; "closed" when reading failed
  sent,   \* history: what the peer sent, packets and junk
  out     \* history: the packets cut out of the stream, [pkt, ok]

vars == <<net, buf, pkt, less, pc, sent, out>>

Init ==
  /\ net = <<>> /\ buf = <<>> /\ pkt = <<>> /\ less = 0
  /\ pc = "idle"
  /\ sent = <<>> /\ out = <<>>

-----------------------------------------------------------------------------
(* The format                                                              *)

(* Packet number k with a body: the third byte stands for what identifies  *)
(* a message, the bytes up to the length are not looked at.                *)
Header(k, len) ==
  [i \in 1..HeadLen |-> CASE i = 1 -> Tag1
                          [] i = 2 -> Tag2
                          [] i = 3 -> k
                          [] i = HeadLen -> len
                          [] OTHER -> 0]
Packet(k, body) == Header(k, Len(body)) \o body

PktLen(s) == s[HeadLen] + HeadLen

(* check(): the byte behind the header enters the sum even when there is   *)
(* no body; it is uninitialised memory then.                               *)
Check(p) == IF PktLen(p) > HeadLen THEN {TRUE} ELSE BOOLEAN

Prefix(s, n) == SubSeq(s, 1, n)
Rest(s, n) == SubSeq(s, n + 1, Len(s))

TagAt(i) == i + 1 <= Len(buf) /\ buf[i] = Tag1 /\ buf[i + 1] = Tag2

(* A complete packet: checked, then handed to parseCommonProto or to the   *)
(* workers, or dropped.                                                    *)
Handle(p) == \E ok \in Check(p) : out' = Append(out, [pkt |-> p, ok |-> ok])

-----------------------------------------------------------------------------
(* The peer                                                                *)

Send ==
  /\ Len(sent) < MaxFrame
  /\ \E f \in {Packet(Len(sent) + 1, b) : b \in Body} \cup Junk :
       /\ sent' = Append(sent, f)
       /\ net' = net \o f
  /\ UNCHANGED <<buf, pkt, less, pc, out>>

-----------------------------------------------------------------------------
(* Connection::read                                                        *)

Room == BufLen - Len(buf)

(* recv until it would block or the buffer is full: any part of what is on *)
(* its way has arrived.                                                    *)
Read ==
  /\ pc = "idle"
  /\ \E n \in 1..Room :
       /\ n <= Len(net)
       /\ buf' = buf \o Prefix(net, n)
       /\ net' = Rest(net, n)
  /\ pc' = "parse"
  /\ UNCHANGED <<pkt, less, sent, out>>

(* recv fails or returns 0: what came with the same read is not parsed.    *)
ReadFails ==
  /\ pc = "idle"
  /\ \E n \in 0..(Room - 1) :
       /\ n <= Len(net)
       /\ buf' = buf \o Prefix(net, n)
       /\ net' = Rest(net, n)
  /\ pc' = "closed"
  /\ UNCHANGED <<pkt, less, sent, out>>

-----------------------------------------------------------------------------
(* TcpServer::parse: one action per way through the loop body              *)

InLoop == pc = "parse" /\ Len(buf) >= HeadLen

(* Wrong version: what is left is forgotten.                               *)
LeaveLoopDropsRest ==
  /\ pc = "parse" /\ Len(buf) < HeadLen
  /\ buf' = <<>>
  /\ pc' = "idle"
  /\ UNCHANGED <<net, pkt, less, sent, out>>

LeaveLoop ==
  /\ pc = "parse" /\ Len(buf) < HeadLen
  /\ pc' = "idle"
  /\ UNCHANGED <<net, buf, pkt, less, sent, out>>

CutWhole ==
  /\ InLoop /\ less = 0 /\ TagAt(1)
  /\ Len(buf) >= PktLen(buf)
  /\ Handle(Prefix(buf, PktLen(buf)))
  /\ buf' = Rest(buf, PktLen(buf))
  /\ UNCHANGED <<net, pkt, less, pc, sent>>

(* Wrong version: an incomplete packet waits in the buffer.                *)
StorePartInPlace ==
  /\ InLoop /\ less = 0 /\ TagAt(1)
  /\ Len(buf) < PktLen(buf)
  /\ pc' = "idle"
  /\ UNCHANGED <<net, buf, pkt, less, sent, out>>

(* The beginning of a packet is set aside.                                 *)
StorePart ==
  /\ InLoop /\ less = 0 /\ TagAt(1)
  /\ Len(buf) < PktLen(buf)
  /\ pkt' = buf
  /\ less' = PktLen(buf) - Len(buf)
  /\ buf' = <<>>
  /\ pc' = "idle"
  /\ UNCHANGED <<net, sent, out>>

FirstTag(i) == TagAt(i) /\ \A j \in 1..(i - 1) : ~TagAt(j)

(* No header at the front: go to the first one in the buffer.  The test    *)
(* whether one was found compares its offset with the new buf_len.         *)
SkipToHeader ==
  /\ InLoop /\ less = 0 /\ ~TagAt(1)
  /\ \E i \in 2..Len(buf) :
       /\ FirstTag(i)
       /\ IF i - 1 = (Len(buf) - (i - 1)) - 1
            THEN buf' = <<>> /\ pc' = "idle"
            ELSE buf' = Rest(buf, i - 1) /\ UNCHANGED pc
  /\ UNCHANGED <<net, pkt, less, sent, out>>

(* None: Connection::clear.                                                *)
SkipAll ==
  /\ InLoop /\ less = 0
  /\ \A i \in 1..Len(buf) : ~TagAt(i)
  /\ buf' = <<>> /\ pkt' = <<>> /\ less' = 0
  /\ pc' = "idle"
  /\ UNCHANGED <<net, sent, out>>

CompletePart ==
  /\ InLoop /\ less > 0
  /\ Len(buf) >= less
  /\ Handle(pkt \o Prefix(buf, less))
  /\ buf' = Rest(buf, less)
  /\ pkt' = <<>> /\ less' = 0
  /\ UNCHANGED <<net, pc, sent>>

(* Wrong version: less_pkt_len stays as it was.                            *)
ExtendPartKeepsLess ==
  /\ InLoop /\ less > 0
  /\ Len(buf) < less
  /\ pkt' = pkt \o buf
  /\ buf' = <<>>
  /\ UNCHANGED <<net, less, pc, sent, out>>

ExtendPart ==
  /\ InLoop /\ less > 0
  /\ Len(buf) < less
  /\ pkt' = pkt \o buf
  /\ less' = less - Len(buf)
  /\ buf' = <<>>
  /\ UNCHANGED <<net, pc, sent, out>>

-----------------------------------------------------------------------------

ParseStep ==
  \/ LeaveLoop
  \/ CutWhole \/ StorePart
  \/ SkipToHeader \/ SkipAll
  \/ CompletePart \/ ExtendPart

Next == Send \/ Read \/ ReadFails \/ ParseStep

Spec == Init /\ [][Next]_vars

(* parse runs to its end; the socket is read while it has bytes.           *)
FairSpec == Spec /\ WF_vars(ParseStep) /\ WF_vars(Read)

-----------------------------------------------------------------------------
(* Properties                                                              *)

(* Every variable has its type.                                            *)
TypeOK ==
  /\ net \in Seq(Nat) /\ buf \in Seq(Nat) /\ pkt \in Seq(Nat)
  /\ less \in Nat
  /\ pc \in {"idle", "parse", "closed"}
  /\ sent \in Seq(Seq(Nat))
  /\ out \in Seq([pkt : Seq(Nat), ok : BOOLEAN])

(* recv never writes past Connection::buf, and the pieces of a packet that *)
(* is set aside never past the allocation of its announced size.           *)
BuffersFit ==
  /\ Len(buf) <= BufLen
  /\ less = 0 => pkt = <<>>
  /\ less > 0 => Len(pkt) >= HeadLen /\ Len(pkt) + less = PktLen(pkt)

(* Between two calls the receive buffer always has room, however large the *)
(* packets: read never returns without having asked the socket (libevent   *)
(* would report the same bytes again at once, for ever).                   *)
RoomToRead == pc = "idle" => Room > 0

(* What the peer has sent so far is nothing but packets.                   *)
IsPacket(k) == sent[k] \notin Junk
OnlyPackets == \A k \in 1..Len(sent) : IsPacket(k)

(* From a peer that sends only packets, the packets come out as they went  *)
(* in, in order, none missing, wherever the stream was cut into reads.     *)
StreamIntact ==
  OnlyPackets =>
    /\ Len(out) <= Len(sent)
    /\ \A i \in 1..Len(out) : out[i].pkt = sent[i]

(* Types, no buffer overrun, room for the next read, and, from a peer that *)
(* sends only packets, what was sent.                                      *)
PacketsIntact == TypeOK /\ BuffersFit /\ RoomToRead /\ StreamIntact

(* A packet is handled at the latest when the next one has come in.        *)
(* (Alone it may wait: see LeftoverIsHeader.)                              *)
OneBehind ==
  \A n \in 1..MaxFrame :
    Len(sent) = n ~> Len(out) >= n - 1 \/ pc = "closed" \/ ~OnlyPackets

(* What was sent so far contains the tags where a packet begins, and       *)
(* nowhere else, not even across the end of a piece.                       *)
Plain ==
  \A k \in 1..Len(sent) :
    /\ sent[k] # <<>> /\ sent[k][1] # Tag2
    /\ \A i \in 1..(Len(sent[k]) - 1) :
         sent[k][i] = Tag1 /\ sent[k][i + 1] = Tag2 => i = 1 /\ IsPacket(k)

Number(i) == out[i].pkt[3]
Cut(k) == \E i \in 1..Len(out) : Number(i) = k

(* Junk never makes the parser hand out a packet nobody sent, one sent     *)
(* later before one sent earlier, or one twice.                            *)
NoForgedPacket ==
  Plain =>
    \A i \in 1..Len(out) :
      /\ Number(i) \in 1..Len(sent)
      /\ out[i].pkt = sent[Number(i)]
      /\ \A j \in 1..(i - 1) : Number(j) < Number(i)

(* Once in step with the packets the parser stays in step: a packet that   *)
(* follows one that was handled is not passed over.                        *)
StaysInSync ==
  Plain =>
    \A k, m \in 1..Len(sent) :
      k + 1 < m /\ Cut(k) /\ IsPacket(k + 1) /\ Cut(m) => Cut(k + 1)

(* Between junk nothing is made up, reordered or doubled, and the parser   *)
(* does not lose its step again.                                           *)
JunkIsPassedOver == NoForgedPacket /\ StaysInSync

(* TcpServer.cpp:217 says that what parse leaves in the buffer is "not     *)
(* enough header data".                                                    *)
LeftoverIsHeader == pc = "idle" /\ buf # <<>> => less = 0

(* TcpServer.cpp:165 says that the branch finds the packet header: a       *)
(* header in the buffer is what parsing goes on with.                      *)
HeaderIsFound ==
  [][ SkipToHeader => buf' # <<>> ]_vars
=============================================================================
