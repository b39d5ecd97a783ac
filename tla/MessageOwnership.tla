-------------------------- MODULE MessageOwnership --------------------------
(***************************************************************************)
(* Who owns the memory of a message, and how long a message says it is.    *)
(*                                                                         *)
(* An IMString (msg_t) is a pointer, a length and an allocated size.       *)
(* Copying one moves the pointer and leaves length and size behind in the  *)
(* source; bufalloc and init overwrite a pointer without freeing it; and   *)
(* the lengths of set_data and set_pb are 16 bits wide.  A handler runs on *)
(* a worker with the message it was given ("req") and one it makes itself  *)
(* ("rsp"), may use the functions of PbBuf.h in any order, and sends on a  *)
(* connection whose event-thread side is nextPkt and write.  With Careful  *)
(* the handlers keep the rules that the framework's own code keeps:        *)
(* allocate into an empty message, fill what was allocated, send once.     *)
(***************************************************************************)
EXTENDS Integers, Sequences, FiniteSets

CONSTANTS
  Worker,
  MaxAddr,     \* bound: buffers alive at the same time
  MaxRequest,  \* bound: requests handled
  MaxOp,       \* bound: operations of one handler
  HeadLen,     \* HEAD_LEN, 27
  Wrap,        \* 2^16, the modulus of uint16_t
  Bodies,      \* lengths of bodies
  Careful

ASSUME MessageAssumption ==
  /\ MaxAddr \in Nat /\ MaxRequest \in Nat /\ MaxOp \in Nat
  /\ HeadLen \in Nat \ {0} /\ Wrap \in Nat \ {0} /\ Bodies \subseteq Nat
  /\ Careful \in BOOLEAN

Addr == 1..MaxAddr
Null == 0
Object == Worker \X {"req", "rsp"}
IMString == [data : Addr \cup {Null}, len : Nat, alloc : Nat]
NoData == [data |-> Null, len |-> 0, alloc |-> 0]
Free == [size |-> 0, field |-> 0, body |-> 0]

VARIABLES
  heap,     \* what malloc gave: size, the len field of the header, the body's length
  msg,      \* the messages of each handler
  queue,    \* Connection::out_buffer
  out,      \* Connection::out_pkt
  finish,   \* Connection::finish: out is completely sent
  up,       \* the connection has not failed
  ops,      \* operations each handler has left, plus one; 0: it is not running
  requests, \* requests received so far
  overrun,  \* history: something was written behind the end of a buffer
  crashed   \* history: memcpy was given a null pointer

vars == <<heap, msg, queue, out, finish, up, ops, requests, overrun, crashed>>

Init ==
  /\ heap = [a \in Addr |-> Free]
  /\ msg = [o \in Object |-> NoData]
  /\ queue = <<>> /\ out = NoData /\ finish = TRUE /\ up = TRUE
  /\ ops = [w \in Worker |-> 0] /\ requests = 0
  /\ overrun = FALSE /\ crashed = FALSE

-----------------------------------------------------------------------------
(* Memory                                                                  *)

FreeAddr == {a \in Addr : heap[a] = Free}
NewAddr == CHOOSE a \in FreeAddr : TRUE

(* The heap after ~IMString or operator= has freed the buffers of ms.      *)
Released(h, ms) ==
  [a \in Addr |-> IF \E m \in ms : m.data = a THEN Free ELSE h[a]]

(* Wrong version: the source keeps its pointer.                            *)
MovedNot(m) == m

(* Copying takes the pointer; length and size stay in the source.          *)
Moved(m) == [m EXCEPT !.data = Null]

Resized(m, n) ==
  IF m.alloc >= n THEN m
  ELSE [m EXCEPT !.data = IF @ = Null THEN NewAddr ELSE @, !.alloc = n]

HeapResized(m, n) ==
  IF m.alloc >= n THEN heap
  ELSE [heap EXCEPT ![Resized(m, n).data] = [@ EXCEPT !.size = n]]

-----------------------------------------------------------------------------
(* Handlers: the functions of PbBuf.h                                      *)

Running(o) == ops[o[1]] > 1
Count(o) == ops' = [ops EXCEPT ![o[1]] = @ - 1]
Idle == UNCHANGED <<queue, out, finish, up, requests>>

(* A packet was read: bufalloc in TcpServer::parse, and the moves through  *)
(* TcpServer::handler and the pool into the handler's context.             *)
Receive(w, n) ==
  /\ ops[w] = 0 /\ requests < MaxRequest /\ FreeAddr # {}
  /\ msg' = [msg EXCEPT ![<<w, "req">>] =
               [data |-> NewAddr, len |-> HeadLen + n, alloc |-> HeadLen + n]]
  /\ heap' = [heap EXCEPT ![NewAddr] =
               [size |-> HeadLen + n, field |-> n, body |-> n]]
  /\ ops' = [ops EXCEPT ![w] = MaxOp + 1] /\ requests' = requests + 1
  /\ UNCHANGED <<queue, out, finish, up, overrun, crashed>>

(* bufalloc, and init with its fixed size: the old pointer is forgotten.   *)
BufAlloc(o, n) ==
  /\ Running(o) /\ FreeAddr # {}
  /\ Careful => msg[o].data = Null
  /\ msg' = [msg EXCEPT ![o] = [data |-> NewAddr, len |-> 0, alloc |-> HeadLen + n]]
  /\ heap' = [heap EXCEPT ![NewAddr] = [Free EXCEPT !.size = HeadLen + n]]
  /\ Count(o) /\ Idle /\ UNCHANGED <<overrun, crashed>>

(* new_head: bufalloc, then the header of src is copied.                   *)
NewHead(o, src, n) ==
  /\ Running(o) /\ FreeAddr # {} /\ o # src
  /\ Careful => msg[o].data = Null /\ msg[src].data # Null
  /\ msg' = [msg EXCEPT ![o] = [data |-> NewAddr, len |-> 0, alloc |-> HeadLen + n]]
  /\ heap' = [heap EXCEPT ![NewAddr] =
       [size |-> HeadLen + n, body |-> 0,
        field |-> IF msg[src].data = Null THEN 0 ELSE heap[msg[src].data].field]]
  /\ crashed' = (msg[src].data = Null)
  /\ Count(o) /\ Idle /\ UNCHANGED overrun

(* total_len of set_data and set_pb, a uint16_t.                           *)
Total(n) == (n + HeadLen) % Wrap

(* What set_data makes room for.                                           *)
Capacity(n) == Total(n)

(* Wrong version: the header's field is left to the caller.                *)
FilledNoField(h, a, n) == [h EXCEPT ![a] = [@ EXCEPT !.body = n]]

(* The buffer after the length and the body have been written.             *)
Filled(h, a, n) == [h EXCEPT ![a] = [@ EXCEPT !.field = n % Wrap, !.body = n]]

(* set_data: grows the buffer to the 16-bit total, then writes the body.   *)
SetData(o, n) ==
  LET m == Resized(msg[o], Capacity(n)) IN
  /\ Running(o)
  /\ Careful => msg[o].data # Null /\ n + HeadLen < Wrap
  /\ msg[o].data # Null \/ FreeAddr # {}
  /\ IF m.data = Null
       THEN UNCHANGED <<heap, msg, overrun>>
       ELSE /\ msg' = [msg EXCEPT ![o] = [m EXCEPT !.len = Total(n)]]
            /\ heap' = Filled(HeapResized(msg[o], Capacity(n)), m.data, n)
            /\ overrun' = (overrun \/ m.alloc < HeadLen + n)
  /\ Count(o) /\ Idle /\ UNCHANGED crashed

(* set_pb: never grows the buffer.                                         *)
SetPb(o, n) ==
  /\ Running(o)
  /\ Careful => msg[o].alloc >= HeadLen + n /\ n + HeadLen < Wrap
  /\ IF msg[o].data = Null
       THEN UNCHANGED <<heap, msg, overrun>>
       ELSE /\ msg' = [msg EXCEPT ![o].len = Total(n)]
            /\ heap' = Filled(heap, msg[o].data, n)
            /\ overrun' = (overrun \/ msg[o].alloc < HeadLen + n)
  /\ Count(o) /\ Idle /\ UNCHANGED crashed

(* deep_copy: an emptied destination still has its old size and is not     *)
(* given memory again.                                                     *)
DeepCopy(o, src) ==
  LET s == msg[src]
      d == Resized(msg[o], s.alloc)
  IN
  /\ Running(o) /\ o # src
  /\ Careful => s.data # Null /\ msg[o] = NoData
  /\ msg[o].data # Null \/ FreeAddr # {}
  /\ crashed' = (s.len > 0 /\ Null \in {s.data, d.data})
  /\ msg' = [msg EXCEPT ![o] = [d EXCEPT !.len = s.len]]
  /\ heap' = IF Null \in {s.data, d.data} THEN HeapResized(msg[o], s.alloc)
             ELSE [HeapResized(msg[o], s.alloc) EXCEPT
                     ![d.data].field = heap[s.data].field,
                     ![d.data].body = heap[s.data].body]
  /\ Count(o) /\ Idle /\ UNCHANGED overrun

(* sendNode and its like: IMQueue::push moves the message into the queue.  *)
Send(o) ==
  /\ Running(o)
  /\ Careful => msg[o].data # Null /\ msg[o].len > 0
  /\ queue' = Append(queue, msg[o])
  /\ msg' = [msg EXCEPT ![o] = Moved(@)]
  /\ Count(o) /\ UNCHANGED <<heap, out, finish, up, requests, overrun, crashed>>

(* The handler returns: its messages are destroyed.                        *)
Return(w) ==
  /\ ops[w] > 0
  /\ heap' = Released(heap, {msg[<<w, "req">>], msg[<<w, "rsp">>]})
  /\ msg' = [o \in Object |-> IF o[1] = w THEN NoData ELSE msg[o]]
  /\ ops' = [ops EXCEPT ![w] = 0]
  /\ UNCHANGED <<queue, out, finish, up, requests, overrun, crashed>>

-----------------------------------------------------------------------------
(* Event thread                                                            *)

(* Wrong version: the packet sent before is overwritten, not freed.        *)
AssignedNoFree(h) == h

(* operator=: out_pkt frees the packet that was sent before.               *)
Assigned(h) == Released(h, {out})

(* Wrong version: the packet is moved out of the queue before it is taken. *)
PoppedTwice == Moved(queue[1])

(* IMQueue::pop *)
Popped == queue[1]

(* nextPkt *)
NextPkt ==
  /\ up /\ finish /\ queue # <<>>
  /\ heap' = Assigned(heap)
  /\ out' = Popped /\ queue' = Tail(queue)
  /\ finish' = FALSE
  /\ UNCHANGED <<msg, up, ops, requests, overrun, crashed>>

(* write: send fails with EFAULT for a null pointer and returns 0 for an   *)
(* empty packet; either drops the connection.                              *)
Write ==
  /\ up /\ ~finish
  /\ up' = (out.data # Null /\ out.len > 0)
  /\ finish' = up'
  /\ UNCHANGED <<heap, msg, queue, out, ops, requests, overrun, crashed>>

(* checkState: a new connection inherits the queue, the old one and its    *)
(* out_pkt are destroyed.                                                  *)
Redial ==
  /\ ~up
  /\ up' = TRUE /\ finish' = TRUE
  /\ heap' = Released(heap, {out}) /\ out' = NoData
  /\ UNCHANGED <<msg, queue, ops, requests, overrun, crashed>>

Next ==
  /\ ~crashed
  /\ \/ \E w \in Worker : Return(w) \/ \E n \in Bodies : Receive(w, n)
     \/ \E o \in Object :
          \/ Send(o)
          \/ \E n \in Bodies : BufAlloc(o, n) \/ SetData(o, n) \/ SetPb(o, n)
          \/ \E src \in Object :
               /\ src[1] = o[1]
               /\ DeepCopy(o, src) \/ \E n \in Bodies : NewHead(o, src, n)
     \/ NextPkt \/ Write \/ Redial

Spec == Init /\ [][Next]_vars

-----------------------------------------------------------------------------
(* Properties                                                              *)

Elements(s) == {s[i] : i \in DOMAIN s}

(* Types of the state. *)
TypeOK ==
  /\ heap \in [Addr -> [size : Nat, field : Nat, body : Nat]]
  /\ msg \in [Object -> IMString] /\ queue \in Seq(IMString) /\ out \in IMString
  /\ ops \in [Worker -> 0..MaxOp + 1] /\ requests \in 0..MaxRequest
  /\ {finish, up, overrun, crashed} \subseteq BOOLEAN

(* How many of the handlers' messages, the queue and out_pkt point to a.   *)
Owners(a) ==
  Cardinality({o \in Object : msg[o].data = a})
    + Cardinality({i \in DOMAIN queue : queue[i].data = a})
    + IF out.data = a THEN 1 ELSE 0

(* Whatever handlers do, a buffer has one owner, and no owner points to    *)
(* freed memory or believes its buffer longer than it is: nothing is freed *)
(* twice or used after it was freed, through all the moves of IMString.    *)
OneOwner ==
  \A a \in Addr :
    /\ Owners(a) <= 1
    /\ Owners(a) > 0 => heap[a] # Free
    /\ \A m \in Elements(queue) \cup {out} \cup {msg[o] : o \in Object} :
         m.data = a => m.alloc = heap[a].size

(* Handlers that keep the rules lose no memory: every buffer has an owner, *)
(* although bufalloc and new_head overwrite pointers.                      *)
NoLeak == \A a \in Addr : heap[a] # Free => Owners(a) > 0

(* ... and write nothing behind a buffer.                                  *)
NoOverrun == ~overrun /\ ~crashed

(* ... and drop no connection: what write takes from the queue always has  *)
(* its memory and a length.                                                *)
HealthyConnection == up

(* ... and keep the receiver in step: as many bytes are sent as the header *)
(* says, and the header tells the length of the body.                      *)
ReceiverInStep ==
  \A m \in Elements(queue) \cup {out} :
    m.data # Null => /\ m.len = HeadLen + heap[m.data].field
                     /\ heap[m.data].body = heap[m.data].field

(* The comment on data_len (PbBuf.h): it returns the length of the body of *)
(* a complete packet, here after set_data or set_pb.                       *)
DataLenIsBodyLen ==
  \A o \in Object :
    msg[o].data # Null /\ msg[o].len > 0
      => msg[o].len - HeadLen = heap[msg[o].data].body
=============================================================================
