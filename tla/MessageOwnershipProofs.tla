---------------------- MODULE MessageOwnershipProofs ----------------------
(***************************************************************************)
(* Proofs about MessageOwnership: types, and that a buffer has one owner,  *)
(* for every number of workers, every length and every order in which      *)
(* handlers use the functions of PbBuf.h, with Careful or without.         *)
(***************************************************************************)
EXTENDS MessageOwnership, FiniteSetTheorems, SequenceTheorems, TLAPS

HeapType == [Addr -> [size : Nat, field : Nat, body : Nat]]

Typed ==
  /\ heap \in HeapType
  /\ msg \in [Object -> IMString] /\ queue \in Seq(IMString) /\ out \in IMString

(* No two of the messages of the handlers, of the queue and out_pkt point  *)
(* to the same buffer.                                                     *)
Unique ==
  /\ \A o, p \in Object : msg[o].data # Null /\ msg[o].data = msg[p].data => o = p
  /\ \A i, j \in DOMAIN queue :
       queue[i].data # Null /\ queue[i].data = queue[j].data => i = j
  /\ \A o \in Object : msg[o].data # Null =>
       msg[o].data # out.data /\ \A i \in DOMAIN queue : msg[o].data # queue[i].data
  /\ \A i \in DOMAIN queue : queue[i].data # Null => queue[i].data # out.data

(* A message that points to a buffer knows its size, and no buffer is      *)
(* empty: bufalloc asks for a header at least, realloc only grows.         *)
Backs(h, m) == m.data # Null => h[m.data].size = m.alloc /\ m.alloc > 0

AllBacked ==
  /\ \A o \in Object : Backs(heap, msg[o])
  /\ \A i \in DOMAIN queue : Backs(heap, queue[i])
  /\ Backs(heap, out)

Counted ==
  /\ ops \in [Worker -> 0..MaxOp + 1] /\ requests \in 0..MaxRequest
  /\ {finish, up, overrun, crashed} \subseteq BOOLEAN

IInv == Typed /\ Unique /\ AllBacked

LEMMA InitIInv == Init => IInv
<1>. SUFFICES ASSUME Init PROVE IInv
  OBVIOUS
<1>1. NoData \in IMString /\ NoData.data = Null
  BY DEF NoData, IMString
<1>2. Typed
  BY <1>1 DEF Init, Typed, HeapType, Free
<1>. QED
  BY <1>1, <1>2 DEF Init, IInv, Unique, AllBacked, Backs

LEMMA Queued ==
  ASSUME Typed
  PROVE  /\ DOMAIN queue = 1..Len(queue) /\ Len(queue) \in Nat
         /\ \A i \in DOMAIN queue : queue[i] \in IMString
BY ElementOfSeq DEF Typed

(* bufalloc gets a buffer that nobody has.                                 *)
LEMMA NewIsFree ==
  ASSUME FreeAddr # {}
  PROVE  NewAddr \in Addr /\ heap[NewAddr] = Free
BY DEF FreeAddr, NewAddr

LEMMA FreeIsEmpty == Free.size = 0
BY DEF Free

LEMMA AddrNotNull == Null \notin Addr
BY DEF Addr, Null

-----------------------------------------------------------------------------
(* What a handler does to one of its messages: it keeps its buffer, loses  *)
(* it or gets one that nobody has, and no other buffer changes size.       *)
LEMMA HolderStep ==
  ASSUME IInv, NEW o \in Object, NEW r \in IMString,
         msg' = [msg EXCEPT ![o] = r], UNCHANGED <<queue, out>>, heap' \in HeapType,
         \/ r.data \in {Null, msg[o].data}
         \/ r.data \in Addr /\ heap[r.data].size = 0,
         \A a \in Addr : a # r.data => heap'[a].size = heap[a].size,
         r.data # Null => heap'[r.data].size = r.alloc /\ r.alloc > 0
  PROVE  IInv'
<1>1. Typed'
  BY DEF IInv, Typed
<1>2. \A p \in Object : msg'[p] = IF p = o THEN r ELSE msg[p]
  BY DEF IInv, Typed
<1>3. \A p \in Object : p # o /\ msg[p].data # Null => msg[p].data # r.data
  BY DEF IInv, Unique, AllBacked, Backs
<1>4. /\ \A i \in DOMAIN queue : queue[i].data # Null => queue[i].data # r.data
      /\ out.data # Null => out.data # r.data
  BY DEF IInv, Unique, AllBacked, Backs
<1>5. Unique'
  BY <1>2, <1>3, <1>4 DEF IInv, Unique
<1>6. AllBacked'
  <2>1. \A p \in Object : msg[p].data \in Addr \cup {Null}
    BY DEF IInv, Typed, IMString
  <2>2. \A i \in DOMAIN queue : queue[i].data \in Addr \cup {Null}
    BY Queued DEF IInv, IMString
  <2>3. out.data \in Addr \cup {Null}
    BY DEF IInv, Typed, IMString
  <2>4. \A p \in Object : Backs(heap', msg'[p])
    BY <1>2, <1>3, <2>1 DEF IInv, AllBacked, Backs
  <2>5. \A i \in DOMAIN queue : Backs(heap', queue[i])
    BY <1>4, <2>2 DEF IInv, AllBacked, Backs
  <2>6. Backs(heap', out)
    BY <1>4, <2>3 DEF IInv, AllBacked, Backs
  <2>. QED
    BY <2>4, <2>5, <2>6 DEF AllBacked
<1>. QED
  BY <1>1, <1>5, <1>6 DEF IInv

LEMMA Lengths ==
  ASSUME NEW n \in Bodies
  PROVE  /\ n \in Nat /\ HeadLen + n \in Nat /\ HeadLen + n > 0
         /\ Total(n) \in Nat /\ n % Wrap \in Nat
BY MessageAssumption DEF MessageAssumption, Total

LEMMA AllocStep ==
  ASSUME IInv, NEW o \in Object, NEW len \in Nat, NEW size \in Nat, size > 0,
         NEW field \in Nat, NEW body \in Nat, FreeAddr # {},
         msg' = [msg EXCEPT ![o] = [data |-> NewAddr, len |-> len, alloc |-> size]],
         heap' = [heap EXCEPT ![NewAddr] = [size |-> size, field |-> field, body |-> body]],
         UNCHANGED <<queue, out>>
  PROVE  IInv'
<1>. DEFINE r == [data |-> NewAddr, len |-> len, alloc |-> size]
            b == [size |-> size, field |-> field, body |-> body]
<1>1. NewAddr \in Addr /\ heap[NewAddr].size = 0 /\ heap \in HeapType
  BY NewIsFree, FreeIsEmpty DEF IInv, Typed
<1>2. r \in IMString /\ r.data = NewAddr /\ r.alloc = size
  BY <1>1 DEF IMString
<1>3. b \in [size : Nat, field : Nat, body : Nat] /\ b.size = size
  OBVIOUS
<1>4. msg' = [msg EXCEPT ![o] = r] /\ heap' = [heap EXCEPT ![NewAddr] = b]
  OBVIOUS
<1>. HIDE DEF r, b
<1>5. /\ heap' \in HeapType /\ heap'[NewAddr].size = size
      /\ \A a \in Addr : a # NewAddr => heap'[a].size = heap[a].size
  BY <1>1, <1>3, <1>4 DEF HeapType
<1>6. /\ r.data \in Addr /\ heap[r.data].size = 0
      /\ \A a \in Addr : a # r.data => heap'[a].size = heap[a].size
      /\ heap'[r.data].size = r.alloc /\ r.alloc > 0
  BY <1>1, <1>2, <1>5
<1>. QED
  BY <1>2, <1>4, <1>5, <1>6, HolderStep

(* realloc: a message with less than n bytes gets n.                       *)
LEMMA ResizeFacts ==
  ASSUME Typed, AllBacked, NEW o \in Object, NEW n \in Nat, msg[o].data # Null \/ FreeAddr # {}
  PROVE  LET m == Resized(msg[o], n)
             h == HeapResized(msg[o], n)
         IN  /\ m \in IMString /\ h \in HeapType
             /\ \/ m.data \in {Null, msg[o].data}
                \/ m.data \in Addr /\ heap[m.data].size = 0
             /\ \A a \in Addr : a # m.data => h[a].size = heap[a].size
             /\ m.data # Null => h[m.data].size = m.alloc /\ m.alloc > 0
<1>. DEFINE m == Resized(msg[o], n)
            h == HeapResized(msg[o], n)
<1>1. msg[o] \in IMString /\ heap \in HeapType /\ Backs(heap, msg[o])
  BY DEF Typed, AllBacked
<1>2. CASE msg[o].alloc >= n
  <2>1. m = msg[o] /\ h = heap
    BY <1>2 DEF Resized, HeapResized
  <2>. QED
    BY <1>1, <2>1 DEF Backs
<1>3. CASE ~(msg[o].alloc >= n)
  <2>. DEFINE x == IF msg[o].data = Null THEN NewAddr ELSE msg[o].data
  <2>1. x \in Addr /\ (msg[o].data # Null => x = msg[o].data)
        /\ (msg[o].data = Null => heap[x].size = 0)
    BY <1>1, NewIsFree, FreeIsEmpty DEF IMString
  <2>2. m = [msg[o] EXCEPT !.data = x, !.alloc = n]
    BY <1>3 DEF Resized
  <2>. HIDE DEF x
  <2>3. m \in IMString /\ m.data = x /\ m.alloc = n
    BY <1>1, <2>1, <2>2 DEF IMString
  <2>4. n > 0
    BY <1>1, <1>3 DEF IMString
  <2>. DEFINE b == [heap[x] EXCEPT !.size = n]
  <2>5. b \in [size : Nat, field : Nat, body : Nat] /\ b.size = n
    BY <1>1, <2>1 DEF HeapType
  <2>6. h = [heap EXCEPT ![x] = b]
    BY <1>3, <2>3 DEF HeapResized
  <2>. HIDE DEF b, m, h
  <2>7. /\ h \in HeapType /\ h[x].size = n
        /\ \A a \in Addr : a # x => h[a].size = heap[a].size
    BY <1>1, <2>1, <2>5, <2>6 DEF HeapType
  <2>8. m \in IMString /\ h \in HeapType
    BY <2>3, <2>7
  <2>9. \/ m.data \in {Null, msg[o].data}
        \/ m.data \in Addr /\ heap[m.data].size = 0
    BY <2>1, <2>3
  <2>. QED
    BY <2>3, <2>4, <2>7, <2>8, <2>9 DEF m, h
<1>. QED
  BY <1>2, <1>3

(* Writing the lengths and the body of a message leaves the sizes.         *)
LEMMA FilledFacts ==
  ASSUME NEW h \in HeapType, NEW a \in Addr, NEW n \in Bodies
  PROVE  /\ Filled(h, a, n) \in HeapType
         /\ \A b \in Addr : Filled(h, a, n)[b].size = h[b].size
<1>. DEFINE c == [h[a] EXCEPT !.field = n % Wrap, !.body = n]
<1>1. c \in [size : Nat, field : Nat, body : Nat] /\ c.size = h[a].size
  BY Lengths DEF HeapType
<1>2. Filled(h, a, n) = [h EXCEPT ![a] = c]
  BY DEF Filled
<1>. HIDE DEF c
<1>. QED
  BY <1>1, <1>2 DEF HeapType

LEMMA SetDataStep ==
  ASSUME IInv, NEW o \in Object, NEW n \in Bodies, SetData(o, n)
  PROVE  IInv'
<1>. DEFINE m == Resized(msg[o], Capacity(n))
            h == HeapResized(msg[o], Capacity(n))
            r == [m EXCEPT !.len = Total(n)]
<1>1. UNCHANGED <<queue, out>>
  BY DEF SetData, Idle
<1>2. CASE m.data = Null
  <2>1. UNCHANGED <<heap, msg>>
    BY <1>2 DEF SetData
  <2>. QED
    BY <1>1, <2>1 DEF IInv, Typed, Unique, AllBacked
<1>3. CASE m.data # Null
  <2>1. Capacity(n) \in Nat /\ Total(n) \in Nat /\ (msg[o].data # Null \/ FreeAddr # {})
    BY Lengths DEF SetData, Capacity
  <2>2. msg' = [msg EXCEPT ![o] = r] /\ heap' = Filled(h, m.data, n)
    BY <1>3 DEF SetData
  <2>3. /\ m \in IMString /\ h \in HeapType
        /\ \/ m.data \in {Null, msg[o].data}
           \/ m.data \in Addr /\ heap[m.data].size = 0
        /\ \A a \in Addr : a # m.data => h[a].size = heap[a].size
        /\ m.data # Null => h[m.data].size = m.alloc /\ m.alloc > 0
    BY <2>1, ResizeFacts DEF IInv
  <2>. HIDE DEF m, h
  <2>4. r \in IMString /\ r.data = m.data /\ r.alloc = m.alloc /\ m.data \in Addr
    BY <1>3, <2>1, <2>3 DEF IMString
  <2>5. heap' \in HeapType /\ \A b \in Addr : heap'[b].size = h[b].size
    BY <2>2, <2>3, <2>4, FilledFacts
  <2>. HIDE DEF r
  <2>. QED
    BY <1>1, <1>3, <2>2, <2>3, <2>4, <2>5, HolderStep
<1>. QED
  BY <1>2, <1>3

LEMMA SetPbStep ==
  ASSUME IInv, NEW o \in Object, NEW n \in Bodies, SetPb(o, n)
  PROVE  IInv'
<1>. DEFINE r == [msg[o] EXCEPT !.len = Total(n)]
<1>1. UNCHANGED <<queue, out>>
  BY DEF SetPb, Idle
<1>2. CASE msg[o].data = Null
  <2>1. UNCHANGED <<heap, msg>>
    BY <1>2 DEF SetPb
  <2>. QED
    BY <1>1, <2>1 DEF IInv, Typed, Unique, AllBacked
<1>3. CASE msg[o].data # Null
  <2>1. msg[o] \in IMString /\ heap \in HeapType /\ Backs(heap, msg[o])
    BY DEF IInv, Typed, AllBacked
  <2>2. r \in IMString /\ r.data = msg[o].data /\ r.alloc = msg[o].alloc /\ r.data \in Addr
    BY <1>3, <2>1, Lengths DEF IMString
  <2>3. msg' = [msg EXCEPT ![o] = r] /\ heap' = Filled(heap, r.data, n)
    BY <1>3, <2>2 DEF SetPb
  <2>. HIDE DEF r
  <2>4. heap' \in HeapType /\ \A b \in Addr : heap'[b].size = heap[b].size
    BY <2>1, <2>2, <2>3, FilledFacts
  <2>. QED
    BY <1>1, <1>3, <2>1, <2>2, <2>3, <2>4, HolderStep DEF Backs
<1>. QED
  BY <1>2, <1>3

LEMMA DeepCopyStep ==
  ASSUME IInv, NEW o \in Object, NEW src \in Object, DeepCopy(o, src)
  PROVE  IInv'
<1>. DEFINE s == msg[src]
            d == Resized(msg[o], s.alloc)
            h == HeapResized(msg[o], s.alloc)
            r == [d EXCEPT !.len = s.len]
<1>1. UNCHANGED <<queue, out>>
  BY DEF DeepCopy, Idle
<1>2. /\ s \in IMString /\ s.alloc \in Nat /\ s.len \in Nat /\ heap \in HeapType
      /\ msg[o].data # Null \/ FreeAddr # {}
  BY DEF IInv, Typed, IMString, DeepCopy
<1>3. /\ msg' = [msg EXCEPT ![o] = r]
      /\ heap' = IF Null \in {s.data, d.data} THEN h
                 ELSE [h EXCEPT ![d.data].field = heap[s.data].field,
                                ![d.data].body = heap[s.data].body]
  BY DEF DeepCopy
<1>4. /\ d \in IMString /\ h \in HeapType
      /\ \/ d.data \in {Null, msg[o].data}
         \/ d.data \in Addr /\ heap[d.data].size = 0
      /\ \A a \in Addr : a # d.data => h[a].size = heap[a].size
      /\ d.data # Null => h[d.data].size = d.alloc /\ d.alloc > 0
  BY <1>2, ResizeFacts DEF IInv
<1>. HIDE DEF d, h
<1>5. r \in IMString /\ r.data = d.data /\ r.alloc = d.alloc
  BY <1>2, <1>4 DEF IMString
<1>. HIDE DEF r
<1>6. heap' \in HeapType /\ \A a \in Addr : heap'[a].size = h[a].size
  <2>1. CASE Null \in {s.data, d.data}
    BY <1>3, <1>4, <2>1
  <2>2. CASE Null \notin {s.data, d.data}
    <3>. DEFINE b == [[h[d.data] EXCEPT !.field = heap[s.data].field]
                        EXCEPT !.body = heap[s.data].body]
    <3>1. s.data \in Addr /\ d.data \in Addr
      BY <1>2, <1>4, <2>2 DEF IMString
    <3>2. h[d.data] \in [size : Nat, field : Nat, body : Nat]
          /\ heap[s.data] \in [size : Nat, field : Nat, body : Nat]
      BY <1>2, <1>4, <3>1 DEF HeapType
    <3>3. b \in [size : Nat, field : Nat, body : Nat] /\ b.size = h[d.data].size
      BY <3>2
    <3>4. heap' = [h EXCEPT ![d.data] = b]
      BY <1>3, <1>4, <2>2, <3>1 DEF HeapType
    <3>. HIDE DEF b
    <3>. QED
      BY <1>4, <3>1, <3>3, <3>4 DEF HeapType
  <2>. QED
    BY <2>1, <2>2
<1>7. /\ \/ r.data \in {Null, msg[o].data}
         \/ r.data \in Addr /\ heap[r.data].size = 0
      /\ \A a \in Addr : a # r.data => heap'[a].size = heap[a].size
  BY <1>4, <1>5, <1>6
<1>8. r.data # Null => heap'[r.data].size = r.alloc /\ r.alloc > 0
  BY <1>4, <1>5, <1>6 DEF IMString
<1>. QED
  BY <1>1, <1>3, <1>5, <1>6, <1>7, <1>8, HolderStep

LEMMA AllocSteps ==
  ASSUME IInv, NEW o \in Object, NEW n \in Bodies,
         BufAlloc(o, n) \/ \E src \in Object : NewHead(o, src, n)
  PROVE  IInv'
<1>1. UNCHANGED <<queue, out>>
  BY DEF BufAlloc, NewHead, Idle
<1>2. CASE BufAlloc(o, n)
  <2>1. [Free EXCEPT !.size = HeadLen + n] = [size |-> HeadLen + n, field |-> 0, body |-> 0]
    BY DEF Free
  <2>. QED
    BY <1>1, <1>2, <2>1, Lengths, AllocStep DEF BufAlloc
<1>3. ASSUME NEW src \in Object, NewHead(o, src, n) PROVE IInv'
  <2>. DEFINE f == IF msg[src].data = Null THEN 0 ELSE heap[msg[src].data].field
  <2>1. f \in Nat
    BY DEF IInv, Typed, HeapType, IMString
  <2>2. /\ heap' = [heap EXCEPT ![NewAddr] = [size |-> HeadLen + n, field |-> f, body |-> 0]]
        /\ msg' = [msg EXCEPT ![o] = [data |-> NewAddr, len |-> 0, alloc |-> HeadLen + n]]
        /\ FreeAddr # {}
    BY <1>3 DEF NewHead
  <2>. HIDE DEF f
  <2>. QED
    BY <1>1, <2>1, <2>2, Lengths, AllocStep
<1>. QED
  BY <1>2, <1>3

LEMMA ReceiveStep ==
  ASSUME IInv, NEW w \in Worker, NEW n \in Bodies, Receive(w, n)
  PROVE  IInv'
<1>1. <<w, "req">> \in Object
  BY DEF Object
<1>. QED
  BY <1>1, Lengths, AllocStep DEF Receive

-----------------------------------------------------------------------------
(* The moves: pointers change places, buffers are freed with their owner.  *)

LEMMA SendStep ==
  ASSUME IInv, NEW o \in Object, Send(o)
  PROVE  IInv'
<1>1. /\ queue' = Append(queue, msg[o]) /\ msg' = [msg EXCEPT ![o] = Moved(@)]
      /\ UNCHANGED <<heap, out>>
  BY DEF Send
<1>2. msg[o] \in IMString /\ queue \in Seq(IMString) /\ Len(queue) \in Nat
  BY Queued DEF IInv, Typed
<1>3. Moved(msg[o]) \in IMString /\ Moved(msg[o]).data = Null
  BY <1>2 DEF Moved, IMString
<1>4. \A p \in Object : msg'[p] = IF p = o THEN Moved(msg[o]) ELSE msg[p]
  BY <1>1 DEF IInv, Typed
<1>5. /\ DOMAIN queue' = 1..(Len(queue) + 1) /\ DOMAIN queue = 1..Len(queue)
      /\ \A i \in DOMAIN queue : queue'[i] = queue[i] /\ i # Len(queue) + 1
      /\ queue'[Len(queue) + 1] = msg[o]
      /\ \A i \in DOMAIN queue' : i \in DOMAIN queue \/ i = Len(queue) + 1
      /\ queue' \in Seq(IMString)
  BY <1>1, <1>2
<1>6. Typed'
  BY <1>1, <1>3, <1>5 DEF IInv, Typed
<1>7. Unique'
  <2>1. \A p, q \in Object : msg'[p].data # Null /\ msg'[p].data = msg'[q].data => p = q
    BY <1>3, <1>4 DEF IInv, Unique
  <2>2. \A i, j \in DOMAIN queue' :
          queue'[i].data # Null /\ queue'[i].data = queue'[j].data => i = j
    BY <1>5 DEF IInv, Unique
  <2>3. \A p \in Object : msg'[p].data # Null =>
          msg'[p].data # out'.data /\ \A i \in DOMAIN queue' : msg'[p].data # queue'[i].data
    BY <1>1, <1>3, <1>4, <1>5 DEF IInv, Unique
  <2>4. \A i \in DOMAIN queue' : queue'[i].data # Null => queue'[i].data # out'.data
    BY <1>1, <1>5 DEF IInv, Unique
  <2>. QED
    BY <2>1, <2>2, <2>3, <2>4 DEF Unique
<1>8. AllBacked'
  BY <1>1, <1>3, <1>4, <1>5 DEF IInv, AllBacked, Backs
<1>. QED
  BY <1>6, <1>7, <1>8 DEF IInv

LEMMA ReleasedFacts ==
  ASSUME NEW h \in HeapType, NEW ms
  PROVE  /\ Released(h, ms) \in HeapType
         /\ \A a \in Addr : (\A m \in ms : m.data # a) => Released(h, ms)[a] = h[a]
<1>1. Free \in [size : Nat, field : Nat, body : Nat]
  BY DEF Free
<1>. QED
  BY <1>1 DEF Released, HeapType

LEMMA ReturnStep ==
  ASSUME IInv, NEW w \in Worker, Return(w)
  PROVE  IInv'
<1>. DEFINE ms == {msg[<<w, "req">>], msg[<<w, "rsp">>]}
<1>1. /\ heap' = Released(heap, ms) /\ UNCHANGED <<queue, out>>
      /\ msg' = [o \in Object |-> IF o[1] = w THEN NoData ELSE msg[o]]
  BY DEF Return
<1>2. /\ heap' \in HeapType
      /\ \A a \in Addr : (\A m \in ms : m.data # a) => heap'[a] = heap[a]
  BY <1>1, ReleasedFacts DEF IInv, Typed
<1>3. NoData \in IMString /\ NoData.data = Null
  BY DEF NoData, IMString
<1>4. \A o \in Object : msg'[o] = IF o[1] = w THEN NoData ELSE msg[o]
  BY <1>1
<1>5. Typed'
  BY <1>1, <1>2, <1>3 DEF IInv, Typed
<1>6. Unique'
  BY <1>1, <1>3, <1>4 DEF IInv, Unique
<1>7. /\ <<w, "req">> \in Object /\ <<w, "rsp">> \in Object
      /\ \A o \in Object : o[1] # w => o # <<w, "req">> /\ o # <<w, "rsp">>
  BY DEF Object
<1>8. /\ \A o \in Object : o[1] # w /\ msg[o].data # Null => \A m \in ms : m.data # msg[o].data
      /\ \A i \in DOMAIN queue : queue[i].data # Null => \A m \in ms : m.data # queue[i].data
      /\ out.data # Null => \A m \in ms : m.data # out.data
  BY <1>7 DEF IInv, Unique
<1>9. AllBacked'
  <2>1. /\ \A o \in Object : msg[o].data \in Addr \cup {Null}
        /\ out.data \in Addr \cup {Null}
    BY DEF IInv, Typed, IMString
  <2>2. \A i \in DOMAIN queue : queue[i].data \in Addr \cup {Null}
    BY Queued DEF IInv, IMString
  <2>. HIDE DEF ms
  <2>3. \A o \in Object : Backs(heap', msg'[o])
    BY <1>2, <1>3, <1>4, <1>8, <2>1 DEF IInv, AllBacked, Backs
  <2>4. \A i \in DOMAIN queue : Backs(heap', queue[i])
    BY <1>2, <1>8, <2>2 DEF IInv, AllBacked, Backs
  <2>5. Backs(heap', out)
    BY <1>2, <1>8, <2>1 DEF IInv, AllBacked, Backs
  <2>. QED
    BY <1>1, <2>3, <2>4, <2>5 DEF AllBacked
<1>. QED
  BY <1>5, <1>6, <1>9 DEF IInv

(* What destroying out_pkt leaves: everything else keeps its buffer.       *)
LEMMA OutReleased ==
  ASSUME IInv, heap' = Released(heap, {out})
  PROVE  /\ heap' \in HeapType
         /\ \A o \in Object : Backs(heap', msg[o])
         /\ \A i \in DOMAIN queue : Backs(heap', queue[i])
<1>1. /\ heap' \in HeapType
      /\ \A a \in Addr : out.data # a => heap'[a] = heap[a]
  BY ReleasedFacts DEF IInv, Typed
<1>2. \A o \in Object : msg[o].data \in Addr \cup {Null}
  BY DEF IInv, Typed, IMString
<1>3. \A i \in DOMAIN queue : queue[i].data \in Addr \cup {Null}
  BY Queued DEF IInv, IMString
<1>4. \A o \in Object : Backs(heap', msg[o])
  BY <1>1, <1>2 DEF IInv, AllBacked, Backs, Unique
<1>5. \A i \in DOMAIN queue : Backs(heap', queue[i])
  BY <1>1, <1>3 DEF IInv, AllBacked, Backs, Unique
<1>. QED
  BY <1>1, <1>4, <1>5

LEMMA NextPktStep ==
  ASSUME IInv, NextPkt
  PROVE  IInv'
<1>1. /\ queue # <<>> /\ heap' = Released(heap, {out}) /\ msg' = msg
      /\ out' = queue[1] /\ queue' = Tail(queue)
  BY DEF NextPkt, Assigned, Popped
<1>2. /\ queue \in Seq(IMString) /\ Len(queue) \in Nat /\ DOMAIN queue = 1..Len(queue)
      /\ 1 \in DOMAIN queue
  BY <1>1, Queued DEF IInv, Typed
<1>3. /\ queue' \in Seq(IMString)
      /\ \A i \in DOMAIN queue' : /\ i + 1 \in DOMAIN queue /\ i + 1 # 1 /\ i \in Nat
                                 /\ queue'[i] = queue[i + 1]
  BY <1>1, <1>2
<1>4. /\ heap' \in HeapType /\ \A o \in Object : Backs(heap', msg[o])
      /\ \A i \in DOMAIN queue : Backs(heap', queue[i])
  BY <1>1, OutReleased
<1>5. Typed'
  BY <1>1, <1>2, <1>3, <1>4, Queued DEF IInv, Typed
<1>6. Unique'
  <2>1. \A i, j \in DOMAIN queue' :
          queue'[i].data # Null /\ queue'[i].data = queue'[j].data => i = j
    BY <1>3 DEF IInv, Unique
  <2>2. \A o \in Object : msg[o].data # Null =>
          msg[o].data # out'.data /\ \A i \in DOMAIN queue' : msg[o].data # queue'[i].data
    BY <1>1, <1>2, <1>3 DEF IInv, Unique
  <2>3. \A i \in DOMAIN queue' : queue'[i].data # Null => queue'[i].data # out'.data
    BY <1>1, <1>2, <1>3 DEF IInv, Unique
  <2>. QED
    BY <1>1, <2>1, <2>2, <2>3 DEF IInv, Unique
<1>7. AllBacked'
  BY <1>1, <1>2, <1>3, <1>4 DEF AllBacked
<1>. QED
  BY <1>5, <1>6, <1>7 DEF IInv

LEMMA RedialStep ==
  ASSUME IInv, Redial
  PROVE  IInv'
<1>1. /\ heap' = Released(heap, {out}) /\ out' = NoData /\ UNCHANGED <<msg, queue>>
  BY DEF Redial
<1>2. NoData \in IMString /\ NoData.data = Null
  BY DEF NoData, IMString
<1>3. /\ heap' \in HeapType /\ \A o \in Object : Backs(heap', msg[o])
      /\ \A i \in DOMAIN queue : Backs(heap', queue[i])
  BY <1>1, OutReleased
<1>. QED
  BY <1>1, <1>2, <1>3 DEF IInv, Typed, Unique, AllBacked, Backs

LEMMA NextIInv == IInv /\ [Next]_vars => IInv'
<1>. SUFFICES ASSUME IInv, [Next]_vars PROVE IInv'
  OBVIOUS
<1>1. ASSUME UNCHANGED <<heap, msg, queue, out>> PROVE IInv'
  BY <1>1 DEF IInv, Typed, Unique, AllBacked
<1>2. CASE Write
  BY <1>1, <1>2 DEF Write
<1>3. CASE UNCHANGED vars
  BY <1>1, <1>3 DEF vars
<1>. QED
  BY <1>2, <1>3, ReceiveStep, ReturnStep, SendStep, AllocSteps, SetDataStep, SetPbStep,
     DeepCopyStep, NextPktStep, RedialStep DEF Next

(* Whatever the handlers do with the functions of PbBuf.h, pointers stay   *)
(* unique and sizes are known (IMString.cpp).                              *)
THEOREM Invariance == Spec => []IInv
BY InitIInv, NextIInv, PTL DEF Spec

-----------------------------------------------------------------------------
(* At most one of the things that may point to a buffer does.              *)
LEMMA AtMostOne ==
  ASSUME NEW S, \A x, y \in S : x = y
  PROVE  Cardinality(S) \in {0, 1} /\ (Cardinality(S) = 0 <=> S = {})
<1>1. CASE S = {}
  BY <1>1, FS_EmptySet
<1>2. CASE S # {}
  <2>1. PICK x : S = {x}
    BY <1>2
  <2>. QED
    BY <2>1, FS_Singleton
<1>. QED
  BY <1>1, <1>2

LEMMA OneOwnerIs == IInv => OneOwner
<1>. SUFFICES ASSUME IInv, NEW a \in Addr
              PROVE  /\ Owners(a) <= 1
                     /\ Owners(a) > 0 => heap[a] # Free
                     /\ \A m \in Elements(queue) \cup {out} \cup {msg[o] : o \in Object} :
                          m.data = a => m.alloc = heap[a].size
  BY DEF OneOwner
<1>. DEFINE A == {o \in Object : msg[o].data = a}
            B == {i \in DOMAIN queue : queue[i].data = a}
<1>0. a # Null
  BY AddrNotNull
<1>1. (\A x, y \in A : x = y) /\ (\A x, y \in B : x = y)
  BY <1>0 DEF IInv, Unique
<1>2. /\ Cardinality(A) \in {0, 1} /\ (Cardinality(A) = 0 <=> A = {})
      /\ Cardinality(B) \in {0, 1} /\ (Cardinality(B) = 0 <=> B = {})
  BY <1>1, AtMostOne
<1>3. /\ A = {} \/ B = {}
      /\ out.data = a => A = {} /\ B = {}
  BY <1>0 DEF IInv, Unique
<1>4. Owners(a) = Cardinality(A) + Cardinality(B) + IF out.data = a THEN 1 ELSE 0
  BY DEF Owners
<1>5. (A # {} \/ B # {} \/ out.data = a) => heap[a].size > 0
  BY <1>0 DEF IInv, AllBacked, Backs
<1>. HIDE DEF A, B
<1>6. Owners(a) <= 1
  BY <1>2, <1>3, <1>4
<1>7. Owners(a) > 0 => heap[a] # Free
  BY <1>2, <1>4, <1>5, FreeIsEmpty
<1>8. \A m \in Elements(queue) \cup {out} \cup {msg[o] : o \in Object} :
        m.data = a => m.alloc = heap[a].size
  BY <1>0 DEF IInv, AllBacked, Backs, Elements
<1>. QED
  BY <1>6, <1>7, <1>8

(* A buffer has one owner: nothing is freed twice, and no owner points to  *)
(* freed memory or thinks its buffer longer than it is (IMString.cpp:19).  *)
THEOREM BuffersHaveOneOwner == Spec => []OneOwner
BY Invariance, OneOwnerIs, PTL

LEMMA NextCounted == Counted /\ [Next]_vars => Counted'
<1>. SUFFICES ASSUME Counted, [Next]_vars PROVE Counted'
  OBVIOUS
<1>. USE MessageAssumption DEF MessageAssumption
<1>1. ASSUME NEW o \in Object, Running(o), Count(o), UNCHANGED requests
      PROVE  ops' \in [Worker -> 0..MaxOp + 1] /\ requests' \in 0..MaxRequest
  <2>1. o[1] \in Worker
    BY DEF Object
  <2>2. ops[o[1]] - 1 \in 0..MaxOp + 1
    BY <1>1, <2>1 DEF Running, Counted
  <2>. QED
    BY <1>1, <2>1, <2>2 DEF Count, Counted
<1>2. ASSUME NEW w \in Worker, Return(w) \/ \E n \in Bodies : Receive(w, n)
      PROVE  Counted'
  <2>1. UNCHANGED <<finish, up, overrun, crashed>>
    BY <1>2 DEF Return, Receive
  <2>2. ops' \in [Worker -> 0..MaxOp + 1] /\ requests' \in 0..MaxRequest
    <3>1. 0 \in 0..MaxOp + 1 /\ MaxOp + 1 \in 0..MaxOp + 1
      OBVIOUS
    <3>2. CASE Return(w)
      BY <3>1, <3>2 DEF Return, Counted
    <3>3. ASSUME NEW n \in Bodies, Receive(w, n)
          PROVE  ops' \in [Worker -> 0..MaxOp + 1] /\ requests' \in 0..MaxRequest
      <4>1. /\ ops' = [ops EXCEPT ![w] = MaxOp + 1]
            /\ requests < MaxRequest /\ requests' = requests + 1
        BY <3>3 DEF Receive
      <4>. QED
        BY <3>1, <4>1 DEF Counted
    <3>. QED
      BY <1>2, <3>2, <3>3
  <2>. QED
    BY <2>1, <2>2 DEF Counted
<1>3. ASSUME NEW o \in Object, Send(o) PROVE Counted'
  BY <1>1, <1>3 DEF Send, Counted
<1>4. ASSUME NEW o \in Object, NEW n \in Bodies, BufAlloc(o, n) PROVE Counted'
  BY <1>1, <1>4 DEF BufAlloc, Idle, Counted
<1>5. ASSUME NEW o \in Object, NEW n \in Bodies, SetData(o, n) \/ SetPb(o, n)
      PROVE  Counted'
  <2>1. /\ UNCHANGED <<finish, up, requests, crashed>> /\ Running(o) /\ Count(o)
        /\ overrun' = overrun \/ \E b \in BOOLEAN : overrun' = (overrun \/ b)
    BY <1>5 DEF SetData, SetPb, Idle
  <2>. QED
    BY <1>1, <2>1 DEF Counted
<1>6. ASSUME NEW o \in Object, NEW p \in Object,
             DeepCopy(o, p) \/ \E n \in Bodies : NewHead(o, p, n)
      PROVE  Counted'
  <2>1. /\ UNCHANGED <<finish, up, requests, overrun>> /\ Running(o) /\ Count(o)
        /\ crashed' \in BOOLEAN
    BY <1>6 DEF DeepCopy, NewHead, Idle
  <2>. QED
    BY <1>1, <2>1 DEF Counted
<1>7. CASE NextPkt \/ Write \/ Redial
  BY <1>7 DEF NextPkt, Write, Redial, Counted
<1>8. CASE UNCHANGED vars
  BY <1>8 DEF vars, Counted
<1>. QED
  BY <1>2, <1>3, <1>4, <1>5, <1>6, <1>7, <1>8 DEF Next

(* Types of the state.                                                     *)
THEOREM TypeCorrect == Spec => []TypeOK
<1>1. Init => Counted
  <2>1. 0 \in 0..MaxOp + 1 /\ 0 \in 0..MaxRequest
    BY MessageAssumption DEF MessageAssumption
  <2>. QED
    BY <2>1 DEF Init, Counted
<1>2. Typed /\ Counted => TypeOK
  BY DEF Typed, Counted, TypeOK, HeapType
<1>3. IInv => Typed
  BY DEF IInv
<1>. QED
  BY <1>1, <1>2, <1>3, NextCounted, Invariance, PTL DEF Spec

-----------------------------------------------------------------------------
(* Handlers that keep the rules                                            *)

Holds(a) ==
  \/ \E o \in Object : msg[o].data = a
  \/ \E i \in DOMAIN queue : queue[i].data = a
  \/ out.data = a

Leakless == \A a \in Addr : heap[a] # Free => Holds(a)

(* A message that has a length has the length that its header says.        *)
Good(h, m) ==
  m.data # Null /\ m.len > 0 =>
    m.len = HeadLen + h[m.data].field /\ h[m.data].body = h[m.data].field

AllGood ==
  /\ \A o \in Object : Good(heap, msg[o])
  /\ \A i \in DOMAIN queue : Good(heap, queue[i])
  /\ Good(heap, out)

(* What is queued can be sent.                                             *)
Sendable ==
  /\ \A i \in DOMAIN queue : queue[i].data # Null /\ queue[i].len > 0
  /\ out.data # Null => out.len > 0
  /\ ~finish => out.data # Null
  /\ up

CInv == Leakless /\ AllGood /\ Sendable /\ NoOverrun

LEMMA InitCInv == Init => CInv
<1>. SUFFICES ASSUME Init PROVE CInv
  OBVIOUS
<1>1. NoData.data = Null /\ Free.size = 0
  BY DEF NoData, Free
<1>. QED
  BY <1>1 DEF Init, CInv, Leakless, AllGood, Good, Sendable, NoOverrun

(* A handler changes one of its messages, and no buffer but that one's.    *)
LEMMA CarefulStep ==
  ASSUME IInv, CInv, NEW o \in Object, NEW r \in IMString,
         msg' = [msg EXCEPT ![o] = r], queue' = queue, out' = out,
         finish' = finish, up' = up,
         msg[o].data \in {Null, r.data},
         \/ r.data \in {Null, msg[o].data}
         \/ r.data \in Addr /\ heap[r.data].size = 0,
         \A a \in Addr : a # r.data => heap'[a] = heap[a],
         Good(heap', r), ~overrun', ~crashed'
  PROVE  CInv'
<1>1. \A p \in Object : msg'[p] = IF p = o THEN r ELSE msg[p]
  BY DEF IInv, Typed
<1>2. Leakless'
  <2>. SUFFICES ASSUME NEW a \in Addr, heap'[a] # Free PROVE Holds(a)'
    BY DEF Leakless
  <2>1. CASE a = r.data
    BY <1>1, <2>1 DEF Holds
  <2>2. CASE a # r.data
    <3>1. Holds(a) /\ a # msg[o].data
      BY <2>2, AddrNotNull DEF CInv, Leakless
    <3>. QED
      BY <1>1, <3>1 DEF Holds
  <2>. QED
    BY <2>1, <2>2
<1>3. /\ \A p \in Object : p # o /\ msg[p].data # Null => msg[p].data # r.data
      /\ \A i \in DOMAIN queue : queue[i].data # Null => queue[i].data # r.data
      /\ out.data # Null => out.data # r.data
  BY DEF IInv, Unique, AllBacked, Backs
<1>4. /\ \A p \in Object : msg[p].data \in Addr \cup {Null}
      /\ \A i \in DOMAIN queue : queue[i].data \in Addr \cup {Null}
      /\ out.data \in Addr \cup {Null}
  BY Queued DEF IInv, Typed, IMString
<1>5. AllGood'
  <2>1. \A p \in Object : Good(heap', msg'[p])
    BY <1>1, <1>3, <1>4 DEF CInv, AllGood, Good
  <2>2. \A i \in DOMAIN queue : Good(heap', queue[i])
    BY <1>3, <1>4 DEF CInv, AllGood, Good
  <2>3. Good(heap', out)
    BY <1>3, <1>4 DEF CInv, AllGood, Good
  <2>. QED
    BY <2>1, <2>2, <2>3 DEF AllGood
<1>6. Sendable' /\ NoOverrun'
  BY DEF CInv, Sendable, NoOverrun
<1>. QED
  BY <1>2, <1>5, <1>6 DEF CInv

LEMMA CarefulAlloc ==
  ASSUME IInv, CInv, NEW o \in Object, NEW len \in Nat, NEW size \in Nat,
         NEW field \in Nat, NEW body \in Nat, FreeAddr # {}, msg[o].data = Null,
         len = 0 \/ (len = HeadLen + field /\ body = field),
         msg' = [msg EXCEPT ![o] = [data |-> NewAddr, len |-> len, alloc |-> size]],
         heap' = [heap EXCEPT ![NewAddr] = [size |-> size, field |-> field, body |-> body]],
         UNCHANGED <<queue, out, finish, up>>, ~overrun', ~crashed'
  PROVE  CInv'
<1>. DEFINE r == [data |-> NewAddr, len |-> len, alloc |-> size]
            b == [size |-> size, field |-> field, body |-> body]
<1>1. NewAddr \in Addr /\ heap[NewAddr].size = 0 /\ heap \in HeapType
  BY NewIsFree, FreeIsEmpty DEF IInv, Typed
<1>2. r \in IMString /\ r.data = NewAddr /\ r.len = len
  BY <1>1 DEF IMString
<1>3. b.field = field /\ b.body = body
  OBVIOUS
<1>4. msg' = [msg EXCEPT ![o] = r] /\ heap' = [heap EXCEPT ![NewAddr] = b]
  OBVIOUS
<1>. HIDE DEF r, b
<1>5. heap'[NewAddr] = b /\ \A a \in Addr : a # NewAddr => heap'[a] = heap[a]
  BY <1>1, <1>4 DEF HeapType
<1>6. Good(heap', r)
  BY <1>2, <1>3, <1>5 DEF Good
<1>7. /\ r.data \in Addr /\ heap[r.data].size = 0 /\ msg[o].data \in {Null, r.data}
      /\ \A a \in Addr : a # r.data => heap'[a] = heap[a]
  BY <1>1, <1>2, <1>5
<1>8. queue' = queue /\ out' = out /\ finish' = finish /\ up' = up
  OBVIOUS
<1>. QED
  BY <1>2, <1>4, <1>6, <1>7, <1>8, CarefulStep

LEMMA Unwrapped ==
  ASSUME NEW n \in Bodies, n + HeadLen < Wrap
  PROVE  Total(n) = HeadLen + n /\ n % Wrap = n
BY MessageAssumption DEF MessageAssumption, Total

LEMMA Regrown ==
  ASSUME NEW m \in IMString, m.data # Null, NEW n \in Nat
  PROVE  /\ Resized(m, n) \in IMString /\ Resized(m, n).data = m.data
         /\ Resized(m, n).alloc >= n
<1>1. CASE m.alloc >= n
  BY <1>1 DEF Resized
<1>2. CASE ~(m.alloc >= n)
  <2>. DEFINE x == m.data
  <2>1. x \in Addr
    BY DEF IMString
  <2>2. Resized(m, n) = [m EXCEPT !.data = x, !.alloc = n]
    BY <1>2 DEF Resized
  <2>. HIDE DEF x
  <2>3. /\ Resized(m, n) \in IMString /\ Resized(m, n).data = x
        /\ Resized(m, n).alloc = n
    BY <2>1, <2>2 DEF IMString
  <2>. QED
    BY <2>3 DEF x
<1>. QED
  BY <1>1, <1>2

(* Writing body and lengths into a buffer that has the room.               *)
LEMMA CarefulFill ==
  ASSUME IInv, CInv, NEW o \in Object, NEW n \in Bodies, n + HeadLen < Wrap,
         NEW a \in Addr, msg[o].data = a, NEW r \in IMString, r.data = a, r.len = Total(n),
         NEW h \in HeapType, \A b \in Addr : b # a => h[b] = heap[b],
         msg' = [msg EXCEPT ![o] = r], heap' = Filled(h, a, n),
         UNCHANGED <<queue, out, finish, up>>, ~overrun', ~crashed'
  PROVE  CInv'
<1>. DEFINE c == [h[a] EXCEPT !.field = n % Wrap, !.body = n]
<1>1. c.field = n % Wrap /\ c.body = n
  BY DEF HeapType
<1>2. Filled(h, a, n) = [h EXCEPT ![a] = c]
  BY DEF Filled
<1>. HIDE DEF c
<1>3. heap'[a] = c /\ \A b \in Addr : b # a => heap'[b] = heap[b]
  BY <1>2 DEF HeapType
<1>4. Good(heap', r)
  BY <1>1, <1>3, Unwrapped DEF Good
<1>5. queue' = queue /\ out' = out /\ finish' = finish /\ up' = up
  OBVIOUS
<1>. QED
  BY <1>3, <1>4, <1>5, CarefulStep

LEMMA CarefulHandlers ==
  ASSUME Careful, IInv, CInv, NEW o \in Object, NEW n \in Bodies,
         SetData(o, n) \/ SetPb(o, n) \/ BufAlloc(o, n)
  PROVE  CInv'
<1>0. /\ UNCHANGED <<queue, out, finish, up>> /\ msg[o] \in IMString /\ heap \in HeapType
      /\ ~overrun /\ ~crashed
  BY DEF SetData, SetPb, BufAlloc, Idle, IInv, Typed, CInv, NoOverrun
<1>1. CASE SetData(o, n)
  <2>. DEFINE m == Resized(msg[o], Total(n))
              h == HeapResized(msg[o], Total(n))
              a == msg[o].data
              r == [m EXCEPT !.len = Total(n)]
  <2>1. a \in Addr /\ a # Null /\ n + HeadLen < Wrap
    BY <1>0, <1>1 DEF SetData, IMString
  <2>2. Total(n) = HeadLen + n /\ Total(n) \in Nat
    BY <2>1, Unwrapped, Lengths
  <2>3. m \in IMString /\ m.data = a /\ m.alloc >= Total(n)
    BY <1>0, <2>1, <2>2, Regrown
  <2>4. h \in HeapType /\ \A b \in Addr : b # a => h[b] = heap[b]
    <3>1. CASE msg[o].alloc >= Total(n)
      BY <1>0, <3>1 DEF HeapResized
    <3>2. CASE ~(msg[o].alloc >= Total(n))
      <4>1. h = [heap EXCEPT ![a] = [heap[a] EXCEPT !.size = Total(n)]]
        BY <1>0, <2>3, <3>2 DEF HeapResized
      <4>. HIDE DEF h
      <4>. QED
        BY <1>0, <2>1, <2>2, <4>1 DEF HeapType
    <3>. QED
      BY <3>1, <3>2
  <2>5. /\ msg' = [msg EXCEPT ![o] = r] /\ heap' = Filled(h, m.data, n)
        /\ overrun' = (overrun \/ m.alloc < HeadLen + n) /\ crashed' = crashed
    BY <1>1, <2>1, <2>3 DEF SetData, Capacity
  <2>. HIDE DEF m, h
  <2>6. r \in IMString /\ r.data = a /\ r.len = Total(n)
    BY <2>2, <2>3 DEF IMString
  <2>. HIDE DEF r
  <2>7. ~overrun' /\ ~crashed'
    <3>1. ~(m.alloc < HeadLen + n)
      BY <2>2, <2>3 DEF IMString
    <3>. QED
      BY <1>0, <2>5, <3>1, Zenon
  <2>8. heap' = Filled(h, a, n)
    BY <2>3, <2>5
  <2>. QED
    BY <1>0, <2>1, <2>4, <2>5, <2>6, <2>7, <2>8, CarefulFill
<1>2. CASE SetPb(o, n)
  <2>. DEFINE r == [msg[o] EXCEPT !.len = Total(n)]
  <2>1. msg[o].alloc >= HeadLen + n /\ n + HeadLen < Wrap /\ crashed' = crashed
    BY <1>2 DEF SetPb
  <2>2. CASE msg[o].data = Null
    <3>1. UNCHANGED <<heap, msg, overrun>>
      BY <1>2, <2>2 DEF SetPb
    <3>. QED
      BY <1>0, <2>1, <3>1 DEF CInv, Leakless, Holds, AllGood, Sendable, NoOverrun
  <2>3. CASE msg[o].data # Null
    <3>1. /\ msg' = [msg EXCEPT ![o] = r] /\ heap' = Filled(heap, msg[o].data, n)
          /\ overrun' = (overrun \/ msg[o].alloc < HeadLen + n)
      BY <1>2, <2>3 DEF SetPb
    <3>2. r \in IMString /\ r.data = msg[o].data /\ r.len = Total(n) /\ msg[o].data \in Addr
      BY <1>0, <2>3, Lengths DEF IMString
    <3>. HIDE DEF r
    <3>3. ~overrun' /\ ~crashed'
      <4>1. ~(msg[o].alloc < HeadLen + n)
        BY <1>0, <2>1, Lengths DEF IMString
      <4>. QED
        BY <1>0, <2>1, <3>1, <4>1, Zenon
    <3>. QED
      BY <1>0, <2>1, <3>1, <3>2, <3>3, CarefulFill
  <2>. QED
    BY <2>2, <2>3
<1>3. CASE BufAlloc(o, n)
  <2>1. [Free EXCEPT !.size = HeadLen + n] = [size |-> HeadLen + n, field |-> 0, body |-> 0]
    BY DEF Free
  <2>2. /\ FreeAddr # {} /\ msg[o].data = Null /\ ~overrun' /\ ~crashed'
        /\ msg' = [msg EXCEPT ![o] = [data |-> NewAddr, len |-> 0, alloc |-> HeadLen + n]]
        /\ heap' = [heap EXCEPT ![NewAddr] = [size |-> HeadLen + n, field |-> 0, body |-> 0]]
    BY <1>0, <1>3, <2>1 DEF BufAlloc
  <2>3. HeadLen + n \in Nat
    BY Lengths
  <2>. QED
    BY <1>0, <2>2, <2>3, CarefulAlloc
<1>. QED
  BY <1>1, <1>2, <1>3

LEMMA CarefulCopies ==
  ASSUME Careful, IInv, CInv, NEW o \in Object, NEW src \in Object,
         DeepCopy(o, src) \/ \E n \in Bodies : NewHead(o, src, n)
  PROVE  CInv'
<1>0. /\ UNCHANGED <<queue, out, finish, up>> /\ msg[src] \in IMString /\ heap \in HeapType
      /\ ~overrun /\ ~crashed /\ Backs(heap, msg[src])
      /\ msg[src].data # Null => msg[src].alloc > 0 /\ msg[src].alloc \in Nat
      /\ Good(heap, msg[src])
  BY DEF DeepCopy, NewHead, Idle, IInv, Typed, CInv, NoOverrun, AllBacked, AllGood, Backs, IMString
<1>1. ASSUME NEW n \in Bodies, NewHead(o, src, n) PROVE CInv'
  <2>1. /\ FreeAddr # {} /\ msg[o].data = Null /\ msg[src].data # Null
        /\ crashed' = (msg[src].data = Null) /\ overrun' = overrun
        /\ msg' = [msg EXCEPT ![o] = [data |-> NewAddr, len |-> 0, alloc |-> HeadLen + n]]
        /\ heap' = [heap EXCEPT ![NewAddr] =
                      [size |-> HeadLen + n, field |-> heap[msg[src].data].field, body |-> 0]]
    BY <1>1 DEF NewHead
  <2>2. HeadLen + n \in Nat /\ heap[msg[src].data].field \in Nat
    BY <1>0, <2>1, Lengths DEF IMString, HeapType
  <2>3. ~overrun' /\ ~crashed'
    BY <1>0, <2>1
  <2>. QED
    BY <1>0, <2>1, <2>2, <2>3, CarefulAlloc
<1>2. CASE DeepCopy(o, src)
  <2>. DEFINE s == msg[src]
              d == Resized(msg[o], s.alloc)
              h == HeapResized(msg[o], s.alloc)
  <2>1. s.data # Null /\ msg[o] = NoData /\ o # src /\ FreeAddr # {}
    BY <1>2 DEF DeepCopy, NoData
  <2>2. /\ NoData.data = Null /\ NoData.alloc = 0 /\ NewAddr \in Addr /\ NewAddr # Null
        /\ ~(NoData.alloc >= s.alloc)
    BY <1>0, <2>1, NewIsFree, AddrNotNull DEF NoData
  <2>3. d = [data |-> NewAddr, len |-> 0, alloc |-> s.alloc]
    <3>1. d = [NoData EXCEPT !.data = NewAddr, !.alloc = s.alloc]
      BY <2>1, <2>2 DEF Resized
    <3>. QED
      BY <3>1 DEF NoData
  <2>4. d.data = NewAddr /\ s.data \in Addr /\ s.data # NewAddr /\ heap[NewAddr] = Free
    BY <1>0, <2>1, <2>3, NewIsFree, FreeIsEmpty DEF Backs, IMString
  <2>5. h = [heap EXCEPT ![NewAddr] = [size |-> s.alloc, field |-> 0, body |-> 0]]
    <3>1. h = [heap EXCEPT ![NewAddr] = [heap[NewAddr] EXCEPT !.size = s.alloc]]
      BY <2>1, <2>2, <2>4 DEF HeapResized
    <3>2. [heap[NewAddr] EXCEPT !.size = s.alloc] = [size |-> s.alloc, field |-> 0, body |-> 0]
      BY <2>4 DEF Free
    <3>. QED
      BY <3>1, <3>2
  <2>6. [d EXCEPT !.len = s.len] = [data |-> NewAddr, len |-> s.len, alloc |-> s.alloc]
    BY <2>3
  <2>7. /\ msg' = [msg EXCEPT ![o] = [d EXCEPT !.len = s.len]]
        /\ heap' = [h EXCEPT ![NewAddr].field = heap[s.data].field,
                             ![NewAddr].body = heap[s.data].body]
        /\ crashed' = (s.len > 0 /\ Null \in {s.data, d.data}) /\ overrun' = overrun
    BY <1>2, <2>1, <2>2, <2>4 DEF DeepCopy
  <2>8. heap' = [heap EXCEPT ![NewAddr] =
                  [size |-> s.alloc, field |-> heap[s.data].field, body |-> heap[s.data].body]]
    <3>. DEFINE b == [[h[NewAddr] EXCEPT !.field = heap[s.data].field]
                        EXCEPT !.body = heap[s.data].body]
    <3>1. h[NewAddr] = [size |-> s.alloc, field |-> 0, body |-> 0] /\ DOMAIN h = Addr
      BY <1>0, <2>2, <2>5 DEF HeapType
    <3>2. b = [size |-> s.alloc, field |-> heap[s.data].field, body |-> heap[s.data].body]
      <4>1. /\ s.alloc \in Nat /\ heap[s.data].field \in Nat /\ heap[s.data].body \in Nat
        BY <1>0, <2>4 DEF IMString, HeapType
      <4>2. h[NewAddr] \in [size : Nat, field : Nat, body : Nat] /\ h[NewAddr].size = s.alloc
        BY <3>1, <4>1
      <4>. HIDE DEF h
      <4>3. /\ b \in [size : Nat, field : Nat, body : Nat] /\ b.size = s.alloc
            /\ b.field = heap[s.data].field /\ b.body = heap[s.data].body
        BY <4>1, <4>2
      <4>. HIDE DEF b
      <4>. QED
        BY <4>3
    <3>3. heap' = [h EXCEPT ![NewAddr] = b]
      BY <2>2, <2>7, <3>1
    <3>. HIDE DEF b, h
    <3>4. [h EXCEPT ![NewAddr] = b] = [heap EXCEPT ![NewAddr] = b]
      BY <1>0, <2>2, <2>5 DEF HeapType
    <3>. QED
      BY <3>2, <3>3, <3>4
  <2>9. ~overrun' /\ ~crashed'
    BY <1>0, <2>1, <2>2, <2>4, <2>7
  <2>10. /\ s.len \in Nat /\ s.alloc \in Nat
         /\ heap[s.data].field \in Nat /\ heap[s.data].body \in Nat
         /\ s.len = 0 \/ (s.len = HeadLen + heap[s.data].field
                            /\ heap[s.data].body = heap[s.data].field)
    BY <1>0, <2>1, <2>4 DEF IMString, HeapType, Good
  <2>11. /\ msg[o].data = Null
         /\ msg' = [msg EXCEPT ![o] = [data |-> NewAddr, len |-> s.len, alloc |-> s.alloc]]
    BY <2>1, <2>2, <2>6, <2>7
  <2>. HIDE DEF s, d, h
  <2>. QED
    BY <1>0, <2>1, <2>8, <2>9, <2>10, <2>11, CarefulAlloc
<1>. QED
  BY <1>1, <1>2

LEMMA CarefulSend ==
  ASSUME Careful, IInv, CInv, NEW o \in Object, Send(o)
  PROVE  CInv'
<1>1. /\ queue' = Append(queue, msg[o]) /\ msg' = [msg EXCEPT ![o] = Moved(@)]
      /\ UNCHANGED <<heap, out, finish, up, overrun, crashed>>
      /\ msg[o].data # Null /\ msg[o].len > 0
  BY DEF Send
<1>2. msg[o] \in IMString /\ queue \in Seq(IMString) /\ Len(queue) \in Nat
  BY Queued DEF IInv, Typed
<1>3. Moved(msg[o]).data = Null
  BY <1>2 DEF Moved, IMString
<1>4. \A p \in Object : msg'[p] = IF p = o THEN Moved(msg[o]) ELSE msg[p]
  BY <1>1 DEF IInv, Typed
<1>5. /\ \A i \in DOMAIN queue : queue'[i] = queue[i] /\ i \in DOMAIN queue'
      /\ queue'[Len(queue) + 1] = msg[o] /\ Len(queue) + 1 \in DOMAIN queue'
      /\ \A i \in DOMAIN queue' : i \in DOMAIN queue \/ i = Len(queue) + 1
  BY <1>1, <1>2
<1>6. Leakless'
  <2>. SUFFICES ASSUME NEW a \in Addr, heap[a] # Free PROVE Holds(a)'
    BY <1>1 DEF Leakless
  <2>1. Holds(a)
    BY DEF CInv, Leakless
  <2>2. CASE msg[o].data = a
    BY <1>5, <2>2 DEF Holds
  <2>3. CASE msg[o].data # a
    BY <1>1, <1>4, <1>5, <2>1, <2>3 DEF Holds
  <2>. QED
    BY <2>2, <2>3
<1>7. AllGood' /\ Sendable' /\ NoOverrun'
  BY <1>1, <1>3, <1>4, <1>5 DEF CInv, AllGood, Good, Sendable, NoOverrun
<1>. QED
  BY <1>6, <1>7 DEF CInv

LEMMA CarefulReturn ==
  ASSUME IInv, CInv, NEW w \in Worker, Return(w)
  PROVE  CInv'
<1>. DEFINE ms == {msg[<<w, "req">>], msg[<<w, "rsp">>]}
<1>1. /\ heap' = Released(heap, ms) /\ UNCHANGED <<queue, out, finish, up, overrun, crashed>>
      /\ msg' = [o \in Object |-> IF o[1] = w THEN NoData ELSE msg[o]]
  BY DEF Return
<1>2. /\ \A a \in Addr : heap'[a] # Free => \A m \in ms : m.data # a
      /\ \A a \in Addr : (\A m \in ms : m.data # a) => heap'[a] = heap[a]
  BY <1>1 DEF Released
<1>3. NoData.data = Null
  BY DEF NoData
<1>4. \A o \in Object : /\ msg'[o] = IF o[1] = w THEN NoData ELSE msg[o]
                        /\ o[1] = w => msg[o] \in ms
                        /\ o[1] # w => o # <<w, "req">> /\ o # <<w, "rsp">>
  BY <1>1 DEF Object
<1>5. Leakless'
  <2>. SUFFICES ASSUME NEW a \in Addr, heap'[a] # Free PROVE Holds(a)'
    BY DEF Leakless
  <2>1. Holds(a) /\ \A m \in ms : m.data # a
    BY <1>2 DEF CInv, Leakless
  <2>. HIDE DEF ms
  <2>. QED
    BY <1>1, <1>4, <2>1 DEF Holds
<1>6. <<w, "req">> \in Object /\ <<w, "rsp">> \in Object
  BY DEF Object
<1>7. /\ \A o \in Object : o[1] # w /\ msg[o].data # Null => \A m \in ms : m.data # msg[o].data
      /\ \A i \in DOMAIN queue : queue[i].data # Null => \A m \in ms : m.data # queue[i].data
      /\ out.data # Null => \A m \in ms : m.data # out.data
  BY <1>4, <1>6 DEF IInv, Unique
<1>8. /\ \A p \in Object : msg[p].data \in Addr \cup {Null}
      /\ \A i \in DOMAIN queue : queue[i].data \in Addr \cup {Null}
      /\ out.data \in Addr \cup {Null}
  BY Queued DEF IInv, Typed, IMString
<1>. HIDE DEF ms
<1>9. AllGood'
  <2>1. \A o \in Object : Good(heap', msg'[o])
    BY <1>2, <1>3, <1>4, <1>7, <1>8 DEF CInv, AllGood, Good
  <2>2. \A i \in DOMAIN queue : Good(heap', queue[i])
    BY <1>2, <1>7, <1>8 DEF CInv, AllGood, Good
  <2>3. Good(heap', out)
    BY <1>2, <1>7, <1>8 DEF CInv, AllGood, Good
  <2>. QED
    BY <1>1, <2>1, <2>2, <2>3 DEF AllGood
<1>10. Sendable' /\ NoOverrun'
  BY <1>1 DEF CInv, Sendable, NoOverrun
<1>. QED
  BY <1>5, <1>9, <1>10 DEF CInv

LEMMA CarefulConnection ==
  ASSUME IInv, CInv, NextPkt \/ Write \/ Redial
  PROVE  CInv'
<1>0. /\ queue \in Seq(IMString) /\ Len(queue) \in Nat /\ DOMAIN queue = 1..Len(queue)
      /\ \A p \in Object : msg[p].data \in Addr \cup {Null}
      /\ \A i \in DOMAIN queue : queue[i].data \in Addr \cup {Null}
  BY Queued DEF IInv, Typed, IMString
<1>1. CASE NextPkt
  <2>1. /\ queue # <<>> /\ heap' = Released(heap, {out}) /\ finish' = FALSE
        /\ UNCHANGED <<msg, up, overrun, crashed>>
        /\ out' = queue[1] /\ queue' = Tail(queue)
    BY <1>1 DEF NextPkt, Assigned, Popped
  <2>2. /\ 1 \in DOMAIN queue
        /\ \A i \in DOMAIN queue' : i + 1 \in DOMAIN queue /\ i + 1 # 1
                                   /\ queue'[i] = queue[i + 1]
        /\ \A i \in DOMAIN queue : i = 1 \/ (i - 1 \in DOMAIN queue' /\ queue'[i - 1] = queue[i])
    BY <1>0, <2>1
  <2>3. /\ \A a \in Addr : heap'[a] # Free => out.data # a
        /\ \A a \in Addr : out.data # a => heap'[a] = heap[a]
    BY <2>1 DEF Released
  <2>4. Leakless'
    <3>. SUFFICES ASSUME NEW a \in Addr, heap'[a] # Free PROVE Holds(a)'
      BY DEF Leakless
    <3>1. Holds(a) /\ out.data # a
      BY <2>3 DEF CInv, Leakless
    <3>. QED
      BY <2>1, <2>2, <3>1 DEF Holds
  <2>5. /\ \A o \in Object : Good(heap', msg[o])
        /\ \A i \in DOMAIN queue : Good(heap', queue[i])
    BY <1>0, <2>3 DEF CInv, AllGood, Good, IInv, Unique
  <2>6. AllGood'
    BY <2>1, <2>2, <2>5 DEF AllGood
  <2>7. Sendable' /\ NoOverrun'
    BY <2>1, <2>2 DEF CInv, Sendable, NoOverrun
  <2>. QED
    BY <2>4, <2>6, <2>7 DEF CInv
<1>2. CASE Write
  <2>1. /\ UNCHANGED <<heap, msg, queue, out, overrun, crashed>>
        /\ out.data # Null /\ out.len > 0 /\ finish' = up'
        /\ up' = (out.data # Null /\ out.len > 0)
    BY <1>2 DEF Write, CInv, Sendable
  <2>. QED
    BY <2>1 DEF CInv, Leakless, Holds, AllGood, Sendable, NoOverrun
<1>3. CASE Redial
  BY <1>3 DEF Redial, CInv, Sendable
<1>. QED
  BY <1>1, <1>2, <1>3

(* A handler that is not running has no messages.                          *)
Rests == \A o \in Object : ops[o[1]] = 0 => msg[o].data = Null

LEMMA RunningRests ==
  ASSUME Typed, Counted, Rests, NEW o \in Object, Running(o), Count(o), NEW r,
         msg' = msg \/ msg' = [msg EXCEPT ![o] = r]
  PROVE  Rests'
<1>1. o[1] \in Worker /\ \A p \in Object : p[1] \in Worker
  BY DEF Object
<1>2. /\ ops'[o[1]] # 0
      /\ \A p \in Object : p[1] # o[1] => ops'[p[1]] = ops[p[1]] /\ msg'[p] = msg[p]
  BY <1>1, MessageAssumption DEF Counted, Running, Count, Typed, MessageAssumption
<1>. QED
  BY <1>2 DEF Rests

LEMMA NextRests == Typed /\ Counted /\ Rests /\ [Next]_vars => Rests'
<1>. SUFFICES ASSUME Typed, Counted, Rests, [Next]_vars PROVE Rests'
  OBVIOUS
<1>1. ASSUME NEW w \in Worker, NEW n \in Bodies, Receive(w, n) PROVE Rests'
  <2>1. /\ ops' = [ops EXCEPT ![w] = MaxOp + 1] /\ MaxOp + 1 # 0
        /\ \E r : msg' = [msg EXCEPT ![<<w, "req">>] = r]
    <3>1. /\ ops' = [ops EXCEPT ![w] = MaxOp + 1]
          /\ \E r : msg' = [msg EXCEPT ![<<w, "req">>] = r]
      BY <1>1 DEF Receive
    <3>2. MaxOp + 1 # 0
      BY MessageAssumption DEF MessageAssumption
    <3>. QED
      BY <3>1, <3>2, Zenon
  <2>2. \A p \in Object : p[1] \in Worker /\ (p[1] # w => p # <<w, "req">>)
    BY DEF Object
  <2>. QED
    BY <2>1, <2>2 DEF Rests, Counted, Typed
<1>2. ASSUME NEW w \in Worker, Return(w) PROVE Rests'
  <2>1. NoData.data = Null /\ \A p \in Object : p[1] \in Worker
    BY DEF NoData, Object
  <2>2. /\ ops' = [ops EXCEPT ![w] = 0]
        /\ \A p \in Object : msg'[p] = IF p[1] = w THEN NoData ELSE msg[p]
    BY <1>2 DEF Return
  <2>. QED
    BY <2>1, <2>2 DEF Rests, Counted
<1>3. ASSUME NEW o \in Object, Send(o) PROVE Rests'
  BY <1>3, RunningRests DEF Send
<1>4. ASSUME NEW o \in Object, NEW n \in Bodies, BufAlloc(o, n) \/ SetData(o, n) \/ SetPb(o, n)
      PROVE  Rests'
  <2>1. Running(o) /\ Count(o) /\ (msg' = msg \/ \E r : msg' = [msg EXCEPT ![o] = r])
    <3>1. CASE BufAlloc(o, n)
      BY <3>1 DEF BufAlloc
    <3>2. CASE SetData(o, n)
      <4>1. CASE Resized(msg[o], Capacity(n)).data = Null
        BY <3>2, <4>1 DEF SetData
      <4>2. CASE Resized(msg[o], Capacity(n)).data # Null
        BY <3>2, <4>2 DEF SetData
      <4>. QED
        BY <4>1, <4>2
    <3>3. CASE SetPb(o, n)
      <4>1. Running(o) /\ Count(o)
        BY <3>3 DEF SetPb
      <4>2. CASE msg[o].data = Null
        BY <3>3, <4>1, <4>2 DEF SetPb
      <4>3. CASE msg[o].data # Null
        <5>1. msg' = [msg EXCEPT ![o] = [msg[o] EXCEPT !.len = Total(n)]]
          BY <3>3, <4>3 DEF SetPb
        <5>. QED
          BY <4>1, <5>1
      <4>. QED
        BY <4>2, <4>3
    <3>. QED
      BY <1>4, <3>1, <3>2, <3>3
  <2>. QED
    BY <2>1, RunningRests
<1>5. ASSUME NEW o \in Object, NEW p \in Object,
             DeepCopy(o, p) \/ \E n \in Bodies : NewHead(o, p, n)
      PROVE  Rests'
  <2>1. Running(o) /\ Count(o) /\ \E r : msg' = [msg EXCEPT ![o] = r]
    BY <1>5 DEF DeepCopy, NewHead
  <2>. QED
    BY <2>1, RunningRests
<1>6. ASSUME UNCHANGED <<ops, msg>> PROVE Rests'
  BY <1>6 DEF Rests
<1>. QED
  BY <1>1, <1>2, <1>3, <1>4, <1>5, <1>6 DEF Next, NextPkt, Write, Redial, vars

LEMMA NextCInv == Careful /\ Rests /\ IInv /\ CInv /\ [Next]_vars => CInv'
<1>. SUFFICES ASSUME Careful, Rests, IInv, CInv, [Next]_vars PROVE CInv'
  OBVIOUS
<1>1. ASSUME NEW w \in Worker, NEW n \in Bodies, Receive(w, n) PROVE CInv'
  <2>1. <<w, "req">> \in Object /\ HeadLen + n \in Nat /\ n \in Nat
    BY Lengths DEF Object
  <2>2. msg[<<w, "req">>].data = Null
    BY <1>1, <2>1 DEF Receive, Rests
  <2>3. ~overrun /\ ~crashed
    BY DEF CInv, NoOverrun
  <2>4. /\ FreeAddr # {} /\ UNCHANGED <<queue, out, finish, up>> /\ ~overrun' /\ ~crashed'
        /\ msg' = [msg EXCEPT ![<<w, "req">>] =
                     [data |-> NewAddr, len |-> HeadLen + n, alloc |-> HeadLen + n]]
        /\ heap' = [heap EXCEPT ![NewAddr] = [size |-> HeadLen + n, field |-> n, body |-> n]]
    BY <1>1, <2>3 DEF Receive
  <2>. QED
    BY <2>1, <2>2, <2>4, CarefulAlloc
<1>2. CASE UNCHANGED vars
  BY <1>2 DEF vars, CInv, Leakless, Holds, AllGood, Sendable, NoOverrun
<1>. QED
  BY <1>1, <1>2, CarefulReturn, CarefulSend, CarefulHandlers, CarefulCopies,
     CarefulConnection DEF Next

(* What follows from the two invariants.                                   *)
LEMMA CarefulSafety ==
  ASSUME Careful
  PROVE  Spec => [](NoLeak /\ NoOverrun /\ HealthyConnection /\ ReceiverInStep)
<1>1. Init => Rests
  BY DEF Init, Rests, NoData
<1>2. Init => Counted
  <2>1. 0 \in 0..MaxOp + 1 /\ 0 \in 0..MaxRequest
    BY MessageAssumption DEF MessageAssumption
  <2>. QED
    BY <2>1 DEF Init, Counted
<1>3. IInv => Typed
  BY DEF IInv
<1>4. CInv => HealthyConnection /\ NoOverrun
  BY DEF CInv, Sendable, HealthyConnection
<1>5. IInv /\ CInv => ReceiverInStep
  <2>. SUFFICES ASSUME IInv, CInv, NEW m \in Elements(queue) \cup {out}, m.data # Null
                PROVE  /\ m.len = HeadLen + heap[m.data].field
                       /\ heap[m.data].body = heap[m.data].field
    BY DEF ReceiverInStep
  <2>1. m.len > 0 /\ Good(heap, m)
    BY DEF CInv, Sendable, AllGood, Elements
  <2>. QED
    BY <2>1 DEF Good
<1>6. IInv /\ CInv => NoLeak
  <2>. SUFFICES ASSUME IInv, CInv, NEW a \in Addr, heap[a] # Free PROVE Owners(a) > 0
    BY DEF NoLeak
  <2>. DEFINE A == {o \in Object : msg[o].data = a}
              B == {i \in DOMAIN queue : queue[i].data = a}
  <2>1. A # {} \/ B # {} \/ out.data = a
    BY DEF CInv, Leakless, Holds
  <2>2. (\A x, y \in A : x = y) /\ (\A x, y \in B : x = y)
    BY AddrNotNull DEF IInv, Unique
  <2>3. /\ Cardinality(A) \in {0, 1} /\ (Cardinality(A) = 0 <=> A = {})
        /\ Cardinality(B) \in {0, 1} /\ (Cardinality(B) = 0 <=> B = {})
    BY <2>2, AtMostOne
  <2>4. Owners(a) = Cardinality(A) + Cardinality(B) + IF out.data = a THEN 1 ELSE 0
    BY DEF Owners
  <2>. HIDE DEF A, B
  <2>. QED
    BY <2>1, <2>3, <2>4
<1>7. Spec => []CInv
  BY <1>1, <1>2, <1>3, InitCInv, NextCInv, NextRests, NextCounted, Invariance, PTL DEF Spec
<1>. QED
  BY <1>4, <1>5, <1>6, <1>7, Invariance, PTL

(* Handlers that keep the rules lose no memory, although bufalloc and      *)
(* new_head overwrite pointers (PbBuf.cpp:191).                            *)
THEOREM NothingLeaks == ASSUME Careful PROVE Spec => []NoLeak
BY CarefulSafety, PTL

(* They write nothing behind a buffer (PbBuf.cpp:126).                     *)
THEOREM NothingOverruns == ASSUME Careful PROVE Spec => []NoOverrun
BY CarefulSafety, PTL

(* No send of theirs fails for want of memory or length and drops the      *)
(* connection (IMString.cpp:19).                                           *)
THEOREM ConnectionStaysHealthy == ASSUME Careful PROVE Spec => []HealthyConnection
BY CarefulSafety, PTL

(* What is sent is as long as its header says.                             *)
THEOREM HeadersTellTheLength == ASSUME Careful PROVE Spec => []ReceiverInStep
BY CarefulSafety, PTL
=============================================================================
