--------------------------- MODULE NetQueue_proofs ---------------------------
(***************************************************************************)
(* Proofs about NetQueue, for every queue limit and any number of packets. *)
(*                                                                         *)
(* What the queue, the call in progress and the histories have to do with  *)
(* each other is stated as predicates on their values, so that each        *)
(* operation of the queue (append, take from the head, put back, deliver)  *)
(* is one lemma about values, which the actions then combine.              *)
(***************************************************************************)
EXTENDS NetQueue, SequenceTheorems, FiniteSetTheorems, TLAPS

(* The call in progress: fn is its caller, "none" without one.             *)
Calls == {"none", "send", "flush"}

(* Every packet sent is in exactly one place.                              *)
Places(ps, fn, p, g, l, n) ==
    /\ \A k : k \in 1..n <=>
            \/ \E i \in DOMAIN ps : ps[i].id = k
            \/ fn # "none" /\ p.id = k
            \/ \E i \in DOMAIN g : g[i].id = k
            \/ k \in l
    /\ \A i, j \in DOMAIN ps : ps[i].id = ps[j].id => i = j
    /\ \A i, j \in DOMAIN g : g[i].id = g[j].id => i = j
    /\ \A i \in DOMAIN ps : ps[i].id \notin l /\ \A j \in DOMAIN g : ps[i].id # g[j].id
    /\ \A i \in DOMAIN g : g[i].id \notin l
    /\ fn # "none" => /\ p.id \notin l
                      /\ \A i \in DOMAIN ps : ps[i].id # p.id
                      /\ \A i \in DOMAIN g : g[i].id # p.id

(* A packet that may not overtake lies before all those sent after it: the *)
(* accepted, then the one with the handler, then the queue.  A packet that *)
(* was given to the handler directly goes to the end of the queue if it is *)
(* refused, behind those that may not overtake it.                         *)
InOrder(ps, fn, p, g) ==
    /\ \A i, j \in DOMAIN g : i < j /\ ~MayOvertake(g[i]) => g[i].id < g[j].id
    /\ \A i \in DOMAIN g, j \in DOMAIN ps : ~MayOvertake(g[i]) => g[i].id < ps[j].id
    /\ \A i, j \in DOMAIN ps : i < j /\ ~MayOvertake(ps[i]) => ps[i].id < ps[j].id
    /\ fn # "none" => \A i \in DOMAIN g : ~MayOvertake(g[i]) => g[i].id < p.id
    /\ fn # "none" /\ ~MayOvertake(p) => \A i \in DOMAIN ps : p.id < ps[i].id
    /\ fn = "send" => \A i \in DOMAIN ps : ~MayOvertake(ps[i]) => ps[i].id < p.id

(* The sender with a callback has at most one packet on its way.           *)
OneWaiter(ps, fn, p, w) ==
    /\ w <=> (\E i \in DOMAIN ps : ps[i].cb) \/ (fn = "flush" /\ p.cb)
    /\ \A i, j \in DOMAIN ps : ps[i].cb /\ ps[j].cb => i = j
    /\ fn # "none" /\ p.cb => \A i \in DOMAIN ps : ~ps[i].cb

(* The room taken, the packet that a flush may put back counted.           *)
Room(ps, fn, w) ==
    Len(ps) + (IF fn = "flush" THEN 1 ELSE 0) <= nq_maxlen + (IF w THEN 2 ELSE 1)

Queue(ps, fn, p, g, l, w, n) ==
    /\ ps \in Seq(Packet) /\ g \in Seq(Packet) /\ l \subseteq 1..n /\ w \in BOOLEAN
    /\ n \in 0..MaxPackets /\ fn \in Calls /\ (fn # "none" => p \in Packet)
    /\ Places(ps, fn, p, g, l, n)
    /\ InOrder(ps, fn, p, g)
    /\ OneWaiter(ps, fn, p, w)
    /\ Room(ps, fn, w)

(* The innermost call of a stack, if it is one of the handler.             *)
CallOf(st)    == IF st # <<>> /\ IsHandler(Last(st)) THEN Last(st).fn ELSE "none"
CarriedOf(st) == Last(st).packet

(* What a call may be made on: nothing, or a callback.                     *)
Bases == {<<>>, <<Callback>>}

(* The stacks there are.  While a flush runs that a callback has started,  *)
(* the sender does not wait, so that this flush meets no callback.         *)
StackOK(st, w) ==
    \/ st = <<>>
    \/ \E base \in Bases, f \in Frame : /\ st = Append(base, f)
                                        /\ base # <<>> => f # Callback /\ ~w

(* The inductive invariant.  A receiver that is able and not called has an *)
(* empty queue, unless it became able without a flush.                     *)
QueueInv ==
    /\ StackOK(stack, waiting)
    /\ delivering = InHandler
    /\ receive_disabled \in BOOLEAN /\ can_receive \in BOOLEAN /\ link_down \in BOOLEAN
    /\ behind \in BOOLEAN
    /\ nq_count = Len(packets)
    /\ stack = <<>> /\ qemu_can_send_packet /\ ~behind => packets = <<>>
    /\ Queue(packets, CallOf(stack), CarriedOf(stack), got, lost, waiting, sent)

-----------------------------------------------------------------------------
(* The operations of the queue, on values                                  *)

(* What the proofs use of a sequence of packets.                           *)
LEMMA PacketSeq ==
    ASSUME NEW ps \in Seq(Packet)
    PROVE  /\ Len(ps) \in Nat /\ DOMAIN ps = 1..Len(ps)
           /\ \A i \in DOMAIN ps : ps[i] \in Packet
           /\ ps = <<>> <=> Len(ps) = 0
<1>1. Len(ps) \in Nat /\ DOMAIN ps = 1..Len(ps)
  BY LenProperties
<1>2. \A i \in DOMAIN ps : ps[i] \in Packet
  BY <1>1, ElementOfSeq
<1>3. ps = <<>> <=> Len(ps) = 0
  BY EmptySeq
<1> QED
  BY <1>1, <1>2, <1>3

(* qemu_net_queue_flush takes the oldest packet off the queue.             *)
LEMMA TakeHead ==
    ASSUME NEW ps, NEW p, NEW g, NEW l, NEW w, NEW n,
           Queue(ps, "none", p, g, l, w, n), ps # <<>>
    PROVE  /\ Queue(Tail(ps), "flush", Head(ps), g, l, w, n)
           /\ Len(Tail(ps)) = Len(ps) - 1
<1> DEFINE t == Tail(ps)
           h == Head(ps)
<1>1. ps \in Seq(Packet) /\ g \in Seq(Packet)
  BY DEF Queue
<1>2. /\ Len(ps) \in Nat /\ Len(ps) > 0 /\ DOMAIN ps = 1..Len(ps)
      /\ \A i \in DOMAIN ps : ps[i] \in Packet
  BY <1>1, PacketSeq
<1>3. /\ h \in Packet /\ t \in Seq(Packet) /\ Len(t) = Len(ps) - 1
      /\ \A i \in 1..Len(t) : t[i] = ps[i + 1]
      /\ h = ps[1]
  BY <1>1, HeadTailProperties
<1>4. DOMAIN t = 1..Len(t)
  BY <1>3, PacketSeq
<1> HIDE DEF t, h
<1>5. \A i \in DOMAIN t : i + 1 \in DOMAIN ps /\ t[i] = ps[i + 1] /\ i + 1 # 1
  BY <1>2, <1>3, <1>4
<1>6. 1 \in DOMAIN ps /\ \A i \in DOMAIN ps : i = 1 \/ (i - 1 \in DOMAIN t /\ ps[i] = t[i - 1])
  BY <1>2, <1>3, <1>4
<1>7. Places(t, "flush", h, g, l, n)
  <2>0. Places(ps, "none", p, g, l, n)
    BY DEF Queue
  <2>1. \A k : k \in 1..n <=>
            \/ \E i \in DOMAIN t : t[i].id = k
            \/ h.id = k
            \/ \E i \in DOMAIN g : g[i].id = k
            \/ k \in l
    <3>1. ASSUME NEW k
          PROVE  (\E i \in DOMAIN ps : ps[i].id = k) <=> (\E i \in DOMAIN t : t[i].id = k) \/ h.id = k
      BY <1>3, <1>5, <1>6
    <3> QED
      BY <2>0, <3>1 DEF Places
  <2>2. \A i, j \in DOMAIN t : t[i].id = t[j].id => i = j
    BY <1>2, <1>3, <1>4, <1>5, <2>0 DEF Places
  <2>3. \A i \in DOMAIN t : t[i].id \notin l /\ \A j \in DOMAIN g : t[i].id # g[j].id
    BY <1>5, <2>0 DEF Places
  <2>4. /\ h.id \notin l
        /\ \A i \in DOMAIN t : t[i].id # h.id
        /\ \A i \in DOMAIN g : g[i].id # h.id
    BY <1>3, <1>5, <1>6, <2>0 DEF Places
  <2> QED
    BY <2>0, <2>1, <2>2, <2>3, <2>4 DEF Places
<1>8. InOrder(t, "flush", h, g)
  <2>0. InOrder(ps, "none", p, g)
    BY DEF Queue
  <2>1. \A i \in DOMAIN g, j \in DOMAIN t : ~MayOvertake(g[i]) => g[i].id < t[j].id
    BY <1>5, <2>0 DEF InOrder
  <2>2. \A i, j \in DOMAIN t : i < j /\ ~MayOvertake(t[i]) => t[i].id < t[j].id
    BY <1>2, <1>3, <1>4, <1>5, <2>0 DEF InOrder
  <2>3. \A i \in DOMAIN g : ~MayOvertake(g[i]) => g[i].id < h.id
    BY <1>3, <1>6, <2>0 DEF InOrder
  <2>4. ~MayOvertake(h) => \A i \in DOMAIN t : h.id < t[i].id
    <3>1. \A i \in DOMAIN t : 1 < i + 1
      BY <1>2, <1>3, <1>4
    <3> QED
      BY <1>3, <1>5, <1>6, <2>0, <3>1 DEF InOrder
  <2> QED
    BY <2>0, <2>1, <2>2, <2>3, <2>4 DEF InOrder
<1>9. OneWaiter(t, "flush", h, w)
  <2>0. OneWaiter(ps, "none", p, w)
    BY DEF Queue
  <2>1. w <=> (\E i \in DOMAIN t : t[i].cb) \/ h.cb
    <3>1. w <=> \E i \in DOMAIN ps : ps[i].cb
      BY <2>0 DEF OneWaiter
    <3> QED
      BY <1>3, <1>5, <1>6, <3>1
  <2>2. ASSUME NEW i \in DOMAIN t, NEW j \in DOMAIN t, t[i].cb, t[j].cb
        PROVE  i = j
    <3>1. i + 1 = j + 1
      BY <1>5, <2>0, <2>2 DEF OneWaiter
    <3> QED
      BY <1>3, <1>4, <3>1
  <2>3. ASSUME h.cb, NEW i \in DOMAIN t
        PROVE  ~t[i].cb
    BY <1>3, <1>5, <1>6, <2>0, <2>3 DEF OneWaiter
  <2> QED
    BY <2>1, <2>2, <2>3 DEF OneWaiter
<1>10. Room(t, "flush", w)
  BY <1>2, <1>3 DEF Queue, Room
<1> QED
  BY <1>3, <1>7, <1>8, <1>9, <1>10 DEF Queue, Calls, t, h

(* A flush that met a 0 puts the packet back where it took it from.        *)
LEMMA PutBackHead ==
    ASSUME NEW ps, NEW p, NEW g, NEW l, NEW w, NEW n, NEW q,
           Queue(ps, "flush", p, g, l, w, n)
    PROVE  /\ Queue(<<p>> \o ps, "none", q, g, l, w, n)
           /\ Len(<<p>> \o ps) = Len(ps) + 1
<1> DEFINE t == <<p>> \o ps
<1>1. ps \in Seq(Packet) /\ g \in Seq(Packet) /\ p \in Packet
  BY DEF Queue
<1>2. Len(ps) \in Nat /\ DOMAIN ps = 1..Len(ps)
  BY <1>1, PacketSeq
<1>3. <<p>> \in Seq(Packet) /\ Len(<<p>>) = 1 /\ <<p>>[1] = p
  BY <1>1
<1>4. /\ t \in Seq(Packet) /\ Len(t) = Len(ps) + 1
      /\ \A i \in 1..Len(ps) + 1 : t[i] = IF i <= 1 THEN p ELSE ps[i - 1]
  <2>1. /\ t \in Seq(Packet) /\ Len(t) = 1 + Len(ps)
        /\ \A i \in 1..1 + Len(ps) : t[i] = IF i <= 1 THEN <<p>>[i] ELSE ps[i - 1]
    BY <1>1, <1>3, ConcatProperties
  <2> HIDE DEF t
  <2> QED
    BY <1>2, <1>3, <2>1
<1>5. DOMAIN t = 1..Len(t)
  BY <1>4, PacketSeq
<1> HIDE DEF t
<1>6. 1 \in DOMAIN t /\ t[1] = p
  BY <1>2, <1>4, <1>5
<1>7. \A i \in DOMAIN t : i = 1 \/ (i - 1 \in DOMAIN ps /\ t[i] = ps[i - 1] /\ i > 1)
  BY <1>2, <1>4, <1>5
<1>8. \A i \in DOMAIN ps : i + 1 \in DOMAIN t /\ t[i + 1] = ps[i]
  BY <1>2, <1>4, <1>5
<1>9. \A i, j \in DOMAIN t : /\ i < j => (i = 1 /\ j > 1) \/ (i > 1 /\ j > 1 /\ i - 1 < j - 1)
                             /\ i - 1 = j - 1 => i = j
  BY <1>2, <1>4, <1>5
<1>10. Places(t, "none", q, g, l, n)
  <2>0. Places(ps, "flush", p, g, l, n)
    BY DEF Queue
  <2>1. ASSUME NEW k
        PROVE  (\E i \in DOMAIN t : t[i].id = k) <=> (\E i \in DOMAIN ps : ps[i].id = k) \/ p.id = k
    BY <1>6, <1>7, <1>8
  <2>2. \A k : k \in 1..n <=>
            \/ \E i \in DOMAIN t : t[i].id = k
            \/ \E i \in DOMAIN g : g[i].id = k
            \/ k \in l
    BY <2>0, <2>1 DEF Places
  <2>3. \A i, j \in DOMAIN t : t[i].id = t[j].id => i = j
    BY <1>6, <1>7, <1>9, <2>0 DEF Places
  <2>4. \A i \in DOMAIN t : t[i].id \notin l /\ \A j \in DOMAIN g : t[i].id # g[j].id
    BY <1>6, <1>7, <2>0 DEF Places
  <2> QED
    BY <2>0, <2>2, <2>3, <2>4 DEF Places
<1>11. InOrder(t, "none", q, g)
  <2>0. InOrder(ps, "flush", p, g)
    BY DEF Queue
  <2>1. \A i \in DOMAIN g, j \in DOMAIN t : ~MayOvertake(g[i]) => g[i].id < t[j].id
    BY <1>6, <1>7, <2>0 DEF InOrder
  <2>2. \A i, j \in DOMAIN t : i < j /\ ~MayOvertake(t[i]) => t[i].id < t[j].id
    BY <1>6, <1>7, <1>9, <2>0 DEF InOrder
  <2> QED
    BY <2>0, <2>1, <2>2 DEF InOrder
<1>12. OneWaiter(t, "none", q, w)
  <2>0. OneWaiter(ps, "flush", p, w)
    BY DEF Queue
  <2>1. (\E i \in DOMAIN t : t[i].cb) <=> (\E i \in DOMAIN ps : ps[i].cb) \/ p.cb
    BY <1>6, <1>7, <1>8
  <2>2. \A i, j \in DOMAIN t : t[i].cb /\ t[j].cb => i = j
    BY <1>6, <1>7, <1>9, <2>0 DEF OneWaiter
  <2> QED
    BY <2>0, <2>1, <2>2 DEF OneWaiter
<1>13. Room(t, "none", w)
  BY <1>2, <1>4, QueueAssumption DEF Queue, Room
<1> QED
  BY <1>4, <1>10, <1>11, <1>12, <1>13 DEF Queue, Calls, t

(* The handler accepted the packet.                                        *)
LEMMA Accept ==
    ASSUME NEW ps, NEW fn, NEW p, NEW g, NEW l, NEW w, NEW n, NEW q,
           Queue(ps, fn, p, g, l, w, n), fn # "none"
    PROVE  Queue(ps, "none", q, Append(g, p), l, w /\ ~(fn = "flush" /\ p.cb), n)
<1> DEFINE t == Append(g, p)
           v == w /\ ~(fn = "flush" /\ p.cb)
<1>1. ps \in Seq(Packet) /\ g \in Seq(Packet) /\ p \in Packet
  BY DEF Queue
<1>2. Len(g) \in Nat /\ DOMAIN g = 1..Len(g) /\ Len(ps) \in Nat /\ DOMAIN ps = 1..Len(ps)
  BY <1>1, PacketSeq
<1>3. /\ t \in Seq(Packet) /\ Len(t) = Len(g) + 1 /\ t[Len(g) + 1] = p
      /\ \A i \in 1..Len(g) : t[i] = g[i]
  BY <1>1, AppendProperties
<1>4. DOMAIN t = 1..Len(t)
  BY <1>3, PacketSeq
<1> HIDE DEF t
<1>5. Len(t) \in DOMAIN t /\ t[Len(t)] = p /\ Len(t) \notin DOMAIN g
  BY <1>2, <1>3, <1>4
<1>6. \A i \in DOMAIN g : i \in DOMAIN t /\ t[i] = g[i]
  BY <1>2, <1>3, <1>4
<1>7. \A i \in DOMAIN t : i = Len(t) \/ (i \in DOMAIN g /\ t[i] = g[i])
  BY <1>2, <1>3, <1>4
<1>8. \A i, j \in DOMAIN t : i < j => i \in DOMAIN g
  BY <1>2, <1>3, <1>4
<1>9. Places(ps, "none", q, t, l, n)
  <2>0. Places(ps, fn, p, g, l, n)
    BY DEF Queue
  <2>1. ASSUME NEW k
        PROVE  (\E i \in DOMAIN t : t[i].id = k) <=> (\E i \in DOMAIN g : g[i].id = k) \/ p.id = k
    BY <1>5, <1>6, <1>7
  <2>2. \A k : k \in 1..n <=>
            \/ \E i \in DOMAIN ps : ps[i].id = k
            \/ \E i \in DOMAIN t : t[i].id = k
            \/ k \in l
    BY <2>0, <2>1 DEF Places
  <2>3. \A i, j \in DOMAIN t : t[i].id = t[j].id => i = j
    BY <1>5, <1>7, <2>0 DEF Places
  <2>4. \A i \in DOMAIN ps : ps[i].id \notin l /\ \A j \in DOMAIN t : ps[i].id # t[j].id
    BY <1>5, <1>7, <2>0 DEF Places
  <2>5. \A i \in DOMAIN t : t[i].id \notin l
    BY <1>5, <1>7, <2>0 DEF Places
  <2> QED
    BY <2>0, <2>2, <2>3, <2>4, <2>5 DEF Places
<1>10. InOrder(ps, "none", q, t)
  <2>0. InOrder(ps, fn, p, g) /\ fn \in {"send", "flush"}
    BY DEF Queue, Calls
  <2>1. \A i, j \in DOMAIN t : i < j /\ ~MayOvertake(t[i]) => t[i].id < t[j].id
    BY <1>5, <1>6, <1>7, <1>8, <2>0 DEF InOrder
  <2>2. \A i \in DOMAIN t, j \in DOMAIN ps : ~MayOvertake(t[i]) => t[i].id < ps[j].id
    BY <1>5, <1>7, <2>0 DEF InOrder
  <2> QED
    BY <2>0, <2>1, <2>2 DEF InOrder
<1>11. v \in BOOLEAN
  OBVIOUS
<1>12. OneWaiter(ps, "none", q, v)
  <2>0. OneWaiter(ps, fn, p, w)
    BY DEF Queue
  <2> QED
    BY <2>0 DEF OneWaiter
<1>13. Room(ps, "none", v)
  BY <1>2, QueueAssumption DEF Queue, Room
<1> HIDE DEF v
<1>14. Queue(ps, "none", q, t, l, v, n)
  BY <1>3, <1>9, <1>10, <1>11, <1>12, <1>13 DEF Queue, Calls
<1> QED
  BY <1>14 DEF t, v

(* The packet with the handler is given up: refused for good, or there is  *)
(* no room to queue it.                                                    *)
LEMMA Refuse ==
    ASSUME NEW ps, NEW fn, NEW p, NEW g, NEW l, NEW w, NEW n, NEW q,
           Queue(ps, fn, p, g, l, w, n), fn # "none"
    PROVE  Queue(ps, "none", q, g, l \cup {p.id}, w /\ ~(fn = "flush" /\ p.cb), n)
<1> DEFINE m == l \cup {p.id}
           v == w /\ ~(fn = "flush" /\ p.cb)
<1>1. Len(ps) \in Nat
  BY PacketSeq DEF Queue
<1>2. Places(ps, "none", q, g, m, n) /\ m \subseteq 1..n
  <2>0. Places(ps, fn, p, g, l, n) /\ l \subseteq 1..n
    BY DEF Queue
  <2>1. p.id \in 1..n
    BY <2>0 DEF Places
  <2>2. \A k : k \in 1..n <=>
            \/ \E i \in DOMAIN ps : ps[i].id = k
            \/ \E i \in DOMAIN g : g[i].id = k
            \/ k \in m
    BY <2>0 DEF Places
  <2>3. \A i \in DOMAIN ps : ps[i].id \notin m /\ \A j \in DOMAIN g : ps[i].id # g[j].id
    BY <2>0 DEF Places
  <2>4. \A i \in DOMAIN g : g[i].id \notin m
    BY <2>0 DEF Places
  <2> HIDE DEF m
  <2>5. Places(ps, "none", q, g, m, n)
    BY <2>0, <2>2, <2>3, <2>4 DEF Places
  <2> QED
    BY <2>0, <2>1, <2>5 DEF m
<1>3. InOrder(ps, "none", q, g)
  BY DEF Queue, InOrder
<1>4. v \in BOOLEAN
  OBVIOUS
<1>5. OneWaiter(ps, "none", q, v)
  <2>0. OneWaiter(ps, fn, p, w)
    BY DEF Queue
  <2> QED
    BY <2>0 DEF OneWaiter
<1>6. Room(ps, "none", v)
  BY <1>1, QueueAssumption DEF Queue, Room
<1> HIDE DEF v, m
<1>7. Queue(ps, "none", q, g, m, v, n)
  BY <1>2, <1>3, <1>4, <1>5, <1>6 DEF Queue, Calls
<1> QED
  BY <1>7 DEF v, m

(* What the proofs use of a queue that has grown at its end.               *)
LEMMA GrownSeq ==
    ASSUME NEW ps \in Seq(Packet), NEW p \in Packet
    PROVE  LET t == Append(ps, p) IN
           /\ t \in Seq(Packet) /\ Len(t) = Len(ps) + 1 /\ Len(ps) \in Nat
           /\ Len(t) \in DOMAIN t /\ t[Len(t)] = p /\ Len(t) \notin DOMAIN ps
           /\ \A i \in DOMAIN ps : i \in DOMAIN t /\ t[i] = ps[i] /\ i < Len(t)
           /\ \A i \in DOMAIN t : i = Len(t) \/ (i \in DOMAIN ps /\ t[i] = ps[i])
           /\ \A i, j \in DOMAIN t : i < j => i \in DOMAIN ps
<1> DEFINE t == Append(ps, p)
<1>1. Len(ps) \in Nat /\ DOMAIN ps = 1..Len(ps)
  BY PacketSeq
<1>2. /\ t \in Seq(Packet) /\ Len(t) = Len(ps) + 1 /\ t[Len(ps) + 1] = p
      /\ \A i \in 1..Len(ps) : t[i] = ps[i]
  BY AppendProperties
<1>3. DOMAIN t = 1..Len(t)
  BY <1>2, PacketSeq
<1> HIDE DEF t
<1>4. Len(t) \in DOMAIN t /\ t[Len(t)] = p /\ Len(t) \notin DOMAIN ps
  BY <1>1, <1>2, <1>3
<1>5. \A i \in DOMAIN ps : i \in DOMAIN t /\ t[i] = ps[i] /\ i < Len(t)
  BY <1>1, <1>2, <1>3
<1>6. \A i \in DOMAIN t : i = Len(t) \/ (i \in DOMAIN ps /\ t[i] = ps[i])
  BY <1>1, <1>2, <1>3
<1>7. \A i, j \in DOMAIN t : i < j => i \in DOMAIN ps
  BY <1>1, <1>2, <1>3
<1> QED
  BY <1>1, <1>2, <1>4, <1>5, <1>6, <1>7 DEF t

(* A packet the handler met with a 0 is queued behind those that came from *)
(* inside the handler meanwhile.                                           *)
LEMMA Requeue ==
    ASSUME NEW ps, NEW p, NEW g, NEW l, NEW w, NEW n, NEW q,
           Queue(ps, "send", p, g, l, w, n), p.cb \/ Len(ps) < nq_maxlen
    PROVE  Queue(Append(ps, p), "none", q, g, l, w \/ p.cb, n)
<1> DEFINE t == Append(ps, p)
           v == w \/ p.cb
<1>1. ps \in Seq(Packet) /\ g \in Seq(Packet) /\ p \in Packet
  BY DEF Queue
<1>2. /\ t \in Seq(Packet) /\ Len(t) = Len(ps) + 1 /\ Len(ps) \in Nat
      /\ Len(t) \in DOMAIN t /\ t[Len(t)] = p /\ Len(t) \notin DOMAIN ps
      /\ \A i \in DOMAIN ps : i \in DOMAIN t /\ t[i] = ps[i] /\ i < Len(t)
      /\ \A i \in DOMAIN t : i = Len(t) \/ (i \in DOMAIN ps /\ t[i] = ps[i])
      /\ \A i, j \in DOMAIN t : i < j => i \in DOMAIN ps
  BY <1>1, GrownSeq
<1> HIDE DEF t
<1>3. Places(t, "none", q, g, l, n)
  <2>0. Places(ps, "send", p, g, l, n)
    BY DEF Queue
  <2>1. ASSUME NEW k
        PROVE  (\E i \in DOMAIN t : t[i].id = k) <=> (\E i \in DOMAIN ps : ps[i].id = k) \/ p.id = k
    BY <1>2
  <2>2. \A k : k \in 1..n <=>
            \/ \E i \in DOMAIN t : t[i].id = k
            \/ \E i \in DOMAIN g : g[i].id = k
            \/ k \in l
    BY <2>0, <2>1 DEF Places
  <2>3. \A i, j \in DOMAIN t : t[i].id = t[j].id => i = j
    BY <1>2, <2>0 DEF Places
  <2>4. \A i \in DOMAIN t : t[i].id \notin l /\ \A j \in DOMAIN g : t[i].id # g[j].id
    BY <1>2, <2>0 DEF Places
  <2> QED
    BY <2>0, <2>2, <2>3, <2>4 DEF Places
<1>4. InOrder(t, "none", q, g)
  <2>0. InOrder(ps, "send", p, g)
    BY DEF Queue
  <2>1. \A i \in DOMAIN g, j \in DOMAIN t : ~MayOvertake(g[i]) => g[i].id < t[j].id
    BY <1>2, <2>0 DEF InOrder
  <2>2. \A i, j \in DOMAIN t : i < j /\ ~MayOvertake(t[i]) => t[i].id < t[j].id
    BY <1>2, <2>0 DEF InOrder
  <2> QED
    BY <2>0, <2>1, <2>2 DEF InOrder
<1>5. v \in BOOLEAN
  BY <1>1 DEF Queue, Packet
<1>6. OneWaiter(t, "none", q, v)
  <2>0. OneWaiter(ps, "send", p, w)
    BY DEF Queue
  <2>1. (\E i \in DOMAIN t : t[i].cb) <=> (\E i \in DOMAIN ps : ps[i].cb) \/ p.cb
    BY <1>2
  <2>2. \A i, j \in DOMAIN t : t[i].cb /\ t[j].cb => i = j
    BY <1>2, <2>0 DEF OneWaiter
  <2> QED
    BY <2>0, <2>1, <2>2 DEF OneWaiter
<1>7. Room(t, "none", v)
  <2>1. p.cb => ~w
    BY DEF Queue, OneWaiter
  <2> QED
    BY <1>2, <2>1, QueueAssumption DEF Queue, Room
<1> HIDE DEF v
<1>8. Queue(t, "none", q, g, l, v, n)
  BY <1>2, <1>3, <1>4, <1>5, <1>6, <1>7 DEF Queue, Calls
<1> QED
  BY <1>8 DEF t, v

(* The numbers of the packets in use, when one more is sent.               *)
LEMMA NewId ==
    ASSUME NEW ps, NEW fn, NEW q, NEW g, NEW l, NEW w, NEW n,
           Queue(ps, fn, q, g, l, w, n)
    PROVE  /\ n \in Nat
           /\ \A k : k \in 1..n + 1 <=> k \in 1..n \/ k = n + 1
           /\ \A i \in DOMAIN ps : ps[i].id \in 1..n
           /\ \A i \in DOMAIN g : g[i].id \in 1..n
           /\ fn # "none" => q.id \in 1..n
           /\ \A k \in 1..n : k < n + 1 /\ k # n + 1
<1>1. n \in Nat
  BY QueueAssumption DEF Queue
<1>2. Places(ps, fn, q, g, l, n)
  BY DEF Queue
<1>3. \A i \in DOMAIN ps : ps[i].id \in 1..n
  BY <1>2 DEF Places
<1>4. \A i \in DOMAIN g : g[i].id \in 1..n
  BY <1>2 DEF Places
<1>5. fn # "none" => q.id \in 1..n
  BY <1>2 DEF Places
<1>6. \A k : k \in 1..n + 1 <=> k \in 1..n \/ k = n + 1
  BY <1>1
<1>7. \A k \in 1..n : k < n + 1 /\ k # n + 1
  BY <1>1
<1> QED
  BY <1>1, <1>3, <1>4, <1>5, <1>6, <1>7

(* A new packet is queued: behind others, or because the handler runs.     *)
LEMMA NewQueued ==
    ASSUME NEW ps, NEW fn, NEW q, NEW g, NEW l, NEW w, NEW n, NEW p \in Packet,
           Queue(ps, fn, q, g, l, w, n), n < MaxPackets, p.id = n + 1,
           fn # "none" => MayOvertake(p), p.cb => ~w /\ fn = "none",
           p.cb \/ Len(ps) < nq_maxlen
    PROVE  Queue(Append(ps, p), fn, q, g, l, w \/ p.cb, n + 1)
<1> DEFINE t == Append(ps, p)
           v == w \/ p.cb
           m == n + 1
<1>1. ps \in Seq(Packet) /\ g \in Seq(Packet) /\ l \subseteq 1..n
  BY DEF Queue
<1>2. /\ t \in Seq(Packet) /\ Len(t) = Len(ps) + 1 /\ Len(ps) \in Nat
      /\ Len(t) \in DOMAIN t /\ t[Len(t)] = p /\ Len(t) \notin DOMAIN ps
      /\ \A i \in DOMAIN ps : i \in DOMAIN t /\ t[i] = ps[i] /\ i < Len(t)
      /\ \A i \in DOMAIN t : i = Len(t) \/ (i \in DOMAIN ps /\ t[i] = ps[i])
      /\ \A i, j \in DOMAIN t : i < j => i \in DOMAIN ps
  BY <1>1, GrownSeq
<1>3. /\ n \in Nat
      /\ \A k : k \in 1..m <=> k \in 1..n \/ k = m
      /\ \A i \in DOMAIN ps : ps[i].id \in 1..n
      /\ \A i \in DOMAIN g : g[i].id \in 1..n
      /\ fn # "none" => q.id \in 1..n
      /\ \A k \in 1..n : k < m /\ k # m
  BY NewId
<1>4. m \in 0..MaxPackets
  BY <1>3, QueueAssumption
<1> HIDE DEF t, m
<1>5. p.id = m
  BY DEF m
<1>6. Places(t, fn, q, g, l, m) /\ l \subseteq 1..m
  <2>0. Places(ps, fn, q, g, l, n)
    BY DEF Queue
  <2>1. ASSUME NEW k
        PROVE  (\E i \in DOMAIN t : t[i].id = k) <=> (\E i \in DOMAIN ps : ps[i].id = k) \/ k = m
    BY <1>2, <1>5
  <2>2. \A k : k \in 1..m <=>
            \/ \E i \in DOMAIN t : t[i].id = k
            \/ fn # "none" /\ q.id = k
            \/ \E i \in DOMAIN g : g[i].id = k
            \/ k \in l
    BY <1>3, <2>0, <2>1 DEF Places
  <2>3. \A i, j \in DOMAIN t : t[i].id = t[j].id => i = j
    BY <1>2, <1>3, <1>5, <2>0 DEF Places
  <2>4. \A i \in DOMAIN t : t[i].id \notin l /\ \A j \in DOMAIN g : t[i].id # g[j].id
    BY <1>1, <1>2, <1>3, <1>5, <2>0 DEF Places
  <2>5. fn # "none" => \A i \in DOMAIN t : t[i].id # q.id
    BY <1>2, <1>3, <1>5, <2>0 DEF Places
  <2>6. l \subseteq 1..m
    BY <1>1, <1>3
  <2> QED
    BY <2>0, <2>2, <2>3, <2>4, <2>5, <2>6 DEF Places
<1>7. InOrder(t, fn, q, g)
  <2>0. InOrder(ps, fn, q, g) /\ fn \in Calls
    BY DEF Queue
  <2>1. \A i \in DOMAIN g, j \in DOMAIN t : ~MayOvertake(g[i]) => g[i].id < t[j].id
    BY <1>2, <1>3, <1>5, <2>0 DEF InOrder
  <2>2. \A i, j \in DOMAIN t : i < j /\ ~MayOvertake(t[i]) => t[i].id < t[j].id
    BY <1>2, <1>3, <1>5, <2>0 DEF InOrder
  <2>3. fn # "none" /\ ~MayOvertake(q) => \A i \in DOMAIN t : q.id < t[i].id
    BY <1>2, <1>3, <1>5, <2>0 DEF InOrder
  <2>4. fn = "send" => \A i \in DOMAIN t : ~MayOvertake(t[i]) => t[i].id < q.id
    BY <1>2, <2>0 DEF InOrder
  <2> QED
    BY <2>0, <2>1, <2>2, <2>3, <2>4 DEF InOrder
<1>8. v \in BOOLEAN
  BY DEF Queue, Packet
<1>9. OneWaiter(t, fn, q, v)
  <2>0. OneWaiter(ps, fn, q, w)
    BY DEF Queue
  <2>1. (\E i \in DOMAIN t : t[i].cb) <=> (\E i \in DOMAIN ps : ps[i].cb) \/ p.cb
    BY <1>2
  <2>2. \A i, j \in DOMAIN t : t[i].cb /\ t[j].cb => i = j
    BY <1>2, <2>0 DEF OneWaiter
  <2>3. fn # "none" /\ q.cb => \A i \in DOMAIN t : ~t[i].cb
    BY <1>2, <2>0 DEF OneWaiter
  <2> QED
    BY <2>0, <2>1, <2>2, <2>3 DEF OneWaiter
<1>10. Room(t, fn, v)
  BY <1>2, QueueAssumption DEF Queue, Room
<1> HIDE DEF v
<1>11. Queue(t, fn, q, g, l, v, m)
  BY <1>2, <1>4, <1>6, <1>7, <1>8, <1>9, <1>10 DEF Queue
<1> QED
  BY <1>11 DEF t, v, m

(* A new packet is dropped: the queue is full, or the receiver's link is   *)
(* down.                                                                   *)
LEMMA NewLost ==
    ASSUME NEW ps, NEW fn, NEW q, NEW g, NEW l, NEW w, NEW n,
           Queue(ps, fn, q, g, l, w, n), n < MaxPackets
    PROVE  Queue(ps, fn, q, g, l \cup {n + 1}, w, n + 1)
<1> DEFINE m == n + 1
           r == l \cup {m}
<1>1. l \subseteq 1..n
  BY DEF Queue
<1>2. /\ n \in Nat
      /\ \A k : k \in 1..m <=> k \in 1..n \/ k = m
      /\ \A i \in DOMAIN ps : ps[i].id \in 1..n
      /\ \A i \in DOMAIN g : g[i].id \in 1..n
      /\ fn # "none" => q.id \in 1..n
      /\ \A k \in 1..n : k < m /\ k # m
  BY NewId
<1>3. m \in 0..MaxPackets
  BY <1>2, QueueAssumption
<1> HIDE DEF m
<1>4. \A k : k \in r <=> k \in l \/ k = m
  OBVIOUS
<1> HIDE DEF r
<1>5. Places(ps, fn, q, g, r, m)
  <2>0. Places(ps, fn, q, g, l, n)
    BY DEF Queue
  <2>1. \A k : k \in 1..m <=>
            \/ \E i \in DOMAIN ps : ps[i].id = k
            \/ fn # "none" /\ q.id = k
            \/ \E i \in DOMAIN g : g[i].id = k
            \/ k \in r
    BY <1>2, <1>4, <2>0 DEF Places
  <2>2. \A i \in DOMAIN ps : ps[i].id \notin r
    BY <1>2, <1>4, <2>0 DEF Places
  <2>3. \A i \in DOMAIN g : g[i].id \notin r
    BY <1>2, <1>4, <2>0 DEF Places
  <2>4. fn # "none" => q.id \notin r
    BY <1>2, <1>4, <2>0 DEF Places
  <2> QED
    BY <2>0, <2>1, <2>2, <2>3, <2>4 DEF Places
<1>6. r \subseteq 1..m
  BY <1>1, <1>2, <1>4
<1> QED
  BY <1>3, <1>5, <1>6 DEF Queue, r, m

(* A new packet goes to the handler at once.                               *)
LEMMA NewDirect ==
    ASSUME NEW ps, NEW q, NEW g, NEW l, NEW w, NEW n, NEW p \in Packet,
           Queue(ps, "none", q, g, l, w, n), n < MaxPackets, p.id = n + 1,
           p.cb => ~w, ~MayOvertake(p) => ps = <<>>
    PROVE  Queue(ps, "send", p, g, l, w, n + 1)
<1> DEFINE m == n + 1
<1>1. l \subseteq 1..n /\ g \in Seq(Packet) /\ ps \in Seq(Packet)
  BY DEF Queue
<1>2. /\ n \in Nat
      /\ \A k : k \in 1..m <=> k \in 1..n \/ k = m
      /\ \A i \in DOMAIN ps : ps[i].id \in 1..n
      /\ \A i \in DOMAIN g : g[i].id \in 1..n
      /\ \A k \in 1..n : k < m /\ k # m
  BY NewId
<1>3. m \in 0..MaxPackets
  BY <1>2, QueueAssumption
<1>4. ~MayOvertake(p) => DOMAIN ps = {}
  OBVIOUS
<1> HIDE DEF m
<1>5. Places(ps, "send", p, g, l, m)
  <2>0. Places(ps, "none", q, g, l, n)
    BY DEF Queue
  <2>1. \A k : k \in 1..m <=>
            \/ \E i \in DOMAIN ps : ps[i].id = k
            \/ p.id = k
            \/ \E i \in DOMAIN g : g[i].id = k
            \/ k \in l
    BY <1>2, <2>0 DEF Places, m
  <2> QED
    BY <1>1, <1>2, <2>0, <2>1 DEF Places, m
<1>6. InOrder(ps, "send", p, g)
  <2>0. InOrder(ps, "none", q, g) /\ p.id = m
    BY DEF Queue, m
  <2> QED
    BY <1>2, <1>4, <2>0 DEF InOrder
<1>7. OneWaiter(ps, "send", p, w)
  <2>0. OneWaiter(ps, "none", q, w)
    BY DEF Queue
  <2> QED
    BY <2>0 DEF OneWaiter
<1>8. Room(ps, "send", w)
  BY DEF Queue, Room
<1>9. l \subseteq 1..m
  BY <1>1, <1>2
<1>10. Queue(ps, "send", p, g, l, w, m)
  BY <1>1, <1>3, <1>5, <1>6, <1>7, <1>8, <1>9 DEF Queue, Calls
<1> QED
  BY <1>10 DEF m

-----------------------------------------------------------------------------
(* The stack                                                               *)

(* What kinds of frames there are.                                         *)
LEMMA Frames ==
    /\ Loop \in Frame /\ Callback \in Frame /\ Loop # Callback
    /\ ~IsHandler(Loop) /\ ~IsHandler(Callback)
    /\ \A fn \in {"send", "flush"}, p \in Packet :
         LET f == [fn |-> fn, packet |-> p]
         IN  f \in Frame /\ IsHandler(f) /\ f # Callback /\ f # Loop
    /\ \A f \in Frame :
         \/ f = Loop \/ f = Callback
         \/ IsHandler(f) /\ f.fn \in {"send", "flush"} /\ f.packet \in Packet
<1>1. Loop.fn = "loop" /\ Callback.fn = "callback"
  BY DEF Loop, Callback
<1>2. ~IsHandler(Loop) /\ ~IsHandler(Callback) /\ Loop # Callback
  BY <1>1 DEF IsHandler
<1>3. \A fn \in {"send", "flush"}, p \in Packet : IsHandler([fn |-> fn, packet |-> p])
  BY DEF IsHandler
<1>4. \A f \in Frame :
         \/ f = Loop \/ f = Callback
         \/ IsHandler(f) /\ f.fn \in {"send", "flush"} /\ f.packet \in Packet
  BY DEF Frame, IsHandler
<1> QED
  BY <1>2, <1>3, <1>4 DEF Frame

(* Two frames, one on the other.                                           *)
LEMMA TwoFrames ==
    ASSUME NEW c, NEW f
    PROVE  LET st == Append(<<c>>, f) IN
           /\ st # <<>> /\ Len(st) = 2 /\ st[2] = f /\ st[1] = c /\ DOMAIN st = 1..2
           /\ Last(st) = f /\ Front(st) = <<c>>
<1> DEFINE S == {c, f}
           s == <<c>>
           st == Append(s, f)
<1>1. s \in Seq(S) /\ Len(s) = 1 /\ s[1] = c /\ f \in S
  OBVIOUS
<1> HIDE DEF s
<1>2. st # <<>> /\ Len(st) = 2 /\ st[2] = f /\ st[1] = c /\ DOMAIN st = 1..2
  <2>1. /\ st \in Seq(S) /\ Len(st) = Len(s) + 1 /\ st[Len(s) + 1] = f
        /\ \A i \in 1..Len(s) : st[i] = s[i]
    BY <1>1, AppendProperties
  <2> HIDE DEF st
  <2> QED
    BY <1>1, <2>1
<1> HIDE DEF st
<1>3. Last(st) = f
  BY <1>2 DEF Last
<1>4. Front(st) = <<c>>
  <2>1. Front(st) = [i \in 1..1 |-> st[i]]
    BY <1>2 DEF Front
  <2> QED
    BY <1>2, <2>1
<1> QED
  BY <1>2, <1>3, <1>4 DEF s, st

(* A frame pushed on a base.                                               *)
LEMMA Pushed ==
    ASSUME NEW base \in Bases, NEW f \in Frame
    PROVE  LET st == Append(base, f) IN
           /\ st # <<>> /\ Last(st) = f /\ Front(st) = base
           /\ CallOf(st) = IF IsHandler(f) THEN f.fn ELSE "none"
           /\ CarriedOf(st) = f.packet
           /\ Len(st) \in {1, 2} /\ DOMAIN st = 1..Len(st) /\ st[Len(st)] = f
           /\ Len(st) = 2 <=> base # <<>>
           /\ base # <<>> => st[1] = Callback
<1>1. CASE base = <<>>
  <2> DEFINE st == <<f>>
  <2>1. Append(base, f) = st
    BY <1>1
  <2>2. st # <<>> /\ Len(st) = 1 /\ st[1] = f /\ DOMAIN st = 1..1
    OBVIOUS
  <2>3. Last(st) = f /\ Front(st) = <<>>
    BY <2>2 DEF Last, Front
  <2> QED
    BY <1>1, <2>1, <2>2, <2>3 DEF CallOf, CarriedOf
<1>2. CASE base = <<Callback>>
  <2> DEFINE st == Append(base, f)
  <2>1. /\ st # <<>> /\ Len(st) = 2 /\ st[2] = f /\ st[1] = Callback /\ DOMAIN st = 1..2
        /\ Last(st) = f /\ Front(st) = base
    BY <1>2, TwoFrames
  <2>2. base # <<>>
    BY <1>2
  <2> HIDE DEF st
  <2>3. CallOf(st) = (IF IsHandler(f) THEN f.fn ELSE "none") /\ CarriedOf(st) = f.packet
    BY <2>1 DEF CallOf, CarriedOf
  <2> QED
    BY <2>1, <2>2, <2>3 DEF st
<1> QED
  BY <1>1, <1>2 DEF Bases

(* A base as a stack.                                                      *)
LEMMA BaseStack ==
    ASSUME NEW base \in Bases, NEW w
    PROVE  /\ StackOK(base, w) /\ CallOf(base) = "none"
           /\ base # <<>> => ~IsHandler(Last(base))
<1>1. CASE base = <<>>
  BY <1>1 DEF StackOK, CallOf
<1>2. CASE base = <<Callback>>
  <2>1. base = Append(<<>>, Callback) /\ <<>> \in Bases
    BY <1>2 DEF Bases
  <2>2. Last(base) = Callback /\ CallOf(base) = "none"
    BY <2>1, Pushed, Frames
  <2> QED
    BY <2>1, <2>2, Frames DEF StackOK
<1> QED
  BY <1>1, <1>2 DEF Bases

(* What the stack is made of, if it is not empty.                          *)
LEMMA Top ==
    ASSUME StackOK(stack, waiting), stack # <<>>
    PROVE  /\ Front(stack) \in Bases /\ Last(stack) \in Frame
           /\ stack = Append(Front(stack), Last(stack))
           /\ Front(stack) # <<>> => Last(stack) # Callback /\ ~waiting
<1>1. PICK base \in Bases, f \in Frame : /\ stack = Append(base, f)
                                         /\ base # <<>> => f # Callback /\ ~waiting
  BY DEF StackOK
<1>2. Last(stack) = f /\ Front(stack) = base
  BY <1>1, Pushed
<1> QED
  BY <1>1, <1>2

-----------------------------------------------------------------------------
(* The steps                                                               *)

(* The packet of a call that is not there does not matter.                 *)
LEMMA NoCall ==
    ASSUME NEW ps, NEW p, NEW q, NEW g, NEW l, NEW w, NEW n,
           Queue(ps, "none", p, g, l, w, n)
    PROVE  Queue(ps, "none", q, g, l, w, n)
BY DEF Queue, Places, InOrder, OneWaiter

(* A step whose stack is one frame on a base, or a base alone, keeps the   *)
(* invariant if it keeps the queue.                                        *)
LEMMA Keeps ==
    ASSUME StackOK(stack', waiting'),
           delivering' = (CallOf(stack') # "none"),
           receive_disabled' \in BOOLEAN, can_receive' \in BOOLEAN, link_down' \in BOOLEAN,
           behind' \in BOOLEAN, nq_count' = Len(packets'),
           stack' = <<>> /\ qemu_can_send_packet' /\ ~behind' => packets' = <<>>,
           Queue(packets', CallOf(stack'), CarriedOf(stack'), got', lost', waiting', sent')
    PROVE  QueueInv'
<1>1. (CallOf(stack') # "none") = InHandler'
  BY DEF CallOf, InHandler, IsHandler
<1> QED
  BY <1>1 DEF QueueInv

(* An empty queue.                                                         *)
LEMMA InitQueueInv == Init => QueueInv
<1> SUFFICES ASSUME Init PROVE QueueInv
  OBVIOUS
<1> DEFINE e == <<>>
<1>1. DOMAIN e = {} /\ Len(e) = 0 /\ e \in Seq(Packet)
  OBVIOUS
<1>2. packets = e /\ stack = e /\ got = e /\ lost = {} /\ sent = 0 /\ waiting = FALSE
  BY DEF Init
<1>3. CallOf(stack) = "none" /\ StackOK(stack, waiting) /\ ~InHandler
  BY <1>2 DEF CallOf, StackOK, InHandler
<1> HIDE DEF e
<1> DEFINE q == CarriedOf(stack)
<1>4. 1..sent = {}
  BY <1>2
<1>5. Places(packets, "none", q, got, lost, sent)
  BY <1>1, <1>2, <1>4 DEF Places
<1>6. InOrder(packets, "none", q, got)
  BY <1>1, <1>2 DEF InOrder
<1>7. OneWaiter(packets, "none", q, waiting)
  BY <1>1, <1>2 DEF OneWaiter
<1>8. Room(packets, "none", waiting)
  BY <1>1, <1>2, QueueAssumption DEF Room
<1>9. sent \in 0..MaxPackets
  BY <1>2, QueueAssumption
<1>10. Queue(packets, CallOf(stack), CarriedOf(stack), got, lost, waiting, sent)
  BY <1>1, <1>2, <1>3, <1>5, <1>6, <1>7, <1>8, <1>9 DEF Queue, Calls
<1>11. delivering = InHandler
  <2>1. delivering = FALSE /\ InHandler = FALSE
    BY <1>3 DEF Init, InHandler
  <2> QED
    BY <2>1
<1>12. nq_count = Len(packets) /\ packets = <<>> /\ behind = FALSE
  BY DEF Init
<1>13. receive_disabled \in BOOLEAN /\ can_receive \in BOOLEAN /\ link_down \in BOOLEAN
  BY DEF Init
<1> QED
  BY <1>3, <1>10, <1>11, <1>12, <1>13 DEF QueueInv

(* What every step starts from.                                            *)
LEMMA Start ==
    ASSUME QueueInv
    PROVE  /\ StackOK(stack, waiting)
           /\ delivering = (CallOf(stack) # "none") /\ delivering = InHandler
           /\ receive_disabled \in BOOLEAN /\ can_receive \in BOOLEAN /\ link_down \in BOOLEAN
           /\ behind \in BOOLEAN /\ waiting \in BOOLEAN
           /\ nq_count = Len(packets) /\ packets \in Seq(Packet) /\ Len(packets) \in Nat
           /\ stack = <<>> /\ qemu_can_send_packet /\ ~behind => packets = <<>>
           /\ Queue(packets, CallOf(stack), CarriedOf(stack), got, lost, waiting, sent)
<1>1. (CallOf(stack) # "none") = InHandler
  BY DEF CallOf, InHandler, IsHandler
<1>2. packets \in Seq(Packet) /\ waiting \in BOOLEAN
  BY DEF QueueInv, Queue
<1>3. Len(packets) \in Nat
  BY <1>2, PacketSeq
<1> QED
  BY <1>1, <1>2, <1>3 DEF QueueInv

(* A packet is sent: from outside, from a handler or from a callback.      *)
LEMMA SendKeeps ==
    ASSUME QueueInv, NEW cb \in BOOLEAN, NEW from \in {"outside", "handler", "callback"},
           SendPacket(cb, from),
           cb => ~waiting /\ ~InHandler,
           InHandler \/ (stack \in Bases /\ (stack # <<>> => ~waiting)),
           from = "outside" <=> stack = <<>>
    PROVE  QueueInv'
<1> DEFINE p == [id |-> sent + 1, cb |-> cb, from |-> from, behind |-> behind]
<1>1. /\ sent < MaxPackets /\ sent' = sent + 1 /\ qemu_net_queue_send(p)
      /\ UNCHANGED <<receive_disabled, can_receive, link_down, behind, got>>
  BY DEF SendPacket
<1>2. /\ StackOK(stack, waiting)
      /\ delivering = (CallOf(stack) # "none") /\ delivering = InHandler
      /\ receive_disabled \in BOOLEAN /\ can_receive \in BOOLEAN /\ link_down \in BOOLEAN
      /\ behind \in BOOLEAN /\ waiting \in BOOLEAN
      /\ nq_count = Len(packets) /\ packets \in Seq(Packet) /\ Len(packets) \in Nat
      /\ stack = <<>> /\ qemu_can_send_packet /\ ~behind => packets = <<>>
  BY Start
<1>3. Queue(packets, CallOf(stack), CarriedOf(stack), got, lost, waiting, sent)
  BY Start
<1>4. p.id = sent + 1 /\ p.cb = cb /\ (MayOvertake(p) <=> stack # <<>> \/ behind)
  BY DEF MayOvertake
<1>5. p \in Packet
  <2>1. sent + 1 \in 1..MaxPackets
    BY <1>1, <1>3, QueueAssumption DEF Queue
  <2> QED
    BY <1>2, <2>1 DEF Packet
<1> HIDE DEF p
<1>6. /\ receive_disabled' \in BOOLEAN /\ can_receive' \in BOOLEAN /\ link_down' \in BOOLEAN
      /\ behind' \in BOOLEAN /\ behind' = behind
      /\ qemu_can_send_packet' = qemu_can_send_packet
  BY <1>1, <1>2 DEF qemu_can_send_packet
<1>7. CASE delivering \/ ~qemu_can_send_packet
  <2>1. qemu_net_queue_append(p) /\ waiting' = (waiting \/ p.cb) /\ UNCHANGED <<stack, delivering>>
    BY <1>1, <1>7 DEF qemu_net_queue_send
  <2>2. StackOK(stack', waiting')
    <3>1. CASE cb
      <4>1. stack \in Bases
        BY <3>1
      <4> QED
        BY <2>1, <4>1, BaseStack
    <3>2. CASE ~cb
      BY <1>2, <1>4, <2>1, <3>2
    <3> QED
      BY <3>1, <3>2
  <2>3. CASE nq_count >= nq_maxlen /\ ~p.cb
    <3>1. lost' = lost \cup {sent + 1} /\ packets' = packets /\ nq_count' = nq_count
      BY <1>4, <2>1, <2>3 DEF qemu_net_queue_append
    <3>2. Queue(packets, CallOf(stack), CarriedOf(stack), got, lost \cup {sent + 1}, waiting, sent + 1)
      BY <1>1, <1>3, NewLost
    <3>3. waiting' = waiting
      BY <1>2, <2>1, <2>3
    <3>4. Queue(packets', CallOf(stack'), CarriedOf(stack'), got', lost', waiting', sent')
      BY <1>1, <2>1, <3>1, <3>2, <3>3
    <3> QED
      BY <1>2, <1>6, <2>1, <2>2, <3>1, <3>4, Keeps
  <2>4. CASE nq_count < nq_maxlen \/ p.cb
    <3>1. packets' = Append(packets, p) /\ nq_count' = nq_count + 1 /\ lost' = lost
      BY <1>2, <2>1, <2>4, QueueAssumption DEF qemu_net_queue_append
    <3>2. Queue(Append(packets, p), CallOf(stack), CarriedOf(stack), got, lost, waiting \/ p.cb, sent + 1)
      <4>1. /\ CallOf(stack) # "none" => MayOvertake(p)
            /\ p.cb => ~waiting /\ CallOf(stack) = "none"
        BY <1>2, <1>4 DEF InHandler
      <4>2. p.cb \/ Len(packets) < nq_maxlen
        BY <1>2, <2>4
      <4> QED
        BY <1>1, <1>3, <1>4, <1>5, <4>1, <4>2, NewQueued
    <3>3. Queue(packets', CallOf(stack'), CarriedOf(stack'), got', lost', waiting', sent')
      BY <1>1, <2>1, <3>1, <3>2
    <3>4. nq_count' = Len(packets')
      BY <1>2, <1>5, <3>1, AppendProperties
    <3>5. stack' = <<>> => ~qemu_can_send_packet'
      BY <1>2, <1>6, <1>7, <2>1 DEF InHandler
    <3> QED
      BY <1>2, <1>6, <2>1, <2>2, <3>3, <3>4, <3>5, Keeps
  <2> QED
    BY <1>2, <2>3, <2>4, QueueAssumption
<1>8. CASE ~delivering /\ qemu_can_send_packet
  <2>1. stack \in Bases /\ (stack # <<>> => ~waiting) /\ CallOf(stack) = "none"
    <3>1. CallOf(stack) = "none"
      BY <1>2, <1>8
    <3>2. ~InHandler
      BY <1>2, <1>8
    <3> QED
      BY <3>1, <3>2
  <2>2. CASE link_down
    <3>1. /\ stack' = Append(stack, Loop) /\ lost' = lost \cup {sent + 1}
          /\ UNCHANGED <<packets, nq_count, delivering, waiting>>
      BY <1>1, <1>4, <1>8, <2>2 DEF qemu_net_queue_send
    <3>2. CallOf(stack') = "none" /\ stack' # <<>>
      BY <2>1, <3>1, Pushed, Frames
    <3>3. StackOK(stack', waiting')
      BY <2>1, <3>1, Frames DEF StackOK
    <3>4. Queue(packets, "none", CarriedOf(stack'), got, lost \cup {sent + 1}, waiting, sent + 1)
      BY <1>1, <1>3, <2>1, NewLost, NoCall
    <3>5. Queue(packets', CallOf(stack'), CarriedOf(stack'), got', lost', waiting', sent')
      BY <1>1, <3>1, <3>2, <3>4
    <3> QED
      BY <1>2, <1>6, <1>8, <3>1, <3>2, <3>3, <3>5, Keeps
  <2>3. CASE ~link_down
    <3> DEFINE f == [fn |-> "send", packet |-> p]
    <3>1. /\ stack' = Append(stack, f) /\ delivering' = TRUE
          /\ UNCHANGED <<packets, nq_count, lost, waiting>>
      BY <1>1, <1>8, <2>3 DEF qemu_net_queue_send
    <3>2. f \in Frame /\ IsHandler(f) /\ f # Callback /\ f.fn = "send" /\ f.packet = p
      BY <1>5, Frames
    <3> HIDE DEF f
    <3>3. CallOf(stack') = "send" /\ CarriedOf(stack') = p /\ stack' # <<>>
      BY <2>1, <3>1, <3>2, Pushed
    <3>4. StackOK(stack', waiting')
      BY <2>1, <3>1, <3>2 DEF StackOK
    <3>5. Queue(packets, "send", p, got, lost, waiting, sent + 1)
      <4>1. p.cb => ~waiting
        BY <1>4
      <4>2. ~MayOvertake(p) => packets = <<>>
        BY <1>2, <1>4, <1>8
      <4>3. Queue(packets, "none", CarriedOf(stack), got, lost, waiting, sent)
        BY <1>3, <2>1
      <4> QED
        BY <1>1, <1>4, <1>5, <4>1, <4>2, <4>3, NewDirect
    <3>6. Queue(packets', CallOf(stack'), CarriedOf(stack'), got', lost', waiting', sent')
      BY <1>1, <3>1, <3>3, <3>5
    <3> QED
      BY <1>2, <1>6, <3>1, <3>3, <3>4, <3>6, Keeps
  <2> QED
    BY <2>2, <2>3
<1> QED
  BY <1>7, <1>8

(* The three senders.                                                      *)
LEMMA SendersKeep ==
    ASSUME QueueInv, Send \/ SendFromHandler \/ SendFromCallback
    PROVE  QueueInv'
<1>1. CASE Send
  <2>1. PICK cb \in BOOLEAN : stack = <<>> /\ (cb => ~waiting) /\ SendPacket(cb, "outside")
    BY <1>1 DEF Send
  <2>2. ~InHandler /\ stack \in Bases
    BY <2>1 DEF InHandler, Bases
  <2> QED
    BY <2>1, <2>2, SendKeeps
<1>2. CASE SendFromHandler
  BY <1>2, SendKeeps DEF SendFromHandler, InHandler
<1>3. CASE SendFromCallback
  <2>1. stack # <<>> /\ Last(stack) = Callback /\ ~waiting /\ SendPacket(TRUE, "callback")
    BY <1>3 DEF SendFromCallback, InCallback
  <2>2. Front(stack) = <<>> /\ stack = Append(Front(stack), Last(stack))
    BY <2>1, Top DEF QueueInv
  <2>3. stack \in Bases
    BY <2>1, <2>2 DEF Bases
  <2>4. ~InHandler
    BY <2>1, Frames DEF InHandler
  <2> QED
    BY <2>1, <2>3, <2>4, SendKeeps
<1> QED
  BY <1>1, <1>2, <1>3

(* The loop of a flush, or its callback, on a base.                        *)
LEMMA LoopOn ==
    ASSUME NEW base \in Bases, NEW f \in {Loop, Callback}, NEW w, base # <<>> => f = Loop /\ ~w
    PROVE  LET st == Append(base, f)
           IN  StackOK(st, w) /\ CallOf(st) = "none" /\ st # <<>>
<1>1. f \in Frame /\ ~IsHandler(f) /\ Loop # Callback
  BY Frames
<1> QED
  BY <1>1, Pushed DEF StackOK

(* The call in progress.                                                   *)
LEMMA CallInProgress ==
    ASSUME QueueInv, InHandler
    PROVE  /\ Last(stack).fn = CallOf(stack) /\ Last(stack).packet = CarriedOf(stack)
           /\ CallOf(stack) \in {"send", "flush"} /\ CarriedOf(stack) \in Packet
           /\ Front(stack) \in Bases /\ (Front(stack) # <<>> => ~waiting)
<1>1. stack # <<>> /\ IsHandler(Last(stack)) /\ StackOK(stack, waiting)
  BY DEF InHandler, QueueInv
<1>2. Last(stack) \in Frame /\ Front(stack) \in Bases /\ (Front(stack) # <<>> => ~waiting)
  BY <1>1, Top
<1>3. Last(stack).fn \in {"send", "flush"} /\ Last(stack).packet \in Packet
  BY <1>1, <1>2, Frames
<1>4. CallOf(stack) = Last(stack).fn
  BY <1>1 DEF CallOf
<1> QED
  BY <1>2, <1>3, <1>4 DEF CarriedOf

(* The handler returns 0 to qemu_net_queue_send: the packet is queued, or  *)
(* dropped if there is no room.                                            *)
LEMMA ReturnToSend ==
    ASSUME QueueInv, Return(0), CallOf(stack) = "send"
    PROVE  QueueInv'
<1> DEFINE p == CarriedOf(stack)
           q == CarriedOf(stack')
<1>1. InHandler /\ delivering' = FALSE /\ UNCHANGED <<can_receive, link_down, behind, sent>>
  BY DEF Return
<1>2. /\ Last(stack).fn = "send" /\ Last(stack).packet = p
      /\ p \in Packet /\ Front(stack) \in Bases
  BY <1>1, CallInProgress
<1>3. /\ receive_disabled \in BOOLEAN /\ can_receive \in BOOLEAN /\ link_down \in BOOLEAN
      /\ behind \in BOOLEAN /\ waiting \in BOOLEAN
      /\ nq_count = Len(packets) /\ packets \in Seq(Packet) /\ Len(packets) \in Nat
  BY Start
<1>4. Queue(packets, "send", p, got, lost, waiting, sent)
  BY Start
<1>5. /\ got' = got /\ receive_disabled' = TRUE
      /\ qemu_net_queue_append(p) /\ waiting' = (waiting \/ p.cb) /\ stack' = Front(stack)
  <2> HIDE DEF p
  <2>1. got' = got
    BY DEF Return
  <2>2. receive_disabled' = TRUE
    BY DEF Return
  <2>3. qemu_net_queue_append(p) /\ waiting' = (waiting \/ p.cb) /\ stack' = Front(stack)
    BY <1>2 DEF Return
  <2> QED
    BY <2>1, <2>2, <2>3
<1>6. CallOf(stack') = "none" /\ StackOK(stack', waiting')
  BY <1>2, <1>5, BaseStack
<1>7. /\ receive_disabled' \in BOOLEAN /\ can_receive' \in BOOLEAN /\ link_down' \in BOOLEAN
      /\ behind' \in BOOLEAN /\ ~qemu_can_send_packet'
      /\ delivering' = (CallOf(stack') # "none")
  BY <1>1, <1>3, <1>5, <1>6 DEF qemu_can_send_packet
<1> HIDE DEF p, q
<1>8. CASE nq_count >= nq_maxlen /\ ~p.cb
  <2>1. lost' = lost \cup {p.id} /\ packets' = packets /\ nq_count' = nq_count
    BY <1>5, <1>8 DEF qemu_net_queue_append
  <2>2. Queue(packets, "none", q, got, lost \cup {p.id}, waiting /\ ~("send" = "flush" /\ p.cb), sent)
    BY <1>4, Refuse
  <2>3. waiting' = (waiting /\ ~("send" = "flush" /\ p.cb))
    BY <1>3, <1>5, <1>8
  <2>4. Queue(packets', "none", q, got', lost', waiting', sent')
    BY <1>1, <1>5, <2>1, <2>2, <2>3
  <2>5. Queue(packets', CallOf(stack'), CarriedOf(stack'), got', lost', waiting', sent')
    BY <1>6, <2>4 DEF q
  <2> QED
    BY <1>3, <1>6, <1>7, <2>1, <2>5, Keeps
<1>9. CASE nq_count < nq_maxlen \/ p.cb
  <2>1. packets' = Append(packets, p) /\ nq_count' = nq_count + 1 /\ lost' = lost
    BY <1>3, <1>5, <1>9, QueueAssumption DEF qemu_net_queue_append
  <2>2. Queue(Append(packets, p), "none", q, got, lost, waiting \/ p.cb, sent)
    BY <1>3, <1>4, <1>9, Requeue
  <2>3. Queue(packets', "none", q, got', lost', waiting', sent')
    BY <1>1, <1>5, <2>1, <2>2
  <2>4. Queue(packets', CallOf(stack'), CarriedOf(stack'), got', lost', waiting', sent')
    BY <1>6, <2>3 DEF q
  <2>5. nq_count' = Len(packets')
    BY <1>2, <1>3, <2>1, AppendProperties
  <2> QED
    BY <1>6, <1>7, <2>4, <2>5, Keeps
<1> QED
  BY <1>3, <1>8, <1>9, QueueAssumption

(* It returns 0 to qemu_net_queue_flush, which puts the packet back.       *)
LEMMA ReturnToFlush ==
    ASSUME QueueInv, Return(0), CallOf(stack) = "flush"
    PROVE  QueueInv'
<1> DEFINE p == CarriedOf(stack)
           q == CarriedOf(stack')
<1>1. InHandler /\ delivering' = FALSE /\ UNCHANGED <<can_receive, link_down, behind, sent>>
  BY DEF Return
<1>2. /\ Last(stack).fn = "flush" /\ Last(stack).packet = p
      /\ p \in Packet /\ Front(stack) \in Bases
  BY <1>1, CallInProgress
<1>3. /\ receive_disabled \in BOOLEAN /\ can_receive \in BOOLEAN /\ link_down \in BOOLEAN
      /\ behind \in BOOLEAN /\ nq_count = Len(packets)
  BY Start
<1>4. Queue(packets, "flush", p, got, lost, waiting, sent)
  BY Start
<1>5. /\ got' = got /\ receive_disabled' = TRUE
      /\ packets' = <<p>> \o packets /\ nq_count' = nq_count + 1
      /\ stack' = Front(stack) /\ UNCHANGED <<lost, waiting>>
  <2> HIDE DEF p
  <2>1. got' = got
    BY DEF Return
  <2>2. receive_disabled' = TRUE
    BY DEF Return
  <2>3. PutBack(p) /\ stack' = Front(stack) /\ UNCHANGED <<lost, waiting>>
    BY <1>2 DEF Return
  <2> QED
    BY <2>1, <2>2, <2>3 DEF PutBack
<1>6. CallOf(stack') = "none" /\ StackOK(stack', waiting')
  BY <1>2, <1>5, BaseStack
<1>7. /\ receive_disabled' \in BOOLEAN /\ can_receive' \in BOOLEAN /\ link_down' \in BOOLEAN
      /\ behind' \in BOOLEAN /\ ~qemu_can_send_packet'
      /\ delivering' = (CallOf(stack') # "none")
  BY <1>1, <1>3, <1>5, <1>6 DEF qemu_can_send_packet
<1> HIDE DEF p, q
<1>8. /\ Queue(<<p>> \o packets, "none", q, got, lost, waiting, sent)
      /\ Len(<<p>> \o packets) = Len(packets) + 1
  BY <1>4, PutBackHead
<1>9. Queue(packets', "none", q, got', lost', waiting', sent') /\ nq_count' = Len(packets')
  BY <1>1, <1>3, <1>5, <1>8
<1>10. Queue(packets', CallOf(stack'), CarriedOf(stack'), got', lost', waiting', sent')
  BY <1>6, <1>9 DEF q
<1> QED
  BY <1>6, <1>7, <1>9, <1>10, Keeps

(* It accepts the packet or refuses it for good, and the flush goes on, or *)
(* begins.  In a flush that a callback started no packet has a callback.   *)
LEMMA ReturnDone ==
    ASSUME QueueInv, NEW ret \in {1, -1}, Return(ret)
    PROVE  QueueInv'
<1> DEFINE p == CarriedOf(stack)
           fn == CallOf(stack)
           q == CarriedOf(stack')
           w == waiting /\ ~(fn = "flush" /\ p.cb)
           f == IF fn = "flush" /\ p.cb THEN Callback ELSE Loop
<1>1. InHandler /\ delivering' = FALSE /\ UNCHANGED <<can_receive, link_down, behind, sent>>
  BY DEF Return
<1>2. /\ Last(stack).fn = fn /\ Last(stack).packet = p
      /\ fn \in {"send", "flush"} /\ fn # "none"
      /\ p \in Packet /\ Front(stack) \in Bases /\ (Front(stack) # <<>> => ~waiting)
  BY <1>1, CallInProgress
<1>3. /\ receive_disabled \in BOOLEAN /\ can_receive \in BOOLEAN /\ link_down \in BOOLEAN
      /\ behind \in BOOLEAN /\ waiting \in BOOLEAN /\ nq_count = Len(packets)
  BY Start
<1>4. Queue(packets, fn, p, got, lost, waiting, sent)
  BY Start
<1>5. ret # 0 /\ p.cb \in BOOLEAN
  BY <1>2 DEF Packet
<1>6. /\ got' = IF ret = 1 THEN Append(got, p) ELSE got
      /\ receive_disabled' = receive_disabled
      /\ IF fn = "flush" THEN Completed(p)
         ELSE stack' = Append(Front(stack), Loop) /\ waiting' = waiting
      /\ lost' = IF ret = -1 THEN lost \cup {p.id} ELSE lost
      /\ packets' = packets /\ nq_count' = nq_count
  <2> HIDE DEF fn, p
  <2>1. /\ got' = IF ret = 1 THEN Append(got, p) ELSE got
        /\ receive_disabled' = (receive_disabled \/ ret = 0)
        /\ IF fn = "flush" THEN Completed(p)
           ELSE stack' = Append(Front(stack), Loop) /\ waiting' = waiting
        /\ lost' = IF ret = -1 THEN lost \cup {p.id} ELSE lost
        /\ packets' = packets /\ nq_count' = nq_count
    BY <1>2, <1>5 DEF Return
  <2>2. (receive_disabled \/ ret = 0) = receive_disabled
    BY <1>3, <1>5
  <2> QED
    BY <2>1, <2>2
<1> HIDE DEF fn, p, q
<1>7. stack' = Append(Front(stack), f) /\ waiting' = w
  <2>1. CASE fn = "flush"
    BY <1>6, <2>1 DEF Completed
  <2>2. CASE fn # "flush"
    BY <1>3, <1>6, <2>2
  <2> QED
    BY <2>1, <2>2
<1>8. Front(stack) # <<>> => f = Loop /\ ~w
  <2>1. fn = "flush" /\ p.cb => waiting
    BY <1>4 DEF Queue, OneWaiter
  <2> QED
    BY <1>2, <2>1
<1>9. f \in {Loop, Callback} /\ w \in BOOLEAN
  BY <1>5
<1> HIDE DEF f
<1>10. CallOf(stack') = "none" /\ StackOK(stack', waiting') /\ stack' # <<>>
  <2> HIDE DEF w
  <2> QED
    BY <1>2, <1>7, <1>8, <1>9, LoopOn
<1>11. Queue(packets', "none", q, got', lost', waiting', sent')
  <2>1. CASE ret = 1
    <3>1. Queue(packets, "none", q, Append(got, p), lost, w, sent)
      BY <1>2, <1>4, Accept
    <3>2. got' = Append(got, p) /\ lost' = lost
      BY <1>6, <2>1
    <3> HIDE DEF w
    <3> QED
      BY <1>1, <1>6, <1>7, <3>1, <3>2
  <2>2. CASE ret = -1
    <3>1. Queue(packets, "none", q, got, lost \cup {p.id}, w, sent)
      <4>1. fn # "none"
        BY <1>2
      <4> QED
        BY ONLY <1>4, <4>1, Refuse, ZenonT(20)
    <3>2. got' = got /\ lost' = lost \cup {p.id}
      BY <1>6, <2>2
    <3> HIDE DEF w
    <3> QED
      BY <1>1, <1>6, <1>7, <3>1, <3>2
  <2> QED
    BY <2>1, <2>2
<1>12. Queue(packets', CallOf(stack'), CarriedOf(stack'), got', lost', waiting', sent')
  BY <1>10, <1>11 DEF q
<1>13. /\ receive_disabled' \in BOOLEAN /\ can_receive' \in BOOLEAN /\ link_down' \in BOOLEAN
       /\ behind' \in BOOLEAN /\ nq_count' = Len(packets')
       /\ delivering' = (CallOf(stack') # "none")
  BY <1>1, <1>3, <1>6, <1>10
<1> QED
  BY <1>10, <1>12, <1>13, Keeps

(* One round of the flush loop.                                            *)
LEMMA FlushRoundKeeps ==
    ASSUME QueueInv, FlushRound
    PROVE  QueueInv'
<1> DEFINE p == Head(packets)
           q == CarriedOf(stack')
<1>1. /\ stack # <<>> /\ Last(stack) = Loop /\ behind' = FALSE
      /\ UNCHANGED <<receive_disabled, can_receive, link_down, sent, got>>
  BY DEF FlushRound
<1>2. /\ StackOK(stack, waiting)
      /\ receive_disabled \in BOOLEAN /\ can_receive \in BOOLEAN /\ link_down \in BOOLEAN
      /\ waiting \in BOOLEAN /\ nq_count = Len(packets) /\ Len(packets) \in Nat
      /\ delivering = (CallOf(stack) # "none")
  BY Start
<1>3. Front(stack) \in Bases /\ (Front(stack) # <<>> => ~waiting)
  BY <1>1, <1>2, Top
<1>4. CallOf(stack) = "none"
  BY <1>1, Frames DEF CallOf
<1>5. Queue(packets, "none", CarriedOf(stack), got, lost, waiting, sent)
  BY <1>4, Start
<1>6. /\ receive_disabled' \in BOOLEAN /\ can_receive' \in BOOLEAN /\ link_down' \in BOOLEAN
      /\ behind' \in BOOLEAN /\ qemu_can_send_packet' = qemu_can_send_packet
  BY <1>1, <1>2 DEF qemu_can_send_packet
<1> HIDE DEF p, q
<1>7. CASE /\ packets = <<>> \/ (receive_disabled /\ ~link_down)
           /\ stack' = Front(stack)
           /\ UNCHANGED <<packets, nq_count, delivering, waiting, lost>>
  <2>1. CallOf(stack') = "none" /\ StackOK(stack', waiting')
    BY <1>3, <1>7, BaseStack
  <2>2. Queue(packets, "none", q, got, lost, waiting, sent)
    BY <1>5, NoCall
  <2>3. Queue(packets', CallOf(stack'), CarriedOf(stack'), got', lost', waiting', sent')
    BY <1>1, <1>7, <2>1, <2>2 DEF q
  <2>4. qemu_can_send_packet' => packets' = <<>>
    BY <1>6, <1>7 DEF qemu_can_send_packet
  <2>5. nq_count' = Len(packets') /\ delivering' = (CallOf(stack') # "none")
    BY <1>2, <1>4, <1>7, <2>1
  <2> QED
    BY <1>6, <2>1, <2>3, <2>4, <2>5, Keeps
<1>8. packets # <<>> => /\ Queue(Tail(packets), "flush", p, got, lost, waiting, sent)
                        /\ Len(Tail(packets)) = Len(packets) - 1
                        /\ p \in Packet /\ p.cb \in BOOLEAN /\ (p.cb => waiting)
  <2> SUFFICES ASSUME packets # <<>>
               PROVE  /\ Queue(Tail(packets), "flush", p, got, lost, waiting, sent)
                      /\ Len(Tail(packets)) = Len(packets) - 1
                      /\ p \in Packet /\ p.cb \in BOOLEAN /\ (p.cb => waiting)
    OBVIOUS
  <2>1. /\ Queue(Tail(packets), "flush", p, got, lost, waiting, sent)
        /\ Len(Tail(packets)) = Len(packets) - 1
    BY <1>5, TakeHead DEF p
  <2>2. p \in Packet /\ (p.cb => waiting)
    BY <2>1 DEF Queue, OneWaiter
  <2>3. p.cb \in BOOLEAN
    BY <2>2 DEF Packet
  <2> QED
    BY <2>1, <2>2, <2>3
<1>9. CASE /\ packets # <<>> /\ link_down
           /\ packets' = Tail(packets) /\ nq_count' = nq_count - 1
           /\ lost' = lost \cup {p.id}
           /\ Completed(p)
           /\ delivering' = FALSE
  <2> DEFINE f == IF p.cb THEN Callback ELSE Loop
             w == waiting /\ ~p.cb
  <2>1. stack' = Append(Front(stack), f) /\ waiting' = w
    BY <1>9 DEF Completed
  <2>2. f \in {Loop, Callback} /\ (Front(stack) # <<>> => f = Loop /\ ~w)
    BY <1>3, <1>8, <1>9
  <2>3. Queue(Tail(packets), "none", q, got, lost \cup {p.id}, w, sent)
    <3>1. Queue(Tail(packets), "none", q, got, lost \cup {p.id},
                waiting /\ ~("flush" = "flush" /\ p.cb), sent)
      BY <1>8, <1>9, Refuse
    <3>2. (waiting /\ ~("flush" = "flush" /\ p.cb)) = w
      BY <1>2, <1>8, <1>9
    <3> HIDE DEF w
    <3> QED
      BY <3>1, <3>2
  <2> HIDE DEF f, w
  <2>4. CallOf(stack') = "none" /\ StackOK(stack', waiting') /\ stack' # <<>>
    BY <1>3, <2>1, <2>2, LoopOn
  <2>5. Queue(packets', CallOf(stack'), CarriedOf(stack'), got', lost', waiting', sent')
    BY <1>1, <1>9, <2>1, <2>3, <2>4 DEF q
  <2>6. nq_count' = Len(packets') /\ delivering' = (CallOf(stack') # "none")
    BY <1>2, <1>8, <1>9, <2>4
  <2> QED
    BY <1>6, <2>4, <2>5, <2>6, Keeps
<1>10. CASE /\ packets # <<>> /\ ~link_down /\ ~receive_disabled
            /\ packets' = Tail(packets) /\ nq_count' = nq_count - 1
            /\ stack' = Append(Front(stack), [fn |-> "flush", packet |-> p])
            /\ delivering' = TRUE
            /\ UNCHANGED <<waiting, lost>>
  <2> DEFINE f == [fn |-> "flush", packet |-> p]
  <2>1. f \in Frame /\ IsHandler(f) /\ f # Callback /\ f.fn = "flush" /\ f.packet = p
    BY <1>8, <1>10, Frames
  <2>2. stack' = Append(Front(stack), f)
    BY <1>10
  <2> HIDE DEF f
  <2>3. CallOf(stack') = "flush" /\ CarriedOf(stack') = p /\ stack' # <<>>
    BY <1>3, <2>1, <2>2, Pushed
  <2>4. StackOK(stack', waiting')
    BY <1>3, <1>10, <2>1, <2>2 DEF StackOK
  <2>5. Queue(packets', CallOf(stack'), CarriedOf(stack'), got', lost', waiting', sent')
    BY <1>1, <1>8, <1>10, <2>3
  <2>6. nq_count' = Len(packets') /\ delivering' = (CallOf(stack') # "none")
    BY <1>2, <1>8, <1>10, <2>3
  <2> QED
    BY <1>6, <2>3, <2>4, <2>5, <2>6, Keeps
<1> QED
  BY <1>7, <1>9, <1>10 DEF FlushRound, p

(* A callback returns to the loop; or the receiver becomes able, flushes,  *)
(* becomes unable, or its link changes.                                    *)
LEMMA ReceiverKeeps ==
    ASSUME QueueInv, CallbackReturns \/ BecomeAble \/ Flush \/ Disable \/ SetLink
    PROVE  QueueInv'
<1> DEFINE q == CarriedOf(stack')
<1>1. /\ StackOK(stack, waiting)
      /\ receive_disabled \in BOOLEAN /\ can_receive \in BOOLEAN /\ link_down \in BOOLEAN
      /\ behind \in BOOLEAN /\ nq_count = Len(packets)
      /\ delivering = (CallOf(stack) # "none")
      /\ stack = <<>> /\ qemu_can_send_packet /\ ~behind => packets = <<>>
  BY Start
<1>2. Queue(packets, CallOf(stack), CarriedOf(stack), got, lost, waiting, sent)
  BY Start
<1>3. UNCHANGED <<packets, nq_count, delivering, waiting, sent, got, lost>>
  BY DEF CallbackReturns, BecomeAble, Flush, Disable, SetLink
<1>4. /\ receive_disabled' \in BOOLEAN /\ can_receive' \in BOOLEAN /\ link_down' \in BOOLEAN
      /\ behind' \in BOOLEAN /\ nq_count' = Len(packets')
  BY <1>1, <1>3 DEF CallbackReturns, BecomeAble, Flush, Disable, SetLink
<1> HIDE DEF q
<1>5. CASE CallbackReturns \/ Flush
  <2>1. PICK base \in Bases : stack' = Append(base, Loop) /\ (base # <<>> => ~waiting)
    <3>1. CASE CallbackReturns
      BY <1>1, <3>1, Top DEF CallbackReturns, InCallback
    <3>2. CASE Flush
      <4>1. stack' = Append(<<>>, Loop) /\ <<>> \in Bases
        BY <3>2 DEF Flush, Bases
      <4> QED
        BY <4>1
    <3> QED
      BY <1>5, <3>1, <3>2
  <2>2. CallOf(stack') = "none" /\ StackOK(stack', waiting') /\ stack' # <<>>
    <3>1. base # <<>> => Loop = Loop /\ ~waiting'
      BY <1>3, <2>1
    <3>2. Loop \in {Loop, Callback}
      OBVIOUS
    <3> QED
      BY <2>1, <3>1, <3>2, LoopOn
  <2>3. CallOf(stack) = "none"
    BY <1>5, Frames DEF CallbackReturns, InCallback, Flush, CallOf
  <2>4. Queue(packets, "none", q, got, lost, waiting, sent)
    BY <1>2, <2>3, NoCall
  <2>5. Queue(packets', CallOf(stack'), CarriedOf(stack'), got', lost', waiting', sent')
    BY <1>3, <2>2, <2>4 DEF q
  <2>6. delivering' = (CallOf(stack') # "none")
    BY <1>1, <1>3, <2>2, <2>3
  <2> QED
    BY <1>4, <2>2, <2>5, <2>6, Keeps
<1>6. CASE BecomeAble \/ Disable \/ SetLink
  <2>1. stack' = stack
    BY <1>6 DEF BecomeAble, Disable, SetLink
  <2>2. stack' = <<>> /\ qemu_can_send_packet' /\ ~behind' => packets' = <<>>
    <3>1. CASE BecomeAble
      BY <3>1 DEF BecomeAble
    <3>2. CASE Disable
      BY <3>2 DEF Disable, qemu_can_send_packet
    <3>3. CASE SetLink
      BY <1>1, <3>3 DEF SetLink, qemu_can_send_packet
    <3> QED
      BY <1>6, <3>1, <3>2, <3>3
  <2>3. Queue(packets', CallOf(stack'), CarriedOf(stack'), got', lost', waiting', sent')
    BY <1>2, <1>3, <2>1
  <2>4. StackOK(stack', waiting') /\ delivering' = (CallOf(stack') # "none")
    BY <1>1, <1>3, <2>1
  <2> QED
    BY <1>4, <2>2, <2>3, <2>4, Keeps
<1> QED
  BY <1>5, <1>6

(* A step of nothing here.                                                 *)
LEMMA StutterKeeps ==
    ASSUME QueueInv, UNCHANGED vars
    PROVE  QueueInv'
<1>1. InHandler' = InHandler /\ qemu_can_send_packet' = qemu_can_send_packet
  BY DEF vars, InHandler, qemu_can_send_packet
<1>2. Queue(packets, CallOf(stack), CarriedOf(stack), got, lost, waiting, sent)'
  BY DEF QueueInv, vars
<1>3. StackOK(stack, waiting)'
  BY DEF QueueInv, vars
<1> QED
  BY <1>1, <1>2, <1>3 DEF QueueInv, vars

(* QueueInv is invariant.                                                  *)
THEOREM QueueInvariant == Spec => []QueueInv
<1>1. Init => QueueInv
  BY InitQueueInv
<1>2. QueueInv /\ [Next]_vars => QueueInv'
  <2> SUFFICES ASSUME QueueInv, [Next]_vars PROVE QueueInv'
    OBVIOUS
  <2>1. CASE Send \/ SendFromHandler \/ SendFromCallback
    BY <2>1, SendersKeep
  <2>2. CASE Returns
    <3>1. PICK ret \in {1, 0, -1} : Return(ret)
      BY <2>2 DEF Returns
    <3>2. CASE ret = 0
      <4>1. InHandler
        BY <3>1 DEF Return
      <4> QED
        BY <3>1, <3>2, <4>1, CallInProgress, ReturnToSend, ReturnToFlush
    <3>3. CASE ret \in {1, -1}
      BY <3>1, <3>3, ReturnDone
    <3> QED
      BY <3>2, <3>3
  <2>3. CASE FlushRound
    BY <2>3, FlushRoundKeeps
  <2>4. CASE CallbackReturns \/ BecomeAble \/ Flush \/ Disable \/ SetLink
    BY <2>4, ReceiverKeeps
  <2>5. CASE UNCHANGED vars
    BY <2>5, StutterKeeps
  <2> QED
    BY <2>1, <2>2, <2>3, <2>4, <2>5 DEF Next
<1> QED
  BY <1>1, <1>2, PTL DEF Spec

-----------------------------------------------------------------------------
(* The theorems                                                            *)

(* Only the innermost call can be one of the handler.                      *)
LEMMA HandlerOnTop ==
    ASSUME QueueInv
    PROVE  /\ InHandler => Handlers = {Len(stack)} /\ Last(stack) = stack[Len(stack)]
           /\ ~InHandler => Handlers = {}
           /\ InHandler <=> CallOf(stack) # "none"
           /\ stack # <<>> => /\ Len(stack) \in {1, 2} /\ DOMAIN stack = 1..Len(stack)
                              /\ Len(stack) = 2 => /\ stack[1] = Callback
                                                   /\ stack[2] # Callback
<1>1. InHandler <=> CallOf(stack) # "none"
  BY DEF InHandler, CallOf, IsHandler
<1>2. CASE stack = <<>>
  <2>1. DOMAIN stack = {} /\ ~InHandler
    BY <1>2 DEF InHandler
  <2> QED
    BY <1>1, <1>2, <2>1 DEF Handlers
<1>3. CASE stack # <<>>
  <2>1. PICK base \in Bases, f \in Frame : /\ stack = Append(base, f)
                                           /\ base # <<>> => f # Callback /\ ~waiting
    BY <1>3 DEF QueueInv, StackOK
  <2>2. /\ Last(stack) = f /\ Len(stack) \in {1, 2} /\ DOMAIN stack = 1..Len(stack)
        /\ stack[Len(stack)] = f
        /\ Len(stack) = 2 <=> base # <<>>
        /\ base # <<>> => stack[1] = Callback
    BY <2>1, Pushed
  <2>3. InHandler <=> IsHandler(f)
    BY <1>3, <2>2 DEF InHandler
  <2>4. Handlers = IF IsHandler(f) THEN {Len(stack)} ELSE {}
    <3>1. CASE Len(stack) = 1
      <4>1. DOMAIN stack = {1} /\ stack[1] = f
        BY <2>2, <3>1
      <4> QED
        BY <3>1, <4>1 DEF Handlers
    <3>2. CASE Len(stack) = 2
      <4>1. DOMAIN stack = {1, 2} /\ stack[2] = f /\ ~IsHandler(stack[1])
        BY <2>2, <3>2, Frames
      <4> QED
        BY <3>2, <4>1 DEF Handlers
    <3> QED
      BY <2>2, <3>1, <3>2
  <2> QED
    BY <1>1, <2>1, <2>2, <2>3, <2>4
<1> QED
  BY <1>2, <1>3

(* A handler that sends while it runs never has itself called again, and   *)
(* neither has the callback: the delivering flag is set exactly while the  *)
(* handler runs, around every way out of qemu_deliver_packet and           *)
(* qemu_net_queue_flush, and the flush that a callback's packet starts     *)
(* meets no packet with a callback.                                        *)
THEOREM NotReentered == Spec => []HandlerNotReentered
<1>1. ASSUME QueueInv PROVE HandlerNotReentered
  <2>1. delivering <=> InHandler
    BY <1>1 DEF QueueInv
  <2>2. CASE stack = <<>>
    <3>1. DOMAIN stack = {} /\ Len(stack) = 0
      BY <2>2
    <3> QED
      BY <2>1, <3>1 DEF HandlerNotReentered
  <2>3. CASE stack # <<>>
    <3>1. /\ Len(stack) \in {1, 2} /\ DOMAIN stack = 1..Len(stack)
          /\ Len(stack) = 2 => stack[1] = Callback /\ stack[2] # Callback
          /\ Handlers \subseteq {Len(stack)}
      BY <1>1, <2>3, HandlerOnTop
    <3>2. \A i \in DOMAIN stack : IsHandler(stack[i]) => i = Len(stack)
      BY <3>1 DEF Handlers
    <3>3. Len(stack) <= 2 /\ \A i \in DOMAIN stack : stack[i] = Callback => i = 1
      BY <3>1
    <3> QED
      BY <2>1, <3>2, <3>3 DEF HandlerNotReentered
  <2> QED
    BY <2>2, <2>3
<1> QED
  BY <1>1, QueueInvariant, PTL

(* Whatever is refused, put back, or sent by handlers and callbacks        *)
(* meanwhile, a packet reaches the receiver after all those sent before    *)
(* it, except one that a handler or a callback sent and one sent while the *)
(* receiver was able and had not flushed.                                  *)
THEOREM OrderKept == Spec => []DeliveredInOrder
<1>1. QueueInv => DeliveredInOrder
  BY DEF QueueInv, Queue, InOrder, DeliveredInOrder
<1> QED
  BY <1>1, QueueInvariant, PTL

(* nq_count is the length of the list, and the list exceeds nq_maxlen by   *)
(* no more than the waiting sender's packet and the one put back.          *)
THEOREM Bounded == Spec => []QueueBounded
<1>1. ASSUME QueueInv PROVE QueueBounded
  <2>1. /\ Room(packets, CallOf(stack), waiting) /\ packets \in Seq(Packet)
        /\ nq_count = Len(packets)
    BY <1>1 DEF QueueInv, Queue
  <2>2. Len(packets) \in Nat
    BY <2>1, PacketSeq
  <2> QED
    BY <2>1, <2>2, QueueAssumption DEF Room, QueueBounded
<1> QED
  BY <1>1, QueueInvariant, PTL

(* The sender that got 0 waits exactly as long as its packet is queued or  *)
(* with the handler that flushes it.                                       *)
THEOREM WaiterServed == Spec => []WaiterHasPacket
<1>1. ASSUME QueueInv PROVE WaiterHasPacket
  <2>1. OneWaiter(packets, CallOf(stack), CarriedOf(stack), waiting) /\ waiting \in BOOLEAN
    BY <1>1 DEF QueueInv, Queue
  <2>2. /\ InHandler => Handlers = {Len(stack)} /\ Last(stack) = stack[Len(stack)]
        /\ ~InHandler => Handlers = {}
        /\ InHandler <=> CallOf(stack) # "none"
    BY <1>1, HandlerOnTop
  <2>3. (\E i \in DOMAIN stack : stack[i].fn = "flush" /\ stack[i].packet.cb)
            <=> CallOf(stack) = "flush" /\ CarriedOf(stack).cb
    <3>1. \A i \in DOMAIN stack : stack[i].fn = "flush" => i \in Handlers
      BY DEF Handlers, IsHandler
    <3>2. CASE ~InHandler
      BY <2>2, <3>1, <3>2
    <3>3. CASE InHandler
      <4>1. CallOf(stack) = stack[Len(stack)].fn /\ CarriedOf(stack) = stack[Len(stack)].packet
        BY <2>2, <3>3 DEF CallOf, CarriedOf, InHandler
      <4>2. Len(stack) \in DOMAIN stack
        BY <2>2, <3>3 DEF Handlers
      <4> QED
        BY <2>2, <3>1, <3>3, <4>1, <4>2
    <3> QED
      BY <3>2, <3>3
  <2> QED
    BY <2>1, <2>3 DEF OneWaiter, WaiterHasPacket
<1> QED
  BY <1>1, QueueInvariant, PTL

(* Packets with different numbers are as many as their numbers.            *)
LEMMA CountIds ==
    ASSUME NEW ps \in Seq(Packet), \A i, j \in DOMAIN ps : ps[i].id = ps[j].id => i = j
    PROVE  IsFiniteSet(Ids(ps)) /\ Cardinality(Ids(ps)) = Len(ps)
<1> DEFINE D == 1..Len(ps)
           f == [i \in D |-> ps[i].id]
<1>1. Len(ps) \in Nat /\ DOMAIN ps = D
  BY PacketSeq
<1>2. IsFiniteSet(D) /\ Cardinality(D) = Len(ps)
  <2>1. IsFiniteSet(D) /\ Cardinality(D) = IF 1 > Len(ps) THEN 0 ELSE Len(ps) - 1 + 1
    BY <1>1, FS_Interval
  <2> QED
    BY <1>1, <2>1
<1> HIDE DEF D
<1>3. f \in [D -> Ids(ps)]
  BY <1>1 DEF Ids
<1>4. \A k \in Ids(ps) : \E i \in D : f[i] = k
  BY <1>1 DEF Ids
<1>5. IsInjective(f)
  BY <1>1 DEF IsInjective
<1>6. f \in Surjection(D, Ids(ps)) /\ f \in Injection(D, Ids(ps))
  BY <1>3, <1>4, <1>5 DEF Surjection, Injection
<1> HIDE DEF f
<1> QED
  BY <1>2, <1>6, FS_Surjection

(* Two finite sets without a common element.                               *)
LEMMA CountDisjoint ==
    ASSUME NEW S, NEW T, IsFiniteSet(S), IsFiniteSet(T), S \cap T = {}
    PROVE  /\ IsFiniteSet(S \cup T)
           /\ Cardinality(S \cup T) = Cardinality(S) + Cardinality(T)
           /\ Cardinality(S) \in Nat /\ Cardinality(T) \in Nat
<1>1. Cardinality(S) \in Nat /\ Cardinality(T) \in Nat
  BY FS_CardinalityType
<1>2. Cardinality(S \cap T) = 0
  BY FS_EmptySet
<1>3. /\ IsFiniteSet(S \cup T)
      /\ Cardinality(S \cup T) = Cardinality(S) + Cardinality(T) - Cardinality(S \cap T)
  BY FS_Union
<1> QED
  BY <1>1, <1>2, <1>3

(* No packet is lost from sight or counted twice: the numbers in use are   *)
(* those of the queue, of the call in progress, of the accepted packets    *)
(* and of the dropped ones, and these four do not overlap.                 *)
THEOREM PacketsConserved == Spec => []Conserved
<1>1. ASSUME QueueInv PROVE Conserved
  <2>0. Queue(packets, CallOf(stack), CarriedOf(stack), got, lost, waiting, sent)
    BY <1>1 DEF QueueInv
  <2>1. /\ packets \in Seq(Packet) /\ got \in Seq(Packet) /\ sent \in Nat /\ lost \subseteq 1..sent
        /\ Places(packets, CallOf(stack), CarriedOf(stack), got, lost, sent)
    BY <2>0, QueueAssumption DEF Queue
  <2> DEFINE A == Ids(packets)
             B == InFlight
             C == Ids(got)
             h == Cardinality(Handlers)
  <2>2. /\ InHandler => Handlers = {Len(stack)} /\ Last(stack) = stack[Len(stack)]
        /\ ~InHandler => Handlers = {}
        /\ InHandler <=> CallOf(stack) # "none"
    BY <1>1, HandlerOnTop
  <2>3. /\ \A k : k \in B <=> CallOf(stack) # "none" /\ CarriedOf(stack).id = k
        /\ IsFiniteSet(B) /\ Cardinality(B) = h /\ h \in Nat
    <3>1. CASE ~InHandler
      <4>1. B = {} /\ h = 0 /\ CallOf(stack) = "none"
        BY <2>2, <3>1, FS_EmptySet DEF InFlight
      <4>2. IsFiniteSet(B) /\ Cardinality(B) = 0
        BY <4>1, FS_EmptySet
      <4> QED
        BY <4>1, <4>2
    <3>2. CASE InHandler
      <4>1. B = {CarriedOf(stack).id}
        BY <2>2, <3>2 DEF InFlight, CarriedOf
      <4>2. h = 1
        BY <2>2, <3>2, FS_Singleton
      <4>3. IsFiniteSet(B) /\ Cardinality(B) = 1
        BY <4>1, FS_Singleton
      <4>4. \A k : k \in B <=> CallOf(stack) # "none" /\ CarriedOf(stack).id = k
        BY <2>2, <3>2, <4>1
      <4> QED
        BY <4>2, <4>3, <4>4
    <3> QED
      BY <3>1, <3>2
  <2>4. /\ IsFiniteSet(A) /\ Cardinality(A) = Len(packets)
        /\ IsFiniteSet(C) /\ Cardinality(C) = Len(got)
    BY <2>1, CountIds DEF Places
  <2>5. IsFiniteSet(1..sent) /\ Cardinality(1..sent) = sent
    <3>1. IsFiniteSet(1..sent) /\ Cardinality(1..sent) = IF 1 > sent THEN 0 ELSE sent - 1 + 1
      BY <2>1, FS_Interval
    <3> QED
      BY <2>1, <3>1
  <2>6. IsFiniteSet(lost)
    BY <2>1, <2>5, FS_Subset
  <2>7. /\ \A k : k \in A <=> \E i \in DOMAIN packets : packets[i].id = k
        /\ \A k : k \in C <=> \E i \in DOMAIN got : got[i].id = k
    BY DEF Ids
  <2> HIDE DEF A, B, C, h
  <2>8. \A k : k \in 1..sent <=> k \in A \/ k \in B \/ k \in C \/ k \in lost
    BY <2>1, <2>3, <2>7 DEF Places
  <2>9. A \cap B = {} /\ A \cap C = {} /\ B \cap C = {}
    <3>1. A \cap B = {}
      BY <2>1, <2>3, <2>7 DEF Places
    <3>2. A \cap C = {}
      BY <2>1, <2>7 DEF Places
    <3>3. B \cap C = {}
      BY <2>1, <2>3, <2>7 DEF Places
    <3> QED
      BY <3>1, <3>2, <3>3
  <2>10. A \cap lost = {} /\ B \cap lost = {} /\ C \cap lost = {}
    <3>1. A \cap lost = {}
      BY <2>1, <2>7 DEF Places
    <3>2. B \cap lost = {}
      BY <2>1, <2>3 DEF Places
    <3>3. C \cap lost = {}
      BY <2>1, <2>7 DEF Places
    <3> QED
      BY <3>1, <3>2, <3>3
  <2>11. 1..sent = A \cup B \cup C \cup lost
    BY <2>8
  <2>12. sent = Len(packets) + h + Len(got) + Cardinality(lost)
    <3>1. /\ IsFiniteSet(A \cup B)
          /\ Cardinality(A \cup B) = Len(packets) + h
      BY <2>3, <2>4, <2>9, CountDisjoint
    <3>2. (A \cup B) \cap C = {}
      BY <2>9
    <3>3. /\ IsFiniteSet(A \cup B \cup C)
          /\ Cardinality(A \cup B \cup C) = Len(packets) + h + Len(got)
      <4>1. /\ IsFiniteSet(A \cup B \cup C)
            /\ Cardinality(A \cup B \cup C) = Cardinality(A \cup B) + Cardinality(C)
        BY <2>4, <3>1, <3>2, CountDisjoint
      <4> QED
        BY <2>4, <3>1, <4>1
    <3>4. (A \cup B \cup C) \cap lost = {}
      BY <2>10
    <3>5. Cardinality(A \cup B \cup C \cup lost)
            = Len(packets) + h + Len(got) + Cardinality(lost)
      BY <2>6, <3>3, <3>4, CountDisjoint
    <3> QED
      BY <2>5, <2>11, <3>5
  <2> QED
    BY <2>11, <2>12 DEF Conserved, A, B, C, h
<1> QED
  BY <1>1, QueueInvariant, PTL
=============================================================================
