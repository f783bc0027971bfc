---------------------------- MODULE E1000Tx_proofs ----------------------------
(***************************************************************************)
(* Proofs about E1000Tx, for every size of the ring, every set of kinds of *)
(* packets and every width of the statistics registers.                    *)
(***************************************************************************)
EXTENDS E1000Tx, E1000Common_proofs, FiniteSetTheorems, SequenceTheorems

(* The index that lies i steps after c on the ring, and the steps from c   *)
(* to k.                                                                   *)
At(c, i) == (c + i) % N
Dist(k, c) == (k + N - c) % N

Indexes == 0..(N - 1)
Words == 0..(2 ^ W - 1)
Byte == Nat \X Nat

TxDesc ==
    [type : {"context", "data", "legacy"}, bytes : Seq(Byte), EOP : BOOLEAN, RS : BOOLEAN,
     TSE : BOOLEAN, VLE : BOOLEAN, TXSM : BOOLEAN, IDE : BOOLEAN, DD : BOOLEAN,
     special : Nat, hdr_len : Nat, mss : Nat, paylen : Nat]

TxPart ==
    [data : Seq(Byte), header : Seq(Byte), hdr_len : Nat, mss : Nat, paylen : Nat,
     tso_frames : Nat, sum_needed : BOOLEAN, tse : BOOLEAN, cptse : BOOLEAN,
     vlan_needed : BOOLEAN, vlan_header : Nat]

WireFrame == [bytes : Seq(Byte), seq : Nat, fin : BOOLEAN, sum : BOOLEAN, vlan : Nat]

TxState ==
    [TCTL_EN : BOOLEAN, TDH : Indexes, TDT : Indexes, tx : TxPart, irq : IrqState,
     TPT : Words, GPTC : Words, TOTL : Words, TOTH : Words,
     ring : [Indexes -> TxDesc], wire : Seq(WireFrame)]

(* The head is between the driver's index c and the tail, and every        *)
(* descriptor reported done is behind the head.                            *)
Placed(ring, tdh, tdt, c) ==
    /\ Dist(tdh, c) <= Dist(tdt, c)
    /\ \A k \in Indexes : ring[k].DD => Dist(k, c) < Dist(tdh, c)

(* A driver that is not reclaiming has a cause to start for what is done.  *)
Told(icr, ring, reap) == (\E k \in Indexes : ring[k].DD) /\ ~reap => "TXDW" \in icr

(* The ring as the driver and the device share it, whatever is in the      *)
(* descriptors.                                                            *)
Shared(d, c, reap) ==
    /\ d \in TxState /\ c \in Indexes /\ reap \in BOOLEAN
    /\ Placed(d.ring, d.TDH, d.TDT, c)
    /\ Told(d.irq.ICR, d.ring, reap)

Fresh(list) == list \in Seq(TxDesc) /\ \A i \in 1..Len(list) : ~list[i].DD

RingInv ==
    /\ Shared(s, clean, reaping)
    /\ Fresh(todo)
    /\ posted \in Seq(Kinds)

-----------------------------------------------------------------------------
(* The ring                                                                *)

(* An index that has passed the end of the ring is taken back once.        *)
LEMMA RingMod ==
    ASSUME NEW x \in 0..(2 * N - 1)
    PROVE  x % N = IF x < N THEN x ELSE x - N
<1>0. N \in Nat /\ N > 1
  BY TxAssumption
<1> QED
  BY <1>0

(* Stepping around the ring.                                               *)
LEMMA AtIs ==
    ASSUME NEW c \in Indexes, NEW i \in 0..N
    PROVE  At(c, i) \in Indexes /\ At(c, i) = IF c + i < N THEN c + i ELSE c + i - N
<1>0. N \in Nat /\ N > 1
  BY TxAssumption
<1>1. c + i \in 0..(2 * N - 1)
  BY <1>0 DEF Indexes
<1>2. At(c, i) = IF c + i < N THEN c + i ELSE c + i - N
  <2>1. \A x \in 0..(2 * N - 1) : x % N = IF x < N THEN x ELSE x - N
    BY RingMod
  <2> QED
    BY <1>0, <1>1, <2>1 DEF At, Indexes
<1> QED
  BY <1>0, <1>2 DEF Indexes

(* Counting the steps between two indexes.                                 *)
LEMMA DistIs ==
    ASSUME NEW k \in Indexes, NEW c \in Indexes
    PROVE  /\ Dist(k, c) = IF k < c THEN k + N - c ELSE k - c
           /\ Dist(k, c) \in Indexes
           /\ At(c, Dist(k, c)) = k
<1>0. N \in Nat /\ N > 1
  BY TxAssumption
<1>1. k + N - c \in 0..(2 * N - 1)
  BY <1>0 DEF Indexes
<1>2. Dist(k, c) = IF k < c THEN k + N - c ELSE k - c
  BY <1>0, <1>1, RingMod DEF Dist, Indexes
<1>3. Dist(k, c) \in Indexes /\ Dist(k, c) \in 0..N
  BY <1>0, <1>2 DEF Indexes
<1>4. At(c, Dist(k, c)) = k
  <2>1. At(c, Dist(k, c)) = IF c + Dist(k, c) < N THEN c + Dist(k, c) ELSE c + Dist(k, c) - N
    BY <1>3, AtIs
  <2> QED
    BY <1>0, <1>2, <2>1 DEF Indexes
<1> QED
  BY <1>2, <1>3, <1>4

(* The two are inverse to each other.                                      *)
LEMMA DistAt ==
    ASSUME NEW c \in Indexes, NEW i \in Indexes
    PROVE  Dist(At(c, i), c) = i
<1>0. N \in Nat /\ N > 1
  BY TxAssumption
<1>1. i \in 0..N
  BY <1>0 DEF Indexes
<1>2. At(c, i) \in Indexes /\ At(c, i) = IF c + i < N THEN c + i ELSE c + i - N
  BY <1>1, AtIs
<1>3. Dist(At(c, i), c) = IF At(c, i) < c THEN At(c, i) + N - c ELSE At(c, i) - c
  BY <1>2, DistIs
<1> QED
  BY <1>0, <1>2, <1>3 DEF Indexes

(* Distances from one index, seen from another.                            *)
LEMMA DistFrom ==
    ASSUME NEW k \in Indexes, NEW r \in Indexes, NEW c \in Indexes
    PROVE  Dist(k, r) = IF Dist(k, c) < Dist(r, c) THEN N + Dist(k, c) - Dist(r, c)
                        ELSE Dist(k, c) - Dist(r, c)
<1>0. N \in Nat /\ N > 1
  BY TxAssumption
<1>1. /\ Dist(k, r) = IF k < r THEN k + N - r ELSE k - r
      /\ Dist(k, c) = IF k < c THEN k + N - c ELSE k - c
      /\ Dist(r, c) = IF r < c THEN r + N - c ELSE r - c
  BY DistIs
<1> QED
  BY <1>0, <1>1 DEF Indexes

(* The free descriptors, and the tail once n of them are used.             *)
LEMMA FreeIs ==
    ASSUME NEW c \in Indexes, NEW t \in Indexes, NEW n \in Nat, n > 0, n <= (c + N - t - 1) % N
    PROVE  n \in Indexes /\ Dist(t, c) + n < N /\ Dist(At(t, n), c) = Dist(t, c) + n
<1>0. N \in Nat /\ N > 1 /\ c \in 0..(N - 1) /\ t \in 0..(N - 1)
  BY TxAssumption DEF Indexes
<1> DEFINE x == c + N - t - 1
           y == Dist(t, c)
           z == At(t, n)
<1>1. x \in 0..(2 * N - 1) /\ x = c + N - t - 1
  BY <1>0
<1> HIDE DEF x
<1>2. n <= x % N
  BY DEF x
<1>3. x % N = IF x < N THEN x ELSE x - N
  BY <1>1, RingMod
<1>4. y = IF t < c THEN t + N - c ELSE t - c
  BY DistIs
<1> HIDE DEF y
<1>5. y + n < N /\ n \in 0..(N - 1) /\ n \in 0..N /\ y \in Nat
  BY <1>0, <1>1, <1>2, <1>3, <1>4
<1>6. z \in Indexes /\ z = IF t + n < N THEN t + n ELSE t + n - N
  BY <1>5, AtIs
<1> HIDE DEF z
<1>7. Dist(z, c) = IF z < c THEN z + N - c ELSE z - c
  BY <1>6, DistIs
<1>8. Dist(z, c) = y + n
  BY <1>0, <1>4, <1>5, <1>6, <1>7
<1> QED
  BY <1>5, <1>8 DEF y, z, Indexes

(* Distances from the index after k.                                       *)
LEMMA DistAfter ==
    ASSUME NEW i \in Indexes, NEW k \in Indexes, NEW c \in Indexes, Dist(k, c) < Dist(i, c)
    PROVE  Dist(i, At(k, 1)) = Dist(i, c) - Dist(k, c) - 1
<1>0. /\ N \in Nat /\ N > 1 /\ c \in 0..(N - 1) /\ i \in 0..(N - 1) /\ k \in 0..(N - 1)
      /\ 1 \in 0..N
  BY TxAssumption DEF Indexes
<1> DEFINE z == At(k, 1)
           a == Dist(i, c)
           b == Dist(k, c)
<1>1. a = (IF i < c THEN i + N - c ELSE i - c) /\ b = IF k < c THEN k + N - c ELSE k - c
  BY DistIs
<1>2. z \in Indexes /\ z = IF k + 1 < N THEN k + 1 ELSE k + 1 - N
  BY <1>0, AtIs
<1>3. a > b
  <2>1. a \in Indexes /\ b \in Indexes
    BY DistIs
  <2> QED
    BY <1>0, <2>1 DEF Indexes
<1> HIDE DEF z, a, b
<1>4. Dist(i, z) = IF i < z THEN i + N - z ELSE i - z
  BY <1>2, DistIs
<1>5. Dist(i, z) = a - b - 1
  BY <1>0, <1>1, <1>2, <1>3, <1>4
<1> QED
  BY <1>5 DEF a, b, z

-----------------------------------------------------------------------------
(* Loops                                                                   *)

(* One turn of each of the model's recursive functions.                    *)
Turn(how, x, arg) ==
    IF how = "sum" THEN x + arg
    ELSE IF how = "join" THEN x \o arg
    ELSE IF how = "segment" THEN Segment(x, arg)
    ELSE XmitOne(x)

(* The values of such a function: there is one for every number of turns.  *)
Turns(g, how, a, args, L) ==
    g = [i \in 0..L |-> IF i = 0 THEN a ELSE Turn(how, g[i - 1], args[i])]

(* Such a function exists, for every number of turns.                      *)
LEMMA TurnsExist ==
    ASSUME NEW how, NEW a, NEW args, NEW L \in Nat
    PROVE  \E g : Turns(g, how, a, args, L)
<1> DEFINE T == {n \in 0..L : ~\E g : Turns(g, how, a, args, n)}
           St(g, i) == IF i = 0 THEN a ELSE Turn(how, g[i - 1], args[i])
<1>1. ASSUME T # {} PROVE FALSE
  <2>1. T \subseteq Nat
    OBVIOUS
  <2>2. PICK n \in T : \A y \in T : n <= y
    <3> HIDE DEF T
    <3> QED
      BY <1>1, <2>1, LeastNumber
  <2>3. n \in 0..L /\ n \in Nat /\ ~\E g : Turns(g, how, a, args, n)
    BY <2>1, <2>2
  <2>4. CASE n = 0
    <3> DEFINE g == [i \in 0..0 |-> a]
    <3>1. Turns(g, how, a, args, 0)
      BY DEF Turns
    <3> QED
      BY <2>3, <2>4, <3>1
  <2>5. CASE n # 0
    <3>1. n - 1 \in 0..L /\ n - 1 \notin T
      BY <2>2, <2>3, <2>5
    <3>2. PICK f : Turns(f, how, a, args, n - 1)
      BY <3>1
    <3> DEFINE x == Turn(how, f[n - 1], args[n])
               g == [i \in 0..n |-> IF i = n THEN x ELSE f[i]]
    <3>3. \A i \in 0..(n - 1) : g[i] = f[i] /\ f[i] = St(f, i)
      <4>1. \A i \in 0..(n - 1) : f[i] = St(f, i)
        BY <3>2, Zenon DEF Turns
      <4>2. \A i \in 0..(n - 1) : i \in 0..n /\ i # n
        BY <2>3, <2>5
      <4>3. \A i \in 0..(n - 1) : g[i] = f[i]
        BY <4>2, Zenon
      <4> QED
        BY <4>1, <4>3, Zenon
    <3>4. g[n] = x /\ g[n - 1] = f[n - 1]
      BY <2>3, <2>5
    <3>5. ASSUME NEW i \in 0..n PROVE g[i] = St(g, i)
      <4>1. CASE i = n
        BY <2>3, <2>5, <3>4, <4>1
      <4>2. CASE i = 0
        <5>1. 0 \in 0..(n - 1)
          BY <2>3, <2>5
        <5> HIDE DEF g
        <5> QED
          BY <3>3, <4>2, <5>1
      <4>3. CASE i # n /\ i # 0
        <5>1. i \in 0..(n - 1) /\ i - 1 \in 0..(n - 1)
          BY <2>3, <3>5, <4>3
        <5> HIDE DEF g
        <5> QED
          BY <3>3, <4>3, <5>1
      <4> QED
        BY <4>1, <4>2, <4>3
    <3>6. g = [i \in 0..n |-> g[i]]
      OBVIOUS
    <3> HIDE DEF g
    <3>7. Turns(g, how, a, args, n)
      BY <3>5, <3>6 DEF Turns
    <3> QED
      BY <2>3, <3>7
  <2> QED
    BY <2>4, <2>5
<1>2. L \in 0..L /\ L \notin T
  BY <1>1
<1> QED
  BY <1>2

(* The loop of start_xmit, turn by turn.                                   *)
LEMMA StartXmitIs ==
    ASSUME NEW d, d.TDH \in Indexes, d.TDT \in Indexes, d.TCTL_EN
    PROVE  LET turns == Dist(d.TDT, d.TDH)
           IN  \E g : /\ g[0] = [cause |-> {"TXQE"}, d |-> d]
                      /\ \A n \in 1..turns : g[n] = XmitOne(g[n - 1])
                      /\ start_xmit(d) = [g[turns].d EXCEPT !.irq = set_ics(@, g[turns].cause)]
<1> DEFINE turns == Dist(d.TDT, d.TDH)
           a == [cause |-> {"TXQE"}, d |-> d]
           G == CHOOSE g : g = [n \in 0..turns |-> IF n = 0 THEN a ELSE XmitOne(g[n - 1])]
<1>1. turns \in Nat
  <2>1. turns \in Indexes
    BY DistIs
  <2> QED
    BY <2>1, TxAssumption DEF Indexes
<1>2. start_xmit(d) = [G[turns].d EXCEPT !.irq = set_ics(@, G[turns].cause)]
  BY Zenon DEF start_xmit, Dist
<1> HIDE DEF turns, a
<1>3. PICK f : Turns(f, "xmit", a, d, turns)
  BY <1>1, TurnsExist
<1>4. \A x, y : Turn("xmit", x, y) = XmitOne(x)
  BY DEF Turn
<1>5. f = [n \in 0..turns |-> IF n = 0 THEN a ELSE XmitOne(f[n - 1])]
  BY <1>3, <1>4, Zenon DEF Turns
<1>6. G = [n \in 0..turns |-> IF n = 0 THEN a ELSE XmitOne(G[n - 1])]
  BY <1>5, Zenon
<1> HIDE DEF G
<1>7. G[0] = a /\ \A n \in 1..turns : G[n] = XmitOne(G[n - 1])
  BY <1>1, <1>6
<1> QED
  BY <1>2, <1>7 DEF turns, a

-----------------------------------------------------------------------------
(* The functions on the device                                             *)

(* What a descriptor changes is neither the ring nor the causes.           *)
Aside(d, e) ==
    /\ e \in TxState
    /\ e.ring = d.ring /\ e.TDH = d.TDH /\ e.TDT = d.TDT /\ e.TCTL_EN = d.TCTL_EN
    /\ e.irq.ICR = d.irq.ICR

(* Counters of W bits.                                                     *)
LEMMA WordIs ==
    /\ 0 \in Words
    /\ \A x \in Nat : x % 2 ^ W \in Words
    /\ \A x \in Words : x \in Nat
<1> DEFINE M == 2 ^ W
<1>1. M \in Nat /\ M > 0
  BY TxAssumption
<1>2. Words = 0..(M - 1)
  BY DEF Words
<1> HIDE DEF M
<1>3. \A x \in Nat : x % M \in 0..(M - 1)
  BY <1>1
<1>4. 0 \in 0..(M - 1) /\ \A x \in 0..(M - 1) : x \in Nat
  BY <1>1
<1> QED
  BY <1>2, <1>3, <1>4 DEF M

(* A frame is made of what the device has gathered.                        *)
LEMMA FrameType ==
    ASSUME NEW tx \in TxPart
    PROVE  Frame(tx) \in WireFrame
<1>1. /\ tx.data \in Seq(Byte) /\ tx.tso_frames \in Nat /\ tx.mss \in Nat /\ tx.vlan_header \in Nat
      /\ tx.sum_needed \in BOOLEAN
  BY DEF TxPart
<1> DEFINE sofar == tx.tso_frames * tx.mss
           q == IF tx.tse /\ tx.cptse THEN sofar ELSE 0
           v == IF tx.vlan_needed THEN tx.vlan_header ELSE 0
           fin == ~(tx.tse /\ tx.cptse /\ tx.paylen - sofar > tx.mss)
<1>2. q \in Nat /\ v \in Nat
  BY <1>1
<1>3. Frame(tx) = [bytes |-> tx.data, seq |-> q, fin |-> fin, sum |-> tx.sum_needed, vlan |-> v]
  BY DEF Frame
<1>4. fin \in BOOLEAN
  OBVIOUS
<1> HIDE DEF q, v, fin
<1> QED
  BY <1>1, <1>2, <1>3, <1>4 DEF WireFrame

(* xmit_seg, seen by every field.                                          *)
LEMMA XmitSegIs ==
    ASSUME NEW d \in TxState
    PROVE  LET e == xmit_seg(d)
               low == (d.TOTL + Len(d.tx.data)) % 2 ^ W
           IN  /\ e \in TxState
               /\ e.ring = d.ring /\ e.TDH = d.TDH /\ e.TDT = d.TDT /\ e.TCTL_EN = d.TCTL_EN
               /\ e.irq = d.irq
               /\ e.wire = Append(d.wire, Frame(d.tx))
               /\ e.tx = [d.tx EXCEPT !.tso_frames = IF d.tx.tse /\ d.tx.cptse THEN @ + 1 ELSE @]
               /\ e.TPT = (d.TPT + 1) % 2 ^ W /\ e.GPTC = (d.GPTC + 1) % 2 ^ W /\ e.TOTL = low
               /\ e.TOTH = IF low < d.TOTL THEN (d.TOTH + 1) % 2 ^ W ELSE d.TOTH
<1> DEFINE low == (d.TOTL + Len(d.tx.data)) % 2 ^ W
           high == IF low < d.TOTL THEN (d.TOTH + 1) % 2 ^ W ELSE d.TOTH
           n == IF d.tx.tse /\ d.tx.cptse THEN d.tx.tso_frames + 1 ELSE d.tx.tso_frames
           one == (d.TPT + 1) % 2 ^ W
           two == (d.GPTC + 1) % 2 ^ W
           w == Append(d.wire, Frame(d.tx))
<1>1. d.tx \in TxPart /\ d.wire \in Seq(WireFrame) /\ d.tx.data \in Seq(Byte)
  BY DEF TxState, TxPart
<1>2. d.TOTL \in Words /\ d.TPT \in Words /\ d.GPTC \in Words /\ d.TOTH \in Words
  BY DEF TxState
<1>3. d.TOTL + Len(d.tx.data) \in Nat /\ d.TPT + 1 \in Nat /\ d.GPTC + 1 \in Nat /\ d.TOTH + 1 \in Nat
  <2>1. d.TOTL \in Nat /\ d.TPT \in Nat /\ d.GPTC \in Nat /\ d.TOTH \in Nat
    BY <1>2, WordIs
  <2>2. Len(d.tx.data) \in Nat
    BY <1>1
  <2>3. \A x, y \in Nat : x + y \in Nat /\ x + 1 \in Nat
    OBVIOUS
  <2> QED
    BY <2>1, <2>2, <2>3, Zenon
<1>4. low \in Words /\ one \in Words /\ two \in Words /\ (d.TOTH + 1) % 2 ^ W \in Words
  BY <1>3, WordIs
<1>5. high \in Words
  BY <1>2, <1>4
<1>6. n \in Nat
  BY <1>1 DEF TxPart
<1>7. w \in Seq(WireFrame)
  BY <1>1, FrameType
<1>8. xmit_seg(d) = [d EXCEPT !.TPT = one, !.GPTC = two, !.TOTL = low, !.TOTH = high,
                             !.wire = w, !.tx = [d.tx EXCEPT !.tso_frames = n]]
  <2>1. CountFrame(d, Len(d.tx.data)) =
            [d EXCEPT !.TPT = one, !.GPTC = two, !.TOTL = low, !.TOTH = high]
    BY DEF CountFrame
  <2> HIDE DEF one, two, low, high
  <2>2. xmit_seg(d) = [[d EXCEPT !.TPT = one, !.GPTC = two, !.TOTL = low, !.TOTH = high]
            EXCEPT !.wire = Append(@, Frame(d.tx)),
                   !.tx.tso_frames = IF d.tx.tse /\ d.tx.cptse THEN @ + 1 ELSE @]
    BY <2>1 DEF xmit_seg
  <2> QED
    BY <2>2, <1>1 DEF TxState, TxPart
<1>9. [d.tx EXCEPT !.tso_frames = n] \in TxPart
  BY <1>1, <1>6 DEF TxPart
<1>10. [d.tx EXCEPT !.tso_frames = n] =
       [d.tx EXCEPT !.tso_frames = IF d.tx.tse /\ d.tx.cptse THEN @ + 1 ELSE @]
  OBVIOUS
<1> HIDE DEF one, two, low, high, n, w
<1>11. LET e == xmit_seg(d)
       IN  /\ e \in TxState
           /\ e.ring = d.ring /\ e.TDH = d.TDH /\ e.TDT = d.TDT /\ e.TCTL_EN = d.TCTL_EN
           /\ e.irq = d.irq /\ e.wire = w /\ e.tx = [d.tx EXCEPT !.tso_frames = n]
           /\ e.TPT = one /\ e.GPTC = two /\ e.TOTL = low /\ e.TOTH = high
  BY <1>4, <1>5, <1>7, <1>8, <1>9 DEF TxState
<1> QED
  BY <1>10, <1>11 DEF one, two, low, high, w

(* One byte of a packet that is cut into segments, seen by every field.    *)
LEMMA SegmentIs ==
    ASSUME NEW d \in TxState, NEW byte \in Byte
    PROVE  LET data == Append(d.tx.data, byte)
               header == IF Len(data) = d.tx.hdr_len THEN data ELSE d.tx.header
               t == [d EXCEPT !.tx = [d.tx EXCEPT !.data = data, !.header = header]]
               x == xmit_seg(t)
           IN  /\ t \in TxState
               /\ Segment(d, byte) = IF Len(data) = d.tx.hdr_len + d.tx.mss
                                     THEN [x EXCEPT !.tx = [x.tx EXCEPT !.data = header]] ELSE t
<1> DEFINE data == Append(d.tx.data, byte)
           header == IF Len(data) = d.tx.hdr_len THEN data ELSE d.tx.header
           u == [d.tx EXCEPT !.data = data, !.header = header]
           t == [d EXCEPT !.tx = u]
           x == xmit_seg(t)
<1>1. d.tx \in TxPart /\ d.tx.data \in Seq(Byte) /\ d.tx.header \in Seq(Byte)
  BY DEF TxState, TxPart
<1>2. data \in Seq(Byte) /\ header \in Seq(Byte)
  BY <1>1
<1> DEFINE t0 == [d EXCEPT !.tx.data = data,
                          !.tx.header = IF Len(data) = d.tx.hdr_len THEN data ELSE @]
<1>3. t0 = t
  BY <1>1 DEF TxState, TxPart
<1>12. Segment(d, byte) = IF Len(data) = d.tx.hdr_len + d.tx.mss
                          THEN [xmit_seg(t0) EXCEPT !.tx.data = t0.tx.header] ELSE t0
  BY DEF Segment
<1>4. Segment(d, byte) = IF Len(data) = d.tx.hdr_len + d.tx.mss
                         THEN [xmit_seg(t) EXCEPT !.tx.data = t.tx.header] ELSE t
  <2> HIDE DEF t0, t
  <2> QED
    BY <1>3, <1>12
<1> HIDE DEF data, header
<1>5. u \in TxPart
  BY <1>1, <1>2 DEF TxPart
<1>6. t \in TxState /\ t.tx = u
  BY <1>5 DEF TxState
<1>7. t.tx.header = header
  BY <1>1, <1>6 DEF TxPart
<1> HIDE DEF t, u
<1>8. x \in TxState
  BY <1>6, XmitSegIs
<1> HIDE DEF x
<1>9. [x EXCEPT !.tx.data = header] = [x EXCEPT !.tx = [x.tx EXCEPT !.data = header]]
  BY <1>8 DEF TxState
<1>10. Segment(d, byte) = IF Len(data) = d.tx.hdr_len + d.tx.mss
                          THEN [x EXCEPT !.tx = [x.tx EXCEPT !.data = header]] ELSE t
  BY <1>4, <1>7, <1>9 DEF x
<1> QED
  BY <1>6, <1>10 DEF data, header, t, u, x

(* One byte through the segmentation leaves ring, head, tail and causes    *)
(* alone.                                                                  *)
LEMMA SegmentAside ==
    ASSUME NEW d \in TxState, NEW byte \in Byte
    PROVE  Aside(d, Segment(d, byte))
<1> DEFINE data == Append(d.tx.data, byte)
           header == IF Len(data) = d.tx.hdr_len THEN data ELSE d.tx.header
           u == [d.tx EXCEPT !.data = data, !.header = header]
           t == [d EXCEPT !.tx = u]
           x == xmit_seg(t)
           e == [x EXCEPT !.tx = [x.tx EXCEPT !.data = header]]
<1>1. /\ t \in TxState
      /\ Segment(d, byte) = IF Len(data) = d.tx.hdr_len + d.tx.mss THEN e ELSE t
  BY SegmentIs
<1>2. header \in Seq(Byte)
  BY DEF TxState, TxPart
<1> HIDE DEF header
<1>3. /\ t.ring = d.ring /\ t.TDH = d.TDH /\ t.TDT = d.TDT /\ t.TCTL_EN = d.TCTL_EN
      /\ t.irq = d.irq
  BY DEF TxState
<1> HIDE DEF t, data
<1>4. Aside(t, x)
  BY <1>1, XmitSegIs DEF Aside
<1> HIDE DEF x
<1>5. [x.tx EXCEPT !.data = header] \in TxPart
  BY <1>2, <1>4 DEF Aside, TxState, TxPart
<1>6. Aside(x, e)
  BY <1>4, <1>5 DEF Aside, TxState
<1> QED
  BY <1>1, <1>3, <1>4, <1>6 DEF Aside

(* The loop of the segmentation, byte by byte.                             *)
LEMMA DescDataIs ==
    ASSUME NEW d, NEW bytes \in Seq(Byte), d.tx.tse /\ d.tx.cptse
    PROVE  \E g : /\ g[0] = d /\ DescData(d, bytes) = g[Len(bytes)]
                  /\ \A n \in 1..Len(bytes) : g[n] = Segment(g[n - 1], bytes[n])
<1> DEFINE L == Len(bytes)
           G == CHOOSE g : g = [n \in 0..L |-> IF n = 0 THEN d ELSE Segment(g[n - 1], bytes[n])]
<1>1. L \in Nat
  OBVIOUS
<1>2. DescData(d, bytes) = G[L]
  BY Zenon DEF DescData
<1> HIDE DEF L
<1>3. PICK f : Turns(f, "segment", d, bytes, L)
  BY <1>1, TurnsExist
<1>4. \A x, y : Turn("segment", x, y) = Segment(x, y)
  BY DEF Turn
<1>5. f = [n \in 0..L |-> IF n = 0 THEN d ELSE Segment(f[n - 1], bytes[n])]
  BY <1>3, <1>4, Zenon DEF Turns
<1>6. G = [n \in 0..L |-> IF n = 0 THEN d ELSE Segment(G[n - 1], bytes[n])]
  BY <1>5, Zenon
<1> HIDE DEF G
<1>7. G[0] = d /\ \A n \in 1..L : G[n] = Segment(G[n - 1], bytes[n])
  BY <1>1, <1>6
<1> QED
  BY <1>2, <1>7 DEF L

(* The data of a descriptor.                                               *)
LEMMA DescDataAside ==
    ASSUME NEW d \in TxState, NEW bytes \in Seq(Byte)
    PROVE  Aside(d, DescData(d, bytes))
<1>1. Aside(d, d)
  BY DEF Aside
<1>2. CASE d.tx.tse /\ d.tx.cptse
  <2> DEFINE L == Len(bytes)
  <2>0. L \in Nat /\ \A n \in 1..L : bytes[n] \in Byte
    OBVIOUS
  <2>1. PICK g : /\ g[0] = d /\ DescData(d, bytes) = g[L]
                 /\ \A n \in 1..L : g[n] = Segment(g[n - 1], bytes[n])
    BY <1>2, DescDataIs
  <2> HIDE DEF L
  <2> DEFINE T == {n \in 0..L : ~Aside(d, g[n])}
  <2>2. ASSUME T # {} PROVE FALSE
    <3>1. T \subseteq Nat
      BY <2>0
    <3>2. PICK n \in T : \A y \in T : n <= y
      <4> HIDE DEF T
      <4> QED
        BY <2>2, <3>1, LeastNumber
    <3>3. n \in 0..L /\ n \in Nat /\ ~Aside(d, g[n])
      BY <3>1, <3>2
    <3>4. n # 0
      BY <1>1, <2>1, <3>3
    <3>5. n - 1 \in 0..L /\ n - 1 \notin T /\ n \in 1..L
      BY <2>0, <3>2, <3>3, <3>4
    <3>6. Aside(d, g[n - 1])
      BY <3>5
    <3>7. bytes[n] \in Byte /\ g[n] = Segment(g[n - 1], bytes[n])
      BY <2>0, <2>1, <3>5
    <3>8. Aside(g[n - 1], g[n])
      BY <3>6, <3>7, SegmentAside DEF Aside
    <3> QED
      BY <3>3, <3>6, <3>8 DEF Aside
  <2>3. L \in 0..L /\ L \notin T
    BY <2>0, <2>2
  <2> QED
    BY <2>1, <2>3
<1>3. CASE ~(d.tx.tse /\ d.tx.cptse) /\ d.tx.cptse
  <2>1. DescData(d, bytes) = d
    BY <1>3 DEF DescData
  <2> QED
    BY <1>1, <2>1
<1>4. CASE ~d.tx.cptse
  <2> DEFINE data == d.tx.data \o bytes
  <2>1. data \in Seq(Byte)
    BY DEF TxState, TxPart
  <2>2. DescData(d, bytes) = [d EXCEPT !.tx.data = @ \o bytes]
    BY <1>4, Zenon DEF DescData
  <2>3. DescData(d, bytes) = [d EXCEPT !.tx = [d.tx EXCEPT !.data = data]]
    BY <2>2 DEF TxState, TxPart
  <2> HIDE DEF data
  <2>4. [d.tx EXCEPT !.data = data] \in TxPart
    BY <2>1 DEF TxState, TxPart
  <2> QED
    BY <2>3, <2>4 DEF Aside, TxState
<1> QED
  BY <1>2, <1>3, <1>4

(* A change of the transmit state alone.                                   *)
LEMMA PartAside ==
    ASSUME NEW d \in TxState, NEW tx \in TxPart
    PROVE  Aside(d, [d EXCEPT !.tx = tx]) /\ [d EXCEPT !.tx = tx].tx = tx
BY DEF Aside, TxState

(* The flags of a descriptor, seen by every field.                         *)
LEMMA DescFlagsIs ==
    ASSUME NEW d \in TxState, NEW desc \in TxDesc
    PROVE  LET cptse == desc.type = "data" /\ desc.TSE
               tag == VME /\ desc.VLE /\ (cptse \/ desc.EOP)
               tx == [d.tx EXCEPT
                        !.cptse = cptse,
                        !.sum_needed = IF desc.type = "data" /\ d.tx.data = <<>> THEN desc.TXSM
                                       ELSE d.tx.sum_needed,
                        !.vlan_needed = d.tx.vlan_needed \/ tag,
                        !.vlan_header = IF tag THEN desc.special ELSE d.tx.vlan_header]
           IN  /\ tx \in TxPart /\ DescFlags(d, desc) = [d EXCEPT !.tx = tx]
               /\ Aside(d, DescFlags(d, desc))
<1> DEFINE cptse == desc.type = "data" /\ desc.TSE
           tag == VME /\ desc.VLE /\ (cptse \/ desc.EOP)
           sum == IF desc.type = "data" /\ d.tx.data = <<>> THEN desc.TXSM ELSE d.tx.sum_needed
           needed == d.tx.vlan_needed \/ tag
           header == IF tag THEN desc.special ELSE d.tx.vlan_header
           tx == [d.tx EXCEPT !.cptse = cptse, !.sum_needed = sum, !.vlan_needed = needed,
                              !.vlan_header = header]
<1>1. /\ d.tx \in TxPart /\ d.tx.sum_needed \in BOOLEAN /\ d.tx.vlan_needed \in BOOLEAN
      /\ d.tx.vlan_header \in Nat /\ desc.TXSM \in BOOLEAN /\ desc.special \in Nat
      /\ desc.TSE \in BOOLEAN /\ desc.VLE \in BOOLEAN /\ desc.EOP \in BOOLEAN /\ VME \in BOOLEAN
  BY TxAssumption DEF TxState, TxPart, TxDesc
<1>2. cptse \in BOOLEAN /\ tag \in BOOLEAN /\ needed \in BOOLEAN
  BY <1>1, Zenon
<1>3. sum \in BOOLEAN
  BY <1>1, Zenon
<1>4. header \in Nat
  BY <1>1
<1>5. DescFlags(d, desc) = [d EXCEPT !.tx.cptse = cptse, !.tx.sum_needed = sum,
                                     !.tx.vlan_needed = needed, !.tx.vlan_header = header]
  BY DEF DescFlags, TxState, TxPart
<1> HIDE DEF cptse, tag, sum, needed, header
<1>6. tx \in TxPart
  BY <1>1, <1>2, <1>3, <1>4 DEF TxPart
<1>7. DescFlags(d, desc) = [d EXCEPT !.tx = tx]
  BY <1>1, <1>5 DEF TxState
<1>8. Aside(d, DescFlags(d, desc))
  <2> HIDE DEF tx
  <2> QED
    BY <1>6, <1>7, PartAside
<1> QED
  BY <1>6, <1>7, <1>8 DEF cptse, tag, sum, needed, header

(* A context descriptor, seen by every field.                              *)
LEMMA ContextDescIs ==
    ASSUME NEW d \in TxState, NEW desc \in TxDesc
    PROVE  LET tx == [d.tx EXCEPT !.paylen = desc.paylen, !.hdr_len = desc.hdr_len,
                                  !.mss = desc.mss, !.tse = desc.TSE, !.tso_frames = 0]
           IN  tx \in TxPart /\ ContextDesc(d, desc) = [d EXCEPT !.tx = tx]
<1> DEFINE tx == [d.tx EXCEPT !.paylen = desc.paylen, !.hdr_len = desc.hdr_len,
                              !.mss = desc.mss, !.tse = desc.TSE, !.tso_frames = 0]
<1>1. tx \in TxPart
  BY DEF TxState, TxPart, TxDesc
<1>2. ContextDesc(d, desc) = [d EXCEPT !.tx = tx]
  BY DEF ContextDesc, TxState
<1> QED
  BY <1>1, <1>2

(* The end of a packet, seen by every field.                               *)
LEMMA EndOfPacketIs ==
    ASSUME NEW d \in TxState
    PROVE  LET t == IF d.tx.tse /\ d.tx.cptse /\ Len(d.tx.data) < d.tx.hdr_len THEN d
                    ELSE xmit_seg(d)
               tx == [t.tx EXCEPT !.data = <<>>, !.tso_frames = 0, !.cptse = FALSE,
                                  !.sum_needed = FALSE, !.vlan_needed = FALSE]
           IN  t \in TxState /\ tx \in TxPart /\ EndOfPacket(d) = [t EXCEPT !.tx = tx]
<1> DEFINE t == IF d.tx.tse /\ d.tx.cptse /\ Len(d.tx.data) < d.tx.hdr_len THEN d
                ELSE xmit_seg(d)
           tx == [t.tx EXCEPT !.data = <<>>, !.tso_frames = 0, !.cptse = FALSE,
                              !.sum_needed = FALSE, !.vlan_needed = FALSE]
<1>1. t \in TxState
  BY XmitSegIs
<1>2. EndOfPacket(d) = [t EXCEPT !.tx.data = <<>>, !.tx.tso_frames = 0, !.tx.cptse = FALSE,
                                 !.tx.sum_needed = FALSE, !.tx.vlan_needed = FALSE]
  BY DEF EndOfPacket
<1> HIDE DEF t
<1>3. tx \in TxPart
  <2>1. t.tx \in TxPart /\ <<>> \in Seq(Byte) /\ 0 \in Nat /\ FALSE \in BOOLEAN
    BY <1>1 DEF TxState
  <2> QED
    BY <2>1 DEF TxPart
<1>4. EndOfPacket(d) = [t EXCEPT !.tx = tx]
  BY <1>1, <1>2 DEF TxState
<1> QED
  BY <1>1, <1>3, <1>4 DEF t

(* A descriptor leaves the ring and the causes alone.                      *)
LEMMA ProcessAside ==
    ASSUME NEW d \in TxState, NEW desc \in TxDesc
    PROVE  Aside(d, process_tx_desc(d, desc))
<1> DEFINE ide == d.irq.mit_ide \/ desc.IDE
           t == [d EXCEPT !.irq.mit_ide = @ \/ desc.IDE]
           v == DescFlags(t, desc)
           u == DescData(v, desc.bytes)
<1>1. ide \in BOOLEAN
  OBVIOUS
<1>2. t = [d EXCEPT !.irq = [d.irq EXCEPT !.mit_ide = ide]]
  BY DEF TxState, IrqState
<1>3. [d.irq EXCEPT !.mit_ide = ide] \in IrqState /\ [d.irq EXCEPT !.mit_ide = ide].ICR = d.irq.ICR
  <2> HIDE DEF ide
  <2> QED
    BY <1>1 DEF TxState, IrqState
<1> HIDE DEF t, ide
<1>4. Aside(d, t) /\ t \in TxState
  BY <1>2, <1>3 DEF Aside, TxState
<1>5. desc.bytes \in Seq(Byte)
  BY DEF TxDesc
<1>6. CASE desc.type = "context"
  <2>1. process_tx_desc(d, desc) = ContextDesc(t, desc)
    BY <1>6 DEF process_tx_desc, t
  <2>2. Aside(t, ContextDesc(t, desc))
    <3>1. PICK tx \in TxPart : ContextDesc(t, desc) = [t EXCEPT !.tx = tx]
      BY <1>4, ContextDescIs
    <3> QED
      BY <1>4, <3>1, PartAside
  <2> QED
    BY <1>4, <2>1, <2>2 DEF Aside
<1>7. CASE desc.type # "context"
  <2>1. process_tx_desc(d, desc) = IF desc.EOP THEN EndOfPacket(u) ELSE u
    BY <1>7 DEF process_tx_desc, t
  <2>2. Aside(t, v)
    BY <1>4, DescFlagsIs
  <2> HIDE DEF v
  <2>3. Aside(v, u)
    BY <1>5, <2>2, DescDataAside DEF Aside
  <2> HIDE DEF u
  <2>4. u \in TxState
    BY <2>3 DEF Aside
  <2>5. Aside(u, EndOfPacket(u))
    <3> DEFINE x == IF u.tx.tse /\ u.tx.cptse /\ Len(u.tx.data) < u.tx.hdr_len THEN u
                    ELSE xmit_seg(u)
               tx == [x.tx EXCEPT !.data = <<>>, !.tso_frames = 0, !.cptse = FALSE,
                                  !.sum_needed = FALSE, !.vlan_needed = FALSE]
    <3>1. x \in TxState /\ tx \in TxPart /\ EndOfPacket(u) = [x EXCEPT !.tx = tx]
      BY <2>4, EndOfPacketIs
    <3>2. Aside(u, x)
      BY <2>4, XmitSegIs DEF Aside
    <3> HIDE DEF x, tx
    <3>3. Aside(x, EndOfPacket(u))
      BY <3>1, PartAside
    <3> QED
      BY <3>2, <3>3 DEF Aside
  <2> QED
    BY <1>4, <2>1, <2>2, <2>3, <2>5 DEF Aside
<1> QED
  BY <1>6, <1>7

(* One turn of the loop of start_xmit, seen by every field.                *)
LEMMA XmitOneIs ==
    ASSUME NEW acc, acc.d \in TxState
    PROVE  LET r == acc.d.TDH
               desc == acc.d.ring[r]
               q == process_tx_desc(acc.d, desc)
               e == XmitOne(acc)
           IN  /\ Aside(acc.d, q) /\ r \in Indexes /\ desc \in TxDesc
               /\ e.d \in TxState /\ e.d.TDH = At(r, 1) /\ e.d.TDT = acc.d.TDT
               /\ e.d.TCTL_EN = acc.d.TCTL_EN /\ e.d.irq.ICR = acc.d.irq.ICR
               /\ e.cause = acc.cause \cup (IF desc.RS THEN {"TXDW"} ELSE {})
               /\ \A k \in Indexes : k # r => e.d.ring[k] = acc.d.ring[k]
               /\ e.d.ring[r] = IF desc.RS THEN [desc EXCEPT !.DD = TRUE] ELSE desc
               /\ e.d.tx = q.tx /\ e.d.wire = q.wire /\ e.d.TPT = q.TPT /\ e.d.GPTC = q.GPTC
               /\ e.d.TOTL = q.TOTL /\ e.d.TOTH = q.TOTH
<1> DEFINE r == acc.d.TDH
           desc == acc.d.ring[r]
           q == process_tx_desc(acc.d, desc)
           e == XmitOne(acc)
           wb == txdesc_writeback(q)
           d2 == IF desc.RS THEN [desc EXCEPT !.DD = TRUE] ELSE desc
           ring2 == [q.ring EXCEPT ![r] = d2]
           r2 == (r + 1) % N
<1>1. r \in Indexes /\ desc \in TxDesc
  BY DEF TxState
<1>2. Aside(acc.d, q)
  BY <1>1, ProcessAside
<1>3. e = [cause |-> acc.cause \cup wb.cause, d |-> [wb.d EXCEPT !.TDH = (@ + 1) % N]]
  BY DEF XmitOne
<1> HIDE DEF e
<1>4. q.ring = acc.d.ring /\ q.TDH = r /\ q.ring[r] = desc /\ q \in TxState
  BY <1>2 DEF Aside
<1> HIDE DEF q
<1>5. wb = IF desc.RS THEN [cause |-> {"TXDW"}, d |-> [q EXCEPT !.ring[r].DD = TRUE]]
           ELSE [cause |-> {}, d |-> q]
  BY <1>4 DEF txdesc_writeback
<1> HIDE DEF wb
<1>6. r2 \in Indexes /\ r2 = At(r, 1)
  <2>1. 1 \in 0..N /\ r2 = At(r, 1)
    BY TxAssumption DEF At
  <2> QED
    BY <1>1, <2>1, AtIs
<1> HIDE DEF r2
<1>7. d2 \in TxDesc
  BY <1>1 DEF TxDesc
<1>8. wb.d = [q EXCEPT !.ring = ring2] /\ wb.cause = IF desc.RS THEN {"TXDW"} ELSE {}
  <2>1. CASE desc.RS
    <3>1. wb.cause = {"TXDW"} /\ wb.d = [q EXCEPT !.ring[r].DD = TRUE]
      BY <1>5, <2>1
    <3>2. [q EXCEPT !.ring[r].DD = TRUE] = [q EXCEPT !.ring = ring2]
      BY <1>1, <1>4, <2>1 DEF TxState
    <3> QED
      BY <2>1, <3>1, <3>2
  <2>2. CASE ~desc.RS
    <3>1. wb.cause = {} /\ wb.d = q
      BY <1>5, <2>2
    <3>2. ring2 = q.ring
      BY <1>1, <1>4, <2>2 DEF TxState
    <3>3. q = [q EXCEPT !.ring = q.ring]
      BY <1>4 DEF TxState
    <3> HIDE DEF ring2
    <3> QED
      BY <2>2, <3>1, <3>2, <3>3
  <2> QED
    BY <2>1, <2>2
<1> HIDE DEF d2
<1>9. ring2 \in [Indexes -> TxDesc] /\ ring2[r] = d2 /\ \A k \in Indexes : k # r => ring2[k] = q.ring[k]
  BY <1>1, <1>4, <1>7 DEF TxState
<1> HIDE DEF ring2
<1>10. e.cause = acc.cause \cup wb.cause /\ e.d = [q EXCEPT !.ring = ring2, !.TDH = r2]
  BY <1>3, <1>4, <1>8 DEF TxState, r2
<1>11. /\ e.d \in TxState /\ e.d.TDH = r2 /\ e.d.TDT = q.TDT /\ e.d.TCTL_EN = q.TCTL_EN
       /\ e.d.irq = q.irq /\ e.d.ring = ring2 /\ e.d.tx = q.tx /\ e.d.wire = q.wire
       /\ e.d.TPT = q.TPT /\ e.d.GPTC = q.GPTC /\ e.d.TOTL = q.TOTL /\ e.d.TOTH = q.TOTH
  BY <1>4, <1>6, <1>9, <1>10 DEF TxState
<1>12. e.d.TDT = acc.d.TDT /\ e.d.TCTL_EN = acc.d.TCTL_EN /\ e.d.irq.ICR = acc.d.irq.ICR
  BY <1>2, <1>11 DEF Aside
<1> QED
  BY <1>1, <1>2, <1>4, <1>6, <1>8, <1>9, <1>10, <1>11, <1>12 DEF d2, q, e

(* What n turns of the loop of start_xmit have done to the ring and to the *)
(* causes.                                                                 *)
Run(d, acc, n) ==
    /\ acc.d \in TxState /\ acc.d.TDT = d.TDT /\ acc.d.TCTL_EN = d.TCTL_EN
    /\ acc.d.irq.ICR = d.irq.ICR /\ acc.d.TDH = At(d.TDH, n)
    /\ acc.cause \subseteq TxCauses
    /\ \A k \in Indexes : Dist(k, d.TDH) >= n => acc.d.ring[k] = d.ring[k]
    /\ \A k \in Indexes : acc.d.ring[k].DD => d.ring[k].DD \/ ("TXDW" \in acc.cause /\ Dist(k, d.TDH) < n)

(* One more turn.                                                          *)
LEMMA RunOn ==
    ASSUME NEW d \in TxState, NEW acc, NEW n \in Indexes, Run(d, acc, n), n + 1 \in Indexes
    PROVE  Run(d, XmitOne(acc), n + 1)
<1> DEFINE r == acc.d.TDH
           desc == acc.d.ring[r]
           e == XmitOne(acc)
<1>1. acc.d \in TxState
  BY DEF Run
<1>2. /\ r \in Indexes /\ desc \in TxDesc
      /\ e.d \in TxState /\ e.d.TDH = At(r, 1) /\ e.d.TDT = acc.d.TDT
      /\ e.d.TCTL_EN = acc.d.TCTL_EN /\ e.d.irq.ICR = acc.d.irq.ICR
      /\ e.cause = acc.cause \cup (IF desc.RS THEN {"TXDW"} ELSE {})
      /\ \A k \in Indexes : k # r => e.d.ring[k] = acc.d.ring[k]
      /\ e.d.ring[r] = IF desc.RS THEN [desc EXCEPT !.DD = TRUE] ELSE desc
  BY <1>1, XmitOneIs
<1> HIDE DEF e
<1>3. N \in Nat /\ N > 1 /\ n \in Nat /\ d.TDH \in Indexes
  BY TxAssumption DEF Indexes, TxState
<1>4. r = At(d.TDH, n) /\ Dist(r, d.TDH) = n
  BY <1>3, DistAt DEF Run
<1>5. At(r, 1) = At(d.TDH, n + 1)
  <2>1. n \in 0..N /\ 1 \in 0..N /\ n + 1 \in 0..N
    BY <1>3 DEF Indexes
  <2>2. r = IF d.TDH + n < N THEN d.TDH + n ELSE d.TDH + n - N
    BY <1>3, <1>4, <2>1, AtIs
  <2>3. At(r, 1) = IF r + 1 < N THEN r + 1 ELSE r + 1 - N
    BY <1>2, <2>1, AtIs
  <2>4. At(d.TDH, n + 1) = IF d.TDH + (n + 1) < N THEN d.TDH + (n + 1) ELSE d.TDH + (n + 1) - N
    BY <1>3, <2>1, AtIs
  <2> QED
    BY <1>2, <1>3, <2>2, <2>3, <2>4 DEF Indexes
<1>6. e.cause \subseteq TxCauses /\ acc.cause \subseteq e.cause /\ (desc.RS => "TXDW" \in e.cause)
  BY <1>2 DEF Run, TxCauses
<1>7. ASSUME NEW k \in Indexes, Dist(k, d.TDH) >= n + 1
      PROVE  e.d.ring[k] = d.ring[k]
  <2>1. Dist(k, d.TDH) \in Indexes
    BY <1>3, DistIs
  <2>2. Dist(k, d.TDH) >= n /\ Dist(k, d.TDH) # n
    BY <1>3, <1>7, <2>1 DEF Indexes
  <2>3. k # r
    BY <1>4, <2>2
  <2> QED
    BY <1>2, <2>2, <2>3 DEF Run
<1>8. ASSUME NEW k \in Indexes, e.d.ring[k].DD
      PROVE  d.ring[k].DD \/ ("TXDW" \in e.cause /\ Dist(k, d.TDH) < n + 1)
  <2>0. Dist(k, d.TDH) \in Indexes
    BY <1>3, DistIs
  <2>1. CASE k = r /\ desc.RS
    BY <1>3, <1>4, <1>6, <2>1
  <2>2. CASE ~(k = r /\ desc.RS)
    <3>1. e.d.ring[k] = acc.d.ring[k]
      BY <1>2, <2>2
    <3>2. d.ring[k].DD \/ ("TXDW" \in acc.cause /\ Dist(k, d.TDH) < n)
      BY <1>8, <3>1 DEF Run
    <3>3. Dist(k, d.TDH) < n => Dist(k, d.TDH) < n + 1
      BY <1>3, <2>0 DEF Indexes
    <3> QED
      BY <1>6, <3>2, <3>3
  <2> QED
    BY <2>1, <2>2
<1>9. e.d.TDT = d.TDT /\ e.d.TCTL_EN = d.TCTL_EN /\ e.d.irq.ICR = d.irq.ICR
  BY <1>2 DEF Run
<1>10. Run(d, e, n + 1)
  BY <1>2, <1>5, <1>6, <1>7, <1>8, <1>9 DEF Run
<1> QED
  BY <1>10 DEF e

(* The loop, from its first turn to its last.                              *)
LEMMA RunAll ==
    ASSUME NEW d \in TxState, NEW g, g[0] = [cause |-> {"TXQE"}, d |-> d],
           \A n \in 1..Dist(d.TDT, d.TDH) : g[n] = XmitOne(g[n - 1])
    PROVE  \A n \in 0..Dist(d.TDT, d.TDH) : Run(d, g[n], n)
<1> DEFINE L == Dist(d.TDT, d.TDH)
           T == {n \in 0..L : ~Run(d, g[n], n)}
<1>0. d.TDH \in Indexes /\ d.TDT \in Indexes /\ N \in Nat /\ N > 1
  BY TxAssumption DEF TxState
<1>1. L \in Indexes
  BY <1>0, DistIs
<1>2. L \in Nat /\ L < N
  BY <1>0, <1>1 DEF Indexes
<1>3. Run(d, g[0], 0)
  <2>1. At(d.TDH, 0) = d.TDH
    <3>1. 0 \in 0..N
      BY <1>0
    <3>2. At(d.TDH, 0) = IF d.TDH + 0 < N THEN d.TDH + 0 ELSE d.TDH + 0 - N
      BY <1>0, <3>1, AtIs
    <3> QED
      BY <1>0, <3>2 DEF Indexes
  <2>2. {"TXQE"} \subseteq TxCauses
    BY DEF TxCauses
  <2> QED
    BY <2>1, <2>2 DEF Run
<1>4. \A n \in 1..L : g[n] = XmitOne(g[n - 1])
  OBVIOUS
<1> HIDE DEF L
<1>5. ASSUME T # {} PROVE FALSE
  <2>1. T \subseteq Nat
    BY <1>2
  <2>2. PICK n \in T : \A y \in T : n <= y
    <3> HIDE DEF T
    <3> QED
      BY <1>5, <2>1, LeastNumber
  <2>3. n \in 0..L /\ n \in Nat /\ ~Run(d, g[n], n)
    BY <2>1, <2>2
  <2>4. n # 0
    BY <1>3, <2>3
  <2>5. n - 1 \in 0..L /\ n - 1 \notin T /\ n \in 1..L /\ n - 1 \in Indexes /\ n \in Indexes
    BY <1>0, <1>2, <2>2, <2>3, <2>4 DEF Indexes
  <2>6. Run(d, g[n - 1], n - 1)
    BY <2>5
  <2>7. g[n] = XmitOne(g[n - 1])
    BY <1>4, <2>5
  <2> DEFINE m == n - 1
  <2>8. m \in Indexes /\ m + 1 \in Indexes /\ m + 1 = n /\ Run(d, g[m], m) /\ g[n] = XmitOne(g[m])
    BY <2>3, <2>5, <2>6, <2>7
  <2> HIDE DEF m
  <2>9. Run(d, XmitOne(g[m]), m + 1)
    BY <2>8, RunOn
  <2> QED
    BY <2>3, <2>8, <2>9
<1>6. \A n \in 0..L : Run(d, g[n], n)
  BY <1>5
<1> QED
  BY <1>6 DEF L

(* A run of start_xmit takes the head to the tail and tells the driver.    *)
LEMMA StartXmitShared ==
    ASSUME NEW d, NEW c, NEW reap, Shared(d, c, reap)
    PROVE  Shared(start_xmit(d), c, reap)
<1>0. /\ d \in TxState /\ d.TDH \in Indexes /\ d.TDT \in Indexes /\ c \in Indexes /\ reap \in BOOLEAN
      /\ Placed(d.ring, d.TDH, d.TDT, c) /\ Told(d.irq.ICR, d.ring, reap)
      /\ N \in Nat /\ N > 1
  BY TxAssumption DEF Shared, TxState
<1>1. CASE ~d.TCTL_EN
  BY <1>1 DEF start_xmit
<1>2. CASE d.TCTL_EN
  <2> DEFINE L == Dist(d.TDT, d.TDH)
  <2>1. PICK g : /\ g[0] = [cause |-> {"TXQE"}, d |-> d]
                 /\ \A n \in 1..L : g[n] = XmitOne(g[n - 1])
                 /\ start_xmit(d) = [g[L].d EXCEPT !.irq = set_ics(@, g[L].cause)]
    BY <1>0, <1>2, StartXmitIs
  <2>2. L \in Indexes /\ At(d.TDH, L) = d.TDT
    BY <1>0, DistIs
  <2>3. L \in 0..L
    BY <1>0, <2>2 DEF Indexes
  <2>4. Run(d, g[L], L)
    BY <1>0, <2>1, <2>3, RunAll
  <2> DEFINE f == g[L].d
             cause == g[L].cause
             e == start_xmit(d)
             irq == set_ics(f.irq, cause)
  <2>5. f \in TxState /\ f.irq \in IrqState /\ cause \in SUBSET Causes
    BY <2>4, TxAssumption DEF Run, TxState
  <2>6. irq \in IrqState /\ irq.ICR = cause \cup f.irq.ICR
    BY <2>5, IcsStored
  <2>7. e = [f EXCEPT !.irq = irq]
    BY <2>1
  <2> HIDE DEF f, e, irq, cause
  <2>8. /\ e \in TxState /\ e.TDH = f.TDH /\ e.TDT = f.TDT /\ e.ring = f.ring
        /\ e.irq.ICR = cause \cup f.irq.ICR
    BY <2>5, <2>6, <2>7 DEF TxState
  <2>9. e.TDH = d.TDT /\ e.TDT = d.TDT /\ e.irq.ICR = cause \cup d.irq.ICR
    BY <2>2, <2>4, <2>8 DEF Run, f
  <2>10. \A k \in Indexes : e.ring[k].DD => d.ring[k].DD \/ ("TXDW" \in cause /\ Dist(k, d.TDH) < L)
    BY <2>4, <2>8 DEF Run, f, cause
  <2>11. Placed(e.ring, e.TDH, e.TDT, c)
    <3>1. ASSUME NEW k \in Indexes, e.ring[k].DD
          PROVE  Dist(k, c) < Dist(d.TDT, c)
      <4>1. Dist(k, c) \in Indexes /\ Dist(d.TDH, c) \in Indexes /\ Dist(d.TDT, c) \in Indexes
        BY <1>0, DistIs
      <4>2. Dist(d.TDH, c) <= Dist(d.TDT, c)
        BY <1>0 DEF Placed
      <4>3. Dist(k, d.TDH) = IF Dist(k, c) < Dist(d.TDH, c) THEN N + Dist(k, c) - Dist(d.TDH, c)
                             ELSE Dist(k, c) - Dist(d.TDH, c)
        BY <1>0, DistFrom
      <4>4. L = IF Dist(d.TDT, c) < Dist(d.TDH, c) THEN N + Dist(d.TDT, c) - Dist(d.TDH, c)
                ELSE Dist(d.TDT, c) - Dist(d.TDH, c)
        BY <1>0, DistFrom
      <4>5. Dist(k, c) < Dist(d.TDH, c) \/ Dist(k, d.TDH) < L
        BY <1>0, <2>10, <3>1 DEF Placed
      <4> HIDE DEF L
      <4> QED
        BY <1>0, <4>1, <4>2, <4>3, <4>4, <4>5 DEF Indexes
    <3>2. Dist(d.TDT, c) <= Dist(d.TDT, c)
      <4>1. Dist(d.TDT, c) \in Indexes
        BY <1>0, DistIs
      <4> QED
        BY <1>0, <4>1 DEF Indexes
    <3> QED
      BY <2>9, <3>1, <3>2 DEF Placed
  <2>12. Told(e.irq.ICR, e.ring, reap)
    BY <1>0, <2>9, <2>10 DEF Told
  <2>13. Shared(e, c, reap)
    BY <1>0, <2>8, <2>11, <2>12 DEF Shared
  <2> QED
    BY <2>13 DEF e
<1> QED
  BY <1>1, <1>2

-----------------------------------------------------------------------------
(* Sums                                                                    *)

(* The partial sums of a sequence.                                         *)
Sums(u, q) ==
    /\ u \in [0..Len(q) -> Nat] /\ u[0] = 0
    /\ \A n \in 1..Len(q) : u[n] = u[n - 1] + q[n]

(* Total, one number after the other.                                      *)
LEMMA TotalIs ==
    ASSUME NEW q \in Seq(Nat)
    PROVE  \E u : Sums(u, q) /\ Total(q) = u[Len(q)]
<1> DEFINE L == Len(q)
           G == CHOOSE g : g = [n \in 0..L |-> IF n = 0 THEN 0 ELSE g[n - 1] + q[n]]
<1>1. L \in Nat /\ \A n \in 1..L : q[n] \in Nat
  OBVIOUS
<1>2. Total(q) = G[L]
  BY Zenon DEF Total
<1> HIDE DEF L
<1>3. PICK f : Turns(f, "sum", 0, q, L)
  BY <1>1, TurnsExist
<1>4. \A x, y : Turn("sum", x, y) = x + y
  BY DEF Turn
<1>5. f = [n \in 0..L |-> IF n = 0 THEN 0 ELSE f[n - 1] + q[n]]
  BY <1>3, <1>4, Zenon DEF Turns
<1>6. G = [n \in 0..L |-> IF n = 0 THEN 0 ELSE G[n - 1] + q[n]]
  BY <1>5, Zenon
<1> HIDE DEF G
<1>7. G[0] = 0 /\ \A n \in 1..L : G[n] = G[n - 1] + q[n]
  BY <1>1, <1>6
<1> DEFINE T == {n \in 0..L : G[n] \notin Nat}
<1>8. ASSUME T # {} PROVE FALSE
  <2>1. T \subseteq Nat
    BY <1>1
  <2>2. PICK n \in T : \A y \in T : n <= y
    <3> HIDE DEF T
    <3> QED
      BY <1>8, <2>1, LeastNumber
  <2>3. n \in 0..L /\ n \in Nat /\ G[n] \notin Nat /\ n # 0
    BY <1>7, <2>1, <2>2
  <2>4. n - 1 \in 0..L /\ n - 1 \notin T /\ n \in 1..L
    BY <1>1, <2>2, <2>3
  <2>5. G[n - 1] \in Nat /\ G[n] = G[n - 1] + q[n] /\ q[n] \in Nat
    BY <1>1, <1>7, <2>4
  <2> QED
    BY <2>3, <2>5
<1>9. \A n \in 0..L : G[n] \in Nat
  BY <1>8
<1>10. G \in [0..L -> Nat]
  BY <1>6, <1>9
<1> QED
  BY <1>2, <1>7, <1>10 DEF Sums, L

(* Partial sums are the same for a sequence and for one that goes on.      *)
LEMMA SumsAgree ==
    ASSUME NEW q \in Seq(Nat), NEW r \in Seq(Nat), NEW u, NEW v, Sums(u, q), Sums(v, r),
           Len(q) <= Len(r), \A n \in 1..Len(q) : q[n] = r[n]
    PROVE  \A n \in 0..Len(q) : u[n] = v[n]
<1> DEFINE L == Len(q)
           T == {n \in 0..L : u[n] # v[n]}
<1>1. L \in Nat /\ Len(r) \in Nat /\ L <= Len(r) /\ \A n \in 1..L : q[n] = r[n] /\ n \in 1..Len(r)
  OBVIOUS
<1>2. /\ u[0] = 0 /\ v[0] = 0
      /\ \A n \in 1..L : u[n] = u[n - 1] + q[n] /\ v[n] = v[n - 1] + r[n]
  BY <1>1 DEF Sums
<1> HIDE DEF L
<1>3. ASSUME T # {} PROVE FALSE
  <2>1. T \subseteq Nat
    BY <1>1
  <2>2. PICK n \in T : \A y \in T : n <= y
    <3> HIDE DEF T
    <3> QED
      BY <1>3, <2>1, LeastNumber
  <2>3. n \in 0..L /\ n \in Nat /\ u[n] # v[n] /\ n # 0
    BY <1>2, <2>1, <2>2
  <2>4. n - 1 \in 0..L /\ n - 1 \notin T /\ n \in 1..L
    BY <1>1, <2>2, <2>3
  <2>5. u[n - 1] = v[n - 1]
    BY <2>4
  <2> QED
    BY <1>1, <1>2, <2>3, <2>4, <2>5
<1>4. \A n \in 0..L : u[n] = v[n]
  BY <1>3
<1> QED
  BY <1>4 DEF L

(* A total is a number, and one more entry adds to it.                     *)
LEMMA TotalType ==
    ASSUME NEW q \in Seq(Nat)
    PROVE  Total(q) \in Nat
<1>1. PICK u : Sums(u, q) /\ Total(q) = u[Len(q)]
  BY TotalIs
<1>2. Len(q) \in 0..Len(q)
  OBVIOUS
<1> QED
  BY <1>1, <1>2 DEF Sums

(* The sum of nothing.                                                     *)
LEMMA TotalEmpty == Total(<<>>) = 0
<1>1. <<>> \in Seq(Nat) /\ Len(<<>>) = 0
  OBVIOUS
<1>2. PICK u : Sums(u, <<>>) /\ Total(<<>>) = u[Len(<<>>)]
  BY <1>1, TotalIs
<1> QED
  BY <1>1, <1>2 DEF Sums

(* One more number is added at the end.                                    *)
LEMMA TotalAppend ==
    ASSUME NEW q \in Seq(Nat), NEW x \in Nat
    PROVE  Total(Append(q, x)) = Total(q) + x
<1> DEFINE r == Append(q, x)
           L == Len(q)
<1>1. /\ r \in Seq(Nat) /\ L \in Nat /\ Len(r) = L + 1 /\ r[L + 1] = x
      /\ \A n \in 1..L : q[n] = r[n]
  OBVIOUS
<1> HIDE DEF r, L
<1>2. PICK u : Sums(u, q) /\ Total(q) = u[L]
  BY TotalIs DEF L
<1>3. PICK v : Sums(v, r) /\ Total(r) = v[Len(r)]
  BY <1>1, TotalIs
<1>4. \A n \in 0..L : u[n] = v[n]
  <2>1. L <= Len(r)
    BY <1>1
  <2> QED
    BY <1>1, <1>2, <1>3, <2>1, SumsAgree DEF L
<1>5. v[L + 1] = v[L] + x
  <2>1. L + 1 \in 1..Len(r) /\ (L + 1) - 1 = L
    BY <1>1
  <2>2. v[L + 1] = v[(L + 1) - 1] + r[L + 1]
    BY <1>3, <2>1 DEF Sums
  <2> QED
    BY <1>1, <2>1, <2>2
<1>6. u[L] = v[L]
  BY <1>1, <1>4
<1> QED
  BY <1>1, <1>2, <1>3, <1>5, <1>6 DEF r

(* The total of a sequence up to its i-th entry.                           *)
Upto(q, i) == Total(SubSeq(q, 1, i))

(* The first numbers of a sequence, summed up step by step.                *)
LEMMA UptoIs ==
    ASSUME NEW q \in Seq(Nat)
    PROVE  /\ Upto(q, 0) = 0 /\ Upto(q, Len(q)) = Total(q)
           /\ \A i \in 0..Len(q) : Upto(q, i) \in Nat
           /\ \A i \in 0..(Len(q) - 1) : Upto(q, i + 1) = Upto(q, i) + q[i + 1]
<1> DEFINE L == Len(q)
<1>1. L \in Nat /\ \A n \in 1..L : q[n] \in Nat
  OBVIOUS
<1>2. SubSeq(q, 1, 0) = <<>> /\ SubSeq(q, 1, L) = q
  OBVIOUS
<1>3. Upto(q, 0) = 0
  BY <1>2, TotalEmpty DEF Upto
<1>4. Upto(q, L) = Total(q)
  BY <1>2 DEF Upto
<1>5. \A i \in 0..L : SubSeq(q, 1, i) \in Seq(Nat)
  OBVIOUS
<1>6. \A i \in 0..L : Upto(q, i) \in Nat
  BY <1>5, TotalType DEF Upto
<1>7. ASSUME NEW i \in 0..(L - 1)
      PROVE  Upto(q, i + 1) = Upto(q, i) + q[i + 1]
  <2> DEFINE p == SubSeq(q, 1, i)
             r == SubSeq(q, 1, i + 1)
             x == q[i + 1]
  <2>1. i \in Nat /\ i \in 0..L /\ i + 1 \in 1..L
    BY <1>1
  <2>2. /\ p \in Seq(Nat) /\ Len(p) = i /\ \A n \in 1..i : p[n] = q[n]
        /\ r \in Seq(Nat) /\ Len(r) = i + 1 /\ \A n \in 1..(i + 1) : r[n] = q[n]
    BY <1>1, <2>1
  <2>3. x \in Nat
    BY <1>1, <2>1
  <2> HIDE DEF p, r, x
  <2>4. r = Append(p, x)
    <3>1. /\ Append(p, x) \in Seq(Nat) /\ Len(Append(p, x)) = i + 1
          /\ Append(p, x)[i + 1] = x /\ \A n \in 1..i : Append(p, x)[n] = p[n]
      BY <2>1, <2>2, <2>3
    <3>2. \A n \in 1..(i + 1) : r[n] = Append(p, x)[n]
      <4>1. r[i + 1] = x
        BY <2>1, <2>2 DEF x
      <4>2. \A n \in 1..i : r[n] = p[n]
        <5>1. \A n \in 1..i : n \in 1..(i + 1)
          BY <2>1
        <5> QED
          BY <2>2, <5>1
      <4> QED
        BY <2>1, <3>1, <4>1, <4>2
    <3> DEFINE a == Append(p, x)
    <3> HIDE DEF a
    <3>3. a \in Seq(Nat) /\ Len(a) = Len(r) /\ \A n \in 1..Len(r) : r[n] = a[n]
      BY <2>2, <3>1, <3>2 DEF a
    <3>4. r = a
      BY <2>2, <3>3, SeqEqual
    <3> QED
      BY <3>4 DEF a
  <2>5. Total(r) = Total(p) + x
    BY <2>2, <2>3, <2>4, TotalAppend
  <2> QED
    BY <2>5 DEF Upto, p, r, x
<1> QED
  BY <1>3, <1>4, <1>6, <1>7

(* The sums go up.                                                         *)
LEMMA UptoUp ==
    ASSUME NEW q \in Seq(Nat), NEW i \in 0..Len(q)
    PROVE  Upto(q, i) <= Total(q)
<1> DEFINE L == Len(q)
           D == L - i
           T == {n \in 0..D : ~(Upto(q, i) <= Upto(q, i + n))}
<1>1. L \in Nat /\ i \in Nat /\ i <= L /\ \A n \in 1..L : q[n] \in Nat
  OBVIOUS
<1>2. /\ Upto(q, L) = Total(q) /\ \A n \in 0..L : Upto(q, n) \in Nat
      /\ \A n \in 0..(L - 1) : Upto(q, n + 1) = Upto(q, n) + q[n + 1]
  BY UptoIs
<1>6. D \in Nat /\ i + D = L
  BY <1>1
<1> HIDE DEF L, D
<1>3. ASSUME T # {} PROVE FALSE
  <2>1. T \subseteq Nat
    BY <1>6
  <2>2. PICK n \in T : \A y \in T : n <= y
    <3> HIDE DEF T
    <3> QED
      BY <1>3, <2>1, LeastNumber
  <2>3. n \in 0..D /\ n \in Nat /\ ~(Upto(q, i) <= Upto(q, i + n))
    BY <2>1, <2>2
  <2>4. i \in 0..L /\ i + 0 = i /\ Upto(q, i) \in Nat
    BY <1>1, <1>2
  <2>5. n # 0
    BY <2>3, <2>4
  <2>6. n - 1 \in 0..D /\ n - 1 \notin T
    <3> HIDE DEF T
    <3> QED
      BY <1>6, <2>2, <2>3, <2>5
  <2> DEFINE m == i + (n - 1)
  <2>7. m \in 0..(L - 1) /\ m \in 0..L /\ m + 1 \in 1..L /\ m + 1 = i + n
    BY <1>1, <1>6, <2>3, <2>5
  <2>8. Upto(q, i) <= Upto(q, m)
    BY <2>6
  <2> HIDE DEF m
  <2>9. Upto(q, m + 1) = Upto(q, m) + q[m + 1] /\ Upto(q, m) \in Nat /\ q[m + 1] \in Nat
    BY <1>1, <1>2, <2>7
  <2> QED
    BY <2>3, <2>4, <2>7, <2>8, <2>9
<1>4. D \in 0..D /\ D \notin T
  <2> HIDE DEF T
  <2> QED
    BY <1>3, <1>6
<1>5. Upto(q, i) <= Upto(q, i + D)
  BY <1>4
<1> QED
  BY <1>2, <1>5, <1>6

-----------------------------------------------------------------------------
(* The descriptors of a packet                                             *)

(* The context descriptor of a packet and its i-th data descriptor.        *)
ContextOf(kind) ==
    [NoDesc EXCEPT !.type = "context", !.hdr_len = kind.hdr, !.mss = kind.mss,
                   !.paylen = kind.payload, !.TSE = kind.tso]

BytesOf(kind, pid, i) == [b \in 1..kind.cuts[i] |-> <<pid, Upto(kind.cuts, i - 1) + b>>]

DataOf(kind, pid, i) ==
    [NoDesc EXCEPT
       !.type = IF kind.tso \/ kind.sum THEN "data" ELSE "legacy",
       !.bytes = BytesOf(kind, pid, i),
       !.EOP = (i = Len(kind.cuts)), !.RS = (i = Len(kind.cuts)),
       !.TSE = kind.tso, !.TXSM = kind.sum, !.VLE = (kind.tag # 0), !.special = kind.tag]

(* How many descriptors a packet has, and how many come before its data.   *)
Lead(kind) == IF kind.context THEN 1 ELSE 0
Count(kind) == Len(kind.cuts) + Lead(kind)

(* What is known of a kind of packet.                                      *)
LEMMA KindIs ==
    ASSUME NEW kind \in Kinds
    PROVE  /\ kind.cuts \in Seq(Nat) /\ Len(kind.cuts) \in Nat /\ Len(kind.cuts) > 0
           /\ kind.hdr \in Nat /\ kind.mss \in Nat /\ kind.payload \in Nat /\ kind.tag \in Nat
           /\ kind.hdr > 0 /\ kind.mss > 0 /\ Total(kind.cuts) = kind.hdr + kind.payload
           /\ kind.hdr + kind.payload < 2 ^ W
           /\ kind.tso \in BOOLEAN /\ kind.context \in BOOLEAN /\ kind.sum \in BOOLEAN
           /\ Lead(kind) \in 0..1 /\ Count(kind) \in Nat /\ Count(kind) > Lead(kind)
<1>1. /\ kind \in PacketKinds /\ kind.hdr > 0 /\ kind.mss > 0
      /\ Total(kind.cuts) = kind.hdr + kind.payload /\ kind.hdr + kind.payload < 2 ^ W
  BY TxAssumption
<1>2. /\ kind.cuts \in Seq(Nat) /\ kind.hdr \in Nat /\ kind.mss \in Nat /\ kind.payload \in Nat
      /\ kind.tag \in Nat /\ kind.tso \in BOOLEAN /\ kind.context \in BOOLEAN /\ kind.sum \in BOOLEAN
  BY <1>1 DEF PacketKinds
<1>3. Len(kind.cuts) \in Nat /\ Len(kind.cuts) > 0
  <2>1. Len(kind.cuts) \in Nat
    BY <1>2
  <2>2. ASSUME Len(kind.cuts) = 0 PROVE FALSE
    <3>1. kind.cuts = <<>>
      BY <1>2, <2>2
    <3>2. Total(kind.cuts) = 0
      BY <3>1, TotalEmpty
    <3> QED
      BY <1>1, <1>2, <3>2
  <2> QED
    BY <2>1, <2>2
<1>4. Lead(kind) \in 0..1
  BY DEF Lead
<1>5. Count(kind) \in Nat /\ Count(kind) > Lead(kind)
  BY <1>3, <1>4 DEF Count
<1> QED
  BY <1>1, <1>2, <1>3, <1>4, <1>5

(* What a context descriptor holds.                                        *)
LEMMA ContextOfIs ==
    ASSUME NEW kind \in Kinds
    PROVE  LET x == ContextOf(kind)
           IN  /\ x \in TxDesc /\ x.type = "context" /\ x.hdr_len = kind.hdr /\ x.mss = kind.mss
               /\ x.paylen = kind.payload /\ x.TSE = kind.tso /\ x.bytes = <<>>
               /\ ~x.EOP /\ ~x.RS /\ ~x.DD
<1>1. kind.hdr \in Nat /\ kind.mss \in Nat /\ kind.payload \in Nat /\ kind.tso \in BOOLEAN
  BY KindIs
<1>2. <<>> \in Seq(Byte)
  OBVIOUS
<1> QED
  BY <1>1, <1>2 DEF ContextOf, NoDesc, TxDesc

(* The bytes of a data descriptor.                                         *)
LEMMA BytesOfIs ==
    ASSUME NEW kind \in Kinds, NEW pid \in Nat, NEW i \in 1..Len(kind.cuts)
    PROVE  LET q == BytesOf(kind, pid, i)
           IN  /\ q \in Seq(Byte) /\ kind.cuts[i] \in Nat /\ Len(q) = kind.cuts[i]
               /\ Upto(kind.cuts, i - 1) \in Nat
               /\ Upto(kind.cuts, i) = Upto(kind.cuts, i - 1) + Len(q)
               /\ \A b \in 1..Len(q) : q[b] = <<pid, Upto(kind.cuts, i - 1) + b>>
<1> DEFINE n == kind.cuts[i]
           u == Upto(kind.cuts, i - 1)
           q == BytesOf(kind, pid, i)
<1>1. kind.cuts \in Seq(Nat) /\ Len(kind.cuts) \in Nat
  BY KindIs
<1>2. n \in Nat
  BY <1>1
<1>3. i \in Nat /\ i - 1 \in 0..Len(kind.cuts) /\ i - 1 \in 0..(Len(kind.cuts) - 1) /\ (i - 1) + 1 = i
  BY <1>1
<1>4. u \in Nat /\ Upto(kind.cuts, (i - 1) + 1) = u + kind.cuts[(i - 1) + 1]
  BY <1>1, <1>3, UptoIs
<1>5. Upto(kind.cuts, i) = u + n
  BY <1>3, <1>4
<1>6. q = [b \in 1..n |-> <<pid, u + b>>]
  BY DEF BytesOf
<1> HIDE DEF n, u, q
<1>7. \A b \in 1..n : <<pid, u + b>> \in Byte
  BY <1>2, <1>4 DEF Byte
<1>8. q \in [1..n -> Byte]
  BY <1>6, <1>7
<1>9. q \in Seq(Byte) /\ Len(q) = n
  BY <1>2, <1>8
<1>10. \A b \in 1..Len(q) : q[b] = <<pid, u + b>>
  BY <1>6, <1>9
<1> QED
  BY <1>2, <1>4, <1>5, <1>9, <1>10 DEF n, u, q

(* What a data descriptor holds.                                           *)
LEMMA DataOfIs ==
    ASSUME NEW kind \in Kinds, NEW pid \in Nat, NEW i \in 1..Len(kind.cuts)
    PROVE  LET x == DataOf(kind, pid, i)
           IN  /\ x \in TxDesc /\ x.type = (IF kind.tso \/ kind.sum THEN "data" ELSE "legacy")
               /\ x.bytes = BytesOf(kind, pid, i)
               /\ x.EOP = (i = Len(kind.cuts)) /\ x.RS = (i = Len(kind.cuts)) /\ x.TSE = kind.tso
               /\ x.TXSM = kind.sum /\ x.VLE = (kind.tag # 0) /\ x.special = kind.tag /\ ~x.DD
<1>1. kind.tag \in Nat /\ kind.tso \in BOOLEAN /\ kind.sum \in BOOLEAN
  BY KindIs
<1> DEFINE q == BytesOf(kind, pid, i)
           ty == IF kind.tso \/ kind.sum THEN "data" ELSE "legacy"
           last == (i = Len(kind.cuts))
           vle == (kind.tag # 0)
           x == DataOf(kind, pid, i)
<1>2. q \in Seq(Byte)
  BY BytesOfIs
<1>3. ty \in {"context", "data", "legacy"} /\ last \in BOOLEAN /\ vle \in BOOLEAN
  OBVIOUS
<1>4. x = [NoDesc EXCEPT !.type = ty, !.bytes = q, !.EOP = last, !.RS = last, !.TSE = kind.tso,
                         !.TXSM = kind.sum, !.VLE = vle, !.special = kind.tag]
  BY DEF DataOf
<1> HIDE DEF q, ty, last, vle, x
<1>5. x = [type |-> ty, bytes |-> q, EOP |-> last, RS |-> last, TSE |-> kind.tso,
           VLE |-> vle, TXSM |-> kind.sum, IDE |-> FALSE, DD |-> FALSE, special |-> kind.tag,
           hdr_len |-> 0, mss |-> 0, paylen |-> 0]
  BY <1>4 DEF NoDesc
<1>6. FALSE \in BOOLEAN /\ 0 \in Nat
  OBVIOUS
<1>7. x \in TxDesc
  BY <1>1, <1>2, <1>3, <1>5, <1>6 DEF TxDesc
<1>8. /\ x.type = ty /\ x.bytes = q /\ x.EOP = last /\ x.RS = last /\ x.TSE = kind.tso
      /\ x.TXSM = kind.sum /\ x.VLE = vle /\ x.special = kind.tag /\ x.DD = FALSE
  BY <1>5
<1> QED
  BY <1>7, <1>8 DEF q, ty, last, vle, x

(* A packet's descriptors, one by one.                                     *)
LEMMA DescriptorsAre ==
    ASSUME NEW kind \in Kinds, NEW pid \in Nat
    PROVE  LET q == Descriptors(kind, pid)
           IN  /\ q \in Seq(TxDesc) /\ Len(q) = Count(kind)
               /\ \A j \in 1..Count(kind) :
                    q[j] = IF j <= Lead(kind) THEN ContextOf(kind)
                           ELSE DataOf(kind, pid, j - Lead(kind))
<1> DEFINE L == Len(kind.cuts)
           data == [i \in 1..L |-> DataOf(kind, pid, i)]
           q == Descriptors(kind, pid)
           c == ContextOf(kind)
<1>1. kind.cuts \in Seq(Nat) /\ L \in Nat /\ DOMAIN kind.cuts = 1..L /\ kind.context \in BOOLEAN
  BY KindIs
<1>2. q = IF kind.context THEN <<c>> \o data ELSE data
  <2>1. data = [i \in DOMAIN kind.cuts |-> DataOf(kind, pid, i)]
    BY <1>1
  <2> HIDE DEF data, L
  <2> QED
    BY <2>1, Zenon DEF Descriptors, ContextOf, DataOf, BytesOf, Upto
<1>3. \A i \in 1..L : DataOf(kind, pid, i) \in TxDesc
  BY DataOfIs
<1>4. c \in TxDesc
  BY ContextOfIs
<1> HIDE DEF q, L, c
<1>5. data \in Seq(TxDesc) /\ Len(data) = L /\ \A i \in 1..L : data[i] = DataOf(kind, pid, i)
  BY <1>1, <1>3
<1> HIDE DEF data
<1>6. CASE kind.context
  <2>1. q = <<c>> \o data /\ Lead(kind) = 1 /\ Count(kind) = L + 1
    BY <1>1, <1>2, <1>6 DEF Lead, Count, L
  <2>2. /\ q \in Seq(TxDesc) /\ Len(q) = L + 1 /\ q[1] = c
        /\ \A j \in 2..(L + 1) : q[j] = data[j - 1]
    BY <1>1, <1>4, <1>5, <2>1
  <2>3. ASSUME NEW j \in 1..(L + 1)
        PROVE  q[j] = IF j <= 1 THEN c ELSE DataOf(kind, pid, j - 1)
    <3>1. CASE j = 1
      BY <2>2, <3>1
    <3>2. CASE j # 1
      <4>1. j \in 2..(L + 1) /\ j - 1 \in 1..L /\ ~(j <= 1)
        BY <1>1, <3>2
      <4> QED
        BY <1>5, <2>2, <4>1
    <3> QED
      BY <3>1, <3>2
  <2> QED
    BY <2>1, <2>2, <2>3 DEF q, c
<1>7. CASE ~kind.context
  <2>1. q = data /\ Lead(kind) = 0 /\ Count(kind) = L
    BY <1>1, <1>2, <1>7 DEF Lead, Count, L
  <2>2. ASSUME NEW j \in 1..L
        PROVE  q[j] = IF j <= 0 THEN c ELSE DataOf(kind, pid, j - 0)
    BY <1>1, <1>5, <2>1
  <2> QED
    BY <1>5, <2>1, <2>2 DEF q, c
<1> QED
  BY <1>6, <1>7

(* No descriptor that the driver makes up is done.                         *)
LEMMA DescriptorsFresh ==
    ASSUME NEW kind \in Kinds, NEW pid \in Nat
    PROVE  Fresh(Descriptors(kind, pid))
<1> DEFINE q == Descriptors(kind, pid)
           n == Count(kind)
           l == Lead(kind)
<1>1. /\ q \in Seq(TxDesc) /\ Len(q) = n
      /\ \A j \in 1..n : q[j] = IF j <= l THEN ContextOf(kind) ELSE DataOf(kind, pid, j - l)
  BY DescriptorsAre
<1>2. n = Len(kind.cuts) + l /\ l \in Nat /\ Len(kind.cuts) \in Nat
  BY KindIs DEF Count
<1> HIDE DEF q, n, l
<1>3. ASSUME NEW j \in 1..n PROVE ~q[j].DD
  <2>1. CASE j <= l
    BY <1>1, <2>1, ContextOfIs
  <2>2. CASE ~(j <= l)
    <3>1. j - l \in 1..Len(kind.cuts)
      BY <1>2, <2>2
    <3> QED
      BY <1>1, <2>2, <3>1, DataOfIs
  <2> QED
    BY <2>1, <2>2
<1> QED
  BY <1>1, <1>3 DEF Fresh, q

-----------------------------------------------------------------------------
(* The driver and the ring                                                 *)

(* The device once the driver has written n descriptors and the tail.      *)
HandOver(d, list, n) ==
    [d EXCEPT !.ring = [k \in 0..(N - 1) |->
                          LET i == ((k + N - d.TDT) % N) + 1
                          IN  IF i <= n THEN list[i] ELSE @[k]],
              !.TDT = (@ + n) % N]

(* Handing over writes the free descriptors behind the tail and nothing    *)
(* else.                                                                   *)
LEMMA HandOverIs ==
    ASSUME NEW d, NEW c, NEW reap, Shared(d, c, reap), NEW list \in Seq(TxDesc), NEW n \in 1..Len(list),
           n <= (c + N - d.TDT - 1) % N
    PROVE  LET e == HandOver(d, list, n)
           IN  /\ e \in TxState /\ e.TDH = d.TDH /\ e.TDT = At(d.TDT, n) /\ e.TCTL_EN = d.TCTL_EN
               /\ e.irq = d.irq /\ e.tx = d.tx /\ e.wire = d.wire /\ e.TPT = d.TPT
               /\ e.GPTC = d.GPTC /\ e.TOTL = d.TOTL /\ e.TOTH = d.TOTH
               /\ \A k \in Indexes : e.ring[k] = IF Dist(k, d.TDT) < n THEN list[Dist(k, d.TDT) + 1]
                                                 ELSE d.ring[k]
               /\ n \in Indexes /\ Dist(d.TDT, c) + n < N
               /\ Dist(e.TDT, c) = Dist(d.TDT, c) + n
<1> DEFINE e == HandOver(d, list, n)
           ring2 == [k \in Indexes |-> IF Dist(k, d.TDT) < n THEN list[Dist(k, d.TDT) + 1] ELSE d.ring[k]]
           t2 == At(d.TDT, n)
<1>1. /\ N \in Nat /\ N > 1 /\ d \in TxState /\ c \in Indexes /\ d.TDT \in Indexes
      /\ d.ring \in [Indexes -> TxDesc]
  BY TxAssumption DEF Shared, TxState
<1>2. Len(list) \in Nat /\ n \in Nat /\ n > 0 /\ n <= Len(list)
  OBVIOUS
<1>3. n \in Indexes /\ n \in 0..N /\ Dist(d.TDT, c) + n < N /\ Dist(d.TDT, c) \in Indexes
  <2>1. n \in Indexes /\ Dist(d.TDT, c) + n < N
    BY <1>1, <1>2, FreeIs
  <2>2. Dist(d.TDT, c) \in Indexes
    BY <1>1, DistIs
  <2> QED
    BY <1>1, <2>1, <2>2 DEF Indexes
<1>4. e = [d EXCEPT !.ring = ring2, !.TDT = t2]
  <2>1. \A k \in Indexes :
          (LET i == ((k + N - d.TDT) % N) + 1 IN IF i <= n THEN list[i] ELSE d.ring[k]) = ring2[k]
    <3> SUFFICES ASSUME NEW k \in Indexes
                 PROVE  (IF Dist(k, d.TDT) + 1 <= n THEN list[Dist(k, d.TDT) + 1] ELSE d.ring[k]) =
                        (IF Dist(k, d.TDT) < n THEN list[Dist(k, d.TDT) + 1] ELSE d.ring[k])
      BY DEF Dist
    <3>1. Dist(k, d.TDT) \in Indexes
      BY <1>1, DistIs
    <3>2. Dist(k, d.TDT) + 1 <= n <=> Dist(k, d.TDT) < n
      BY <1>1, <1>2, <3>1 DEF Indexes
    <3> QED
      BY <3>2
  <2>2. [k \in 0..(N - 1) |->
                LET i == ((k + N - d.TDT) % N) + 1
                IN  IF i <= n THEN list[i] ELSE d.ring[k]] = ring2
    BY <2>1 DEF Indexes
  <2>3. e = [d EXCEPT !.ring = [k \in 0..(N - 1) |->
                LET i == ((k + N - d.TDT) % N) + 1
                IN  IF i <= n THEN list[i] ELSE d.ring[k]],
                !.TDT = (d.TDT + n) % N]
    BY <1>1 DEF HandOver, TxState
  <2> HIDE DEF e, ring2
  <2> QED
    BY <2>2, <2>3 DEF At
<1>5. ASSUME NEW k \in Indexes PROVE ring2[k] \in TxDesc
  <2>1. CASE Dist(k, d.TDT) < n
    <3>1. Dist(k, d.TDT) \in Indexes
      BY <1>1, DistIs
    <3>2. Dist(k, d.TDT) + 1 \in 1..Len(list)
      BY <1>1, <1>2, <2>1, <3>1 DEF Indexes
    <3>3. list[Dist(k, d.TDT) + 1] \in TxDesc
      BY <3>2
    <3> QED
      BY <2>1, <3>3
  <2>2. CASE ~(Dist(k, d.TDT) < n)
    BY <1>1, <2>2
  <2> QED
    BY <2>1, <2>2
<1>6. t2 \in Indexes
  BY <1>1, <1>3, AtIs
<1>7. Dist(t2, c) = Dist(d.TDT, c) + n
  BY <1>1, <1>2, FreeIs
<1>8. ring2 \in [Indexes -> TxDesc]
  BY <1>5
<1>9. \A k \in Indexes : ring2[k] = IF Dist(k, d.TDT) < n THEN list[Dist(k, d.TDT) + 1] ELSE d.ring[k]
  OBVIOUS
<1> HIDE DEF e, ring2, t2
<1>10. /\ e \in TxState /\ e.TDH = d.TDH /\ e.TDT = t2 /\ e.TCTL_EN = d.TCTL_EN
       /\ e.irq = d.irq /\ e.tx = d.tx /\ e.wire = d.wire /\ e.TPT = d.TPT
       /\ e.GPTC = d.GPTC /\ e.TOTL = d.TOTL /\ e.TOTH = d.TOTH /\ e.ring = ring2
  BY <1>1, <1>4, <1>6, <1>8 DEF TxState
<1> QED
  BY <1>3, <1>7, <1>9, <1>10 DEF e, t2

(* Handing over descriptors that are not done.                             *)
LEMMA HandOverShared ==
    ASSUME NEW d, NEW c, NEW reap, Shared(d, c, reap), NEW list, Fresh(list), NEW n \in 1..Len(list),
           n <= (c + N - d.TDT - 1) % N
    PROVE  Shared(HandOver(d, list, n), c, reap)
<1> DEFINE e == HandOver(d, list, n)
<1>1. list \in Seq(TxDesc) /\ \A i \in 1..Len(list) : ~list[i].DD
  BY DEF Fresh
<1>2. /\ e \in TxState /\ e.TDH = d.TDH /\ e.irq = d.irq
      /\ \A k \in Indexes : e.ring[k] = IF Dist(k, d.TDT) < n THEN list[Dist(k, d.TDT) + 1]
                                        ELSE d.ring[k]
      /\ n \in Indexes /\ Dist(e.TDT, c) = Dist(d.TDT, c) + n
  BY <1>1, HandOverIs
<1> HIDE DEF e
<1>3. /\ N \in Nat /\ N > 1 /\ d \in TxState /\ c \in Indexes /\ d.TDT \in Indexes /\ d.TDH \in Indexes
      /\ Placed(d.ring, d.TDH, d.TDT, c) /\ Told(d.irq.ICR, d.ring, reap) /\ reap \in BOOLEAN
  BY TxAssumption DEF Shared, TxState
<1>4. Len(list) \in Nat /\ n \in Nat /\ n > 0 /\ n <= Len(list)
  BY <1>1
<1>5. ASSUME NEW k \in Indexes, e.ring[k].DD PROVE d.ring[k].DD
  <2>1. CASE Dist(k, d.TDT) < n
    <3>1. Dist(k, d.TDT) \in Indexes
      BY <1>3, DistIs
    <3>2. Dist(k, d.TDT) + 1 \in 1..Len(list)
      BY <1>3, <1>4, <2>1, <3>1 DEF Indexes
    <3>3. ~list[Dist(k, d.TDT) + 1].DD /\ e.ring[k] = list[Dist(k, d.TDT) + 1]
      BY <1>1, <1>2, <2>1, <3>2
    <3> QED
      BY <1>5, <3>3
  <2>2. CASE ~(Dist(k, d.TDT) < n)
    BY <1>2, <1>5, <2>2
  <2> QED
    BY <2>1, <2>2
<1>6. Dist(d.TDH, c) <= Dist(e.TDT, c)
  <2>1. Dist(d.TDH, c) \in Indexes /\ Dist(d.TDT, c) \in Indexes
    BY <1>3, DistIs
  <2>2. Dist(d.TDH, c) <= Dist(d.TDT, c)
    BY <1>3 DEF Placed
  <2> QED
    BY <1>2, <1>3, <1>4, <2>1, <2>2 DEF Indexes
<1>7. Placed(e.ring, e.TDH, e.TDT, c)
  BY <1>2, <1>3, <1>5, <1>6 DEF Placed
<1>8. Told(e.irq.ICR, e.ring, reap)
  BY <1>2, <1>3, <1>5 DEF Told
<1>9. Shared(e, c, reap)
  BY <1>2, <1>3, <1>7, <1>8 DEF Shared
<1> QED
  BY <1>9 DEF e

(* The driver takes back the first descriptor that is done, and with it    *)
(* the ones before it.                                                     *)
LEMMA ReclaimShared ==
    ASSUME NEW d, NEW c, Shared(d, c, TRUE), NEW k \in Indexes, d.ring[k].DD,
           \A i \in Indexes : d.ring[i].DD => Dist(k, c) <= Dist(i, c)
    PROVE  /\ Shared([d EXCEPT !.ring[k].DD = FALSE], (k + 1) % N, TRUE)
           /\ [d EXCEPT !.ring[k].DD = FALSE] \in TxState
<1> DEFINE d2 == [d.ring[k] EXCEPT !.DD = FALSE]
           ring2 == [d.ring EXCEPT ![k] = d2]
           e == [d EXCEPT !.ring[k].DD = FALSE]
           c2 == At(k, 1)
<1>1. /\ N \in Nat /\ N > 1 /\ d \in TxState /\ c \in Indexes /\ d.TDT \in Indexes /\ d.TDH \in Indexes
      /\ Placed(d.ring, d.TDH, d.TDT, c) /\ d.ring \in [Indexes -> TxDesc]
  BY TxAssumption DEF Shared, TxState
<1>2. d2 \in TxDesc /\ ~d2.DD
  BY <1>1 DEF TxDesc
<1>3. e = [d EXCEPT !.ring = ring2]
  BY <1>1 DEF TxState
<1> HIDE DEF d2, e
<1>4. ring2 \in [Indexes -> TxDesc] /\ ring2[k] = d2 /\ \A i \in Indexes : i # k => ring2[i] = d.ring[i]
  BY <1>1, <1>2
<1> HIDE DEF ring2
<1>5. e \in TxState /\ e.ring = ring2 /\ e.TDH = d.TDH /\ e.TDT = d.TDT
  BY <1>1, <1>3, <1>4 DEF TxState
<1>6. c2 \in Indexes /\ c2 = (k + 1) % N /\ c2 = IF k + 1 < N THEN k + 1 ELSE k + 1 - N
  <2>1. 1 \in 0..N
    BY <1>1
  <2> QED
    BY <2>1, AtIs DEF At
<1> HIDE DEF c2
<1>7. ASSUME NEW i \in Indexes, Dist(k, c) < Dist(i, c)
      PROVE  Dist(i, c2) = Dist(i, c) - Dist(k, c) - 1
  BY <1>1, <1>7, DistAfter DEF c2
<1>8. Dist(k, c) < Dist(d.TDH, c) /\ Dist(d.TDH, c) <= Dist(d.TDT, c)
  BY <1>1 DEF Placed
<1>9. Dist(d.TDH, c) \in Nat /\ Dist(d.TDT, c) \in Nat /\ Dist(k, c) \in Nat
  <2>1. Dist(d.TDH, c) \in Indexes /\ Dist(d.TDT, c) \in Indexes /\ Dist(k, c) \in Indexes
    BY <1>1, DistIs
  <2> QED
    BY <1>1, <2>1 DEF Indexes
<1>10. /\ Dist(d.TDH, c2) = Dist(d.TDH, c) - Dist(k, c) - 1
       /\ Dist(d.TDT, c2) = Dist(d.TDT, c) - Dist(k, c) - 1
  <2>1. Dist(k, c) < Dist(d.TDT, c)
    BY <1>8, <1>9
  <2> QED
    BY <1>1, <1>7, <1>8, <2>1
<1>11. Dist(d.TDH, c2) <= Dist(d.TDT, c2)
  BY <1>8, <1>9, <1>10
<1>12. ASSUME NEW i \in Indexes, ring2[i].DD
       PROVE  Dist(i, c2) < Dist(d.TDH, c2)
  <2>1. i # k
    BY <1>2, <1>4, <1>12
  <2>2. d.ring[i].DD
    BY <1>4, <1>12, <2>1
  <2>3. Dist(i, c) < Dist(d.TDH, c) /\ Dist(k, c) <= Dist(i, c)
    BY <1>1, <2>2 DEF Placed
  <2>4. Dist(i, c) # Dist(k, c)
    BY <1>1, <2>1, DistIs
  <2>5. Dist(i, c) \in Nat
    <3>1. Dist(i, c) \in Indexes
      BY <1>1, DistIs
    <3> QED
      BY <1>1, <3>1 DEF Indexes
  <2>6. Dist(k, c) < Dist(i, c)
    BY <1>9, <2>3, <2>4, <2>5
  <2>7. Dist(i, c2) = Dist(i, c) - Dist(k, c) - 1
    BY <1>7, <2>6
  <2> QED
    BY <1>9, <1>10, <2>3, <2>5, <2>7
<1>13. Placed(e.ring, e.TDH, e.TDT, c2)
  BY <1>5, <1>11, <1>12 DEF Placed
<1>14. Shared(e, c2, TRUE)
  BY <1>5, <1>6, <1>13 DEF Shared, Told
<1> QED
  BY <1>5, <1>6, <1>14 DEF e

(* A change that leaves the ring alone and clears no cause.                *)
LEMMA SameShared ==
    ASSUME NEW d, NEW e, NEW c, NEW reap, Shared(d, c, reap), e \in TxState,
           e.ring = d.ring, e.TDH = d.TDH, e.TDT = d.TDT, e.irq.ICR = d.irq.ICR
    PROVE  Shared(e, c, reap)
BY DEF Shared

(* A descriptor that holds nothing, and the device after a reset.          *)
LEMMA ResetShared == Shared(ResetTx, 0, FALSE) /\ ResetTx.wire = <<>>
<1>1. NoDesc \in TxDesc /\ ~NoDesc.DD
  <2>1. <<>> \in Seq(Byte)
    OBVIOUS
  <2> QED
    BY <2>1 DEF NoDesc, TxDesc
<1>2. N \in Nat /\ N > 1 /\ 0 \in Indexes /\ 0 \in Words
  BY TxAssumption, WordIs DEF Indexes
<1>3. NoTx \in TxPart
  <2>1. <<>> \in Seq(Byte)
    OBVIOUS
  <2> QED
    BY <2>1 DEF NoTx, TxPart
<1> DEFINE ring == [k \in 0..(N - 1) |-> NoDesc]
<1>4. ring \in [Indexes -> TxDesc] /\ \A k \in Indexes : ~ring[k].DD
  BY <1>1 DEF Indexes
<1>5. ResetIrq \in IrqState /\ ResetIrq.ICR = {}
  BY ResetIrqType DEF ResetIrq
<1>6. ResetTx = [TCTL_EN |-> FALSE, TDH |-> 0, TDT |-> 0, tx |-> NoTx, irq |-> ResetIrq,
                 TPT |-> 0, GPTC |-> 0, TOTL |-> 0, TOTH |-> 0, ring |-> ring, wire |-> <<>>]
  BY DEF ResetTx
<1> HIDE DEF ring
<1>7. /\ ResetTx \in TxState /\ ResetTx.ring = ring /\ ResetTx.TDH = 0 /\ ResetTx.TDT = 0
      /\ ResetTx.wire = <<>>
  <2>1. <<>> \in Seq(WireFrame) /\ FALSE \in BOOLEAN
    OBVIOUS
  <2> QED
    BY <1>2, <1>3, <1>4, <1>5, <1>6, <2>1 DEF TxState
<1>8. Placed(ring, 0, 0, 0)
  <2>1. Dist(0, 0) \in Indexes
    BY <1>2, DistIs
  <2>2. Dist(0, 0) <= Dist(0, 0)
    BY <1>2, <2>1 DEF Indexes
  <2> QED
    BY <1>4, <2>2 DEF Placed
<1>9. Told(ResetTx.irq.ICR, ring, FALSE)
  BY <1>4 DEF Told
<1> QED
  BY <1>2, <1>7, <1>8, <1>9 DEF Shared

(* The driver and the device start with an empty ring.                     *)
LEMMA InitRingInv == Init => RingInv
<1> SUFFICES ASSUME Init PROVE RingInv
  OBVIOUS
<1>1. s = ResetTx /\ todo = <<>> /\ posted = <<>> /\ clean = 0 /\ reaping = FALSE
  BY DEF Init
<1>2. Fresh(<<>>)
  BY DEF Fresh
<1>3. <<>> \in Seq(Kinds)
  OBVIOUS
<1> QED
  BY <1>1, <1>2, <1>3, ResetShared DEF RingInv

(* What is left of a list of descriptors that are not done.                *)
LEMMA RestFresh ==
    ASSUME NEW list, Fresh(list), NEW n \in 1..Len(list)
    PROVE  LET r == SubSeq(list, n + 1, Len(list))
           IN  /\ Fresh(r) /\ Len(r) = Len(list) - n
               /\ \A i \in 1..Len(r) : r[i] = list[n + i]
<1> DEFINE r == SubSeq(list, n + 1, Len(list))
           L == Len(list)
<1>1. list \in Seq(TxDesc) /\ L \in Nat /\ \A i \in 1..L : ~list[i].DD
  BY DEF Fresh
<1>2. n \in Nat /\ n <= L /\ n > 0
  BY <1>1
<1>3. r \in Seq(TxDesc) /\ Len(r) = L - n /\ \A i \in 1..(L - n) : r[i] = list[n + i]
  <2>1. \A i \in (n + 1)..L : list[i] \in TxDesc
    BY <1>1, <1>2
  <2>2. Len(r) = L - n
    BY <1>1, <1>2
  <2>3. r \in Seq(TxDesc)
    BY <1>1, <1>2, <2>1
  <2>4. \A i \in 1..(L - n) : r[i] = list[(n + 1) + i - 1]
    BY <1>1, <1>2
  <2>5. \A i \in 1..(L - n) : (n + 1) + i - 1 = n + i
    BY <1>1, <1>2
  <2> QED
    BY <2>2, <2>3, <2>4, <2>5
<1> HIDE DEF r
<1>4. \A i \in 1..(L - n) : n + i \in 1..L
  BY <1>1, <1>2
<1>5. \A i \in 1..(L - n) : ~r[i].DD
  BY <1>1, <1>3, <1>4
<1> QED
  BY <1>3, <1>5 DEF Fresh, r

(* Every step of driver and device keeps the ring shared properly.         *)
LEMMA NextRingInv == RingInv /\ [Next]_vars => RingInv'
<1> SUFFICES ASSUME RingInv, [Next]_vars PROVE RingInv'
  OBVIOUS
<1>0. /\ Shared(s, clean, reaping) /\ Fresh(todo) /\ posted \in Seq(Kinds)
      /\ s \in TxState /\ clean \in Indexes /\ reaping \in BOOLEAN /\ s.irq \in IrqState
      /\ N \in Nat /\ N > 1
  BY TxAssumption DEF RingInv, Shared, TxState
<1>1. CASE Post
  <2>1. PICK kind \in Kinds : /\ posted' = Append(posted, kind)
                              /\ todo' = Descriptors(kind, Len(posted) + 1)
    BY <1>1 DEF Post
  <2>2. posted' \in Seq(Kinds)
    BY <1>0, <2>1
  <2>3. Len(posted) + 1 \in Nat
    BY <1>0
  <2>4. Fresh(todo')
    BY <2>1, <2>3, DescriptorsFresh
  <2>5. s' = s /\ clean' = clean /\ reaping' = reaping
    BY <1>1 DEF Post
  <2> QED
    BY <1>0, <2>2, <2>4, <2>5 DEF RingInv
<1>2. CASE WriteTDT
  <2>1. PICK n \in 1..Len(todo) : /\ n <= Free /\ s' = start_xmit(HandOver(s, todo, n))
                                  /\ todo' = SubSeq(todo, n + 1, Len(todo))
    BY <1>2, Zenon DEF WriteTDT, HandOver
  <2>2. posted' = posted /\ clean' = clean /\ reaping' = reaping
    BY <1>2 DEF WriteTDT
  <2>3. n <= (clean + N - s.TDT - 1) % N
    BY <2>1 DEF Free
  <2>4. Shared(HandOver(s, todo, n), clean, reaping)
    BY <1>0, <2>3, HandOverShared
  <2>5. Shared(s', clean, reaping)
    BY <2>1, <2>4, StartXmitShared
  <2>6. Fresh(todo')
    BY <1>0, <2>1, RestFresh
  <2> QED
    BY <1>0, <2>2, <2>5, <2>6 DEF RingInv
<1>3. CASE WriteTCTL
  <2>1. PICK en \in BOOLEAN : s' = start_xmit([s EXCEPT !.TCTL_EN = en])
    BY <1>3 DEF WriteTCTL
  <2>2. posted' = posted /\ clean' = clean /\ reaping' = reaping /\ todo' = todo
    BY <1>3 DEF WriteTCTL
  <2> DEFINE e == [s EXCEPT !.TCTL_EN = en]
  <2>3. e \in TxState /\ e.ring = s.ring /\ e.TDH = s.TDH /\ e.TDT = s.TDT /\ e.irq = s.irq
    BY <1>0 DEF TxState
  <2> HIDE DEF e
  <2>4. Shared(e, clean, reaping)
    BY <1>0, <2>3, SameShared
  <2>5. Shared(s', clean, reaping)
    BY <2>1, <2>4, StartXmitShared DEF e
  <2> QED
    BY <1>0, <2>2, <2>5 DEF RingInv
<1>4. CASE ReadICR
  <2> DEFINE irq == mac_icr_read(s.irq)
  <2>1. /\ s' = [s EXCEPT !.irq = irq] /\ posted' = posted /\ clean' = clean /\ todo' = todo
    BY <1>4 DEF ReadICR
  <2>2. reaping' = (reaping \/ "TXDW" \in s.irq.ICR)
    BY <1>4 DEF ReadICR
  <2>3. irq \in IrqState
    BY <1>0, IcrReadType
  <2> HIDE DEF irq
  <2>4. s' \in TxState /\ s'.ring = s.ring /\ s'.TDH = s.TDH /\ s'.TDT = s.TDT
    BY <1>0, <2>1, <2>3 DEF TxState
  <2>5. reaping' \in BOOLEAN
    BY <2>2
  <2>6. Told(s'.irq.ICR, s'.ring, reaping')
    BY <1>0, <2>2, <2>4 DEF Shared, Told
  <2>7. Shared(s', clean', reaping')
    BY <1>0, <2>1, <2>4, <2>5, <2>6 DEF Shared
  <2> QED
    BY <1>0, <2>1, <2>7 DEF RingInv
<1>5. CASE Reclaim
  <2> DEFINE done == {k \in Outstanding : s.ring[k].DD}
  <2>1. posted' = posted /\ todo' = todo /\ reaping
    BY <1>5 DEF Reclaim
  <2>2. \A k \in Indexes : s.ring[k].DD <=> k \in done
    <3>1. ASSUME NEW k \in Indexes, s.ring[k].DD PROVE k \in done
      <4>1. Dist(k, clean) < Dist(s.TDH, clean) /\ Dist(s.TDH, clean) <= Dist(s.TDT, clean)
        BY <1>0, <3>1 DEF Shared, Placed
      <4>2. Dist(k, clean) \in Indexes /\ Dist(s.TDH, clean) \in Indexes /\ Dist(s.TDT, clean) \in Indexes
        BY <1>0, DistIs DEF TxState
      <4>3. Dist(k, clean) < Dist(s.TDT, clean)
        BY <1>0, <4>1, <4>2 DEF Indexes
      <4> QED
        BY <3>1, <4>3 DEF Outstanding, Dist, Indexes
    <3> QED
      BY <3>1
  <2>3. done \subseteq Indexes
    BY DEF Outstanding, Indexes
  <2>4. CASE done = {}
    <3>1. reaping' = FALSE /\ s' = s /\ clean' = clean
      BY <1>5, <2>4 DEF Reclaim
    <3>2. Told(s.irq.ICR, s.ring, FALSE)
      BY <2>2, <2>4 DEF Told
    <3> QED
      BY <1>0, <2>1, <3>1, <3>2 DEF RingInv, Shared
  <2>5. CASE done # {}
    <3> DEFINE first(j) == \A i \in done : Dist(j, clean) <= Dist(i, clean)
               k == CHOOSE j \in done : first(j)
    <3>1. clean' = (k + 1) % N /\ s' = [s EXCEPT !.ring[k].DD = FALSE] /\ reaping' = TRUE
      BY <1>5, <2>5, Zenon DEF Reclaim, Dist
    <3>2. \E j \in done : first(j)
      <4> DEFINE T == {Dist(i, clean) : i \in done}
      <4>1. T \subseteq Nat
        <5>1. \A i \in done : Dist(i, clean) \in Indexes
          BY <1>0, <2>3, DistIs
        <5> HIDE DEF done
        <5> QED
          BY <1>0, <5>1 DEF Indexes
      <4>2. T # {}
        BY <2>5
      <4> HIDE DEF done
      <4>3. PICK m \in T : \A x \in T : m <= x
        <5> HIDE DEF T
        <5> QED
          BY <4>1, <4>2, LeastNumber
      <4>4. PICK j \in done : m = Dist(j, clean)
        OBVIOUS
      <4> QED
        BY <4>3, <4>4
    <3>3. k \in done /\ first(k)
      <4> HIDE DEF done, first
      <4> QED
        BY <3>2, Zenon
    <3> HIDE DEF k
    <3>4. k \in Indexes /\ s.ring[k].DD /\ \A i \in Indexes : s.ring[i].DD => Dist(k, clean) <= Dist(i, clean)
      <4> HIDE DEF done
      <4> QED
        BY <2>2, <2>3, <3>3
    <3>5. Shared(s, clean, TRUE)
      BY <1>0, <2>1 DEF Shared, Told
    <3>6. Shared(s', clean', TRUE)
      BY <3>1, <3>4, <3>5, ReclaimShared
    <3> QED
      BY <1>0, <2>1, <3>1, <3>6 DEF RingInv
  <2> QED
    BY <2>4, <2>5
<1>6. CASE ReadStatistics
  <2>1. /\ s' = [s EXCEPT !.TPT = 0, !.GPTC = 0, !.TOTH = 0, !.TOTL = 0]
        /\ posted' = posted /\ clean' = clean /\ todo' = todo /\ reaping' = reaping
    BY <1>6 DEF ReadStatistics
  <2>2. s' \in TxState /\ s'.ring = s.ring /\ s'.TDH = s.TDH /\ s'.TDT = s.TDT /\ s'.irq = s.irq
    BY <1>0, <2>1, WordIs DEF TxState
  <2>3. Shared(s', clean, reaping)
    BY <1>0, <2>2, SameShared
  <2> QED
    BY <1>0, <2>1, <2>3 DEF RingInv
<1>7. CASE Reset
  <2>1. s' = ResetTx /\ todo' = <<>> /\ posted' = <<>> /\ clean' = 0 /\ reaping' = FALSE
    BY <1>7 DEF Reset
  <2>2. Fresh(<<>>) /\ <<>> \in Seq(Kinds)
    BY DEF Fresh
  <2> QED
    BY <2>1, <2>2, ResetShared DEF RingInv
<1>8. CASE Migrate
  <2> DEFINE irq == PostLoadIrq(PreSaveIrq(s.irq))
             tx == PostLoadTx(s.tx)
  <2>1. /\ s' = [s EXCEPT !.tx = tx, !.irq = irq]
        /\ posted' = posted /\ clean' = clean /\ todo' = todo /\ reaping' = reaping
    BY <1>8 DEF Migrate
  <2>2. irq \in IrqState /\ irq.ICR = s.irq.ICR
    BY <1>0, SaveType
  <2>3. tx \in TxPart
    BY <1>0 DEF TxState, TxPart, PostLoadTx
  <2> HIDE DEF irq, tx
  <2>4. s' \in TxState /\ s'.ring = s.ring /\ s'.TDH = s.TDH /\ s'.TDT = s.TDT /\ s'.irq = irq
    BY <1>0, <2>1, <2>2, <2>3 DEF TxState
  <2>5. Shared(s', clean, reaping)
    BY <1>0, <2>2, <2>4, SameShared
  <2> QED
    BY <1>0, <2>1, <2>5 DEF RingInv
<1>9. CASE UNCHANGED vars
  BY <1>9 DEF vars, RingInv
<1> QED
  BY <1>1, <1>2, <1>3, <1>4, <1>5, <1>6, <1>7, <1>8, <1>9 DEF Next

-----------------------------------------------------------------------------
(* The ring is shared properly: the device stays between the driver's two  *)
(* indexes, and a descriptor is reported done only behind the head.        *)
THEOREM RingInvariant == Spec => []RingInv
BY InitRingInv, NextRingInv, PTL DEF Spec

(* Whatever the guest posts, however it is migrated: a packet reported     *)
(* done that the driver is not looking for has its cause in ICR.           *)
THEOREM NoLostTransmitHolds == Spec => []NoLostTransmit
<1>1. RingInv => NoLostTransmit
  <2> SUFFICES ASSUME RingInv, NEW k \in Outstanding, s.ring[k].DD, ~reaping
               PROVE  "TXDW" \in s.irq.ICR
    BY DEF NoLostTransmit
  <2>1. k \in Indexes
    BY DEF Outstanding, Indexes
  <2> QED
    BY <2>1 DEF RingInv, Shared, Told
<1> QED
  BY <1>1, RingInvariant, PTL

-----------------------------------------------------------------------------
(* Sequences joined                                                        *)

Joins(u, q, S) ==
    /\ u \in [0..Len(q) -> Seq(S)] /\ u[0] = <<>>
    /\ \A n \in 1..Len(q) : u[n] = u[n - 1] \o q[n]

(* FlattenSeq, one sequence after the other.                               *)
LEMMA FlattenIs ==
    ASSUME NEW S, NEW q \in Seq(Seq(S))
    PROVE  \E u : Joins(u, q, S) /\ FlattenSeq(q) = u[Len(q)]
<1> DEFINE L == Len(q)
           G == CHOOSE g : g = [i \in 1..L |-> IF i = 1 THEN q[i] ELSE g[i - 1] \o q[i]]
<1>1. L \in Nat /\ (\A n \in 1..L : q[n] \in Seq(S)) /\ <<>> \in Seq(S)
  OBVIOUS
<1>2. FlattenSeq(q) = IF L = 0 THEN q ELSE G[L]
  BY Zenon DEF FlattenSeq
<1>a. L = 0 => q = <<>>
  OBVIOUS
<1> HIDE DEF L
<1>3. PICK f : Turns(f, "join", <<>>, q, L)
  BY <1>1, TurnsExist
<1>4. \A x, y : Turn("join", x, y) = x \o y
  BY DEF Turn
<1>5. f = [n \in 0..L |-> IF n = 0 THEN <<>> ELSE f[n - 1] \o q[n]]
  BY <1>3, <1>4, Zenon DEF Turns
<1>7. f[0] = <<>> /\ \A n \in 1..L : f[n] = f[n - 1] \o q[n]
  <2>1. 0 \in 0..L /\ \A n \in 1..L : n \in 0..L /\ n # 0
    BY <1>1
  <2>2. \A n \in 0..L : f[n] = IF n = 0 THEN <<>> ELSE f[n - 1] \o q[n]
    BY <1>5, Zenon
  <2> QED
    BY <2>1, <2>2, Zenon
<1> DEFINE T == {n \in 0..L : f[n] \notin Seq(S)}
<1>8. ASSUME T # {} PROVE FALSE
  <2>1. T \subseteq Nat
    BY <1>1
  <2>2. PICK n \in T : \A y \in T : n <= y
    <3> HIDE DEF T
    <3> QED
      BY <1>8, <2>1, LeastNumber
  <2>3. n \in 0..L /\ n \in Nat /\ f[n] \notin Seq(S) /\ n # 0
    BY <1>1, <1>7, <2>1, <2>2
  <2>4. n - 1 \in 0..L /\ n - 1 \notin T /\ n \in 1..L
    BY <1>1, <2>2, <2>3
  <2>5. f[n - 1] \in Seq(S) /\ f[n] = f[n - 1] \o q[n] /\ q[n] \in Seq(S)
    BY <1>1, <1>7, <2>4
  <2> QED
    BY <2>3, <2>5
<1>9. \A n \in 0..L : f[n] \in Seq(S)
  BY <1>8
<1>10. f \in [0..L -> Seq(S)]
  BY <1>5, <1>9
<1>11. Joins(f, q, S)
  BY <1>7, <1>10 DEF Joins, L
<1>12. FlattenSeq(q) = f[L]
  <2>1. CASE L = 0
    BY <1>2, <1>7, <1>a, <2>1
  <2>2. CASE L # 0
    <3> DEFINE h == [i \in 1..L |-> f[i]]
    <3>1. ASSUME NEW i \in 1..L
          PROVE  h[i] = IF i = 1 THEN q[i] ELSE h[i - 1] \o q[i]
      <4>1. CASE i = 1
        <5>1. f[1] = f[1 - 1] \o q[1] /\ 1 - 1 = 0 /\ q[1] \in Seq(S)
          <6>1. 1 \in 1..L /\ 1 - 1 = 0
            BY <3>1, <4>1
          <6> QED
            BY <1>1, <1>7, <6>1
        <5>2. f[1] = <<>> \o q[1]
          BY <1>7, <5>1
        <5>3. f[1] = q[1]
          BY <5>1, <5>2
        <5> QED
          BY <4>1, <5>3
      <4>2. CASE i # 1
        <5>1. i - 1 \in 1..L
          BY <1>1, <4>2
        <5> QED
          BY <1>7, <4>2, <5>1
      <4> QED
        BY <4>1, <4>2
    <3>2. h = [i \in 1..L |-> h[i]]
      OBVIOUS
    <3> HIDE DEF h
    <3>3. h = [i \in 1..L |-> IF i = 1 THEN q[i] ELSE h[i - 1] \o q[i]]
      BY <3>1, <3>2
    <3>4. G = [i \in 1..L |-> IF i = 1 THEN q[i] ELSE G[i - 1] \o q[i]]
      BY <3>3, Zenon
    <3> HIDE DEF G
    <3>5. \A i \in 1..L : G[i] = IF i = 1 THEN q[i] ELSE G[i - 1] \o q[i]
      BY <3>4
    <3> DEFINE U == {n \in 1..L : G[n] # h[n]}
    <3>6. ASSUME U # {} PROVE FALSE
      <4>1. U \subseteq Nat
        BY <1>1
      <4>2. PICK n \in U : \A y \in U : n <= y
        <5> HIDE DEF U
        <5> QED
          BY <3>6, <4>1, LeastNumber
      <4>3. n \in 1..L /\ G[n] # h[n]
        BY <4>2
      <4>4. n # 1
        BY <3>1, <3>5, <4>3
      <4>5. n - 1 \in 1..L /\ n - 1 \notin U
        BY <1>1, <4>2, <4>3, <4>4
      <4> QED
        BY <3>1, <3>5, <4>3, <4>4, <4>5
    <3>7. L \in 1..L /\ L \notin U
      BY <1>1, <2>2, <3>6
    <3> QED
      BY <1>2, <2>2, <3>7 DEF h
  <2> QED
    BY <2>1, <2>2
<1> QED
  BY <1>11, <1>12 DEF L

(* What is joined consists of the same elements.                           *)
LEMMA FlattenType ==
    ASSUME NEW S, NEW q \in Seq(Seq(S))
    PROVE  FlattenSeq(q) \in Seq(S)
<1>1. PICK u : Joins(u, q, S) /\ FlattenSeq(q) = u[Len(q)]
  BY FlattenIs
<1>2. Len(q) \in 0..Len(q)
  OBVIOUS
<1> QED
  BY <1>1, <1>2 DEF Joins

(* Nothing joined is nothing.                                              *)
LEMMA FlattenEmpty == FlattenSeq(<<>>) = <<>>
BY DEF FlattenSeq

(* One more sequence is joined at the end.                                 *)
LEMMA FlattenAppend ==
    ASSUME NEW S, NEW q \in Seq(Seq(S)), NEW x \in Seq(S)
    PROVE  FlattenSeq(Append(q, x)) = FlattenSeq(q) \o x
<1> DEFINE r == Append(q, x)
           L == Len(q)
<1>1. /\ r \in Seq(Seq(S)) /\ L \in Nat /\ Len(r) = L + 1 /\ r[L + 1] = x
      /\ \A n \in 1..L : q[n] = r[n]
  OBVIOUS
<1> HIDE DEF r, L
<1>2. PICK u : Joins(u, q, S) /\ FlattenSeq(q) = u[L]
  BY FlattenIs DEF L
<1>3. PICK v : Joins(v, r, S) /\ FlattenSeq(r) = v[Len(r)]
  BY <1>1, FlattenIs
<1> DEFINE T == {n \in 0..L : u[n] # v[n]}
<1>4. ASSUME T # {} PROVE FALSE
  <2>1. T \subseteq Nat
    BY <1>1
  <2>2. PICK n \in T : \A y \in T : n <= y
    <3> HIDE DEF T
    <3> QED
      BY <1>4, <2>1, LeastNumber
  <2>3. n \in 0..L /\ n \in Nat /\ u[n] # v[n] /\ n # 0
    BY <1>2, <1>3, <2>1, <2>2 DEF Joins
  <2>4. n - 1 \in 0..L /\ n - 1 \notin T /\ n \in 1..L /\ n \in 1..Len(r)
    <3> HIDE DEF T
    <3> QED
      BY <1>1, <2>2, <2>3
  <2>5. u[n - 1] = v[n - 1]
    BY <2>4
  <2>6. u[n] = u[n - 1] \o q[n] /\ v[n] = v[n - 1] \o r[n]
    BY <1>2, <1>3, <2>4 DEF Joins, L
  <2> QED
    BY <1>1, <2>3, <2>4, <2>5, <2>6
<1>5. v[L + 1] = v[L] \o x
  <2>1. L + 1 \in 1..Len(r) /\ (L + 1) - 1 = L
    BY <1>1
  <2>2. v[L + 1] = v[(L + 1) - 1] \o r[L + 1]
    BY <1>3, <2>1 DEF Joins
  <2> QED
    BY <1>1, <2>1, <2>2
<1>6. u[L] = v[L]
  <2>1. L \in 0..L /\ L \notin T
    <3> HIDE DEF T
    <3> QED
      BY <1>1, <1>4
  <2> QED
    BY <2>1
<1> QED
  BY <1>1, <1>2, <1>3, <1>5, <1>6 DEF r

-----------------------------------------------------------------------------
(* Statistics                                                              *)

(* The bytes of the frames after the first c, and the registers that count *)
(* them.                                                                   *)
Lengths(wire, c) == [i \in 1..(Len(wire) - c) |-> Len(wire[c + i].bytes)]
Octets(wire, c) == Total(Lengths(wire, c))

Counted(d, c) ==
    /\ c \in 0..Len(d.wire)
    /\ d.TPT = (Len(d.wire) - c) % 2 ^ W /\ d.GPTC = d.TPT
    /\ d.TOTH * 2 ^ W + d.TOTL = Octets(d.wire, c) % (2 ^ W * 2 ^ W)

(* The lengths are numbers, one for each frame after the first c.          *)
LEMMA LengthsType ==
    ASSUME NEW wire \in Seq(WireFrame), NEW c \in 0..Len(wire)
    PROVE  /\ Lengths(wire, c) \in Seq(Nat) /\ Len(Lengths(wire, c)) = Len(wire) - c
           /\ Octets(wire, c) \in Nat /\ Len(wire) - c \in Nat
<1> DEFINE n == Len(wire) - c
           q == Lengths(wire, c)
<1>1. n \in Nat /\ Len(wire) \in Nat /\ c \in Nat
  OBVIOUS
<1>2. \A i \in 1..n : c + i \in 1..Len(wire)
  BY <1>1
<1>3. \A i \in 1..Len(wire) : Len(wire[i].bytes) \in Nat
  <2>1. \A i \in 1..Len(wire) : wire[i] \in WireFrame
    OBVIOUS
  <2>2. \A f \in WireFrame : f.bytes \in Seq(Byte) /\ Len(f.bytes) \in Nat
    BY DEF WireFrame
  <2> QED
    BY <2>1, <2>2
<1>4. q = [i \in 1..n |-> Len(wire[c + i].bytes)]
  BY DEF Lengths
<1> HIDE DEF n, q
<1>5. q \in [1..n -> Nat]
  BY <1>2, <1>3, <1>4
<1>6. q \in Seq(Nat) /\ Len(q) = n
  BY <1>1, <1>5
<1>7. Total(q) \in Nat
  BY <1>6, TotalType
<1> QED
  BY <1>1, <1>6, <1>7 DEF Octets, n, q

(* One more frame on the wire.                                             *)
LEMMA OctetsAppend ==
    ASSUME NEW wire \in Seq(WireFrame), NEW c \in 0..Len(wire), NEW f \in WireFrame
    PROVE  Octets(Append(wire, f), c) = Octets(wire, c) + Len(f.bytes)
<1> DEFINE w == Append(wire, f)
           n == Len(wire) - c
           x == Len(f.bytes)
           q == Lengths(wire, c)
           r == Lengths(w, c)
<1>1. /\ n \in Nat /\ Len(wire) \in Nat /\ c \in Nat /\ w \in Seq(WireFrame) /\ Len(w) = Len(wire) + 1
      /\ w[Len(wire) + 1] = f /\ \A i \in 1..Len(wire) : w[i] = wire[i]
  OBVIOUS
<1>2. x \in Nat
  <2>1. f.bytes \in Seq(Byte)
    BY DEF WireFrame
  <2> QED
    BY <2>1
<1>3. q \in Seq(Nat) /\ Len(q) = n
  BY LengthsType
<1> HIDE DEF w
<1>4. c \in 0..Len(w) /\ Len(w) - c = n + 1
  BY <1>1
<1>5. r \in Seq(Nat) /\ Len(r) = n + 1
  BY <1>1, <1>4, LengthsType
<1>6. /\ \A i \in 1..n : q[i] = Len(wire[c + i].bytes)
      /\ \A i \in 1..(n + 1) : r[i] = Len(w[c + i].bytes)
  BY <1>4 DEF Lengths
<1> HIDE DEF q, r
<1>7. \A i \in 1..n : r[i] = q[i]
  <2>1. \A i \in 1..n : i \in 1..(n + 1) /\ c + i \in 1..Len(wire)
    BY <1>1
  <2> QED
    BY <1>1, <1>6, <2>1
<1>8. r[n + 1] = x
  <2>1. n + 1 \in 1..(n + 1) /\ c + (n + 1) = Len(wire) + 1
    BY <1>1
  <2>2. r[n + 1] = Len(w[c + (n + 1)].bytes)
    BY <1>6, <2>1
  <2> QED
    BY <1>1, <2>1, <2>2
<1> HIDE DEF n, x
<1>9. r = Append(q, x)
  <2> DEFINE a == Append(q, x)
  <2>1. a \in Seq(Nat) /\ Len(a) = n + 1 /\ a[n + 1] = x /\ \A i \in 1..n : a[i] = q[i]
    BY <1>1, <1>2, <1>3
  <2> HIDE DEF a
  <2>2. ASSUME NEW i \in 1..(n + 1) PROVE r[i] = a[i]
    <3>1. i = n + 1 \/ i \in 1..n
      BY <1>1
    <3> QED
      BY <1>7, <1>8, <2>1, <3>1
  <2>3. r = a
    BY <1>5, <2>1, <2>2, SeqEqual
  <2> QED
    BY <2>3 DEF a
<1>10. Total(r) = Total(q) + x
  BY <1>2, <1>3, <1>9, TotalAppend
<1> QED
  BY <1>10 DEF Octets, w, q, r, x

(* xmit_seg counts the frame it sends, if its length fits a register.      *)
LEMMA XmitSegCounted ==
    ASSUME NEW d \in TxState, NEW c, Counted(d, c), Len(d.tx.data) < 2 ^ W
    PROVE  Counted(xmit_seg(d), c)
<1> DEFINE m == 2 ^ W
           e == xmit_seg(d)
           size == Len(d.tx.data)
           n == (d.TOTL + size) % m
           f == Frame(d.tx)
           L == Len(d.wire)
<1>1. m \in Nat /\ m > 0
  BY TxAssumption
<1>2. /\ d.TPT \in 0..(m - 1) /\ d.TOTL \in 0..(m - 1) /\ d.TOTH \in 0..(m - 1)
      /\ d.wire \in Seq(WireFrame) /\ d.tx \in TxPart /\ d.tx.data \in Seq(Byte)
  BY DEF TxState, TxPart, Words
<1>3. /\ c \in 0..L /\ d.TPT = (L - c) % m /\ d.GPTC = d.TPT
      /\ d.TOTH * m + d.TOTL = Octets(d.wire, c) % (m * m)
  BY DEF Counted
<1>4. /\ e.wire = Append(d.wire, f) /\ e.TPT = (d.TPT + 1) % m /\ e.GPTC = (d.GPTC + 1) % m
      /\ e.TOTL = n /\ e.TOTH = IF n < d.TOTL THEN (d.TOTH + 1) % m ELSE d.TOTH
  BY XmitSegIs
<1>5. f \in WireFrame /\ f.bytes = d.tx.data
  BY <1>2, FrameType DEF Frame
<1>6. size \in 0..(m - 1) /\ L \in Nat
  <2>1. size \in Nat /\ size < m /\ L \in Nat
    BY <1>2
  <2> QED
    BY <1>1, <2>1
<1>7. Octets(e.wire, c) = Octets(d.wire, c) + size /\ Octets(d.wire, c) \in Nat
  BY <1>2, <1>3, <1>4, <1>5, OctetsAppend, LengthsType
<1>8. Len(e.wire) = L + 1
  BY <1>2, <1>4, <1>5
<1> HIDE DEF m, e, f, L
<1>9. e.TPT = (Len(e.wire) - c) % m /\ e.GPTC = e.TPT
  <2> DEFINE x0 == L - c
  <2>1. x0 \in Nat /\ 1 \in Nat /\ d.TPT = x0 % m /\ (L + 1) - c = x0 + 1
    BY <1>3, <1>6
  <2> HIDE DEF x0
  <2>2. (x0 + 1) % m = ((x0 % m) + 1) % m
    BY <1>1, <2>1, RemainderPlus
  <2> QED
    BY <1>3, <1>4, <1>8, <2>1, <2>2
<1>10. e.TOTH * m + e.TOTL = Octets(e.wire, c) % (m * m)
  <2> DEFINE lo0 == d.TOTL
             hi0 == d.TOTH
             x0 == Octets(d.wire, c)
             hi1 == e.TOTH
  <2>1. /\ lo0 \in 0..(m - 1) /\ hi0 \in 0..(m - 1) /\ x0 \in Nat
        /\ hi0 * m + lo0 = x0 % (m * m)
    BY <1>2, <1>3, <1>7
  <2>2. n = (lo0 + size) % m /\ hi1 = (IF n < lo0 THEN (hi0 + 1) % m ELSE hi0)
    BY <1>4
  <2>5. Octets(e.wire, c) = x0 + size /\ e.TOTL = n
    BY <1>4, <1>7
  <2> HIDE DEF lo0, hi0, x0, size, n, hi1
  <2>3. Adding(m, lo0, hi0, size, x0, n)
    BY <1>1, <1>6, <2>1, <2>2, Zenon DEF Adding
  <2>4. Carried(m, lo0, hi0, size, x0, n)
    BY <2>3, Carry
  <2>6. hi1 * m + n = (x0 + size) % (m * m)
    BY <2>2, <2>4, Zenon DEF Carried
  <2> QED
    BY <2>5, <2>6 DEF hi1
<1>11. c \in 0..Len(e.wire)
  BY <1>3, <1>6, <1>8
<1> QED
  BY <1>9, <1>10, <1>11 DEF Counted, m, e

-----------------------------------------------------------------------------
(* The wire                                                                *)

(* The end of a sequence.                                                  *)
LEMMA SuffixIs ==
    ASSUME NEW S, NEW b \in Seq(S), NEW n \in 0..Len(b)
    PROVE  LET y == SubSeq(b, n + 1, Len(b))
           IN  y \in Seq(S) /\ Len(y) = Len(b) - n /\ \A x \in 1..(Len(b) - n) : y[x] = b[n + x]
<1> DEFINE L == Len(b)
           y == SubSeq(b, n + 1, L)
<1>1. L \in Nat /\ n \in Nat /\ n <= L
  OBVIOUS
<1>2. Len(y) = L - n
  BY <1>1
<1>3. \A i \in (n + 1)..L : b[i] \in S
  BY <1>1
<1>4. y \in Seq(S)
  BY <1>1, <1>3
<1>5. \A x \in 1..(L - n) : y[x] = b[(n + 1) + x - 1]
  BY <1>1
<1>6. \A x \in 1..(L - n) : (n + 1) + x - 1 = n + x
  BY <1>1
<1> QED
  BY <1>2, <1>4, <1>5, <1>6

(* The first len bytes of a frame of packet p whose header has hdr bytes,  *)
(* q bytes of payload into the packet.                                     *)
Spot(p, hdr, q, x) == IF x <= hdr THEN <<p, x>> ELSE <<p, q + x>>
Data(p, hdr, q, len) == [x \in 1..len |-> Spot(p, hdr, q, x)]

(* The bytes gathered, one by one.                                         *)
LEMMA DataIs ==
    ASSUME NEW p \in Nat, NEW hdr \in Nat, NEW q \in Nat, NEW len \in Nat
    PROVE  /\ Data(p, hdr, q, len) \in Seq(Byte) /\ Len(Data(p, hdr, q, len)) = len
           /\ \A x \in 1..len : Data(p, hdr, q, len)[x] = Spot(p, hdr, q, x)
<1> DEFINE f == Data(p, hdr, q, len)
           v(x) == Spot(p, hdr, q, x)
<1>1. \A x \in 1..len : v(x) \in Byte
  BY DEF Byte, Spot
<1>2. f = [x \in 1..len |-> v(x)]
  BY DEF Data
<1> HIDE DEF f, v
<1>3. f \in [1..len -> Byte] /\ \A x \in 1..len : f[x] = v(x)
  BY <1>1, <1>2
<1>4. f \in Seq(Byte) /\ Len(f) = len
  BY <1>3
<1> QED
  BY <1>3, <1>4 DEF f, v

(* The same for the provers that cannot match the assumptions one by one.  *)
LEMMA DataType ==
    \A p, hdr, q, len \in Nat :
        Data(p, hdr, q, len) \in Seq(Byte) /\ Len(Data(p, hdr, q, len)) = len
BY DataIs

(* A frame of packet p of the packets P, with the payload after its first  *)
(* q bytes.                                                                *)
GoodFrame(f, P, p, q) ==
    /\ p \in 1..Len(P) /\ q \in Nat /\ Len(f.bytes) >= P[p].hdr
    /\ f.bytes = Data(p, P[p].hdr, q, Len(f.bytes))
    /\ P[p].tso => /\ Len(f.bytes) <= P[p].hdr + P[p].mss
                   /\ f.seq = q
                   /\ f.fin => q + (Len(f.bytes) - P[p].hdr) = P[p].payload
                   /\ q + (Len(f.bytes) - P[p].hdr) = P[p].payload => f.fin
                   /\ \/ Len(f.bytes) = P[p].hdr + P[p].mss
                      \/ q + (Len(f.bytes) - P[p].hdr) = P[p].payload
    /\ f.sum = P[p].sum
    /\ f.vlan = IF VME THEN P[p].tag ELSE 0

Good(wire, P) == \A i \in 1..Len(wire) : \E p, q : GoodFrame(wire[i], P, p, q)

(* The payload on the wire, and the payload of packets.                    *)
PayloadIn(f, P) ==
    IF f.bytes = <<>> THEN <<>> ELSE SubSeq(f.bytes, P[f.bytes[1][1]].hdr + 1, Len(f.bytes))

Payloads(wire, P) == [i \in 1..Len(wire) |-> PayloadIn(wire[i], P)]
Part(P, p, q) == [x \in 1..q |-> <<p, P[p].hdr + x>>]
Parts(P, n) == [i \in 1..n |-> Part(P, i, P[i].payload)]

(* The wire has exactly the packets before p and q bytes of p's payload;   *)
(* the wire has exactly the packets up to p.                               *)
Sent(wire, P, p, q) ==
    /\ Good(wire, P)
    /\ FlattenSeq(Payloads(wire, P)) = FlattenSeq(Parts(P, p - 1)) \o Part(P, p, q)
SentAll(wire, P, p) ==
    /\ Good(wire, P)
    /\ FlattenSeq(Payloads(wire, P)) = FlattenSeq(Parts(P, p))

(* The beginning of a packet's payload, byte by byte.                      *)
LEMMA PartIs ==
    ASSUME NEW P \in Seq(Kinds), NEW p \in 1..Len(P), NEW q \in Nat
    PROVE  /\ Part(P, p, q) \in Seq(Byte) /\ Len(Part(P, p, q)) = q
           /\ \A x \in 1..q : Part(P, p, q)[x] = <<p, P[p].hdr + x>>
<1> DEFINE f == Part(P, p, q)
           h == P[p].hdr
<1>1. P[p] \in Kinds /\ p \in Nat
  OBVIOUS
<1>2. h \in Nat
  BY <1>1, KindIs
<1>3. f = [x \in 1..q |-> <<p, h + x>>]
  BY DEF Part
<1> HIDE DEF f, h
<1>4. \A x \in 1..q : <<p, h + x>> \in Byte
  BY <1>1, <1>2 DEF Byte
<1>5. f \in [1..q -> Byte] /\ \A x \in 1..q : f[x] = <<p, h + x>>
  BY <1>3, <1>4
<1>6. f \in Seq(Byte) /\ Len(f) = q
  BY <1>5
<1> QED
  BY <1>5, <1>6 DEF f, h

(* The payloads of the first n packets, one by one.                        *)
LEMMA PartsIs ==
    ASSUME NEW P \in Seq(Kinds), NEW n \in 0..Len(P)
    PROVE  /\ Parts(P, n) \in Seq(Seq(Byte)) /\ Len(Parts(P, n)) = n
           /\ \A i \in 1..n : Parts(P, n)[i] = Part(P, i, P[i].payload)
           /\ n < Len(P) => Parts(P, n + 1) = Append(Parts(P, n), Part(P, n + 1, P[n + 1].payload))
<1>0. n \in Nat /\ Len(P) \in Nat /\ n <= Len(P)
  OBVIOUS
<1>1. \A i \in 1..Len(P) : Part(P, i, P[i].payload) \in Seq(Byte)
  <2> SUFFICES ASSUME NEW i \in 1..Len(P) PROVE Part(P, i, P[i].payload) \in Seq(Byte)
    OBVIOUS
  <2>1. P[i] \in Kinds
    OBVIOUS
  <2>2. P[i].payload \in Nat
    BY <2>1, KindIs
  <2> QED
    BY <2>2, PartIs
<1> DEFINE v(i) == Part(P, i, P[i].payload)
<1>2. ASSUME NEW k \in 0..Len(P)
      PROVE  /\ Parts(P, k) \in Seq(Seq(Byte)) /\ Len(Parts(P, k)) = k
             /\ \A i \in 1..k : Parts(P, k)[i] = v(i)
  <2> DEFINE f == Parts(P, k)
  <2>1. f = [i \in 1..k |-> v(i)]
    BY DEF Parts
  <2>2. \A i \in 1..k : v(i) \in Seq(Byte)
    BY <1>0, <1>1, <1>2
  <2> HIDE DEF f, v
  <2>3. f \in [1..k -> Seq(Byte)] /\ \A i \in 1..k : f[i] = v(i)
    BY <2>1, <2>2
  <2>4. f \in Seq(Seq(Byte)) /\ Len(f) = k
    BY <1>0, <1>2, <2>3
  <2> QED
    BY <2>3, <2>4 DEF f
<1>3. ASSUME n < Len(P)
      PROVE  Parts(P, n + 1) = Append(Parts(P, n), v(n + 1))
  <2> DEFINE f == Parts(P, n)
             g == Parts(P, n + 1)
             x == v(n + 1)
  <2>1. n + 1 \in 0..Len(P) /\ n + 1 \in 1..Len(P)
    BY <1>0, <1>3
  <2>2. /\ f \in Seq(Seq(Byte)) /\ Len(f) = n /\ (\A i \in 1..n : f[i] = v(i))
        /\ g \in Seq(Seq(Byte)) /\ Len(g) = n + 1 /\ (\A i \in 1..(n + 1) : g[i] = v(i))
    BY <1>2, <2>1
  <2>3. x \in Seq(Byte)
    BY <1>1, <2>1
  <2>4. g[n + 1] = x
    BY <1>0, <2>2
  <2> HIDE DEF f, g, x, v
  <2> DEFINE a == Append(f, x)
  <2>5. a \in Seq(Seq(Byte)) /\ Len(a) = n + 1 /\ a[n + 1] = x /\ \A i \in 1..n : a[i] = f[i]
    BY <1>0, <2>2, <2>3
  <2> HIDE DEF a
  <2>6. ASSUME NEW i \in 1..(n + 1) PROVE g[i] = a[i]
    <3>1. i = n + 1 \/ i \in 1..n
      BY <1>0
    <3> QED
      BY <2>2, <2>4, <2>5, <3>1
  <2>7. g = a
    BY <2>2, <2>5, <2>6, SeqEqual
  <2> QED
    BY <2>7 DEF f, g, x, a
<1> QED
  BY <1>2, <1>3

(* What a frame that is good shows.                                        *)
LEMMA GoodFrameIs ==
    ASSUME NEW P \in Seq(Kinds), NEW f \in WireFrame, NEW p, NEW q, GoodFrame(f, P, p, q)
    PROVE  LET l == Len(f.bytes) - P[p].hdr
           IN  /\ f.bytes # <<>> /\ f.bytes[1][1] = p /\ l \in Nat
               /\ \A x \in 1..P[p].hdr : f.bytes[x] = <<p, x>>
               /\ PayloadIn(f, P) \in Seq(Byte) /\ Len(PayloadIn(f, P)) = l
               /\ \A x \in 1..l : PayloadIn(f, P)[x] = <<p, P[p].hdr + q + x>>
<1> DEFINE h == P[p].hdr
           b == f.bytes
           len == Len(b)
           l == len - h
           y == PayloadIn(f, P)
<1>1. /\ p \in 1..Len(P) /\ p \in Nat /\ q \in Nat /\ len >= h /\ b = Data(p, h, q, len)
      /\ P[p] \in Kinds
  BY DEF GoodFrame
<1>2. h \in Nat /\ h > 0
  BY <1>1, KindIs
<1>3. b \in Seq(Byte) /\ len \in Nat
  BY DEF WireFrame
<1>4. y = IF b = <<>> THEN <<>> ELSE SubSeq(b, P[b[1][1]].hdr + 1, len)
  BY DEF PayloadIn
<1> HIDE DEF h, len, b, y
<1>5. \A x \in 1..len : b[x] = IF x <= h THEN <<p, x>> ELSE <<p, q + x>>
  <2>1. \A x \in 1..len : Data(p, h, q, len)[x] = IF x <= h THEN <<p, x>> ELSE <<p, q + x>>
    BY DEF Data, Spot
  <2> QED
    BY <1>1, <2>1
<1>6. l \in Nat /\ len = h + l
  BY <1>1, <1>2, <1>3
<1>7. b # <<>> /\ b[1] = <<p, 1>>
  <2>1. 1 \in 1..len /\ 1 <= h
    BY <1>1, <1>2, <1>3
  <2>2. b # <<>>
    <3>1. len = Len(b)
      BY DEF len
    <3> QED
      BY <1>3, <2>1, <3>1
  <2> QED
    BY <1>5, <2>1, <2>2
<1>8. b[1][1] = p
  BY <1>7
<1>9. \A x \in 1..h : b[x] = <<p, x>>
  <2>1. \A x \in 1..h : x \in 1..len /\ x <= h
    BY <1>1, <1>2, <1>3
  <2> QED
    BY <1>5, <2>1
<1>10. y = SubSeq(b, h + 1, len)
  BY <1>4, <1>7, <1>8 DEF h
<1>11. y \in Seq(Byte) /\ Len(y) = l /\ \A x \in 1..l : y[x] = b[h + x]
  <2>1. len = Len(b)
    BY DEF len
  <2>2. h \in 0..Len(b) /\ y = SubSeq(b, h + 1, Len(b)) /\ l = Len(b) - h
    BY <1>1, <1>2, <1>3, <1>10, <2>1
  <2> HIDE DEF l
  <2> QED
    BY <1>3, <2>2, SuffixIs
<1>12. \A x \in 1..l : y[x] = <<p, h + q + x>>
  <2>1. \A x \in 1..l : h + x \in 1..len /\ ~(h + x <= h) /\ q + (h + x) = h + q + x
    BY <1>1, <1>2, <1>6
  <2> QED
    BY <1>5, <1>11, <2>1
<1> QED
  BY <1>6, <1>7, <1>8, <1>9, <1>11, <1>12 DEF h, b, len, y

(* One more frame: the payloads on the wire.                               *)
LEMMA PayloadsIs ==
    ASSUME NEW P \in Seq(Kinds), NEW wire \in Seq(WireFrame), Good(wire, P)
    PROVE  /\ Payloads(wire, P) \in Seq(Seq(Byte)) /\ Len(Payloads(wire, P)) = Len(wire)
           /\ \A i \in 1..Len(wire) : Payloads(wire, P)[i] = PayloadIn(wire[i], P)
<1> DEFINE L == Len(wire)
           g == Payloads(wire, P)
           v(i) == PayloadIn(wire[i], P)
<1>1. L \in Nat /\ \A i \in 1..L : wire[i] \in WireFrame
  OBVIOUS
<1>2. ASSUME NEW i \in 1..L PROVE v(i) \in Seq(Byte)
  <2>1. PICK p, q : GoodFrame(wire[i], P, p, q)
    BY DEF Good
  <2>2. wire[i] \in WireFrame
    BY <1>1
  <2> QED
    BY <2>1, <2>2, GoodFrameIs
<1>3. g = [i \in 1..L |-> v(i)]
  BY DEF Payloads
<1> HIDE DEF L, g, v
<1>4. g \in [1..L -> Seq(Byte)] /\ \A i \in 1..L : g[i] = v(i)
  BY <1>2, <1>3
<1>5. g \in Seq(Seq(Byte)) /\ Len(g) = L
  BY <1>1, <1>4
<1> QED
  BY <1>4, <1>5 DEF L, g, v

(* A wire of good frames with one more.                                    *)
LEMMA GoodAppend ==
    ASSUME NEW P \in Seq(Kinds), NEW wire \in Seq(WireFrame), Good(wire, P), NEW f \in WireFrame,
           NEW p, NEW q, GoodFrame(f, P, p, q)
    PROVE  /\ Good(Append(wire, f), P) /\ Append(wire, f) \in Seq(WireFrame)
           /\ Payloads(Append(wire, f), P) = Append(Payloads(wire, P), PayloadIn(f, P))
<1> DEFINE w == Append(wire, f)
           L == Len(wire)
           g == Payloads(wire, P)
           h == Payloads(w, P)
           y == PayloadIn(f, P)
<1>1. /\ L \in Nat /\ w \in Seq(WireFrame) /\ Len(w) = L + 1 /\ w[L + 1] = f
      /\ \A i \in 1..L : w[i] = wire[i]
  OBVIOUS
<1>2. Good(w, P)
  <2> SUFFICES ASSUME NEW i \in 1..(L + 1) PROVE \E x, z : GoodFrame(w[i], P, x, z)
    BY <1>1 DEF Good
  <2>1. CASE i = L + 1
    BY <1>1, <2>1
  <2>2. CASE i \in 1..L
    BY <1>1, <2>2 DEF Good
  <2> QED
    BY <1>1, <2>1, <2>2
<1>3. y \in Seq(Byte)
  BY GoodFrameIs
<1>4. g \in Seq(Seq(Byte)) /\ Len(g) = L /\ \A i \in 1..L : g[i] = PayloadIn(wire[i], P)
  BY PayloadsIs
<1>5. h \in Seq(Seq(Byte)) /\ Len(h) = L + 1 /\ \A i \in 1..(L + 1) : h[i] = PayloadIn(w[i], P)
  <2> HIDE DEF w
  <2> QED
    BY <1>1, <1>2, PayloadsIs
<1> HIDE DEF w, L, g, h
<1>6. h[L + 1] = y /\ \A i \in 1..L : h[i] = g[i]
  <2>1. L + 1 \in 1..(L + 1) /\ \A i \in 1..L : i \in 1..(L + 1)
    BY <1>1
  <2> QED
    BY <1>1, <1>4, <1>5, <2>1
<1> HIDE DEF y
<1> DEFINE a == Append(g, y)
<1>7. a \in Seq(Seq(Byte)) /\ Len(a) = L + 1 /\ a[L + 1] = y /\ \A i \in 1..L : a[i] = g[i]
  BY <1>1, <1>3, <1>4
<1> HIDE DEF a
<1>8. ASSUME NEW i \in 1..(L + 1) PROVE h[i] = a[i]
  <2>1. i = L + 1 \/ i \in 1..L
    BY <1>1
  <2> QED
    BY <1>6, <1>7, <2>1
<1>9. h = a
  BY <1>5, <1>7, <1>8, SeqEqual
<1> QED
  BY <1>1, <1>2, <1>9 DEF a, g, h, y, w

(* Joining is associative.                                                 *)
LEMMA JoinedTwice ==
    ASSUME NEW a \in Seq(Byte), NEW b \in Seq(Byte), NEW y \in Seq(Byte)
    PROVE  (a \o b) \o y = a \o (b \o y)
BY ConcatAssociative

(* A frame with the next bytes of the payload.                             *)
LEMMA SentMore ==
    ASSUME NEW P \in Seq(Kinds), NEW wire \in Seq(WireFrame), NEW f \in WireFrame, NEW p, NEW q,
           Sent(wire, P, p, q), GoodFrame(f, P, p, q)
    PROVE  Sent(Append(wire, f), P, p, q + (Len(f.bytes) - P[p].hdr))
<1> DEFINE l == Len(f.bytes) - P[p].hdr
           y == PayloadIn(f, P)
           g == Payloads(wire, P)
           a == FlattenSeq(Parts(P, p - 1))
           b == Part(P, p, q)
           b2 == Part(P, p, q + l)
           h == P[p].hdr
<1>1. /\ p \in 1..Len(P) /\ q \in Nat /\ P[p] \in Kinds /\ Good(wire, P) /\ FlattenSeq(g) = a \o b
  BY DEF GoodFrame, Sent
<1>2. l \in Nat /\ y \in Seq(Byte) /\ Len(y) = l /\ \A x \in 1..l : y[x] = <<p, h + q + x>>
  BY GoodFrameIs
<1>3. /\ Good(Append(wire, f), P)
      /\ Payloads(Append(wire, f), P) = Append(g, y)
  BY <1>1, GoodAppend
<1>4. g \in Seq(Seq(Byte))
  BY <1>1, PayloadsIs
<1>5. b \in Seq(Byte) /\ Len(b) = q /\ \A x \in 1..q : b[x] = <<p, h + x>>
  BY <1>1, PartIs
<1>6. b2 \in Seq(Byte) /\ Len(b2) = q + l /\ \A x \in 1..(q + l) : b2[x] = <<p, h + x>>
  <2>1. q + l \in Nat
    BY <1>1, <1>2
  <2> HIDE DEF l
  <2> QED
    BY <1>1, <2>1, PartIs
<1>7. h \in Nat
  BY <1>1, KindIs
<1>8. a \in Seq(Byte)
  <2>1. p - 1 \in 0..Len(P)
    BY <1>1
  <2>2. Parts(P, p - 1) \in Seq(Seq(Byte))
    BY <2>1, PartsIs
  <2> QED
    BY <2>2, FlattenType
<1> HIDE DEF l, y, g, a, b, b2, h
<1>9. b2 = b \o y
  <2> DEFINE z == b \o y
  <2>1. /\ z \in Seq(Byte) /\ Len(z) = q + l /\ (\A x \in 1..q : z[x] = b[x])
        /\ \A x \in (q + 1)..(q + l) : z[x] = y[x - q]
    <3>0. b \in Seq(Byte) /\ y \in Seq(Byte)
      BY <1>2, <1>5
    <3>1. z \in Seq(Byte) /\ Len(z) = Len(b) + Len(y)
      BY <3>0, ConcatProperties
    <3>2. \A x \in 1..(Len(b) + Len(y)) : z[x] = IF x <= Len(b) THEN b[x] ELSE y[x - Len(b)]
      BY <1>2, <1>5, ConcatProperties
    <3>3. \A x \in 1..q : x \in 1..(q + l) /\ x <= q
      BY <1>1, <1>2
    <3>4. \A x \in (q + 1)..(q + l) : x \in 1..(q + l) /\ ~(x <= q)
      BY <1>1, <1>2
    <3> HIDE DEF z
    <3> QED
      BY <1>2, <1>5, <3>1, <3>2, <3>3, <3>4
  <2> HIDE DEF z
  <2>2. ASSUME NEW x \in 1..(q + l) PROVE b2[x] = z[x]
    <3>1. CASE x <= q
      <4>1. x \in 1..q
        BY <1>1, <1>2, <3>1
      <4> QED
        BY <1>5, <1>6, <2>1, <4>1
    <3>2. CASE ~(x <= q)
      <4>1. x \in (q + 1)..(q + l) /\ x - q \in 1..l /\ h + q + (x - q) = h + x
        BY <1>1, <1>2, <1>7, <3>2
      <4>2. z[x] = <<p, h + q + (x - q)>>
        BY <1>2, <2>1, <4>1
      <4> QED
        BY <1>6, <4>1, <4>2
    <3> QED
      BY <3>1, <3>2
  <2>3. b2 = z
    BY <1>6, <2>1, <2>2, SeqEqual
  <2> QED
    BY <2>3 DEF z
<1>10. FlattenSeq(Append(g, y)) = FlattenSeq(g) \o y
  BY <1>2, <1>4, FlattenAppend
<1>11. (a \o b) \o y = a \o (b \o y)
  <2>1. a \in Seq(Byte) /\ b \in Seq(Byte) /\ y \in Seq(Byte)
    BY <1>2, <1>5, <1>8
  <2> QED
    BY <2>1, JoinedTwice
<1>12. FlattenSeq(Payloads(Append(wire, f), P)) = a \o b2
  BY <1>1, <1>3, <1>9, <1>10, <1>11
<1> QED
  BY <1>3, <1>12 DEF Sent, a, b2, l

(* All of a packet is sent, and the next one begins.                       *)
LEMMA SentNext ==
    ASSUME NEW P \in Seq(Kinds), NEW wire, NEW p \in 1..Len(P), Sent(wire, P, p, P[p].payload)
    PROVE  SentAll(wire, P, p)
<1> DEFINE n == p - 1
           y == Part(P, p, P[p].payload)
<1>1. n \in 0..Len(P) /\ n < Len(P) /\ n + 1 = p /\ P[p] \in Kinds
  OBVIOUS
<1>2. P[p].payload \in Nat
  BY <1>1, KindIs
<1>3. y \in Seq(Byte)
  BY <1>2, PartIs
<1> HIDE DEF n
<1>4. Parts(P, n) \in Seq(Seq(Byte)) /\ Parts(P, n + 1) = Append(Parts(P, n), Part(P, n + 1, P[n + 1].payload))
  BY <1>1, PartsIs
<1>5. Parts(P, p) = Append(Parts(P, n), y)
  BY <1>1, <1>4
<1> HIDE DEF y
<1>6. FlattenSeq(Parts(P, p)) = FlattenSeq(Parts(P, n)) \o y
  BY <1>3, <1>4, <1>5, FlattenAppend
<1> QED
  BY <1>6 DEF Sent, SentAll, n, y

(* All of the packets up to p is none of the next.                         *)
LEMMA SentFirst ==
    ASSUME NEW P \in Seq(Kinds), NEW wire, NEW p \in 0..(Len(P) - 1), SentAll(wire, P, p)
    PROVE  Sent(wire, P, p + 1, 0)
<1>1. p + 1 \in 1..Len(P) /\ (p + 1) - 1 = p /\ p \in 0..Len(P) /\ 0 \in Nat
  OBVIOUS
<1>2. Part(P, p + 1, 0) \in Seq(Byte) /\ Len(Part(P, p + 1, 0)) = 0
  <2> DEFINE k == p + 1
  <2>1. k \in 1..Len(P)
    BY <1>1
  <2> HIDE DEF k
  <2>2. Part(P, k, 0) \in Seq(Byte) /\ Len(Part(P, k, 0)) = 0
    BY <1>1, <2>1, PartIs
  <2> QED
    BY <2>2 DEF k
<1>3. Part(P, p + 1, 0) = <<>>
  BY <1>2
<1>4. Parts(P, p) \in Seq(Seq(Byte))
  BY <1>1, PartsIs
<1>5. FlattenSeq(Parts(P, p)) \in Seq(Byte)
  BY <1>4, FlattenType
<1>6. FlattenSeq(Parts(P, p)) \o <<>> = FlattenSeq(Parts(P, p))
  BY <1>5, ConcatEmptySeq
<1> QED
  BY <1>1, <1>3, <1>6 DEF Sent, SentAll

(* One more byte, and several.                                             *)
LEMMA DataAppend ==
    ASSUME NEW p \in Nat, NEW hdr \in Nat, NEW q \in Nat, NEW n \in Nat, n >= hdr \/ q = 0
    PROVE  Append(Data(p, hdr, q, n), <<p, q + n + 1>>) = Data(p, hdr, q, n + 1)
<1> DEFINE f == Data(p, hdr, q, n)
           g == Data(p, hdr, q, n + 1)
           b == <<p, q + n + 1>>
           a == Append(f, b)
<1>1. f \in Seq(Byte) /\ Len(f) = n /\ \A x \in 1..n : f[x] = Spot(p, hdr, q, x)
  BY DataIs
<1>2. /\ g \in Seq(Byte) /\ Len(g) = n + 1
      /\ \A x \in 1..(n + 1) : g[x] = Spot(p, hdr, q, x)
  <2> DEFINE m == n + 1
  <2>1. m \in Nat
    OBVIOUS
  <2> HIDE DEF m
  <2>2. /\ Data(p, hdr, q, m) \in Seq(Byte) /\ Len(Data(p, hdr, q, m)) = m
        /\ \A x \in 1..m : Data(p, hdr, q, m)[x] = Spot(p, hdr, q, x)
    BY <2>1, DataIs
  <2> QED
    BY <2>2 DEF m
<1>3. b \in Byte
  BY DEF Byte
<1>4. g[n + 1] = b
  <2>1. n + 1 \in 1..(n + 1)
    OBVIOUS
  <2>2. g[n + 1] = IF n + 1 <= hdr THEN <<p, n + 1>> ELSE <<p, q + (n + 1)>>
    BY <1>2, <2>1 DEF Spot
  <2>3. q + (n + 1) = q + n + 1
    OBVIOUS
  <2>4. n + 1 <= hdr => n + 1 = q + n + 1
    OBVIOUS
  <2> QED
    BY <2>2, <2>3, <2>4
<1> HIDE DEF f, g, b
<1>5. a \in Seq(Byte) /\ Len(a) = n + 1 /\ a[n + 1] = b /\ \A x \in 1..n : a[x] = f[x]
  BY <1>1, <1>3
<1> HIDE DEF a
<1>6. ASSUME NEW x \in 1..(n + 1) PROVE g[x] = a[x]
  <2>1. x = n + 1 \/ x \in 1..n
    OBVIOUS
  <2> QED
    BY <1>1, <1>2, <1>4, <1>5, <2>1
<1>7. g = a
  BY <1>2, <1>5, <1>6, SeqEqual
<1> QED
  BY <1>7 DEF a, b, f, g

(* A frame that is not cut.                                                *)
LEMMA DataPlain ==
    ASSUME NEW p \in Nat, NEW hdr \in Nat, NEW n \in Nat
    PROVE  /\ Data(p, hdr, 0, n) \in Seq(Byte) /\ Len(Data(p, hdr, 0, n)) = n
           /\ \A x \in 1..n : Data(p, hdr, 0, n)[x] = <<p, x>>
<1> DEFINE f == Data(p, hdr, 0, n)
<1>1. \A x \in 1..n : Spot(p, hdr, 0, x) = <<p, x>>
  BY DEF Spot
<1>2. \A x \in 1..n : f[x] = Spot(p, hdr, 0, x)
  BY DEF Data
<1>3. f \in Seq(Byte) /\ Len(f) = n
  <2>1. 0 \in Nat
    OBVIOUS
  <2>2. ASSUME NEW o \in Nat PROVE Data(p, hdr, o, n) \in Seq(Byte) /\ Len(Data(p, hdr, o, n)) = n
    BY DataIs
  <2> QED
    BY <2>1, <2>2, Zenon
<1> QED
  BY <1>1, <1>2, <1>3

(* A frame that is not cut is extended by the bytes of a descriptor.       *)
LEMMA DataJoin ==
    ASSUME NEW p \in Nat, NEW hdr \in Nat, NEW n \in Nat, NEW b \in Seq(Byte),
           \A x \in 1..Len(b) : b[x] = <<p, n + x>>
    PROVE  Data(p, hdr, 0, n) \o b = Data(p, hdr, 0, n + Len(b))
<1> DEFINE L == Len(b)
           m == n + L
           f == Data(p, hdr, 0, n)
           g == Data(p, hdr, 0, m)
           z == f \o b
<1>1. L \in Nat /\ m \in Nat /\ m = n + L
  OBVIOUS
<1> HIDE DEF m
<1>2. f \in Seq(Byte) /\ Len(f) = n /\ \A x \in 1..n : f[x] = <<p, x>>
  BY <1>1, DataPlain
<1>3. g \in Seq(Byte) /\ Len(g) = m /\ \A x \in 1..m : g[x] = <<p, x>>
  BY <1>1, DataPlain
<1> HIDE DEF f, g
<1>4. /\ z \in Seq(Byte) /\ Len(z) = Len(f) + L
      /\ \A x \in 1..(Len(f) + L) : z[x] = IF x <= Len(f) THEN f[x] ELSE b[x - Len(f)]
  BY <1>2, ConcatProperties
<1>5. Len(z) = m /\ \A x \in 1..m : z[x] = IF x <= n THEN f[x] ELSE b[x - n]
  BY <1>1, <1>2, <1>4
<1> HIDE DEF z
<1>6. ASSUME NEW x \in 1..m PROVE g[x] = z[x]
  <2>1. g[x] = <<p, x>>
    BY <1>3
  <2>2. CASE x <= n
    <3>1. x \in 1..n
      BY <1>1, <2>2
    <3> QED
      BY <1>2, <1>5, <2>1, <2>2, <3>1
  <2>3. CASE ~(x <= n)
    <3>1. x - n \in 1..L /\ n + (x - n) = x
      BY <1>1, <2>3
    <3>2. b[x - n] = <<p, n + (x - n)>>
      BY <3>1
    <3> QED
      BY <1>5, <2>1, <2>3, <3>1, <3>2
  <2> QED
    BY <2>2, <2>3
<1>7. g = z
  BY <1>3, <1>4, <1>5, <1>6, SeqEqual
<1> QED
  BY <1>7 DEF f, g, m, z

(* The header is the same at the start of every segment.                   *)
LEMMA DataHeader ==
    ASSUME NEW p \in Nat, NEW hdr \in Nat, NEW q \in Nat
    PROVE  Data(p, hdr, q, hdr) = Data(p, hdr, 0, hdr)
<1>1. \A x \in 1..hdr : x <= hdr
  OBVIOUS
<1> QED
  BY <1>1 DEF Data, Spot

(* Bytes on the wire, and a wire that has grown.                           *)
OnWire(wire, x) == \E i \in 1..Len(wire) : \E m \in 1..Len(wire[i].bytes) : wire[i].bytes[m] = x
Grown(w, v) == Len(w) <= Len(v) /\ \A i \in 1..Len(w) : v[i] = w[i]

(* What was on the wire stays there, and growing goes on.                  *)
LEMMA GrownIs ==
    ASSUME NEW w \in Seq(WireFrame), NEW v \in Seq(WireFrame), Grown(w, v)
    PROVE  /\ \A x : OnWire(w, x) => OnWire(v, x)
           /\ \A u \in Seq(WireFrame) : Grown(v, u) => Grown(w, u)
<1>1. /\ Len(w) \in Nat /\ Len(v) \in Nat /\ \A i \in 1..Len(w) : i \in 1..Len(v)
      /\ \A i \in 1..Len(w) : v[i] = w[i]
  BY DEF Grown
<1>2. \A x : OnWire(w, x) => OnWire(v, x)
  BY <1>1 DEF OnWire
<1>3. ASSUME NEW u \in Seq(WireFrame), Grown(v, u) PROVE Grown(w, u)
  <2>1. Len(u) \in Nat /\ Len(w) <= Len(v) /\ Len(v) <= Len(u)
    BY <1>3 DEF Grown
  <2>2. Len(w) <= Len(u)
    BY <1>1, <2>1
  <2>3. \A i \in 1..Len(w) : u[i] = w[i]
    BY <1>1, <1>3 DEF Grown
  <2> QED
    BY <2>2, <2>3 DEF Grown
<1> QED
  BY <1>2, <1>3

(* A wire has grown by nothing and by one frame.                           *)
LEMMA GrownSame ==
    ASSUME NEW w \in Seq(WireFrame)
    PROVE  Grown(w, w) /\ \A f \in WireFrame : Grown(w, Append(w, f))
<1>1. Len(w) \in Nat
  OBVIOUS
<1>2. Grown(w, w)
  BY <1>1 DEF Grown
<1>3. ASSUME NEW f \in WireFrame PROVE Grown(w, Append(w, f))
  <2>1. Len(Append(w, f)) = Len(w) + 1 /\ \A i \in 1..Len(w) : Append(w, f)[i] = w[i]
    OBVIOUS
  <2>2. Len(w) <= Len(w) + 1
    BY <1>1
  <2> QED
    BY <2>1, <2>2 DEF Grown
<1> QED
  BY <1>2, <1>3

-----------------------------------------------------------------------------
(* The device in the middle of a packet                                    *)

(* The guests the theorems below are about: none is migrated with a packet *)
(* half sent, and every packet that is to be segmented brings its context, *)
(* because a migration loses tse (see MCE1000TxMigration.cfg).             *)
Careful == ~MigrateOpen /\ \A k \in Kinds : k.tso => k.context

(* The payload of the packet that has left in full segments.               *)
SentOf(tx, kind) == IF kind.tso THEN tx.tso_frames * kind.mss ELSE 0

Context(tx, kind) ==
    kind.tso => /\ tx.tse /\ tx.hdr_len = kind.hdr /\ tx.mss = kind.mss
                /\ tx.paylen = kind.payload

(* The offloads before a data descriptor of the packet, and after it.      *)
IsTagged(kind, last) == VME /\ kind.tag # 0 /\ (kind.tso \/ last)

Ready(tx, kind) ==
    /\ tx.sum_needed => kind.sum
    /\ tx.data # <<>> => (tx.sum_needed <=> kind.sum)
    /\ tx.vlan_needed => IsTagged(kind, FALSE) /\ tx.vlan_header = kind.tag

Flagged(tx, kind, last) ==
    /\ tx.cptse <=> kind.tso
    /\ tx.sum_needed <=> kind.sum
    /\ tx.vlan_needed <=> IsTagged(kind, last)
    /\ tx.vlan_needed => tx.vlan_header = kind.tag

(* After pos bytes of packet p: data is what has not left, behind the      *)
(* header, and the header is kept once it is complete.                     *)
Gathers(tx, kind, p, pos, q) ==
    /\ pos \in Nat /\ q \in Nat /\ q = SentOf(tx, kind)
    /\ q <= pos /\ pos <= kind.hdr + kind.payload
    /\ tx.data = Data(p, kind.hdr, q, pos - q)
    /\ q # 0 => pos - q >= kind.hdr
    /\ kind.tso /\ pos - q >= kind.hdr => tx.header = Data(p, kind.hdr, 0, kind.hdr)

(* There is room in the segment; what is gathered makes a frame.           *)
Room(kind, pos, q) == kind.tso => pos - q < kind.hdr + kind.mss

Complete(kind, pos, q, last) ==
    /\ last \/ kind.tso
    /\ pos - q >= kind.hdr
    /\ kind.tso => /\ pos - q <= kind.hdr + kind.mss
                   /\ kind.payload - q <= kind.mss => pos = kind.hdr + kind.payload
                   /\ pos - q = kind.hdr + kind.mss \/ pos = kind.hdr + kind.payload

Sending(d, c, P, p, pos, q) ==
    /\ d \in TxState /\ P \in Seq(Kinds) /\ p \in 1..Len(P)
    /\ Counted(d, c)
    /\ Context(d.tx, P[p])
    /\ Gathers(d.tx, P[p], p, pos, q)
    /\ Sent(d.wire, P, p, q)

(* What is gathered is as long as it should be, and fits a register.       *)
LEMMA GathersData ==
    ASSUME NEW tx, NEW k \in Kinds, NEW p \in Nat, NEW pos, NEW q, Gathers(tx, k, p, pos, q)
    PROVE  /\ pos - q \in Nat /\ pos - q <= k.hdr + k.payload /\ pos - q < 2 ^ W
           /\ tx.data \in Seq(Byte) /\ Len(tx.data) = pos - q
<1> DEFINE n == pos - q
           M == 2 ^ W
           h == k.hdr
<1>1. M \in Nat /\ h \in Nat /\ k.payload \in Nat /\ h + k.payload < M
  BY KindIs, TxAssumption
<1>2. /\ pos \in Nat /\ q \in Nat /\ q <= pos /\ pos <= h + k.payload
      /\ tx.data = Data(p, h, q, n)
  BY DEF Gathers
<1> HIDE DEF M, h
<1>3. n \in Nat /\ n <= h + k.payload /\ n < M
  BY <1>1, <1>2
<1> HIDE DEF n
<1>4. Data(p, h, q, n) \in Seq(Byte) /\ Len(Data(p, h, q, n)) = n
  <2>1. p \in Nat /\ h \in Nat /\ q \in Nat /\ n \in Nat
    BY <1>1, <1>2, <1>3
  <2> QED
    BY ONLY <2>1, DataType, Zenon
<1> QED
  BY <1>2, <1>3, <1>4 DEF n, M, h

(* The frame that xmit_seg makes: of the packet, with its header and the   *)
(* offloads it asked for, full before the end of the payload and closed    *)
(* exactly there.                                                          *)
LEMMA FrameGood ==
    ASSUME NEW tx \in TxPart, NEW P \in Seq(Kinds), NEW p \in 1..Len(P), NEW pos, NEW q, NEW last,
           Context(tx, P[p]), Flagged(tx, P[p], last), Gathers(tx, P[p], p, pos, q),
           Complete(P[p], pos, q, last)
    PROVE  /\ GoodFrame(Frame(tx), P, p, q) /\ Frame(tx) \in WireFrame
           /\ Frame(tx).bytes = tx.data /\ tx.data \in Seq(Byte)
           /\ Len(tx.data) = pos - q /\ pos - q \in Nat /\ pos - q < 2 ^ W
<1> DEFINE k == P[p]
           f == Frame(tx)
<1>1. k \in Kinds /\ p \in Nat
  OBVIOUS
<1>2. /\ k.hdr \in Nat /\ k.mss \in Nat /\ k.payload \in Nat /\ k.tag \in Nat /\ k.mss > 0
      /\ k.hdr + k.payload < 2 ^ W /\ k.tso \in BOOLEAN /\ k.sum \in BOOLEAN
  BY <1>1, KindIs
<1>3. /\ pos \in Nat /\ q \in Nat /\ q = SentOf(tx, k) /\ q <= pos /\ pos <= k.hdr + k.payload
      /\ tx.data = Data(p, k.hdr, q, pos - q)
  BY DEF Gathers
<1>4. f \in WireFrame
  BY FrameType
<1>5. /\ tx.tso_frames \in Nat /\ tx.mss \in Nat /\ tx.sum_needed \in BOOLEAN /\ tx.cptse \in BOOLEAN
      /\ tx.tse \in BOOLEAN /\ tx.vlan_needed \in BOOLEAN /\ tx.vlan_header \in Nat
  BY DEF TxPart
<1>6. /\ f.bytes = tx.data
      /\ f.seq = IF tx.tse /\ tx.cptse THEN tx.tso_frames * tx.mss ELSE 0
      /\ f.fin = ~(tx.tse /\ tx.cptse /\ tx.paylen - tx.tso_frames * tx.mss > tx.mss)
      /\ f.sum = tx.sum_needed
      /\ f.vlan = IF tx.vlan_needed THEN tx.vlan_header ELSE 0
  BY DEF Frame
<1>7. /\ k.tso => tx.tse /\ tx.hdr_len = k.hdr /\ tx.mss = k.mss /\ tx.paylen = k.payload
      /\ tx.cptse <=> k.tso
      /\ tx.sum_needed <=> k.sum
      /\ tx.vlan_needed <=> VME /\ k.tag # 0
      /\ tx.vlan_needed => tx.vlan_header = k.tag
  BY DEF Context, Flagged, IsTagged, Complete
<1>8. /\ pos - q >= k.hdr
      /\ k.tso => pos - q <= k.hdr + k.mss
      /\ k.tso /\ k.payload - q <= k.mss => pos = k.hdr + k.payload
      /\ k.tso => pos - q = k.hdr + k.mss \/ pos = k.hdr + k.payload
  BY DEF Complete
<1>9. k.tso => q = tx.tso_frames * tx.mss
  BY <1>3, <1>7 DEF SentOf
<1> HIDE DEF k, f
<1> DEFINE n == pos - q
<1>10. /\ n \in Nat /\ n <= k.hdr + k.payload /\ n < 2 ^ W
       /\ tx.data \in Seq(Byte) /\ Len(tx.data) = n
  BY <1>1, GathersData DEF k
<1>13. k.tso => /\ n <= k.hdr + k.mss /\ f.seq = q
                /\ f.fin => q + (n - k.hdr) = k.payload
                /\ q + (n - k.hdr) = k.payload => f.fin
                /\ n = k.hdr + k.mss \/ q + (n - k.hdr) = k.payload
  <2> SUFFICES ASSUME k.tso
               PROVE  /\ n <= k.hdr + k.mss /\ f.seq = q
                      /\ f.fin => q + (n - k.hdr) = k.payload
                      /\ q + (n - k.hdr) = k.payload => f.fin
                      /\ n = k.hdr + k.mss \/ q + (n - k.hdr) = k.payload
    OBVIOUS
  <2>1. tx.tse /\ tx.cptse /\ q = tx.tso_frames * tx.mss
    BY <1>7, <1>9
  <2>2. /\ f.seq = q
        /\ f.fin => ~(k.payload - q > k.mss)
        /\ ~(k.payload - q > k.mss) => f.fin
    BY <1>6, <1>7, <2>1
  <2>3. n <= k.hdr + k.mss
    BY <1>8
  <2>4. ~(k.payload - q > k.mss) => q + (n - k.hdr) = k.payload
    <3>1. k.payload - q <= k.mss => pos = k.hdr + k.payload
      BY <1>8
    <3> QED
      BY <1>2, <1>3, <3>1
  <2>5. q + (n - k.hdr) = k.payload => ~(k.payload - q > k.mss)
    BY <1>2, <1>3, <2>3
  <2>6. n = k.hdr + k.mss \/ q + (n - k.hdr) = k.payload
    BY <1>2, <1>3, <1>8
  <2> QED
    BY <2>2, <2>3, <2>4, <2>5, <2>6
<1>14. f.sum = k.sum
  BY <1>2, <1>5, <1>6, <1>7
<1>15. f.vlan = IF VME THEN k.tag ELSE 0
  BY <1>2, <1>5, <1>6, <1>7
<1>16. GoodFrame(f, P, p, q)
  <2>1. Len(f.bytes) = n
    BY <1>6, <1>10
  <2>2. Len(f.bytes) >= k.hdr /\ f.bytes = Data(p, k.hdr, q, Len(f.bytes))
    BY <1>3, <1>6, <1>8, <2>1
  <2> HIDE DEF n
  <2> QED
    BY <1>3, <1>13, <1>14, <1>15, <2>1, <2>2 DEF GoodFrame, k
<1> QED
  BY <1>4, <1>6, <1>10, <1>16 DEF f

(* xmit_seg sends what was gathered, and all of it.                        *)
LEMMA XmitSends ==
    ASSUME NEW d, NEW c, NEW P, NEW p, NEW pos, NEW q, NEW last,
           Sending(d, c, P, p, pos, q), Flagged(d.tx, P[p], last),
           Complete(P[p], pos, q, last)
    PROVE  LET e == xmit_seg(d)
           IN  /\ Counted(e, c) /\ Sent(e.wire, P, p, pos - P[p].hdr) /\ Grown(d.wire, e.wire)
               /\ \A m \in 1..Len(d.tx.data) : OnWire(e.wire, d.tx.data[m])
<1> DEFINE e == xmit_seg(d)
           f == Frame(d.tx)
           h == P[p].hdr
<1>1. /\ d \in TxState /\ P \in Seq(Kinds) /\ p \in 1..Len(P) /\ Counted(d, c)
      /\ Context(d.tx, P[p]) /\ Gathers(d.tx, P[p], p, pos, q) /\ Sent(d.wire, P, p, q)
  BY DEF Sending
<1>2. d.tx \in TxPart /\ d.wire \in Seq(WireFrame)
  BY <1>1 DEF TxState
<1>3. /\ GoodFrame(f, P, p, q) /\ f \in WireFrame /\ f.bytes = d.tx.data
      /\ d.tx.data \in Seq(Byte) /\ Len(d.tx.data) = pos - q /\ pos - q < 2 ^ W
  BY <1>1, <1>2, FrameGood, Zenon
<1>4. e.wire = Append(d.wire, f)
  BY <1>1, XmitSegIs
<1>5. Counted(e, c)
  BY <1>1, <1>3, XmitSegCounted
<1>6. Sent(e.wire, P, p, pos - h)
  <2>1. Sent(Append(d.wire, f), P, p, q + (Len(f.bytes) - h))
    BY <1>1, <1>2, <1>3, SentMore
  <2>2. q + (Len(f.bytes) - h) = pos - h
    <3>1. P[p] \in Kinds
      BY <1>1
    <3>2. h \in Nat /\ pos \in Nat /\ q \in Nat /\ Len(f.bytes) = pos - q
      BY <1>1, <1>3, <3>1, KindIs DEF Gathers
    <3> HIDE DEF h
    <3> QED
      BY <3>2
  <2> QED
    BY <1>4, <2>1, <2>2
<1>7. Grown(d.wire, e.wire)
  BY <1>2, <1>3, <1>4, GrownSame
<1>8. \A m \in 1..Len(d.tx.data) : OnWire(e.wire, d.tx.data[m])
  <2>1. Len(d.wire) + 1 \in 1..Len(e.wire) /\ e.wire[Len(d.wire) + 1] = f
    BY <1>2, <1>3, <1>4
  <2> HIDE DEF e, f
  <2> QED
    BY <1>3, <2>1 DEF OnWire
<1> QED
  BY <1>5, <1>6, <1>7, <1>8

(* The statistics and the wire do not depend on the rest of the device.    *)
SameCount(d, e) ==
    /\ e.wire = d.wire /\ e.TPT = d.TPT /\ e.GPTC = d.GPTC /\ e.TOTL = d.TOTL /\ e.TOTH = d.TOTH

(* The counters are right as long as neither they nor the wire change.     *)
LEMMA CountedSame ==
    ASSUME NEW d, NEW e, NEW c, SameCount(d, e), Counted(d, c)
    PROVE  Counted(e, c)
BY DEF SameCount, Counted

(* A change of the transmit state alone.                                   *)
LEMMA PartKeeps ==
    ASSUME NEW d \in TxState, NEW tx \in TxPart
    PROVE  LET e == [d EXCEPT !.tx = tx]
           IN  e \in TxState /\ e.tx = tx /\ SameCount(d, e)
BY DEF SameCount, TxState

(* A byte is on the wire or waits to be sent.                              *)
Seen(d, x) == OnWire(d.wire, x) \/ \E m \in 1..Len(d.tx.data) : d.tx.data[m] = x

(* One byte of a packet to be segmented, added to what is gathered.        *)
LEMMA ByteGathered ==
    ASSUME NEW tx \in TxPart, NEW k \in Kinds, NEW p \in Nat, NEW pos, NEW q,
           Gathers(tx, k, p, pos, q), Context(tx, k), k.tso, pos < k.hdr + k.payload
    PROVE  LET data == Append(tx.data, <<p, pos + 1>>)
               header == IF Len(data) = tx.hdr_len THEN data ELSE tx.header
               tx2 == [tx EXCEPT !.data = data, !.header = header]
           IN  /\ tx2 \in TxPart /\ Gathers(tx2, k, p, pos + 1, q) /\ Context(tx2, k)
               /\ Len(data) = (pos + 1) - q /\ data[Len(data)] = <<p, pos + 1>> /\ Len(data) \in Nat
               /\ Len(data) > 0
<1> DEFINE h == k.hdr
           n == pos - q
           byte == <<p, pos + 1>>
           data == Append(tx.data, byte)
           header == IF Len(data) = tx.hdr_len THEN data ELSE tx.header
           tx2 == [tx EXCEPT !.data = data, !.header = header]
<1>1. h \in Nat /\ k.payload \in Nat /\ k.mss \in Nat /\ k.tso
  BY KindIs
<1>2. /\ pos \in Nat /\ q \in Nat /\ q = SentOf(tx, k) /\ q <= pos /\ pos <= h + k.payload
      /\ tx.data = Data(p, h, q, n) /\ (q # 0 => n >= h)
      /\ (n >= h => tx.header = Data(p, h, 0, h))
  BY DEF Gathers
<1>3. n \in Nat /\ q + n = pos /\ pos < h + k.payload
  BY <1>1, <1>2
<1>4. tx.data \in Seq(Byte) /\ Len(tx.data) = n
  BY GathersData
<1>5. tx.hdr_len = h
  BY DEF Context
<1>6. byte \in Byte
  BY <1>2 DEF Byte
<1>7. data \in Seq(Byte) /\ Len(data) = n + 1 /\ data[n + 1] = byte
  BY <1>4, <1>6
<1>8. data = Data(p, h, q, n + 1)
  <2> HIDE DEF h, n
  <2>1. n >= h \/ q = 0
    BY <1>2
  <2>2. p \in Nat /\ h \in Nat /\ q \in Nat /\ n \in Nat
    BY <1>1, <1>2, <1>3
  <2>3. Append(Data(p, h, q, n), <<p, q + n + 1>>) = Data(p, h, q, n + 1)
    BY ONLY <2>1, <2>2, DataAppend
  <2> QED
    BY <1>2, <1>3, <2>3
<1> HIDE DEF data, n, h
<1>9. header = IF n + 1 = h THEN data ELSE tx.header
  BY <1>5, <1>7
<1>10. header \in Seq(Byte)
  BY <1>7 DEF TxPart
<1>11. n + 1 >= h => header = Data(p, h, 0, h)
  <2>1. CASE n + 1 = h
    <3>1. q = 0
      BY <1>1, <1>2, <1>3, <2>1
    <3> QED
      BY <1>8, <1>9, <2>1, <3>1
  <2>2. CASE n + 1 # h
    BY <1>1, <1>2, <1>3, <1>9, <2>2
  <2> QED
    BY <2>1, <2>2
<1> HIDE DEF header
<1>12. /\ tx2 \in TxPart /\ tx2.data = data /\ tx2.header = header /\ tx2.tso_frames = tx.tso_frames
       /\ tx2.tse = tx.tse /\ tx2.hdr_len = tx.hdr_len /\ tx2.mss = tx.mss /\ tx2.paylen = tx.paylen
  BY <1>7, <1>10 DEF TxPart
<1> HIDE DEF tx2
<1>13. (pos + 1) - q = n + 1
  BY <1>2 DEF n
<1>14. Gathers(tx2, k, p, pos + 1, q)
  <2>1. SentOf(tx2, k) = q
    BY <1>2, <1>12 DEF SentOf
  <2>2. pos + 1 \in Nat /\ q <= pos + 1 /\ pos + 1 <= h + k.payload /\ (q # 0 => n + 1 >= h)
    BY <1>1, <1>2, <1>3
  <2>3. tx2.data = Data(p, h, q, (pos + 1) - q)
    BY <1>8, <1>12, <1>13
  <2> QED
    BY <1>2, <1>11, <1>12, <1>13, <2>1, <2>2, <2>3 DEF Gathers, h
<1>15. Context(tx2, k)
  BY <1>12 DEF Context
<1>16. n + 1 \in Nat /\ n + 1 > 0
  BY <1>3
<1> QED
  BY <1>7, <1>12, <1>13, <1>14, <1>15, <1>16 DEF tx2, header, data

(* A number of full segments more.                                         *)
LEMMA OneMoreTimes ==
    ASSUME NEW a \in Nat, NEW b \in Nat
    PROVE  (a + 1) * b = a * b + b
OBVIOUS

(* The device after some bytes of a packet, and what it owes to the wire   *)
(* it started from.                                                        *)
Under(d, c, P, p, pos, last) ==
    /\ Flagged(d.tx, P[p], last)
    /\ \E q : Sending(d, c, P, p, pos, q) /\ Room(P[p], pos, q)

(* A change of the transmit state that concerns none of the offloads.      *)
LEMMA FlaggedSame ==
    ASSUME NEW tx, NEW tx2, NEW k, NEW last, Flagged(tx, k, last),
           tx2.cptse = tx.cptse, tx2.sum_needed = tx.sum_needed, tx2.vlan_needed = tx.vlan_needed,
           tx2.vlan_header = tx.vlan_header
    PROVE  Flagged(tx2, k, last)
BY DEF Flagged

(* One byte through the segmentation: a full segment leaves, and the next  *)
(* one starts with the header.                                             *)
LEMMA SegmentSends ==
    ASSUME NEW d, NEW c, NEW P, NEW p, NEW pos, NEW last, Under(d, c, P, p, pos, last),
           P[p].tso, pos < P[p].hdr + P[p].payload
    PROVE  LET e == Segment(d, <<p, pos + 1>>)
           IN  /\ Under(e, c, P, p, pos + 1, last) /\ Grown(d.wire, e.wire)
               /\ Seen(e, <<p, pos + 1>>)
<1> DEFINE k == P[p]
           h == k.hdr
           byte == <<p, pos + 1>>
           data == Append(d.tx.data, byte)
           header == IF Len(data) = d.tx.hdr_len THEN data ELSE d.tx.header
           u == [d.tx EXCEPT !.data = data, !.header = header]
           t == [d EXCEPT !.tx = u]
           x == xmit_seg(t)
           e == Segment(d, byte)
<1>1. PICK q : Sending(d, c, P, p, pos, q) /\ Room(k, pos, q)
  BY DEF Under
<1>2. /\ d \in TxState /\ P \in Seq(Kinds) /\ p \in 1..Len(P) /\ Counted(d, c)
      /\ Context(d.tx, k) /\ Gathers(d.tx, k, p, pos, q) /\ Sent(d.wire, P, p, q)
  BY <1>1 DEF Sending
<1>3. k \in Kinds /\ p \in Nat /\ d.tx \in TxPart /\ d.wire \in Seq(WireFrame)
  BY <1>2 DEF TxState
<1>4. /\ h \in Nat /\ k.mss \in Nat /\ k.mss > 0 /\ k.payload \in Nat /\ k.tso
      /\ pos \in Nat /\ q \in Nat /\ q <= pos /\ pos < h + k.payload /\ q = SentOf(d.tx, k)
  BY <1>2, <1>3, KindIs DEF Gathers
<1>5. pos - q < h + k.mss
  BY <1>1, <1>4 DEF Room
<1>6. byte \in Byte
  BY <1>3, <1>4 DEF Byte
<1>7. /\ t \in TxState
      /\ e = IF Len(data) = d.tx.hdr_len + d.tx.mss
             THEN [x EXCEPT !.tx = [x.tx EXCEPT !.data = header]] ELSE t
  BY <1>2, <1>6, SegmentIs
<1>8. /\ u \in TxPart /\ Gathers(u, k, p, pos + 1, q) /\ Context(u, k)
      /\ Len(data) = (pos + 1) - q /\ data[Len(data)] = byte /\ Len(data) \in Nat /\ Len(data) > 0
  <2>1. pos < k.hdr + k.payload /\ k.tso
    BY <1>4
  <2> QED
    BY ONLY <1>2, <1>3, <2>1, ByteGathered, Zenon
<1>9. d.tx.hdr_len = h /\ d.tx.mss = k.mss
  BY <1>2, <1>4 DEF Context
<1>10. /\ u.data = data /\ u.header = header /\ u.cptse = d.tx.cptse /\ u.sum_needed = d.tx.sum_needed
       /\ u.vlan_needed = d.tx.vlan_needed /\ u.vlan_header = d.tx.vlan_header
       /\ u.tso_frames = d.tx.tso_frames
  BY <1>3 DEF TxPart
<1> HIDE DEF e, header, u
<1>11. t.tx = u /\ SameCount(d, t)
  BY <1>2, <1>8, PartKeeps
<1> HIDE DEF t, data
<1>12. Flagged(u, k, last)
  BY <1>10, FlaggedSame DEF Under
<1>13. Sending(t, c, P, p, pos + 1, q)
  <2>1. Counted(t, c) /\ Sent(t.wire, P, p, q)
    BY <1>2, <1>11, CountedSame DEF SameCount
  <2> QED
    BY <1>2, <1>7, <1>8, <1>11, <2>1 DEF Sending
<1>14. CASE Len(data) # h + k.mss
  <2>1. e = t
    BY <1>7, <1>9, <1>14
  <2>2. Room(k, pos + 1, q)
    BY <1>4, <1>5, <1>8, <1>14 DEF Room
  <2>3. Under(e, c, P, p, pos + 1, last)
    BY <1>11, <1>12, <1>13, <2>1, <2>2 DEF Under
  <2>4. Grown(d.wire, e.wire)
    BY <1>3, <1>11, <2>1, GrownSame DEF SameCount
  <2>5. Seen(e, byte)
    <3>1. Len(data) \in 1..Len(data)
      BY <1>8
    <3> QED
      BY <1>8, <1>10, <1>11, <2>1, <3>1 DEF Seen
  <2> QED
    BY <2>3, <2>4, <2>5 DEF e
<1>15. CASE Len(data) = h + k.mss
  <2> DEFINE q2 == q + k.mss
             v == [x.tx EXCEPT !.data = header]
  <2>1. e = [x EXCEPT !.tx = v]
    BY <1>7, <1>9, <1>15
  <2>2. (pos + 1) - q = h + k.mss /\ pos + 1 \in Nat /\ pos + 1 <= h + k.payload
    BY <1>4, <1>8, <1>15
  <2>3. Complete(k, pos + 1, q, last)
    <3>1. (pos + 1) - q >= h /\ (pos + 1) - q <= h + k.mss
      BY <1>4, <2>2
    <3>2. k.payload - q <= k.mss => pos + 1 = h + k.payload
      BY <1>4, <2>2
    <3> QED
      BY <1>4, <2>2, <3>1, <3>2 DEF Complete
  <2>4. /\ Counted(x, c) /\ Sent(x.wire, P, p, (pos + 1) - h) /\ Grown(t.wire, x.wire)
        /\ \A m \in 1..Len(t.tx.data) : OnWire(x.wire, t.tx.data[m])
    <3>1. Flagged(t.tx, k, last)
      BY <1>11, <1>12
    <3> DEFINE z == pos + 1
    <3>2. Sending(t, c, P, p, z, q) /\ Complete(k, z, q, last)
      BY <1>13, <2>3
    <3> HIDE DEF z
    <3>3. /\ Counted(x, c) /\ Sent(x.wire, P, p, z - h) /\ Grown(t.wire, x.wire)
          /\ \A m \in 1..Len(t.tx.data) : OnWire(x.wire, t.tx.data[m])
      BY <3>1, <3>2, XmitSends, Zenon
    <3>4. Sent(x.wire, P, p, (pos + 1) - h)
      BY <3>3 DEF z
    <3> QED
      BY <3>3, <3>4, Zenon
  <2>5. x \in TxState /\ x.tx = [u EXCEPT !.tso_frames = IF u.tse /\ u.cptse THEN @ + 1 ELSE @]
    BY <1>7, <1>11, XmitSegIs
  <2>6. u.tse /\ u.cptse
    BY <1>4, <1>8, <1>12 DEF Context, Flagged
  <2>7. x.tx = [u EXCEPT !.tso_frames = u.tso_frames + 1]
    BY <2>5, <2>6
  <2> HIDE DEF x
  <2>8. header \in Seq(Byte)
    BY <1>8, <1>10 DEF TxPart
  <2>9. /\ v \in TxPart /\ v.data = header /\ v.header = header /\ v.tso_frames = u.tso_frames + 1
        /\ v.cptse = u.cptse /\ v.sum_needed = u.sum_needed /\ v.vlan_needed = u.vlan_needed
        /\ v.vlan_header = u.vlan_header /\ v.tse = u.tse /\ v.hdr_len = u.hdr_len
        /\ v.mss = u.mss /\ v.paylen = u.paylen
    <3> DEFINE y == x.tx
    <3>1. u.tso_frames + 1 \in Nat
      BY <1>8 DEF TxPart
    <3>2. /\ y \in TxPart /\ y.header = u.header /\ y.tso_frames = u.tso_frames + 1
          /\ y.cptse = u.cptse /\ y.sum_needed = u.sum_needed /\ y.vlan_needed = u.vlan_needed
          /\ y.vlan_header = u.vlan_header /\ y.tse = u.tse /\ y.hdr_len = u.hdr_len
          /\ y.mss = u.mss /\ y.paylen = u.paylen
      BY <1>8, <2>7, <3>1 DEF TxPart
    <3> HIDE DEF y
    <3>3. v = [y EXCEPT !.data = header]
      BY DEF y
    <3> HIDE DEF v
    <3>4. /\ v \in TxPart /\ v.data = header /\ v.header = y.header /\ v.tso_frames = y.tso_frames
          /\ v.cptse = y.cptse /\ v.sum_needed = y.sum_needed /\ v.vlan_needed = y.vlan_needed
          /\ v.vlan_header = y.vlan_header /\ v.tse = y.tse /\ v.hdr_len = y.hdr_len
          /\ v.mss = y.mss /\ v.paylen = y.paylen
      BY <2>8, <3>2, <3>3 DEF TxPart
    <3> QED
      BY <1>10, <3>2, <3>4
  <2> HIDE DEF v
  <2>10. e \in TxState /\ e.tx = v /\ SameCount(x, e)
    BY <2>1, <2>5, <2>9, PartKeeps
  <2>11. Flagged(v, k, last)
    BY <1>12, <2>9, FlaggedSame
  <2>12. Context(v, k)
    BY <1>8, <2>9 DEF Context
  <2>13. q2 \in Nat /\ q2 = SentOf(v, k)
    <3>1. u.tso_frames \in Nat /\ q = u.tso_frames * k.mss
      BY <1>4, <1>8, <1>10 DEF SentOf, TxPart
    <3>2. (u.tso_frames + 1) * k.mss = u.tso_frames * k.mss + k.mss
      BY ONLY <1>4, <3>1, OneMoreTimes
    <3>3. SentOf(v, k) = (u.tso_frames + 1) * k.mss
      BY <1>4, <2>9 DEF SentOf
    <3> QED
      BY <1>4, <3>1, <3>2, <3>3
  <2>14. (pos + 1) - q2 = h /\ q2 <= pos + 1 /\ (pos + 1) - h = q2
    BY <1>4, <2>2
  <2>15. header = Data(p, h, 0, h)
    <3>1. k.tso /\ (pos + 1) - q >= h
      BY <1>4, <2>2
    <3> QED
      BY <1>8, <1>10, <3>1 DEF Gathers
  <2>16. header = Data(p, h, q2, h)
    <3>1. p \in Nat /\ h \in Nat /\ q2 \in Nat
      BY <1>3, <1>4, <2>13
    <3> HIDE DEF h, q2
    <3>2. Data(p, h, q2, h) = Data(p, h, 0, h)
      BY ONLY <3>1, DataHeader
    <3> QED
      BY <2>15, <3>2
  <2> HIDE DEF q2
  <2>17. Gathers(v, k, p, pos + 1, q2)
    <3>1. (pos + 1) - q2 >= h
      BY <1>4, <2>14
    <3>2. v.data = Data(p, h, q2, (pos + 1) - q2) /\ v.header = Data(p, h, 0, h)
      BY <2>9, <2>14, <2>15, <2>16
    <3> QED
      <4> DEFINE z == pos + 1
      <4>1. z \in Nat /\ q2 <= z /\ z <= k.hdr + k.payload /\ z - q2 >= k.hdr
        BY <2>2, <2>14, <3>1
      <4>3. v.data = Data(p, k.hdr, q2, z - q2) /\ v.header = Data(p, k.hdr, 0, k.hdr)
        BY <3>2
      <4> HIDE DEF z
      <4>2. Gathers(v, k, p, z, q2)
        BY ONLY <2>13, <4>1, <4>3 DEF Gathers
      <4> QED
        BY <4>2 DEF z
  <2>18. Sending(e, c, P, p, pos + 1, q2)
    <3>1. Counted(e, c) /\ Sent(e.wire, P, p, q2)
      BY <2>4, <2>10, <2>14, CountedSame DEF SameCount
    <3> QED
      BY <1>2, <2>10, <2>12, <2>17, <3>1 DEF Sending
  <2>19. Room(k, pos + 1, q2)
    BY <1>4, <2>14 DEF Room
  <2>20. Under(e, c, P, p, pos + 1, last)
    BY <2>10, <2>11, <2>18, <2>19 DEF Under
  <2>21. Grown(d.wire, e.wire)
    BY <1>11, <2>4, <2>10 DEF SameCount
  <2>22. Seen(e, byte)
    <3>1. Len(data) \in 1..Len(data) /\ t.tx.data = data
      BY <1>8, <1>10, <1>11
    <3>2. OnWire(x.wire, byte)
      BY <1>8, <2>4, <3>1
    <3> QED
      BY <2>10, <3>2 DEF Seen, SameCount
  <2> QED
    BY <2>20, <2>21, <2>22 DEF e
<1> QED
  BY <1>14, <1>15

(* The types of what is under way.                                         *)
LEMMA UnderIs ==
    ASSUME NEW d, NEW c, NEW P, NEW p, NEW pos, NEW last, Under(d, c, P, p, pos, last)
    PROVE  /\ d \in TxState /\ d.wire \in Seq(WireFrame) /\ d.tx \in TxPart /\ P \in Seq(Kinds)
           /\ p \in 1..Len(P) /\ p \in Nat /\ P[p] \in Kinds /\ pos \in Nat
           /\ Context(d.tx, P[p]) /\ Counted(d, c)
<1>1. PICK q : Sending(d, c, P, p, pos, q)
  BY DEF Under
<1>2. d \in TxState /\ P \in Seq(Kinds) /\ p \in 1..Len(P) /\ pos \in Nat /\ Context(d.tx, P[p]) /\ Counted(d, c)
  BY <1>1 DEF Sending, Gathers
<1>3. d.wire \in Seq(WireFrame) /\ d.tx \in TxPart
  BY <1>2 DEF TxState
<1>4. P[p] \in Kinds /\ p \in Nat
  BY <1>2
<1> QED
  BY <1>2, <1>3, <1>4

(* The bytes of a descriptor of a packet to be segmented.                  *)
LEMMA SegmentsSend ==
    ASSUME NEW d, NEW c, NEW P, NEW p, NEW pos, NEW last, Under(d, c, P, p, pos, last),
           NEW bytes \in Seq(Byte), \A b \in 1..Len(bytes) : bytes[b] = <<p, pos + b>>,
           pos + Len(bytes) <= P[p].hdr + P[p].payload, P[p].tso
    PROVE  LET e == DescData(d, bytes)
           IN  /\ Under(e, c, P, p, pos + Len(bytes), last) /\ Grown(d.wire, e.wire)
               /\ Len(bytes) > 0 => Seen(e, bytes[Len(bytes)])
<1> DEFINE L == Len(bytes)
           e == DescData(d, bytes)
           h == P[p].hdr
           y == P[p].payload
<1>1. /\ d \in TxState /\ d.wire \in Seq(WireFrame) /\ d.tx \in TxPart /\ P[p] \in Kinds /\ pos \in Nat
      /\ Context(d.tx, P[p])
  BY UnderIs
<1>2. L \in Nat /\ h \in Nat /\ y \in Nat /\ pos + L <= h + y
  BY <1>1, KindIs
<1>3. d.tx.tse /\ d.tx.cptse
  BY <1>1 DEF Under, Context, Flagged
<1>4. PICK g : /\ g[0] = d /\ e = g[L]
               /\ \A n \in 1..L : g[n] = Segment(g[n - 1], bytes[n])
  BY <1>3, DescDataIs
<1>5. \A b \in 1..L : bytes[b] = <<p, pos + b>>
  OBVIOUS
<1> DEFINE R(n) == /\ Under(g[n], c, P, p, pos + n, last) /\ Grown(d.wire, g[n].wire)
                   /\ n > 0 => Seen(g[n], bytes[n])
           T == {n \in 0..L : ~R(n)}
<1> HIDE DEF L, e
<1>6. R(0)
  <2>1. Under(g[0], c, P, p, pos + 0, last)
    BY <1>1, <1>4
  <2> QED
    BY <1>1, <1>4, <2>1, GrownSame
<1>7. ASSUME NEW n \in 1..L, R(n - 1) PROVE R(n)
  <2> DEFINE m == n - 1
             x == pos + m
             v == g[m]
             u == g[n]
  <2>1. n \in Nat /\ m \in Nat /\ x + 1 = pos + n /\ x < h + y
    BY <1>1, <1>2
  <2>2. Under(v, c, P, p, x, last) /\ Grown(d.wire, v.wire)
    BY <1>7
  <2>3. u = Segment(v, bytes[n]) /\ bytes[n] = <<p, pos + n>>
    BY <1>4, <1>5
  <2>4. u = Segment(v, <<p, x + 1>>) /\ bytes[n] = <<p, x + 1>>
    BY <2>1, <2>3
  <2> HIDE DEF x, u, v
  <2>5. /\ Under(Segment(v, <<p, x + 1>>), c, P, p, x + 1, last)
        /\ Grown(v.wire, Segment(v, <<p, x + 1>>).wire)
        /\ Seen(Segment(v, <<p, x + 1>>), <<p, x + 1>>)
    BY <2>1, <2>2, SegmentSends, Zenon
  <2>6. Under(u, c, P, p, x + 1, last) /\ Grown(v.wire, u.wire) /\ Seen(u, bytes[n])
    BY <2>4, <2>5
  <2>7. v.wire \in Seq(WireFrame) /\ u.wire \in Seq(WireFrame)
    BY <2>2, <2>6, UnderIs
  <2>8. Grown(d.wire, u.wire)
    BY <1>1, <2>2, <2>6, <2>7, GrownIs
  <2> QED
    BY <2>1, <2>6, <2>8 DEF u
<1>8. ASSUME T # {} PROVE FALSE
  <2>1. T \subseteq Nat
    BY <1>2
  <2>2. PICK n \in T : \A w \in T : n <= w
    <3> HIDE DEF T
    <3> QED
      BY <1>8, <2>1, LeastNumber
  <2> HIDE DEF R
  <2>3. n \in 0..L /\ n \in Nat /\ ~R(n)
    BY <2>1, <2>2
  <2>4. n # 0
    BY <1>6, <2>3
  <2>5. n - 1 \in 0..L /\ n - 1 \notin T /\ n \in 1..L
    <3> HIDE DEF T
    <3> QED
      BY <1>2, <2>2, <2>3, <2>4
  <2>6. R(n - 1)
    BY <2>5
  <2> QED
    BY <1>7, <2>3, <2>5, <2>6
<1>9. R(L)
  <2>1. L \in 0..L /\ L \notin T
    <3> HIDE DEF T
    <3> QED
      BY <1>2, <1>8
  <2> HIDE DEF R
  <2> QED
    BY <2>1
<1> QED
  BY <1>4, <1>9 DEF L, e

(* The bytes of a descriptor.                                              *)
LEMMA DataSends ==
    ASSUME NEW d, NEW c, NEW P, NEW p, NEW pos, NEW last, Under(d, c, P, p, pos, last),
           NEW bytes \in Seq(Byte), \A b \in 1..Len(bytes) : bytes[b] = <<p, pos + b>>,
           pos + Len(bytes) <= P[p].hdr + P[p].payload
    PROVE  LET e == DescData(d, bytes)
           IN  /\ Under(e, c, P, p, pos + Len(bytes), last) /\ Grown(d.wire, e.wire)
               /\ Len(bytes) > 0 => Seen(e, bytes[Len(bytes)])
<1> DEFINE L == Len(bytes)
           e == DescData(d, bytes)
           k == P[p]
           h == k.hdr
           data == d.tx.data \o bytes
           tx2 == [d.tx EXCEPT !.data = data]
<1>1. /\ d \in TxState /\ d.wire \in Seq(WireFrame) /\ d.tx \in TxPart /\ k \in Kinds /\ pos \in Nat
      /\ p \in Nat
  BY UnderIs
<1>2. PICK q : Sending(d, c, P, p, pos, q) /\ Room(P[p], pos, q)
  BY DEF Under
<1>3. L \in Nat /\ h \in Nat /\ k.payload \in Nat /\ pos + L <= h + k.payload
  BY <1>1, KindIs
<1>4. CASE k.tso
  BY <1>4, SegmentsSend
<1>5. CASE ~k.tso
  <2>1. ~d.tx.cptse
    BY <1>5 DEF Under, Flagged
  <2>2. e = [d EXCEPT !.tx.data = @ \o bytes]
    BY <2>1, Zenon DEF DescData
  <2>3. e = [d EXCEPT !.tx = tx2]
    BY <1>1, <2>2 DEF TxState, TxPart
  <2>4. q = 0 /\ d.tx.data = Data(p, h, q, pos - q) /\ Gathers(d.tx, k, p, pos, q)
    BY <1>2, <1>5 DEF Sending, Gathers, SentOf
  <2>5. d.tx.data = Data(p, h, 0, pos) /\ d.tx.data \in Seq(Byte) /\ Len(d.tx.data) = pos
    <3>1. pos - q = pos
      BY <1>1, <2>4
    <3>2. d.tx.data \in Seq(Byte) /\ Len(d.tx.data) = pos - q
      BY <1>1, <2>4, GathersData
    <3> QED
      BY <2>4, <3>1, <3>2
  <2>6. data = Data(p, h, 0, pos + L)
    <3>1. p \in Nat /\ h \in Nat /\ pos \in Nat
      BY <1>1, <1>3
    <3>2. \A b \in 1..Len(bytes) : bytes[b] = <<p, pos + b>>
      OBVIOUS
    <3> HIDE DEF h
    <3>3. Data(p, h, 0, pos) \o bytes = Data(p, h, 0, pos + Len(bytes))
      BY <3>1, <3>2, DataJoin
    <3> QED
      BY <2>5, <3>3
  <2>7. data \in Seq(Byte) /\ Len(data) = pos + L /\ (L > 0 => data[pos + L] = bytes[L])
    <3>1. /\ data \in Seq(Byte) /\ Len(data) = Len(d.tx.data) + L
          /\ \A i \in 1..(Len(d.tx.data) + L) :
                data[i] = IF i <= Len(d.tx.data) THEN d.tx.data[i] ELSE bytes[i - Len(d.tx.data)]
      BY <2>5, ConcatProperties
    <3> HIDE DEF data, L
    <3>2. L > 0 => pos + L \in 1..(pos + L) /\ ~(pos + L <= pos) /\ (pos + L) - pos = L
      BY <1>1, <1>3
    <3> QED
      BY <2>5, <3>1, <3>2
  <2> HIDE DEF data, e, L
  <2>8. /\ tx2 \in TxPart /\ tx2.data = data /\ tx2.cptse = d.tx.cptse
        /\ tx2.sum_needed = d.tx.sum_needed /\ tx2.vlan_needed = d.tx.vlan_needed
        /\ tx2.vlan_header = d.tx.vlan_header
    BY <1>1, <2>7 DEF TxPart
  <2> HIDE DEF tx2
  <2>9. e \in TxState /\ e.tx = tx2 /\ SameCount(d, e)
    BY <1>1, <2>3, <2>8, PartKeeps
  <2>10. Flagged(e.tx, k, last)
    BY <2>8, <2>9, FlaggedSame DEF Under
  <2>11. Gathers(tx2, k, p, pos + L, 0)
    <3> DEFINE z == pos + L
    <3>1. z \in Nat /\ 0 <= z /\ z <= h + k.payload /\ z - 0 = z
      BY <1>1, <1>3
    <3>2. tx2.data = Data(p, h, 0, z)
      BY <2>6, <2>8
    <3> HIDE DEF z
    <3>3. Gathers(tx2, k, p, z, 0)
      BY <1>5, <3>1, <3>2 DEF Gathers, SentOf
    <3> QED
      BY <3>3 DEF z
  <2>12. Sending(e, c, P, p, pos + L, 0)
    <3>1. Counted(d, c) /\ Sent(d.wire, P, p, 0) /\ P \in Seq(Kinds) /\ p \in 1..Len(P)
      BY <1>2, <2>4 DEF Sending
    <3>2. Counted(e, c) /\ Sent(e.wire, P, p, 0)
      BY <2>9, <3>1, CountedSame DEF SameCount
    <3>3. Context(tx2, k)
      BY <1>5 DEF Context
    <3> QED
      BY <2>9, <2>11, <3>1, <3>2, <3>3 DEF Sending
  <2>13. Under(e, c, P, p, pos + L, last)
    BY <1>5, <2>10, <2>12 DEF Under, Room
  <2>14. Grown(d.wire, e.wire)
    BY <1>1, <2>9, GrownSame DEF SameCount
  <2>15. L > 0 => Seen(e, bytes[L])
    <3>1. L > 0 => pos + L \in 1..(pos + L)
      BY <1>1, <1>3
    <3> QED
      BY <2>7, <2>8, <2>9, <3>1 DEF Seen
  <2> QED
    BY <2>13, <2>14, <2>15 DEF e, L
<1> QED
  BY <1>4, <1>5

-----------------------------------------------------------------------------
(* Descriptors                                                             *)

(* The device between two packets, and between two descriptors of one.     *)
Idle(tx) == tx.data = <<>> /\ tx.tso_frames = 0 /\ ~tx.sum_needed /\ ~tx.vlan_needed

Open(d, c, P, p, pos) ==
    /\ Ready(d.tx, P[p])
    /\ \E q : Sending(d, c, P, p, pos, q) /\ Room(P[p], pos, q)

(* The end of a packet: what is left of it leaves.                         *)
LEMMA EndSends ==
    ASSUME NEW d, NEW c, NEW P, NEW p, NEW pos, Under(d, c, P, p, pos, TRUE),
           pos = P[p].hdr + P[p].payload
    PROVE  LET e == EndOfPacket(d)
           IN  /\ e \in TxState /\ Idle(e.tx) /\ SentAll(e.wire, P, p) /\ Counted(e, c)
               /\ Grown(d.wire, e.wire)
               /\ \A x : Seen(d, x) => OnWire(e.wire, x)
<1> DEFINE k == P[p]
           h == k.hdr
           e == EndOfPacket(d)
           t == IF d.tx.tse /\ d.tx.cptse /\ Len(d.tx.data) < d.tx.hdr_len THEN d ELSE xmit_seg(d)
           tx2 == [t.tx EXCEPT !.data = <<>>, !.tso_frames = 0, !.cptse = FALSE,
                               !.sum_needed = FALSE, !.vlan_needed = FALSE]
<1>1. /\ d \in TxState /\ d.wire \in Seq(WireFrame) /\ d.tx \in TxPart /\ k \in Kinds /\ pos \in Nat
      /\ p \in Nat /\ p \in 1..Len(P) /\ P \in Seq(Kinds) /\ Context(d.tx, k)
  BY UnderIs
<1>2. PICK q : Sending(d, c, P, p, pos, q) /\ Room(k, pos, q)
  BY DEF Under
<1>3. h \in Nat /\ k.payload \in Nat /\ k.mss \in Nat /\ pos = h + k.payload
  BY <1>1, KindIs
<1>4. /\ Gathers(d.tx, k, p, pos, q) /\ q \in Nat /\ q <= pos /\ (q # 0 => pos - q >= h)
  BY <1>2 DEF Sending, Gathers
<1>5. pos - q >= h
  BY <1>3, <1>4
<1>6. Len(d.tx.data) = pos - q
  BY <1>1, <1>4, GathersData
<1>7. Flagged(d.tx, k, TRUE)
  BY DEF Under
<1>8. t = xmit_seg(d)
  <2>1. ASSUME d.tx.tse, d.tx.cptse, Len(d.tx.data) < d.tx.hdr_len PROVE FALSE
    <3>1. k.tso
      BY <1>7, <2>1 DEF Flagged
    <3>2. d.tx.hdr_len = h
      BY <1>1, <3>1 DEF Context
    <3> QED
      BY <1>3, <1>4, <1>5, <1>6, <2>1, <3>2
  <2> QED
    BY <2>1
<1>9. Complete(k, pos, q, TRUE)
  <2>1. k.tso => pos - q <= h + k.mss
    BY <1>2, <1>3, <1>4 DEF Room
  <2> QED
    BY <1>3, <1>5, <2>1 DEF Complete
<1>10. t \in TxState /\ tx2 \in TxPart /\ e = [t EXCEPT !.tx = tx2]
  BY <1>1, EndOfPacketIs
<1>11. /\ Counted(t, c) /\ Sent(t.wire, P, p, pos - h) /\ Grown(d.wire, t.wire)
       /\ \A m \in 1..Len(d.tx.data) : OnWire(t.wire, d.tx.data[m])
  <2>1. /\ Counted(xmit_seg(d), c) /\ Sent(xmit_seg(d).wire, P, p, pos - P[p].hdr)
        /\ Grown(d.wire, xmit_seg(d).wire)
        /\ \A m \in 1..Len(d.tx.data) : OnWire(xmit_seg(d).wire, d.tx.data[m])
    <3> HIDE DEF t
    <3> QED
      BY <1>2, <1>7, <1>9, XmitSends, Zenon
  <2> HIDE DEF t
  <2> QED
    BY <1>8, <2>1
<1> HIDE DEF t, e
<1>12. tx2.data = <<>> /\ tx2.tso_frames = 0 /\ ~tx2.sum_needed /\ ~tx2.vlan_needed
  BY <1>10 DEF TxState, TxPart
<1> HIDE DEF tx2
<1>13. e \in TxState /\ e.tx = tx2 /\ SameCount(t, e)
  BY <1>10, PartKeeps
<1>14. SentAll(e.wire, P, p)
  <2>1. pos - h = k.payload
    BY <1>3
  <2>2. Sent(t.wire, P, p, P[p].payload)
    BY <1>11, <2>1
  <2>3. SentAll(t.wire, P, p)
    BY <1>1, <2>2, SentNext
  <2> QED
    BY <1>13, <2>3 DEF SameCount
<1>15. Counted(e, c) /\ Grown(d.wire, e.wire)
  BY <1>11, <1>13, CountedSame DEF SameCount
<1>16. ASSUME NEW x, Seen(d, x) PROVE OnWire(e.wire, x)
  <2>1. e.wire = t.wire /\ t.wire \in Seq(WireFrame)
    BY <1>10, <1>13 DEF SameCount, TxState
  <2>2. OnWire(d.wire, x) => OnWire(t.wire, x)
    BY <1>1, <1>11, <2>1, GrownIs
  <2> QED
    BY <1>11, <1>16, <2>1, <2>2 DEF Seen
<1>17. Idle(e.tx)
  BY <1>12, <1>13 DEF Idle
<1> QED
  BY <1>13, <1>14, <1>15, <1>16, <1>17 DEF e

(* A data descriptor sets the offloads of its packet.                      *)
LEMMA FlagsSend ==
    ASSUME NEW d, NEW c, NEW P, NEW p, NEW pos, Open(d, c, P, p, pos),
           NEW i \in 1..Len(P[p].cuts)
    PROVE  LET desc == DataOf(P[p], p, i)
               e == DescFlags(d, desc)
           IN  Under(e, c, P, p, pos, i = Len(P[p].cuts)) /\ SameCount(d, e)
<1> DEFINE k == P[p]
           desc == DataOf(k, p, i)
           e == DescFlags(d, desc)
           last == (i = Len(k.cuts))
           cptse == desc.type = "data" /\ desc.TSE
           tag == VME /\ desc.VLE /\ (cptse \/ desc.EOP)
           sum == IF desc.type = "data" /\ d.tx.data = <<>> THEN desc.TXSM ELSE d.tx.sum_needed
           needed == d.tx.vlan_needed \/ tag
           header == IF tag THEN desc.special ELSE d.tx.vlan_header
           tx2 == [d.tx EXCEPT !.cptse = cptse, !.sum_needed = sum, !.vlan_needed = needed,
                               !.vlan_header = header]
<1>1. PICK q : Sending(d, c, P, p, pos, q) /\ Room(k, pos, q)
  BY DEF Open
<1>2. /\ d \in TxState /\ P \in Seq(Kinds) /\ p \in 1..Len(P) /\ Counted(d, c)
      /\ Context(d.tx, k) /\ Gathers(d.tx, k, p, pos, q) /\ Sent(d.wire, P, p, q)
  BY <1>1 DEF Sending
<1>3. k \in Kinds /\ p \in Nat /\ d.tx \in TxPart
  BY <1>2 DEF TxState
<1>4. /\ desc \in TxDesc /\ desc.type = (IF k.tso \/ k.sum THEN "data" ELSE "legacy")
      /\ desc.EOP = last /\ desc.TSE = k.tso
      /\ desc.TXSM = k.sum /\ desc.VLE = (k.tag # 0) /\ desc.special = k.tag
  BY <1>3, DataOfIs
<1>5. tx2 \in TxPart /\ e = [d EXCEPT !.tx = tx2]
  BY <1>2, <1>4, DescFlagsIs
<1> HIDE DEF desc, e
<1>6. cptse <=> k.tso
  BY <1>4
<1>7. tag <=> IsTagged(k, last)
  BY <1>4, <1>6 DEF IsTagged
<1>8. sum <=> k.sum
  BY <1>4 DEF Open, Ready
<1>9. (needed <=> IsTagged(k, last)) /\ (needed => header = k.tag)
  BY <1>4, <1>7 DEF Open, Ready, IsTagged
<1> HIDE DEF cptse, tag, sum, needed, header, last
<1>10. /\ tx2.cptse = cptse /\ tx2.sum_needed = sum /\ tx2.vlan_needed = needed /\ tx2.vlan_header = header
       /\ tx2.data = d.tx.data /\ tx2.header = d.tx.header /\ tx2.tso_frames = d.tx.tso_frames
       /\ tx2.tse = d.tx.tse /\ tx2.hdr_len = d.tx.hdr_len /\ tx2.mss = d.tx.mss
       /\ tx2.paylen = d.tx.paylen
  BY <1>3 DEF TxPart
<1> HIDE DEF tx2
<1>11. e \in TxState /\ e.tx = tx2 /\ SameCount(d, e)
  BY <1>2, <1>5, PartKeeps
<1>12. Flagged(tx2, k, last)
  BY <1>6, <1>8, <1>9, <1>10 DEF Flagged
<1>13. Context(tx2, k)
  BY <1>2, <1>10 DEF Context
<1>14. Gathers(tx2, k, p, pos, q)
  <2>1. SentOf(tx2, k) = SentOf(d.tx, k)
    BY <1>10 DEF SentOf
  <2> QED
    BY <1>2, <1>10, <2>1 DEF Gathers
<1>15. Counted(e, c) /\ Sent(e.wire, P, p, q)
  BY <1>2, <1>11, CountedSame DEF SameCount
<1>16. Sending(e, c, P, p, pos, q)
  BY <1>2, <1>11, <1>13, <1>14, <1>15 DEF Sending
<1>17. Under(e, c, P, p, pos, last)
  BY <1>1, <1>11, <1>12, <1>16 DEF Under
<1> QED
  BY <1>11, <1>17 DEF e, desc, last

(* Nothing here depends on the interrupt registers.                        *)
LEMMA OpenSame ==
    ASSUME NEW d, NEW e, NEW c, NEW P, NEW p, NEW pos, Open(d, c, P, p, pos),
           e \in TxState, e.tx = d.tx, SameCount(d, e)
    PROVE  Open(e, c, P, p, pos)
<1>1. PICK q : Sending(d, c, P, p, pos, q) /\ Room(P[p], pos, q)
  BY DEF Open
<1>2. Counted(e, c)
  BY <1>1, CountedSame DEF Sending
<1>3. Sending(e, c, P, p, pos, q)
  BY <1>1, <1>2 DEF Sending, SameCount
<1> QED
  BY <1>1, <1>3 DEF Open

(* The first thing process_tx_desc does concerns the interrupts.           *)
LEMMA ProcessIs ==
    ASSUME NEW d \in TxState, NEW desc \in TxDesc
    PROVE  \E t : /\ t \in TxState /\ t.tx = d.tx /\ SameCount(d, t)
                  /\ process_tx_desc(d, desc) =
                        IF desc.type = "context" THEN ContextDesc(t, desc)
                        ELSE IF desc.EOP THEN EndOfPacket(DescData(DescFlags(t, desc), desc.bytes))
                             ELSE DescData(DescFlags(t, desc), desc.bytes)
<1> DEFINE ide == d.irq.mit_ide \/ desc.IDE
           irq2 == [d.irq EXCEPT !.mit_ide = ide]
           t == [d EXCEPT !.irq.mit_ide = @ \/ desc.IDE]
<1>1. ide \in BOOLEAN
  OBVIOUS
<1>2. t = [d EXCEPT !.irq = irq2]
  BY DEF TxState, IrqState
<1>3. irq2 \in IrqState
  <2> HIDE DEF ide
  <2> QED
    BY <1>1 DEF TxState, IrqState
<1>4. process_tx_desc(d, desc) =
         IF desc.type = "context" THEN ContextDesc(t, desc)
         ELSE IF desc.EOP THEN EndOfPacket(DescData(DescFlags(t, desc), desc.bytes))
              ELSE DescData(DescFlags(t, desc), desc.bytes)
  BY DEF process_tx_desc
<1> HIDE DEF t, irq2
<1>5. t \in TxState /\ t.tx = d.tx /\ SameCount(d, t)
  BY <1>2, <1>3 DEF TxState, SameCount
<1> QED
  BY <1>4, <1>5

(* The i-th data descriptor of a packet: the next bytes are gathered, and  *)
(* the last descriptor sends what is left.                                 *)
LEMMA ProcessData ==
    ASSUME NEW d, NEW c, NEW P, NEW p, NEW i \in 1..Len(P[p].cuts),
           Open(d, c, P, p, Upto(P[p].cuts, i - 1))
    PROVE  LET desc == DataOf(P[p], p, i)
               e == process_tx_desc(d, desc)
           IN  /\ e \in TxState /\ Counted(e, c) /\ Grown(d.wire, e.wire)
               /\ i # Len(P[p].cuts) => Open(e, c, P, p, Upto(P[p].cuts, i))
               /\ i = Len(P[p].cuts) =>
                     /\ Idle(e.tx) /\ SentAll(e.wire, P, p)
                     /\ desc.bytes # <<>> => OnWire(e.wire, Last(desc.bytes))
<1> DEFINE k == P[p]
           L == Len(k.cuts)
           desc == DataOf(k, p, i)
           bytes == desc.bytes
           last == (i = L)
           pos == Upto(k.cuts, i - 1)
           e == process_tx_desc(d, desc)
<1>1. PICK q : Sending(d, c, P, p, pos, q)
  BY DEF Open
<1>2. d \in TxState /\ P \in Seq(Kinds) /\ p \in 1..Len(P)
  BY <1>1 DEF Sending
<1>3. k \in Kinds /\ p \in Nat
  BY <1>2
<1>4. k.cuts \in Seq(Nat) /\ L \in Nat /\ Total(k.cuts) = k.hdr + k.payload
  BY <1>3, KindIs
<1>5. /\ desc \in TxDesc /\ desc.type # "context" /\ desc.EOP = last /\ bytes = BytesOf(k, p, i)
  BY <1>3, DataOfIs
<1>6. /\ bytes \in Seq(Byte) /\ pos \in Nat /\ Upto(k.cuts, i) = pos + Len(bytes)
      /\ \A b \in 1..Len(bytes) : bytes[b] = <<p, pos + b>>
  BY <1>3, <1>5, BytesOfIs
<1>7. pos + Len(bytes) <= k.hdr + k.payload /\ (last => pos + Len(bytes) = k.hdr + k.payload)
  <2>1. i \in 0..L /\ Upto(k.cuts, L) = Total(k.cuts)
    BY <1>4, UptoIs
  <2>2. Upto(k.cuts, i) <= Total(k.cuts)
    BY <1>4, <2>1, UptoUp
  <2> QED
    BY <1>4, <1>6, <2>1, <2>2
<1>8. PICK t : /\ t \in TxState /\ t.tx = d.tx /\ SameCount(d, t)
               /\ e = IF desc.type = "context" THEN ContextDesc(t, desc)
                      ELSE IF desc.EOP THEN EndOfPacket(DescData(DescFlags(t, desc), bytes))
                           ELSE DescData(DescFlags(t, desc), bytes)
  BY <1>2, <1>5, ProcessIs
<1> HIDE DEF pos
<1>9. Open(t, c, P, p, pos)
  BY <1>8, OpenSame DEF pos
<1> DEFINE v == DescFlags(t, desc)
           u == DescData(v, bytes)
<1>10. Under(v, c, P, p, pos, last) /\ SameCount(t, v)
  BY <1>9, FlagsSend
<1>11. e = IF last THEN EndOfPacket(u) ELSE u
  BY <1>5, <1>8
<1> HIDE DEF desc, bytes, e, v
<1>12. /\ Under(u, c, P, p, pos + Len(bytes), last) /\ Grown(v.wire, u.wire)
       /\ Len(bytes) > 0 => Seen(u, bytes[Len(bytes)])
  <2>1. pos + Len(bytes) <= P[p].hdr + P[p].payload
    BY <1>7
  <2> HIDE DEF last, L
  <2> QED
    BY ONLY <1>6, <1>10, <2>1, DataSends
<1> HIDE DEF u
<1>13. u \in TxState /\ u.wire \in Seq(WireFrame) /\ Counted(u, c)
  BY <1>12, UnderIs
<1>14. Grown(d.wire, u.wire)
  BY <1>8, <1>10, <1>12 DEF SameCount
<1>15. CASE ~last
  <2>1. e = u
    BY <1>11, <1>15
  <2>2. Ready(u.tx, k)
    <3>1. Flagged(u.tx, k, last)
      BY <1>12 DEF Under
    <3> QED
      BY <1>15, <3>1 DEF Flagged, Ready, IsTagged
  <2>3. Open(u, c, P, p, Upto(k.cuts, i))
    BY <1>6, <1>12, <2>2 DEF Under, Open
  <2> QED
    BY <1>13, <1>14, <1>15, <2>1, <2>3 DEF e, desc
<1>16. CASE last
  <2>1. e = EndOfPacket(u)
    BY <1>11, <1>16
  <2> DEFINE z == pos + Len(bytes)
  <2>2. Under(u, c, P, p, z, TRUE) /\ z = P[p].hdr + P[p].payload
    <3>1. last = TRUE
      BY <1>16
    <3> QED
      BY <1>7, <1>12, <1>16, <3>1
  <2> HIDE DEF z
  <2>3. /\ e \in TxState /\ Idle(e.tx) /\ SentAll(e.wire, P, p) /\ Counted(e, c)
        /\ Grown(u.wire, e.wire)
        /\ \A x : Seen(u, x) => OnWire(e.wire, x)
    BY <2>1, <2>2, EndSends
  <2>4. Grown(d.wire, e.wire)
    <3>1. d.wire \in Seq(WireFrame) /\ e.wire \in Seq(WireFrame)
      BY <1>2, <2>3 DEF TxState
    <3> QED
      BY <1>13, <1>14, <2>3, <3>1, GrownIs
  <2>5. bytes # <<>> => OnWire(e.wire, Last(bytes))
    <3>1. bytes # <<>> => Len(bytes) > 0
      BY <1>6
    <3> QED
      BY <1>12, <2>3, <3>1 DEF Last
  <2> QED
    BY <1>16, <2>3, <2>4, <2>5 DEF e, desc, bytes
<1> QED
  BY <1>15, <1>16

(* The next packet can begin when its context is there.                    *)
LEMMA IdleOpen ==
    ASSUME NEW d \in TxState, NEW c, NEW P \in Seq(Kinds), NEW p \in 0..(Len(P) - 1), Counted(d, c),
           Idle(d.tx), SentAll(d.wire, P, p), Context(d.tx, P[p + 1])
    PROVE  Open(d, c, P, p + 1, 0)
<1> DEFINE n == p + 1
           k == P[n]
<1>1. n \in 1..Len(P) /\ n \in Nat /\ k \in Kinds
  OBVIOUS
<1>2. Sent(d.wire, P, n, 0)
  BY SentFirst
<1>3. Context(d.tx, k)
  OBVIOUS
<1> HIDE DEF n
<1>4. k.hdr \in Nat /\ k.payload \in Nat /\ k.mss \in Nat /\ k.hdr > 0
  BY <1>1, KindIs
<1>5. SentOf(d.tx, k) = 0
  BY <1>4 DEF SentOf, Idle
<1>6. d.tx.data = Data(n, k.hdr, 0, 0)
  <2>1. Data(n, k.hdr, 0, 0) \in Seq(Byte) /\ Len(Data(n, k.hdr, 0, 0)) = 0
    <3> DEFINE o == 0
    <3>1. o \in Nat /\ n \in Nat /\ k.hdr \in Nat
      BY <1>1, <1>4
    <3> HIDE DEF o
    <3>2. Data(n, k.hdr, o, o) \in Seq(Byte) /\ Len(Data(n, k.hdr, o, o)) = o
      BY ONLY <3>1, DataType, Zenon
    <3> QED
      BY <3>2 DEF o
  <2>2. Data(n, k.hdr, 0, 0) = <<>>
    BY <2>1
  <2> QED
    BY <2>2 DEF Idle
<1>7. Gathers(d.tx, k, n, 0, 0)
  <2>1. 0 \in Nat /\ 0 - 0 = 0 /\ 0 <= 0 /\ 0 <= k.hdr + k.payload /\ ~(0 >= k.hdr)
    BY <1>4
  <2> QED
    BY <1>5, <1>6, <2>1 DEF Gathers
<1>8. Room(k, 0, 0)
  BY <1>4 DEF Room
<1>9. Sending(d, c, P, n, 0, 0)
  BY <1>1, <1>2, <1>3, <1>7 DEF Sending
<1>10. Ready(d.tx, k)
  BY DEF Ready, Idle
<1>11. Open(d, c, P, n, 0)
  BY <1>8, <1>9, <1>10 DEF Open
<1> QED
  BY <1>11 DEF n

(* A context descriptor between two packets.                               *)
LEMMA ProcessContext ==
    ASSUME NEW d \in TxState, NEW c, NEW P \in Seq(Kinds), NEW p \in 0..(Len(P) - 1), Counted(d, c),
           Idle(d.tx), SentAll(d.wire, P, p)
    PROVE  LET e == process_tx_desc(d, ContextOf(P[p + 1]))
           IN  e \in TxState /\ Counted(e, c) /\ Open(e, c, P, p + 1, 0) /\ Grown(d.wire, e.wire)
<1> DEFINE k == P[p + 1]
           desc == ContextOf(k)
           e == process_tx_desc(d, desc)
<1>1. p + 1 \in 1..Len(P) /\ k \in Kinds
  OBVIOUS
<1>2. /\ desc \in TxDesc /\ desc.type = "context" /\ desc.hdr_len = k.hdr /\ desc.mss = k.mss
      /\ desc.paylen = k.payload /\ desc.TSE = k.tso
  BY <1>1, ContextOfIs
<1>3. PICK t : t \in TxState /\ t.tx = d.tx /\ SameCount(d, t) /\ e = ContextDesc(t, desc)
  BY <1>2, ProcessIs
<1> DEFINE tx2 == [t.tx EXCEPT !.paylen = desc.paylen, !.hdr_len = desc.hdr_len,
                               !.mss = desc.mss, !.tse = desc.TSE, !.tso_frames = 0]
<1>4. tx2 \in TxPart /\ e = [t EXCEPT !.tx = tx2]
  BY <1>2, <1>3, ContextDescIs
<1> HIDE DEF desc, e
<1>5. /\ tx2.paylen = desc.paylen /\ tx2.hdr_len = desc.hdr_len /\ tx2.mss = desc.mss
      /\ tx2.tse = desc.TSE /\ tx2.tso_frames = 0 /\ tx2.data = d.tx.data
      /\ tx2.sum_needed = d.tx.sum_needed /\ tx2.vlan_needed = d.tx.vlan_needed
  <2>1. t.tx \in TxPart
    BY <1>3 DEF TxState
  <2> QED
    BY <1>3, <2>1 DEF TxPart
<1> HIDE DEF tx2
<1>6. e \in TxState /\ e.tx = tx2 /\ SameCount(t, e)
  BY <1>3, <1>4, PartKeeps
<1>7. SameCount(d, e)
  BY <1>3, <1>6 DEF SameCount
<1>8. Counted(e, c)
  BY <1>7, CountedSame
<1>9. Idle(e.tx) /\ Context(e.tx, k)
  BY <1>2, <1>5, <1>6 DEF Idle, Context
<1>10. SentAll(e.wire, P, p)
  BY <1>7 DEF SameCount
<1>11. Open(e, c, P, p + 1, 0)
  BY <1>6, <1>8, <1>9, <1>10, IdleOpen
<1>12. Grown(d.wire, e.wire)
  <2>1. d.wire \in Seq(WireFrame) /\ e.wire = d.wire
    BY <1>7 DEF SameCount, TxState
  <2> QED
    BY <2>1, GrownSame
<1> QED
  BY <1>6, <1>8, <1>11, <1>12 DEF e, desc

-----------------------------------------------------------------------------
(* The stream of descriptors                                               *)

(* A place in the stream: packet p, of which j descriptors are done; 0 is  *)
(* the place before the first packet.                                      *)
CountOf(P, p) == IF p = 0 THEN 0 ELSE Count(P[p])
Place(P, p, j) == p \in 0..Len(P) /\ j \in 0..CountOf(P, p) /\ (p # 0 => j # 0)
Ended(P, p, j) == j = CountOf(P, p)

(* The next place, and the descriptor that leads there.                    *)
Follows(P, p, j, p2, j2, desc) ==
    /\ IF Ended(P, p, j) THEN p2 = p + 1 /\ j2 = 1 ELSE p2 = p /\ j2 = j + 1
    /\ p2 \in 1..Len(P)
    /\ desc = Descriptors(P[p2], p2)[j2]

(* The device at a place of the stream.                                    *)
Standing(d, c, P, p, j) ==
    /\ d \in TxState /\ P \in Seq(Kinds) /\ Place(P, p, j) /\ Counted(d, c)
    /\ IF Ended(P, p, j) THEN Idle(d.tx) /\ SentAll(d.wire, P, p)
       ELSE Open(d, c, P, p, Upto(P[p].cuts, j - Lead(P[p])))

(* Where the next place is.                                                *)
LEMMA FollowsIs ==
    ASSUME NEW P \in Seq(Kinds), NEW p, NEW j, NEW p2, NEW j2, NEW desc,
           Place(P, p, j), Follows(P, p, j, p2, j2, desc)
    PROVE  LET k == P[p2]
           IN  /\ p2 \in 1..Len(P) /\ p2 \in Nat /\ k \in Kinds /\ Place(P, p2, j2)
               /\ j2 \in 1..Count(k) /\ j2 \in Nat
               /\ desc = (IF j2 <= Lead(k) THEN ContextOf(k) ELSE DataOf(k, p2, j2 - Lead(k)))
               /\ j2 <= Lead(k) <=> k.context /\ Ended(P, p, j)
               /\ ~(j2 <= Lead(k)) => j2 - Lead(k) \in 1..Len(k.cuts)
               /\ Ended(P, p2, j2) <=> j2 = Count(k)
               /\ Ended(P, p, j) => p2 = p + 1 /\ j2 = 1 /\ p \in 0..(Len(P) - 1)
               /\ ~Ended(P, p, j) => p2 = p /\ j2 = j + 1 /\ j \in Nat
<1> DEFINE k == P[p2]
           l == Lead(k)
           n == Count(k)
<1>1. /\ p2 \in 1..Len(P) /\ desc = Descriptors(k, p2)[j2]
      /\ IF Ended(P, p, j) THEN p2 = p + 1 /\ j2 = 1 ELSE p2 = p /\ j2 = j + 1
  BY DEF Follows
<1>2. p2 \in Nat /\ k \in Kinds /\ p2 # 0 /\ Len(P) \in Nat
  BY <1>1
<1>3. l \in 0..1 /\ n \in Nat /\ n > l /\ Len(k.cuts) \in Nat /\ n = Len(k.cuts) + l /\ Len(k.cuts) > 0
  BY <1>2, KindIs DEF Count
<1>4. \A i \in 1..n : Descriptors(k, p2)[i] = IF i <= l THEN ContextOf(k) ELSE DataOf(k, p2, i - l)
  BY <1>2, DescriptorsAre
<1>5. CountOf(P, p2) = n
  BY <1>2 DEF CountOf
<1>6. l = 1 <=> k.context
  BY <1>3 DEF Lead
<1> HIDE DEF k, l, n
<1>7. /\ j2 \in 1..n
      /\ Ended(P, p, j) => p \in 0..(Len(P) - 1)
      /\ ~Ended(P, p, j) => j \in Nat /\ j2 > l
  <2>1. CASE Ended(P, p, j)
    <3>1. p \in 0..Len(P)
      BY DEF Place
    <3> QED
      BY <1>1, <1>2, <1>3, <2>1, <3>1
  <2>2. CASE ~Ended(P, p, j)
    <3>1. p = p2 /\ j \in 0..n /\ j # n /\ j # 0 /\ j2 = j + 1
      BY <1>1, <1>2, <1>5, <2>2 DEF Place, Ended
    <3> QED
      BY <1>3, <2>2, <3>1
  <2> QED
    BY <2>1, <2>2
<1>8. Place(P, p2, j2)
  <2>1. j2 \in 0..n /\ j2 # 0 /\ p2 \in 0..Len(P)
    BY <1>1, <1>2, <1>7
  <2> QED
    BY <1>5, <2>1 DEF Place
<1>9. j2 <= l <=> k.context /\ Ended(P, p, j)
  BY <1>1, <1>3, <1>6, <1>7
<1>10. ~(j2 <= l) => j2 - l \in 1..Len(k.cuts)
  BY <1>3, <1>7
<1>11. Ended(P, p2, j2) <=> j2 = n
  BY <1>5 DEF Ended
<1>12. desc = IF j2 <= l THEN ContextOf(k) ELSE DataOf(k, p2, j2 - l)
  BY <1>1, <1>4, <1>7
<1>13. j2 \in Nat
  BY <1>7, <1>3
<1> QED
  BY <1>1, <1>2, <1>7, <1>8, <1>9, <1>10, <1>11, <1>12, <1>13 DEF k, l, n

(* One descriptor takes the device from a place to the next.  A careful    *)
(* guest is needed for a packet without a context of its own.              *)
LEMMA ProcessStands ==
    ASSUME Careful, NEW d, NEW c, NEW P, NEW p, NEW j, NEW p2, NEW j2, NEW desc,
           Standing(d, c, P, p, j), Follows(P, p, j, p2, j2, desc)
    PROVE  LET e == process_tx_desc(d, desc)
           IN  /\ Standing(e, c, P, p2, j2) /\ Grown(d.wire, e.wire) /\ desc \in TxDesc /\ ~desc.DD
               /\ desc.RS /\ desc.bytes # <<>> => OnWire(e.wire, Last(desc.bytes))
<1> DEFINE k == P[p2]
           l == Lead(k)
           L == Len(k.cuts)
           e == process_tx_desc(d, desc)
<1>1. d \in TxState /\ P \in Seq(Kinds) /\ Place(P, p, j) /\ Counted(d, c)
  BY DEF Standing
<1>2. /\ p2 \in 1..Len(P) /\ p2 \in Nat /\ k \in Kinds /\ Place(P, p2, j2)
      /\ j2 \in 1..Count(k) /\ j2 \in Nat
      /\ desc = (IF j2 <= l THEN ContextOf(k) ELSE DataOf(k, p2, j2 - l))
      /\ (j2 <= l <=> k.context /\ Ended(P, p, j))
      /\ (~(j2 <= l) => j2 - l \in 1..L)
      /\ (Ended(P, p2, j2) <=> j2 = Count(k))
      /\ (Ended(P, p, j) => p2 = p + 1 /\ j2 = 1 /\ p \in 0..(Len(P) - 1))
      /\ (~Ended(P, p, j) => p2 = p /\ j2 = j + 1 /\ j \in Nat)
  BY <1>1, FollowsIs
<1>3. l \in 0..1 /\ L \in Nat /\ L > 0 /\ Count(k) = L + l /\ k.cuts \in Seq(Nat)
  BY <1>2, KindIs DEF Count
<1>4. Upto(k.cuts, 0) = 0
  BY <1>3, UptoIs
<1>5. CASE j2 <= l
  <2>1. Ended(P, p, j) /\ p2 = p + 1 /\ j2 = 1 /\ l = 1 /\ p \in 0..(Len(P) - 1) /\ desc = ContextOf(k)
    BY <1>2, <1>3, <1>5
  <2>2. Idle(d.tx) /\ SentAll(d.wire, P, p)
    BY <2>1 DEF Standing
  <2>3. desc \in TxDesc /\ ~desc.DD /\ ~desc.RS
    BY <1>2, <2>1, ContextOfIs
  <2>4. e \in TxState /\ Counted(e, c) /\ Open(e, c, P, p2, 0) /\ Grown(d.wire, e.wire)
    <3>1. e = process_tx_desc(d, ContextOf(P[p + 1]))
      BY <2>1
    <3> HIDE DEF e
    <3>2. e \in TxState /\ Counted(e, c) /\ Open(e, c, P, p + 1, 0) /\ Grown(d.wire, e.wire)
      BY <1>1, <2>1, <2>2, <3>1, ProcessContext
    <3> QED
      BY <2>1, <3>2
  <2>5. ~Ended(P, p2, j2) /\ Upto(k.cuts, j2 - l) = 0
    BY <1>2, <1>3, <1>4, <2>1
  <2>6. Standing(e, c, P, p2, j2)
    <3> HIDE DEF e
    <3> QED
      BY <1>1, <1>2, <2>4, <2>5 DEF Standing
  <2> QED
    BY <2>3, <2>4, <2>6
<1>6. CASE ~(j2 <= l)
  <2> DEFINE i == j2 - l
  <2>1. i \in 1..L /\ desc = DataOf(k, p2, i)
    BY <1>2, <1>6
  <2>2. Open(d, c, P, p2, Upto(k.cuts, i - 1))
    <3>1. CASE Ended(P, p, j)
      <4>1. ~k.context /\ p2 = p + 1 /\ j2 = 1 /\ p \in 0..(Len(P) - 1) /\ l = 0
        BY <1>2, <1>3, <1>6, <3>1 DEF Lead
      <4>2. Idle(d.tx) /\ SentAll(d.wire, P, p)
        BY <3>1 DEF Standing
      <4>3. ~k.tso
        BY <1>2, <4>1 DEF Careful
      <4>4. Context(d.tx, P[p + 1])
        BY <4>1, <4>3 DEF Context
      <4>5. Open(d, c, P, p + 1, 0)
        BY <1>1, <4>1, <4>2, <4>4, IdleOpen
      <4>6. i - 1 = 0
        BY <4>1
      <4> QED
        BY <1>4, <4>1, <4>5, <4>6
    <3>2. CASE ~Ended(P, p, j)
      <4>1. Open(d, c, P, p, Upto(P[p].cuts, j - Lead(P[p]))) /\ p2 = p /\ j2 = j + 1 /\ j \in Nat
        BY <1>2, <3>2 DEF Standing
      <4>2. i - 1 = j - l
        BY <1>3, <4>1
      <4> QED
        BY <4>1, <4>2
    <3> QED
      BY <3>1, <3>2
  <2>3. desc \in TxDesc /\ ~desc.DD /\ desc.RS = (i = L)
    BY <1>2, <2>1, DataOfIs
  <2>4. /\ e \in TxState /\ Counted(e, c) /\ Grown(d.wire, e.wire)
        /\ i # L => Open(e, c, P, p2, Upto(k.cuts, i))
        /\ i = L => /\ Idle(e.tx) /\ SentAll(e.wire, P, p2)
                    /\ desc.bytes # <<>> => OnWire(e.wire, Last(desc.bytes))
    <3> HIDE DEF i
    <3> QED
      BY <2>1, <2>2, ProcessData
  <2>5. i = L <=> j2 = Count(k)
    BY <1>2, <1>3
  <2> HIDE DEF e
  <2>6. Standing(e, c, P, p2, j2)
    BY <1>1, <1>2, <2>4, <2>5 DEF Standing
  <2> QED
    BY <2>3, <2>4, <2>6 DEF e
<1> QED
  BY <1>5, <1>6

(* Nothing here depends on the ring or on the interrupts.                  *)
LEMMA StandingSame ==
    ASSUME NEW d, NEW e, NEW c, NEW P, NEW p, NEW j, Standing(d, c, P, p, j),
           e \in TxState, e.tx = d.tx, SameCount(d, e)
    PROVE  Standing(e, c, P, p, j)
<1>1. Counted(e, c)
  BY CountedSame DEF Standing
<1>2. CASE Ended(P, p, j)
  BY <1>1, <1>2 DEF Standing, SameCount
<1>3. CASE ~Ended(P, p, j)
  <2>1. Open(d, c, P, p, Upto(P[p].cuts, j - Lead(P[p])))
    BY <1>3 DEF Standing
  <2>2. Open(e, c, P, p, Upto(P[p].cuts, j - Lead(P[p])))
    BY <2>1, OpenSame
  <2> QED
    BY <1>1, <1>3, <2>2 DEF Standing
<1> QED
  BY <1>2, <1>3

(* A descriptor reported done has its last byte on the wire.               *)
Done(ring, wire) ==
    \A k \in Indexes : ring[k].DD /\ ring[k].bytes # <<>> => OnWire(wire, Last(ring[k].bytes))

(* One turn of the loop of start_xmit.                                     *)
LEMMA TurnStands ==
    ASSUME Careful, NEW acc, NEW c, NEW P, NEW p, NEW j, NEW p2, NEW j2,
           Standing(acc.d, c, P, p, j), Done(acc.d.ring, acc.d.wire),
           Follows(P, p, j, p2, j2, acc.d.ring[acc.d.TDH])
    PROVE  LET e == XmitOne(acc).d
           IN  Standing(e, c, P, p2, j2) /\ Done(e.ring, e.wire)
<1> DEFINE d == acc.d
           r == d.TDH
           desc == d.ring[r]
           q == process_tx_desc(d, desc)
           e == XmitOne(acc).d
<1>1. d \in TxState
  BY DEF Standing
<1>2. /\ Aside(d, q) /\ r \in Indexes /\ desc \in TxDesc /\ e \in TxState
      /\ \A k \in Indexes : k # r => e.ring[k] = d.ring[k]
      /\ e.ring[r] = (IF desc.RS THEN [desc EXCEPT !.DD = TRUE] ELSE desc)
      /\ e.tx = q.tx /\ e.wire = q.wire /\ e.TPT = q.TPT /\ e.GPTC = q.GPTC
      /\ e.TOTL = q.TOTL /\ e.TOTH = q.TOTH
  BY <1>1, XmitOneIs
<1>3. /\ Standing(q, c, P, p2, j2) /\ Grown(d.wire, q.wire) /\ ~desc.DD
      /\ desc.RS /\ desc.bytes # <<>> => OnWire(q.wire, Last(desc.bytes))
  <2>1. Standing(d, c, P, p, j) /\ Follows(P, p, j, p2, j2, desc)
    OBVIOUS
  <2> HIDE DEF d, desc
  <2> QED
    BY <2>1, ProcessStands
<1> HIDE DEF e, q
<1>4. SameCount(q, e)
  BY <1>2 DEF SameCount
<1>5. Standing(e, c, P, p2, j2)
  BY <1>2, <1>3, <1>4, StandingSame
<1>6. d.wire \in Seq(WireFrame) /\ e.wire \in Seq(WireFrame) /\ Grown(d.wire, e.wire)
  BY <1>1, <1>2, <1>3 DEF TxState
<1>7. \A x : OnWire(d.wire, x) => OnWire(e.wire, x)
  BY <1>6, GrownIs
<1>8. ASSUME NEW k \in Indexes, e.ring[k].DD, e.ring[k].bytes # <<>>
      PROVE  OnWire(e.wire, Last(e.ring[k].bytes))
  <2>1. CASE k # r
    <3>1. e.ring[k] = d.ring[k]
      BY <1>2, <2>1
    <3> QED
      BY <1>7, <1>8, <3>1 DEF Done
  <2>2. CASE k = r
    <3>1. desc.RS /\ e.ring[k].bytes = desc.bytes
      BY <1>2, <1>3, <1>8, <2>2 DEF TxDesc
    <3> QED
      BY <1>2, <1>3, <1>8, <3>1
  <2> QED
    BY <2>1, <2>2
<1>9. Done(e.ring, e.wire)
  BY <1>8 DEF Done
<1> QED
  BY <1>5, <1>9 DEF e

(* The places that the loop of start_xmit passes.                          *)
LEMMA LoopStands ==
    ASSUME Careful, NEW d \in TxState, NEW g, NEW c, NEW P, NEW pk, NEW nr,
           g[0] = [cause |-> {"TXQE"}, d |-> d],
           \A n \in 1..Dist(d.TDT, d.TDH) : g[n] = XmitOne(g[n - 1]),
           \A n \in 1..Dist(d.TDT, d.TDH) :
              Follows(P, pk[n - 1], nr[n - 1], pk[n], nr[n], d.ring[At(d.TDH, n - 1)]),
           Standing(d, c, P, pk[0], nr[0]), Done(d.ring, d.wire)
    PROVE  \A n \in 0..Dist(d.TDT, d.TDH) :
              Standing(g[n].d, c, P, pk[n], nr[n]) /\ Done(g[n].d.ring, g[n].d.wire)
<1> DEFINE L == Dist(d.TDT, d.TDH)
           I(n) == Standing(g[n].d, c, P, pk[n], nr[n]) /\ Done(g[n].d.ring, g[n].d.wire)
           T == {n \in 0..L : ~I(n)}
<1>0. d.TDH \in Indexes /\ d.TDT \in Indexes /\ N \in Nat /\ N > 1
  BY TxAssumption DEF TxState
<1>1. L \in Indexes
  BY <1>0, DistIs
<1>2. L \in Nat /\ L < N
  BY <1>0, <1>1 DEF Indexes
<1>3. I(0)
  OBVIOUS
<1>4. \A n \in 0..L : Run(d, g[n], n)
  BY RunAll
<1>5. /\ \A n \in 1..L : g[n] = XmitOne(g[n - 1])
      /\ \A n \in 1..L : Follows(P, pk[n - 1], nr[n - 1], pk[n], nr[n], d.ring[At(d.TDH, n - 1)])
  OBVIOUS
<1> HIDE DEF L, I
<1>6. ASSUME NEW n \in 1..L, I(n - 1) PROVE I(n)
  <2> DEFINE m == n - 1
             acc == g[m]
             r == acc.d.TDH
  <2>1. m \in 0..L /\ m \in Indexes /\ m \in Nat
    BY <1>0, <1>2 DEF Indexes
  <2>2. Run(d, acc, m) /\ I(m)
    BY <1>4, <1>6, <2>1
  <2>3. r = At(d.TDH, m) /\ Dist(r, d.TDH) = m /\ r \in Indexes
    <3>1. r = At(d.TDH, m) /\ r \in Indexes
      BY <2>2 DEF Run, TxState
    <3> HIDE DEF r, m
    <3> QED
      BY <1>0, <2>1, <3>1, DistAt
  <2>4. Dist(r, d.TDH) >= m
    BY <2>1, <2>3
  <2>5. acc.d.ring[r] = d.ring[At(d.TDH, m)]
    BY <2>2, <2>3, <2>4 DEF Run
  <2>6. Follows(P, pk[m], nr[m], pk[n], nr[n], acc.d.ring[r]) /\ g[n] = XmitOne(acc)
    BY <1>5, <2>5
  <2>7. Standing(acc.d, c, P, pk[m], nr[m]) /\ Done(acc.d.ring, acc.d.wire)
    BY <2>2 DEF I
  <2> HIDE DEF acc, m
  <2>8. Standing(XmitOne(acc).d, c, P, pk[n], nr[n]) /\ Done(XmitOne(acc).d.ring, XmitOne(acc).d.wire)
    BY <2>6, <2>7, TurnStands DEF r
  <2> QED
    BY <2>6, <2>8 DEF I
<1>7. ASSUME T # {} PROVE FALSE
  <2>1. T \subseteq Nat
    BY <1>2
  <2>2. PICK n \in T : \A y \in T : n <= y
    <3> HIDE DEF T
    <3> QED
      BY <1>7, <2>1, LeastNumber
  <2>3. n \in 0..L /\ n \in Nat /\ ~I(n)
    BY <2>1, <2>2
  <2>4. n # 0
    BY <1>3, <2>3
  <2>5. n - 1 \in 0..L /\ n \in 1..L /\ n - 1 \in Nat /\ ~(n <= n - 1)
    BY <1>2, <2>3, <2>4
  <2>6. n - 1 \notin T
    <3> HIDE DEF T
    <3> QED
      BY <2>2, <2>5
  <2>7. I(n - 1)
    BY <2>5, <2>6
  <2> QED
    BY <1>6, <2>3, <2>5, <2>7
<1>8. \A n \in 0..L : I(n)
  BY <1>7
<1> QED
  BY <1>8 DEF L, I

-----------------------------------------------------------------------------
(* What is still to be sent                                                *)

(* The descriptors between head and tail, and after them the ones that the *)
(* driver has made up but not handed over.                                 *)
Between(d) == Dist(d.TDT, d.TDH)
Item(d, list, i) == IF i <= Between(d) THEN d.ring[At(d.TDH, i - 1)] ELSE list[i - Between(d)]
Waiting(d, list) == Between(d) + Len(list)

(* They lead from place to place, to the end of the last packet posted.    *)
Queued(d, list, P, pk, nr) ==
    /\ \A i \in 1..Waiting(d, list) :
         Follows(P, pk[i - 1], nr[i - 1], pk[i], nr[i], Item(d, list, i))
    /\ pk[Waiting(d, list)] = Len(P)
    /\ Ended(P, pk[Waiting(d, list)], nr[Waiting(d, list)])

Flow(d, c, list, P) ==
    /\ \E pk, nr : Queued(d, list, P, pk, nr) /\ Standing(d, c, P, pk[0], nr[0])
    /\ Done(d.ring, d.wire)

(* The flow does not depend on the interrupts.                             *)
LEMMA FlowSame ==
    ASSUME NEW d, NEW e, NEW c, NEW list, NEW P, Flow(d, c, list, P), e \in TxState,
           e.tx = d.tx, SameCount(d, e), e.ring = d.ring, e.TDH = d.TDH, e.TDT = d.TDT
    PROVE  Flow(e, c, list, P)
<1>1. PICK pk, nr : Queued(d, list, P, pk, nr) /\ Standing(d, c, P, pk[0], nr[0])
  BY DEF Flow
<1>2. Standing(e, c, P, pk[0], nr[0])
  BY <1>1, StandingSame
<1>3. Queued(e, list, P, pk, nr)
  BY <1>1 DEF Queued, Waiting, Item, Between
<1>4. Done(e.ring, e.wire)
  BY DEF Flow, SameCount
<1> QED
  BY <1>2, <1>3, <1>4 DEF Flow

(* A run of start_xmit takes the device to the place after the tail.       *)
LEMMA StartXmitFlows ==
    ASSUME Careful, NEW d \in TxState, NEW c, NEW list \in Seq(TxDesc), NEW P, Flow(d, c, list, P)
    PROVE  Flow(start_xmit(d), c, list, P)
<1>0. d.TDH \in Indexes /\ d.TDT \in Indexes /\ N \in Nat /\ N > 1 /\ Len(list) \in Nat
  BY TxAssumption DEF TxState
<1>1. CASE ~d.TCTL_EN
  BY <1>1 DEF start_xmit
<1>2. CASE d.TCTL_EN
  <2> DEFINE L == Dist(d.TDT, d.TDH)
             M == Len(list)
             e == start_xmit(d)
  <2>1. PICK g : /\ g[0] = [cause |-> {"TXQE"}, d |-> d]
                 /\ \A n \in 1..L : g[n] = XmitOne(g[n - 1])
                 /\ e = [g[L].d EXCEPT !.irq = set_ics(@, g[L].cause)]
    BY <1>0, <1>2, StartXmitIs
  <2> HIDE DEF e
  <2>2. L \in Indexes /\ At(d.TDH, L) = d.TDT
    BY <1>0, DistIs
  <2>3. L \in 0..L /\ L \in Nat
    BY <1>0, <2>2 DEF Indexes
  <2>4. Run(d, g[L], L)
    BY <1>0, <2>1, <2>3, RunAll
  <2>5. PICK pk, nr : Queued(d, list, P, pk, nr) /\ Standing(d, c, P, pk[0], nr[0])
    BY DEF Flow
  <2>6. /\ \A i \in 1..(L + M) : Follows(P, pk[i - 1], nr[i - 1], pk[i], nr[i], Item(d, list, i))
        /\ pk[L + M] = Len(P) /\ Ended(P, pk[L + M], nr[L + M])
    BY <2>5 DEF Queued, Waiting, Between
  <2>7. \A n \in 1..L : Follows(P, pk[n - 1], nr[n - 1], pk[n], nr[n], d.ring[At(d.TDH, n - 1)])
    <3>1. \A n \in 1..L : n \in 1..(L + M) /\ n <= L
      BY <1>0, <2>3
    <3> HIDE DEF L
    <3>2. \A n \in 1..L : Item(d, list, n) = d.ring[At(d.TDH, n - 1)]
      BY <3>1 DEF Item, Between, L
    <3> QED
      BY <2>6, <3>1, <3>2
  <2>8. Standing(g[L].d, c, P, pk[L], nr[L]) /\ Done(g[L].d.ring, g[L].d.wire)
    <3>1. Done(d.ring, d.wire)
      BY DEF Flow
    <3>2. \A n \in 0..L : Standing(g[n].d, c, P, pk[n], nr[n]) /\ Done(g[n].d.ring, g[n].d.wire)
      BY <2>1, <2>5, <2>7, <3>1, LoopStands
    <3> QED
      BY <2>3, <3>2
  <2> DEFINE f == g[L].d
             cause == g[L].cause
             irq == set_ics(f.irq, cause)
  <2>9. f \in TxState /\ f.irq \in IrqState /\ cause \in SUBSET Causes
    BY <2>4, TxAssumption DEF Run, TxState
  <2>10. irq \in IrqState
    BY <2>9, IcsStored
  <2>11. f.TDH = d.TDT /\ f.TDT = d.TDT
    BY <2>2, <2>4 DEF Run
  <2>12. e = [f EXCEPT !.irq = irq] /\ Standing(f, c, P, pk[L], nr[L]) /\ Done(f.ring, f.wire)
    BY <2>1, <2>8
  <2> HIDE DEF f, irq, cause, L
  <2>13. /\ e \in TxState /\ e.TDH = d.TDT /\ e.TDT = d.TDT /\ e.ring = f.ring
         /\ e.tx = f.tx /\ SameCount(f, e)
    BY <2>9, <2>10, <2>11, <2>12 DEF TxState, SameCount
  <2>14. Done(e.ring, e.wire) /\ Standing(e, c, P, pk[L], nr[L])
    <3>1. Standing(e, c, P, pk[L], nr[L])
      BY <2>12, <2>13, StandingSame
    <3> QED
      BY <2>12, <2>13, <3>1 DEF SameCount
  <2>15. Between(e) = 0 /\ Waiting(e, list) = M
    <3>1. Dist(d.TDT, d.TDT) = 0
      <4>1. Dist(d.TDT, d.TDT) = IF d.TDT < d.TDT THEN d.TDT + N - d.TDT ELSE d.TDT - d.TDT
        BY <1>0, DistIs
      <4> QED
        BY <1>0, <4>1 DEF Indexes
    <3> QED
      BY <1>0, <2>13, <3>1 DEF Between, Waiting
  <2> DEFINE pk2 == [i \in 0..M |-> pk[L + i]]
             nr2 == [i \in 0..M |-> nr[L + i]]
  <2>16. \A i \in 0..M : pk2[i] = pk[L + i] /\ nr2[i] = nr[L + i]
    OBVIOUS
  <2>17. 0 \in 0..M /\ M \in 0..M /\ L + 0 = L
    BY <1>0, <2>3
  <2> HIDE DEF pk2, nr2
  <2>18. ASSUME NEW i \in 1..M
         PROVE  Follows(P, pk2[i - 1], nr2[i - 1], pk2[i], nr2[i], Item(e, list, i))
    <3>1. /\ L + i \in 1..(L + M) /\ (L + i) - 1 = L + (i - 1) /\ i - 1 \in 0..M /\ i \in 0..M
          /\ ~(L + i <= L) /\ (L + i) - L = i /\ ~(i <= 0) /\ i - 0 = i
      BY <1>0, <2>3
    <3>2. Item(d, list, L + i) = list[i]
      BY <3>1 DEF Item, Between, L
    <3>3. Item(e, list, i) = list[i]
      BY <2>15, <3>1 DEF Item
    <3>4. Follows(P, pk[(L + i) - 1], nr[(L + i) - 1], pk[L + i], nr[L + i], Item(d, list, L + i))
      BY <2>6, <3>1
    <3> QED
      BY <2>16, <3>1, <3>2, <3>3, <3>4
  <2>19. Queued(e, list, P, pk2, nr2)
    BY <2>6, <2>15, <2>16, <2>17, <2>18 DEF Queued
  <2>20. Standing(e, c, P, pk2[0], nr2[0])
    BY <2>14, <2>16, <2>17
  <2>21. Flow(e, c, list, P)
    BY <2>14, <2>19, <2>20 DEF Flow
  <2> QED
    BY <2>21 DEF e
<1> QED
  BY <1>1, <1>2

(* Handing over changes who holds the descriptors, not which they are.     *)
LEMMA HandOverFlows ==
    ASSUME NEW d, NEW c0, NEW reap, Shared(d, c0, reap), NEW list, Fresh(list), NEW n \in 1..Len(list),
           n <= (c0 + N - d.TDT - 1) % N, NEW c, NEW P, Flow(d, c, list, P)
    PROVE  Flow(HandOver(d, list, n), c, SubSeq(list, n + 1, Len(list)), P)
<1> DEFINE e == HandOver(d, list, n)
           rest == SubSeq(list, n + 1, Len(list))
           h == Dist(d.TDT, d.TDH)
           a == Dist(d.TDH, c0)
           b == Dist(d.TDT, c0)
           L == Len(list)
<1>1. list \in Seq(TxDesc) /\ \A i \in 1..Len(list) : ~list[i].DD
  BY DEF Fresh
<1>2. /\ e \in TxState /\ e.TDH = d.TDH /\ e.TDT = At(d.TDT, n)
      /\ e.tx = d.tx /\ SameCount(d, e)
      /\ \A k \in Indexes : e.ring[k] = (IF Dist(k, d.TDT) < n THEN list[Dist(k, d.TDT) + 1]
                                         ELSE d.ring[k])
      /\ n \in Indexes /\ b + n < N
      /\ Dist(e.TDT, c0) = b + n
  BY <1>1, HandOverIs DEF SameCount
<1> HIDE DEF e
<1>3. /\ N \in Nat /\ N > 1 /\ d \in TxState /\ c0 \in Indexes /\ d.TDT \in Indexes /\ d.TDH \in Indexes
      /\ Placed(d.ring, d.TDH, d.TDT, c0) /\ e.TDT \in Indexes
  BY <1>2, TxAssumption DEF Shared, TxState
<1>4. L \in Nat /\ n \in Nat /\ n > 0 /\ n <= L
  BY <1>1
<1>5. a \in Nat /\ b \in Nat /\ a <= b /\ h = b - a /\ h \in Nat /\ a < N
  <2>1. a \in Indexes /\ b \in Indexes /\ a <= b
    BY <1>3, DistIs DEF Placed
  <2>2. h = IF b < a THEN N + b - a ELSE b - a
    BY <1>3, DistFrom
  <2> QED
    BY <1>3, <2>1, <2>2 DEF Indexes
<1>6. Dist(e.TDT, e.TDH) = h + n
  <2>1. Dist(e.TDT, d.TDH) = IF b + n < a THEN N + (b + n) - a ELSE (b + n) - a
    <3>1. Dist(e.TDT, d.TDH) = IF Dist(e.TDT, c0) < a THEN N + Dist(e.TDT, c0) - a
                               ELSE Dist(e.TDT, c0) - a
      BY <1>3, DistFrom
    <3> HIDE DEF a, b
    <3> QED
      BY <1>2, <3>1
  <2> QED
    BY <1>2, <1>4, <1>5, <2>1
<1>7. Fresh(rest) /\ Len(rest) = L - n /\ \A i \in 1..Len(rest) : rest[i] = list[n + i]
  BY RestFresh
<1> HIDE DEF rest, h, a, b, L
<1>8. Between(d) = h /\ Between(e) = h + n /\ Waiting(d, list) = h + L /\ Waiting(e, rest) = h + L
  BY <1>4, <1>5, <1>6, <1>7 DEF Between, Waiting, h, L
<1>9. ASSUME NEW i \in 1..(h + n)
      PROVE  /\ At(d.TDH, i - 1) \in Indexes
             /\ Dist(At(d.TDH, i - 1), d.TDT) = IF i <= h THEN (N + (i - 1)) - h ELSE (i - 1) - h
  <2> DEFINE m == i - 1
             k == At(d.TDH, m)
  <2>1. m \in Nat /\ m < N /\ m \in 0..N /\ m \in Indexes
    BY <1>2, <1>3, <1>4, <1>5 DEF Indexes
  <2> HIDE DEF m
  <2>2. k \in Indexes /\ Dist(k, d.TDH) = m
    BY <1>3, <2>1, AtIs, DistAt
  <2> HIDE DEF k
  <2>3. Dist(d.TDT, d.TDH) = h
    BY DEF h
  <2>4. Dist(k, d.TDT) = IF m < h THEN N + m - h ELSE m - h
    BY <1>3, <2>2, <2>3, DistFrom
  <2>5. m < h <=> i <= h
    BY <1>4, <1>5 DEF m
  <2>6. Dist(k, d.TDT) = IF i <= h THEN (N + m) - h ELSE m - h
    BY <1>3, <1>5, <2>1, <2>4, <2>5
  <2> QED
    BY <2>2, <2>6 DEF m, k
<1>10. ASSUME NEW i \in 1..(h + L) PROVE Item(e, rest, i) = Item(d, list, i)
  <2> DEFINE k == At(d.TDH, i - 1)
  <2>1. CASE i <= h
    <3>1. i \in 1..(h + n) /\ i <= h + n
      BY <1>4, <1>5, <2>1
    <3>2. k \in Indexes /\ Dist(k, d.TDT) = (N + (i - 1)) - h
      BY <1>9, <2>1, <3>1
    <3>3. ~((N + (i - 1)) - h < n)
      BY <1>2, <1>3, <1>4, <1>5, <2>1
    <3>4. e.ring[k] = d.ring[k]
      BY <1>2, <3>2, <3>3
    <3> QED
      BY <1>2, <1>8, <2>1, <3>1, <3>4 DEF Item
  <2>2. CASE ~(i <= h) /\ i <= h + n
    <3>1. i \in 1..(h + n)
      BY <1>4, <1>5, <2>2
    <3>2. k \in Indexes /\ Dist(k, d.TDT) = (i - 1) - h
      BY <1>9, <2>2, <3>1
    <3>3. (i - 1) - h < n /\ ((i - 1) - h) + 1 = i - h
      BY <1>4, <1>5, <2>2
    <3>4. e.ring[k] = list[i - h]
      BY <1>2, <3>2, <3>3
    <3> QED
      BY <1>2, <1>8, <2>2, <3>4 DEF Item
  <2>3. CASE ~(i <= h + n)
    <3>1. i - (h + n) \in 1..(L - n) /\ n + (i - (h + n)) = i - h /\ ~(i <= h)
      BY <1>4, <1>5, <2>3
    <3>2. rest[i - (h + n)] = list[i - h]
      BY <1>7, <3>1
    <3> QED
      BY <1>8, <2>3, <3>1, <3>2 DEF Item
  <2> QED
    BY <2>1, <2>2, <2>3
<1>11. PICK pk, nr : Queued(d, list, P, pk, nr) /\ Standing(d, c, P, pk[0], nr[0])
  BY DEF Flow
<1>12. Queued(e, rest, P, pk, nr)
  BY <1>8, <1>10, <1>11 DEF Queued
<1>13. Standing(e, c, P, pk[0], nr[0])
  BY <1>2, <1>11, StandingSame
<1>14. Done(e.ring, e.wire)
  <2> SUFFICES ASSUME NEW k \in Indexes, e.ring[k].DD, e.ring[k].bytes # <<>>
               PROVE  OnWire(e.wire, Last(e.ring[k].bytes))
    BY DEF Done
  <2>1. e.ring[k] = d.ring[k]
    <3>1. CASE Dist(k, d.TDT) < n
      <4>1. Dist(k, d.TDT) \in Indexes
        BY <1>3, DistIs
      <4>2. Dist(k, d.TDT) + 1 \in 1..Len(list)
        BY <1>3, <1>4, <3>1, <4>1 DEF Indexes, L
      <4>3. ~list[Dist(k, d.TDT) + 1].DD /\ e.ring[k] = list[Dist(k, d.TDT) + 1]
        BY <1>1, <1>2, <3>1, <4>2
      <4> QED
        BY <4>3
    <3>2. CASE ~(Dist(k, d.TDT) < n)
      BY <1>2, <3>2
    <3> QED
      BY <3>1, <3>2
  <2>2. OnWire(d.wire, Last(d.ring[k].bytes))
    BY <2>1 DEF Flow, Done
  <2> QED
    BY <1>2, <2>1, <2>2 DEF SameCount
<1>15. Flow(e, c, rest, P)
  BY <1>12, <1>13, <1>14 DEF Flow
<1> QED
  BY <1>15 DEF e, rest

-----------------------------------------------------------------------------
(* One more packet posted                                                  *)

(* R has the packets of P, and perhaps more.                               *)
Extends(P, R) ==
    /\ P \in Seq(Kinds) /\ R \in Seq(Kinds) /\ Len(P) <= Len(R)
    /\ \A i \in 1..Len(P) : R[i] = P[i]

(* What was said of the packets before the new one stays true.             *)
LEMMA SentExtends ==
    ASSUME NEW P, NEW R, Extends(P, R), NEW wire \in Seq(WireFrame), Good(wire, P)
    PROVE  /\ Good(wire, R) /\ Payloads(wire, R) = Payloads(wire, P)
           /\ \A n \in 0..Len(P) : Parts(R, n) = Parts(P, n)
           /\ \A p \in 1..Len(P) : \A q : Part(R, p, q) = Part(P, p, q)
<1>1. /\ P \in Seq(Kinds) /\ R \in Seq(Kinds) /\ Len(P) \in Nat /\ Len(R) \in Nat /\ Len(P) <= Len(R)
      /\ \A i \in 1..Len(P) : R[i] = P[i] /\ i \in 1..Len(R)
  BY DEF Extends
<1>2. ASSUME NEW f \in WireFrame, NEW p, NEW q, GoodFrame(f, P, p, q)
      PROVE  GoodFrame(f, R, p, q) /\ PayloadIn(f, R) = PayloadIn(f, P)
  <2>1. p \in 1..Len(P)
    BY <1>2 DEF GoodFrame
  <2>2. R[p] = P[p] /\ p \in 1..Len(R)
    BY <1>1, <2>1
  <2>3. GoodFrame(f, R, p, q)
    BY <1>2, <2>2 DEF GoodFrame
  <2>4. f.bytes[1][1] = p
    BY <1>1, <1>2, GoodFrameIs
  <2> QED
    BY <2>2, <2>3, <2>4 DEF PayloadIn
<1>3. \A i \in 1..Len(wire) : wire[i] \in WireFrame
  OBVIOUS
<1>4. ASSUME NEW i \in 1..Len(wire)
      PROVE  (\E p, q : GoodFrame(wire[i], R, p, q)) /\ PayloadIn(wire[i], R) = PayloadIn(wire[i], P)
  <2>1. PICK p, q : GoodFrame(wire[i], P, p, q)
    BY DEF Good
  <2>2. GoodFrame(wire[i], R, p, q) /\ PayloadIn(wire[i], R) = PayloadIn(wire[i], P)
    BY <1>2, <1>3, <2>1
  <2> QED
    BY <2>2
<1>5. Good(wire, R)
  BY <1>4 DEF Good
<1>6. Payloads(wire, R) = Payloads(wire, P)
  BY <1>4 DEF Payloads
<1>7. \A p \in 1..Len(P) : \A q : Part(R, p, q) = Part(P, p, q)
  BY <1>1 DEF Part
<1>8. ASSUME NEW n \in 0..Len(P) PROVE Parts(R, n) = Parts(P, n)
  <2>1. \A i \in 1..n : i \in 1..Len(P)
    BY <1>1
  <2>2. \A i \in 1..n : Part(R, i, R[i].payload) = Part(P, i, P[i].payload)
    BY <1>1, <1>7, <2>1
  <2> QED
    BY <2>2 DEF Parts
<1> QED
  BY <1>5, <1>6, <1>7, <1>8

(* The place of the device is the same place.                              *)
LEMMA StandingExtends ==
    ASSUME NEW P, NEW R, Extends(P, R), NEW d, NEW c, NEW p, NEW j, Standing(d, c, P, p, j)
    PROVE  Standing(d, c, R, p, j)
<1>1. /\ P \in Seq(Kinds) /\ R \in Seq(Kinds) /\ Len(P) \in Nat /\ Len(R) \in Nat /\ Len(P) <= Len(R)
      /\ \A i \in 1..Len(P) : R[i] = P[i] /\ i \in 1..Len(R)
  BY DEF Extends
<1>2. d \in TxState /\ Place(P, p, j) /\ Counted(d, c) /\ d.wire \in Seq(WireFrame)
  BY DEF Standing, TxState
<1>3. p \in 0..Len(P) /\ p \in 0..Len(R) /\ (p # 0 => p \in 1..Len(P))
  BY <1>1, <1>2 DEF Place
<1>4. CountOf(R, p) = CountOf(P, p)
  BY <1>1, <1>3 DEF CountOf
<1>5. Place(R, p, j) /\ (Ended(R, p, j) <=> Ended(P, p, j))
  BY <1>2, <1>3, <1>4 DEF Place, Ended
<1>6. CASE Ended(P, p, j)
  <2>1. Idle(d.tx) /\ SentAll(d.wire, P, p)
    BY <1>6 DEF Standing
  <2>2. Good(d.wire, P) /\ FlattenSeq(Payloads(d.wire, P)) = FlattenSeq(Parts(P, p))
    BY <2>1 DEF SentAll
  <2>3. Good(d.wire, R) /\ Payloads(d.wire, R) = Payloads(d.wire, P) /\ Parts(R, p) = Parts(P, p)
    BY <1>2, <1>3, <2>2, SentExtends
  <2>4. SentAll(d.wire, R, p)
    BY <2>2, <2>3 DEF SentAll
  <2> QED
    BY <1>1, <1>2, <1>5, <1>6, <2>1, <2>4 DEF Standing
<1>7. CASE ~Ended(P, p, j)
  <2> DEFINE pos == Upto(P[p].cuts, j - Lead(P[p]))
  <2>1. Open(d, c, P, p, pos)
    BY <1>7 DEF Standing
  <2> HIDE DEF pos
  <2>2. PICK q : Sending(d, c, P, p, pos, q) /\ Room(P[p], pos, q) /\ Ready(d.tx, P[p])
    BY <2>1 DEF Open
  <2>3. p \in 1..Len(P) /\ Sent(d.wire, P, p, q)
    BY <2>2 DEF Sending
  <2>4. R[p] = P[p] /\ p \in 1..Len(R) /\ p - 1 \in 0..Len(P)
    BY <1>1, <2>3
  <2>5. Good(d.wire, P) /\ FlattenSeq(Payloads(d.wire, P)) = FlattenSeq(Parts(P, p - 1)) \o Part(P, p, q)
    BY <2>3 DEF Sent
  <2>6. /\ Good(d.wire, R) /\ Payloads(d.wire, R) = Payloads(d.wire, P)
        /\ Parts(R, p - 1) = Parts(P, p - 1) /\ Part(R, p, q) = Part(P, p, q)
    BY <1>2, <2>3, <2>4, <2>5, SentExtends
  <2>7. Sent(d.wire, R, p, q)
    BY <2>5, <2>6 DEF Sent
  <2>8. Sending(d, c, R, p, pos, q)
    BY <1>1, <2>2, <2>4, <2>7 DEF Sending
  <2>9. Open(d, c, R, p, pos)
    BY <2>2, <2>4, <2>8 DEF Open
  <2>10. pos = Upto(R[p].cuts, j - Lead(R[p]))
    BY <2>4 DEF pos
  <2> QED
    BY <1>1, <1>2, <1>5, <1>7, <2>9, <2>10 DEF Standing
<1> QED
  BY <1>6, <1>7

(* So are the places after it.                                             *)
LEMMA FollowsExtends ==
    ASSUME NEW P, NEW R, Extends(P, R), NEW p \in 0..Len(P), NEW j, NEW p2, NEW j2, NEW desc,
           Follows(P, p, j, p2, j2, desc)
    PROVE  Follows(R, p, j, p2, j2, desc)
<1>1. /\ Len(P) \in Nat /\ Len(R) \in Nat /\ Len(P) <= Len(R)
      /\ \A i \in 1..Len(P) : R[i] = P[i] /\ i \in 1..Len(R)
  BY DEF Extends
<1>2. p # 0 => p \in 1..Len(P)
  BY <1>1
<1>3. Ended(R, p, j) <=> Ended(P, p, j)
  BY <1>1, <1>2 DEF CountOf, Ended
<1>4. p2 \in 1..Len(P) /\ R[p2] = P[p2] /\ p2 \in 1..Len(R)
  BY <1>1 DEF Follows
<1> QED
  BY <1>3, <1>4 DEF Follows

(* A new packet comes after what is on the ring.                           *)
LEMMA PostFlows ==
    ASSUME NEW d \in TxState, NEW c, NEW P \in Seq(Kinds), NEW kind \in Kinds, Flow(d, c, <<>>, P)
    PROVE  Flow(d, c, Descriptors(kind, Len(P) + 1), Append(P, kind))
<1> DEFINE R == Append(P, kind)
           l == Len(P)
           n == l + 1
           list == Descriptors(kind, n)
           h == Between(d)
           C == Count(kind)
<1>1. /\ l \in Nat /\ n \in Nat /\ R \in Seq(Kinds) /\ Len(R) = n /\ R[n] = kind
      /\ \A i \in 1..l : R[i] = P[i]
  OBVIOUS
<1>2. list \in Seq(TxDesc) /\ Len(list) = C
  BY <1>1, DescriptorsAre
<1>3. C \in Nat /\ C > 0 /\ C >= 1
  <2>1. Lead(kind) \in 0..1 /\ C \in Nat /\ C > Lead(kind)
    BY KindIs
  <2> QED
    BY <2>1
<1>4. h \in Nat
  <2>1. d.TDT \in Indexes /\ d.TDH \in Indexes /\ N \in Nat /\ N > 1
    BY TxAssumption DEF TxState
  <2>2. h \in Indexes
    BY <2>1, DistIs DEF Between
  <2> QED
    BY <2>1, <2>2 DEF Indexes
<1>5. Extends(P, R) /\ list = Descriptors(R[n], n)
  <2>1. l <= l + 1
    BY <1>1
  <2> HIDE DEF R
  <2> QED
    BY <1>1, <2>1 DEF Extends
<1>6. PICK pk, nr : Queued(d, <<>>, P, pk, nr) /\ Standing(d, c, P, pk[0], nr[0])
  BY DEF Flow
<1> HIDE DEF R, list, h, C, n, l
<1>7. Waiting(d, <<>>) = h /\ Waiting(d, list) = h + C
  BY <1>2, <1>4 DEF Waiting, h
<1>8. /\ \A i \in 1..h : Follows(P, pk[i - 1], nr[i - 1], pk[i], nr[i], Item(d, <<>>, i))
      /\ pk[h] = l /\ Ended(P, pk[h], nr[h])
  BY <1>6, <1>7 DEF Queued, l
<1>9. \A i \in 0..h : pk[i] \in 0..l
  <2>1. pk[0] \in 0..l
    BY <1>6 DEF Standing, Place, l
  <2>2. ASSUME NEW i \in 1..h PROVE pk[i] \in 0..l
    <3>1. pk[i] \in 1..l
      BY <1>8 DEF Follows, l
    <3> QED
      BY <1>1, <3>1
  <2>3. \A i \in 0..h : i = 0 \/ i \in 1..h
    BY <1>4
  <2> QED
    BY <2>1, <2>2, <2>3
<1> DEFINE pk2 == [i \in 0..(h + C) |-> IF i <= h THEN pk[i] ELSE n]
           nr2 == [i \in 0..(h + C) |-> IF i <= h THEN nr[i] ELSE i - h]
<1>10. \A i \in 0..(h + C) : /\ pk2[i] = IF i <= h THEN pk[i] ELSE n
                             /\ nr2[i] = IF i <= h THEN nr[i] ELSE i - h
  OBVIOUS
<1> HIDE DEF pk2, nr2
<1>11. n # 0 /\ CountOf(R, n) = C /\ n \in 1..n
  <2>1. n # 0 /\ n \in 1..n
    BY <1>1 DEF n
  <2> QED
    BY <1>1, <2>1 DEF CountOf, C
<1>12. ASSUME NEW i \in 1..(h + C)
       PROVE  Follows(R, pk2[i - 1], nr2[i - 1], pk2[i], nr2[i], Item(d, list, i))
  <2>0. i - 1 \in 0..(h + C) /\ i \in 0..(h + C)
    BY <1>3, <1>4
  <2>1. CASE i <= h
    <3>1. i \in 1..h /\ i - 1 <= h /\ i - 1 \in 0..h
      BY <1>3, <1>4, <2>1
    <3>2. Item(d, list, i) = Item(d, <<>>, i)
      BY <2>1 DEF Item, h
    <3>3. Follows(P, pk[i - 1], nr[i - 1], pk[i], nr[i], Item(d, list, i)) /\ pk[i - 1] \in 0..Len(P)
      BY <1>8, <1>9, <3>1, <3>2 DEF l
    <3>4. Follows(R, pk[i - 1], nr[i - 1], pk[i], nr[i], Item(d, list, i))
      BY <1>5, <3>3, FollowsExtends
    <3> QED
      BY <1>10, <2>0, <2>1, <3>1, <3>4
  <2>2. CASE i = h + 1
    <3>1. ~(i <= h) /\ i - 1 = h /\ i - h = 1 /\ h <= h
      BY <1>4, <2>2
    <3>2. pk2[i - 1] = l /\ nr2[i - 1] = nr[h] /\ pk2[i] = n /\ nr2[i] = 1
      BY <1>8, <1>10, <2>0, <3>1
    <3>3. Item(d, list, i) = list[1]
      BY <3>1 DEF Item, h
    <3>4. Ended(R, l, nr[h])
      <4>1. CountOf(R, l) = CountOf(P, l)
        <5>1. l # 0 => l \in 1..l
          BY <1>1
        <5> QED
          BY <1>1, <5>1 DEF CountOf
      <4> QED
        BY <1>8, <4>1 DEF Ended
    <3>5. n = l + 1
      BY DEF n
    <3> QED
      BY <1>1, <1>5, <1>11, <3>2, <3>3, <3>4, <3>5 DEF Follows
  <2>3. CASE i > h + 1
    <3>1. ~(i <= h) /\ ~(i - 1 <= h) /\ (i - 1) - h # C /\ ((i - 1) - h) + 1 = i - h
      BY <1>3, <1>4, <2>3
    <3>2. pk2[i - 1] = n /\ nr2[i - 1] = (i - 1) - h /\ pk2[i] = n /\ nr2[i] = i - h
      BY <1>10, <2>0, <3>1
    <3>3. Item(d, list, i) = list[i - h]
      BY <3>1 DEF Item, h
    <3>4. ~Ended(R, n, (i - 1) - h)
      BY <1>11, <3>1 DEF Ended
    <3> QED
      BY <1>1, <1>5, <1>11, <3>1, <3>2, <3>3, <3>4 DEF Follows
  <2> QED
    BY <1>3, <1>4, <2>1, <2>2, <2>3
<1>13. pk2[h + C] = n /\ nr2[h + C] = C
  <2>1. h + C \in 0..(h + C) /\ ~(h + C <= h) /\ (h + C) - h = C
    BY <1>3, <1>4
  <2> QED
    BY <1>10, <2>1
<1>14. Queued(d, list, R, pk2, nr2)
  BY <1>1, <1>7, <1>11, <1>12, <1>13 DEF Queued, Ended
<1>15. pk2[0] = pk[0] /\ nr2[0] = nr[0]
  <2>1. 0 \in 0..(h + C) /\ 0 <= h
    BY <1>3, <1>4
  <2> QED
    BY <1>10, <2>1
<1>16. Standing(d, c, R, pk2[0], nr2[0])
  BY <1>5, <1>6, <1>15, StandingExtends
<1>17. Flow(d, c, list, R)
  BY <1>14, <1>16 DEF Flow
<1> QED
  BY <1>17 DEF list, R, n, l

-----------------------------------------------------------------------------
(* The other steps of the driver                                           *)

(* The device at its place when the statistics are counted anew.           *)
LEMMA StandingRecounted ==
    ASSUME NEW d, NEW e, NEW c, NEW c2, NEW P, NEW p, NEW j, Standing(d, c, P, p, j),
           e \in TxState, e.tx = d.tx, e.wire = d.wire, Counted(e, c2)
    PROVE  Standing(e, c2, P, p, j)
<1>1. CASE Ended(P, p, j)
  BY <1>1 DEF Standing
<1>2. CASE ~Ended(P, p, j)
  <2> DEFINE pos == Upto(P[p].cuts, j - Lead(P[p]))
  <2>1. Open(d, c, P, p, pos)
    BY <1>2 DEF Standing
  <2> HIDE DEF pos
  <2>2. PICK q : Sending(d, c, P, p, pos, q) /\ Room(P[p], pos, q)
    BY <2>1 DEF Open
  <2>3. Sending(e, c2, P, p, pos, q)
    BY <2>2 DEF Sending
  <2>4. Open(e, c2, P, p, pos)
    BY <2>1, <2>2, <2>3 DEF Open
  <2> QED
    BY <1>2, <2>4 DEF Standing, pos
<1> QED
  BY <1>1, <1>2

(* Counters that are zero count the frames after the last.                 *)
LEMMA ZeroCounted ==
    ASSUME NEW d \in TxState, d.TPT = 0, d.GPTC = 0, d.TOTL = 0, d.TOTH = 0
    PROVE  Counted(d, Len(d.wire))
<1> DEFINE w == d.wire
           L == Len(w)
           q == Lengths(w, L)
           X == 2 ^ W
<1>1. w \in Seq(WireFrame) /\ L \in Nat /\ L \in 0..L /\ X \in Nat /\ X > 0 /\ X * X \in Nat /\ X * X > 0
  <2>1. w \in Seq(WireFrame) /\ X \in Nat /\ X > 0
    BY TxAssumption DEF TxState
  <2> HIDE DEF X
  <2>2. L \in Nat /\ L \in 0..L
    BY <2>1
  <2>3. X * X \in Nat /\ X * X > 0
    BY <2>1
  <2> QED
    BY <2>1, <2>2, <2>3
<1>2. q \in Seq(Nat) /\ Len(q) = L - L
  BY <1>1, LengthsType
<1>3. L - L = 0
  BY <1>1
<1>4. q = <<>>
  BY <1>2, <1>3
<1>5. Octets(w, L) = 0
  BY <1>4, TotalEmpty DEF Octets
<1> HIDE DEF X
<1>6. 0 % X = 0 /\ 0 % (X * X) = 0 /\ 0 * X + 0 = 0
  BY <1>1
<1> QED
  BY <1>1, <1>3, <1>5, <1>6 DEF Counted, X

(* Reading the statistics.                                                 *)
LEMMA StatisticsFlow ==
    ASSUME NEW d \in TxState, NEW c, NEW list, NEW P, Flow(d, c, list, P)
    PROVE  Flow([d EXCEPT !.TPT = 0, !.GPTC = 0, !.TOTH = 0, !.TOTL = 0], Len(d.wire), list, P)
<1> DEFINE e == [d EXCEPT !.TPT = 0, !.GPTC = 0, !.TOTH = 0, !.TOTL = 0]
<1>1. /\ e \in TxState /\ e.tx = d.tx /\ e.wire = d.wire /\ e.ring = d.ring /\ e.TDH = d.TDH
      /\ e.TDT = d.TDT /\ e.TPT = 0 /\ e.GPTC = 0 /\ e.TOTL = 0 /\ e.TOTH = 0
  BY WordIs DEF TxState
<1> HIDE DEF e
<1>2. Counted(e, Len(d.wire))
  BY <1>1, ZeroCounted
<1>3. PICK pk, nr : Queued(d, list, P, pk, nr) /\ Standing(d, c, P, pk[0], nr[0])
  BY DEF Flow
<1>4. Standing(e, Len(d.wire), P, pk[0], nr[0])
  BY <1>1, <1>2, <1>3, StandingRecounted
<1>5. Queued(e, list, P, pk, nr)
  BY <1>1, <1>3 DEF Queued, Waiting, Item, Between
<1>6. Done(e.ring, e.wire)
  BY <1>1 DEF Flow
<1>7. Flow(e, Len(d.wire), list, P)
  BY <1>4, <1>5, <1>6 DEF Flow
<1> QED
  BY <1>7 DEF e

(* Reclaiming a descriptor that is done touches none that waits.           *)
LEMMA ReclaimFlows ==
    ASSUME NEW d, NEW c0, NEW reap, Shared(d, c0, reap), NEW k \in Indexes, d.ring[k].DD,
           NEW list \in Seq(TxDesc), NEW c, NEW P, Flow(d, c, list, P)
    PROVE  Flow([d EXCEPT !.ring[k].DD = FALSE], c, list, P)
<1> DEFINE e == [d EXCEPT !.ring[k].DD = FALSE]
           d2 == [d.ring[k] EXCEPT !.DD = FALSE]
           ring2 == [d.ring EXCEPT ![k] = d2]
           h == Dist(d.TDT, d.TDH)
           a == Dist(d.TDH, c0)
           b == Dist(d.TDT, c0)
           x == Dist(k, c0)
<1>1. /\ N \in Nat /\ N > 1 /\ d \in TxState /\ c0 \in Indexes /\ d.TDT \in Indexes /\ d.TDH \in Indexes
      /\ Placed(d.ring, d.TDH, d.TDT, c0) /\ d.ring \in [Indexes -> TxDesc]
  BY TxAssumption DEF Shared, TxState
<1>2. d2 \in TxDesc /\ ~d2.DD
  BY <1>1 DEF TxDesc
<1>3. e = [d EXCEPT !.ring = ring2]
  BY <1>1 DEF TxState
<1> HIDE DEF d2, e
<1>4. ring2 \in [Indexes -> TxDesc] /\ ring2[k] = d2 /\ \A i \in Indexes : i # k => ring2[i] = d.ring[i]
  BY <1>1, <1>2
<1> HIDE DEF ring2
<1>5. /\ e \in TxState /\ e.ring = ring2 /\ e.TDH = d.TDH /\ e.TDT = d.TDT /\ e.tx = d.tx
      /\ SameCount(d, e)
  BY <1>1, <1>3, <1>4 DEF TxState, SameCount
<1>6. a \in 0..(N - 1) /\ b \in 0..(N - 1) /\ x \in 0..(N - 1) /\ a <= b /\ x < a
  BY <1>1, DistIs DEF Placed, Indexes
<1>7. h = (IF b < a THEN N + b - a ELSE b - a) /\ Dist(k, d.TDH) = (IF x < a THEN N + x - a ELSE x - a)
  BY <1>1, DistFrom
<1> HIDE DEF h, a, b, x
<1>8. Dist(k, d.TDH) > h /\ h \in Indexes /\ h \in Nat
  BY <1>1, <1>6, <1>7 DEF Indexes
<1>9. Between(d) = h /\ Between(e) = h /\ Waiting(d, list) = h + Len(list) /\ Waiting(e, list) = h + Len(list)
  BY <1>5 DEF Between, Waiting, h
<1>10. ASSUME NEW i \in 1..(h + Len(list)) PROVE Item(e, list, i) = Item(d, list, i)
  <2>1. CASE i <= h
    <3> DEFINE m == i - 1
    <3>1. m \in Indexes /\ m \in Nat /\ m < h /\ m \in 0..N
      BY <1>1, <1>8, <2>1 DEF Indexes
    <3> HIDE DEF m
    <3>2. At(d.TDH, m) \in Indexes /\ Dist(At(d.TDH, m), d.TDH) = m
      BY <1>1, <3>1, AtIs, DistAt
    <3>3. At(d.TDH, m) # k
      <4>1. Dist(k, d.TDH) \in Indexes
        BY <1>1, DistIs
      <4>2. Dist(k, d.TDH) # m
        BY <1>1, <1>8, <3>1, <4>1 DEF Indexes
      <4> QED
        BY <3>2, <4>2
    <3>4. e.ring[At(d.TDH, m)] = d.ring[At(d.TDH, m)]
      BY <1>4, <1>5, <3>2, <3>3
    <3> QED
      BY <1>5, <1>9, <2>1, <3>4 DEF Item, m
  <2>2. CASE ~(i <= h)
    BY <1>9, <2>2 DEF Item
  <2> QED
    BY <2>1, <2>2
<1>11. PICK pk, nr : Queued(d, list, P, pk, nr) /\ Standing(d, c, P, pk[0], nr[0])
  BY DEF Flow
<1>12. Queued(e, list, P, pk, nr)
  BY <1>9, <1>10, <1>11 DEF Queued
<1>13. Standing(e, c, P, pk[0], nr[0])
  BY <1>5, <1>11, StandingSame
<1>14. Done(e.ring, e.wire)
  <2> SUFFICES ASSUME NEW i \in Indexes, e.ring[i].DD, e.ring[i].bytes # <<>>
               PROVE  OnWire(e.wire, Last(e.ring[i].bytes))
    BY DEF Done
  <2>1. e.ring[i] = d.ring[i]
    BY <1>2, <1>4, <1>5
  <2>2. OnWire(d.wire, Last(d.ring[i].bytes))
    BY <2>1 DEF Flow, Done
  <2> QED
    BY <1>5, <2>1, <2>2 DEF SameCount
<1>15. Flow(e, c, list, P)
  BY <1>12, <1>13, <1>14 DEF Flow
<1> QED
  BY <1>15 DEF e

(* Where nothing waits, every packet posted has left.                      *)
LEMMA NothingWaits ==
    ASSUME NEW d \in TxState, NEW c, NEW P, Flow(d, c, <<>>, P), d.TDH = d.TDT
    PROVE  /\ Waiting(d, <<>>) = 0 /\ Between(d) = 0
           /\ \E pk, nr : /\ Queued(d, <<>>, P, pk, nr) /\ Standing(d, c, P, pk[0], nr[0])
                          /\ pk[0] = Len(P) /\ Ended(P, pk[0], nr[0])
                          /\ Idle(d.tx) /\ SentAll(d.wire, P, Len(P))
<1>1. d.TDT \in Indexes /\ N \in Nat /\ N > 1
  BY TxAssumption DEF TxState
<1>2. Dist(d.TDT, d.TDT) = IF d.TDT < d.TDT THEN d.TDT + N - d.TDT ELSE d.TDT - d.TDT
  BY <1>1, DistIs
<1>3. Between(d) = 0 /\ Waiting(d, <<>>) = 0
  BY <1>1, <1>2 DEF Between, Waiting, Indexes
<1>4. PICK pk, nr : Queued(d, <<>>, P, pk, nr) /\ Standing(d, c, P, pk[0], nr[0])
  BY DEF Flow
<1>5. pk[0] = Len(P) /\ Ended(P, pk[0], nr[0])
  BY <1>3, <1>4 DEF Queued
<1>6. Idle(d.tx) /\ SentAll(d.wire, P, Len(P))
  BY <1>4, <1>5 DEF Standing
<1> QED
  BY <1>3, <1>4, <1>5, <1>6

(* A migration between two packets loses nothing that matters.             *)
LEMMA MigrateFlows ==
    ASSUME NEW d \in TxState, NEW c, NEW P, Flow(d, c, <<>>, P), d.TDH = d.TDT, NEW irq \in IrqState
    PROVE  Flow([d EXCEPT !.tx = PostLoadTx(d.tx), !.irq = irq], c, <<>>, P)
<1> DEFINE tx2 == PostLoadTx(d.tx)
           e == [d EXCEPT !.tx = tx2, !.irq = irq]
<1>1. /\ tx2 \in TxPart /\ tx2.data = d.tx.data /\ tx2.tso_frames = d.tx.tso_frames
      /\ tx2.sum_needed = d.tx.sum_needed /\ ~tx2.vlan_needed
  BY DEF TxState, TxPart, PostLoadTx
<1> HIDE DEF tx2
<1>2. /\ e \in TxState /\ e.tx = tx2 /\ e.ring = d.ring /\ e.TDH = d.TDH /\ e.TDT = d.TDT
      /\ SameCount(d, e)
  BY <1>1 DEF TxState, SameCount
<1> HIDE DEF e
<1>3. PICK pk, nr : /\ Queued(d, <<>>, P, pk, nr) /\ Standing(d, c, P, pk[0], nr[0])
                    /\ pk[0] = Len(P) /\ Ended(P, pk[0], nr[0])
                    /\ Idle(d.tx) /\ SentAll(d.wire, P, Len(P))
  BY NothingWaits
<1>4. Idle(e.tx) /\ SentAll(e.wire, P, Len(P))
  BY <1>1, <1>2, <1>3 DEF Idle, SameCount
<1>5. Counted(e, c)
  BY <1>2, <1>3, CountedSame DEF Standing
<1>6. Standing(e, c, P, pk[0], nr[0])
  BY <1>2, <1>3, <1>4, <1>5 DEF Standing
<1>7. Queued(e, <<>>, P, pk, nr)
  BY <1>2, <1>3 DEF Queued, Waiting, Item, Between
<1>8. Done(e.ring, e.wire)
  BY <1>2 DEF Flow, SameCount
<1>9. Flow(e, c, <<>>, P)
  BY <1>6, <1>7, <1>8 DEF Flow
<1> QED
  BY <1>9 DEF e, tx2

(* The device after a reset has nothing to send and has sent nothing.      *)
LEMMA ResetFlows == Flow(ResetTx, 0, <<>>, <<>>)
<1> DEFINE d == ResetTx
           P == <<>>
           z == [i \in {0} |-> 0]
<1>1. d \in TxState /\ d.wire = <<>> /\ Placed(d.ring, d.TDH, d.TDT, 0)
  BY ResetShared DEF Shared
<1>2. /\ d.TPT = 0 /\ d.GPTC = 0 /\ d.TOTL = 0 /\ d.TOTH = 0 /\ d.TDH = 0 /\ d.TDT = 0
      /\ d.tx = NoTx /\ d.ring = [k \in 0..(N - 1) |-> NoDesc]
  BY DEF ResetTx
<1> HIDE DEF d
<1>3. Counted(d, 0)
  <2>1. Counted(d, Len(d.wire))
    BY <1>1, <1>2, ZeroCounted
  <2>2. Len(d.wire) = 0
    BY <1>1
  <2> QED
    BY <2>1, <2>2
<1>4. P \in Seq(Kinds) /\ Len(P) = 0 /\ z[0] = 0
  OBVIOUS
<1>5. Idle(d.tx)
  BY <1>2 DEF Idle, NoTx
<1> HIDE DEF P, z
<1>6. SentAll(d.wire, P, 0)
  <2>1. Good(d.wire, P)
    BY <1>1 DEF Good
  <2>2. Payloads(d.wire, P) \in Seq(Seq(Byte)) /\ Len(Payloads(d.wire, P)) = 0
    <3>1. d.wire \in Seq(WireFrame) /\ Len(d.wire) = 0
      BY <1>1
    <3> QED
      BY <1>4, <2>1, <3>1, PayloadsIs
  <2>3. Parts(P, 0) \in Seq(Seq(Byte)) /\ Len(Parts(P, 0)) = 0
    <3> DEFINE o == 0
    <3>1. o \in 0..Len(P)
      BY <1>4
    <3> HIDE DEF o
    <3>2. Parts(P, o) \in Seq(Seq(Byte)) /\ Len(Parts(P, o)) = o
      BY <1>4, <3>1, PartsIs
    <3> QED
      BY <3>2 DEF o
  <2>4. Payloads(d.wire, P) = <<>> /\ Parts(P, 0) = <<>>
    BY <2>2, <2>3
  <2> QED
    BY <2>1, <2>4 DEF SentAll
<1>7. Ended(P, 0, 0) /\ Place(P, 0, 0)
  BY <1>4 DEF Ended, Place, CountOf
<1>8. Standing(d, 0, P, 0, 0)
  BY <1>1, <1>3, <1>4, <1>5, <1>6, <1>7 DEF Standing
<1>9. Between(d) = 0 /\ Waiting(d, <<>>) = 0
  <2>1. 0 \in Indexes /\ N \in Nat /\ N > 1
    BY <1>1, <1>2, TxAssumption DEF TxState
  <2>2. Dist(0, 0) = IF 0 < 0 THEN 0 + N - 0 ELSE 0 - 0
    <3> DEFINE o == 0
    <3>1. o \in Indexes
      BY <2>1
    <3> HIDE DEF o
    <3>2. Dist(o, o) = IF o < o THEN o + N - o ELSE o - o
      BY <3>1, DistIs
    <3> QED
      BY <3>2 DEF o
  <2> QED
    BY <1>2, <2>2 DEF Between, Waiting
<1>10. Queued(d, <<>>, P, z, z)
  BY <1>4, <1>7, <1>9 DEF Queued
<1>11. Done(d.ring, d.wire)
  <2>1. ~NoDesc.DD
    BY DEF NoDesc
  <2> QED
    BY <1>2, <2>1 DEF Done, Indexes
<1>12. Flow(d, 0, <<>>, P)
  BY <1>4, <1>8, <1>10, <1>11 DEF Flow
<1> QED
  BY <1>12 DEF d, P

-----------------------------------------------------------------------------
(* The invariant of transmission                                           *)

(* The ring is shared properly, and what the wire has, what the device has *)
(* gathered, what is on the ring and what the driver still holds make up   *)
(* exactly the packets posted.                                             *)
TxInv == RingInv /\ Flow(s, counted, todo, posted)

(* Nothing has been posted and nothing sent.                               *)
LEMMA InitTxInv == Init => TxInv
<1> SUFFICES ASSUME Init PROVE TxInv
  OBVIOUS
<1>1. s = ResetTx /\ todo = <<>> /\ posted = <<>> /\ counted = 0
  BY DEF Init
<1> QED
  BY <1>1, InitRingInv, ResetFlows DEF TxInv

(* Every step of a careful guest and its device moves bytes along the      *)
(* flow, and loses, repeats or reorders none.                              *)
LEMMA NextTxInv ==
    ASSUME Careful, TxInv, [Next]_vars
    PROVE  TxInv'
<1>0. /\ Shared(s, clean, reaping) /\ Fresh(todo) /\ posted \in Seq(Kinds)
      /\ s \in TxState /\ clean \in Indexes /\ s.irq \in IrqState /\ todo \in Seq(TxDesc)
      /\ N \in Nat /\ N > 1 /\ Flow(s, counted, todo, posted) /\ RingInv
  BY TxAssumption DEF TxInv, RingInv, Shared, TxState, Fresh
<1>a. RingInv'
  BY <1>0, NextRingInv
<1>1. CASE Post
  <2>1. PICK kind \in Kinds : /\ posted' = Append(posted, kind)
                              /\ todo' = Descriptors(kind, Len(posted) + 1)
    BY <1>1 DEF Post
  <2>2. s' = s /\ counted' = counted /\ todo = <<>>
    BY <1>1 DEF Post
  <2>3. Flow(s, counted, Descriptors(kind, Len(posted) + 1), Append(posted, kind))
    BY <1>0, <2>2, PostFlows
  <2> QED
    BY <1>a, <2>1, <2>2, <2>3 DEF TxInv
<1>2. CASE WriteTDT
  <2>1. PICK n \in 1..Len(todo) : /\ n <= Free /\ s' = start_xmit(HandOver(s, todo, n))
                                  /\ todo' = SubSeq(todo, n + 1, Len(todo))
    BY <1>2, Zenon DEF WriteTDT, HandOver
  <2>2. posted' = posted /\ counted' = counted
    BY <1>2 DEF WriteTDT
  <2>3. n <= (clean + N - s.TDT - 1) % N
    BY <2>1 DEF Free
  <2> DEFINE e == HandOver(s, todo, n)
             rest == SubSeq(todo, n + 1, Len(todo))
  <2>4. Shared(e, clean, reaping)
    BY <1>0, <2>3, HandOverShared
  <2>5. e \in TxState
    BY <2>4 DEF Shared
  <2>6. rest \in Seq(TxDesc)
    <3>1. Fresh(rest)
      BY <1>0, RestFresh
    <3> QED
      BY <3>1 DEF Fresh
  <2>7. Flow(e, counted, rest, posted)
    BY <1>0, <2>3, HandOverFlows
  <2> HIDE DEF e, rest
  <2>8. Flow(start_xmit(e), counted, rest, posted)
    BY <2>5, <2>6, <2>7, StartXmitFlows
  <2> QED
    BY <1>a, <2>1, <2>2, <2>8 DEF TxInv, e, rest
<1>3. CASE WriteTCTL
  <2>1. PICK en \in BOOLEAN : s' = start_xmit([s EXCEPT !.TCTL_EN = en])
    BY <1>3 DEF WriteTCTL
  <2>2. posted' = posted /\ todo' = todo /\ counted' = counted
    BY <1>3 DEF WriteTCTL
  <2> DEFINE e == [s EXCEPT !.TCTL_EN = en]
  <2>3. /\ e \in TxState /\ e.ring = s.ring /\ e.TDH = s.TDH /\ e.TDT = s.TDT /\ e.tx = s.tx
        /\ SameCount(s, e)
    BY <1>0 DEF TxState, SameCount
  <2> HIDE DEF e
  <2>4. Flow(e, counted, todo, posted)
    BY <1>0, <2>3, FlowSame
  <2>5. Flow(start_xmit(e), counted, todo, posted)
    BY <1>0, <2>3, <2>4, StartXmitFlows
  <2> QED
    BY <1>a, <2>1, <2>2, <2>5 DEF TxInv, e
<1>4. CASE ReadICR
  <2> DEFINE irq == mac_icr_read(s.irq)
  <2>1. s' = [s EXCEPT !.irq = irq] /\ posted' = posted /\ todo' = todo /\ counted' = counted
    BY <1>4 DEF ReadICR
  <2>2. irq \in IrqState
    BY <1>0, IcrReadType
  <2> HIDE DEF irq
  <2>3. /\ s' \in TxState /\ s'.ring = s.ring /\ s'.TDH = s.TDH /\ s'.TDT = s.TDT /\ s'.tx = s.tx
        /\ SameCount(s, s')
    BY <1>0, <2>1, <2>2 DEF TxState, SameCount
  <2>4. Flow(s', counted, todo, posted)
    BY <1>0, <2>3, FlowSame
  <2> QED
    BY <1>a, <2>1, <2>4 DEF TxInv
<1>5. CASE Reclaim
  <2> DEFINE done == {k \in Outstanding : s.ring[k].DD}
  <2>1. posted' = posted /\ todo' = todo /\ counted' = counted
    BY <1>5 DEF Reclaim
  <2>2. CASE done = {}
    <3>1. s' = s
      BY <1>5, <2>2 DEF Reclaim
    <3> QED
      BY <1>0, <1>a, <2>1, <3>1 DEF TxInv
  <2>3. CASE done # {}
    <3>1. PICK k \in done : s' = [s EXCEPT !.ring[k].DD = FALSE]
      <4> DEFINE first(j) == \A i \in done : Dist(j, clean) <= Dist(i, clean)
                 k == CHOOSE j \in done : first(j)
      <4>1. s' = [s EXCEPT !.ring[k].DD = FALSE]
        BY <1>5, <2>3, Zenon DEF Reclaim, Dist
      <4>2. \E j \in done : first(j)
        <5> DEFINE T == {Dist(i, clean) : i \in done}
        <5>1. T \subseteq Nat
          <6>1. done \subseteq Indexes
            BY DEF Outstanding, Indexes
          <6>2. \A i \in done : Dist(i, clean) \in Indexes
            BY <1>0, <6>1, DistIs
          <6> HIDE DEF done
          <6> QED
            BY <1>0, <6>2 DEF Indexes
        <5>2. T # {}
          BY <2>3
        <5> HIDE DEF done
        <5>3. PICK m \in T : \A x \in T : m <= x
          <6> HIDE DEF T
          <6> QED
            BY <5>1, <5>2, LeastNumber
        <5>4. PICK j \in done : m = Dist(j, clean)
          OBVIOUS
        <5> QED
          BY <5>3, <5>4
      <4>3. k \in done
        <5> HIDE DEF done, first
        <5> QED
          BY <4>2, Zenon
      <4> HIDE DEF k
      <4> QED
        BY <4>1, <4>3
    <3>2. k \in Indexes /\ s.ring[k].DD
      BY DEF Outstanding, Indexes
    <3>3. Flow(s', counted, todo, posted)
      BY <1>0, <3>1, <3>2, ReclaimFlows
    <3> QED
      BY <1>a, <2>1, <3>3 DEF TxInv
  <2> QED
    BY <2>2, <2>3
<1>6. CASE ReadStatistics
  <2>1. /\ s' = [s EXCEPT !.TPT = 0, !.GPTC = 0, !.TOTH = 0, !.TOTL = 0]
        /\ posted' = posted /\ todo' = todo /\ counted' = Len(s.wire)
    BY <1>6 DEF ReadStatistics
  <2>2. Flow(s', Len(s.wire), todo, posted)
    BY <1>0, <2>1, StatisticsFlow
  <2> QED
    BY <1>a, <2>1, <2>2 DEF TxInv
<1>7. CASE Reset
  <2>1. s' = ResetTx /\ todo' = <<>> /\ posted' = <<>> /\ counted' = 0
    BY <1>7 DEF Reset
  <2> QED
    BY <1>a, <2>1, ResetFlows DEF TxInv
<1>8. CASE Migrate
  <2> DEFINE irq == PostLoadIrq(PreSaveIrq(s.irq))
  <2>1. /\ s' = [s EXCEPT !.tx = PostLoadTx(s.tx), !.irq = irq]
        /\ posted' = posted /\ todo' = todo /\ counted' = counted
    BY <1>8 DEF Migrate
  <2>2. todo = <<>> /\ s.TDH = s.TDT
    BY <1>8 DEF Migrate, Careful
  <2>3. irq \in IrqState
    BY <1>0, SaveType
  <2> HIDE DEF irq
  <2>4. Flow(s', counted, <<>>, posted)
    BY <1>0, <2>1, <2>2, <2>3, MigrateFlows
  <2> QED
    BY <1>a, <2>1, <2>2, <2>4 DEF TxInv
<1>9. CASE UNCHANGED vars
  BY <1>9, <1>a, <1>0 DEF vars, TxInv
<1> QED
  BY <1>1, <1>2, <1>3, <1>4, <1>5, <1>6, <1>7, <1>8, <1>9 DEF Next

(* What a careful guest posts is what it can find on the wire, in the      *)
(* device, on the ring and in its own hands.                               *)
THEOREM TxInvariant == ASSUME Careful PROVE Spec => []TxInv
<1>1. TxInv /\ [Next]_vars => TxInv'
  BY NextTxInv
<1> QED
  BY <1>1, InitTxInv, PTL DEF Spec

-----------------------------------------------------------------------------
(* What the invariant shows                                                *)

(* The frames and the counters, wherever the device stands.                *)
LEMMA FlowShows ==
    ASSUME TxInv
    PROVE  /\ s \in TxState /\ s.wire \in Seq(WireFrame) /\ posted \in Seq(Kinds)
           /\ Good(s.wire, posted) /\ Counted(s, counted) /\ Done(s.ring, s.wire)
<1>1. PICK pk, nr : Standing(s, counted, posted, pk[0], nr[0])
  BY DEF TxInv, Flow
<1>2. s \in TxState /\ s.wire \in Seq(WireFrame) /\ posted \in Seq(Kinds) /\ Counted(s, counted)
  BY <1>1 DEF Standing, TxState
<1>3. Good(s.wire, posted)
  <2>1. CASE Ended(posted, pk[0], nr[0])
    BY <1>1, <2>1 DEF Standing, SentAll
  <2>2. CASE ~Ended(posted, pk[0], nr[0])
    BY <1>1, <2>2 DEF Standing, Open, Sending, Sent
  <2> QED
    BY <2>1, <2>2
<1> QED
  BY <1>2, <1>3 DEF TxInv, Flow

(* A frame as the properties see it.                                       *)
LEMMA FrameShows ==
    ASSUME TxInv, NEW i \in DOMAIN s.wire
    PROVE  \E p, q : /\ s.wire[i] \in WireFrame /\ GoodFrame(s.wire[i], posted, p, q)
                     /\ Pid(s.wire[i]) = p /\ KindOf(s.wire[i]) = posted[p] /\ posted[p] \in Kinds
                     /\ Payload(s.wire[i]) = PayloadIn(s.wire[i], posted)
<1> DEFINE f == s.wire[i]
<1>1. s.wire \in Seq(WireFrame) /\ posted \in Seq(Kinds) /\ Good(s.wire, posted)
  BY FlowShows
<1>2. i \in 1..Len(s.wire) /\ f \in WireFrame
  BY <1>1
<1>3. PICK p, q : GoodFrame(f, posted, p, q)
  BY <1>1, <1>2 DEF Good
<1> HIDE DEF f
<1>4. f.bytes[1][1] = p
  BY <1>1, <1>2, <1>3, GoodFrameIs
<1>5. posted[p] \in Kinds
  BY <1>1, <1>3 DEF GoodFrame
<1>6. Pid(f) = p /\ KindOf(f) = posted[p] /\ Payload(f) = PayloadIn(f, posted)
  BY <1>4 DEF Pid, KindOf, Payload, PayloadIn
<1> QED
  BY <1>2, <1>3, <1>5, <1>6 DEF f

(* A careful guest's frames are well formed, for every cut into            *)
(* descriptors and every way of handing them over: the header, the         *)
(* sequence number, mss bytes of payload in every segment before the end   *)
(* of the payload, and PSH and FIN in the segments that end it, the last   *)
(* full one and the one without payload that follows it when the payload   *)
(* is a multiple of mss (e1000.c:603, 722-723).                            *)
THEOREM SegmentsWellFormedHolds == ASSUME Careful PROVE Spec => []SegmentsWellFormed
<1>1. TxInv => SegmentsWellFormed
  <2> SUFFICES ASSUME TxInv, NEW i \in DOMAIN s.wire
               PROVE  LET f == s.wire[i]
                          k == KindOf(f)
                      IN  /\ f.bytes # <<>>
                          /\ SubSeq(f.bytes, 1, k.hdr) = [j \in 1..k.hdr |-> <<Pid(f), j>>]
                          /\ k.tso => /\ Len(Payload(f)) <= k.mss
                                      /\ Payload(f) # <<>> => Head(Payload(f))[2] = k.hdr + f.seq + 1
                                      /\ LET end == f.seq + Len(Payload(f)) = k.payload
                                         IN  (f.fin <=> end) /\ (Len(Payload(f)) = k.mss \/ end)
    BY DEF SegmentsWellFormed
  <2> DEFINE f == s.wire[i]
             k == KindOf(f)
             y == Payload(f)
             b == f.bytes
             len == Len(b)
             h == k.hdr
             l == len - h
  <2>1. PICK p, q : /\ f \in WireFrame /\ GoodFrame(f, posted, p, q) /\ Pid(f) = p
                    /\ k = posted[p] /\ k \in Kinds /\ y = PayloadIn(f, posted)
    BY FrameShows
  <2>2. posted \in Seq(Kinds)
    BY FlowShows
  <2> HIDE DEF f, k, y
  <2>3. /\ b # <<>> /\ l \in Nat
        /\ \A x \in 1..h : b[x] = <<p, x>>
        /\ y \in Seq(Byte) /\ Len(y) = l
        /\ \A x \in 1..l : y[x] = <<p, h + q + x>>
    BY <2>1, <2>2, GoodFrameIs
  <2>4. /\ len >= h /\ q \in Nat
        /\ k.tso => /\ len <= h + k.mss /\ f.seq = q
                    /\ f.fin => q + (len - h) = k.payload
                    /\ q + (len - h) = k.payload => f.fin
                    /\ len = h + k.mss \/ q + (len - h) = k.payload
    BY <2>1 DEF GoodFrame
  <2>5. h \in Nat /\ k.mss \in Nat /\ b \in Seq(Byte) /\ len \in Nat
    BY <2>1, KindIs DEF WireFrame
  <2>6. SubSeq(b, 1, h) = [j \in 1..h |-> <<p, j>>]
    <3>1. \A x \in 1..h : 1 + x - 1 = x
      BY <2>5
    <3>2. SubSeq(b, 1, h) = [x \in 1..h |-> b[x]]
      <4> HIDE DEF b, h, len
      <4>1. SubSeq(b, 1, h) \in Seq(Byte) /\ Len(SubSeq(b, 1, h)) = h
        BY <2>4, <2>5 DEF len
      <4>2. \A x \in 1..h : SubSeq(b, 1, h)[x] = b[x]
        BY <2>4, <2>5, <3>1 DEF len
      <4>3. SubSeq(b, 1, h) = [x \in 1..Len(SubSeq(b, 1, h)) |-> SubSeq(b, 1, h)[x]]
        BY <4>1
      <4> QED
        BY <4>1, <4>2, <4>3
    <3> QED
      BY <2>3, <3>2
  <2>7. ASSUME k.tso
        PROVE  /\ Len(y) <= k.mss
               /\ y # <<>> => Head(y)[2] = h + f.seq + 1
               /\ f.fin => f.seq + Len(y) = k.payload
               /\ f.seq + Len(y) = k.payload => f.fin
               /\ Len(y) = k.mss \/ f.seq + Len(y) = k.payload
    <3>1. /\ f.seq = q /\ l <= k.mss
          /\ f.fin => q + l = k.payload
          /\ q + l = k.payload => f.fin
          /\ l = k.mss \/ q + l = k.payload
      <4> HIDE DEF b, len, h
      <4> QED
        BY <2>3, <2>4, <2>5, <2>7
    <3>2. ASSUME y # <<>> PROVE Head(y)[2] = h + q + 1
      <4>1. Len(y) # 0 /\ Head(y) = y[1]
        BY <2>3, <3>2
      <4>2. 1 \in 1..l
        BY <2>3, <4>1
      <4>3. y[1] = <<p, h + q + 1>>
        BY <2>3, <4>2
      <4> QED
        BY <4>1, <4>3
    <3> QED
      BY <2>3, <3>1, <3>2
  <2> QED
    BY <2>1, <2>3, <2>6, <2>7 DEF f, k, y
<1> QED
  BY <1>1, TxInvariant, PTL

(* Every frame of a careful guest has its own packet's offloads.           *)
THEOREM OffloadsOwnHolds == ASSUME Careful PROVE Spec => []OffloadsOwn
<1>1. TxInv => OffloadsOwn
  <2> SUFFICES ASSUME TxInv, NEW i \in DOMAIN s.wire
               PROVE  /\ s.wire[i].sum = KindOf(s.wire[i]).sum
                      /\ s.wire[i].vlan = IF VME THEN KindOf(s.wire[i]).tag ELSE 0
    BY DEF OffloadsOwn
  <2>1. PICK p, q : GoodFrame(s.wire[i], posted, p, q) /\ KindOf(s.wire[i]) = posted[p]
    BY FrameShows
  <2> QED
    BY <2>1 DEF GoodFrame
<1> QED
  BY <1>1, TxInvariant, PTL

(* What is reported done to a careful guest is on the wire.                *)
THEOREM DoneIsOnWireHolds == ASSUME Careful PROVE Spec => []DoneIsOnWire
<1>1. TxInv => DoneIsOnWire
  <2> SUFFICES ASSUME TxInv, NEW k \in 0..(N - 1), s.ring[k].DD, s.ring[k].bytes # <<>>
               PROVE  \E i \in DOMAIN s.wire : Last(s.ring[k].bytes) \in Range(s.wire[i].bytes)
    BY DEF DoneIsOnWire
  <2> DEFINE x == Last(s.ring[k].bytes)
  <2>1. s.wire \in Seq(WireFrame) /\ Done(s.ring, s.wire)
    BY FlowShows
  <2>2. OnWire(s.wire, x)
    BY <2>1 DEF Done, Indexes
  <2> HIDE DEF x
  <2>3. PICK i \in 1..Len(s.wire) : \E m \in 1..Len(s.wire[i].bytes) : s.wire[i].bytes[m] = x
    BY <2>2 DEF OnWire
  <2>4. PICK m \in 1..Len(s.wire[i].bytes) : s.wire[i].bytes[m] = x
    BY <2>3
  <2>5. i \in DOMAIN s.wire /\ s.wire[i] \in WireFrame
    BY <2>1
  <2>6. s.wire[i].bytes \in Seq(Byte)
    BY <2>5 DEF WireFrame
  <2>7. m \in DOMAIN s.wire[i].bytes
    BY <2>6
  <2>8. x \in Range(s.wire[i].bytes)
    BY <2>4, <2>7 DEF Range
  <2> QED
    BY <2>5, <2>8 DEF x
<1> QED
  BY <1>1, TxInvariant, PTL

(* The statistics of a careful guest are exact, for every width of the     *)
(* registers.                                                              *)
THEOREM StatisticsExactHolds == ASSUME Careful PROVE Spec => []StatisticsExact
<1>1. TxInv => StatisticsExact
  <2> SUFFICES ASSUME TxInv PROVE StatisticsExact
    OBVIOUS
  <2> DEFINE w == s.wire
             c == counted
             frames == SubSeq(w, c + 1, Len(w))
             sizes == [i \in DOMAIN frames |-> Len(frames[i].bytes)]
  <2>1. w \in Seq(WireFrame) /\ Counted(s, c)
    BY FlowShows
  <2>2. c \in 0..Len(w)
    BY <2>1 DEF Counted
  <2>3. /\ frames \in Seq(WireFrame) /\ Len(frames) = Len(w) - c
        /\ \A i \in 1..(Len(w) - c) : frames[i] = w[c + i]
    <3> HIDE DEF w, c
    <3> QED
      BY <2>1, <2>2, SuffixIs
  <2> HIDE DEF frames
  <2>4. DOMAIN frames = 1..(Len(w) - c)
    BY <2>3
  <2>5. sizes = Lengths(w, c)
    BY <2>3, <2>4 DEF Lengths
  <2> HIDE DEF sizes
  <2>6. Total(sizes) = Octets(w, c)
    BY <2>5 DEF Octets
  <2>7. /\ s.TPT = Len(frames) % 2 ^ W /\ s.GPTC = s.TPT
        /\ s.TOTH * 2 ^ W + s.TOTL = Total(sizes) % (2 ^ W * 2 ^ W)
    BY <2>1, <2>3, <2>6 DEF Counted
  <2> QED
    BY <2>7 DEF StatisticsExact, frames, sizes
<1> QED
  BY <1>1, TxInvariant, PTL

(* A sequence of bytes that begins another.                                *)
Begins(a, b) == Len(a) <= Len(b) /\ \A i \in 1..Len(a) : b[i] = a[i]

(* Beginning is reflexive and transitive, and what begins is a prefix.     *)
LEMMA BeginsIs ==
    ASSUME NEW a \in Seq(Byte), NEW b \in Seq(Byte), NEW c \in Seq(Byte)
    PROVE  /\ Begins(a, a) /\ Begins(a, a \o b)
           /\ Begins(a, b) /\ Begins(b, c) => Begins(a, c)
           /\ Begins(b, c) => Begins(a \o b, a \o c)
           /\ Begins(a, b) => IsPrefix(a, b)
<1>1. Len(a) \in Nat /\ Len(b) \in Nat /\ Len(c) \in Nat
  OBVIOUS
<1>2. Begins(a, a)
  BY <1>1 DEF Begins
<1>3. /\ a \o b \in Seq(Byte) /\ Len(a \o b) = Len(a) + Len(b)
      /\ \A i \in 1..(Len(a) + Len(b)) : (a \o b)[i] = IF i <= Len(a) THEN a[i] ELSE b[i - Len(a)]
  OBVIOUS
<1>4. /\ a \o c \in Seq(Byte) /\ Len(a \o c) = Len(a) + Len(c)
      /\ \A i \in 1..(Len(a) + Len(c)) : (a \o c)[i] = IF i <= Len(a) THEN a[i] ELSE c[i - Len(a)]
  OBVIOUS
<1>5. Begins(a, a \o b)
  <2>1. Len(a) <= Len(a) + Len(b) /\ \A i \in 1..Len(a) : i \in 1..(Len(a) + Len(b)) /\ i <= Len(a)
    BY <1>1
  <2> QED
    BY <1>3, <2>1 DEF Begins
<1>6. ASSUME Begins(a, b), Begins(b, c) PROVE Begins(a, c)
  <2>1. Len(a) <= Len(c) /\ \A i \in 1..Len(a) : i \in 1..Len(b)
    BY <1>1, <1>6 DEF Begins
  <2> QED
    BY <1>6, <2>1 DEF Begins
<1>7. ASSUME Begins(b, c) PROVE Begins(a \o b, a \o c)
  <2>1. Len(b) <= Len(c) /\ \A i \in 1..Len(b) : c[i] = b[i]
    BY <1>7 DEF Begins
  <2>2. Len(a) + Len(b) <= Len(a) + Len(c)
    BY <1>1, <2>1
  <2>3. ASSUME NEW i \in 1..(Len(a) + Len(b)) PROVE (a \o c)[i] = (a \o b)[i]
    <3>1. i \in 1..(Len(a) + Len(c))
      BY <1>1, <2>1
    <3>2. ~(i <= Len(a)) => i - Len(a) \in 1..Len(b)
      BY <1>1
    <3> QED
      BY <1>3, <1>4, <2>1, <3>1, <3>2
  <2> QED
    BY <1>3, <1>4, <2>2, <2>3 DEF Begins
<1>8. ASSUME Begins(a, b) PROVE IsPrefix(a, b)
  <2> DEFINE L == Len(a)
             u == SubSeq(a, 1, L)
             v == SubSeq(b, 1, L)
  <2>1. L \in Nat /\ L <= Len(b) /\ \A i \in 1..L : b[i] = a[i]
    BY <1>1, <1>8 DEF Begins
  <2>2. u \in Seq(Byte) /\ Len(u) = L /\ v \in Seq(Byte) /\ Len(v) = L
    BY <1>1, <2>1
  <2>3. \A i \in 1..L : 1 + i - 1 = i
    BY <2>1
  <2>4. \A i \in 1..L : u[i] = a[i] /\ v[i] = b[i]
    BY <1>1, <2>1, <2>3
  <2> HIDE DEF u, v
  <2>5. u = v
    BY <2>1, <2>2, <2>4, SeqEqual
  <2> QED
    BY <2>1, <2>5 DEF IsPrefix, u, v
<1> QED
  BY <1>2, <1>5, <1>6, <1>7, <1>8

(* The payload of the first packets begins the payload of more.            *)
LEMMA PartsBegin ==
    ASSUME NEW P \in Seq(Kinds), NEW n \in 0..Len(P), NEW m \in n..Len(P)
    PROVE  /\ FlattenSeq(Parts(P, n)) \in Seq(Byte)
           /\ Begins(FlattenSeq(Parts(P, n)), FlattenSeq(Parts(P, m)))
<1> DEFINE G(i) == FlattenSeq(Parts(P, i))
           T == {i \in n..Len(P) : ~Begins(G(n), G(i))}
<1>0. n \in Nat /\ Len(P) \in Nat /\ n <= Len(P)
  OBVIOUS
<1>1. \A i \in 0..Len(P) : G(i) \in Seq(Byte)
  <2> SUFFICES ASSUME NEW i \in 0..Len(P) PROVE G(i) \in Seq(Byte)
    OBVIOUS
  <2>1. Parts(P, i) \in Seq(Seq(Byte))
    BY PartsIs
  <2> QED
    BY <2>1, FlattenType
<1>2. ASSUME NEW i \in 0..Len(P), i < Len(P) PROVE Begins(G(i), G(i + 1))
  <2> DEFINE x == Part(P, i + 1, P[i + 1].payload)
             k == i + 1
  <2>1. Parts(P, i) \in Seq(Seq(Byte)) /\ Parts(P, k) = Append(Parts(P, i), x)
    BY <1>2, PartsIs
  <2>2. x \in Seq(Byte)
    <3>1. k \in 1..Len(P)
      BY <1>0, <1>2
    <3> HIDE DEF k
    <3>2. P[k] \in Kinds
      BY <3>1
    <3>3. P[k].payload \in Nat
      BY <3>2, KindIs
    <3>4. Part(P, k, P[k].payload) \in Seq(Byte)
      BY <3>1, <3>3, PartIs
    <3> QED
      BY <3>4 DEF k
  <2> HIDE DEF x, k
  <2>3. FlattenSeq(Append(Parts(P, i), x)) = FlattenSeq(Parts(P, i)) \o x
    BY ONLY <2>1, <2>2, FlattenAppend
  <2>4. G(k) = G(i) \o x
    BY <2>1, <2>3
  <2>5. G(i) \in Seq(Byte)
    BY <1>1
  <2> HIDE DEF G
  <2>6. Begins(G(i), G(i) \o x)
    BY <2>2, <2>5, BeginsIs
  <2> QED
    BY <2>4, <2>6 DEF k
<1> HIDE DEF G
<1>3. Begins(G(n), G(n))
  <2>1. G(n) \in Seq(Byte)
    BY <1>1
  <2> QED
    BY <2>1, BeginsIs
<1>4. ASSUME T # {} PROVE FALSE
  <2>1. T \subseteq Nat
    BY <1>0
  <2>2. PICK i \in T : \A y \in T : i <= y
    <3> HIDE DEF T
    <3> QED
      BY <1>4, <2>1, LeastNumber
  <2>3. i \in n..Len(P) /\ i \in Nat /\ ~Begins(G(n), G(i))
    BY <2>1, <2>2
  <2>4. i # n
    BY <1>3, <2>3
  <2> DEFINE k == i - 1
  <2>5. k \in n..Len(P) /\ k \in 0..Len(P) /\ k < Len(P) /\ ~(i <= k) /\ k + 1 = i /\ i \in 0..Len(P)
    BY <1>0, <2>3, <2>4
  <2> HIDE DEF k
  <2>6. k \notin T
    <3> HIDE DEF T
    <3> QED
      BY <2>2, <2>5
  <2>7. Begins(G(n), G(k))
    BY <2>5, <2>6
  <2>8. Begins(G(k), G(i))
    BY <1>2, <2>5
  <2>9. G(n) \in Seq(Byte) /\ G(k) \in Seq(Byte) /\ G(i) \in Seq(Byte)
    BY <1>1, <2>5
  <2>10. Begins(G(n), G(i))
    BY <2>7, <2>8, <2>9, BeginsIs
  <2> QED
    BY <2>3, <2>10
<1>5. Begins(G(n), G(m))
  BY <1>4
<1> QED
  BY <1>1, <1>5 DEF G

(* Wherever the device stands, what has left begins what was posted.       *)
LEMMA SentBegins ==
    ASSUME NEW d, NEW c, NEW P, NEW p, NEW j, Standing(d, c, P, p, j)
    PROVE  /\ FlattenSeq(Payloads(d.wire, P)) \in Seq(Byte) /\ FlattenSeq(Parts(P, Len(P))) \in Seq(Byte)
           /\ Begins(FlattenSeq(Payloads(d.wire, P)), FlattenSeq(Parts(P, Len(P))))
<1> DEFINE G(i) == FlattenSeq(Parts(P, i))
           L == Len(P)
           out == FlattenSeq(Payloads(d.wire, P))
<1>1. P \in Seq(Kinds) /\ Place(P, p, j) /\ L \in Nat
  BY DEF Standing
<1>2. p \in 0..L
  BY <1>1 DEF Place
<1>3. \A n \in 0..L : G(n) \in Seq(Byte) /\ Begins(G(n), G(L))
  <2>1. \A n \in 0..L : L \in n..L
    BY <1>1
  <2> QED
    BY <1>1, <2>1, PartsBegin
<1>4. L \in 0..L
  BY <1>1
<1>5. CASE Ended(P, p, j)
  <2>1. out = G(p)
    BY <1>5 DEF Standing, SentAll
  <2> HIDE DEF G, out, L
  <2>2. G(p) \in Seq(Byte) /\ G(L) \in Seq(Byte) /\ Begins(G(p), G(L))
    BY <1>2, <1>3, <1>4
  <2> QED
    BY <2>1, <2>2 DEF G, out, L
<1>6. CASE ~Ended(P, p, j)
  <2>1. PICK pos, q : Sending(d, c, P, p, pos, q)
    BY <1>6 DEF Standing, Open
  <2> DEFINE k == P[p]
             n == p - 1
             x == Part(P, p, q)
             y == Part(P, p, k.payload)
  <2>2. p \in 1..L /\ Gathers(d.tx, k, p, pos, q) /\ Sent(d.wire, P, p, q) /\ k \in Kinds
    BY <1>1, <2>1 DEF Sending
  <2>3. out = G(n) \o x
    BY <2>2 DEF Sent
  <2>4. k.payload \in Nat /\ k.hdr \in Nat
    BY <2>2, KindIs
  <2>5. q \in Nat /\ q <= k.payload
    <3>1. pos \in Nat /\ q \in Nat /\ pos <= k.hdr + k.payload /\ (q # 0 => pos - q >= k.hdr)
      BY <2>2 DEF Gathers
    <3> HIDE DEF k
    <3> QED
      BY <2>4, <3>1
  <2>6. /\ x \in Seq(Byte) /\ Len(x) = q /\ (\A i \in 1..q : x[i] = <<p, k.hdr + i>>)
        /\ y \in Seq(Byte) /\ Len(y) = k.payload
        /\ (\A i \in 1..k.payload : y[i] = <<p, k.hdr + i>>)
    BY <1>1, <2>2, <2>4, <2>5, PartIs
  <2> HIDE DEF x, y, k
  <2>7. Begins(x, y)
    <3>1. \A i \in 1..q : i \in 1..k.payload
      BY <2>4, <2>5
    <3> QED
      BY <2>5, <2>6, <3>1 DEF Begins
  <2>8. n \in 0..L /\ n < L /\ n + 1 = p /\ p \in 0..L
    BY <1>1, <2>2
  <2>9. Parts(P, n) \in Seq(Seq(Byte)) /\ Parts(P, p) = Append(Parts(P, n), y)
    <3>1. /\ Parts(P, n) \in Seq(Seq(Byte))
          /\ Parts(P, n + 1) = Append(Parts(P, n), Part(P, n + 1, P[n + 1].payload))
      <4> HIDE DEF n
      <4> QED
        BY <1>1, <2>8, PartsIs
    <3> QED
      BY <2>8, <3>1 DEF y, k
  <2> HIDE DEF n
  <2>10. FlattenSeq(Append(Parts(P, n), y)) = FlattenSeq(Parts(P, n)) \o y
    BY ONLY <2>6, <2>9, FlattenAppend
  <2>11. G(p) = G(n) \o y
    BY <2>9, <2>10
  <2> HIDE DEF G, out, L
  <2>12. G(n) \in Seq(Byte) /\ G(p) \in Seq(Byte) /\ G(L) \in Seq(Byte) /\ Begins(G(p), G(L))
    BY <1>3, <1>4, <2>8
  <2>13. Begins(G(n) \o x, G(n) \o y)
    BY <2>6, <2>7, <2>12, BeginsIs
  <2>14. out \in Seq(Byte)
    BY <2>3, <2>6, <2>12
  <2>15. Begins(out, G(L))
    <3>1. Begins(out, G(p))
      BY <2>3, <2>11, <2>13
    <3> QED
      BY ONLY <2>12, <2>14, <3>1, BeginsIs
  <2> QED
    BY <2>12, <2>14, <2>15 DEF G, out, L
<1> QED
  BY <1>5, <1>6

(* A careful guest's payload arrives in order and complete: what is on the *)
(* wire begins what was posted, and is all of it once nothing waits.       *)
THEOREM PayloadPreservedHolds == ASSUME Careful PROVE Spec => []PayloadPreserved
<1>1. TxInv => PayloadPreserved
  <2> SUFFICES ASSUME TxInv PROVE PayloadPreserved
    OBVIOUS
  <2> DEFINE w == s.wire
             P == posted
             out == FlattenSeq([i \in DOMAIN w |-> Payload(w[i])])
             all == FlattenSeq([pid \in DOMAIN P |-> PostedPayload(pid)])
  <2>1. s \in TxState /\ w \in Seq(WireFrame) /\ P \in Seq(Kinds)
    BY FlowShows
  <2>2. [i \in DOMAIN w |-> Payload(w[i])] = Payloads(w, P)
    <3>1. DOMAIN w = 1..Len(w)
      BY <2>1
    <3>2. \A i \in DOMAIN w : Payload(w[i]) = PayloadIn(w[i], P)
      BY DEF Payload, PayloadIn, KindOf, Pid
    <3> QED
      BY <3>1, <3>2 DEF Payloads
  <2>3. [pid \in DOMAIN P |-> PostedPayload(pid)] = Parts(P, Len(P))
    <3>1. DOMAIN P = 1..Len(P)
      BY <2>1
    <3>2. \A pid \in DOMAIN P : PostedPayload(pid) = Part(P, pid, P[pid].payload)
      BY DEF PostedPayload, Part
    <3> QED
      BY <3>1, <3>2 DEF Parts
  <2>4. out = FlattenSeq(Payloads(w, P)) /\ all = FlattenSeq(Parts(P, Len(P)))
    BY <2>2, <2>3
  <2>5. PICK p, j : Standing(s, counted, posted, p, j)
    BY DEF TxInv, Flow
  <2> HIDE DEF out, all
  <2>6. out \in Seq(Byte) /\ all \in Seq(Byte) /\ Begins(out, all)
    BY <2>4, <2>5, SentBegins
  <2>7. IsPrefix(out, all)
    BY <2>6, BeginsIs
  <2>8. ASSUME s.TDH = s.TDT, todo = <<>> PROVE out = all
    <3>1. Flow(s, counted, <<>>, posted)
      BY <2>8 DEF TxInv
    <3>2. SentAll(s.wire, posted, Len(posted))
      BY <2>1, <2>8, <3>1, NothingWaits
    <3> QED
      BY <2>4, <3>2 DEF SentAll
  <2> QED
    BY <2>7, <2>8 DEF PayloadPreserved, out, all
<1> QED
  BY <1>1, TxInvariant, PTL
=============================================================================
