---------------------------- MODULE E1000Rx_proofs ----------------------------
(***************************************************************************)
(* Proofs about E1000Rx, for every size of the ring, every set of frames   *)
(* and of buffer sizes and every width of the statistics registers.        *)
(***************************************************************************)
EXTENDS E1000Rx, E1000Common_proofs, FiniteSetTheorems, SequenceTheorems

(* The index that lies i steps after c on the ring, and the steps from c   *)
(* to k.                                                                   *)
At(c, i) == (c + i) % N
Dist(k, c) == (k + N - c) % N

Indexes == 0..(N - 1)

Desc == [null : BOOLEAN, DD : BOOLEAN, EOP : BOOLEAN, length : Nat]
Words == 0..(2 ^ W - 1)

Count == [frames : Nat, octets : Nat, tags : Nat]

RxState ==
    [link : LinkState, RCTL : RctlBits, VME : BOOLEAN, RDH : Indexes, RDT : Indexes,
     rxbuf_size : Nat, rxbuf_min_shift : Nat,
     GPRC : Words, TPR : Words, TORL : Words, TORH : Words,
     ring : [Indexes -> Desc], due : Seq(Nat),
     count : Count, overrun : BOOLEAN, within : BOOLEAN]

(* A device with sensible registers: whenever reception is enabled, the    *)
(* buffers have a size.                                                    *)
Typed(d) ==
    /\ d \in RxState
    /\ Linked(d.link)
    /\ d.RCTL.EN => d.rxbuf_size > 0

(* The descriptors done are the ones from the driver's index c up to the   *)
(* head, and the head is not past the tail.                                *)
Placed(ring, rdh, rdt, c) ==
    /\ Dist(rdh, c) <= Dist(rdt, c)
    /\ \A k \in Indexes : ring[k].DD <=> Dist(k, c) < Dist(rdh, c)

(* The driver has a1 bytes of a frame and has put n1 frames together       *)
(* before descriptor desc, and a2 bytes and n2 frames after it.            *)
Reading(desc, due, a1, n1, a2, n2) ==
    /\ desc.null => a2 = a1 /\ n2 = n1
    /\ ~desc.null /\ desc.EOP => n2 = n1 + 1 /\ a2 = 0 /\ a1 + desc.length = due[n2]
    /\ ~desc.null /\ ~desc.EOP => a2 = a1 + desc.length /\ n2 = n1

(* What the driver will have in hand, acc, and will have put together,     *)
(* cnt, after each of the h descriptors that are done: every last          *)
(* descriptor of a frame completes the next frame that is due, and the     *)
(* last one done completes the last.                                       *)
Reads(ring, h, due, c, acc, cnt) ==
    /\ acc \in [0..h -> Nat] /\ cnt \in [0..h -> 0..Len(due)]
    /\ \A i, j \in 0..h : i <= j => cnt[i] <= cnt[j]
    /\ \A i \in 0..(h - 1) :
        Reading(ring[At(c, i)], due, acc[i], cnt[i], acc[i + 1], cnt[i + 1])
    /\ acc[h] = 0 /\ cnt[h] = Len(due)

Accepted(ring, rdh, due, c, p) ==
    \E acc, cnt : Reads(ring, Dist(rdh, c), due, c, acc, cnt) /\ acc[0] = p /\ cnt[0] = 0

(* A driver that is not polling has a cause to start for what is done.     *)
Told(icr, rdh, c, pol) == Dist(rdh, c) > 0 /\ ~pol => "RXT0" \in icr

(* The statistics count the frames stored, and their octets without those  *)
(* of the tags taken out.                                                  *)
Counted(d) ==
    /\ d.GPRC = d.count.frames % 2 ^ W /\ d.TPR = d.GPRC
    /\ d.count.tags <= d.count.octets
    /\ d.TORH * 2 ^ W + d.TORL = (d.count.octets - d.count.tags) % (2 ^ W * 2 ^ W)

(* The device d in front of a driver that looks at index c next, has p     *)
(* bytes of a frame, polls or not and has met whole frames only.           *)
Received(d, c, p, pol, w) ==
    /\ Typed(d) /\ Counted(d) /\ c \in Indexes /\ p \in Nat /\ pol \in BOOLEAN /\ w \in BOOLEAN
    /\ d.within
    /\ ~d.overrun =>
        /\ Placed(d.ring, d.RDH, d.RDT, c)
        /\ Accepted(d.ring, d.RDH, d.due, c, p)
        /\ Told(d.link.irq.ICR, d.RDH, c, pol)
        /\ w

(* The inductive invariant.                                                *)
RxInv == Received(s, clean, part, polling, whole) /\ queue \in Seq(Frames)

-----------------------------------------------------------------------------
(* The ring                                                                *)

(* An index that has passed the end of the ring is taken back once.        *)
LEMMA RingMod ==
    ASSUME NEW x \in 0..(2 * N - 1)
    PROVE  x % N = IF x < N THEN x ELSE x - N
<1>0. N \in Nat /\ N > 1
  BY RxAssumption
<1> QED
  BY <1>0

(* Stepping around the ring.                                               *)
LEMMA AtIs ==
    ASSUME NEW c \in Indexes, NEW i \in 0..N
    PROVE  At(c, i) \in Indexes /\ At(c, i) = IF c + i < N THEN c + i ELSE c + i - N
<1>0. N \in Nat /\ N > 1
  BY RxAssumption
<1>1. c + i \in 0..(2 * N - 1)
  BY <1>0 DEF Indexes
<1>2. At(c, i) = IF c + i < N THEN c + i ELSE c + i - N
  <2>1. \A x \in 0..(2 * N - 1) : x % N = IF x < N THEN x ELSE x - N
    BY RingMod
  <2> QED
    BY <1>0, <1>1, <2>1 DEF At, Indexes
<1> QED
  BY <1>0, <1>2 DEF Indexes

(* Counting the steps between two indexes.                                 *)
LEMMA DistIs ==
    ASSUME NEW k \in Indexes, NEW c \in Indexes
    PROVE  /\ Dist(k, c) = IF k < c THEN k + N - c ELSE k - c
           /\ Dist(k, c) \in Indexes
           /\ At(c, Dist(k, c)) = k
<1>0. N \in Nat /\ N > 1
  BY RxAssumption
<1>1. k + N - c \in 0..(2 * N - 1)
  BY <1>0 DEF Indexes
<1>2. Dist(k, c) = IF k < c THEN k + N - c ELSE k - c
  BY <1>0, <1>1, RingMod DEF Dist, Indexes
<1>3. Dist(k, c) \in Indexes /\ Dist(k, c) \in 0..N
  BY <1>0, <1>2 DEF Indexes
<1>4. At(c, Dist(k, c)) = k
  <2>1. At(c, Dist(k, c)) = IF c + Dist(k, c) < N THEN c + Dist(k, c) ELSE c + Dist(k, c) - N
    BY <1>3, AtIs
  <2> QED
    BY <1>0, <1>2, <2>1 DEF Indexes
<1> QED
  BY <1>2, <1>3, <1>4

(* The two are inverse to each other.                                      *)
LEMMA DistAt ==
    ASSUME NEW c \in Indexes, NEW i \in Indexes
    PROVE  Dist(At(c, i), c) = i
<1>0. N \in Nat /\ N > 1
  BY RxAssumption
<1>1. i \in 0..N
  BY <1>0 DEF Indexes
<1>2. At(c, i) \in Indexes /\ At(c, i) = IF c + i < N THEN c + i ELSE c + i - N
  BY <1>1, AtIs
<1>3. Dist(At(c, i), c) = IF At(c, i) < c THEN At(c, i) + N - c ELSE At(c, i) - c
  BY <1>2, DistIs
<1> QED
  BY <1>0, <1>2, <1>3 DEF Indexes

(* A quotient rounded up.                                                  *)
LEMMA RoundedUp ==
    ASSUME NEW a \in Nat, a > 0, NEW z \in Nat, z > 0
    PROVE  LET q == (a + z - 1) \div z
           IN  q \in Nat /\ q > 0 /\ (q - 1) * z < a /\ a <= q * z
<1> DEFINE q == (a + z - 1) \div z
           r == (a + z - 1) % z
<1>1. q \in Int /\ r \in 0..(z - 1) /\ a + z - 1 = z * q + r
  OBVIOUS
<1> HIDE DEF q, r
<1>2. q > 0
  <2>1. ASSUME q <= 0 PROVE FALSE
    <3>1. q * z <= 0 * z
      BY <1>1, <2>1, TimesOrder
    <3> QED
      BY <1>1, <3>1
  <2> QED
    BY <1>1, <2>1
<1>3. q * z = (q - 1) * z + z
  <2>1. q - 1 \in Int /\ (q - 1) + 1 = q
    BY <1>1
  <2> QED
    BY <2>1, TimesOrder
<1>4. (q - 1) * z < a /\ a <= q * z
  BY <1>1, <1>3
<1> QED
  BY <1>1, <1>2, <1>4 DEF q

-----------------------------------------------------------------------------
(* The descriptors a frame takes                                           *)

(* Filled counts the buffers one by one.                                   *)
LEMMA FilledSteps ==
    ASSUME NEW d, d \in RxState, NEW i \in Nat
    PROVE  /\ Filled(d, 0) = 0
           /\ Filled(d, i) \in 0..i
           /\ d.ring[At(d.RDH, i)].null => Filled(d, i + 1) = Filled(d, i)
           /\ ~d.ring[At(d.RDH, i)].null => Filled(d, i + 1) = Filled(d, i) + 1
<1> DEFINE F(n) == {j \in 0..(n - 1) : ~d.ring[Slot(d, j)].null}
<1>1. ASSUME NEW n \in Nat PROVE IsFiniteSet(F(n)) /\ Cardinality(F(n)) \in 0..n
  <2>1. IsFiniteSet(0..(n - 1)) /\ Cardinality(0..(n - 1)) = n
    BY FS_Interval
  <2>2. F(n) \subseteq 0..(n - 1)
    OBVIOUS
  <2> HIDE DEF F
  <2>3. /\ IsFiniteSet(F(n)) /\ Cardinality(F(n)) <= Cardinality(0..(n - 1))
    BY <2>1, <2>2, FS_Subset
  <2>4. Cardinality(F(n)) \in Nat
    BY <2>3, FS_CardinalityType
  <2> QED
    BY <2>1, <2>3, <2>4
<1>2. F(0) = {}
  OBVIOUS
<1>3. ASSUME d.ring[At(d.RDH, i)].null PROVE F(i + 1) = F(i)
  <2>1. 0..(i + 1 - 1) = 0..(i - 1) \cup {i}
    OBVIOUS
  <2>2. d.ring[Slot(d, i)].null
    BY <1>3 DEF Slot, At
  <2> QED
    BY <2>1, <2>2
<1>4. ASSUME ~d.ring[At(d.RDH, i)].null PROVE F(i + 1) = F(i) \cup {i} /\ i \notin F(i)
  <2>1. 0..(i + 1 - 1) = 0..(i - 1) \cup {i}
    OBVIOUS
  <2>2. ~d.ring[Slot(d, i)].null
    BY <1>4 DEF Slot, At
  <2> QED
    BY <2>1, <2>2
<1>5. \A n \in Nat : Filled(d, n) = Cardinality(F(n))
  BY DEF Filled
<1>6. Filled(d, i + 1) = Cardinality(F(i + 1)) /\ Filled(d, i) = Cardinality(F(i))
      /\ Filled(d, 0) = Cardinality(F(0))
  BY <1>5
<1> HIDE DEF F
<1>7. Filled(d, 0) = 0
  BY <1>2, <1>6, FS_EmptySet
<1>8. Filled(d, i) \in 0..i /\ IsFiniteSet(F(i))
  BY <1>1, <1>6
<1>9. ASSUME ~d.ring[At(d.RDH, i)].null PROVE Filled(d, i + 1) = Filled(d, i) + 1
  BY <1>4, <1>6, <1>8, <1>9, FS_AddElement
<1>10. ASSUME d.ring[At(d.RDH, i)].null PROVE Filled(d, i + 1) = Filled(d, i)
  BY <1>3, <1>6, <1>10
<1> QED
  BY <1>7, <1>8, <1>9, <1>10

(* The loop ends, at the first descriptor that completes the frame or back *)
(* where it started.                                                       *)
LEMMA UsedIs ==
    ASSUME NEW d, d \in RxState, NEW total \in Nat, Needed(d, total) \in Nat
    PROVE  LET u == Used(d, total)
           IN  /\ u \in 1..N
               /\ u = N \/ Filled(d, u) >= Needed(d, total)
               /\ \A j \in 1..(u - 1) : Filled(d, j) < Needed(d, total)
<1>0. N \in Nat /\ N > 1
  BY RxAssumption
<1> DEFINE T == {i \in 1..N : i = N \/ Filled(d, i) >= Needed(d, total)}
<1>1. T \subseteq Nat /\ N \in T
  BY <1>0
<1>2. PICK m \in T : \A k \in T : m <= k
  <2> HIDE DEF T
  <2> QED
    BY <1>1, LeastNumber
<1>3. m \in 1..N /\ (m = N \/ Filled(d, m) >= Needed(d, total))
  BY <1>2
<1>4. ASSUME NEW j \in 1..(m - 1) PROVE Filled(d, j) < Needed(d, total)
  <2>1. j \in 1..N /\ j # N /\ j < m /\ j \in Nat
    BY <1>0, <1>3
  <2>2. j \notin T
    BY <1>0, <1>2, <1>3, <2>1
  <2>3. Filled(d, j) \in Nat
    BY <2>1, FilledSteps
  <2> QED
    BY <2>1, <2>2, <2>3
<1> HIDE DEF T
<1>5. \E i \in 1..N : /\ i = N \/ Filled(d, i) >= Needed(d, total)
                      /\ \A j \in 1..(i - 1) : Filled(d, j) < Needed(d, total)
  BY <1>3, <1>4
<1> QED
  BY <1>5 DEF Used

(* e1000_has_rxbufs promises as many descriptors as the frame has buffers. *)
LEMMA Enough ==
    ASSUME NEW d, d \in RxState, d.rxbuf_size > 0, NEW total \in Nat, total > 0,
           e1000_has_rxbufs(d, total)
    PROVE  /\ Needed(d, total) \in Nat /\ Needed(d, total) > 0
           /\ (Needed(d, total) - 1) * d.rxbuf_size < total
           /\ total <= Needed(d, total) * d.rxbuf_size
           /\ Needed(d, total) <= Dist(d.RDT, d.RDH)
<1> DEFINE q == Needed(d, total)
           z == d.rxbuf_size
           b == Dist(d.RDT, d.RDH)
<1>0. N \in Nat /\ N > 1
  BY RxAssumption
<1>1. z \in Nat /\ z > 0 /\ d.RDH \in Indexes /\ d.RDT \in Indexes
  BY DEF RxState
<1>2. q \in Nat /\ q > 0 /\ (q - 1) * z < total /\ total <= q * z
  <2> HIDE DEF z
  <2>1. q = (total + z - 1) \div z
    BY DEF Needed, z
  <2> HIDE DEF q
  <2> QED
    BY <1>1, <2>1, RoundedUp
<1>3. /\ b = IF d.RDT < d.RDH THEN d.RDT + N - d.RDH ELSE d.RDT - d.RDH
      /\ b \in Nat
  <2>1. b = (IF d.RDT < d.RDH THEN d.RDT + N - d.RDH ELSE d.RDT - d.RDH) /\ b \in Indexes
    BY <1>1, DistIs
  <2> QED
    BY <1>0, <2>1 DEF Indexes
<1>4. CASE total <= z
  <2>1. d.RDH # d.RDT
    BY <1>4 DEF e1000_has_rxbufs
  <2>2. b >= 1
    <3> HIDE DEF b
    <3> QED
      BY <1>0, <1>1, <1>3, <2>1 DEF Indexes
  <2> HIDE DEF q, z, b
  <2>3. (q - 1) * z < 1 * z
    BY <1>1, <1>2, <1>4
  <2>4. q - 1 < 1
    BY <1>1, <1>2, <2>3, TimesOrder
  <2> QED
    BY <1>2, <1>3, <2>2, <2>4 DEF q, z, b
<1>5. CASE ~(total <= z)
  <2>1. total <= b * z
    <3>1. total <= (IF d.RDH < d.RDT THEN d.RDT - d.RDH
                    ELSE IF d.RDH > d.RDT THEN N + d.RDT - d.RDH ELSE 0) * z
      BY <1>5 DEF e1000_has_rxbufs
    <3>2. b = IF d.RDH < d.RDT THEN d.RDT - d.RDH
              ELSE IF d.RDH > d.RDT THEN N + d.RDT - d.RDH ELSE 0
      <4> HIDE DEF b
      <4> QED
        BY <1>0, <1>1, <1>3 DEF Indexes
    <3> QED
      BY <3>1, <3>2
  <2> HIDE DEF q, z, b
  <2>2. (q - 1) * z < b * z
    BY <1>1, <1>2, <1>3, <2>1
  <2>3. q - 1 < b
    BY <1>1, <1>2, <1>3, <2>2, TimesOrder
  <2> QED
    BY <1>2, <1>3, <2>3 DEF q, z, b
<1> QED
  BY <1>4, <1>5

(* Before the loop ends, something of the frame is left to store.          *)
LEMMA LeftOver ==
    ASSUME NEW d, d \in RxState, d.rxbuf_size > 0, NEW total \in Nat, total > 0,
           e1000_has_rxbufs(d, total), NEW j \in 0..(Used(d, total) - 1)
    PROVE  /\ Filled(d, j) \in Nat /\ Filled(d, j) < Needed(d, total)
           /\ total - Filled(d, j) * d.rxbuf_size > 0
<1> DEFINE q == Needed(d, total)
           z == d.rxbuf_size
           u == Used(d, total)
           f == Filled(d, j)
<1>1. q \in Nat /\ q > 0 /\ (q - 1) * z < total
  BY Enough
<1>2. u \in 1..N /\ \A i \in 1..(u - 1) : Filled(d, i) < q
  BY <1>1, UsedIs
<1>3. N \in Nat /\ z \in Nat /\ j \in Nat
  BY <1>2, RxAssumption DEF RxState
<1>4. f \in Nat /\ Filled(d, 0) = 0
  BY <1>3, FilledSteps
<1>5. f < q
  <2>1. CASE j = 0
    BY <1>1, <1>4, <2>1
  <2>2. CASE j # 0
    <3>1. j \in 1..(u - 1)
      BY <1>2, <1>3, <2>2
    <3> QED
      BY <1>2, <3>1
  <2> QED
    BY <2>1, <2>2
<1> HIDE DEF q, z, f
<1>6. f * z <= (q - 1) * z
  BY <1>1, <1>3, <1>4, <1>5, TimesOrder DEF z
<1>7. f * z \in Int /\ (q - 1) * z \in Int
  BY <1>1, <1>3, <1>4
<1>8. total - f * z > 0
  BY <1>1, <1>6, <1>7
<1> QED
  BY <1>4, <1>5, <1>8 DEF q, z, f

(* A frame fills no more buffers than lie before the tail.  One that ends  *)
(* at or before the tail ends at the descriptor that takes the rest of it; *)
(* the buffers before that are full.                                       *)
LEMMA FrameShape ==
    ASSUME NEW d, d \in RxState, d.rxbuf_size > 0, NEW total \in Nat, total > 0,
           e1000_has_rxbufs(d, total)
    PROVE  LET u == Used(d, total)
               left(j) == total - Filled(d, j) * d.rxbuf_size
           IN  /\ Filled(d, u) <= Dist(d.RDT, d.RDH)
               /\ u <= Dist(d.RDT, d.RDH) =>
                    /\ u < N
                    /\ ~d.ring[At(d.RDH, u - 1)].null
                    /\ left(u - 1) <= d.rxbuf_size
                    /\ \A j \in 0..(u - 2) : ~d.ring[At(d.RDH, j)].null => left(j) > d.rxbuf_size
<1> DEFINE q == Needed(d, total)
           z == d.rxbuf_size
           u == Used(d, total)
           b == Dist(d.RDT, d.RDH)
           F(j) == Filled(d, j)
           null(j) == d.ring[At(d.RDH, j)].null
<1>0. N \in Nat /\ N > 1 /\ z \in Nat /\ d.RDH \in Indexes /\ d.RDT \in Indexes
  BY RxAssumption DEF RxState
<1>1. q \in Nat /\ q > 0 /\ (q - 1) * z < total /\ total <= q * z /\ q <= b
  BY Enough
<1>2. u \in 1..N /\ (u = N \/ F(u) >= q)
  BY <1>1, UsedIs
<1>3. b \in Nat /\ b < N
  <2>1. b \in Indexes
    BY <1>0, DistIs
  <2> QED
    BY <1>0, <2>1 DEF Indexes
<1>4. \A j \in 0..(u - 1) : F(j) \in Nat /\ F(j) < q
  BY LeftOver
<1>5. \A j \in Nat : /\ F(j) \in 0..j
                     /\ null(j) => F(j + 1) = F(j)
                     /\ ~null(j) => F(j + 1) = F(j) + 1
  BY FilledSteps
<1> HIDE DEF q, z, u, b, F, null
<1>7. u - 1 \in Nat /\ u \in Nat /\ u - 1 \in 0..(u - 1) /\ (u - 1) + 1 = u
  BY <1>0, <1>2
<1>8. /\ F(u - 1) \in Nat /\ F(u - 1) < q /\ F(u) \in 0..u /\ F(u - 1) \in 0..(u - 1)
      /\ null(u - 1) => F(u) = F(u - 1)
      /\ ~null(u - 1) => F(u) = F(u - 1) + 1
  BY <1>4, <1>5, <1>7
<1>9. F(u) <= b
  BY <1>1, <1>3, <1>7, <1>8
<1> SUFFICES ASSUME u <= b
             PROVE  /\ u < N /\ ~null(u - 1) /\ total - F(u - 1) * z <= z
                    /\ \A j \in 0..(u - 2) : ~null(j) => total - F(j) * z > z
  BY <1>9 DEF q, z, u, b, F, null
<1>10. F(u) >= q /\ u < N
  BY <1>0, <1>2, <1>3, <1>7
<1>11. ~null(u - 1) /\ F(u - 1) = q - 1
  BY <1>1, <1>8, <1>10
<1>12. total - F(u - 1) * z <= z
  <2>1. q * z = (q - 1) * z + z
    <3>1. q - 1 \in Int /\ (q - 1) + 1 = q
      BY <1>1
    <3>2. z > 0
      BY DEF z
    <3> QED
      BY <1>0, <3>1, <3>2, TimesOrder
  <2>2. (q - 1) * z \in Int /\ q * z \in Int
    BY <1>0, <1>1
  <2> QED
    BY <1>0, <1>1, <1>11, <2>1, <2>2
<1>13. ASSUME NEW j \in 0..(u - 2), ~null(j) PROVE total - F(j) * z > z
  <2>1. j \in 0..(u - 1) /\ j + 1 \in 0..(u - 1) /\ j \in Nat
    BY <1>7
  <2>2. F(j) \in Nat /\ F(j + 1) < q /\ F(j + 1) = F(j) + 1
    BY <1>4, <1>5, <1>13, <2>1
  <2>3. F(j) + 1 <= q - 1
    BY <1>1, <2>2
  <2>4. z > 0
    BY DEF z
  <2>5. (F(j) + 1) * z <= (q - 1) * z
    BY <1>0, <1>1, <2>2, <2>3, <2>4, TimesOrder
  <2>6. (F(j) + 1) * z = F(j) * z + z
    BY <1>0, <2>2, <2>4, TimesOrder
  <2>7. F(j) * z \in Int /\ (q - 1) * z \in Int
    BY <1>0, <1>1, <2>2
  <2> QED
    BY <1>0, <1>1, <2>5, <2>6, <2>7
<1> QED
  BY <1>10, <1>11, <1>12, <1>13

-----------------------------------------------------------------------------
(* What the driver will read                                               *)

(* The descriptors from the h-th after c on hold a frame of total bytes in *)
(* u of them; A is what the driver has of it before each.                  *)
Holds(ring, h, u, c, A, total) ==
    /\ A \in [0..(u - 1) -> Nat] /\ A[0] = 0
    /\ \A j \in 0..(u - 2) :
        LET desc == ring[At(c, h + j)]
        IN  /\ desc.null => A[j + 1] = A[j]
            /\ ~desc.null => ~desc.EOP /\ A[j + 1] = A[j] + desc.length
    /\ LET desc == ring[At(c, h + (u - 1))]
       IN  ~desc.null /\ desc.EOP /\ A[u - 1] + desc.length = total

(* The ring with one frame more behind the h descriptors that are done.    *)
Extending(ring, ring2, h, u, c, due, total, acc, cnt, A) ==
    /\ h \in Nat /\ u \in Nat /\ u > 0 /\ total \in Nat /\ due \in Seq(Nat)
    /\ Reads(ring, h, due, c, acc, cnt)
    /\ \A i \in 0..(h - 1) : ring2[At(c, i)] = ring[At(c, i)]
    /\ Holds(ring2, h, u, c, A, total)

(* Once a frame is stored behind the descriptors that are done, the driver *)
(* will have put it together after the frames that were due.               *)
LEMMA ReadsExtended ==
    ASSUME NEW ring, NEW ring2, NEW h, NEW u, NEW c, NEW due, NEW total, NEW acc, NEW cnt, NEW A,
           Extending(ring, ring2, h, u, c, due, total, acc, cnt, A)
    PROVE  \E acc2, cnt2 : /\ Reads(ring2, h + u, Append(due, total), c, acc2, cnt2)
                           /\ acc2[0] = acc[0] /\ cnt2[0] = cnt[0]
<1> SUFFICES ASSUME h \in Nat, u \in Nat, u > 0, due \in Seq(Nat), total \in Nat,
                    Reads(ring, h, due, c, acc, cnt),
                    \A i \in 0..(h - 1) : ring2[At(c, i)] = ring[At(c, i)],
                    Holds(ring2, h, u, c, A, total)
             PROVE  \E acc2, cnt2 : /\ Reads(ring2, h + u, Append(due, total), c, acc2, cnt2)
                                    /\ acc2[0] = acc[0] /\ cnt2[0] = cnt[0]
  BY DEF Extending
<1> DEFINE L == Len(due)
           H == h + u
           acc2 == [i \in 0..H |-> IF i <= h THEN acc[i] ELSE IF i < H THEN A[i - h] ELSE 0]
           cnt2 == [i \in 0..H |-> IF i <= h THEN cnt[i] ELSE IF i < H THEN L ELSE L + 1]
           due2 == Append(due, total)
           Old(i) == ring[At(c, i)]
           New(i) == ring2[At(c, i)]
<1>1. /\ acc \in [0..h -> Nat] /\ cnt \in [0..h -> 0..L]
      /\ \A i, j \in 0..h : i <= j => cnt[i] <= cnt[j]
      /\ acc[h] = 0 /\ cnt[h] = L
      /\ \A i \in 0..(h - 1) : Reading(Old(i), due, acc[i], cnt[i], acc[i + 1], cnt[i + 1])
  BY DEF Reads
<1>2. L \in Nat /\ due2 \in Seq(Nat) /\ Len(due2) = L + 1 /\ due2[L + 1] = total
      /\ \A n \in 1..L : due2[n] = due[n]
  BY AppendProperties
<1>3. /\ \A i \in 0..(h - 1) : New(i) = Old(i)
      /\ \A j \in 0..(u - 2) :
           /\ New(h + j).null => A[j + 1] = A[j]
           /\ ~New(h + j).null => ~New(h + j).EOP /\ A[j + 1] = A[j] + New(h + j).length
      /\ ~New(h + (u - 1)).null /\ New(h + (u - 1)).EOP
      /\ A[u - 1] + New(h + (u - 1)).length = total
      /\ A \in [0..(u - 1) -> Nat] /\ A[0] = 0
  BY DEF Holds
<1> HIDE DEF L, due2, Old, New
<1>h. H \in Nat /\ H = h + u /\ h < H
  OBVIOUS
<1> HIDE DEF H
<1>4. acc2 \in [0..H -> Nat] /\ cnt2 \in [0..H -> 0..(L + 1)]
  <2>1. \A i \in 0..H : i > h /\ i < H => A[i - h] \in Nat
    BY <1>3, <1>h
  <2>2. L \in 0..(L + 1) /\ L + 1 \in 0..(L + 1)
    BY <1>2
  <2>3. \A i \in 0..H : /\ (IF i <= h THEN acc[i] ELSE IF i < H THEN A[i - h] ELSE 0) \in Nat
                       /\ (IF i <= h THEN cnt[i] ELSE IF i < H THEN L ELSE L + 1) \in 0..(L + 1)
    <3> TAKE i \in 0..H
    <3>1. i > h <=> ~(i <= h)
      BY <1>h
    <3>2. 0 \in Nat
      OBVIOUS
    <3>3. CASE i <= h
      <4>0. i \in 0..h
        BY <1>h, <3>3
      <4>2. acc[i] \in Nat /\ cnt[i] \in 0..L
        BY <1>1, <4>0
      <4>1. acc[i] \in Nat /\ cnt[i] \in 0..(L + 1)
        BY <1>2, <4>2
      <4> QED
        BY <3>3, <4>1, Zenon
    <3>4. CASE ~(i <= h) /\ i < H
      BY <2>1, <2>2, <3>1, <3>4, Zenon
    <3>5. CASE ~(i <= h) /\ ~(i < H)
      BY <2>2, <3>2, <3>5, Zenon
    <3> QED
      BY <3>3, <3>4, <3>5, Zenon
  <2>4. acc2 \in [0..H -> Nat] /\ cnt2 \in [0..H -> 0..(L + 1)]
    BY <2>3, Zenon
  <2> QED
    BY <2>4
<1>5. \A i \in 0..h : acc2[i] = acc[i] /\ cnt2[i] = cnt[i]
  BY <1>h
<1>6. \A i \in 0..H : i >= h /\ i < H => acc2[i] = A[i - h] /\ cnt2[i] = L
  BY <1>1, <1>3, <1>h
<1>7. acc2[H] = 0 /\ cnt2[H] = L + 1
  BY <1>h
<1> HIDE DEF acc2, cnt2
<1>8. \A i, j \in 0..H : i <= j => cnt2[i] <= cnt2[j]
  <2> SUFFICES ASSUME NEW i \in 0..H, NEW j \in 0..H, i <= j
               PROVE  cnt2[i] <= cnt2[j]
    OBVIOUS
  <2>1. cnt2[i] \in 0..(L + 1) /\ cnt2[j] \in 0..(L + 1)
    BY <1>4
  <2>2. CASE j = H
    BY <1>2, <1>7, <2>1, <2>2
  <2>3. CASE j # H /\ j >= h
    <3>1. cnt2[j] = L
      BY <1>6, <1>h, <2>3
    <3>2. CASE i >= h
      <4>1. i < H
        BY <1>h, <2>3
      <4>2. cnt2[i] = L
        BY <1>6, <3>2, <4>1
      <4> QED
        BY <1>2, <3>1, <4>2
    <3>3. CASE i < h
      <4>0. i \in 0..h
        BY <3>3
      <4>1. cnt2[i] \in 0..L
        BY <1>1, <1>5, <4>0
      <4> QED
        BY <1>2, <3>1, <4>1
    <3> QED
      BY <3>2, <3>3
  <2>4. CASE j < h
    <3>1. i \in 0..h /\ j \in 0..h
      BY <2>4
    <3> QED
      BY <1>1, <1>5, <3>1
  <2> QED
    BY <1>h, <2>2, <2>3, <2>4
<1>9. ASSUME NEW i \in 0..(H - 1)
      PROVE  Reading(New(i), due2, acc2[i], cnt2[i], acc2[i + 1], cnt2[i + 1])
  <2>1. CASE i < h
    <3>1. i \in 0..(h - 1) /\ i \in 0..h /\ i + 1 \in 0..h
      BY <2>1
    <3>2. /\ acc2[i] = acc[i] /\ cnt2[i] = cnt[i] /\ acc2[i + 1] = acc[i + 1]
          /\ cnt2[i + 1] = cnt[i + 1] /\ New(i) = Old(i)
      BY <1>3, <1>5, <3>1
    <3>3. ASSUME cnt[i + 1] = cnt[i] + 1 PROVE due2[cnt[i + 1]] = due[cnt[i + 1]]
      <4>1. cnt[i] \in 0..L /\ cnt[i + 1] \in 0..L
        BY <1>1, <3>1
      <4>2. cnt[i + 1] \in 1..L
        BY <1>2, <3>3, <4>1
      <4> QED
        BY <1>2, <4>2
    <3>4. Reading(Old(i), due, acc[i], cnt[i], acc[i + 1], cnt[i + 1])
      BY <1>1, <3>1
    <3> DEFINE a1 == acc[i]
               n1 == cnt[i]
               a2 == acc[i + 1]
               n2 == cnt[i + 1]
    <3>5. /\ Reading(Old(i), due, a1, n1, a2, n2) /\ n1 \in Int /\ n2 \in Int
          /\ n2 = n1 + 1 => due2[n2] = due[n2]
      BY <1>1, <1>2, <3>1, <3>3, <3>4
    <3> HIDE DEF a1, n1, a2, n2
    <3>6. Reading(Old(i), due2, a1, n1, a2, n2)
      BY <3>5 DEF Reading
    <3> QED
      BY <3>2, <3>6 DEF a1, n1, a2, n2
  <2>2. CASE i >= h /\ i < H - 1
    <3> DEFINE j == i - h
    <3>1. /\ j \in 0..(u - 2) /\ h + j = i /\ i + 1 - h = j + 1 /\ i + 1 \in 0..H
          /\ i + 1 >= h /\ i + 1 < H /\ i \in 0..H /\ i < H
      BY <1>h, <2>2
    <3>2. acc2[i] = A[j] /\ cnt2[i] = L
      BY <1>6, <2>2, <3>1
    <3>4. acc2[i + 1] = A[i + 1 - h] /\ cnt2[i + 1] = L
      BY <1>6, <3>1
    <3> HIDE DEF j
    <3>3. /\ New(i).null => A[j + 1] = A[j]
          /\ ~New(i).null => ~New(i).EOP /\ A[j + 1] = A[j] + New(i).length
      BY <1>3, <3>1
    <3> QED
      BY <3>1, <3>2, <3>3, <3>4 DEF Reading
  <2>3. CASE i = H - 1
    <3>1. h + (u - 1) = i /\ i - h = u - 1 /\ i + 1 = H /\ i \in 0..H /\ i >= h /\ i < H
      BY <1>h, <2>3
    <3>2. acc2[i] = A[u - 1] /\ acc2[i + 1] = 0 /\ cnt2[i] = L /\ cnt2[i + 1] = L + 1
      BY <1>6, <1>7, <3>1
    <3>3. ~New(i).null /\ New(i).EOP /\ A[u - 1] + New(i).length = total
      BY <1>3, <3>1
    <3> QED
      BY <1>2, <3>2, <3>3 DEF Reading
  <2> QED
    BY <1>h, <2>1, <2>2, <2>3
<1>10. Reads(ring2, H, due2, c, acc2, cnt2)
  BY <1>2, <1>4, <1>7, <1>8, <1>9 DEF Reads, New
<1>11. acc2[0] = acc[0] /\ cnt2[0] = cnt[0]
  BY <1>5
<1> QED
  BY <1>10, <1>11 DEF due2, H

(* The frames due may be counted from another one.                         *)
LEMMA ReadingShift ==
    ASSUME NEW desc, NEW due, NEW due2, NEW a1, NEW a2, NEW n1 \in Int, NEW n2 \in Int,
           NEW e \in Int, Reading(desc, due, a1, n1, a2, n2),
           n2 = n1 + 1 => due2[n2 - e] = due[n2]
    PROVE  Reading(desc, due2, a1, n1 - e, a2, n2 - e)
<1>1. CASE desc.null
  BY <1>1 DEF Reading
<1>2. CASE ~desc.null /\ desc.EOP
  <2>1. n2 = n1 + 1 /\ a2 = 0 /\ a1 + desc.length = due[n2]
    BY <1>2 DEF Reading
  <2>2. n2 - e = n1 - e + 1
    BY <2>1
  <2> QED
    BY <1>2, <2>1, <2>2 DEF Reading
<1>3. CASE ~desc.null /\ ~desc.EOP
  BY <1>3 DEF Reading
<1> QED
  BY <1>1, <1>2, <1>3

(* Only the descriptors that are done are read.                            *)
LEMMA ReadsKept ==
    ASSUME NEW ring, NEW ring2, NEW h, NEW due, NEW c, NEW acc, NEW cnt,
           Reads(ring, h, due, c, acc, cnt),
           \A i \in 0..(h - 1) : ring2[At(c, i)] = ring[At(c, i)]
    PROVE  Reads(ring2, h, due, c, acc, cnt)
BY Zenon DEF Reads

(* Clean looks at descriptor desc with a bytes in hand: whether the frame  *)
(* ends, what the driver has got then, and which frames are due after.     *)
Taking(desc, a, due, ends, got, due2) ==
    /\ ends <=> desc.EOP /\ ~desc.null
    /\ got = IF desc.null THEN a ELSE a + desc.length
    /\ due2 = IF ends /\ due # <<>> THEN Tail(due) ELSE due

(* The rings differ at index c alone.                                      *)
OnlyAt(ring, ring2, c) == \A k \in Indexes : k # c => ring2[k] = ring[k]

(* The driver takes the first of h descriptors that are done, and what it  *)
(* then has in hand and will have put together.                            *)
Advancing(ring, ring2, h, due, c, acc, cnt, ends, got, due2) ==
    /\ h \in Nat /\ h > 0 /\ h < N /\ c \in Indexes /\ due \in Seq(Nat)
    /\ Reads(ring, h, due, c, acc, cnt) /\ cnt[0] = 0
    /\ OnlyAt(ring, ring2, c)
    /\ Taking(ring[c], acc[0], due, ends, got, due2)
Advanced(ring2, h, due, c, ends, got, due2) ==
    /\ ends => due # <<>> /\ got = Head(due)
    /\ \E acc2, cnt2 : /\ Reads(ring2, h - 1, due2, At(c, 1), acc2, cnt2)
                       /\ acc2[0] = (IF ends THEN 0 ELSE got) /\ cnt2[0] = 0

(* The driver takes the first descriptor that is done.                     *)
LEMMA ReadsAdvanced ==
    ASSUME NEW ring, NEW ring2, NEW h, NEW due, NEW c, NEW acc, NEW cnt,
           NEW ends, NEW got, NEW due2,
           Advancing(ring, ring2, h, due, c, acc, cnt, ends, got, due2)
    PROVE  Advanced(ring2, h, due, c, ends, got, due2)
<1> DEFINE p2 == IF ends THEN 0 ELSE got
<1> SUFFICES ASSUME h \in Nat, h > 0, h < N, c \in Indexes, due \in Seq(Nat),
                    Reads(ring, h, due, c, acc, cnt), cnt[0] = 0,
                    OnlyAt(ring, ring2, c), Taking(ring[c], acc[0], due, ends, got, due2)
             PROVE  /\ ends => due # <<>> /\ got = Head(due)
                    /\ \E acc2, cnt2 : /\ Reads(ring2, h - 1, due2, At(c, 1), acc2, cnt2)
                                       /\ acc2[0] = p2 /\ cnt2[0] = 0
  BY DEF Advancing, Advanced
<1> DEFINE L == Len(due)
           e == IF ends THEN 1 ELSE 0
           acc2 == [i \in 0..(h - 1) |-> acc[i + 1]]
           cnt2 == [i \in 0..(h - 1) |-> cnt[i + 1] - e]
           c2 == At(c, 1)
           desc == ring[c]
           Old(i) == ring[At(c, i)]
           New(i) == ring2[At(c2, i)]
<1>t. /\ ends <=> desc.EOP /\ ~desc.null
      /\ got = IF desc.null THEN acc[0] ELSE acc[0] + desc.length
      /\ due2 = IF ends /\ due # <<>> THEN Tail(due) ELSE due
  BY DEF Taking
<1>0. N \in Nat /\ N > 1
  BY RxAssumption
<1>1. /\ acc \in [0..h -> Nat] /\ cnt \in [0..h -> 0..L]
      /\ \A i, j \in 0..h : i <= j => cnt[i] <= cnt[j]
      /\ acc[h] = 0 /\ cnt[h] = L
      /\ \A i \in 0..(h - 1) : Reading(Old(i), due, acc[i], cnt[i], acc[i + 1], cnt[i + 1])
  BY DEF Reads
<1>2. Old(0) = desc
  <2>1. At(c, 0) = c
    <3>1. At(c, 0) = IF c + 0 < N THEN c + 0 ELSE c + 0 - N
      BY <1>0, AtIs
    <3> QED
      BY <1>0, <3>1 DEF Indexes
  <2> QED
    BY <2>1
<1>3. \A i \in 0..(h - 2) : New(i) = Old(i + 1)
  <2> SUFFICES ASSUME NEW i \in 0..(h - 2) PROVE New(i) = Old(i + 1)
    OBVIOUS
  <2>1. 1 \in 0..N /\ i \in 0..N /\ i + 1 \in 0..N /\ i + 1 < N /\ i + 1 > 0
    BY <1>0
  <2>2. c2 \in Indexes /\ c2 = IF c + 1 < N THEN c + 1 ELSE c + 1 - N
    BY <2>1, AtIs
  <2>3. At(c2, i) = IF c2 + i < N THEN c2 + i ELSE c2 + i - N
    BY <2>1, <2>2, AtIs
  <2>4. At(c, i + 1) = (IF c + (i + 1) < N THEN c + (i + 1) ELSE c + (i + 1) - N)
        /\ At(c, i + 1) \in Indexes
    BY <2>1, AtIs
  <2> HIDE DEF c2
  <2>5. At(c2, i) = At(c, i + 1) /\ At(c, i + 1) # c
    BY <1>0, <2>1, <2>2, <2>3, <2>4 DEF Indexes
  <2> QED
    BY <2>4, <2>5 DEF OnlyAt
<1>4. L \in Nat
  OBVIOUS
<1> HIDE DEF Old, New, c2, desc
<1>5. 0 \in 0..(h - 1) /\ 0 + 1 = 1 /\ 1 \in 0..h /\ 0 \in 0..h /\ h \in 0..h
  OBVIOUS
<1>6. /\ desc.null => acc[1] = acc[0] /\ cnt[1] = 0
      /\ ends => cnt[1] = 1 /\ acc[1] = 0 /\ got = due[1]
      /\ ~desc.null /\ ~ends => acc[1] = acc[0] + desc.length /\ cnt[1] = 0
  <2>1. Reading(desc, due, acc[0], cnt[0], acc[0 + 1], cnt[0 + 1])
    BY <1>1, <1>2, <1>5
  <2>2. Reading(desc, due, acc[0], 0, acc[1], cnt[1])
    BY <1>5, <2>1
  <2> QED
    BY <1>t, <2>2 DEF Reading
<1>7. ends => L > 0 /\ due # <<>> /\ got = Head(due)
  <2>1. cnt[1] \in 0..L
    BY <1>1, <1>5
  <2>2. ends => L > 0
    BY <1>4, <1>6, <2>1
  <2>3. L > 0 => due # <<>>
    OBVIOUS
  <2>4. due # <<>> => Head(due) = due[1]
    OBVIOUS
  <2> HIDE DEF L
  <2> QED
    BY <1>6, <2>2, <2>3, <2>4
<1>8. due2 = IF ends THEN Tail(due) ELSE due
  BY <1>7, <1>t
<1>9. Len(due2) = L - e /\ \A n \in 1..(L - e) : due2[n] = due[n + e]
  <2>1. CASE ends
    <3>1. due # <<>> /\ due2 = Tail(due) /\ e = 1
      BY <1>7, <1>8, <2>1
    <3> HIDE DEF e
    <3> QED
      BY <1>4, <3>1
  <2>2. CASE ~ends
    <3>1. due2 = due /\ e = 0
      BY <1>8, <2>2
    <3> HIDE DEF e
    <3> QED
      BY <1>4, <3>1
  <2> QED
    BY <2>1, <2>2
<1>10. e \in {0, 1} /\ cnt[1] = e
  BY <1>6
<1>11. acc[1] = IF ends THEN 0 ELSE got
  BY <1>6, <1>t
<1> HIDE DEF L, e
<1>12. \A i \in 1..h : cnt[i] \in e..L
  <2> SUFFICES ASSUME NEW i \in 1..h PROVE cnt[i] \in e..L
    OBVIOUS
  <2>1. i \in 0..h /\ 1 <= i
    OBVIOUS
  <2>2. cnt[i] \in 0..L /\ cnt[1] <= cnt[i]
    BY <1>1, <1>5, <2>1
  <2> QED
    BY <1>4, <1>10, <2>2
<1>13. acc2 \in [0..(h - 1) -> Nat] /\ cnt2 \in [0..(h - 1) -> 0..(L - e)]
  <2>1. \A i \in 0..(h - 1) : i + 1 \in 0..h /\ i + 1 \in 1..h
    OBVIOUS
  <2>2. \A i \in 0..(h - 1) : acc[i + 1] \in Nat /\ cnt[i + 1] - e \in 0..(L - e)
    <3> SUFFICES ASSUME NEW i \in 0..(h - 1)
                 PROVE  acc[i + 1] \in Nat /\ cnt[i + 1] - e \in 0..(L - e)
      OBVIOUS
    <3>1. cnt[i + 1] \in e..L /\ acc[i + 1] \in Nat
      BY <1>1, <1>12, <2>1
    <3> QED
      BY <1>4, <1>10, <3>1
  <2> QED
    BY <2>2
<1>14. \A i \in 0..(h - 1) : acc2[i] = acc[i + 1] /\ cnt2[i] = cnt[i + 1] - e
  OBVIOUS
<1> HIDE DEF acc2, cnt2
<1>15. \A i, j \in 0..(h - 1) : i <= j => cnt2[i] <= cnt2[j]
  <2> SUFFICES ASSUME NEW i \in 0..(h - 1), NEW j \in 0..(h - 1), i <= j
               PROVE  cnt2[i] <= cnt2[j]
    OBVIOUS
  <2>1. i + 1 \in 0..h /\ j + 1 \in 0..h /\ i + 1 <= j + 1
    OBVIOUS
  <2>2. cnt[i + 1] <= cnt[j + 1] /\ cnt[i + 1] \in 0..L /\ cnt[j + 1] \in 0..L
    BY <1>1, <2>1
  <2> QED
    BY <1>4, <1>10, <1>14, <2>2
<1>16. ASSUME NEW i \in 0..(h - 1 - 1)
       PROVE  Reading(New(i), due2, acc2[i], cnt2[i], acc2[i + 1], cnt2[i + 1])
  <2>1. /\ i \in 0..(h - 2) /\ i \in 0..(h - 1) /\ i + 1 \in 0..(h - 1)
        /\ i + 1 \in 1..h /\ i + 1 + 1 \in 1..h
    OBVIOUS
  <2>2. /\ acc2[i] = acc[i + 1] /\ acc2[i + 1] = acc[i + 1 + 1]
        /\ cnt2[i] = cnt[i + 1] - e /\ cnt2[i + 1] = cnt[i + 1 + 1] - e
        /\ New(i) = Old(i + 1)
    BY <1>3, <1>14, <2>1
  <2>3. cnt[i + 1] \in e..L /\ cnt[i + 1 + 1] \in e..L
    BY <1>12, <2>1
  <2>4. Reading(New(i), due, acc[i + 1], cnt[i + 1], acc[i + 1 + 1], cnt[i + 1 + 1])
    BY <1>1, <2>1, <2>2
  <2>5. ASSUME cnt[i + 1 + 1] = cnt[i + 1] + 1
        PROVE  due2[cnt2[i + 1]] = due[cnt[i + 1 + 1]]
    <3>1. cnt2[i + 1] \in 1..(L - e) /\ cnt2[i + 1] + e = cnt[i + 1 + 1]
      <4> DEFINE x == cnt[i + 1]
                 y == cnt[i + 1 + 1]
      <4>1. x \in e..L /\ y \in e..L /\ y = x + 1 /\ cnt2[i + 1] = y - e
        BY <2>2, <2>3, <2>5
      <4> HIDE DEF x, y
      <4> QED
        BY <1>4, <1>10, <4>1 DEF y
    <3> QED
      BY <1>9, <3>1
  <2> DEFINE a1 == acc[i + 1]
             n1 == cnt[i + 1]
             a2 == acc[i + 1 + 1]
             n2 == cnt[i + 1 + 1]
  <2>6. /\ Reading(New(i), due, a1, n1, a2, n2) /\ n1 \in Int /\ n2 \in Int
        /\ n2 = n1 + 1 => due2[n2 - e] = due[n2]
    <3>1. n1 \in Int /\ n2 \in Int
      BY <1>4, <1>10, <2>3
    <3>2. n2 = n1 + 1 => due2[n2 - e] = due[n2]
      BY <2>2, <2>5
    <3> QED
      BY <2>4, <3>1, <3>2
  <2> HIDE DEF a1, n1, a2, n2
  <2>7. Reading(New(i), due2, a1, n1 - e, a2, n2 - e)
    <3>1. e \in Int
      BY <1>10
    <3> QED
      BY <2>6, <3>1, ReadingShift
  <2> QED
    BY <2>2, <2>7 DEF a1, n1, a2, n2
<1>17. acc2[h - 1] = 0 /\ cnt2[h - 1] = L - e
  <2>1. h - 1 \in 0..(h - 1) /\ h - 1 + 1 = h
    OBVIOUS
  <2> QED
    BY <1>1, <1>14, <2>1
<1>18. Reads(ring2, h - 1, due2, c2, acc2, cnt2)
  BY <1>9, <1>13, <1>15, <1>16, <1>17 DEF Reads, New
<1>19. acc2[0] = p2 /\ cnt2[0] = 0
  BY <1>5, <1>10, <1>11, <1>14
<1> QED
  BY <1>7, <1>18, <1>19 DEF c2

-----------------------------------------------------------------------------
(* The device                                                              *)

(* e has the ring and the receive registers of d; e has its statistics.    *)
SameRing(d, e) ==
    /\ e.RCTL = d.RCTL /\ e.VME = d.VME /\ e.rxbuf_size = d.rxbuf_size
    /\ e.RDH = d.RDH /\ e.RDT = d.RDT /\ e.ring = d.ring
    /\ e.due = d.due /\ e.overrun = d.overrun /\ e.within = d.within
SameCount(d, e) ==
    /\ e.GPRC = d.GPRC /\ e.TPR = d.TPR /\ e.TORL = d.TORL /\ e.TORH = d.TORH
    /\ e.count = d.count

(* The link is apart from the ring.                                        *)
LEMMA WithLink ==
    ASSUME NEW d, Typed(d), NEW l, Linked(l)
    PROVE  LET e == [d EXCEPT !.link = l]
           IN  Typed(e) /\ e.link = l /\ SameRing(d, e) /\ SameCount(d, e)
<1> DEFINE e == [d EXCEPT !.link = l]
<1>1. d \in RxState /\ l \in LinkState
  BY DEF Typed, Linked
<1>2. e \in RxState
  BY <1>1 DEF RxState
<1>3. e.link = l /\ SameRing(d, e) /\ SameCount(d, e)
  BY <1>1 DEF RxState, SameRing, SameCount
<1>4. d.RCTL.EN => d.rxbuf_size > 0
  BY DEF Typed
<1> HIDE DEF e
<1>5. e.RCTL.EN => e.rxbuf_size > 0
  BY <1>3, <1>4 DEF SameRing
<1> QED
  BY <1>2, <1>3, <1>5 DEF Typed, e

(* A cause raised by the receive path.                                     *)
LEMMA SetIcsRx ==
    ASSUME NEW d, Typed(d), NEW val \in SUBSET Causes
    PROVE  LET e == set_ics_rx(d, val)
           IN  /\ Typed(e) /\ SameRing(d, e) /\ SameCount(d, e)
               /\ e.link.irq.ICR = val \cup d.link.irq.ICR
               /\ e.link.LU = d.link.LU
<1> DEFINE i == set_ics(d.link.irq, val)
           l == [d.link EXCEPT !.irq = i]
           e == [d EXCEPT !.link = l]
<1>1. d \in RxState /\ d.link \in LinkState /\ Linked(d.link)
  BY DEF Typed, Linked
<1>2. d.link.irq \in IrqState
  BY <1>1 DEF LinkState
<1>3. i \in IrqState /\ i.ICR = val \cup d.link.irq.ICR
  BY <1>2, IcsStored
<1>4. set_ics_rx(d, val) = e
  BY <1>1 DEF set_ics_rx
<1> HIDE DEF i
<1>5. Linked(l)
  BY <1>1, <1>3, IrqLinked
<1>6. l.irq = i /\ l.LU = d.link.LU
  BY <1>1 DEF LinkState
<1> HIDE DEF l
<1>7. Typed(e) /\ e.link = l /\ SameRing(d, e) /\ SameCount(d, e)
  BY <1>5, WithLink
<1> HIDE DEF e
<1> QED
  BY <1>3, <1>4, <1>6, <1>7

(* The invariant looks at the ring, the statistics and the receive cause.  *)
LEMMA SameReceived ==
    ASSUME NEW d, NEW e, NEW c, NEW p, NEW pol, NEW w, Received(d, c, p, pol, w),
           Typed(e), SameRing(d, e), SameCount(d, e),
           "RXT0" \in d.link.irq.ICR => "RXT0" \in e.link.irq.ICR
    PROVE  Received(e, c, p, pol, w)
<1>1. Counted(e)
  BY DEF Received, Counted, SameCount
<1>2. ASSUME ~e.overrun
      PROVE  /\ Placed(e.ring, e.RDH, e.RDT, c) /\ Accepted(e.ring, e.RDH, e.due, c, p)
             /\ Told(e.link.irq.ICR, e.RDH, c, pol) /\ w
  BY <1>2 DEF Received, SameRing, Told
<1> QED
  BY <1>1, <1>2 DEF Received, SameRing

(* The statistics of one frame more.                                       *)
LEMMA CountOne ==
    ASSUME NEW d, d \in RxState, NEW size \in Nat, size + 4 < 2 ^ W
    PROVE  LET e == CountReceived(d, size)
           IN  /\ e \in RxState /\ e.link = d.link /\ e.count = d.count /\ SameRing(d, e)
               /\ Counted(d) =>
                    /\ e.GPRC = (d.count.frames + 1) % 2 ^ W /\ e.TPR = e.GPRC
                    /\ e.TORH * 2 ^ W + e.TORL
                         = (d.count.octets - d.count.tags + size + 4) % (2 ^ W * 2 ^ W)
<1> DEFINE m == 2 ^ W
           e == CountReceived(d, size)
           n == (d.TORL + size + 4) % m
           hi == IF n < d.TORL THEN (d.TORH + 1) % m ELSE d.TORH
<1>1. m \in Nat /\ m > 0 /\ 2 ^ W = m
  BY RxAssumption
<1>2. e = [d EXCEPT !.GPRC = (d.GPRC + 1) % m, !.TPR = (d.TPR + 1) % m, !.TORL = n, !.TORH = hi]
  BY DEF CountReceived
<1>3. /\ d.GPRC \in 0..(m - 1) /\ d.TPR \in 0..(m - 1)
      /\ d.TORL \in 0..(m - 1) /\ d.TORH \in 0..(m - 1)
      /\ d.count.frames \in Nat /\ d.count.octets \in Nat /\ d.count.tags \in Nat
  BY DEF RxState, Count, Words
<1>4. Words = 0..(m - 1) /\ size + 4 \in 0..(m - 1)
  BY <1>1 DEF Words
<1> HIDE DEF m
<1>5. \A x \in Nat : x % m \in 0..(m - 1)
  BY <1>1
<1>6. (d.GPRC + 1) % m \in Words /\ (d.TPR + 1) % m \in Words /\ n \in Words
  <2>1. d.GPRC + 1 \in Nat /\ d.TPR + 1 \in Nat /\ d.TORL + size + 4 \in Nat
    BY <1>1, <1>3
  <2> QED
    BY <1>4, <1>5, <2>1
<1>7. hi \in Words
  <2>1. (d.TORH + 1) % m \in Words /\ d.TORH \in Words
    BY <1>1, <1>3, <1>4, <1>5
  <2> QED
    BY <2>1
<1>8. n = (d.TORL + (size + 4)) % m
  <2>1. d.TORL + size + 4 = d.TORL + (size + 4)
    BY <1>1, <1>3
  <2> QED
    BY <2>1
<1> HIDE DEF n, hi, e
<1>9. e \in RxState
  BY <1>2, <1>6, <1>7 DEF RxState
<1>10. /\ e.link = d.link /\ e.count = d.count /\ SameRing(d, e)
       /\ e.GPRC = (d.GPRC + 1) % m /\ e.TPR = (d.TPR + 1) % m /\ e.TORL = n /\ e.TORH = hi
  BY <1>2 DEF RxState, SameRing
<1> DEFINE tally == d.count.octets - d.count.tags
<1>11. ASSUME Counted(d)
       PROVE  /\ e.GPRC = (d.count.frames + 1) % m /\ e.TPR = e.GPRC
              /\ e.TORH * m + e.TORL = (tally + size + 4) % (m * m)
  <2>1. /\ d.GPRC = d.count.frames % m /\ d.TPR = d.GPRC
        /\ d.TORH * m + d.TORL = tally % (m * m) /\ d.count.tags <= d.count.octets
    BY <1>11 DEF Counted, m
  <2>0. tally \in Nat
    BY <1>3, <2>1
  <2> HIDE DEF tally
  <2>2. (d.count.frames + 1) % m = (d.GPRC + 1) % m
    <3> DEFINE x0 == d.count.frames
    <3>1. x0 \in Nat /\ 1 \in Nat /\ d.GPRC = x0 % m
      BY <1>3, <2>1
    <3> HIDE DEF x0
    <3>2. (x0 + 1) % m = ((x0 % m) + 1) % m
      BY <1>1, <3>1, RemainderPlus
    <3> QED
      BY <3>1, <3>2 DEF x0
  <2>3. tally + (size + 4) = tally + size + 4
    BY <2>0
  <2>4. hi * m + n = (tally + (size + 4)) % (m * m)
    <3> DEFINE lo0 == d.TORL
               hi0 == d.TORH
               x0 == tally
               a0 == size + 4
    <3>1. /\ lo0 \in 0..(m - 1) /\ hi0 \in 0..(m - 1) /\ x0 \in Nat /\ a0 \in 0..(m - 1)
          /\ hi0 * m + lo0 = x0 % (m * m)
      BY <1>3, <1>4, <2>0, <2>1
    <3>2. n = (lo0 + a0) % m /\ hi = (IF n < lo0 THEN (hi0 + 1) % m ELSE hi0)
      BY <1>8 DEF hi
    <3> HIDE DEF lo0, hi0, x0, a0
    <3>3. Adding(m, lo0, hi0, a0, x0, n)
      BY <1>1, <3>1, <3>2, Zenon DEF Adding
    <3>4. Carried(m, lo0, hi0, a0, x0, n)
      BY <3>3, Carry
    <3>5. hi * m + n = (x0 + a0) % (m * m)
      BY <3>2, <3>4, Zenon DEF Carried
    <3> QED
      BY <3>5 DEF x0, a0
  <2> QED
    BY <1>10, <2>1, <2>2, <2>3, <2>4
<1> QED
  BY <1>9, <1>10, <1>11 DEF m, e

(* Distances from one index, seen from another.                            *)
LEMMA DistFrom ==
    ASSUME NEW k \in Indexes, NEW r \in Indexes, NEW c \in Indexes
    PROVE  Dist(k, r) = IF Dist(k, c) < Dist(r, c) THEN N + Dist(k, c) - Dist(r, c)
                        ELSE Dist(k, c) - Dist(r, c)
<1>0. N \in Nat /\ N > 1
  BY RxAssumption
<1>1. /\ Dist(k, r) = IF k < r THEN k + N - r ELSE k - r
      /\ Dist(k, c) = IF k < c THEN k + N - c ELSE k - c
      /\ Dist(r, c) = IF r < c THEN r + N - c ELSE r - c
  BY DistIs
<1> QED
  BY <1>0, <1>1 DEF Indexes

(* Going on from an index that is not past the end of what c sees.         *)
LEMMA AtFrom ==
    ASSUME NEW r \in Indexes, NEW c \in Indexes, NEW j \in 0..N, Dist(r, c) + j < N
    PROVE  /\ At(c, Dist(r, c) + j) = At(r, j) /\ At(r, j) \in Indexes
           /\ Dist(At(r, j), c) = Dist(r, c) + j
<1>0. N \in Nat /\ N > 1
  BY RxAssumption
<1> DEFINE h == Dist(r, c)
<1>1. h = (IF r < c THEN r + N - c ELSE r - c) /\ h \in Indexes
  BY DistIs
<1>2. h + j \in 0..N /\ h + j \in Indexes /\ h + j < N
  BY <1>0, <1>1 DEF Indexes
<1>3. At(r, j) = (IF r + j < N THEN r + j ELSE r + j - N) /\ At(r, j) \in Indexes
  BY AtIs
<1> HIDE DEF h
<1>4. At(c, h + j) = IF c + (h + j) < N THEN c + (h + j) ELSE c + (h + j) - N
  BY <1>2, AtIs
<1>5. At(c, h + j) = At(r, j)
  BY <1>0, <1>1, <1>2, <1>3, <1>4 DEF Indexes
<1>6. Dist(At(c, h + j), c) = h + j
  BY <1>2, DistAt
<1> QED
  BY <1>3, <1>5, <1>6 DEF h

(* The ring as the loop leaves it after u descriptors.                     *)
StoredRing(d, total, u) ==
    [k \in Indexes |-> IF Dist(k, d.RDH) < u THEN WriteBack(d, total, Dist(k, d.RDH))
                       ELSE d.ring[k]]

(* What the loop writes to a descriptor.                                   *)
LEMMA WriteBackIs ==
    ASSUME NEW d, d \in RxState, d.rxbuf_size > 0, NEW total \in Nat, NEW j \in 0..(N - 1),
           NEW left, left = total - Filled(d, j) * d.rxbuf_size, left \in Nat,
           NEW old, old = d.ring[At(d.RDH, j)]
    PROVE  LET new == WriteBack(d, total, j)
           IN  /\ new \in Desc /\ new.DD /\ new.null = old.null
               /\ ~old.null => /\ new.EOP <=> left <= d.rxbuf_size
                               /\ left <= d.rxbuf_size => new.length = left
                               /\ left > d.rxbuf_size => new.length = d.rxbuf_size
<1> DEFINE new == WriteBack(d, total, j)
           z == d.rxbuf_size
<1>0. N \in Nat /\ N > 1 /\ d.RDH \in Indexes /\ z \in Nat
  BY RxAssumption DEF RxState
<1>1. At(d.RDH, j) \in Indexes
  BY <1>0, AtIs
<1>2. old \in Desc
  BY <1>1 DEF RxState
<1>3. new = IF old.null THEN [old EXCEPT !.DD = TRUE]
            ELSE [old EXCEPT !.DD = TRUE, !.length = IF left > z THEN z ELSE left,
                             !.EOP = (left <= z)]
  BY DEF WriteBack, Slot, At
<1> HIDE DEF new, z
<1>4. CASE old.null
  BY <1>2, <1>3, <1>4 DEF Desc, new
<1>5. CASE ~old.null
  <2> DEFINE len == IF left > z THEN z ELSE left
             eop == left <= z
  <2>1. len \in Nat /\ eop \in BOOLEAN /\ (left <= z => len = left) /\ (left > z => len = z)
    BY <1>0
  <2>2. new = [old EXCEPT !.DD = TRUE, !.length = len, !.EOP = eop]
    BY <1>3, <1>5
  <2> HIDE DEF len
  <2>3. (eop <=> left <= z)
    OBVIOUS
  <2> HIDE DEF eop
  <2>4. new \in Desc /\ new.DD /\ new.null = old.null /\ new.length = len /\ new.EOP = eop
    BY <1>2, <2>1, <2>2 DEF Desc
  <2> QED
    BY <1>5, <2>1, <2>3, <2>4 DEF z, new
<1> QED
  BY <1>4, <1>5

(* A frame is stored, or the head has come back where it was.              *)
LEMMA StoreIs ==
    ASSUME NEW d, Typed(d), d.RCTL.EN, NEW size \in Nat, size > 0, size + 4 < 2 ^ W,
           NEW size0 \in Nat, size <= size0,
           NEW total, total = size + fcs_len(d), e1000_has_rxbufs(d, total)
    PROVE  LET u == Used(d, total)
               e == Store(d, size0, size)
           IN  /\ Typed(e) /\ e.RCTL = d.RCTL /\ e.link.LU = d.link.LU
               /\ e.RDT = d.RDT /\ e.RDH = At(d.RDH, u) /\ e.ring = StoredRing(d, total, u)
               /\ e.overrun <=> d.overrun \/ u > Dist(d.RDT, d.RDH)
               /\ e.within <=> d.within /\ Filled(d, u) <= Dist(d.RDT, d.RDH)
               /\ Counted(d) => Counted(e)
               /\ u # N => e.due = Append(d.due, total) /\ "RXT0" \in e.link.irq.ICR
<1> DEFINE u == Used(d, total)
           e == Store(d, size0, size)
           ov == d.overrun \/ u > Dist(d.RDT, d.RDH)
           wi == d.within /\ Filled(d, u) <= Dist(d.RDT, d.RDH)
           t == [d EXCEPT !.RDH = At(d.RDH, u), !.ring = StoredRing(d, total, u), !.overrun = ov,
                          !.within = wi]
<1>0. N \in Nat /\ N > 1
  BY RxAssumption
<1>1. d \in RxState /\ d.rxbuf_size > 0 /\ d.rxbuf_size \in Nat /\ d.RDH \in Indexes
  BY DEF Typed, RxState
<1>2. total \in Nat /\ total > 0
  BY DEF fcs_len
<1>3. Needed(d, total) \in Nat
  BY <1>1, <1>2, Enough
<1>4. u \in 1..N
  BY <1>1, <1>2, <1>3, UsedIs
<1>5. At(d.RDH, u) \in Indexes
  BY <1>0, <1>1, <1>4, AtIs
<1>6. StoredRing(d, total, u) \in [Indexes -> Desc]
  <2> SUFFICES ASSUME NEW k \in Indexes, Dist(k, d.RDH) < u
               PROVE  WriteBack(d, total, Dist(k, d.RDH)) \in Desc
    BY <1>1 DEF StoredRing, RxState
  <2> DEFINE j == Dist(k, d.RDH)
  <2>1. j \in Indexes
    BY <1>1, DistIs
  <2> HIDE DEF j
  <2>2. j \in 0..(u - 1) /\ j \in 0..(N - 1)
    BY <1>0, <1>4, <2>1 DEF Indexes, j
  <2>3. Filled(d, j) \in Nat /\ total - Filled(d, j) * d.rxbuf_size > 0
    BY <1>1, <1>2, <2>2, LeftOver
  <2> DEFINE left == total - Filled(d, j) * d.rxbuf_size
  <2>4. left \in Nat
    <3>1. left > 0 /\ Filled(d, j) * d.rxbuf_size \in Int
      BY <1>1, <2>3
    <3> QED
      BY <1>2, <3>1
  <2>5. WriteBack(d, total, j) \in Desc
    BY <1>1, <1>2, <2>2, <2>4, WriteBackIs
  <2> QED
    BY <2>5 DEF j
<1>7. t \in RxState
  <2>1. ov \in BOOLEAN /\ wi \in BOOLEAN
    BY <1>1 DEF RxState
  <2> HIDE DEF ov, wi
  <2> QED
    BY <1>1, <1>5, <1>6, <2>1 DEF RxState
<1>8. /\ t.RDH = At(d.RDH, u) /\ t.ring = StoredRing(d, total, u)
      /\ (t.overrun <=> ov) /\ (t.within <=> wi)
      /\ t.link = d.link /\ t.RCTL = d.RCTL /\ t.rxbuf_size = d.rxbuf_size
      /\ t.RDT = d.RDT /\ t.due = d.due /\ t.count = d.count /\ SameCount(d, t)
      /\ t.rxbuf_min_shift = d.rxbuf_min_shift
  BY <1>1 DEF RxState, SameCount
<1>9. e = IF u = N THEN set_ics_rx(t, {"RXO"})
          ELSE [set_ics_rx(CountReceived(t, size), RxCauses(t)) EXCEPT
                 !.due = Append(@, total),
                 !.count = [frames |-> @.frames + 1, octets |-> @.octets + size0 + 4,
                            tags |-> @.tags + (size0 - size)]]
  BY ZenonT(60) DEF Store, StoredRing, Dist, At, Slot, Indexes
<1> HIDE DEF t, e, ov, wi
<1>10. Typed(t) /\ (Counted(d) => Counted(t))
  BY <1>7, <1>8 DEF Typed, SameCount, Counted
<1>11. {"RXO"} \in SUBSET Causes /\ RxCauses(t) \in SUBSET Causes /\ "RXT0" \in RxCauses(t)
  BY RxAssumption DEF RxCauses
<1>12. CASE u = N
  <2>1. e = set_ics_rx(t, {"RXO"})
    BY <1>9, <1>12
  <2>2. Typed(e) /\ SameRing(t, e) /\ SameCount(t, e) /\ e.link.LU = t.link.LU
    BY <1>10, <1>11, <2>1, SetIcsRx
  <2>3. Counted(t) => Counted(e)
    BY <2>2 DEF Counted, SameCount
  <2> QED
    BY <1>8, <1>10, <1>12, <2>2, <2>3 DEF SameRing, e, ov, wi
<1>13. CASE u # N
  <2> DEFINE v == CountReceived(t, size)
             x == set_ics_rx(v, RxCauses(t))
             cn == [frames |-> t.count.frames + 1, octets |-> t.count.octets + size0 + 4,
                    tags |-> t.count.tags + (size0 - size)]
  <2>1. /\ v \in RxState /\ v.link = t.link /\ v.count = t.count /\ SameRing(t, v)
        /\ Counted(t) =>
             /\ v.GPRC = (t.count.frames + 1) % 2 ^ W /\ v.TPR = v.GPRC
             /\ v.TORH * 2 ^ W + v.TORL
                  = (t.count.octets - t.count.tags + size + 4) % (2 ^ W * 2 ^ W)
    BY <1>7, CountOne
  <2>2. e = [x EXCEPT !.due = Append(@, total),
                      !.count = [frames |-> @.frames + 1, octets |-> @.octets + size0 + 4,
                            tags |-> @.tags + (size0 - size)]]
    BY <1>9, <1>13
  <2> HIDE DEF v
  <2>3. Typed(v)
    BY <1>10, <2>1 DEF Typed, SameRing
  <2>4. /\ Typed(x) /\ SameRing(v, x) /\ SameCount(v, x) /\ x.link.LU = v.link.LU
        /\ "RXT0" \in x.link.irq.ICR
    BY <1>11, <2>3, SetIcsRx
  <2> HIDE DEF x
  <2>5. e = [x EXCEPT !.due = Append(t.due, total), !.count = cn]
    <3>1. x.due = t.due /\ x.count = t.count
      BY <2>1, <2>4 DEF SameRing, SameCount
    <3> QED
      BY <2>2, <3>1
  <2>6. cn \in Count /\ Append(t.due, total) \in Seq(Nat)
    <3>1. /\ t.due \in Seq(Nat)
          /\ t.count.frames \in Nat /\ t.count.octets \in Nat /\ t.count.tags \in Nat
      BY <1>7 DEF RxState, Count
    <3>2. size0 - size \in Nat
      OBVIOUS
    <3>4. /\ t.count.frames + 1 \in Nat /\ t.count.octets + size0 + 4 \in Nat
          /\ t.count.tags + (size0 - size) \in Nat
      <4> DEFINE fr == t.count.frames
                 oc == t.count.octets
                 tg == t.count.tags
      <4>1. fr \in Nat /\ oc \in Nat /\ tg \in Nat
        BY <3>1
      <4> HIDE DEF fr, oc, tg
      <4>2. fr + 1 \in Nat /\ oc + size0 + 4 \in Nat
        BY <4>1
      <4>3. tg + (size0 - size) \in Nat
        BY <3>2, <4>1
      <4> QED
        BY <4>2, <4>3 DEF fr, oc, tg
    <3>3. cn \in Count
      BY <3>4, Zenon DEF Count
    <3> QED
      BY <1>2, <3>1, <3>3
  <2>7. /\ cn.frames = t.count.frames + 1
        /\ t.count.tags <= t.count.octets =>
             /\ cn.tags <= cn.octets
             /\ cn.octets - cn.tags = t.count.octets - t.count.tags + size + 4
    <3>1. /\ cn.frames = t.count.frames + 1 /\ cn.octets = t.count.octets + size0 + 4
          /\ cn.tags = t.count.tags + (size0 - size)
          /\ t.count.octets \in Nat /\ t.count.tags \in Nat
      BY <1>7 DEF RxState, Count
    <3> HIDE DEF cn
    <3> QED
      BY <3>1
  <2> HIDE DEF cn
  <2>8. x \in RxState
    BY <2>4 DEF Typed
  <2>9. e \in RxState
    BY <2>5, <2>6, <2>8 DEF RxState
  <2>10. /\ e.due = Append(t.due, total) /\ e.count = cn /\ e.link = x.link
         /\ e.RCTL = x.RCTL /\ e.rxbuf_size = x.rxbuf_size /\ e.RDH = x.RDH /\ e.RDT = x.RDT
         /\ e.ring = x.ring /\ e.overrun = x.overrun /\ e.within = x.within /\ e.GPRC = x.GPRC /\ e.TPR = x.TPR
         /\ e.TORL = x.TORL /\ e.TORH = x.TORH
    BY <2>5, <2>8 DEF RxState
  <2>11. Typed(e)
    BY <2>4, <2>9, <2>10 DEF Typed
  <2>12. Counted(d) => Counted(e)
    BY <1>10, <2>1, <2>4, <2>7, <2>10 DEF Counted, SameCount
  <2>13. /\ e.RCTL = d.RCTL /\ e.link.LU = d.link.LU /\ e.RDT = d.RDT
         /\ e.RDH = At(d.RDH, u) /\ e.ring = StoredRing(d, total, u)
         /\ (e.overrun <=> ov) /\ (e.within <=> wi)
         /\ e.due = Append(d.due, total) /\ "RXT0" \in e.link.irq.ICR
    BY <1>8, <2>1, <2>4, <2>10 DEF SameRing
  <2> QED
    BY <2>11, <2>12, <2>13 DEF e, ov, wi
<1> QED
  BY <1>12, <1>13

(* Storing a frame keeps the invariant: the descriptors it takes lie       *)
(* between the head and the tail, and the driver will put the frame        *)
(* together after those that are due.                                      *)
LEMMA StoreReceived ==
    ASSUME NEW d, NEW c, NEW p, NEW pol, NEW w, Received(d, c, p, pol, w),
           d.RCTL.EN, NEW size \in Nat, size > 0, size + 4 < 2 ^ W,
           NEW size0 \in Nat, size <= size0,
           e1000_has_rxbufs(d, size + fcs_len(d))
    PROVE  Received(Store(d, size0, size), c, p, pol, w)
<1> DEFINE total == size + fcs_len(d)
           u == Used(d, total)
           e == Store(d, size0, size)
           h == Dist(d.RDH, c)
           ring2 == StoredRing(d, total, u)
           left(j) == total - Filled(d, j) * d.rxbuf_size
<1>0. N \in Nat /\ N > 1
  BY RxAssumption
<1>1. /\ Typed(d) /\ Counted(d) /\ c \in Indexes /\ p \in Nat /\ pol \in BOOLEAN /\ w \in BOOLEAN
      /\ d \in RxState /\ d.rxbuf_size > 0 /\ d.rxbuf_size \in Nat
      /\ d.RDH \in Indexes /\ d.RDT \in Indexes /\ d.due \in Seq(Nat)
  BY DEF Received, Typed, RxState
<1>2. total \in Nat /\ total > 0
  BY DEF fcs_len
<1>3. /\ Typed(e) /\ e.RDT = d.RDT /\ e.RDH = At(d.RDH, u) /\ e.ring = ring2
      /\ e.overrun <=> d.overrun \/ u > Dist(d.RDT, d.RDH)
      /\ e.within <=> d.within /\ Filled(d, u) <= Dist(d.RDT, d.RDH)
      /\ Counted(d) => Counted(e)
      /\ u # N => e.due = Append(d.due, total) /\ "RXT0" \in e.link.irq.ICR
  <2> HIDE DEF total
  <2>1. total = size + fcs_len(d) /\ e1000_has_rxbufs(d, total)
    BY DEF total
  <2> QED
    BY <1>1, <2>1, StoreIs
<1>4. u \in 1..N
  <2>1. Needed(d, total) \in Nat
    BY <1>1, <1>2, Enough
  <2> QED
    BY <1>1, <1>2, <2>1, UsedIs
<1> HIDE DEF e
<1>6. /\ Filled(d, u) <= Dist(d.RDT, d.RDH)
      /\ u <= Dist(d.RDT, d.RDH) =>
           /\ u < N
           /\ ~d.ring[At(d.RDH, u - 1)].null
           /\ left(u - 1) <= d.rxbuf_size
           /\ \A j \in 0..(u - 2) : ~d.ring[At(d.RDH, j)].null => left(j) > d.rxbuf_size
  <2> HIDE DEF total
  <2>1. e1000_has_rxbufs(d, total)
    BY DEF total
  <2> QED
    BY <1>1, <1>2, <2>1, FrameShape
<1>5. ASSUME ~e.overrun
      PROVE  /\ Placed(e.ring, e.RDH, e.RDT, c) /\ Accepted(e.ring, e.RDH, e.due, c, p)
             /\ Told(e.link.irq.ICR, e.RDH, c, pol) /\ w
  <2>1. ~d.overrun /\ ~(u > Dist(d.RDT, d.RDH))
    BY <1>3, <1>5
  <2>2. Placed(d.ring, d.RDH, d.RDT, c) /\ Accepted(d.ring, d.RDH, d.due, c, p) /\ w
    BY <2>1 DEF Received
  <2>3. /\ u <= Dist(d.RDT, d.RDH) /\ u < N
        /\ ~d.ring[At(d.RDH, u - 1)].null
        /\ left(u - 1) <= d.rxbuf_size
        /\ \A j \in 0..(u - 2) : ~d.ring[At(d.RDH, j)].null => left(j) > d.rxbuf_size
    <3>1. Dist(d.RDT, d.RDH) \in Indexes
      BY <1>1, DistIs
    <3>2. u <= Dist(d.RDT, d.RDH)
      <4> DEFINE b == Dist(d.RDT, d.RDH)
      <4>1. b \in Nat /\ u \in Nat /\ ~(u > b)
        BY <1>0, <1>4, <2>1, <3>1 DEF Indexes
      <4> HIDE DEF b, u
      <4>2. u <= b
        BY <4>1
      <4> QED
        BY <4>2 DEF b
    <3> QED
      BY <1>6, <3>2
  <2>4. u \in Nat /\ u > 0 /\ u < N
    BY <1>0, <1>4, <2>3
  <2>5. h \in Nat /\ h < N /\ Dist(d.RDT, c) \in Nat /\ Dist(d.RDT, c) < N
    <3>1. h \in Indexes /\ Dist(d.RDT, c) \in Indexes
      BY <1>1, DistIs
    <3> QED
      BY <1>0, <3>1 DEF Indexes
  <2>6. h <= Dist(d.RDT, c)
    BY <2>2 DEF Placed
  <2>7. Dist(d.RDT, d.RDH) = Dist(d.RDT, c) - h
    <3>1. Dist(d.RDT, d.RDH) = IF Dist(d.RDT, c) < h THEN N + Dist(d.RDT, c) - h
                               ELSE Dist(d.RDT, c) - h
      BY <1>1, DistFrom
    <3> QED
      BY <2>5, <2>6, <3>1
  <2>8. h + u <= Dist(d.RDT, c) /\ h + u < N
    <3>1. u <= Dist(d.RDT, c) - h
      BY <2>3, <2>7
    <3> HIDE DEF h, u
    <3> QED
      BY <1>0, <2>4, <2>5, <3>1
  <2>9. /\ Dist(e.RDH, c) = h + u
        /\ \A j \in 0..u : At(c, h + j) = At(d.RDH, j) /\ At(d.RDH, j) \in Indexes
    <3> SUFFICES ASSUME NEW j \in 0..u
                 PROVE  /\ At(c, h + j) = At(d.RDH, j) /\ At(d.RDH, j) \in Indexes
                        /\ Dist(At(d.RDH, j), c) = h + j
      BY <1>3, <2>4
    <3> HIDE DEF u
    <3>1. j \in 0..N /\ Dist(d.RDH, c) + j < N
      BY <1>0, <2>4, <2>5, <2>8
    <3> QED
      BY <1>1, <3>1, AtFrom
  <2>10. \A k \in Indexes : /\ Dist(k, d.RDH) \in Nat /\ Dist(k, c) \in Nat
                            /\ Dist(k, d.RDH) < u <=> h <= Dist(k, c) /\ Dist(k, c) < h + u
    <3> SUFFICES ASSUME NEW k \in Indexes
                 PROVE  /\ Dist(k, d.RDH) \in Nat /\ Dist(k, c) \in Nat
                        /\ Dist(k, d.RDH) < u <=> h <= Dist(k, c) /\ Dist(k, c) < h + u
      OBVIOUS
    <3>1. Dist(k, d.RDH) = IF Dist(k, c) < h THEN N + Dist(k, c) - h ELSE Dist(k, c) - h
      BY <1>1, DistFrom
    <3>2. Dist(k, c) \in Indexes
      BY <1>1, DistIs
    <3> HIDE DEF h, u
    <3> QED
      BY <1>0, <2>4, <2>5, <2>8, <3>1, <3>2 DEF Indexes
  <2>11. \A k \in Indexes : ring2[k] = IF Dist(k, d.RDH) < u
                                       THEN WriteBack(d, total, Dist(k, d.RDH)) ELSE d.ring[k]
    BY DEF StoredRing
  <2> HIDE DEF ring2
  <2>12. ASSUME NEW j \in 0..(u - 1)
         PROVE  /\ ring2[At(c, h + j)] = WriteBack(d, total, j)
                /\ left(j) \in Nat /\ left(j) > 0 /\ Filled(d, j) \in Nat
                /\ At(c, h + j) = At(d.RDH, j) /\ At(d.RDH, j) \in Indexes
    <3>1. j \in 0..u /\ j \in Indexes /\ j < u
      <4> HIDE DEF u
      <4> QED
        BY <1>0, <2>4 DEF Indexes
    <3>2. At(c, h + j) = At(d.RDH, j) /\ At(d.RDH, j) \in Indexes
      BY <2>9, <3>1
    <3>3. Dist(At(d.RDH, j), d.RDH) = j
      BY <1>1, <3>1, DistAt
    <3>4. ring2[At(c, h + j)] = WriteBack(d, total, j)
      BY <2>11, <3>1, <3>2, <3>3
    <3>5. Filled(d, j) \in Nat /\ left(j) > 0
      <4> HIDE DEF total
      <4>1. e1000_has_rxbufs(d, total)
        BY DEF total
      <4> QED
        BY <1>1, <1>2, <4>1, LeftOver
    <3>6. left(j) \in Nat
      <4>1. Filled(d, j) * d.rxbuf_size \in Int
        BY <1>1, <3>5
      <4> QED
        BY <1>2, <3>5, <4>1
    <3> QED
      BY <3>2, <3>4, <3>5, <3>6
  <2>13. ASSUME NEW j \in 0..(u - 1)
         PROVE  LET new == ring2[At(c, h + j)]
                    old == d.ring[At(d.RDH, j)]
                IN  /\ new.DD /\ new.null = old.null
                    /\ ~old.null => /\ new.EOP <=> left(j) <= d.rxbuf_size
                                    /\ left(j) <= d.rxbuf_size => new.length = left(j)
                                    /\ left(j) > d.rxbuf_size => new.length = d.rxbuf_size
    <3>1. j \in 0..(N - 1)
      BY <1>0, <2>4
    <3>2. ring2[At(c, h + j)] = WriteBack(d, total, j) /\ left(j) \in Nat
      BY <2>12
    <3> HIDE DEF total
    <3> QED
      BY ONLY <1>1, <1>2, <3>1, <3>2, WriteBackIs
  <2>14. Placed(e.ring, e.RDH, e.RDT, c)
    <3>1. Dist(e.RDH, c) <= Dist(e.RDT, c)
      BY <1>3, <2>8, <2>9
    <3>2. ASSUME NEW k \in Indexes PROVE ring2[k].DD <=> Dist(k, c) < h + u
      <4>1. d.ring[k].DD <=> Dist(k, c) < h
        BY <2>2 DEF Placed
      <4>2. CASE Dist(k, d.RDH) < u
        <5> DEFINE j == Dist(k, d.RDH)
        <5>1. j \in 0..(u - 1)
          BY <2>4, <2>10, <4>2
        <5>2. At(d.RDH, j) = k
          BY <1>1, DistIs
        <5> HIDE DEF j
        <5>3. ring2[At(c, h + j)].DD /\ At(c, h + j) = At(d.RDH, j)
          BY <2>12, <2>13, <5>1
        <5>4. ring2[k].DD
          BY <5>2, <5>3
        <5> QED
          BY <2>10, <4>2, <5>4
      <4>3. CASE ~(Dist(k, d.RDH) < u)
        <5>1. ring2[k] = d.ring[k]
          BY <2>11, <4>3
        <5>2. Dist(k, c) \in Nat /\ ~(h <= Dist(k, c) /\ Dist(k, c) < h + u)
          BY <2>10, <4>3
        <5> HIDE DEF h, u
        <5>3. Dist(k, c) < h <=> Dist(k, c) < h + u
          BY <2>4, <2>5, <5>2
        <5> QED
          BY <4>1, <5>1, <5>3 DEF h
      <4> QED
        BY <4>2, <4>3
    <3> QED
      BY <1>3, <2>9, <3>1, <3>2 DEF Placed
  <2>15. Accepted(e.ring, e.RDH, e.due, c, p)
    <3>1. PICK acc, cnt : Reads(d.ring, h, d.due, c, acc, cnt) /\ acc[0] = p /\ cnt[0] = 0
      BY <2>2 DEF Accepted
    <3> DEFINE A == [j \in 0..(u - 1) |-> Filled(d, j) * d.rxbuf_size]
    <3>2. A \in [0..(u - 1) -> Nat]
      <4>1. \A j \in 0..(u - 1) : Filled(d, j) * d.rxbuf_size \in Nat
        <5> TAKE j \in 0..(u - 1)
        <5>1. Filled(d, j) \in Nat
          BY <2>12
        <5> QED
          BY <1>1, <5>1
      <4> QED
        BY <4>1
    <3>3. \A j \in 0..(u - 1) : A[j] = Filled(d, j) * d.rxbuf_size
      OBVIOUS
    <3>4. A[0] = 0
      <4>1. Filled(d, 0) = 0 /\ 0 \in 0..(u - 1)
        BY <1>1, <2>4, FilledSteps
      <4> QED
        BY <1>1, <3>3, <4>1
    <3> HIDE DEF A
    <3>5. ASSUME NEW j \in 0..(u - 2)
          PROVE  LET desc == ring2[At(c, h + j)]
                 IN  /\ desc.null => A[j + 1] = A[j]
                     /\ ~desc.null => ~desc.EOP /\ A[j + 1] = A[j] + desc.length
      <4> DEFINE old == d.ring[At(d.RDH, j)]
                 new == ring2[At(c, h + j)]
                 z == d.rxbuf_size
      <4>1. j \in 0..(u - 1) /\ j + 1 \in 0..(u - 1) /\ j \in Nat
        BY <2>4
      <4>2. /\ new.null = old.null
            /\ ~old.null => /\ new.EOP <=> left(j) <= z
                            /\ left(j) > z => new.length = z
        BY <2>13, <4>1
      <4>3. ~old.null => left(j) > z
        BY <2>3
      <4>4. /\ old.null => Filled(d, j + 1) = Filled(d, j)
            /\ ~old.null => Filled(d, j + 1) = Filled(d, j) + 1
        BY <1>1, <4>1, FilledSteps
      <4>5. A[j] = Filled(d, j) * z /\ A[j + 1] = Filled(d, j + 1) * z
        BY <3>3, <4>1
      <4>6. Filled(d, j) \in Nat /\ left(j) \in Nat /\ z \in Nat /\ z > 0
        BY <1>1, <2>12, <4>1
      <4>7. (Filled(d, j) + 1) * z = Filled(d, j) * z + z
        <5> HIDE DEF z
        <5> QED
          BY <4>6, TimesOrder
      <4> HIDE DEF old, new, left, z
      <4>8. ~old.null => ~(left(j) <= z)
        BY <4>3, <4>6
      <4> QED
        BY <4>2, <4>3, <4>4, <4>5, <4>7, <4>8 DEF new
    <3>6. LET desc == ring2[At(c, h + (u - 1))]
          IN  ~desc.null /\ desc.EOP /\ A[u - 1] + desc.length = total
      <4> DEFINE j == u - 1
                 old == d.ring[At(d.RDH, j)]
                 new == ring2[At(c, h + j)]
      <4>1. j \in 0..(u - 1)
        BY <2>4
      <4>2. ~old.null /\ left(j) <= d.rxbuf_size
        BY <2>3
      <4> HIDE DEF j
      <4>3. /\ new.null = old.null
            /\ ~old.null => /\ new.EOP <=> left(j) <= d.rxbuf_size
                            /\ left(j) <= d.rxbuf_size => new.length = left(j)
        BY <2>13, <4>1
      <4>4. A[j] = Filled(d, j) * d.rxbuf_size /\ Filled(d, j) \in Nat
        BY <2>12, <3>3, <4>1
      <4>5. A[j] + left(j) = total
        <5>1. Filled(d, j) * d.rxbuf_size \in Int
          BY <1>1, <4>4
        <5> QED
          BY <1>2, <4>4, <5>1
      <4> QED
        BY <4>2, <4>3, <4>5 DEF j
    <3>7. \A i \in 0..(h - 1) : ring2[At(c, i)] = d.ring[At(c, i)]
      <4> SUFFICES ASSUME NEW i \in 0..(h - 1) PROVE ring2[At(c, i)] = d.ring[At(c, i)]
        OBVIOUS
      <4>1. i \in 0..N /\ i \in Indexes /\ i < h
        BY <1>0, <2>5 DEF Indexes
      <4>2. At(c, i) \in Indexes /\ Dist(At(c, i), c) = i
        BY <1>1, <4>1, AtIs, DistAt
      <4>3. ~(h <= i)
        BY <2>5, <4>1
      <4>4. ~(Dist(At(c, i), d.RDH) < u)
        BY <2>10, <4>2, <4>3
      <4> QED
        BY <2>11, <4>2, <4>4
    <3>8. \E acc2, cnt2 : /\ Reads(ring2, h + u, Append(d.due, total), c, acc2, cnt2)
                          /\ acc2[0] = acc[0] /\ cnt2[0] = cnt[0]
      <4> DEFINE r == d.ring
                 q == d.due
      <4>1. q \in Seq(Nat) /\ Reads(r, h, q, c, acc, cnt)
        BY <1>1, <3>1
      <4>2. \A i \in 0..(h - 1) : ring2[At(c, i)] = r[At(c, i)]
        BY <3>7
      <4>3. Holds(ring2, h, u, c, A, total)
        BY <3>2, <3>4, <3>5, <3>6 DEF Holds
      <4> HIDE DEF u, h, total, r, q, A, ring2
      <4>4. \E acc2, cnt2 : /\ Reads(ring2, h + u, Append(q, total), c, acc2, cnt2)
                            /\ acc2[0] = acc[0] /\ cnt2[0] = cnt[0]
        <5>1. h \in Nat /\ u \in Nat /\ u > 0 /\ total \in Nat
          BY <1>2, <2>4, <2>5
        <5>2. Extending(r, ring2, h, u, c, q, total, acc, cnt, A)
          BY <4>1, <4>2, <4>3, <5>1 DEF Extending
        <5> QED
          BY <5>2, ReadsExtended
      <4> QED
        BY <4>4 DEF q
    <3>9. e.due = Append(d.due, total)
      BY <1>3, <2>4
    <3> HIDE DEF u, h, total
    <3> QED
      BY <1>3, <2>9, <3>1, <3>8, <3>9 DEF Accepted
  <2>16. Told(e.link.irq.ICR, e.RDH, c, pol)
    BY <1>3, <2>4 DEF Told
  <2> QED
    BY <2>2, <2>14, <2>15, <2>16
<1>7. e.within
  BY <1>3, <1>6 DEF Received
<1> QED
  BY <1>1, <1>3, <1>5, <1>7 DEF Received, e

(* The length of a frame as it is stored, without its FCS.                 *)
LEMMA StoredSize ==
    ASSUME NEW d, NEW f \in Frames
    PROVE  LET size0 == IF f.size < 60 THEN 60 ELSE f.size
               size  == IF d.VME /\ f.vlan THEN size0 - 4 ELSE size0
           IN  /\ size \in Nat /\ size > 0 /\ size + 4 < 2 ^ W
               /\ size0 \in Nat /\ size <= size0
<1> DEFINE size0 == IF f.size < 60 THEN 60 ELSE f.size
           m == 2 ^ W
<1>1. f.size \in Nat /\ f.size + 4 < m /\ m \in Nat /\ m > 64
  BY RxAssumption DEF FrameKinds
<1> HIDE DEF m
<1>2. size0 \in Nat /\ size0 >= 60 /\ size0 + 4 < m
  BY <1>1
<1> HIDE DEF size0
<1>3. size0 - 4 \in Nat /\ size0 - 4 > 0 /\ size0 - 4 + 4 < m /\ size0 - 4 <= size0
  BY <1>1, <1>2
<1> QED
  BY <1>2, <1>3 DEF size0, m

(* A frame from the queue, the host or the loopback keeps the invariant.   *)
LEMMA ReceiveReceived ==
    ASSUME NEW d, NEW c, NEW p, NEW pol, NEW w, Received(d, c, p, pol, w), NEW f \in Frames
    PROVE  Received(e1000_receive_iov(d, f), c, p, pol, w)
<1> DEFINE size0 == IF f.size < 60 THEN 60 ELSE f.size
           size  == IF d.VME /\ f.vlan THEN size0 - 4 ELSE size0
           drop  == ~d.link.LU \/ ~d.RCTL.EN \/ Oversized(d, size0) \/ ~receive_filter(d, f)
<1>1. size \in Nat /\ size > 0 /\ size + 4 < 2 ^ W /\ size0 \in Nat /\ size <= size0
  BY StoredSize
<1>2. e1000_receive_iov(d, f) = IF drop THEN d
                                ELSE IF ~e1000_has_rxbufs(d, size + fcs_len(d))
                                     THEN set_ics_rx(d, {"RXO"}) ELSE Store(d, size0, size)
  BY DEF e1000_receive_iov
<1>3. ~drop => d.RCTL.EN
  OBVIOUS
<1> HIDE DEF size, size0, drop
<1>4. CASE drop
  BY <1>2, <1>4
<1>5. CASE ~drop /\ ~e1000_has_rxbufs(d, size + fcs_len(d))
  <2> DEFINE e == set_ics_rx(d, {"RXO"})
  <2>1. e1000_receive_iov(d, f) = e
    BY <1>2, <1>5
  <2>2. Typed(d) /\ {"RXO"} \in SUBSET Causes
    BY RxAssumption DEF Received
  <2>3. /\ Typed(e) /\ SameRing(d, e) /\ SameCount(d, e)
        /\ "RXT0" \in d.link.irq.ICR => "RXT0" \in e.link.irq.ICR
    BY <2>2, SetIcsRx
  <2> HIDE DEF e
  <2> QED
    BY <2>1, <2>3, SameReceived
<1>6. CASE ~drop /\ e1000_has_rxbufs(d, size + fcs_len(d))
  <2>1. e1000_receive_iov(d, f) = Store(d, size0, size)
    BY <1>2, <1>6
  <2> QED
    BY <1>1, <1>3, <1>6, <2>1, StoreReceived
<1> QED
  BY <1>4, <1>5, <1>6

(* So does a packet that the queue delivers or drops.                      *)
LEMMA DeliverReceived ==
    ASSUME NEW d, NEW c, NEW p, NEW pol, NEW w, Received(d, c, p, pol, w), NEW f \in Frames
    PROVE  Received(qemu_deliver_packet(d, f), c, p, pol, w)
BY ReceiveReceived DEF qemu_deliver_packet

(* The device after each packet of a flush.                                *)
FlushStep(g, d, n) == IF n = 0 THEN d ELSE qemu_deliver_packet(g[n - 1], queue[n])

(* A flush delivers the queued packets one after the other.                *)
LEMMA FlushIs ==
    ASSUME NEW d, queue \in Seq(Frames)
    PROVE  \E g : /\ g[0] = d /\ Flush(d) = g[Len(queue)]
                  /\ \A n \in 1..Len(queue) : g[n] = qemu_deliver_packet(g[n - 1], queue[n])
<1> DEFINE L == Len(queue)
           Up(g, n) == g = [i \in 0..n |-> FlushStep(g, d, i)]
           T == {n \in 0..L : ~\E g : Up(g, n)}
<1>0. L \in Nat
  OBVIOUS
<1>f. Flush(d) = (CHOOSE g : g = [i \in 0..Len(queue) |->
                     IF i = 0 THEN d ELSE qemu_deliver_packet(g[i - 1], queue[i])])[Len(queue)]
  BY Zenon DEF Flush
<1> HIDE DEF L
<1>1. ASSUME T # {} PROVE FALSE
  <2>1. T \subseteq Nat
    BY <1>0
  <2>2. PICK n \in T : \A y \in T : n <= y
    <3> HIDE DEF T
    <3> QED
      BY <1>1, <2>1, LeastNumber
  <2>3. n \in 0..L /\ n \in Nat /\ ~\E g : Up(g, n)
    BY <2>1, <2>2
  <2>4. CASE n = 0
    <3> DEFINE g == [i \in 0..0 |-> d]
    <3>1. Up(g, 0)
      BY DEF FlushStep
    <3> QED
      BY <2>3, <2>4, <3>1
  <2>5. CASE n # 0
    <3>1. n - 1 \in 0..L /\ n - 1 \notin T
      BY <1>0, <2>2, <2>3, <2>5
    <3>2. PICK f : Up(f, n - 1)
      BY <3>1
    <3> DEFINE x == qemu_deliver_packet(f[n - 1], queue[n])
               g == [i \in 0..n |-> IF i = n THEN x ELSE f[i]]
    <3>3. \A i \in 0..(n - 1) : g[i] = f[i] /\ f[i] = FlushStep(f, d, i)
      <4>1. \A i \in 0..(n - 1) : f[i] = FlushStep(f, d, i)
        BY <3>2, Zenon
      <4>2. \A i \in 0..(n - 1) : i \in 0..n /\ i # n
        BY <2>3, <2>5
      <4>3. \A i \in 0..(n - 1) : g[i] = f[i]
        BY <4>2, Zenon
      <4> QED
        BY <4>1, <4>3, Zenon
    <3>4. g[n] = x /\ g[n - 1] = f[n - 1]
      BY <2>3, <2>5
    <3>5. ASSUME NEW i \in 0..n PROVE g[i] = FlushStep(g, d, i)
      <4>1. CASE i = n
        BY <2>3, <2>5, <3>4, <4>1 DEF FlushStep
      <4>2. CASE i = 0
        <5>1. 0 \in 0..(n - 1)
          BY <2>3, <2>5
        <5>2. g[0] = FlushStep(f, d, 0)
          BY <3>3, <5>1
        <5> HIDE DEF g
        <5> QED
          BY <4>2, <5>2 DEF FlushStep
      <4>3. CASE i # n /\ i # 0
        <5>1. i \in 0..(n - 1) /\ i - 1 \in 0..(n - 1)
          BY <2>3, <3>5, <4>3
        <5> HIDE DEF g
        <5> QED
          BY <3>3, <4>3, <5>1 DEF FlushStep
      <4> QED
        BY <4>1, <4>2, <4>3
    <3>6. g = [i \in 0..n |-> g[i]]
      OBVIOUS
    <3> HIDE DEF g
    <3>7. Up(g, n)
      BY <3>5, <3>6
    <3> QED
      BY <2>3, <3>7
  <2> QED
    BY <2>4, <2>5
<1>2. PICK f : Up(f, L)
  BY <1>0, <1>1
<1> DEFINE G == CHOOSE g : g = [i \in 0..Len(queue) |->
                     IF i = 0 THEN d ELSE qemu_deliver_packet(g[i - 1], queue[i])]
<1>3. \E g : g = [i \in 0..Len(queue) |->
                     IF i = 0 THEN d ELSE qemu_deliver_packet(g[i - 1], queue[i])]
  BY <1>2, Zenon DEF FlushStep, L
<1>4. G = [i \in 0..Len(queue) |->
                     IF i = 0 THEN d ELSE qemu_deliver_packet(G[i - 1], queue[i])]
  BY <1>3, Zenon
<1>5. Flush(d) = G[Len(queue)]
  BY <1>f
<1> HIDE DEF G
<1>6. G[0] = d /\ \A n \in 1..Len(queue) : G[n] = qemu_deliver_packet(G[n - 1], queue[n])
  BY <1>0, <1>4 DEF L
<1> QED
  BY <1>5, <1>6

(* A flush keeps the invariant.                                            *)
LEMMA FlushReceived ==
    ASSUME NEW d, NEW c, NEW p, NEW pol, NEW w, Received(d, c, p, pol, w), queue \in Seq(Frames)
    PROVE  Received(Flush(d), c, p, pol, w)
<1> DEFINE L == Len(queue)
<1>0. L \in Nat /\ \A n \in 1..L : queue[n] \in Frames
  OBVIOUS
<1>1. PICK g : /\ g[0] = d /\ Flush(d) = g[L]
               /\ \A n \in 1..L : g[n] = qemu_deliver_packet(g[n - 1], queue[n])
  BY FlushIs
<1> HIDE DEF L
<1> DEFINE T == {n \in 0..L : ~Received(g[n], c, p, pol, w)}
<1>2. ASSUME T # {} PROVE FALSE
  <2>1. T \subseteq Nat
    BY <1>0
  <2>2. PICK n \in T : \A y \in T : n <= y
    <3> HIDE DEF T
    <3> QED
      BY <1>2, <2>1, LeastNumber
  <2>3. n \in 0..L /\ n \in Nat /\ ~Received(g[n], c, p, pol, w)
    BY <2>1, <2>2
  <2>4. n # 0
    BY <1>1, <2>3
  <2>5. n - 1 \in 0..L /\ n - 1 \notin T /\ n \in 1..L
    BY <1>0, <2>2, <2>3, <2>4
  <2>6. Received(g[n - 1], c, p, pol, w)
    BY <2>5
  <2>7. queue[n] \in Frames /\ g[n] = qemu_deliver_packet(g[n - 1], queue[n])
    BY <1>0, <1>1, <2>5
  <2> QED
    BY <2>3, <2>6, <2>7, DeliverReceived
<1>3. L \in 0..L /\ L \notin T
  BY <1>0, <1>2
<1> QED
  BY <1>1, <1>3

-----------------------------------------------------------------------------
(* The link                                                                *)

(* The host's set_link keeps the causes.                                   *)
LEMMA SetLinkIcr ==
    ASSUME NEW r, Linked(r), NEW down \in BOOLEAN
    PROVE  r.irq.ICR \subseteq e1000_set_link_status([r EXCEPT !.link_down = down]).irq.ICR
<1> DEFINE q == [r EXCEPT !.link_down = down]
           t == IF q.link_down THEN e1000_link_down(q) ELSE e1000_link_up(q)
<1>1. q \in LinkState /\ q.irq = r.irq
  BY DEF Linked, LinkState
<1>2. e1000_set_link_status(q) =
        IF t.LU # q.LU THEN [t EXCEPT !.irq = set_ics(t.irq, {"LSC"})] ELSE t
  BY DEF e1000_set_link_status
<1> HIDE DEF q
<1>3. t \in LinkState /\ t.irq = r.irq
  BY <1>1, DownUp
<1> HIDE DEF t
<1>4. r.irq.ICR \subseteq set_ics(t.irq, {"LSC"}).ICR
  BY <1>3, IcsStored, PhyAssumption DEF LinkState
<1>5. [t EXCEPT !.irq = set_ics(t.irq, {"LSC"})].irq = set_ics(t.irq, {"LSC"})
  BY <1>3 DEF LinkState
<1> QED
  BY <1>2, <1>3, <1>4, <1>5 DEF q

(* The timer leaves the interrupt state alone.                             *)
LEMMA AutonegIrq ==
    ASSUME NEW r, Linked(r)
    PROVE  e1000_autoneg_timer([r EXCEPT !.autoneg_timer = FALSE]).irq = r.irq
<1> DEFINE q == [r EXCEPT !.autoneg_timer = FALSE]
           t == IF q.link_down THEN q ELSE e1000_link_up(q)
<1>1. q \in LinkState /\ q.irq = r.irq
  BY DEF Linked, LinkState
<1>2. e1000_autoneg_timer(q) =
        [t EXCEPT !.phy_reg["PHY_STATUS"] = t.phy_reg["PHY_STATUS"] \cup {"AUTONEG_COMPLETE"}]
  BY DEF e1000_autoneg_timer
<1> HIDE DEF q
<1>3. t \in LinkState /\ t.irq = r.irq
  BY <1>1, DownUp
<1> HIDE DEF t
<1>4. e1000_autoneg_timer(q).irq = t.irq
  BY <1>2, <1>3 DEF LinkState
<1> QED
  BY <1>3, <1>4 DEF q

(* So does a negotiation restarted without an interrupt.                   *)
LEMMA RestartIrq ==
    ASSUME NEW r, Linked(r), NEW data \in SUBSET PhyBits
    PROVE  set_mdic(r, TRUE, "WRITE", "PHY_CTRL", data, FALSE).irq = r.irq
<1> DEFINE val == [data |-> data, INT_EN |-> FALSE, ERROR |-> FALSE]
           d == e1000_link_down(r)
           q == set_phy_ctrl(r, data)
           x == WritePhy(r, "PHY_CTRL", data)
           t == MdicAccess(r, TRUE, "WRITE", "PHY_CTRL", data, FALSE)
<1>1. r \in LinkState /\ d \in LinkState /\ d.irq = r.irq
  BY DownUp DEF Linked
<1>2. q = IF FLAG_AUTONEG /\ Restarts(data)
          THEN [d EXCEPT !.phy_reg["PHY_STATUS"] = @ \ {"AUTONEG_COMPLETE"}, !.autoneg_timer = TRUE]
          ELSE r
  BY DEF set_phy_ctrl
<1> HIDE DEF d
<1>3. q.irq = r.irq /\ q \in LinkState
  <2>1. CASE FLAG_AUTONEG /\ Restarts(data)
    <3> DEFINE bits == d.phy_reg["PHY_STATUS"] \ {"AUTONEG_COMPLETE"}
    <3>1. "PHY_STATUS" \in PhyRegs
      BY DEF PhyRegs
    <3>2. bits \in SUBSET PhyBits
      BY <1>1, <3>1 DEF LinkState
    <3>3. q = [d EXCEPT !.phy_reg["PHY_STATUS"] = bits, !.autoneg_timer = TRUE]
      BY <1>2, <2>1
    <3> HIDE DEF bits, q
    <3> QED
      BY <1>1, <3>1, <3>2, <3>3 DEF LinkState
  <2>2. CASE ~(FLAG_AUTONEG /\ Restarts(data))
    BY <1>1, <1>2, <2>2
  <2> QED
    BY <2>1, <2>2
<1>4. x = [q EXCEPT !.phy_reg["PHY_CTRL"] = data]
  BY DEF WritePhy
<1> HIDE DEF q
<1>5. x.irq = r.irq /\ x \in LinkState
  BY <1>3, <1>4 DEF LinkState, PhyRegs
<1>6. t = [x EXCEPT !.MDIC = val]
  <2>1. "W" \in phy_regcap["PHY_CTRL"]
    BY DEF phy_regcap
  <2> QED
    BY <2>1 DEF MdicAccess
<1>7. set_mdic(r, TRUE, "WRITE", "PHY_CTRL", data, FALSE) =
        IF t.MDIC.INT_EN THEN [t EXCEPT !.irq = set_ics(t.irq, {"MDAC"})] ELSE t
  BY DEF set_mdic
<1> HIDE DEF x, t
<1>8. t.irq = x.irq /\ ~t.MDIC.INT_EN
  BY <1>5, <1>6 DEF LinkState
<1> QED
  BY <1>5, <1>7, <1>8

(* Saving and loading keep the causes.                                     *)
LEMMA MigrateIcr ==
    ASSUME NEW r, Linked(r)
    PROVE  PreSaveLink(r).irq.ICR = r.irq.ICR /\ PostLoadLink(r).irq.ICR = r.irq.ICR
<1> DEFINE q == [r EXCEPT !.irq = PreSaveIrq(r.irq)]
           bits == q.phy_reg["PHY_STATUS"] \cup {"AUTONEG_COMPLETE"}
           x == [r EXCEPT !.irq = PostLoadIrq(r.irq), !.autoneg_timer = FALSE,
                          !.link_down = ~r.LU]
<1>1. r \in LinkState /\ r.irq \in IrqState
  BY DEF Linked, LinkState
<1>2. /\ PreSaveIrq(r.irq) \in IrqState /\ PreSaveIrq(r.irq).ICR = r.irq.ICR
      /\ PostLoadIrq(r.irq).ICR = r.irq.ICR
  BY <1>1, SaveType
<1>3. q \in LinkState /\ q.irq = PreSaveIrq(r.irq)
  BY <1>1, <1>2 DEF LinkState
<1>4. x.irq = PostLoadIrq(r.irq) /\ [x EXCEPT !.link_down = FALSE, !.autoneg_timer = TRUE].irq = x.irq
  BY <1>1 DEF LinkState
<1>5. PreSaveLink(r) = q \/ PreSaveLink(r) = [q EXCEPT !.phy_reg["PHY_STATUS"] = bits]
  BY DEF PreSaveLink
<1>6. \/ PostLoadLink(r) = x
      \/ PostLoadLink(r) = [x EXCEPT !.link_down = FALSE, !.autoneg_timer = TRUE]
  BY DEF PostLoadLink
<1> HIDE DEF q, x
<1>7. PreSaveLink(r).irq = q.irq
  BY <1>3, <1>5 DEF LinkState
<1>8. PostLoadLink(r).irq = x.irq
  BY <1>4, <1>6
<1> QED
  BY <1>2, <1>3, <1>4, <1>7, <1>8

(* A step of the link keeps the invariant of reception.                    *)
LEMMA LinkReceived ==
    ASSUME NEW d, NEW c, NEW p, NEW pol, NEW w, Received(d, c, p, pol, w),
           NEW l, Linked(l), "RXT0" \in d.link.irq.ICR => "RXT0" \in l.irq.ICR
    PROVE  Received([d EXCEPT !.link = l], c, p, pol, w)
<1> DEFINE e == [d EXCEPT !.link = l]
<1>1. Typed(e) /\ e.link = l /\ SameRing(d, e) /\ SameCount(d, e)
  BY WithLink DEF Received
<1> HIDE DEF e
<1>2. Received(e, c, p, pol, w)
  BY <1>1, SameReceived
<1> QED
  BY <1>2 DEF e

-----------------------------------------------------------------------------
(* The driver                                                              *)

(* Buffers are posted behind the tail, at descriptors that are not done;   *)
(* one descriptor stays free.                                              *)
LEMMA PostReceived ==
    ASSUME NEW d, NEW c, NEW p, NEW pol, NEW w, Received(d, c, p, pol, w),
           NEW n \in 1..((c + N - d.RDT - 1) % N), NEW null \in BOOLEAN,
           NEW ring2, ring2 = [k \in 0..(N - 1) |-> IF (k + N - d.RDT) % N < n
                                                    THEN [d.ring[k] EXCEPT !.null = null]
                                                    ELSE d.ring[k]]
    PROVE  Received([d EXCEPT !.ring = ring2, !.RDT = (d.RDT + n) % N], c, p, pol, w)
<1> DEFINE e == [d EXCEPT !.ring = ring2, !.RDT = (d.RDT + n) % N]
           h == Dist(d.RDH, c)
           t == Dist(d.RDT, c)
<1>0. N \in Nat /\ N > 1
  BY RxAssumption
<1>1. /\ Typed(d) /\ d \in RxState /\ c \in Indexes /\ d.RDH \in Indexes /\ d.RDT \in Indexes
      /\ d.ring \in [Indexes -> Desc]
  BY DEF Received, Typed, RxState
<1>2. h \in Indexes /\ t \in Indexes /\ t = IF d.RDT < c THEN d.RDT + N - c ELSE d.RDT - c
  BY <1>1, DistIs
<1>3. n \in Nat /\ n > 0 /\ t + n < N
  <2> DEFINE x == c + N - d.RDT - 1
             y == x % N
  <2>0. d.RDT \in 0..(N - 1) /\ c \in 0..(N - 1)
    BY <1>1 DEF Indexes
  <2>4. \A a, b \in 0..(N - 1) : a + N - b - 1 \in 0..(2 * N - 1)
    BY <1>0
  <2>1. x \in 0..(2 * N - 1)
    BY <2>0, <2>4
  <2> HIDE DEF t
  <2>2. y = IF x < N THEN x ELSE x - N
    <3> HIDE DEF x
    <3> QED
      BY <2>1, RingMod
  <2>3. n \in 1..y
    OBVIOUS
  <2> HIDE DEF y
  <2> QED
    <3>1. CASE d.RDT < c
      <4>2. ~(x < N)
        BY <1>0, <2>0, <3>1
      <4>3. t = d.RDT + N - c /\ y = x - N
        BY <1>2, <2>2, <3>1, <4>2
      <4>1. t = d.RDT + N - c /\ y = c - d.RDT - 1
        BY <1>0, <2>0, <4>3
      <4> QED
        BY <1>0, <2>0, <2>3, <4>1
    <3>2. CASE ~(d.RDT < c)
      <4>1. t = d.RDT - c /\ y = c + N - d.RDT - 1
        BY <1>0, <1>2, <2>0, <2>2, <3>2
      <4> QED
        BY <1>0, <2>0, <2>3, <4>1
    <3> QED
      BY <3>1, <3>2
<1>4. At(d.RDT, n) \in Indexes /\ Dist(At(d.RDT, n), c) = t + n /\ n \in 0..N
  <2>1. n \in 0..N
    BY <1>0, <1>2, <1>3 DEF Indexes
  <2> QED
    BY <1>1, <1>3, <2>1, AtFrom
<1>5. \A k \in Indexes : ring2[k] = IF Dist(k, d.RDT) < n THEN [d.ring[k] EXCEPT !.null = null]
                                    ELSE d.ring[k]
  BY DEF Dist, Indexes
<1>6. ring2 \in [Indexes -> Desc] /\ \A k \in Indexes : ring2[k].DD = d.ring[k].DD
  <2>1. ASSUME NEW k \in Indexes PROVE ring2[k] \in Desc /\ ring2[k].DD = d.ring[k].DD
    <3>1. d.ring[k] \in Desc
      BY <1>1
    <3>2. /\ [d.ring[k] EXCEPT !.null = null] \in Desc
          /\ [d.ring[k] EXCEPT !.null = null].DD = d.ring[k].DD
      BY <3>1 DEF Desc
    <3> QED
      BY <1>5, <3>1, <3>2
  <2>2. ring2 = [k \in Indexes |-> ring2[k]]
    BY DEF Indexes
  <2> QED
    BY <2>1, <2>2
<1>7. e = [d EXCEPT !.ring = ring2, !.RDT = At(d.RDT, n)]
  BY DEF At
<1> HIDE DEF e
<1>8. e \in RxState
  BY <1>1, <1>4, <1>6, <1>7 DEF RxState
<1>9. /\ e.ring = ring2 /\ e.RDT = At(d.RDT, n) /\ e.RDH = d.RDH /\ e.due = d.due
      /\ e.overrun = d.overrun /\ e.within = d.within /\ e.link = d.link /\ e.RCTL = d.RCTL
      /\ e.rxbuf_size = d.rxbuf_size /\ SameCount(d, e)
  BY <1>1, <1>7 DEF RxState, SameCount
<1>10. Typed(e) /\ (Counted(d) => Counted(e))
  BY <1>1, <1>8, <1>9 DEF Typed, Counted, SameCount
<1>11. ASSUME ~e.overrun
       PROVE  /\ Placed(e.ring, e.RDH, e.RDT, c) /\ Accepted(e.ring, e.RDH, e.due, c, p)
              /\ Told(e.link.irq.ICR, e.RDH, c, pol) /\ w
  <2>1. /\ Placed(d.ring, d.RDH, d.RDT, c) /\ Accepted(d.ring, d.RDH, d.due, c, p)
        /\ Told(d.link.irq.ICR, d.RDH, c, pol) /\ w
    BY <1>9, <1>11 DEF Received
  <2>2. h <= t
    BY <2>1 DEF Placed
  <2>3. h \in Nat /\ t \in Nat /\ h < N
    BY <1>0, <1>2 DEF Indexes
  <2> HIDE DEF h, t
  <2>4. h <= t + n
    BY <1>3, <2>2, <2>3
  <2>5. Placed(e.ring, e.RDH, e.RDT, c)
    BY <1>4, <1>6, <1>9, <2>1, <2>4 DEF Placed, h
  <2>6. \A i \in 0..(h - 1) : ring2[At(c, i)] = d.ring[At(c, i)]
    <3> SUFFICES ASSUME NEW i \in 0..(h - 1) PROVE ring2[At(c, i)] = d.ring[At(c, i)]
      OBVIOUS
    <3>1. i \in 0..N /\ i \in Indexes /\ i < t
      BY <1>0, <2>2, <2>3 DEF Indexes
    <3>2. At(c, i) \in Indexes /\ Dist(At(c, i), c) = i
      BY <1>1, <3>1, AtIs, DistAt
    <3>3. Dist(At(c, i), d.RDT) = IF i < t THEN N + i - t ELSE i - t
      BY <1>1, <3>2, DistFrom DEF t
    <3>4. ~(Dist(At(c, i), d.RDT) < n)
      BY <1>0, <1>3, <2>3, <3>1, <3>3
    <3> QED
      BY <1>5, <3>2, <3>4
  <2>7. Accepted(e.ring, e.RDH, e.due, c, p)
    <3>1. PICK acc, cnt : Reads(d.ring, h, d.due, c, acc, cnt) /\ acc[0] = p /\ cnt[0] = 0
      BY <2>1 DEF Accepted, h
    <3>2. Reads(ring2, h, d.due, c, acc, cnt)
      <4> DEFINE r == d.ring
                 q == d.due
      <4>1. Reads(r, h, q, c, acc, cnt) /\ \A i \in 0..(h - 1) : ring2[At(c, i)] = r[At(c, i)]
        BY <2>6, <3>1
      <4> HIDE DEF r, q
      <4>2. Reads(ring2, h, q, c, acc, cnt)
        BY <4>1, ReadsKept
      <4> QED
        BY <4>2 DEF q
    <3> QED
      BY <1>9, <3>1, <3>2 DEF Accepted, h
  <2> QED
    BY <1>9, <2>1, <2>5, <2>7
<1> QED
  BY <1>10, <1>11 DEF Received, e

(* The step of a driver, at index c with p bytes, that takes a descriptor. *)
CleanStep(d, c, p, w, e, p2, w2) ==
    \E ends, got, due2 :
        /\ Taking(d.ring[c], p, d.due, ends, got, due2)
        /\ e = [d EXCEPT !.ring[c].DD = FALSE, !.ring[c].length = 0, !.due = due2]
        /\ p2 = IF ends THEN 0 ELSE got
        /\ w2 = (w /\ (ends => d.due # <<>> /\ got = Head(d.due)))

(* The driver takes a descriptor that is done: it is the first of those    *)
(* that the device has used, and if it ends a frame, that frame is the     *)
(* next one due.                                                           *)
LEMMA CleanReceived ==
    ASSUME NEW d, NEW c, NEW p, NEW pol, NEW w, Received(d, c, p, pol, w),
           d.ring[c].DD, NEW next, NEW got2, NEW whole2,
           CleanStep(d, c, p, w, next, got2, whole2)
    PROVE  Received(next, At(c, 1), got2, TRUE, whole2)
<1>p. PICK ends, got, due2 :
        /\ Taking(d.ring[c], p, d.due, ends, got, due2)
        /\ next = [d EXCEPT !.ring[c].DD = FALSE, !.ring[c].length = 0, !.due = due2]
        /\ got2 = IF ends THEN 0 ELSE got
        /\ whole2 = (w /\ (ends => d.due # <<>> /\ got = Head(d.due)))
  BY DEF CleanStep
<1> DEFINE desc == d.ring[c]
           new == [desc EXCEPT !.DD = FALSE, !.length = 0]
           ring2 == [d.ring EXCEPT ![c] = new]
           e == [d EXCEPT !.ring = ring2, !.due = due2]
           c2 == At(c, 1)
           p2 == IF ends THEN 0 ELSE got
           w2 == w /\ (ends => d.due # <<>> /\ got = Head(d.due))
           h == Dist(d.RDH, c)
           t == Dist(d.RDT, c)
<1>t. /\ ends <=> desc.EOP /\ ~desc.null
      /\ got = IF desc.null THEN p ELSE p + desc.length
      /\ due2 = IF ends /\ d.due # <<>> THEN Tail(d.due) ELSE d.due
  BY <1>p DEF Taking
<1>0. N \in Nat /\ N > 1
  BY RxAssumption
<1>1. /\ Typed(d) /\ d \in RxState /\ c \in Indexes /\ d.RDH \in Indexes /\ d.RDT \in Indexes
      /\ d.ring \in [Indexes -> Desc] /\ d.due \in Seq(Nat) /\ p \in Nat /\ w \in BOOLEAN
      /\ Counted(d) /\ d.within
  BY DEF Received, Typed, RxState
<1>2. desc \in Desc
  BY <1>1
<1>3. [d EXCEPT !.ring[c].DD = FALSE, !.ring[c].length = 0, !.due = due2] = e
  BY <1>1, <1>2 DEF RxState
<1>4. /\ new \in Desc /\ ~new.DD
      /\ ring2 \in [Indexes -> Desc] /\ ring2[c] = new
      /\ \A k \in Indexes : k # c => ring2[k] = d.ring[k]
  BY <1>1, <1>2 DEF Desc
<1>5. due2 \in Seq(Nat)
  BY <1>1, <1>t
<1>6. c2 \in Indexes /\ c2 = IF c + 1 < N THEN c + 1 ELSE c + 1 - N
  BY <1>0, <1>1, AtIs
<1>7. p2 \in Nat /\ w2 \in BOOLEAN
  BY <1>1, <1>2, <1>t DEF Desc
<1> HIDE DEF e, new, ring2, c2
<1>8. e \in RxState
  BY <1>1, <1>4, <1>5 DEF RxState, e
<1>9. /\ e.ring = ring2 /\ e.RDT = d.RDT /\ e.RDH = d.RDH /\ e.due = due2
      /\ e.overrun = d.overrun /\ e.within = d.within /\ e.link = d.link /\ e.RCTL = d.RCTL
      /\ e.rxbuf_size = d.rxbuf_size /\ SameCount(d, e)
  BY <1>1 DEF RxState, SameCount, e
<1>10. Typed(e) /\ Counted(e)
  BY <1>1, <1>8, <1>9 DEF Typed, Counted, SameCount
<1>11. ASSUME ~e.overrun
       PROVE  /\ Placed(e.ring, e.RDH, e.RDT, c2) /\ Accepted(e.ring, e.RDH, e.due, c2, p2)
              /\ Told(e.link.irq.ICR, e.RDH, c2, TRUE) /\ w2
  <2>1. Placed(d.ring, d.RDH, d.RDT, c) /\ Accepted(d.ring, d.RDH, d.due, c, p) /\ w
    BY <1>9, <1>11 DEF Received
  <2>2. h \in Nat /\ t \in Nat /\ h < N /\ t < N
    <3>1. h \in Indexes /\ t \in Indexes
      BY <1>1, DistIs
    <3> QED
      BY <1>0, <3>1 DEF Indexes
  <2>3. h <= t /\ \A k \in Indexes : d.ring[k].DD <=> Dist(k, c) < h
    BY <2>1 DEF Placed
  <2>4. \A k \in Indexes : /\ Dist(k, c) \in 0..(N - 1) /\ (Dist(k, c) = 0 <=> k = c)
                           /\ Dist(k, c2) = IF Dist(k, c) = 0 THEN N - 1 ELSE Dist(k, c) - 1
    <3> SUFFICES ASSUME NEW k \in Indexes
                 PROVE  /\ Dist(k, c) \in 0..(N - 1) /\ (Dist(k, c) = 0 <=> k = c)
                        /\ Dist(k, c2) = IF Dist(k, c) = 0 THEN N - 1 ELSE Dist(k, c) - 1
      OBVIOUS
    <3>1. /\ Dist(k, c) = (IF k < c THEN k + N - c ELSE k - c)
          /\ Dist(k, c2) = (IF k < c2 THEN k + N - c2 ELSE k - c2)
      BY <1>1, <1>6, DistIs
    <3>2. k \in 0..(N - 1) /\ c \in 0..(N - 1)
      BY <1>1 DEF Indexes
    <3>3. Dist(k, c) \in 0..(N - 1) /\ (Dist(k, c) = 0 <=> k = c)
      BY <1>0, <3>1, <3>2
    <3>4. CASE c + 1 < N
      BY <1>0, <1>6, <3>1, <3>2, <3>4
    <3>5. CASE ~(c + 1 < N)
      <4>1. c = N - 1 /\ c2 = 0
        BY <1>0, <1>6, <3>2, <3>5
      <4> QED
        BY <1>0, <3>1, <3>2, <4>1
    <3> QED
      BY <3>3, <3>4, <3>5
  <2>5. h > 0
    <3>1. Dist(c, c) = 0 /\ Dist(c, c) < h
      BY <1>1, <2>3, <2>4
    <3> HIDE DEF h
    <3> QED
      BY <3>1
  <2>6. Dist(d.RDH, c2) = h - 1 /\ Dist(d.RDT, c2) = t - 1
    <3>1. h # 0 /\ t # 0
      BY <2>2, <2>3, <2>5
    <3> QED
      BY <1>1, <2>4, <3>1
  <2> HIDE DEF h, t
  <2>7. Placed(ring2, d.RDH, d.RDT, c2)
    <3>1. h - 1 <= t - 1
      BY <2>2, <2>3
    <3>2. ASSUME NEW k \in Indexes PROVE ring2[k].DD <=> Dist(k, c2) < h - 1
      <4>1. CASE k = c
        <5>1. Dist(k, c2) = N - 1 /\ ~ring2[k].DD
          BY <1>4, <2>4, <4>1
        <5> QED
          BY <1>0, <2>2, <5>1
      <4>2. CASE k # c
        <5>1. Dist(k, c2) = Dist(k, c) - 1 /\ ring2[k] = d.ring[k] /\ Dist(k, c) \in Int
          BY <1>0, <1>4, <2>4, <4>2
        <5>2. d.ring[k].DD <=> Dist(k, c) < h
          BY <2>3
        <5>3. Dist(k, c) < h <=> Dist(k, c) - 1 < h - 1
          BY <2>2, <5>1
        <5> QED
          BY <5>1, <5>2, <5>3
      <4> QED
        BY <4>1, <4>2
    <3> QED
      BY <2>6, <3>1, <3>2 DEF Placed
  <2>8. PICK acc, cnt : Reads(d.ring, h, d.due, c, acc, cnt) /\ acc[0] = p /\ cnt[0] = 0
    BY <2>1 DEF Accepted, h
  <2>9. /\ ends => d.due # <<>> /\ got = Head(d.due)
        /\ \E acc2, cnt2 : /\ Reads(ring2, h - 1, due2, c2, acc2, cnt2)
                           /\ acc2[0] = p2 /\ cnt2[0] = 0
    <3> DEFINE r == d.ring
               q == d.due
    <3>1. q \in Seq(Nat) /\ Reads(r, h, q, c, acc, cnt) /\ cnt[0] = 0
      BY <1>1, <2>8
    <3>2. Taking(r[c], acc[0], q, ends, got, due2)
      BY <1>p, <2>8
    <3>3. OnlyAt(r, ring2, c)
      BY <1>4 DEF OnlyAt
    <3> HIDE DEF r, q
    <3>4. c \in Indexes /\ h \in Nat /\ h > 0 /\ h < N
      BY <1>1, <2>2, <2>5
    <3>5. Advancing(r, ring2, h, q, c, acc, cnt, ends, got, due2)
      BY <3>1, <3>2, <3>3, <3>4 DEF Advancing
    <3>6. Advanced(ring2, h, q, c, ends, got, due2)
      BY <3>5, ReadsAdvanced
    <3> QED
      BY <3>6 DEF q, c2, Advanced
  <2>10. Accepted(ring2, d.RDH, due2, c2, p2)
    BY <2>6, <2>9 DEF Accepted
  <2>11. Told(e.link.irq.ICR, e.RDH, c2, TRUE)
    BY DEF Told
  <2> QED
    BY <1>9, <2>1, <2>7, <2>9, <2>10, <2>11
<1>12. TRUE \in BOOLEAN
  OBVIOUS
<1> HIDE DEF p2, w2
<1>13. Received(e, c2, p2, TRUE, w2)
  BY <1>1, <1>6, <1>7, <1>9, <1>10, <1>11, <1>12 DEF Received
<1> QED
  BY <1>3, <1>13, <1>p DEF c2, p2, w2
-----------------------------------------------------------------------------
(* The other steps                                                         *)

(* After a reset nothing is done, nothing is due and nothing is counted.   *)
LEMMA ResetReceived ==
    ASSUME NEW l, Linked(l), NEW size \in Nat
    PROVE  Received(ResetRx(l, size), 0, 0, FALSE, TRUE)
<1> DEFINE d == ResetRx(l, size)
           ring == [k \in 0..(N - 1) |-> FreshDesc]
           z == [i \in 0..0 |-> 0]
           M == 2 ^ W
<1>0. N \in Nat /\ N > 1 /\ M \in Nat /\ M > 64
  BY RxAssumption
<1>1. /\ d.link = l /\ d.RCTL = NoRctl /\ d.rxbuf_size = size /\ d.RDH = 0 /\ d.RDT = 0
      /\ d.GPRC = 0 /\ d.TPR = 0 /\ d.TORL = 0 /\ d.TORH = 0
      /\ d.count.frames = 0 /\ d.count.octets = 0 /\ d.count.tags = 0
      /\ d.ring = ring /\ d.due = <<>> /\ d.within
  BY DEF ResetRx, NoCount
<1>2. 0 \in Indexes /\ 0 \in Words /\ NoRctl \in RctlBits /\ ~NoRctl.EN
  <2>1. 0 \in 0..(M - 1)
    <3> HIDE DEF M
    <3> QED
      BY <1>0
  <2> QED
    BY <1>0, <2>1 DEF Indexes, Words, NoRctl, RctlBits, M
<1>3. ring \in [Indexes -> Desc]
  BY DEF Indexes, FreshDesc, Desc
<1>4. d \in RxState
  <2> HIDE DEF ring
  <2>1. d = [link |-> l, RCTL |-> NoRctl, VME |-> FALSE, RDH |-> 0, RDT |-> 0,
             rxbuf_size |-> size, rxbuf_min_shift |-> 1,
             GPRC |-> 0, TPR |-> 0, TORL |-> 0, TORH |-> 0,
             ring |-> ring, due |-> <<>>,
             count |-> NoCount, overrun |-> FALSE, within |-> TRUE]
    BY DEF ResetRx, ring
  <2>2. l \in LinkState /\ <<>> \in Seq(Nat) /\ NoCount \in Count
    BY DEF Linked, NoCount, Count
  <2> QED
    BY <1>2, <1>3, <2>1, <2>2 DEF RxState
<1> HIDE DEF d
<1>5. Typed(d)
  BY <1>1, <1>2, <1>4 DEF Typed
<1>6. Counted(d)
  <2>1. 0 % M = 0 /\ 0 * M + 0 = 0
    <3> HIDE DEF M
    <3> QED
      BY <1>0
  <2>2. 0 % (M * M) = 0
    <3> DEFINE MM == M * M
    <3>1. MM \in Nat /\ MM > 0
      <4> HIDE DEF M
      <4> QED
        BY <1>0
    <3> HIDE DEF MM
    <3>2. 0 % MM = 0
      BY <3>1
    <3> QED
      BY <3>2 DEF MM
  <2> QED
    BY <1>1, <2>1, <2>2 DEF Counted, M
<1>7. Dist(0, 0) = 0
  BY <1>0, <1>2, DistIs
<1>8. Placed(ring, 0, 0, 0)
  <2>1. \A k \in Indexes : ~ring[k].DD
    BY DEF FreshDesc, Indexes
  <2>2. \A k \in Indexes : Dist(k, 0) \in Nat
    <3>1. \A k \in Indexes : Dist(k, 0) \in Indexes
      BY <1>2, DistIs
    <3>2. Indexes \subseteq Nat
      BY <1>0 DEF Indexes
    <3> QED
      BY <3>1, <3>2
  <2> HIDE DEF ring
  <2> QED
    BY <1>7, <2>1, <2>2 DEF Placed
<1>9. Accepted(ring, 0, <<>>, 0, 0)
  <2>1. z \in [0..0 -> Nat] /\ z \in [0..0 -> 0..Len(<<>>)] /\ z[0] = 0
    OBVIOUS
  <2>2. Reads(ring, 0, <<>>, 0, z, z)
    <3>1. \A i \in 0..(0 - 1) : FALSE
      OBVIOUS
    <3>2. \A i, j \in 0..0 : i <= j => z[i] <= z[j]
      OBVIOUS
    <3>3. Len(<<>>) = 0
      OBVIOUS
    <3> HIDE DEF z, ring
    <3> QED
      BY <2>1, <3>1, <3>2, <3>3 DEF Reads
  <2> QED
    BY <1>7, <2>1, <2>2 DEF Accepted
<1>10. Told(d.link.irq.ICR, 0, 0, FALSE)
  BY <1>7 DEF Told
<1> QED
  BY <1>1, <1>2, <1>5, <1>6, <1>8, <1>9, <1>10 DEF Received, d

(* RCTL sets the size of the buffers, which is never 0.                    *)
LEMMA BufferSize ==
    ASSUME NEW v \in RctlBits
    PROVE  rxbufsize(v) \in Nat /\ rxbufsize(v) > 0 /\ v.RDMTS + 1 \in Nat
<1>1. v.SZ \in 0..3 /\ v.RDMTS \in 0..3 /\ v.BSEX \in BOOLEAN
  BY DEF RctlBits
<1>2. v.SZ = 0 \/ v.SZ = 1 \/ v.SZ = 2 \/ v.SZ = 3
  BY <1>1
<1>3. \A a, b, c : <<a, b, c>>[1] = a /\ <<a, b, c>>[2] = b /\ <<a, b, c>>[3] = c
  OBVIOUS
<1>4. rxbufsize(v) \in {2048, 16384, 8192, 4096, 1024, 512, 256}
  BY <1>2, <1>3 DEF rxbufsize
<1>5. v.RDMTS + 1 \in Nat
  BY <1>1
<1> QED
  BY <1>4, <1>5

(* Frames already in the ring keep their lengths when RCTL changes.        *)
LEMMA RctlReceived ==
    ASSUME NEW d, NEW c, NEW p, NEW pol, NEW w, Received(d, c, p, pol, w), NEW v \in RctlBits
    PROVE  Received([d EXCEPT !.RCTL = v, !.rxbuf_size = rxbufsize(v),
                              !.rxbuf_min_shift = v.RDMTS + 1], c, p, pol, w)
<1> DEFINE size == rxbufsize(v)
           shift == v.RDMTS + 1
           e == [d EXCEPT !.RCTL = v, !.rxbuf_size = size, !.rxbuf_min_shift = shift]
<1>1. size \in Nat /\ size > 0 /\ shift \in Nat
  BY BufferSize
<1>2. d \in RxState /\ Linked(d.link)
  BY DEF Received, Typed
<1> HIDE DEF size, shift
<1>3. e \in RxState
  BY <1>1, <1>2 DEF RxState
<1>4. /\ e.link = d.link /\ e.RCTL = v /\ e.rxbuf_size = size /\ e.RDH = d.RDH /\ e.RDT = d.RDT
      /\ e.ring = d.ring /\ e.due = d.due /\ e.overrun = d.overrun /\ e.within = d.within
      /\ SameCount(d, e)
  BY <1>2 DEF RxState, SameCount
<1> HIDE DEF e
<1>5. Typed(e)
  BY <1>1, <1>2, <1>3, <1>4 DEF Typed
<1>6. Counted(e)
  BY <1>4 DEF Received, Counted, SameCount
<1>7. Received(e, c, p, pol, w)
  BY <1>4, <1>5, <1>6 DEF Received
<1> QED
  BY <1>7 DEF e, size, shift

(* So they do when CTRL changes.                                           *)
LEMMA VmeReceived ==
    ASSUME NEW d, NEW c, NEW p, NEW pol, NEW w, Received(d, c, p, pol, w), NEW vme \in BOOLEAN
    PROVE  Received([d EXCEPT !.VME = vme], c, p, pol, w)
<1> DEFINE e == [d EXCEPT !.VME = vme]
<1>2. d \in RxState /\ Linked(d.link) /\ (d.RCTL.EN => d.rxbuf_size > 0)
  BY DEF Received, Typed
<1>3. e \in RxState
  BY <1>2 DEF RxState
<1>4. /\ e.link = d.link /\ e.RCTL = d.RCTL /\ e.rxbuf_size = d.rxbuf_size /\ e.RDH = d.RDH
      /\ e.RDT = d.RDT /\ e.ring = d.ring /\ e.due = d.due /\ e.overrun = d.overrun
      /\ e.within = d.within
      /\ SameCount(d, e)
  BY <1>2 DEF RxState, SameCount
<1> HIDE DEF e
<1>5. Typed(e)
  BY <1>2, <1>3, <1>4 DEF Typed
<1>6. Counted(e)
  BY <1>4 DEF Received, Counted, SameCount
<1>7. Received(e, c, p, pol, w)
  BY <1>4, <1>5, <1>6 DEF Received
<1> QED
  BY <1>7 DEF e

(* Statistics that have been read start again together.                    *)
LEMMA StatisticsReceived ==
    ASSUME NEW d, NEW c, NEW p, NEW pol, NEW w, Received(d, c, p, pol, w)
    PROVE  Received([d EXCEPT !.GPRC = 0, !.TPR = 0, !.TORH = 0, !.TORL = 0,
                              !.count = NoCount], c, p, pol, w)
<1> DEFINE none == NoCount
           e == [d EXCEPT !.GPRC = 0, !.TPR = 0, !.TORH = 0, !.TORL = 0, !.count = none]
           M == 2 ^ W
<1>0. M \in Nat /\ M > 64
  BY RxAssumption
<1>1. none \in Count /\ none.frames = 0 /\ none.octets = 0 /\ none.tags = 0
  BY DEF NoCount, Count
<1>2. d \in RxState /\ Linked(d.link) /\ (d.RCTL.EN => d.rxbuf_size > 0)
  BY DEF Received, Typed
<1> HIDE DEF none
<1>3. 0 \in Words
  <2>1. 0 \in 0..(M - 1)
    <3> HIDE DEF M
    <3> QED
      BY <1>0
  <2> QED
    BY <2>1 DEF Words
<1>4. e \in RxState
  BY <1>1, <1>2, <1>3 DEF RxState
<1>5. /\ e.link = d.link /\ e.RCTL = d.RCTL /\ e.rxbuf_size = d.rxbuf_size /\ e.RDH = d.RDH
      /\ e.RDT = d.RDT /\ e.ring = d.ring /\ e.due = d.due /\ e.overrun = d.overrun
      /\ e.within = d.within
      /\ e.GPRC = 0 /\ e.TPR = 0 /\ e.TORL = 0 /\ e.TORH = 0 /\ e.count = none
  BY <1>2 DEF RxState
<1> HIDE DEF e
<1>6. Typed(e)
  BY <1>2, <1>4, <1>5 DEF Typed
<1>7. Counted(e)
  <2>1. 0 % M = 0 /\ 0 * M + 0 = 0
    <3> HIDE DEF M
    <3> QED
      BY <1>0
  <2>2. 0 % (M * M) = 0
    <3> DEFINE MM == M * M
    <3>1. MM \in Nat /\ MM > 0
      <4> HIDE DEF M
      <4> QED
        BY <1>0
    <3> HIDE DEF MM
    <3>2. 0 % MM = 0
      BY <3>1
    <3> QED
      BY <3>2 DEF MM
  <2> QED
    BY <1>1, <1>5, <2>1, <2>2 DEF Counted, M
<1>8. Received(e, c, p, pol, w)
  BY <1>5, <1>6, <1>7 DEF Received
<1> QED
  BY <1>8 DEF e, none

(* A driver that reads the receive cause polls from then on.               *)
LEMMA IcrReceived ==
    ASSUME NEW d, NEW c, NEW p, NEW pol, NEW w, Received(d, c, p, pol, w)
    PROVE  Received([d EXCEPT !.link.irq = mac_icr_read(@)], c, p,
                    pol \/ "RXT0" \in d.link.irq.ICR, w)
<1> DEFINE i == mac_icr_read(d.link.irq)
           l == [d.link EXCEPT !.irq = i]
           e == [d EXCEPT !.link = l]
           pol2 == pol \/ "RXT0" \in d.link.irq.ICR
<1>1. Typed(d) /\ d \in RxState /\ d.link \in LinkState /\ Linked(d.link)
  BY DEF Received, Typed, Linked
<1>2. d.link.irq \in IrqState
  BY <1>1 DEF LinkState
<1>3. i \in IrqState
  BY <1>2, IcrReadType
<1>4. [d EXCEPT !.link.irq = mac_icr_read(@)] = e
  BY <1>1
<1> HIDE DEF i
<1>5. Linked(l)
  BY <1>1, <1>3, IrqLinked
<1> HIDE DEF l
<1>6. Typed(e) /\ SameRing(d, e) /\ SameCount(d, e)
  BY <1>1, <1>5, WithLink
<1> HIDE DEF e
<1>7. Counted(e)
  BY <1>6 DEF Received, Counted, SameCount
<1>8. ASSUME ~e.overrun
      PROVE  /\ Placed(e.ring, e.RDH, e.RDT, c) /\ Accepted(e.ring, e.RDH, e.due, c, p)
             /\ Told(e.link.irq.ICR, e.RDH, c, pol2) /\ w
  BY <1>6, <1>8 DEF Received, SameRing, Told
<1>9. pol2 \in BOOLEAN
  OBVIOUS
<1>10. Received(e, c, p, pol2, w)
  BY <1>6, <1>7, <1>8, <1>9 DEF Received, SameRing
<1> QED
  BY <1>4, <1>10
-----------------------------------------------------------------------------
(* The invariant                                                           *)

(* The device starts as a reset leaves it.                                 *)
LEMMA InitRxInv == Init => RxInv
<1>1. \A down \in BOOLEAN : Received(ResetRx(ResetLink(down), 0), 0, 0, FALSE, TRUE)
  <2> SUFFICES ASSUME NEW down \in BOOLEAN
               PROVE  Received(ResetRx(ResetLink(down), 0), 0, 0, FALSE, TRUE)
    OBVIOUS
  <2> QED
    BY ResetLinked, ResetReceived
<1>2. FALSE \in BOOLEAN /\ <<>> \in Seq(Frames)
  OBVIOUS
<1>3. Received(ResetRx(ResetLink(FALSE), 0), 0, 0, FALSE, TRUE)
  BY <1>1, <1>2, Zenon
<1> QED
  BY <1>2, <1>3, Zenon DEF Init, RxInv

(* One step per operation of the host, the device and the driver.          *)
LEMMA NextRxInv == RxInv /\ [Next]_vars => RxInv'
<1> SUFFICES ASSUME RxInv, [Next]_vars PROVE RxInv'
  OBVIOUS
<1>1. Received(s, clean, part, polling, whole) /\ queue \in Seq(Frames)
  BY DEF RxInv
<1>2. /\ Typed(s) /\ s \in RxState /\ Linked(s.link) /\ s.rxbuf_size \in Nat
      /\ s.link.link_down \in BOOLEAN /\ clean \in Indexes /\ part \in Nat
      /\ polling \in BOOLEAN /\ whole \in BOOLEAN
  BY <1>1 DEF Received, Typed, RxState, Linked, LinkState
<1>e. <<>> \in Seq(Frames)
  OBVIOUS
<1>s. ASSUME Received(s', clean, part, polling, whole), queue' \in Seq(Frames),
             UNCHANGED driver
      PROVE  RxInv'
  BY <1>s DEF RxInv, driver
<1>3. CASE HostSend
  <2>1. PICK f \in Frames :
          IF ~e1000_can_receive(s)
          THEN /\ queue' = IF Len(queue) >= nq_maxlen THEN queue ELSE Append(queue, f)
               /\ s' = s
          ELSE /\ s' = Flush(qemu_deliver_packet(s, f))
               /\ queue' = <<>>
    BY <1>3 DEF HostSend
  <2>2. UNCHANGED driver
    BY <1>3 DEF HostSend
  <2>3. CASE ~e1000_can_receive(s)
    <3>1. queue' \in Seq(Frames)
      BY <1>1, <2>1, <2>3
    <3> QED
      BY <1>1, <1>s, <2>1, <2>2, <2>3, <3>1
  <2>4. CASE e1000_can_receive(s)
    <3>1. Received(qemu_deliver_packet(s, f), clean, part, polling, whole)
      BY <1>1, DeliverReceived
    <3>2. Received(Flush(qemu_deliver_packet(s, f)), clean, part, polling, whole)
      BY <1>1, <3>1, FlushReceived
    <3> QED
      BY <1>e, <1>s, <2>1, <2>2, <2>4, <3>2
  <2> QED
    BY <2>3, <2>4
<1>4. CASE WriteRCTL
  <2>1. PICK v \in RctlValues : set_rx_control(v) /\ UNCHANGED <<sent, driver>>
    BY <1>4 DEF WriteRCTL
  <2> DEFINE d == [s EXCEPT !.RCTL = v, !.rxbuf_size = rxbufsize(v),
                            !.rxbuf_min_shift = v.RDMTS + 1]
  <2>2. v \in RctlBits
    BY RxAssumption
  <2>3. Received(d, clean, part, polling, whole)
    BY <1>1, <2>2, RctlReceived
  <2>4. s' = Flush(d) /\ queue' = <<>> /\ UNCHANGED driver
    BY <2>1 DEF set_rx_control
  <2> HIDE DEF d
  <2>5. Received(Flush(d), clean, part, polling, whole)
    BY <1>1, <2>3, FlushReceived
  <2> QED
    BY <1>e, <1>s, <2>4, <2>5
<1>5. CASE WriteCTRL
  <2>1. PICK vme \in BOOLEAN : s' = [s EXCEPT !.VME = vme] /\ UNCHANGED <<queue, sent, driver>>
    BY <1>5 DEF WriteCTRL
  <2>2. Received(s', clean, part, polling, whole)
    BY <1>1, <2>1, VmeReceived
  <2> QED
    BY <1>1, <1>s, <2>1, <2>2
<1>6. CASE PostBuffers
  <2> DEFINE Posted(n, null) == [k \in 0..(N - 1) |-> IF (k + N - s.RDT) % N < n
                                                      THEN [s.ring[k] EXCEPT !.null = null]
                                                      ELSE s.ring[k]]
  <2>1. PICK n \in 1..Free, null \in Nulls :
          /\ set_rdt([s EXCEPT !.ring = Posted(n, null)], (s.RDT + n) % N)
          /\ UNCHANGED driver
    BY <1>6 DEF PostBuffers
  <2> DEFINE ring2 == Posted(n, null)
             rdt == (s.RDT + n) % N
             d == [s EXCEPT !.ring = ring2]
             t == [s EXCEPT !.ring = ring2, !.RDT = rdt]
  <2>2. n \in 1..((clean + N - s.RDT - 1) % N) /\ null \in BOOLEAN
    BY RxAssumption DEF Free
  <2>3. Received(t, clean, part, polling, whole)
    BY <1>1, <2>2, PostReceived
  <2>4. [d EXCEPT !.RDT = rdt] = t
    <3> HIDE DEF ring2, rdt
    <3> QED
      BY <1>2 DEF RxState
  <2>5. set_rdt(d, rdt) /\ UNCHANGED driver
    BY <2>1
  <2> HIDE DEF d, rdt, ring2
  <2>6. \/ s' = Flush(t) /\ queue' = <<>>
        \/ s' = t /\ queue' = queue
    BY <2>4, <2>5 DEF set_rdt
  <2> HIDE DEF t
  <2>7. Received(Flush(t), clean, part, polling, whole)
    BY <1>1, <2>3, FlushReceived
  <2> QED
    BY <1>1, <1>e, <1>s, <2>3, <2>5, <2>6, <2>7
<1>7. CASE ReadICR
  <2> DEFINE d == [s EXCEPT !.link.irq = mac_icr_read(@)]
             pol == polling \/ "RXT0" \in s.link.irq.ICR
  <2>1. /\ s' = d /\ polling' = pol
        /\ queue' = queue /\ clean' = clean /\ part' = part /\ whole' = whole
    BY <1>7 DEF ReadICR
  <2>2. Received(d, clean, part, pol, whole)
    BY <1>1, IcrReceived
  <2> HIDE DEF d, pol
  <2> QED
    BY <1>1, <2>1, <2>2 DEF RxInv
<1>8. CASE Clean
  <2> DEFINE desc == s.ring[clean]
             ends == desc.EOP /\ ~desc.null
             got  == IF desc.null THEN part ELSE part + desc.length
             due2 == IF ends /\ s.due # <<>> THEN Tail(s.due) ELSE s.due
             d == [s EXCEPT !.ring[clean].DD = FALSE, !.ring[clean].length = 0, !.due = due2]
             w2 == whole /\ (ends => s.due # <<>> /\ got = Head(s.due))
             p2 == IF ends THEN 0 ELSE got
  <2>1. polling /\ queue' = queue
    BY <1>8 DEF Clean
  <2>2. CASE ~desc.DD
    <3>1. polling' = FALSE /\ s' = s /\ clean' = clean /\ part' = part /\ whole' = whole
      BY <1>8, <2>2 DEF Clean
    <3>2. ASSUME ~s.overrun PROVE Told(s.link.irq.ICR, s.RDH, clean, FALSE)
      <4>1. Placed(s.ring, s.RDH, s.RDT, clean)
        BY <1>1, <3>2 DEF Received
      <4>2. ~(Dist(clean, clean) < Dist(s.RDH, clean))
        BY <1>2, <2>2, <4>1 DEF Placed
      <4>3. Dist(clean, clean) = 0
        BY <1>2, DistIs, RxAssumption DEF Indexes
      <4> QED
        BY <4>2, <4>3 DEF Told
    <3>3. Received(s, clean, part, FALSE, whole)
      BY <1>1, <3>2 DEF Received
    <3> QED
      BY <1>1, <2>1, <3>1, <3>3 DEF RxInv
  <2>3. CASE desc.DD
    <3>1. /\ s' = d /\ clean' = (clean + 1) % N /\ part' = p2 /\ whole' = w2 /\ polling' = TRUE
      <4>1. [s EXCEPT !.ring[clean].DD = FALSE, !.ring[clean].length = 0,
                      !.due = IF ends /\ @ # <<>> THEN Tail(@) ELSE @] = d
        BY <1>2 DEF RxState
      <4>2. /\ s' = [s EXCEPT !.ring[clean].DD = FALSE, !.ring[clean].length = 0,
                             !.due = IF ends /\ @ # <<>> THEN Tail(@) ELSE @]
            /\ clean' = (clean + 1) % N /\ part' = p2 /\ whole' = w2 /\ polling' = TRUE
        BY <1>8, <2>3, Zenon DEF Clean
      <4> QED
        BY <4>1, <4>2
    <3>2. CleanStep(s, clean, part, whole, d, p2, w2)
      <4>1. PICK b \in BOOLEAN : b <=> ends
        OBVIOUS
      <4>2. Taking(s.ring[clean], part, s.due, b, got, due2)
        BY <4>1 DEF Taking
      <4>3. /\ d = [s EXCEPT !.ring[clean].DD = FALSE, !.ring[clean].length = 0, !.due = due2]
            /\ p2 = IF b THEN 0 ELSE got
            /\ w2 = (whole /\ (b => s.due # <<>> /\ got = Head(s.due)))
        BY <4>1
      <4> HIDE DEF d, p2, w2, got, due2
      <4> QED
        BY <4>2, <4>3 DEF CleanStep
    <3> HIDE DEF d, p2, w2
    <3>3. Received(d, At(clean, 1), p2, TRUE, w2)
      BY <1>1, <2>3, <3>2, CleanReceived
    <3>4. Received(d, (clean + 1) % N, p2, TRUE, w2)
      BY <3>3 DEF At
    <3> QED
      BY <1>1, <2>1, <3>1, <3>4 DEF RxInv
  <2> QED
    BY <2>2, <2>3
<1>9. CASE ReadStatistics
  <2>1. /\ s' = [s EXCEPT !.GPRC = 0, !.TPR = 0, !.TORH = 0, !.TORL = 0,
                          !.count = NoCount]
        /\ queue' = queue /\ UNCHANGED driver
    BY <1>9 DEF ReadStatistics
  <2>2. Received(s', clean, part, polling, whole)
    BY <1>1, <2>1, StatisticsReceived
  <2> QED
    BY <1>1, <1>s, <2>1, <2>2
<1>10. CASE SetLink
  <2>1. PICK up \in BOOLEAN :
          s' = [s EXCEPT !.link = e1000_set_link_status([@ EXCEPT !.link_down = ~up])]
    BY <1>10 DEF SetLink
  <2> DEFINE down == ~up
             l == e1000_set_link_status([s.link EXCEPT !.link_down = down])
  <2>2. s' = [s EXCEPT !.link = l] /\ queue' = queue /\ UNCHANGED driver
    BY <1>10, <2>1 DEF SetLink
  <2>3. down \in BOOLEAN
    OBVIOUS
  <2> HIDE DEF down
  <2>4. Linked(l) /\ s.link.irq.ICR \subseteq l.irq.ICR
    BY <1>2, <2>3, SetLinkLinked, SetLinkIcr
  <2> HIDE DEF l
  <2>5. Received(s', clean, part, polling, whole)
    BY <1>1, <2>2, <2>4, LinkReceived
  <2> QED
    BY <1>1, <1>s, <2>2, <2>5
<1>11. CASE RestartAutoneg
  <2> DEFINE data == CtrlBits \cup {"LOOPBACK"}
             l == set_mdic(s.link, TRUE, "WRITE", "PHY_CTRL", data, FALSE)
  <2>1. s' = [s EXCEPT !.link = l] /\ queue' = queue /\ UNCHANGED driver
    BY <1>11 DEF RestartAutoneg
  <2>2. data \in SUBSET PhyBits /\ "PHY_CTRL" \in PhyRegs
    BY DEF PhyBits, PhyRegs
  <2> HIDE DEF data
  <2>3. Linked(l) /\ l.irq = s.link.irq
    BY <1>2, <2>2, SetMdicLinked, RestartIrq
  <2> HIDE DEF l
  <2>4. Received(s', clean, part, polling, whole)
    BY <1>1, <2>1, <2>3, LinkReceived
  <2> QED
    BY <1>1, <1>s, <2>1, <2>4
<1>12. CASE AutonegTimer
  <2> DEFINE l == e1000_autoneg_timer([s.link EXCEPT !.autoneg_timer = FALSE])
  <2>1. s' = [s EXCEPT !.link = l] /\ queue' = queue /\ UNCHANGED driver
    BY <1>12 DEF AutonegTimer
  <2>2. Linked(l) /\ l.irq = s.link.irq
    BY <1>2, AutonegLinked, AutonegIrq
  <2> HIDE DEF l
  <2>3. Received(s', clean, part, polling, whole)
    BY <1>1, <2>1, <2>2, LinkReceived
  <2> QED
    BY <1>1, <1>s, <2>1, <2>3
<1>13. CASE SendLooped
  <2>1. PICK f \in Frames : s' = e1000_receive_iov(s, f)
    BY <1>13 DEF SendLooped
  <2>2. queue' = queue /\ UNCHANGED driver
    BY <1>13 DEF SendLooped
  <2>3. Received(s', clean, part, polling, whole)
    BY <1>1, <2>1, ReceiveReceived
  <2> QED
    BY <1>1, <1>s, <2>2, <2>3
<1>14. CASE Reset
  <2> DEFINE l == ResetLink(s.link.link_down)
  <2>1. /\ s' = ResetRx(l, s.rxbuf_size) /\ queue' = queue
        /\ clean' = 0 /\ part' = 0 /\ polling' = FALSE /\ whole' = TRUE
    BY <1>14 DEF Reset
  <2>2. Linked(l)
    BY <1>2, ResetLinked
  <2> HIDE DEF l
  <2>3. Received(ResetRx(l, s.rxbuf_size), 0, 0, FALSE, TRUE)
    BY <1>2, <2>2, ResetReceived
  <2> QED
    BY <1>1, <2>1, <2>3 DEF RxInv
<1>15. CASE Migrate
  <2> DEFINE q == PreSaveLink(s.link)
             l == PostLoadLink(q)
  <2>1. s' = [s EXCEPT !.link = l] /\ queue' = <<>> /\ UNCHANGED driver
    BY <1>15 DEF Migrate
  <2>2. Linked(q) /\ q.irq.ICR = s.link.irq.ICR
    BY <1>2, PreSaveLinked, MigrateIcr
  <2> HIDE DEF q
  <2>3. Linked(l) /\ l.irq.ICR = q.irq.ICR
    BY <2>2, PostLoadLinked, MigrateIcr
  <2> HIDE DEF l
  <2>4. Received(s', clean, part, polling, whole)
    BY <1>1, <2>1, <2>2, <2>3, LinkReceived
  <2> QED
    BY <1>e, <1>s, <2>1, <2>4
<1>16. CASE UNCHANGED vars
  BY <1>1, <1>16 DEF RxInv, vars
<1> QED
  BY <1>3, <1>4, <1>5, <1>6, <1>7, <1>8, <1>9, <1>10, <1>11, <1>12, <1>13, <1>14, <1>15, <1>16
     DEF Next

(* Reception keeps its invariant, for every ring, every mix of frames and  *)
(* every order of host, device, driver, reset and migration.               *)
THEOREM RxInvariant == Spec => []RxInv
<1> QED
  BY InitRxInv, NextRxInv, PTL DEF Spec

(* What the driver puts together are the frames the device accepted, in    *)
(* order, whole and once (e1000_receive_iov), until null buffers take the  *)
(* head past the tail.                                                     *)
THEOREM DriverSeesAcceptedHolds == Spec => []DriverSeesAccepted
<1>1. RxInv => DriverSeesAccepted
  <2> SUFFICES ASSUME RxInv, ~s.overrun
               PROVE  whole /\ (~s.ring[clean].DD => s.due = <<>> /\ part = 0)
    BY DEF DriverSeesAccepted
  <2> DEFINE h == Dist(s.RDH, clean)
  <2>1. /\ whole /\ clean \in Indexes /\ s.RDH \in Indexes /\ s.due \in Seq(Nat)
        /\ Placed(s.ring, s.RDH, s.RDT, clean) /\ Accepted(s.ring, s.RDH, s.due, clean, part)
    BY DEF RxInv, Received, Typed, RxState
  <2>2. ASSUME ~s.ring[clean].DD PROVE s.due = <<>> /\ part = 0
    <3>1. ~(Dist(clean, clean) < h)
      BY <2>1, <2>2 DEF Placed
    <3>2. Dist(clean, clean) = 0 /\ h \in Nat
      <4>1. Dist(clean, clean) = 0
        BY <2>1, DistIs, RxAssumption DEF Indexes
      <4>2. h \in Indexes
        BY <2>1, DistIs
      <4> QED
        BY <4>1, <4>2, RxAssumption DEF Indexes
    <3>3. PICK acc, cnt : Reads(s.ring, h, s.due, clean, acc, cnt) /\ acc[0] = part /\ cnt[0] = 0
      BY <2>1 DEF Accepted
    <3> HIDE DEF h
    <3>4. h = 0
      BY <3>1, <3>2
    <3>5. acc[h] = 0 /\ cnt[h] = Len(s.due)
      BY <3>3 DEF Reads
    <3>6. part = 0 /\ Len(s.due) = 0
      BY <3>3, <3>4, <3>5
    <3>7. s.due = <<>>
      BY <2>1, <3>6
    <3> QED
      BY <3>6, <3>7
  <2> QED
    BY <2>1, <2>2
<1> QED
  BY <1>1, RxInvariant, PTL

(* No frame fills more buffers than the driver has given.  Until the head  *)
(* runs past the tail, which by this only null buffers that are skipped    *)
(* can cause (e1000.c:1017-1031), no descriptor is marked done but those   *)
(* from the driver's index to the head.                                    *)
THEOREM DeviceStaysBehindTailHolds == Spec => []DeviceStaysBehindTail
<1>1. RxInv => DeviceStaysBehindTail
  BY DEF RxInv, Received, Placed, Dist, Indexes, DeviceStaysBehindTail
<1> QED
  BY <1>1, RxInvariant, PTL

(* No receive wake-up is lost between the ICR read and the ring, until     *)
(* null buffers take the head past the tail.                               *)
THEOREM NoLostReceiveHolds == Spec => []NoLostReceive
<1>1. RxInv => NoLostReceive
  <2> SUFFICES ASSUME RxInv, ~s.overrun, s.ring[clean].DD, ~polling
               PROVE  "RXT0" \in s.link.irq.ICR
    BY DEF NoLostReceive
  <2>1. /\ clean \in Indexes /\ s.RDH \in Indexes
        /\ Placed(s.ring, s.RDH, s.RDT, clean) /\ Told(s.link.irq.ICR, s.RDH, clean, polling)
    BY DEF RxInv, Received, Typed, RxState
  <2>2. Dist(clean, clean) < Dist(s.RDH, clean)
    BY <2>1 DEF Placed
  <2>3. Dist(clean, clean) = 0
    BY <2>1, DistIs, RxAssumption DEF Indexes
  <2>4. Dist(s.RDH, clean) > 0
    BY <2>2, <2>3
  <2> QED
    BY <2>1, <2>4 DEF Told
<1> QED
  BY <1>1, RxInvariant, PTL

(* The statistics count the frames stored and their octets on the wire     *)
(* less the VLAN tags taken out, across carries, for every width of the    *)
(* registers (e1000.c:1033-1042).                                          *)
THEOREM ReceiveStatisticsExactHolds == Spec => []ReceiveStatisticsExact
<1>1. RxInv => ReceiveStatisticsExact
  BY DEF RxInv, Received, Counted, ReceiveStatisticsExact
<1> QED
  BY <1>1, RxInvariant, PTL
(* Whether the device can receive depends on its ring and on its link.     *)
LEMMA SameCanReceive ==
    ASSUME NEW d, NEW e, SameRing(d, e), e.link.LU = d.link.LU, e1000_can_receive(e)
    PROVE  e1000_can_receive(d)
BY DEF SameRing, e1000_can_receive, e1000_has_rxbufs

(* An enabled device with the link up that cannot receive has no buffer,   *)
(* so a frame that comes past e1000_can_receive is not stored.             *)
LEMMA NoRoomForAny ==
    ASSUME NEW d, Typed(d), d.link.LU, d.RCTL.EN, ~e1000_can_receive(d),
           NEW total \in Nat, total > 0
    PROVE  ~e1000_has_rxbufs(d, total)
<1>1. d.rxbuf_size \in Nat /\ d.rxbuf_size > 0 /\ d.RDH \in Int /\ d.RDT \in Int
  BY RxAssumption DEF Typed, RxState, Indexes
<1>2. d.RDH = d.RDT
  BY <1>1 DEF e1000_can_receive, e1000_has_rxbufs
<1>3. 0 * d.rxbuf_size = 0
  BY <1>1
<1> QED
  BY <1>1, <1>2, <1>3 DEF e1000_has_rxbufs

(* Whatever makes the device able to receive again, except a link that     *)
(* comes up, delivers the packets that were queued meanwhile               *)
(* (set_rx_control and set_rdt flush; SendLooped cannot free a buffer).    *)
THEOREM FlushedByDriverHolds == Spec => FlushedByDriver
<1>1. RxInv /\ [Next]_vars =>
        [~e1000_can_receive(s) /\ e1000_can_receive(s') /\ s'.link.LU = s.link.LU
           => queue' = <<>>]_vars
  <2> SUFFICES ASSUME RxInv, Next,
                      ~e1000_can_receive(s), e1000_can_receive(s'), s'.link.LU = s.link.LU
               PROVE  queue' = <<>>
    OBVIOUS
  <2>1. Typed(s) /\ s \in RxState /\ s.link \in LinkState /\ Linked(s.link) /\ clean \in Indexes
    BY DEF RxInv, Received, Typed, RxState
  <2>2. SameRing(s, s') => FALSE
    BY SameCanReceive
  <2>3. ASSUME NEW l, s' = [s EXCEPT !.link = l] PROVE FALSE
    BY <2>1, <2>2, <2>3 DEF RxState, SameRing
  <2>4. CASE HostSend
    <3>1. PICK f \in Frames : IF ~e1000_can_receive(s) THEN s' = s ELSE queue' = <<>>
      BY <2>4 DEF HostSend
    <3> QED
      BY <2>2, <3>1 DEF SameRing
  <2>5. CASE WriteRCTL
    BY <2>5 DEF WriteRCTL, set_rx_control
  <2>6. CASE WriteCTRL
    <3>1. PICK vme \in BOOLEAN : s' = [s EXCEPT !.VME = vme]
      BY <2>6 DEF WriteCTRL
    <3> QED
      BY <2>1, <3>1 DEF RxState, e1000_can_receive, e1000_has_rxbufs
  <2>7. CASE PostBuffers
    <3>1. PICK d, rdt : set_rdt(d, rdt)
      BY <2>7 DEF PostBuffers
    <3>2. queue' = <<>> \/ ~e1000_has_rxbufs(s', 1)
      BY <3>1 DEF set_rdt
    <3> QED
      BY <3>2 DEF e1000_can_receive
  <2>8. CASE ReadICR
    <3> DEFINE l == [s.link EXCEPT !.irq = mac_icr_read(s.link.irq)]
    <3>1. s' = [s EXCEPT !.link = l]
      BY <2>1, <2>8 DEF ReadICR
    <3> QED
      BY <2>3, <3>1
  <2>9. CASE Clean
    <3>1. \/ s' = s
          \/ \E r, due2 : s' = [s EXCEPT !.ring = r, !.due = due2]
      <4> DEFINE desc == s.ring[clean]
                 ends == desc.EOP /\ ~desc.null
                 due2 == IF ends /\ s.due # <<>> THEN Tail(s.due) ELSE s.due
                 r == [s.ring EXCEPT ![clean].DD = FALSE, ![clean].length = 0]
      <4>1. [s EXCEPT !.ring[clean].DD = FALSE, !.ring[clean].length = 0,
                      !.due = IF ends /\ @ # <<>> THEN Tail(@) ELSE @]
            = [s EXCEPT !.ring = r, !.due = due2]
        BY <2>1 DEF RxState
      <4>2. s' = s \/ s' = [s EXCEPT !.ring[clean].DD = FALSE, !.ring[clean].length = 0,
                                     !.due = IF ends /\ @ # <<>> THEN Tail(@) ELSE @]
        BY <2>9, Zenon DEF Clean
      <4> HIDE DEF r, due2
      <4> QED
        BY <4>1, <4>2
    <3> QED
      BY <2>1, <3>1 DEF RxState, e1000_can_receive, e1000_has_rxbufs
  <2>10. CASE ReadStatistics
    <3>1. s' = [s EXCEPT !.GPRC = 0, !.TPR = 0, !.TORH = 0, !.TORL = 0,
                         !.count = NoCount]
      BY <2>10 DEF ReadStatistics
    <3>2. SameRing(s, s')
      BY <2>1, <3>1 DEF RxState, SameRing
    <3> QED
      BY <2>2, <3>2
  <2>11. CASE SetLink
    <3>1. \E l : s' = [s EXCEPT !.link = l]
      BY <2>11 DEF SetLink
    <3> QED
      BY <2>3, <3>1
  <2>12. CASE RestartAutoneg
    <3>1. \E l : s' = [s EXCEPT !.link = l]
      BY <2>12 DEF RestartAutoneg
    <3> QED
      BY <2>3, <3>1
  <2>13. CASE AutonegTimer
    <3>1. \E l : s' = [s EXCEPT !.link = l]
      BY <2>13 DEF AutonegTimer
    <3> QED
      BY <2>3, <3>1
  <2>14. CASE SendLooped
    <3>1. PICK f \in Frames : s' = e1000_receive_iov(s, f)
      BY <2>14 DEF SendLooped
    <3> DEFINE size0 == IF f.size < 60 THEN 60 ELSE f.size
               size  == IF s.VME /\ f.vlan THEN size0 - 4 ELSE size0
    <3>2. size \in Nat /\ size > 0
      BY StoredSize
    <3>3. \/ s' = s
          \/ s' = set_ics_rx(s, {"RXO"})
          \/ s.link.LU /\ s.RCTL.EN /\ e1000_has_rxbufs(s, size + fcs_len(s))
      BY <3>1 DEF e1000_receive_iov
    <3> HIDE DEF size
    <3>4. size + fcs_len(s) \in Nat /\ size + fcs_len(s) > 0
      BY <3>2 DEF fcs_len
    <3>5. {"RXO"} \in SUBSET Causes
      BY RxAssumption
    <3>6. SameRing(s, set_ics_rx(s, {"RXO"}))
      BY <2>1, <3>5, SetIcsRx
    <3> QED
      BY <2>1, <2>2, <3>3, <3>4, <3>6, NoRoomForAny DEF SameRing
  <2>15. CASE Reset
    <3>1. s'.RCTL = NoRctl
      BY <2>15 DEF Reset, ResetRx
    <3> QED
      BY <3>1 DEF NoRctl, e1000_can_receive
  <2>16. CASE Migrate
    BY <2>16 DEF Migrate
  <2> QED
    BY <2>4, <2>5, <2>6, <2>7, <2>8, <2>9, <2>10, <2>11, <2>12, <2>13, <2>14, <2>15, <2>16
       DEF Next
<1> QED
  BY <1>1, RxInvariant, PTL DEF Spec, FlushedByDriver
=============================================================================
