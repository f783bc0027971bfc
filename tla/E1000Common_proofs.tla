-------------------------- MODULE E1000Common_proofs --------------------------
(***************************************************************************)
(* Lemmas that the proofs about the parts of the e1000 share: arithmetic   *)
(* of counters, and the functions of E1000Irq and E1000Phy.  Those keep    *)
(* the shape of the device state, and each of those on the link keeps the  *)
(* three views of it (STATUS.LU, PHY_STATUS and nc->link_down) in step.    *)
(***************************************************************************)
EXTENDS E1000Phy, TLAPS, NaturalsInduction, WellFoundedInduction

-----------------------------------------------------------------------------
(* Arithmetic                                                              *)

(* The least-number principle, for a set.                                  *)
LEMMA LeastNumber ==
    ASSUME NEW T, T \subseteq Nat, T # {}
    PROVE  \E m \in T : \A k \in T : m <= k
<1>1. PICK m \in T : \A k \in T : ~(<<k, m>> \in OpToRel(<, Nat))
  BY WFMin, NatLessThanWellFounded, Zenon
<1>2. \A k \in T : ~(k < m)
  BY <1>1 DEF OpToRel
<1> QED
  BY <1>2

(* Multiplying by a positive number keeps the order.                       *)
LEMMA TimesOrder ==
    ASSUME NEW a \in Int, NEW b \in Int, NEW z \in Nat, z > 0
    PROVE  /\ a <= b => a * z <= b * z
           /\ a * z < b * z => a < b
           /\ (a + 1) * z = a * z + z
OBVIOUS

(* A remainder is the only one.                                            *)
LEMMA RemainderIs ==
    ASSUME NEW x \in Int, NEW q \in Int, NEW m \in Nat, m > 0, NEW r \in 0..(m - 1), x = m * q + r
    PROVE  x % m = r
<1>1. x % m \in 0..(m - 1) /\ x = m * (x \div m) + (x % m) /\ x \div m \in Int
  OBVIOUS
<1> DEFINE p == x \div m
           y == x % m
<1>2. y \in 0..(m - 1) /\ p \in Int /\ x = m * p + y
  BY <1>1
<1> HIDE DEF p, y
<1>3. p = q
  <2>1. ASSUME p < q PROVE FALSE
    <3>1. (p + 1) * m <= q * m /\ (p + 1) * m = p * m + m
      BY <1>2, <2>1, TimesOrder
    <3>2. p * m = m * p /\ q * m = m * q /\ p * m \in Int /\ q * m \in Int
      BY <1>2
    <3> QED
      BY <1>2, <3>1, <3>2
  <2>2. ASSUME q < p PROVE FALSE
    <3>1. (q + 1) * m <= p * m /\ (q + 1) * m = q * m + m
      BY <1>2, <2>2, TimesOrder
    <3>2. p * m = m * p /\ q * m = m * q /\ p * m \in Int /\ q * m \in Int
      BY <1>2
    <3> QED
      BY <1>2, <3>1, <3>2
  <2> QED
    BY <1>2, <2>1, <2>2
<1>4. y = r
  <2>1. m * p = m * q /\ m * q \in Int
    BY <1>3
  <2> QED
    BY <1>2, <2>1
<1> QED
  BY <1>4 DEF y

(* What is added to a number may as well be added to its remainder.        *)
LEMMA RemainderPlus ==
    ASSUME NEW x \in Nat, NEW a \in Nat, NEW m \in Nat, m > 0
    PROVE  (x + a) % m = ((x % m) + a) % m
<1> DEFINE r == x % m
           q == x \div m
           y == (r + a) % m
           k == (r + a) \div m
<1>1. r \in 0..(m - 1) /\ q \in Int /\ x = m * q + r
  OBVIOUS
<1> HIDE DEF r, q
<1>2. y \in 0..(m - 1) /\ k \in Int /\ r + a = m * k + y
  BY <1>1
<1> HIDE DEF y, k
<1>3. m * (q + k) = m * q + m * k
  BY <1>1, <1>2
<1>4. m * q \in Int /\ m * k \in Int /\ q + k \in Int
  BY <1>1, <1>2
<1>5. x + a = m * (q + k) + y
  BY <1>1, <1>2, <1>3, <1>4
<1>6. (x + a) % m = y
  BY <1>2, <1>4, <1>5, RemainderIs
<1> QED
  BY <1>6 DEF y, r

(* The low word lo takes a more, of a sum x kept in two words of m values  *)
(* each; and the sum that the words then hold.                             *)
Adding(m, lo, hi, a, x, n) ==
    /\ m \in Nat /\ m > 0 /\ lo \in 0..(m - 1) /\ hi \in 0..(m - 1) /\ a \in 0..(m - 1)
    /\ x \in Nat /\ hi * m + lo = x % (m * m) /\ n = (lo + a) % m
Carried(m, lo, hi, a, x, n) ==
    (IF n < lo THEN (hi + 1) % m ELSE hi) * m + n = (x + a) % (m * m)

(* The carry between the two words of a counter: the low word has wrapped  *)
(* exactly when it is below what it was.                                   *)
LEMMA Carry ==
    ASSUME NEW m, NEW lo, NEW hi, NEW a, NEW x, NEW n, Adding(m, lo, hi, a, x, n)
    PROVE  Carried(m, lo, hi, a, x, n)
<1> SUFFICES ASSUME m \in Nat, m > 0, lo \in 0..(m - 1), hi \in 0..(m - 1), a \in 0..(m - 1),
                    x \in Nat, hi * m + lo = x % (m * m), n = (lo + a) % m
             PROVE  (IF n < lo THEN (hi + 1) % m ELSE hi) * m + n = (x + a) % (m * m)
  BY Zenon DEF Adding, Carried
<1> DEFINE M2 == m * m
           v == hi * m + lo
<1>1. M2 \in Nat /\ M2 > 0 /\ hi * m \in Int
  OBVIOUS
<1>2. hi * m <= (m - 1) * m /\ (m - 1) * m = M2 - m
  <2>1. (m - 1 + 1) * m = (m - 1) * m + m /\ m - 1 + 1 = m
    BY TimesOrder
  <2>2. hi * m <= (m - 1) * m
    BY TimesOrder
  <2> QED
    BY <2>1, <2>2
<1>3. v \in 0..(M2 - 1)
  <2> HIDE DEF M2
  <2> QED
    BY <1>1, <1>2
<1>4. (x + a) % M2 = (v + a) % M2
  <2>1. x % M2 = v
    OBVIOUS
  <2>2. a \in Nat
    OBVIOUS
  <2> HIDE DEF M2, v
  <2>3. (x + a) % M2 = ((x % M2) + a) % M2
    BY <1>1, <2>2, RemainderPlus
  <2> QED
    BY <2>1, <2>3
<1>5. CASE lo + a < m
  <2>1. n = lo + a
    <3>1. lo + a \in 0..(m - 1) /\ lo + a = m * 0 + (lo + a)
      BY <1>5
    <3> QED
      BY <3>1, RemainderIs
  <2> HIDE DEF M2
  <2>2. v + a \in 0..(M2 - 1) /\ v + a = M2 * 0 + (v + a)
    BY <1>1, <1>2, <1>5
  <2>3. (v + a) % M2 = v + a
    BY <1>1, <2>2, RemainderIs
  <2>4. ~(n < lo)
    BY <2>1
  <2>5. hi * m + n = v + a
    BY <1>1, <2>1
  <2> QED
    BY <1>4, <2>3, <2>4, <2>5 DEF M2
<1>6. CASE lo + a >= m
  <2>1. n = lo + a - m
    <3>1. lo + a - m \in 0..(m - 1) /\ lo + a = m * 1 + (lo + a - m)
      BY <1>6
    <3> QED
      BY <3>1, RemainderIs
  <2>2. n < lo
    BY <2>1
  <2>3. (hi + 1) * m = hi * m + m
    BY TimesOrder
  <2>4. CASE hi + 1 < m
    <3>1. (hi + 1) % m = hi + 1
      <4>1. hi + 1 \in 0..(m - 1) /\ hi + 1 = m * 0 + (hi + 1)
        BY <2>4
      <4> QED
        BY <4>1, RemainderIs
    <3>2. (hi + 1) * m <= (m - 1) * m
      BY <2>4, TimesOrder
    <3> HIDE DEF M2
    <3>3. v + a \in 0..(M2 - 1) /\ v + a = M2 * 0 + (v + a)
      BY <1>1, <1>2, <2>3, <3>2
    <3>4. (v + a) % M2 = v + a
      BY <1>1, <3>3, RemainderIs
    <3>5. (hi + 1) * m + n = v + a
      BY <1>1, <2>1, <2>3
    <3> QED
      BY <1>4, <2>2, <3>1, <3>4, <3>5 DEF M2
  <2>5. CASE hi + 1 = m
    <3>1. (hi + 1) % m = 0
      BY <2>5
    <3>2. hi * m = M2 - m
      BY <1>2, <2>5
    <3> HIDE DEF M2
    <3>6. 0 * m <= hi * m /\ 0 * m = 0
      BY TimesOrder
    <3>7. n \in Int /\ n >= 0 /\ n < m
      BY <1>6, <2>1
    <3>3. n \in 0..(M2 - 1) /\ v + a = M2 * 1 + n
      BY <1>1, <2>1, <3>2, <3>6, <3>7
    <3>4. (v + a) % M2 = n
      BY <1>1, <3>3, RemainderIs
    <3>5. 0 * m + n = n
      BY <2>1
    <3> QED
      BY <1>4, <2>2, <3>1, <3>4, <3>5 DEF M2
  <2> QED
    BY <2>4, <2>5
<1> QED
  BY <1>5, <1>6

-----------------------------------------------------------------------------
(* Interrupts                                                              *)

(* A delay is a number, whatever is programmed.                            *)
LEMMA DelayType ==
    ASSUME NEW s \in IrqState, NEW pending
    PROVE  mit_delay(s, pending) \in Nat
<1>1. \A c, v \in Nat : mit_update_delay(c, v) \in Nat
  BY DEF mit_update_delay
<1>2. 0 \in Nat /\ s.TADV * 4 \in Nat /\ s.RADV * 4 \in Nat /\ s.ITR \in Nat
  BY DEF IrqState
<1> QED
  BY <1>1, <1>2 DEF mit_delay

(* Starting a mitigation window keeps causes and mask.                     *)
LEMMA StartWindowType ==
    ASSUME NEW s \in IrqState, NEW d \in Nat
    PROVE  LET t == StartWindow(s, d)
           IN  t \in IrqState /\ t.ICR = s.ICR /\ t.IMS = s.IMS
BY DEF StartWindow, IrqState

(* set_interrupt_cause stores the causes, postponed interrupt or not, and  *)
(* leaves the mask alone.                                                  *)
LEMMA CauseStored ==
    ASSUME NEW s \in IrqState, NEW val \in SUBSET Causes
    PROVE  LET t == set_interrupt_cause(s, val)
           IN  t \in IrqState /\ t.ICR = val /\ t.IMS = s.IMS
<1> DEFINE u == [s EXCEPT !.ICR = val, !.ICS = val]
           rising == ~u.mit_irq_level /\ Pending(u) # {}
           w == IF rising /\ FLAG_MIT THEN StartWindow(u, mit_delay(u, Pending(u))) ELSE u
           t == set_interrupt_cause(s, val)
<1>1. u \in IrqState /\ u.ICR = val /\ u.IMS = s.IMS
  BY DEF IrqState
<1>2. t = IF rising /\ u.mit_timer_on THEN u ELSE UpdateLevel(w)
  BY DEF set_interrupt_cause
<1> HIDE DEF u, rising
<1>3. w \in IrqState /\ w.ICR = val /\ w.IMS = s.IMS
  BY <1>1, DelayType, StartWindowType
<1> HIDE DEF w
<1>4. UpdateLevel(w) \in IrqState /\ UpdateLevel(w).ICR = val /\ UpdateLevel(w).IMS = s.IMS
  BY <1>3 DEF UpdateLevel, IrqState
<1> HIDE DEF t
<1> QED
  BY <1>1, <1>2, <1>4 DEF t

(* set_ics adds its causes to ICR.                                         *)
LEMMA IcsStored ==
    ASSUME NEW s \in IrqState, NEW val \in SUBSET Causes
    PROVE  set_ics(s, val) \in IrqState /\ set_ics(s, val).ICR = val \cup s.ICR
<1>1. val \cup s.ICR \in SUBSET Causes
  BY DEF IrqState
<1> QED
  BY <1>1, CauseStored DEF set_ics

(* Writes to the mask registers.                                           *)
LEMMA MaskType ==
    ASSUME NEW s \in IrqState, NEW val \in SUBSET Causes
    PROVE  set_ims(s, val) \in IrqState /\ set_imc(s, val) \in IrqState
<1>1. /\ [s EXCEPT !.IMS = @ \cup val] \in IrqState
      /\ [s EXCEPT !.IMS = @ \ val] \in IrqState
  BY DEF IrqState
<1> QED
  BY <1>1, IcsStored DEF set_ims, set_imc

(* A read of ICR clears it.                                                *)
LEMMA IcrReadType ==
    ASSUME NEW s \in IrqState
    PROVE  mac_icr_read(s) \in IrqState /\ mac_icr_read(s).ICR = {}
BY CauseStored DEF mac_icr_read

(* The interrupt state after a reset.                                      *)
LEMMA ResetIrqType == ResetIrq \in IrqState
BY DEF ResetIrq, IrqState

(* Saving and loading keep the causes.                                     *)
LEMMA SaveType ==
    ASSUME NEW s \in IrqState
    PROVE  /\ PreSaveIrq(s) \in IrqState /\ PreSaveIrq(s).ICR = s.ICR
           /\ PostLoadIrq(s) \in IrqState /\ PostLoadIrq(s).ICR = s.ICR
<1>1. [s EXCEPT !.mit_timer_on = FALSE] \in IrqState /\ s.ICR \in SUBSET Causes
  BY DEF IrqState
<1>2. PreSaveIrq(s) \in IrqState /\ PreSaveIrq(s).ICR = s.ICR
  BY <1>1, CauseStored DEF PreSaveIrq, e1000_mit_timer
<1>3. PostLoadIrq(s).ICR = s.ICR
  BY DEF PostLoadIrq, ResetIrq
<1>4. ASSUME NEW level \in BOOLEAN, NEW rdtr \in Nat, NEW radv \in Nat, NEW tadv \in Nat,
             NEW itr \in Nat
      PROVE  [ResetIrq EXCEPT
                !.ICR = s.ICR, !.ICS = s.ICS, !.IMS = s.IMS, !.pin = s.pin,
                !.RDTR = rdtr, !.RADV = radv, !.TADV = tadv, !.ITR = itr,
                !.mit_irq_level = level] \in IrqState
  BY DEF ResetIrq, IrqState
<1>5. (FLAG_MIT /\ s.mit_irq_level) \in BOOLEAN
  OBVIOUS
<1>6. /\ (IF FLAG_MIT THEN s.RDTR ELSE 0) \in Nat /\ (IF FLAG_MIT THEN s.RADV ELSE 0) \in Nat
      /\ (IF FLAG_MIT THEN s.TADV ELSE 0) \in Nat /\ (IF FLAG_MIT THEN s.ITR ELSE 0) \in Nat
  BY DEF IrqState
<1>7. PostLoadIrq(s) \in IrqState
  BY <1>4, <1>5, <1>6, Zenon DEF PostLoadIrq
<1> QED
  BY <1>2, <1>3, <1>7

-----------------------------------------------------------------------------
(* The link                                                                *)

StatusUp(r) == "LINK_STATUS" \in r.phy_reg["PHY_STATUS"]

(* t is the link after a step that leaves link_down alone.                 *)
Keeps(t, r) == t.link_down = r.link_down

AutonegDone(r) == "AUTONEG_COMPLETE" \in r.phy_reg["PHY_STATUS"]

(* What the functions on the link keep: the MAC and the PHY agree, a link  *)
(* with link_down is down, and a link that is down for another reason has  *)
(* a negotiation that is not complete and a timer that will raise it.      *)
Linked(r) ==
    /\ r \in LinkState
    /\ r.LU <=> StatusUp(r)
    /\ r.link_down => ~r.LU
    /\ ~r.LU /\ ~r.link_down => r.autoneg_timer /\ ~AutonegDone(r)
    /\ r.autoneg_timer => FLAG_AUTONEG

(* Down and up, seen by every field.                                       *)
LEMMA DownUp ==
    ASSUME NEW r \in LinkState
    PROVE  LET d == e1000_link_down(r)
               u == e1000_link_up(r)
           IN  /\ d \in LinkState /\ ~d.LU /\ ~StatusUp(d)
               /\ u \in LinkState /\ u.LU /\ StatusUp(u)
               /\ \A t \in {d, u} : /\ t.autoneg_timer = r.autoneg_timer
                                   /\ t.link_down = r.link_down /\ t.irq = r.irq
                                   /\ t.phy_reg["PHY_CTRL"] = r.phy_reg["PHY_CTRL"]
<1>1. {"LINK_STATUS"} \subseteq PhyBits /\ "PHY_STATUS" \in PhyRegs /\ "PHY_CTRL" \in PhyRegs
  BY DEF PhyBits, StatusBits, PhyRegs
<1> HIDE DEF PhyBits, PhyRegs
<1> QED
  BY <1>1 DEF e1000_link_down, e1000_link_up, LinkState, StatusUp

(* Another value of a status bit that is not LINK_STATUS changes nothing.  *)
LEMMA StatusBitLinked ==
    ASSUME NEW r, Linked(r), NEW bits \in SUBSET PhyBits,
           "LINK_STATUS" \in bits <=> StatusUp(r),
           "AUTONEG_COMPLETE" \in bits => r.LU \/ r.link_down
    PROVE  Linked([r EXCEPT !.phy_reg["PHY_STATUS"] = bits]) /\ Keeps([r EXCEPT !.phy_reg["PHY_STATUS"] = bits], r)
<1>1. "PHY_STATUS" \in PhyRegs
  BY DEF PhyRegs
<1> QED
  BY <1>1 DEF Linked, LinkState, StatusUp, AutonegDone, Keeps

(* The interrupt state is apart from the link.                             *)
LEMMA IrqLinked ==
    ASSUME NEW r, Linked(r), NEW irq \in IrqState
    PROVE  Linked([r EXCEPT !.irq = irq]) /\ Keeps([r EXCEPT !.irq = irq], r)
BY DEF Linked, LinkState, StatusUp, AutonegDone, Keeps

(* So is MDIC.                                                             *)
LEMMA MdicLinked ==
    ASSUME NEW r, Linked(r), NEW m \in MdicState
    PROVE  Linked([r EXCEPT !.MDIC = m]) /\ Keeps([r EXCEPT !.MDIC = m], r)
BY DEF Linked, LinkState, StatusUp, AutonegDone, Keeps

(* The timer raises the link unless the host took it down meanwhile.       *)
LEMMA AutonegLinked ==
    ASSUME NEW r, Linked(r)
    PROVE  LET t == e1000_autoneg_timer([r EXCEPT !.autoneg_timer = FALSE])
           IN  Linked(t) /\ Keeps(t, r)
<1> DEFINE q == [r EXCEPT !.autoneg_timer = FALSE]
           t == IF q.link_down THEN q ELSE e1000_link_up(q)
<1>0. q.autoneg_timer = FALSE
  BY DEF Linked, LinkState
<1>1. /\ q \in LinkState /\ q.LU = r.LU /\ q.link_down = r.link_down
      /\ StatusUp(q) <=> StatusUp(r)
  BY DEF Linked, LinkState, StatusUp
<1>2. e1000_autoneg_timer(q) =
        [t EXCEPT !.phy_reg["PHY_STATUS"] = t.phy_reg["PHY_STATUS"] \cup {"AUTONEG_COMPLETE"}]
  BY DEF e1000_autoneg_timer
<1> HIDE DEF q
<1>3. Linked(t) /\ Keeps(t, r) /\ (t.LU \/ t.link_down)
  <2>1. t \in LinkState /\ (t.LU <=> StatusUp(t)) /\ (t.LU \/ t.link_down)
    BY <1>1, DownUp DEF Linked
  <2>2. (t.link_down => ~t.LU) /\ ~t.autoneg_timer
    BY <1>1, <1>0, DownUp DEF Linked
  <2> QED
    BY <1>1, <2>1, <2>2, DownUp DEF Linked, Keeps
<1> HIDE DEF t
<1>4. /\ t.phy_reg["PHY_STATUS"] \cup {"AUTONEG_COMPLETE"} \in SUBSET PhyBits
      /\ "LINK_STATUS" \in t.phy_reg["PHY_STATUS"] \cup {"AUTONEG_COMPLETE"} <=> StatusUp(t)
  BY <1>3 DEF Linked, LinkState, PhyBits, StatusBits, PhyRegs, StatusUp
<1>5. Linked(e1000_autoneg_timer(q)) /\ Keeps(e1000_autoneg_timer(q), r)
  BY <1>2, <1>3, <1>4, StatusBitLinked DEF Keeps
<1> QED
  BY <1>5 DEF q

(* A restart of the negotiation takes the link down and arms the timer,    *)
(* whatever the host has done to the link.                                 *)
LEMMA PhyCtrlLinked ==
    ASSUME NEW r, Linked(r), NEW val \in SUBSET PhyBits
    PROVE  Linked(WritePhy(r, "PHY_CTRL", val)) /\ Keeps(WritePhy(r, "PHY_CTRL", val), r)
<1> DEFINE q == set_phy_ctrl(r, val)
           d == e1000_link_down(r)
           bits == d.phy_reg["PHY_STATUS"] \ {"AUTONEG_COMPLETE"}
<1>1. Linked(q) /\ Keeps(q, r)
  <2>1. CASE FLAG_AUTONEG /\ Restarts(val)
    <3>1. /\ d \in LinkState /\ ~d.LU /\ ~StatusUp(d) /\ d.link_down = r.link_down
      BY DownUp DEF Linked
    <3>2. q = [d EXCEPT !.phy_reg["PHY_STATUS"] = bits, !.autoneg_timer = TRUE]
      BY <2>1 DEF set_phy_ctrl
    <3> HIDE DEF d, q
    <3>3. bits \in SUBSET PhyBits /\ "LINK_STATUS" \notin bits /\ "AUTONEG_COMPLETE" \notin bits
      BY <3>1 DEF LinkState, StatusUp, PhyRegs
    <3> HIDE DEF bits
    <3>4. "PHY_STATUS" \in PhyRegs
      BY DEF PhyRegs
    <3> QED
      BY <2>1, <3>1, <3>2, <3>3, <3>4 DEF Linked, LinkState, StatusUp, AutonegDone, Keeps
  <2>2. CASE ~(FLAG_AUTONEG /\ Restarts(val))
    BY <2>2 DEF set_phy_ctrl, Keeps
  <2> QED
    BY <2>1, <2>2
<1>2. WritePhy(r, "PHY_CTRL", val) = [q EXCEPT !.phy_reg["PHY_CTRL"] = val]
  BY DEF WritePhy
<1> HIDE DEF q
<1>3. "PHY_CTRL" \in PhyRegs /\ "PHY_STATUS" \in PhyRegs
  BY DEF PhyRegs
<1> QED
  BY <1>1, <1>2, <1>3 DEF Linked, LinkState, StatusUp, AutonegDone, Keeps

(* Of the registers the guest can write, only PHY_CTRL has to do with the  *)
(* link; the capability table keeps PHY_STATUS from being written.         *)
LEMMA WritePhyLinked ==
    ASSUME NEW r, Linked(r), NEW addr \in PhyRegs, "W" \in phy_regcap[addr],
           NEW val \in SUBSET PhyBits
    PROVE  Linked(WritePhy(r, addr, val)) /\ Keeps(WritePhy(r, addr, val), r)
<1>1. addr \in {"PHY_CTRL", "PHY_AUTONEG_ADV"}
  BY DEF PhyRegs, phy_regcap
<1>2. CASE addr = "PHY_CTRL"
  BY <1>2, PhyCtrlLinked
<1>3. CASE addr = "PHY_AUTONEG_ADV"
  <2>1. WritePhy(r, addr, val) = [r EXCEPT !.phy_reg["PHY_AUTONEG_ADV"] = val]
    BY <1>3 DEF WritePhy
  <2>2. "PHY_AUTONEG_ADV" \in PhyRegs /\ "PHY_STATUS" \in PhyRegs
    BY DEF PhyRegs
  <2> QED
    BY <2>1, <2>2 DEF Linked, LinkState, StatusUp, AutonegDone, Keeps
<1> QED
  BY <1>1, <1>2, <1>3

(* An access through MDIC: another PHY, a read, a write or neither.        *)
LEMMA MdicAccessLinked ==
    ASSUME NEW r, Linked(r), NEW phy1 \in BOOLEAN, NEW op, NEW addr \in PhyRegs,
           NEW data \in SUBSET PhyBits, NEW inten \in BOOLEAN
    PROVE  Linked(MdicAccess(r, phy1, op, addr, data, inten)) /\ Keeps(MdicAccess(r, phy1, op, addr, data, inten), r)
<1> DEFINE val == [data |-> data, INT_EN |-> inten, ERROR |-> FALSE]
           t == MdicAccess(r, phy1, op, addr, data, inten)
<1>1. /\ val \in MdicState
      /\ [val EXCEPT !.ERROR = TRUE] \in MdicState
      /\ \A bits \in SUBSET PhyBits : [val EXCEPT !.data = bits] \in MdicState
      /\ [r.MDIC EXCEPT !.ERROR = TRUE] \in MdicState
  BY DEF Linked, LinkState, MdicState
<1>2. r.phy_reg[addr] \in SUBSET PhyBits
  BY DEF Linked, LinkState
<1>3. CASE ~phy1
  <2> DEFINE m == [r.MDIC EXCEPT !.ERROR = TRUE]
  <2>1. t = [r EXCEPT !.MDIC = m]
    BY <1>3 DEF MdicAccess
  <2>2. m \in MdicState
    BY <1>1
  <2> HIDE DEF m, t
  <2>3. Linked([r EXCEPT !.MDIC = m]) /\ Keeps([r EXCEPT !.MDIC = m], r)
    BY <2>2, MdicLinked
  <2> QED
    BY <2>1, <2>3 DEF t
<1>4. CASE phy1 /\ op = "READ"
  <2> DEFINE m == IF "R" \in phy_regcap[addr] THEN [val EXCEPT !.data = r.phy_reg[addr]]
                  ELSE [val EXCEPT !.ERROR = TRUE]
  <2>1. t = [r EXCEPT !.MDIC = m]
    BY <1>4 DEF MdicAccess
  <2>2. m \in MdicState
    BY <1>1, <1>2
  <2> HIDE DEF m, t
  <2>3. Linked([r EXCEPT !.MDIC = m]) /\ Keeps([r EXCEPT !.MDIC = m], r)
    BY <2>2, MdicLinked
  <2> QED
    BY <2>1, <2>3 DEF t
<1>5. CASE phy1 /\ op = "WRITE"
  <2>1. CASE "W" \in phy_regcap[addr]
    <3>1. t = [WritePhy(r, addr, data) EXCEPT !.MDIC = val]
      BY <1>5, <2>1 DEF MdicAccess
    <3>2. Linked(WritePhy(r, addr, data)) /\ Keeps(WritePhy(r, addr, data), r)
      BY <2>1, WritePhyLinked
    <3> DEFINE q == WritePhy(r, addr, data)
    <3> HIDE DEF val, t, q
    <3>3. Linked([q EXCEPT !.MDIC = val]) /\ Keeps([q EXCEPT !.MDIC = val], q)
      BY <1>1, <3>2, MdicLinked DEF q
    <3> QED
      BY <3>1, <3>2, <3>3 DEF t, q, Keeps
  <2>2. CASE "W" \notin phy_regcap[addr]
    <3> DEFINE m == [val EXCEPT !.ERROR = TRUE]
    <3>1. t = [r EXCEPT !.MDIC = m]
      BY <1>5, <2>2 DEF MdicAccess
    <3>2. m \in MdicState
      BY <1>1
    <3> HIDE DEF m, t
    <3>3. Linked([r EXCEPT !.MDIC = m]) /\ Keeps([r EXCEPT !.MDIC = m], r)
      BY <3>2, MdicLinked
    <3> QED
      BY <3>1, <3>3 DEF t
  <2> QED
    BY <2>1, <2>2
<1>6. CASE phy1 /\ op \notin {"READ", "WRITE"}
  <2>1. t = [r EXCEPT !.MDIC = val]
    BY <1>6 DEF MdicAccess
  <2> HIDE DEF val, t
  <2>2. Linked([r EXCEPT !.MDIC = val]) /\ Keeps([r EXCEPT !.MDIC = val], r)
    BY <1>1, MdicLinked
  <2> QED
    BY <2>1, <2>2 DEF t
<1> QED
  BY <1>3, <1>4, <1>5, <1>6

(* A write to MDIC, which may restart the negotiation.                     *)
LEMMA SetMdicLinked ==
    ASSUME NEW r, Linked(r), NEW phy1 \in BOOLEAN, NEW op, NEW addr \in PhyRegs,
           NEW data \in SUBSET PhyBits, NEW inten \in BOOLEAN
    PROVE  Linked(set_mdic(r, phy1, op, addr, data, inten)) /\ Keeps(set_mdic(r, phy1, op, addr, data, inten), r)
<1> DEFINE t == MdicAccess(r, phy1, op, addr, data, inten)
<1>1. Linked(t) /\ Keeps(t, r)
  BY MdicAccessLinked
<1>2. set_mdic(r, phy1, op, addr, data, inten) =
        IF t.MDIC.INT_EN THEN [t EXCEPT !.irq = set_ics(t.irq, {"MDAC"})] ELSE t
  BY DEF set_mdic
<1> HIDE DEF t
<1>3. set_ics(t.irq, {"MDAC"}) \in IrqState
  BY <1>1, IcsStored, PhyAssumption DEF Linked, LinkState
<1> QED
  BY <1>1, <1>2, <1>3, IrqLinked DEF Keeps

(* The host changes the link: LU follows, and with it the PHY.             *)
LEMMA SetLinkLinked ==
    ASSUME NEW r, Linked(r), NEW down \in BOOLEAN
    PROVE  LET t == e1000_set_link_status([r EXCEPT !.link_down = down])
           IN  Linked(t) /\ t.link_down = down
<1> DEFINE q == [r EXCEPT !.link_down = down]
           t == IF q.link_down THEN e1000_link_down(q) ELSE e1000_link_up(q)
<1>1. /\ q \in LinkState /\ q.link_down = down
      /\ q.autoneg_timer => FLAG_AUTONEG
  BY DEF Linked, LinkState
<1>2. e1000_set_link_status(q) =
        IF t.LU # q.LU THEN [t EXCEPT !.irq = set_ics(t.irq, {"LSC"})] ELSE t
  BY DEF e1000_set_link_status
<1> HIDE DEF q
<1>3. Linked(t) /\ t.link_down = down
  <2>1. t.LU <=> ~t.link_down
    BY <1>1, DownUp
  <2> QED
    BY <1>1, <2>1, DownUp DEF Linked
<1> HIDE DEF t
<1>4. set_ics(t.irq, {"LSC"}) \in IrqState
  BY <1>3, IcsStored, PhyAssumption DEF Linked, LinkState
<1>5. Linked(e1000_set_link_status(q)) /\ e1000_set_link_status(q).link_down = down
  BY <1>2, <1>3, <1>4, IrqLinked DEF Linked, LinkState
<1> QED
  BY <1>5 DEF q

(* A reset: the link is as the host has it.                                *)
LEMMA ResetLinked ==
    ASSUME NEW down \in BOOLEAN
    PROVE  Linked(ResetLink(down)) /\ ResetLink(down).link_down = down
<1> DEFINE r == [LU |-> TRUE, phy_reg |-> phy_reg_init,
                 MDIC |-> [data |-> {}, INT_EN |-> FALSE, ERROR |-> FALSE],
                 autoneg_timer |-> FALSE, link_down |-> down, irq |-> ResetIrq]
<1>1. phy_reg_init \in [PhyRegs -> SUBSET PhyBits]
  BY DEF phy_reg_init, PhyRegs, PhyBits, CtrlBits, StatusBits
<1>2. /\ r \in LinkState /\ r.LU /\ StatusUp(r) /\ r.link_down = down
      /\ r.autoneg_timer = FALSE
  <2>1. "LINK_STATUS" \in phy_reg_init["PHY_STATUS"]
    BY DEF phy_reg_init
  <2> QED
    BY <1>1, <2>1, ResetIrqType DEF LinkState, MdicState, StatusUp
<1>3. ResetLink(down) = IF down THEN e1000_link_down(r) ELSE r
  BY DEF ResetLink
<1> HIDE DEF r
<1> QED
  BY <1>2, <1>3, DownUp DEF Linked

(* Saving a negotiation that the host overruled marks it as complete.      *)
LEMMA PreSaveLinked ==
    ASSUME NEW r, Linked(r)
    PROVE  LET t == PreSaveLink(r)
           IN  /\ Linked(t) /\ t.link_down = r.link_down /\ t.LU = r.LU
               /\ FLAG_AUTONEG /\ r.link_down => ~Negotiating(t)
               /\ ~r.link_down => t.phy_reg = r.phy_reg
<1> DEFINE q == [r EXCEPT !.irq = PreSaveIrq(r.irq)]
           bits == q.phy_reg["PHY_STATUS"] \cup {"AUTONEG_COMPLETE"}
           t == PreSaveLink(r)
<1>1. Linked(q)
  BY SaveType, IrqLinked DEF Linked, LinkState
<1>2. q.link_down = r.link_down /\ q.LU = r.LU /\ q.phy_reg = r.phy_reg
  BY DEF Linked, LinkState
<1>3. t = IF FLAG_AUTONEG /\ q.link_down /\ Restarts(q.phy_reg["PHY_CTRL"])
          THEN [q EXCEPT !.phy_reg["PHY_STATUS"] = bits] ELSE q
  BY DEF PreSaveLink
<1> HIDE DEF q, t
<1>4. CASE FLAG_AUTONEG /\ q.link_down /\ Restarts(q.phy_reg["PHY_CTRL"])
  <2>1. bits \in SUBSET PhyBits /\ ("LINK_STATUS" \in bits <=> StatusUp(q))
    BY <1>1 DEF Linked, LinkState, PhyBits, StatusBits, PhyRegs, StatusUp
  <2>2. Linked(t)
    BY <1>1, <1>3, <1>4, <2>1, StatusBitLinked
  <2>3. "PHY_STATUS" \in PhyRegs
    BY DEF PhyRegs
  <2>4. t.link_down = q.link_down /\ t.LU = q.LU /\ t.phy_reg["PHY_STATUS"] = bits
    BY <1>1, <1>3, <1>4, <2>3 DEF Linked, LinkState
  <2> QED
    BY <1>2, <1>4, <2>2, <2>4 DEF Negotiating, t
<1>5. CASE ~(FLAG_AUTONEG /\ q.link_down /\ Restarts(q.phy_reg["PHY_CTRL"]))
  BY <1>1, <1>2, <1>3, <1>5 DEF Negotiating, t
<1> QED
  BY <1>4, <1>5

(* The destination infers link_down from LU, or arms the timer anew.       *)
LEMMA PostLoadLinked ==
    ASSUME NEW r, Linked(r)
    PROVE  LET t == PostLoadLink(r)
           IN  /\ Linked(t) /\ t.LU = r.LU
               /\ t.link_down = IF FLAG_AUTONEG /\ Negotiating(r) THEN FALSE ELSE ~r.LU
<1> DEFINE t == PostLoadLink(r)
           q(timer, down) == [r EXCEPT !.irq = PostLoadIrq(r.irq), !.autoneg_timer = timer,
                                       !.link_down = down]
<1>1. PostLoadIrq(r.irq) \in IrqState
  BY SaveType DEF Linked, LinkState
<1>2. ASSUME NEW timer \in BOOLEAN, NEW down \in BOOLEAN
      PROVE  /\ q(timer, down) \in LinkState
             /\ q(timer, down).LU = r.LU /\ q(timer, down).link_down = down
             /\ q(timer, down).autoneg_timer = timer
             /\ StatusUp(q(timer, down)) <=> StatusUp(r)
             /\ AutonegDone(q(timer, down)) <=> AutonegDone(r)
  BY <1>1 DEF Linked, LinkState, StatusUp, AutonegDone
<1>3. r.LU \in BOOLEAN /\ (~r.LU) \in BOOLEAN
  BY DEF Linked, LinkState
<1>4. CASE FLAG_AUTONEG /\ Negotiating(r)
  <2>1. t = [q(FALSE, ~r.LU) EXCEPT !.link_down = FALSE, !.autoneg_timer = TRUE]
    BY <1>4 DEF PostLoadLink
  <2>2. t = q(TRUE, FALSE)
    BY <2>1 DEF Linked, LinkState
  <2> HIDE DEF t, q
  <2> QED
    BY <1>2, <1>4, <2>2 DEF Linked, Negotiating, AutonegDone, t
<1>5. CASE ~(FLAG_AUTONEG /\ Negotiating(r))
  <2>1. t = q(FALSE, ~r.LU)
    BY <1>5 DEF PostLoadLink
  <2> HIDE DEF t, q
  <2> QED
    BY <1>2, <1>3, <1>5, <2>1 DEF Linked, t
<1> QED
  BY <1>4, <1>5
=============================================================================
