--------------------------- MODULE E1000Link_proofs ---------------------------
(***************************************************************************)
(* Proofs about E1000Link, for every set of causes and every machine type. *)
(***************************************************************************)
EXTENDS E1000Link, E1000Common_proofs

(* The inductive invariant: that of the functions on the link, and what    *)
(* link_down has to do with the host's wish.  It never forgets a link that *)
(* the host took down, and is set without the host only where a migration  *)
(* met a negotiation that nothing saved shows.                             *)
LinkInv ==
    /\ Linked(nic) /\ wish \in BOOLEAN /\ stranded \in BOOLEAN
    /\ wish => nic.link_down
    /\ nic.link_down => wish \/ stranded

(* A device that has just been reset.                                      *)
LEMMA InitLinkInv == Init => LinkInv
BY ResetLinked DEF Init, LinkInv

(* A migration: what the destination infers.  Without the host's wish it   *)
(* takes the link for one that the host took down only if a negotiation    *)
(* was running that the restart bit no longer showed.                      *)
LEMMA MigrateLinkInv == LinkInv /\ Migrate => LinkInv'
<1> SUFFICES ASSUME LinkInv, Migrate
             PROVE  LinkInv'
  OBVIOUS
<1> DEFINE t == PreSaveLink(nic)
<1>1. /\ Linked(t) /\ t.link_down = nic.link_down /\ t.LU = nic.LU
      /\ FLAG_AUTONEG /\ nic.link_down => ~Negotiating(t)
      /\ ~nic.link_down => t.phy_reg = nic.phy_reg
  BY PreSaveLinked DEF LinkInv
<1>2. /\ nic' = PostLoadLink(t) /\ wish' = wish
      /\ stranded' = (stranded \/ HiddenNegotiation)
  BY DEF Migrate
<1>3. HiddenNegotiation \in BOOLEAN
  BY DEF HiddenNegotiation
<1> HIDE DEF t
<1>4. /\ Linked(nic')
      /\ nic'.link_down = IF FLAG_AUTONEG /\ Negotiating(t) THEN FALSE ELSE ~t.LU
  BY <1>1, <1>2, PostLoadLinked
<1>5. wish => nic'.link_down
  BY <1>1, <1>4 DEF LinkInv, Linked
<1>6. ASSUME nic'.link_down, ~wish, ~stranded
      PROVE  HiddenNegotiation
  <2>1. ~nic.LU /\ ~nic.link_down
    BY <1>1, <1>4, <1>6 DEF LinkInv
  <2>2. nic.autoneg_timer /\ ~AutonegDone(nic) /\ FLAG_AUTONEG
    BY <2>1 DEF LinkInv, Linked
  <2>3. ~Negotiating(t)
    BY <1>4, <1>6, <2>2
  <2> QED
    BY <1>1, <1>6, <2>1, <2>2, <2>3 DEF Negotiating, AutonegDone, HiddenNegotiation
<1> QED
  BY <1>2, <1>3, <1>4, <1>5, <1>6 DEF LinkInv

(* Every step of the guest, the host, the timer and migration keeps it.    *)
LEMMA NextLinkInv == LinkInv /\ [Next]_vars => LinkInv'
<1> SUFFICES ASSUME LinkInv, [Next]_vars
             PROVE  LinkInv'
  OBVIOUS
<1>0. nic.irq \in IrqState /\ nic.link_down \in BOOLEAN /\ Linked(nic)
  BY DEF LinkInv, Linked, LinkState
<1>k. ASSUME Linked(nic'), Keeps(nic', nic), UNCHANGED <<wish, stranded>>
      PROVE  LinkInv'
  BY <1>k DEF LinkInv, Keeps
<1>1. CASE WriteMDIC
  <2>1. PICK phy1 \in BOOLEAN, op \in {"READ", "WRITE", "NONE"}, addr \in PhyRegs,
             data \in SUBSET CtrlBits, inten \in BOOLEAN :
               /\ nic' = set_mdic(nic, phy1, op, addr, data, inten)
               /\ UNCHANGED <<wish, stranded>>
    BY <1>1 DEF WriteMDIC
  <2>2. data \in SUBSET PhyBits
    BY DEF PhyBits
  <2>3. Linked(nic') /\ Keeps(nic', nic)
    BY <1>0, <2>1, <2>2, SetMdicLinked
  <2> QED
    BY <1>k, <2>1, <2>3
<1>2. CASE ReadICR
  <2>1. Linked(nic') /\ Keeps(nic', nic)
    BY <1>0, <1>2, IcrReadType, IrqLinked DEF ReadICR
  <2> QED
    BY <1>k, <1>2, <2>1 DEF ReadICR
<1>3. CASE WriteIMS
  <2>1. Linked(nic') /\ Keeps(nic', nic)
    BY <1>0, <1>3, MaskType, IrqLinked DEF WriteIMS
  <2> QED
    BY <1>k, <1>3, <2>1 DEF WriteIMS
<1>4. CASE WriteIMC
  <2>1. Linked(nic') /\ Keeps(nic', nic)
    BY <1>0, <1>4, MaskType, IrqLinked DEF WriteIMC
  <2> QED
    BY <1>k, <1>4, <2>1 DEF WriteIMC
<1>5. CASE AutonegTimer
  <2>1. Linked(nic') /\ Keeps(nic', nic)
    BY <1>0, <1>5, AutonegLinked DEF AutonegTimer
  <2> QED
    BY <1>k, <1>5, <2>1 DEF AutonegTimer
<1>6. CASE SetLink
  <2>1. PICK up \in BOOLEAN :
           /\ nic' = e1000_set_link_status([nic EXCEPT !.link_down = ~up])
           /\ wish' = ~up /\ stranded' = FALSE
    BY <1>6 DEF SetLink
  <2>2. (~up) \in BOOLEAN
    OBVIOUS
  <2>3. Linked(nic') /\ nic'.link_down = ~up
    BY <1>0, <2>1, <2>2, SetLinkLinked
  <2> QED
    BY <2>1, <2>2, <2>3 DEF LinkInv
<1>7. CASE Reset
  <2>1. Linked(nic') /\ Keeps(nic', nic)
    BY <1>0, <1>7, ResetLinked DEF Reset, Keeps
  <2> QED
    BY <1>k, <1>7, <2>1 DEF Reset
<1>8. CASE Savevm
  <2>1. Linked(nic') /\ Keeps(nic', nic)
    BY <1>0, <1>8, PreSaveLinked DEF Savevm, Keeps
  <2> QED
    BY <1>k, <1>8, <2>1 DEF Savevm
<1>9. CASE Migrate
  BY <1>9, MigrateLinkInv
<1>10. CASE UNCHANGED vars
  BY <1>10 DEF LinkInv, vars
<1> QED
  BY <1>1, <1>2, <1>3, <1>4, <1>5, <1>6, <1>7, <1>8, <1>9, <1>10 DEF Next

(* The invariant of the link (e1000_link_down, e1000_link_up,              *)
(* e1000_autoneg_timer, e1000_post_load).                                  *)
LEMMA LinkInvariant == Spec => []LinkInv
BY InitLinkInv, NextLinkInv, PTL DEF Spec

-----------------------------------------------------------------------------
(* The state keeps its type through every handler.                         *)
THEOREM LinkTypeCorrect == Spec => [](nic \in LinkState)
<1>1. LinkInv => nic \in LinkState
  BY DEF LinkInv, Linked
<1> QED
  BY <1>1, LinkInvariant, PTL

(* STATUS.LU and the PHY's status register show the same link, whatever    *)
(* the guest writes through MDIC and whatever is saved and loaded.         *)
THEOREM MacAndPhyAgree == Spec => []LinkBitsAgree
<1>1. LinkInv => LinkBitsAgree
  BY DEF LinkInv, Linked, StatusUp, LinkBitsAgree
<1> QED
  BY <1>1, LinkInvariant, PTL

(* No timer, reset or migration raises a link that the host took down.     *)
THEOREM HostDownIsDown == Spec => []AdminDownHolds
<1>1. LinkInv => AdminDownHolds
  BY DEF LinkInv, Linked, AdminDownHolds
<1> QED
  BY <1>1, LinkInvariant, PTL

(* A link that is down although the last set_link, if any, raised it, has  *)
(* a timer on its way (e1000_autoneg_timer) that will raise it, after      *)
(* migrations too, unless one met a negotiation whose restart bit the      *)
(* guest had cleared.  What the host wants is its own word here, not what  *)
(* e1000_post_load takes it to be.                                         *)
THEOREM DownHasTimer == Spec => []DownOnlyWhileNegotiating
<1>1. LinkInv => DownOnlyWhileNegotiating
  BY DEF LinkInv, Linked, DownOnlyWhileNegotiating
<1> QED
  BY <1>1, LinkInvariant, PTL

(* e1000_post_load, which infers nc->link_down from STATUS and restarts a  *)
(* negotiation, never forgets that the host took the link down: pre_save   *)
(* has marked such a negotiation complete.                                 *)
THEOREM MigrationNeverRaises == Spec => MigrationKeepsDown
<1>1. ASSUME LinkInv, Migrate, wish
      PROVE  nic'.link_down
  BY <1>1, MigrateLinkInv DEF Migrate, LinkInv
<1>2. LinkInv /\ [Next]_vars => [Migrate /\ wish => nic'.link_down]_vars
  BY <1>1
<1> QED
  BY <1>2, LinkInvariant, PTL DEF Spec, MigrationKeepsDown
=============================================================================
