------------------------------ MODULE E1000Phy ------------------------------
(***************************************************************************)
(* Link state and PHY of the e1000 device model (harness/e1000/e1000.c):   *)
(* the STATUS.LU bit, the PHY registers behind MDIC, the auto-negotiation  *)
(* timer and nc->link_down, as functions on one record.  The record also   *)
(* holds the interrupt part, irq, since MDIC and link changes raise        *)
(* causes.                                                                 *)
(***************************************************************************)
EXTENDS E1000Irq

CONSTANT FLAG_AUTONEG   \* compat_flags & E1000_FLAG_AUTONEG

ASSUME PhyAssumption == FLAG_AUTONEG \in BOOLEAN /\ {"LSC", "MDAC"} \subseteq Causes

CtrlBits   == {"AUTO_NEG_EN", "RESTART_AUTO_NEG"}
StatusBits == {"LINK_STATUS", "AUTONEG_COMPLETE"}
PhyBits    == CtrlBits \cup StatusBits \cup {"LOOPBACK"}

(* One register of each kind of phy_regcap: the two that drive the link,   *)
(* one plain read/write register, and one that is not implemented.         *)
PhyRegs == {"PHY_CTRL", "PHY_STATUS", "PHY_AUTONEG_ADV", "RESERVED"}

phy_regcap ==
    [PHY_CTRL |-> {"R", "W"}, PHY_STATUS |-> {"R"},
     PHY_AUTONEG_ADV |-> {"R", "W"}, RESERVED |-> {}]

(* The bits of phy_reg_init that matter here.                              *)
phy_reg_init ==
    [PHY_CTRL |-> {"AUTO_NEG_EN"}, PHY_STATUS |-> {"LINK_STATUS"},
     PHY_AUTONEG_ADV |-> {}, RESERVED |-> {}]

MdicState == [data : SUBSET PhyBits, INT_EN : BOOLEAN, ERROR : BOOLEAN]

LinkState ==
    [LU : BOOLEAN, phy_reg : [PhyRegs -> SUBSET PhyBits],
     MDIC : MdicState, autoneg_timer : BOOLEAN, link_down : BOOLEAN, irq : IrqState]

e1000_link_down(s) == [s EXCEPT !.LU = FALSE, !.phy_reg["PHY_STATUS"] = @ \ {"LINK_STATUS"}]
e1000_link_up(s)   == [s EXCEPT !.LU = TRUE, !.phy_reg["PHY_STATUS"] = @ \cup {"LINK_STATUS"}]

Restarts(ctrl) == {"AUTO_NEG_EN", "RESTART_AUTO_NEG"} \subseteq ctrl

(* Called before the register itself is written.                           *)
set_phy_ctrl(s, val) ==
    IF FLAG_AUTONEG /\ Restarts(val)
    THEN [e1000_link_down(s) EXCEPT
            !.phy_reg["PHY_STATUS"] = @ \ {"AUTONEG_COMPLETE"},
            !.autoneg_timer = TRUE]
    ELSE s

(* Mutant: the timer brings the link up although the host took it down.    *)
Mutant_autoneg_unchecked(s) ==
    [e1000_link_up(s) EXCEPT !.phy_reg["PHY_STATUS"] = @ \cup {"AUTONEG_COMPLETE"}]

(* Mutant: negotiation completes without a link.                           *)
Mutant_complete_only(s) == [s EXCEPT !.phy_reg["PHY_STATUS"] = @ \cup {"AUTONEG_COMPLETE"}]

e1000_autoneg_timer(s) ==
    [(IF s.link_down THEN s ELSE e1000_link_up(s)) EXCEPT
        !.phy_reg["PHY_STATUS"] = @ \cup {"AUTONEG_COMPLETE"}]

WritePhy(s, addr, data) ==
    [(IF addr = "PHY_CTRL" THEN set_phy_ctrl(s, data) ELSE s) EXCEPT !.phy_reg[addr] = data]

(* Mutant: the capability table is not consulted for writes.               *)
Mutant_write_any(s, phy1, op, addr, data, inten) ==
    IF phy1 /\ op = "WRITE" THEN WritePhy(s, addr, data) ELSE s

(* The register part of set_mdic.  For another PHY the new MDIC value is   *)
(* built from the old one, its interrupt enable included.                  *)
MdicAccess(s, phy1, op, addr, data, inten) ==
    LET val == [data |-> data, INT_EN |-> inten, ERROR |-> FALSE]
    IN  CASE ~phy1 -> [s EXCEPT !.MDIC.ERROR = TRUE]
          [] phy1 /\ op = "READ" ->
               [s EXCEPT !.MDIC = IF "R" \in phy_regcap[addr]
                                  THEN [val EXCEPT !.data = s.phy_reg[addr]]
                                  ELSE [val EXCEPT !.ERROR = TRUE]]
          [] phy1 /\ op = "WRITE" ->
               IF "W" \in phy_regcap[addr]
               THEN [WritePhy(s, addr, data) EXCEPT !.MDIC = val]
               ELSE [s EXCEPT !.MDIC = [val EXCEPT !.ERROR = TRUE]]
          [] OTHER -> [s EXCEPT !.MDIC = val]

set_mdic(s, phy1, op, addr, data, inten) ==
    LET t == MdicAccess(s, phy1, op, addr, data, inten)
    IN  IF t.MDIC.INT_EN THEN [t EXCEPT !.irq = set_ics(@, {"MDAC"})] ELSE t

(* nc->link_down has been set by the host; STATUS differs from before      *)
(* exactly when LU does.                                                   *)
e1000_set_link_status(s) ==
    LET t == IF s.link_down THEN e1000_link_down(s) ELSE e1000_link_up(s)
    IN  IF t.LU # s.LU THEN [t EXCEPT !.irq = set_ics(@, {"LSC"})] ELSE t

(* e1000_reset: nc->link_down is the host's and survives.                  *)
ResetLink(link_down) ==
    LET s == [LU |-> TRUE, phy_reg |-> phy_reg_init,
              MDIC |-> [data |-> {}, INT_EN |-> FALSE, ERROR |-> FALSE],
              autoneg_timer |-> FALSE, link_down |-> link_down, irq |-> ResetIrq]
    IN  IF link_down THEN e1000_link_down(s) ELSE s

(* Mutant: a link the host took down is not remembered across the save.    *)
Mutant_save_negotiating(s) == [s EXCEPT !.irq = PreSaveIrq(@)]

PreSaveLink(s) ==
    LET t == [s EXCEPT !.irq = PreSaveIrq(@)]
    IN  IF FLAG_AUTONEG /\ t.link_down /\ Restarts(t.phy_reg["PHY_CTRL"])
        THEN [t EXCEPT !.phy_reg["PHY_STATUS"] = @ \cup {"AUTONEG_COMPLETE"}] ELSE t

Negotiating(s) ==
    Restarts(s.phy_reg["PHY_CTRL"]) /\ "AUTONEG_COMPLETE" \notin s.phy_reg["PHY_STATUS"]

(* Mutant: link_down is cleared for a negotiation that nothing restarts.   *)
Mutant_no_rearm(s) ==
    [s EXCEPT !.irq = PostLoadIrq(@), !.autoneg_timer = FALSE,
              !.link_down = IF Negotiating(s) THEN FALSE ELSE ~s.LU]

(* The destination: phy_reg, STATUS and MDIC are loaded, no timer is       *)
(* armed, and link_down is inferred.                                       *)
PostLoadLink(s) ==
    LET t == [s EXCEPT !.irq = PostLoadIrq(@), !.autoneg_timer = FALSE, !.link_down = ~s.LU]
    IN  IF FLAG_AUTONEG /\ Negotiating(s)
        THEN [t EXCEPT !.link_down = FALSE, !.autoneg_timer = TRUE] ELSE t
=============================================================================
