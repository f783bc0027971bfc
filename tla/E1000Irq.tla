------------------------------ MODULE E1000Irq ------------------------------
(***************************************************************************)
(* The interrupt logic of the e1000 device model, as functions on the part *)
(* of E1000State it works on (harness/e1000/e1000.c).  Every handler that  *)
(* raises or masks an interrupt ends in set_interrupt_cause, so the other  *)
(* components build their actions from these operators.                    *)
(*                                                                         *)
(* A register of flag bits is the set of its 1 bits: `|' is union, `&'     *)
(* intersection and `& ~' difference.  Delays are in the 256 ns unit that  *)
(* the code multiplies by last.                                            *)
(***************************************************************************)
EXTENDS Integers

CONSTANTS
    Causes,     \* the interrupt cause bits that can be set in ICR
    FLAG_MIT    \* compat_flags & E1000_FLAG_MIT: the machine type mitigates

ASSUME IrqAssumption == FLAG_MIT \in BOOLEAN

TxCauses == {"TXQE", "TXDW"}
NoTimer  == -1  \* the QEMUTimer is not on the clock's list

(* E1000State, interrupt part; mit_timer is the time left until the        *)
(* QEMUTimer expires, pin the level the device last gave to pci_set_irq.   *)
IrqState ==
    [ICR : SUBSET Causes, ICS : SUBSET Causes, IMS : SUBSET Causes,
     RDTR : Nat, RADV : Nat, TADV : Nat, ITR : Nat,
     mit_timer_on : BOOLEAN, mit_irq_level : BOOLEAN, mit_ide : BOOLEAN,
     mit_timer : Nat \cup {NoTimer}, pin : BOOLEAN]

Pending(s) == s.IMS \cap s.ICR

(* *curr = 0 stands for "no delay chosen yet".                             *)
mit_update_delay(curr, value) ==
    IF value # 0 /\ (curr = 0 \/ value < curr) THEN value ELSE curr

mit_delay(s, pending) ==
    LET tx == IF s.mit_ide /\ pending \cap TxCauses # {}
              THEN mit_update_delay(0, s.TADV * 4) ELSE 0
        rx == IF s.RDTR # 0 /\ "RXT0" \in pending
              THEN mit_update_delay(tx, s.RADV * 4) ELSE tx
    IN  mit_update_delay(rx, s.ITR)

(* Rearm the timer for the next window, unless no delay is programmed.     *)
StartWindow(s, delay) ==
    IF delay # 0
    THEN [s EXCEPT !.mit_timer_on = TRUE, !.mit_timer = delay, !.mit_ide = FALSE]
    ELSE [s EXCEPT !.mit_ide = FALSE]

(* The last two statements of set_interrupt_cause: pci_set_irq.            *)
UpdateLevel(s) ==
    [s EXCEPT !.mit_irq_level = (Pending(s) # {}), !.pin = (Pending(s) # {})]

(* Mutants of set_interrupt_cause: the 8257x guard forgotten, the window   *)
(* ignored.                                                                *)
Mutant_int_asserted(s0, val) ==
    LET v == IF val # {} THEN val \cup {"INT_ASSERTED"} ELSE val
    IN  UpdateLevel([s0 EXCEPT !.ICR = v, !.ICS = v])

Mutant_ignore_window(s0, val) ==
    LET s      == [s0 EXCEPT !.ICR = val, !.ICS = val]
        rising == ~s.mit_irq_level /\ Pending(s) # {}
    IN  UpdateLevel(IF rising /\ FLAG_MIT
                    THEN StartWindow(s, mit_delay(s, Pending(s))) ELSE s)

(* The cause bits and mask change at once; a rising edge inside a          *)
(* mitigation window is postponed to e1000_mit_timer.                      *)
set_interrupt_cause(s0, val) ==
    LET s      == [s0 EXCEPT !.ICR = val, !.ICS = val]
        rising == ~s.mit_irq_level /\ Pending(s) # {}
    IN  IF rising /\ s.mit_timer_on THEN s
        ELSE UpdateLevel(IF rising /\ FLAG_MIT
                         THEN StartWindow(s, mit_delay(s, Pending(s))) ELSE s)

set_ics(s, val) == set_interrupt_cause(s, val \cup s.ICR)
set_icr(s, val) == set_interrupt_cause(s, s.ICR \ val)
set_ims(s, val) == set_ics([s EXCEPT !.IMS = @ \cup val], {})
set_imc(s, val) == set_ics([s EXCEPT !.IMS = @ \ val], {})

(* Mutant: the read clears the causes but leaves the pin alone.            *)
Mutant_clear_only(s) == [s EXCEPT !.ICR = {}, !.ICS = {}]
mac_icr_read(s) == set_interrupt_cause(s, {})

(* Mutant: the callback closes the window and looks at nothing.            *)
Mutant_window_only(s) == [s EXCEPT !.mit_timer_on = FALSE]

(* The callback itself: s->mit_timer_on = 0 and a fresh look at ICR.       *)
e1000_mit_timer(s) == set_interrupt_cause([s EXCEPT !.mit_timer_on = FALSE], s.ICR)

(* e1000_reset, then the part of pci_device_reset that lowers INTx.        *)
ResetIrq ==
    [ICR |-> {}, ICS |-> {}, IMS |-> {}, RDTR |-> 0, RADV |-> 0, TADV |-> 0,
     ITR |-> 0, mit_timer_on |-> FALSE, mit_irq_level |-> FALSE,
     mit_ide |-> FALSE, mit_timer |-> NoTimer, pin |-> FALSE]

(* Mutant: saving without emulating the timeout.                           *)
Mutant_save_as_is(s) == s

(* e1000_pre_save runs on the live device; the timer is not deleted.       *)
PreSaveIrq(s) == IF s.mit_timer_on THEN e1000_mit_timer(s) ELSE s

(* Mutants of the load: ICS left out of the fields; mit_irq_level cleared  *)
(* on load whatever the machine type.                                      *)
Mutant_ics_not_loaded(s) == [ResetIrq EXCEPT !.ICR = s.ICR, !.IMS = s.IMS, !.pin = s.pin]

Mutant_level_cleared(s) ==
    [ResetIrq EXCEPT !.ICR = s.ICR, !.ICS = s.ICS, !.IMS = s.IMS, !.pin = s.pin]

(* What the destination holds once vmstate_e1000 has been loaded into a    *)
(* freshly reset device and e1000_post_load has run.  The mitigation       *)
(* registers and mit_irq_level travel in the subsection that is only sent  *)
(* when FLAG_MIT is set; pin travels with the PCI device's irq_state.      *)
PostLoadIrq(s) ==
    [ResetIrq EXCEPT
       !.ICR = s.ICR, !.ICS = s.ICS, !.IMS = s.IMS, !.pin = s.pin,
       !.RDTR = IF FLAG_MIT THEN s.RDTR ELSE 0,
       !.RADV = IF FLAG_MIT THEN s.RADV ELSE 0,
       !.TADV = IF FLAG_MIT THEN s.TADV ELSE 0,
       !.ITR  = IF FLAG_MIT THEN s.ITR  ELSE 0,
       !.mit_irq_level = FLAG_MIT /\ s.mit_irq_level]
=============================================================================
