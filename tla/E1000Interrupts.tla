--------------------------- MODULE E1000Interrupts ---------------------------
(***************************************************************************)
(* The interrupt component as a state machine: the guest's register        *)
(* accesses, the device's own events, the mitigation timer, system reset,  *)
(* savevm (the guest runs on) and migration (it runs on elsewhere).  Each  *)
(* handler runs under QEMU's global lock, so each is one action.           *)
(***************************************************************************)
EXTENDS E1000Irq

CONSTANTS
    ItrValues,      \* values the guest writes to ITR
    DelayValues     \* values the guest writes to RDTR, RADV and TADV

ASSUME DelayAssumption == ItrValues \subseteq Nat /\ DelayValues \subseteq Nat

VARIABLES
    irq,        \* the interrupt part of E1000State
    quiet       \* history: time left of the window opened by the last rise

vars == <<irq, quiet>>

Init == irq = ResetIrq /\ quiet = 0

(* The delays the guest has programmed that apply to the pending causes,   *)
(* as e1000.c:293-301 describes them; used by the history variable only.   *)
Programmed(s) ==
    {d \in {s.ITR,
            IF s.mit_ide /\ Pending(s) \cap TxCauses # {} THEN s.TADV * 4 ELSE 0,
            IF s.RDTR # 0 /\ "RXT0" \in Pending(s) THEN s.RADV * 4 ELSE 0} : d # 0}

Shortest(D) == IF D = {} THEN 0 ELSE CHOOSE d \in D : \A e \in D : d <= e

(* Take a step of the device to state s, reached from s0 by a call of      *)
(* set_interrupt_cause; when the pin rises, the history variable starts    *)
(* the window that the registers call for.                                 *)
StepFrom(s0, s) ==
    /\ irq' = s
    /\ quiet' = IF FLAG_MIT /\ ~irq.pin /\ s.pin
                THEN Shortest(Programmed([s0 EXCEPT !.ICR = s.ICR, !.IMS = s.IMS]))
                ELSE quiet

Step(s) == StepFrom(irq, s)

-----------------------------------------------------------------------------
(* MMIO writes and reads of the interrupt registers.                       *)
WriteICS == \E val \in SUBSET Causes : Step(set_ics(irq, val))
WriteICR == \E val \in SUBSET Causes : Step(set_icr(irq, val))
WriteIMS == \E val \in SUBSET Causes : Step(set_ims(irq, val))
WriteIMC == \E val \in SUBSET Causes : Step(set_imc(irq, val))
ReadICR  == Step(mac_icr_read(irq))

(* set_16bit on the mitigation registers: no other effect until the next   *)
(* rising edge.                                                            *)
WriteDelay ==
    \/ \E v \in ItrValues   : Step([irq EXCEPT !.ITR = v])
    \/ \E v \in DelayValues : Step([irq EXCEPT !.RDTR = v])
    \/ \E v \in DelayValues : Step([irq EXCEPT !.RADV = v])
    \/ \E v \in DelayValues : Step([irq EXCEPT !.TADV = v])

(* start_xmit seen from here: process_tx_desc notes IDE for every          *)
(* descriptor, then one set_ics for the whole run.                         *)
Transmit ==
    \E ide \in BOOLEAN, cause \in SUBSET (Causes \cap TxCauses) :
        LET s0 == [irq EXCEPT !.mit_ide = @ \/ ide]
        IN  StepFrom(s0, set_ics(s0, cause))

(* The virtual clock advances by one unit.                                 *)
Tick ==
    /\ irq.mit_timer > 0 \/ quiet > 0
    /\ irq' = [irq EXCEPT !.mit_timer = IF @ > 0 THEN @ - 1 ELSE @]
    /\ quiet' = IF quiet > 0 THEN quiet - 1 ELSE 0

(* The main loop takes an expired timer off the list and runs it, any time *)
(* after it expired.                                                       *)
MitTimer ==
    /\ irq.mit_timer = 0
    /\ Step(e1000_mit_timer([irq EXCEPT !.mit_timer = NoTimer]))

Reset == irq' = ResetIrq /\ quiet' = 0

(* savevm: the state is written after e1000_pre_save and the guest runs on *)
(* here.  Emulating the timeout ends the window early.                     *)
Savevm ==
    /\ irq' = PreSaveIrq(irq)
    /\ quiet' = IF irq'.mit_timer_on THEN irq'.mit_timer ELSE 0

(* Migration, or savevm and then loadvm: the guest goes on from what the   *)
(* destination loaded.                                                     *)
Migrate == irq' = PostLoadIrq(PreSaveIrq(irq)) /\ quiet' = 0

Next ==
    \/ WriteICS \/ WriteICR \/ WriteIMS \/ WriteIMC \/ ReadICR \/ WriteDelay
    \/ Transmit \/ Tick \/ MitTimer \/ Reset \/ Savevm \/ Migrate

(* The main loop keeps running timers and the virtual clock keeps going;   *)
(* nothing is assumed of the guest or of the management side.              *)
Fairness == WF_vars(Tick) /\ WF_vars(MitTimer)

Spec     == Init /\ [][Next]_vars
FairSpec == Spec /\ Fairness

-----------------------------------------------------------------------------
TypeOK == irq \in IrqState /\ quiet \in Nat

(* ICS always reads as ICR, which the VxWorks driver uses                  *)
(* (e1000.c:281-289): true only while every writer of ICR goes through     *)
(* set_interrupt_cause and migration carries both.                         *)
IcsMirrorsIcr == irq.ICS = irq.ICR

(* An unmasked cause that the pin does not show yet has a running timer    *)
(* that will look at ICR again: no interleaving of masking, savevm and     *)
(* migration with a mitigation window loses an interrupt.                  *)
NoLostInterrupt ==
    Pending(irq) # {} /\ ~irq.pin => irq.mit_timer_on /\ irq.mit_timer # NoTimer

(* mit_irq_level tracks the pin (e1000.c:143) when the mitigation state    *)
(* is migrated with it.                                                    *)
LevelTracksPin == FLAG_MIT => irq.mit_irq_level = irq.pin

(* Two rising edges are at least as far apart as the shortest delay that   *)
(* was programmed at the first one; only savevm and migration, which       *)
(* emulate a timeout, cut a window short.                                  *)
Throttled == [][~irq.pin /\ irq'.pin /\ ~Savevm /\ ~Migrate => quiet = 0]_vars

(* A machine type without mitigation never postpones an interrupt and      *)
(* never arms the timer.                                                   *)
NoMitigation ==
    ~FLAG_MIT => /\ irq.pin = (Pending(irq) # {})
                 /\ irq.mit_timer = NoTimer

(* The component implements the level-triggered line of IrqLine.           *)
Line == INSTANCE IrqLine WITH cause <- irq.ICR, mask <- irq.IMS, line <- irq.pin
LineSafety == Line!LineSafety
LineDelivery == Line!Delivery
=============================================================================
