------------------------ MODULE E1000Interrupts_proofs ------------------------
(***************************************************************************)
(* Proofs about E1000Interrupts, for every set of causes, every set of     *)
(* delay values and both machine types.                                    *)
(***************************************************************************)
EXTENDS E1000Interrupts, TLAPS

(* What every call of set_interrupt_cause relies on.                       *)
Ready(s) ==
    /\ s \in IrqState
    /\ s.mit_timer_on => s.mit_timer # NoTimer
    /\ s.mit_irq_level => s.pin
    /\ FLAG_MIT => s.mit_irq_level = s.pin
    /\ ~FLAG_MIT => ~s.mit_timer_on /\ s.mit_timer = NoTimer

(* What it re-establishes: the pin is honest, and an interrupt it hides    *)
(* has a window that will end.                                             *)
Settled(s) ==
    /\ Ready(s)
    /\ s.ICS = s.ICR
    /\ s.pin => Pending(s) # {}
    /\ Pending(s) # {} /\ ~s.pin => s.mit_timer_on

(* The inductive invariant.  The last conjunct ties the history variable   *)
(* to the timer: inside a window the timer runs exactly as long.           *)
IInv ==
    /\ Settled(irq)
    /\ quiet \in Nat
    /\ quiet > 0 => irq.mit_timer_on /\ irq.mit_timer = quiet

-----------------------------------------------------------------------------
(* The code's running minimum (mit_update_delay) is the shortest of the    *)
(* programmed delays, and 0 when none is programmed.                       *)
LEMMA DelayIsShortest ==
    ASSUME NEW s \in IrqState
    PROVE  /\ mit_delay(s, Pending(s)) \in Nat
           /\ mit_delay(s, Pending(s)) = Shortest(Programmed(s))
<1> DEFINE t == IF s.mit_ide /\ Pending(s) \cap TxCauses # {} THEN s.TADV * 4 ELSE 0
           r == IF s.RDTR # 0 /\ "RXT0" \in Pending(s) THEN s.RADV * 4 ELSE 0
           i == s.ITR
           D == {d \in {i, t, r} : d # 0}
           m == mit_update_delay(mit_update_delay(mit_update_delay(0, t), r), i)
<1>1. t \in Nat /\ r \in Nat /\ i \in Nat
  BY SMT DEF IrqState
<1>2. mit_delay(s, Pending(s)) = m
  BY <1>1, SMT DEF mit_delay, mit_update_delay
<1>3. Programmed(s) = D
  BY DEF Programmed
<1> HIDE DEF t, r, i
<1>4. m \in Nat
  BY <1>1, SMT DEF mit_update_delay
<1>5. D = {} => m = 0
  BY <1>1, SMT DEF mit_update_delay
<1>6. D # {} => m \in D /\ \A e \in D : m <= e
  BY <1>1, SMT DEF mit_update_delay
<1>7. ASSUME NEW d \in D, \A e \in D : d <= e, D # {}
      PROVE  d = m
  BY <1>1, <1>4, <1>6, <1>7, SMT
<1> HIDE DEF D, m
<1>8. Shortest(D) = m
  BY <1>5, <1>6, <1>7 DEF Shortest
<1> QED
  BY <1>2, <1>3, <1>4, <1>8

(* The delays that apply depend on the pending causes, the mitigation      *)
(* registers and mit_ide only.                                             *)
SameDelays(s, t) ==
    /\ s.ITR = t.ITR /\ s.TADV = t.TADV /\ s.RADV = t.RADV /\ s.RDTR = t.RDTR
    /\ s.mit_ide = t.mit_ide

(* The window that the history variable opens on a rise to state t.        *)
Window(s, t) == Shortest(Programmed([s EXCEPT !.ICR = t.ICR, !.IMS = t.IMS]))

(* The mitigation window depends on the delays only.                       *)
LEMMA WindowSame ==
    ASSUME NEW s \in IrqState, NEW r \in IrqState, NEW t \in IrqState,
           SameDelays(s, r)
    PROVE  Window(s, t) = Window(r, t)
<1> DEFINE s1 == [s EXCEPT !.ICR = t.ICR, !.IMS = t.IMS]
           r1 == [r EXCEPT !.ICR = t.ICR, !.IMS = t.IMS]
<1>1. /\ s1.ICR = r1.ICR /\ s1.IMS = r1.IMS
      /\ s1.ITR = r1.ITR /\ s1.TADV = r1.TADV /\ s1.RADV = r1.RADV
      /\ s1.RDTR = r1.RDTR /\ s1.mit_ide = r1.mit_ide
  BY DEF SameDelays, IrqState
<1> HIDE DEF s1, r1
<1>2. Programmed(s1) = Programmed(r1)
  BY <1>1 DEF Programmed, Pending
<1> QED
  BY <1>2 DEF Window, s1, r1

(* What starting a mitigation window changes.                              *)
LEMMA WindowStarted ==
    ASSUME NEW s \in IrqState, NEW d \in Nat
    PROVE  LET t == StartWindow(s, d) IN
           /\ t \in IrqState
           /\ t.ICR = s.ICR /\ t.ICS = s.ICS /\ t.IMS = s.IMS
           /\ t.pin = s.pin /\ t.mit_irq_level = s.mit_irq_level
           /\ d > 0 => t.mit_timer_on /\ t.mit_timer = d
           /\ d = 0 => t.mit_timer_on = s.mit_timer_on /\ t.mit_timer = s.mit_timer
<1>1. CASE d = 0
  <2>1. StartWindow(s, d) = [s EXCEPT !.mit_ide = FALSE]
    BY <1>1 DEF StartWindow
  <2>2. ~(d > 0)
    BY <1>1
  <2> QED
    BY <2>1, <2>2 DEF IrqState
<1>2. CASE d > 0
  <2>1. StartWindow(s, d) = [s EXCEPT !.mit_timer_on = TRUE, !.mit_timer = d, !.mit_ide = FALSE]
    BY <1>2 DEF StartWindow
  <2>2. d # 0 /\ d \in Nat \cup {NoTimer}
    BY <1>2
  <2> QED
    BY <2>1, <2>2 DEF IrqState
<1> QED
  BY <1>1, <1>2

(* The contract of set_interrupt_cause.  The pin can only rise outside a   *)
(* window, and then opens the window that is programmed.                   *)
LEMMA SetInterruptCause ==
    ASSUME NEW s, Ready(s), NEW val \in SUBSET Causes
    PROVE  LET t == set_interrupt_cause(s, val)
               rise == FLAG_MIT /\ ~s.pin /\ t.pin
           IN  /\ Settled(t)
               /\ t.ICR = val /\ t.IMS = s.IMS
               /\ s.pin /\ Pending(t) # {} => t.pin
               /\ rise => /\ ~s.mit_timer_on
                          /\ Window(s, t) \in Nat
                          /\ Window(s, t) > 0 => t.mit_timer_on /\ t.mit_timer = Window(s, t)
               /\ ~rise => t.mit_timer_on = s.mit_timer_on /\ t.mit_timer = s.mit_timer
<1> DEFINE u == [s EXCEPT !.ICR = val, !.ICS = val]
           P == Pending(u)
           d == mit_delay(u, P)
           t == set_interrupt_cause(s, val)
<1>0. s \in IrqState
  BY DEF Ready
<1>1. /\ u \in IrqState
      /\ u.ICR = val /\ u.ICS = val /\ u.IMS = s.IMS
      /\ u.mit_timer_on = s.mit_timer_on /\ u.mit_timer = s.mit_timer
      /\ u.mit_irq_level = s.mit_irq_level /\ u.pin = s.pin
      /\ SameDelays(u, s)
  BY DEF Ready, IrqState, SameDelays
<1>2. d \in Nat /\ d = Shortest(Programmed(u))
  BY <1>1, DelayIsShortest
<1>3. ASSUME NEW x \in IrqState, x.ICR = val, x.IMS = s.IMS
      PROVE  Window(s, x) = d
  <2>1. Window(s, x) = Window(u, x)
    BY <1>0, <1>1, <1>3, WindowSame DEF SameDelays
  <2>2. [u EXCEPT !.ICR = x.ICR, !.IMS = x.IMS] = u
    BY <1>1, <1>3 DEF IrqState
  <2> QED
    BY <1>2, <2>1, <2>2 DEF Window
<1>4. CASE ~u.mit_irq_level /\ P # {} /\ u.mit_timer_on
  <2>1. t = u
    BY <1>4 DEF set_interrupt_cause
  <2> HIDE DEF t, u
  <2>2. FLAG_MIT /\ ~u.pin
    BY <1>1, <1>4 DEF Ready
  <2> QED
    BY <1>1, <1>4, <2>1, <2>2 DEF Settled, Ready, t
<1>5. CASE ~(~u.mit_irq_level /\ P # {} /\ u.mit_timer_on)
  <2> DEFINE open == ~u.mit_irq_level /\ P # {} /\ FLAG_MIT
             w == IF open THEN StartWindow(u, d) ELSE u
  <2>1. t = UpdateLevel(w)
    BY <1>5 DEF set_interrupt_cause
  <2>2. /\ w \in IrqState
        /\ w.ICR = val /\ w.ICS = val /\ w.IMS = s.IMS
        /\ open /\ d > 0 => w.mit_timer_on /\ w.mit_timer = d
        /\ ~open \/ d = 0 => w.mit_timer_on = s.mit_timer_on /\ w.mit_timer = s.mit_timer
    <3>1. CASE open
      <4>1. w = StartWindow(u, d)
        BY <3>1
      <4> HIDE DEF u, d, w, open
      <4> QED
        BY <1>1, <1>2, <3>1, <4>1, WindowStarted
    <3>2. CASE ~open
      BY <1>1, <3>2
    <3> QED
      BY <3>1, <3>2
  <2>3. P = Pending(w)
    BY <1>1, <2>2 DEF Pending
  <2>4. open => ~s.pin /\ ~s.mit_timer_on
    BY <1>1, <1>5 DEF Ready
  <2> HIDE DEF w, u, P, d, t
  <2>5. /\ t \in IrqState
        /\ t.ICR = val /\ t.ICS = val /\ t.IMS = s.IMS
        /\ t.mit_timer_on = w.mit_timer_on /\ t.mit_timer = w.mit_timer
        /\ t.pin = (P # {}) /\ t.mit_irq_level = (P # {})
    BY <2>1, <2>2, <2>3 DEF UpdateLevel, IrqState
  <2>6. Pending(t) = P
    BY <2>2, <2>3, <2>5 DEF Pending
  <2>7. open <=> (FLAG_MIT /\ ~s.pin /\ t.pin)
    BY <1>1, <2>4, <2>5 DEF Ready
  <2>8. d > 0 => d # NoTimer
    BY <1>2 DEF NoTimer
  <2>9. d > 0 \/ d = 0
    BY <1>2
  <2>10. Settled(t)
    BY <2>2, <2>5, <2>6, <2>8, <2>9 DEF Settled, Ready
  <2>11. Window(s, t) = d
    BY <1>3, <2>5
  <2> QED
    BY <1>2, <2>2, <2>4, <2>5, <2>6, <2>7, <2>9, <2>10, <2>11 DEF t
<1> QED
  BY <1>4, <1>5

-----------------------------------------------------------------------------
(* One step of a handler that ends in set_interrupt_cause: from the state  *)
(* b its own assignments led to, and with s0 as the state whose delays the *)
(* history variable looks at.                                              *)
LEMMA CauseStep ==
    ASSUME IInv,
           NEW b, Ready(b), b.pin = irq.pin,
           NEW s0 \in IrqState, SameDelays(s0, b),
           NEW val \in SUBSET Causes,
           \/ b.mit_timer_on = irq.mit_timer_on /\ b.mit_timer = irq.mit_timer
           \/ quiet = 0,
           StepFrom(s0, set_interrupt_cause(b, val))
    PROVE  /\ IInv'
           /\ ~irq.pin /\ irq'.pin => quiet = 0
           /\ irq.pin /\ Pending(irq') # {} => irq'.pin
<1> DEFINE t == set_interrupt_cause(b, val)
           rise == FLAG_MIT /\ ~b.pin /\ t.pin
<1>1. /\ Settled(t)
      /\ b.pin /\ Pending(t) # {} => t.pin
      /\ rise => /\ ~b.mit_timer_on
                 /\ Window(b, t) \in Nat
                 /\ Window(b, t) > 0 => t.mit_timer_on /\ t.mit_timer = Window(b, t)
      /\ ~rise => t.mit_timer_on = b.mit_timer_on /\ t.mit_timer = b.mit_timer
  BY SetInterruptCause
<1>2. Window(s0, t) = Window(b, t)
  BY <1>1, WindowSame DEF Settled, Ready
<1>3. irq' = t /\ quiet' = IF rise THEN Window(s0, t) ELSE quiet
  BY DEF StepFrom, Window
<1> HIDE DEF t
<1>4. quiet \in Nat /\ (quiet > 0 => irq.mit_timer_on /\ irq.mit_timer = quiet)
  BY DEF IInv
<1>5. rise => quiet = 0
  BY <1>1, <1>4
<1>6. CASE rise
  BY <1>1, <1>2, <1>3, <1>5, <1>6 DEF IInv
<1>7. CASE ~rise
  <2>1. irq' = t /\ quiet' = quiet
    BY <1>3, <1>7
  <2>2. IInv'
    BY <1>1, <1>4, <1>7, <2>1 DEF IInv
  <2>3. ~FLAG_MIT => ~irq.mit_timer_on
    BY DEF IInv, Settled, Ready
  <2>4. ~FLAG_MIT => quiet = 0
    BY <1>4, <2>3
  <2>5. irq.pin /\ Pending(irq') # {} => irq'.pin
    BY <1>1, <2>1
  <2> QED
    BY <1>7, <2>1, <2>2, <2>4, <2>5
<1> QED
  BY <1>6, <1>7

(* A register write that touches neither causes, mask nor timers.          *)
LEMMA QuietStep ==
    ASSUME IInv, NEW s \in IrqState,
           s.ICR = irq.ICR, s.ICS = irq.ICS, s.IMS = irq.IMS, s.pin = irq.pin,
           s.mit_irq_level = irq.mit_irq_level,
           s.mit_timer_on = irq.mit_timer_on, s.mit_timer = irq.mit_timer,
           Step(s)
    PROVE  IInv' /\ irq'.pin = irq.pin
<1>1. irq' = s /\ quiet' = quiet
  BY DEF Step, StepFrom
<1> QED
  BY <1>1 DEF IInv, Settled, Ready, Pending

(* The invariant holds at the start.                                       *)
LEMMA InitIInv == Init => IInv
<1>1. ResetIrq \in IrqState
  BY DEF ResetIrq, IrqState
<1> QED
  BY <1>1 DEF Init, IInv, Settled, Ready, Pending, ResetIrq, NoTimer

(* e1000_pre_save on a settled device, the window it may open included.    *)
LEMMA PreSaved ==
    ASSUME IInv
    PROVE  LET t == PreSaveIrq(irq) IN
           /\ Settled(t)
           /\ Pending(t) # {} => t.pin
<1>1. CASE irq.mit_timer_on
  <2> DEFINE b == [irq EXCEPT !.mit_timer_on = FALSE]
             t == set_interrupt_cause(b, irq.ICR)
  <2>1. /\ Ready(b) /\ irq.ICR \in SUBSET Causes
        /\ b.pin = irq.pin /\ ~b.mit_timer_on
    BY DEF IInv, Settled, Ready, IrqState
  <2>2. PreSaveIrq(irq) = t
    BY <1>1 DEF PreSaveIrq, e1000_mit_timer
  <2> HIDE DEF b
  <2>3. /\ Settled(t)
        /\ ~(FLAG_MIT /\ ~b.pin /\ t.pin) => t.mit_timer_on = b.mit_timer_on
    BY <2>1, SetInterruptCause
  <2> HIDE DEF t
  <2>4. Pending(t) # {} => t.pin
    BY <2>1, <2>3 DEF Settled
  <2> QED
    BY <2>2, <2>3, <2>4
<1>2. CASE ~irq.mit_timer_on
  <2>1. PreSaveIrq(irq) = irq
    BY <1>2 DEF PreSaveIrq
  <2> QED
    BY <1>2, <2>1 DEF IInv, Settled
<1> QED
  BY <1>1, <1>2

(* Every step keeps it, and what it says of the pin.                       *)
LEMMA NextIInv ==
    ASSUME IInv, [Next]_vars
    PROVE  /\ IInv'
           /\ ~irq.pin /\ irq'.pin /\ ~Savevm /\ ~Migrate => quiet = 0
           /\ irq.pin /\ Pending(irq') # {} => irq'.pin
<1> USE DEF Step
<1>0. /\ irq \in IrqState /\ Ready(irq) /\ SameDelays(irq, irq)
      /\ irq.ICR \in SUBSET Causes /\ irq.IMS \in SUBSET Causes
  BY DEF IInv, Settled, Ready, IrqState, SameDelays
<1>1. CASE WriteICS
  BY <1>0, <1>1, CauseStep DEF WriteICS, set_ics
<1>2. CASE WriteICR
  BY <1>0, <1>2, CauseStep DEF WriteICR, set_icr
<1>3. CASE WriteIMS
  <2>1. PICK val \in SUBSET Causes : Step(set_ims(irq, val))
    BY <1>3 DEF WriteIMS
  <2> DEFINE b == [irq EXCEPT !.IMS = @ \cup val]
  <2>2. /\ Ready(b) /\ b.pin = irq.pin /\ SameDelays(irq, b) /\ b.ICR = irq.ICR
        /\ b.mit_timer_on = irq.mit_timer_on /\ b.mit_timer = irq.mit_timer
    BY <1>0 DEF Ready, IrqState, SameDelays
  <2>3. set_ims(irq, val) = set_interrupt_cause(b, irq.ICR)
    BY <2>2 DEF set_ims, set_ics
  <2> HIDE DEF b
  <2> QED
    BY <1>0, <2>1, <2>2, <2>3, CauseStep
<1>4. CASE WriteIMC
  <2>1. PICK val \in SUBSET Causes : Step(set_imc(irq, val))
    BY <1>4 DEF WriteIMC
  <2> DEFINE b == [irq EXCEPT !.IMS = @ \ val]
  <2>2. /\ Ready(b) /\ b.pin = irq.pin /\ SameDelays(irq, b) /\ b.ICR = irq.ICR
        /\ b.mit_timer_on = irq.mit_timer_on /\ b.mit_timer = irq.mit_timer
    BY <1>0 DEF Ready, IrqState, SameDelays
  <2>3. set_imc(irq, val) = set_interrupt_cause(b, irq.ICR)
    BY <2>2 DEF set_imc, set_ics
  <2> HIDE DEF b
  <2> QED
    BY <1>0, <2>1, <2>2, <2>3, CauseStep
<1>5. CASE ReadICR
  BY <1>0, <1>5, CauseStep DEF ReadICR, mac_icr_read
<1>6. CASE WriteDelay
  <2>1. ASSUME NEW v \in Nat, Step([irq EXCEPT !.ITR = v])
        PROVE  IInv' /\ irq'.pin = irq.pin
    BY <1>0, <2>1, QuietStep DEF IrqState
  <2>2. ASSUME NEW v \in Nat, Step([irq EXCEPT !.RDTR = v])
        PROVE  IInv' /\ irq'.pin = irq.pin
    BY <1>0, <2>2, QuietStep DEF IrqState
  <2>3. ASSUME NEW v \in Nat, Step([irq EXCEPT !.RADV = v])
        PROVE  IInv' /\ irq'.pin = irq.pin
    BY <1>0, <2>3, QuietStep DEF IrqState
  <2>4. ASSUME NEW v \in Nat, Step([irq EXCEPT !.TADV = v])
        PROVE  IInv' /\ irq'.pin = irq.pin
    BY <1>0, <2>4, QuietStep DEF IrqState
  <2> QED
    BY <1>6, <2>1, <2>2, <2>3, <2>4, DelayAssumption DEF WriteDelay
<1>7. CASE Transmit
  <2>1. PICK ide \in BOOLEAN, cause \in SUBSET (Causes \cap TxCauses) :
           LET s0 == [irq EXCEPT !.mit_ide = @ \/ ide]
           IN  StepFrom(s0, set_ics(s0, cause))
    BY <1>7 DEF Transmit
  <2> DEFINE b == [irq EXCEPT !.mit_ide = @ \/ ide]
  <2>2. /\ Ready(b) /\ b.pin = irq.pin /\ b.ICR = irq.ICR
        /\ b.mit_timer_on = irq.mit_timer_on /\ b.mit_timer = irq.mit_timer
    BY <1>0 DEF Ready, IrqState
  <2>3. StepFrom(b, set_interrupt_cause(b, cause \cup irq.ICR))
    BY <2>1, <2>2 DEF set_ics
  <2> HIDE DEF b
  <2>4. cause \cup irq.ICR \in SUBSET Causes
    BY <1>0
  <2>5. b \in IrqState /\ SameDelays(b, b)
    BY <2>2 DEF Ready, SameDelays
  <2> QED
    BY <2>2, <2>3, <2>4, <2>5, CauseStep
<1>8. CASE Tick
  <2>1. irq' = [irq EXCEPT !.mit_timer = IF @ > 0 THEN @ - 1 ELSE @]
    BY <1>8 DEF Tick
  <2>2. quiet' = IF quiet > 0 THEN quiet - 1 ELSE 0
    BY <1>8 DEF Tick
  <2>3. irq.mit_timer \in Nat \cup {NoTimer}
    BY <1>0 DEF IrqState
  <2> DEFINE n == IF irq.mit_timer > 0 THEN irq.mit_timer - 1 ELSE irq.mit_timer
  <2>4. n \in Nat \cup {NoTimer} /\ (n = NoTimer <=> irq.mit_timer = NoTimer)
    BY <2>3 DEF NoTimer
  <2>5. irq' = [irq EXCEPT !.mit_timer = n]
    BY <2>1
  <2>6. IInv => (quiet > 0 => irq.mit_timer_on /\ n = quiet - 1) /\ quiet \in Nat
    BY DEF IInv
  <2> HIDE DEF n
  <2>7. /\ irq' \in IrqState /\ irq'.mit_timer = n
        /\ irq'.ICR = irq.ICR /\ irq'.ICS = irq.ICS /\ irq'.IMS = irq.IMS
        /\ irq'.pin = irq.pin /\ irq'.mit_irq_level = irq.mit_irq_level
        /\ irq'.mit_timer_on = irq.mit_timer_on
    BY <1>0, <2>4, <2>5 DEF IrqState
  <2>8. Settled(irq)'
    BY <2>4, <2>7 DEF IInv, Settled, Ready, Pending
  <2>9. quiet' \in Nat /\ (quiet' > 0 => irq'.mit_timer_on /\ irq'.mit_timer = quiet')
    BY <2>2, <2>6, <2>7
  <2> QED
    BY <2>7, <2>8, <2>9 DEF IInv
<1>9. CASE MitTimer
  <2> DEFINE b == [irq EXCEPT !.mit_timer = NoTimer, !.mit_timer_on = FALSE]
  <2>1. e1000_mit_timer([irq EXCEPT !.mit_timer = NoTimer]) = set_interrupt_cause(b, irq.ICR)
    BY <1>0 DEF e1000_mit_timer, IrqState
  <2>2. /\ Ready(b) /\ b.pin = irq.pin /\ SameDelays(irq, b)
    BY <1>0 DEF Ready, IrqState, SameDelays
  <2>3. quiet = 0
    BY <1>9 DEF MitTimer, IInv
  <2> HIDE DEF b
  <2> QED
    BY <1>0, <1>9, <2>1, <2>2, <2>3, CauseStep DEF MitTimer
<1>10. CASE Reset
  <2>1. Init'
    BY <1>10 DEF Reset, Init
  <2>2. IInv' /\ ~irq'.pin /\ Pending(irq') = {}
    BY <2>1, InitIInv DEF Init, ResetIrq, IInv, Settled, Ready, Pending, IrqState, NoTimer
  <2> QED
    BY <2>2
<1>11. CASE Savevm
  <2>1. Settled(irq')
    BY <1>11, PreSaved DEF Savevm
  <2>2. quiet' = IF irq'.mit_timer_on THEN irq'.mit_timer ELSE 0
    BY <1>11 DEF Savevm
  <2>3. irq'.mit_timer_on => irq'.mit_timer \in Nat
    BY <2>1 DEF Settled, Ready, IrqState
  <2>4. Pending(irq') # {} => irq'.pin
    BY <1>11, PreSaved DEF Savevm
  <2> QED
    BY <1>11, <2>1, <2>2, <2>3, <2>4 DEF IInv
<1>12. CASE Migrate
  <2> DEFINE t == PreSaveIrq(irq)
  <2>1. Settled(t) /\ (Pending(t) # {} => t.pin)
    BY PreSaved
  <2>2. irq' = PostLoadIrq(t) /\ quiet' = 0
    BY <1>12 DEF Migrate
  <2> HIDE DEF t
  <2>3. /\ irq' \in IrqState
        /\ irq'.ICR = t.ICR /\ irq'.ICS = t.ICS /\ irq'.IMS = t.IMS /\ irq'.pin = t.pin
        /\ ~irq'.mit_timer_on /\ irq'.mit_timer = NoTimer
        /\ irq'.mit_irq_level = (FLAG_MIT /\ t.mit_irq_level)
    <3>0. t \in IrqState
      BY <2>1 DEF Settled, Ready
    <3>1. /\ t.ICR \in SUBSET Causes /\ t.ICS \in SUBSET Causes /\ t.IMS \in SUBSET Causes
          /\ t.RDTR \in Nat /\ t.RADV \in Nat /\ t.TADV \in Nat /\ t.ITR \in Nat
          /\ t.pin \in BOOLEAN /\ t.mit_irq_level \in BOOLEAN
      BY <3>0 DEF IrqState
    <3> DEFINE level == FLAG_MIT /\ t.mit_irq_level
    <3>2. level \in BOOLEAN
      BY Zenon
    <3>3. irq' = [ICR |-> t.ICR, ICS |-> t.ICS, IMS |-> t.IMS,
                  RDTR |-> IF FLAG_MIT THEN t.RDTR ELSE 0, RADV |-> IF FLAG_MIT THEN t.RADV ELSE 0,
                  TADV |-> IF FLAG_MIT THEN t.TADV ELSE 0, ITR |-> IF FLAG_MIT THEN t.ITR ELSE 0,
                  mit_timer_on |-> FALSE, mit_irq_level |-> level, mit_ide |-> FALSE,
                  mit_timer |-> NoTimer, pin |-> t.pin]
      BY <2>2 DEF PostLoadIrq, ResetIrq
    <3> HIDE DEF level
    <3>4. irq' \in IrqState
      BY <3>1, <3>2, <3>3 DEF IrqState
    <3>5. /\ irq'.ICR = t.ICR /\ irq'.ICS = t.ICS /\ irq'.IMS = t.IMS /\ irq'.pin = t.pin
          /\ ~irq'.mit_timer_on /\ irq'.mit_timer = NoTimer /\ irq'.mit_irq_level = level
      BY <3>3
    <3> QED
      BY <3>4, <3>5 DEF level
  <2>4. Settled(irq)'
    <3>1. CASE FLAG_MIT
      <4>1. t.mit_irq_level \in BOOLEAN /\ t.mit_irq_level = t.pin
        BY <2>1, <3>1 DEF Settled, Ready, IrqState
      <4>2. irq'.mit_irq_level = irq'.pin
        BY <2>3, <3>1, <4>1
      <4> QED
        BY <2>1, <2>3, <3>1, <4>2 DEF Settled, Ready, Pending
    <3>2. CASE ~FLAG_MIT
      BY <2>1, <2>3, <3>2 DEF Settled, Ready, Pending
    <3> QED
      BY <3>1, <3>2
  <2>5. Pending(irq') # {} => irq'.pin
    BY <2>1, <2>3 DEF Pending
  <2> QED
    BY <1>12, <2>2, <2>4, <2>5 DEF IInv
<1>13. CASE UNCHANGED vars
  BY <1>13 DEF vars, IInv, Settled, Ready, Pending
<1> QED
  BY <1>1, <1>2, <1>3, <1>4, <1>5, <1>6, <1>7, <1>8, <1>9, <1>10, <1>11, <1>12, <1>13
     DEF Next

-----------------------------------------------------------------------------
(* The invariant of interrupt delivery and mitigation                      *)
(* (set_interrupt_cause, e1000_mit_timer).                                 *)
THEOREM Inductive == Spec => []IInv
<1>1. Init => IInv
  BY InitIInv
<1>2. IInv /\ [Next]_vars => IInv'
  BY NextIInv
<1> QED
  BY <1>1, <1>2, PTL DEF Spec

(* Type correctness of the interrupt state.                                *)
THEOREM TypeCorrect == Spec => []TypeOK
<1>1. IInv => TypeOK
  BY DEF IInv, Settled, Ready, TypeOK
<1> QED
  BY <1>1, Inductive, PTL

(* No unmasked cause is ever forgotten: while the pin does not show it, a  *)
(* mitigation window is open and its timer is armed.                       *)
THEOREM InterruptNotLost == Spec => []NoLostInterrupt
<1>1. IInv => NoLostInterrupt
  BY DEF IInv, Settled, Ready, NoLostInterrupt
<1> QED
  BY <1>1, Inductive, PTL

(* ICS reads as ICR in every reachable state.                              *)
THEOREM IcsReadsIcr == Spec => []IcsMirrorsIcr
<1>1. IInv => IcsMirrorsIcr
  BY DEF IInv, Settled, IcsMirrorsIcr
<1> QED
  BY <1>1, Inductive, PTL

(* With mitigation, mit_irq_level is the level of the pin.                 *)
THEOREM LevelIsPin == Spec => []LevelTracksPin
<1>1. IInv => LevelTracksPin
  BY DEF IInv, Settled, Ready, LevelTracksPin
<1> QED
  BY <1>1, Inductive, PTL

(* A machine type without mitigation never postpones an interrupt, though  *)
(* after a migration mit_irq_level no longer tracks the pin.               *)
THEOREM NeverPostponed == Spec => []NoMitigation
<1>1. IInv => NoMitigation
  BY DEF IInv, Settled, Ready, IrqState, NoMitigation
<1> QED
  BY <1>1, Inductive, PTL

(* Rising edges keep the distance that was programmed, for every choice of *)
(* register values: no step but savevm and migration raises the pin inside *)
(* a window.                                                               *)
THEOREM EdgesThrottled == Spec => Throttled
<1>1. IInv /\ [Next]_vars => [~irq.pin /\ irq'.pin /\ ~Savevm /\ ~Migrate => quiet = 0]_vars
  BY NextIInv
<1> QED
  BY <1>1, Inductive, PTL DEF Spec, Throttled

(* The device implements the safety part of IrqLine, the level-triggered   *)
(* line that a guest driver relies on.                                     *)
THEOREM ImplementsLine == Spec => LineSafety
<1>1. Init => Line!LineInit
  BY DEF Init, Line!LineInit, ResetIrq
<1>2. IInv /\ [Next]_vars => [Line!Change]_(Line!lvars)
  <2> SUFFICES ASSUME IInv, [Next]_vars
               PROVE  Line!Change
    OBVIOUS
  <2>1. IInv' /\ (irq.pin /\ Pending(irq') # {} => irq'.pin)
    BY NextIInv
  <2>2. /\ irq'.ICR \in SUBSET Causes /\ irq'.IMS \in SUBSET Causes
        /\ irq'.pin \in BOOLEAN
        /\ irq'.pin => Pending(irq') # {}
    BY <2>1 DEF IInv, Settled, Ready, IrqState, Pending
  <2> QED
    BY <2>1, <2>2 DEF Line!Change, Pending
<1> QED
  BY <1>1, <1>2, Inductive, PTL DEF Spec, LineSafety, Line!LineSafety
=============================================================================
