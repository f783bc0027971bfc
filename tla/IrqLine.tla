------------------------------- MODULE IrqLine -------------------------------
(***************************************************************************)
(* What the guest may rely on from the e1000's INTx pin, whatever the      *)
(* mitigation timers do: a level-triggered line.  The device may raise the *)
(* line late, but never without an unmasked cause, and once it is high it  *)
(* stays high until no unmasked cause is left.                             *)
(***************************************************************************)
CONSTANT Causes

VARIABLES cause, mask, line

lvars == <<cause, mask, line>>

Asserted == mask \cap cause # {}

LineInit == cause = {} /\ mask = {} /\ line = FALSE

(* Device and guest change causes and mask; the line follows or lags.      *)
Change ==
    /\ cause' \in SUBSET Causes
    /\ mask' \in SUBSET Causes
    /\ line' \in BOOLEAN
    /\ line' => mask' \cap cause' # {}
    /\ line /\ mask' \cap cause' # {} => line'

LineSafety == LineInit /\ [][Change]_lvars

(* An unmasked cause reaches the guest, unless it is withdrawn first.      *)
Delivery == (Asserted /\ ~line) ~> (line \/ ~Asserted)

LineSpec == LineSafety /\ Delivery
=============================================================================
