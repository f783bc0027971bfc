---------------------------- MODULE MCE1000Link ----------------------------
(* The two causes the link component raises.  No delay register is ever    *)
(* written here, so FLAG_MIT makes no window; the interrupts run covers    *)
(* windows.                                                                *)
EXTENDS E1000Link

MCCauses == {"LSC", "MDAC"}
=============================================================================
