-------------------------- MODULE MCE1000Interrupts --------------------------
(* A transmit cause, the receive cause that RADV applies to, and one cause *)
(* that only ITR delays.  ITR = 3 is shorter than one unit of RADV or TADV *)
(* (4) and ITR = 5 longer, so that each of the three can be the minimum.   *)
EXTENDS E1000Interrupts

MCCauses == {"TXDW", "RXT0", "LSC"}
MCItrValues == {0, 3, 5}
MCDelayValues == {0, 1}
=============================================================================
