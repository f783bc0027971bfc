---------------------------- MODULE MCE1000Eeprom ----------------------------
(* Eight words of four bits, no two of them equal.                         *)
EXTENDS E1000Eeprom

MCTemplate == [i \in 0..7 |-> (5 * i + 1) % 16]
MCMac == <<9, 2, 15>>
=============================================================================
