------------------------------- MODULE MCDisc -------------------------------
(* Two slots; the e1000, which DISC handles, and another network card.     *)
EXTENDS Disc

MCNames == {"e1000", "rtl8139"}
MCDiscNames == {"e1000"}
MCPlacement == {<<1, "e1000">>, <<2, "e1000">>, <<2, "rtl8139">>}
=============================================================================
