------------------------------ MODULE MCE1000Tx ------------------------------
(* Packets of two header bytes: a plain one in two descriptors; one with   *)
(* checksum offload and a VLAN tag; segmentation into two full segments    *)
(* and a short one, tagged, with the header cut off from the payload and   *)
(* with a cut inside the header; segmentation whose payload is a multiple  *)
(* of mss; and one that relies on the context of an earlier packet.        *)
EXTENDS E1000Tx

Kind(payload, cuts, tso, context, sum, tag) ==
    [hdr |-> 2, mss |-> 2, payload |-> payload, cuts |-> cuts, tso |-> tso,
     context |-> context, sum |-> sum, tag |-> tag]

Plain  == Kind(2, <<1, 3>>, FALSE, FALSE, FALSE, 0)
Tagged == Kind(1, <<3>>, FALSE, FALSE, TRUE, 7)
Short  == Kind(5, <<2, 5>>, TRUE, TRUE, TRUE, 9)
Split  == Kind(5, <<1, 6>>, TRUE, TRUE, FALSE, 0)
Exact  == Kind(4, <<6>>, TRUE, TRUE, FALSE, 0)
Again  == Kind(4, <<6>>, TRUE, FALSE, FALSE, 0)

MCCauses == TxCauses
MCKinds == {Plain, Tagged, Short, Split, Exact}
MCReuse == {Exact, Again}
=============================================================================
