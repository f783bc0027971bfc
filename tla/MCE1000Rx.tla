------------------------------ MODULE MCE1000Rx ------------------------------
(* Three descriptors; buffers of 256 or 512 bytes; a frame below the       *)
(* minimum length, and a VLAN tagged one of 300 bytes that needs two small *)
(* buffers or one large.  A run in which the head has passed the tail, as  *)
(* null buffers make possible, is not followed further.                    *)
EXTENDS E1000Rx

MCCauses == {"RXT0", "RXDMT0", "RXO", "LSC", "MDAC"}
Small == [NoRctl EXCEPT !.EN = TRUE, !.SZ = 3]
Large == [NoRctl EXCEPT !.EN = TRUE, !.SZ = 2, !.RDMTS = 1, !.SECRC = TRUE]
MCRctlValues == {NoRctl, Small, Large}
Frame(size, vlan, ra) ==
    [size |-> size, vlan |-> vlan, vfta |-> FALSE, group |-> FALSE, bcast |-> FALSE,
     ra |-> ra, mta |-> FALSE]
MCFrames == {Frame(40, FALSE, TRUE), Frame(300, TRUE, TRUE)}
MCNulls == BOOLEAN
MCNotOverrun == ~s.overrun
=============================================================================
