----------------------------- MODULE MCE1000Iov -----------------------------
(* The lengths scaled down, in their order: addresses of 3 bytes, a tag of *)
(* 2, a header of 6, frames padded to 8, buffers of 4.  Frames of up to 11 *)
(* bytes in every cut into three entries, empty ones included; all, all    *)
(* but one, or no descriptors with a buffer.                               *)
EXTENDS E1000Iov

MCSplits == {c \in [1..3 -> 0..11] : c[1] + c[2] + c[3] \in {2, 4, 7, 8, 9, 11}}
MCNullSets == {{}, {1}, 0..4}
=============================================================================
