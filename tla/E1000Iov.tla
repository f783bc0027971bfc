------------------------------ MODULE E1000Iov ------------------------------
(***************************************************************************)
(* The data path of e1000_receive_iov: one call, from the iovec list of    *)
(* the sender to the bytes in the guest's buffers.  E1000Rx has what a     *)
(* frame does to the ring and the registers and takes the copying for      *)
(* granted; here a frame is its bytes, each named by its place in the      *)
(* frame, and every round of the loops is a step.                          *)
(***************************************************************************)
EXTENDS Naturals, Sequences, SequencesExt

CONSTANTS
    ADDR,           \* bytes of the two addresses (12 in the code)
    TAG,            \* bytes of a VLAN tag (4)
    HDR_LEN,        \* MAXIMUM_ETHERNET_HDR_LEN (18)
    MIN_BUF_SIZE,   \* (60)
    FCS,            \* bytes of the FCS (4)
    rxbuf_size,     \* size of a receive buffer
    N,              \* descriptors in the ring
    Splits,         \* lengths of the iovecs a frame comes in
    NullSets        \* sets of descriptors that have no buffer

ASSUME IovAssumption ==
    /\ TAG \in Nat \ {0} /\ ADDR \in Nat /\ FCS \in Nat
    /\ HDR_LEN \in Nat /\ ADDR + TAG < HDR_LEN /\ HDR_LEN < MIN_BUF_SIZE
    /\ rxbuf_size \in Nat \ {0} /\ N \in Nat \ {0}
    /\ Splits \subseteq Seq(Nat) /\ \A c \in Splits : c # <<>>
    /\ NullSets \subseteq SUBSET (0..(N - 1))

VARIABLES
    frame,      \* the call: [split, tagged, VME, fcs, avail, nulls]
    sender,     \* the sender's memory: the bytes behind each iovec
    min_buf,    \* the buffer on the stack
    padded,     \* iov points to min_iov, which is min_buf
    at,         \* what iov has advanced to: its index
    iov_ofs,
    size,
    desc_offset,
    copy_size,  \* of the inner loop
    RDH,
    ring,       \* descriptors: [data, length, EOP, DD]
    pc          \* where the function is

vars == <<frame, sender, min_buf, padded, at, iov_ofs, size, desc_offset,
          copy_size, RDH, ring, pc>>

Total(lens) == FoldLeft(LAMBDA a, b : a + b, 0, lens)
Lens(iov) == [i \in DOMAIN iov |-> Len(iov[i])]
iov_size(iov) == Total(Lens(iov))
Minimum(a, b) == IF a < b THEN a ELSE b

(* The bytes of a frame cut into iovecs.  Byte k is k; 0 is padding.       *)
Cut(split) ==
    [i \in DOMAIN split |->
        LET start == Total(SubSeq(split, 1, i - 1)) IN [j \in 1..split[i] |-> start + j]]

(* Gathers bytes from the list; a round of the loop per entry.             *)
iov_to_buf(iov, offset, bytes) ==
    LET Round(acc, seg) ==
          IF acc.offset = 0 /\ Len(acc.buf) >= bytes THEN acc
          ELSE IF acc.offset < Len(seg)
          THEN LET len == Minimum(Len(seg) - acc.offset, bytes - Len(acc.buf))
               IN  [offset |-> 0, buf |-> acc.buf \o SubSeq(seg, acc.offset + 1, acc.offset + len)]
          ELSE [acc EXCEPT !.offset = @ - Len(seg)]
    IN  FoldLeft(Round, [offset |-> offset, buf |-> <<>>], iov).buf

(* Mutant: one byte too many.                                              *)
Mutant_from_buf(iov, offset, buf, bytes) ==
    LET Round(acc, seg) ==
          IF acc.offset < Len(seg) /\ acc.done <= bytes
          THEN LET len == Minimum(Len(seg) - acc.offset, bytes + 1 - acc.done)
               IN  [offset |-> 0, done |-> acc.done + len,
                    iov |-> Append(acc.iov, [j \in DOMAIN seg |->
                              IF j \in (acc.offset + 1)..(acc.offset + len)
                              THEN buf[acc.done + j - acc.offset] ELSE seg[j]])]
          ELSE [offset |-> IF acc.offset < Len(seg) THEN 0 ELSE acc.offset - Len(seg),
                done |-> acc.done, iov |-> Append(acc.iov, seg)]
    IN  FoldLeft(Round, [offset |-> offset, done |-> 0, iov |-> <<>>], iov).iov

(* Scatters the first bytes of buf over the list, from offset on.          *)
iov_from_buf(iov, offset, buf, bytes) ==
    LET Round(acc, seg) ==
          IF acc.offset = 0 /\ acc.done >= bytes THEN [acc EXCEPT !.iov = Append(@, seg)]
          ELSE IF acc.offset < Len(seg)
          THEN LET len == Minimum(Len(seg) - acc.offset, bytes - acc.done)
               IN  [offset |-> 0, done |-> acc.done + len,
                    iov |-> Append(acc.iov, [j \in DOMAIN seg |->
                              IF j \in (acc.offset + 1)..(acc.offset + len)
                              THEN buf[acc.done + j - acc.offset] ELSE seg[j]])]
          ELSE [offset |-> acc.offset - Len(seg), done |-> acc.done, iov |-> Append(acc.iov, seg)]
    IN  FoldLeft(Round, [offset |-> offset, done |-> 0, iov |-> <<>>], iov).iov

(* Mutant: memcpy, byte by byte from the start, over what it still needs.  *)
Mutant_memcpy(buf, to, bytes) ==
    [j \in DOMAIN buf |-> IF j \in (to + 1)..(to + bytes) THEN buf[((j - to - 1) % to) + 1] ELSE buf[j]]

(* memmove(buf + to, buf, bytes)                                           *)
memmove(buf, to, bytes) ==
    [j \in DOMAIN buf |-> IF j \in (to + 1)..(to + bytes) THEN buf[j - to] ELSE buf[j]]

(* The list that iov points into.                                          *)
Iov == IF padded THEN <<min_buf>> ELSE sender

total_size == size + (IF frame.fcs THEN FCS ELSE 0)

NoFrame == [split |-> <<>>, tagged |-> FALSE, VME |-> FALSE, fcs |-> FALSE, avail |-> 0, nulls |-> {}]

(* A descriptor the guest has given back, with the end-of-packet bit of    *)
(* the frame before still set.                                             *)
EmptyDesc == [data |-> <<>>, length |-> 0, EOP |-> TRUE, DD |-> FALSE]

Init ==
    /\ frame = NoFrame
    /\ sender = <<>> /\ min_buf = <<>> /\ padded = FALSE /\ at = 1
    /\ iov_ofs = 0 /\ size = 0 /\ desc_offset = 0 /\ copy_size = 0 /\ RDH = 0
    /\ ring = [k \in 0..(N - 1) |-> EmptyDesc] /\ pc = "idle"

-----------------------------------------------------------------------------
(* A sender calls; avail descriptors, from the head on, are free.          *)
Call ==
    /\ pc = "idle" /\ pc' = "pad"
    /\ \E split \in Splits, tagged, VME, fcs \in BOOLEAN, avail \in 1..(N - 1), nulls \in NullSets :
        /\ frame' = [split |-> split, tagged |-> tagged, VME |-> VME, fcs |-> fcs,
                     avail |-> avail, nulls |-> nulls]
        /\ sender' = Cut(split)
    /\ min_buf' = <<>> /\ padded' = FALSE /\ at' = 1 /\ iov_ofs' = 0
    /\ size' = iov_size(sender') /\ desc_offset' = 0 /\ copy_size' = 0 /\ RDH' = 0
    /\ ring' = [k \in 0..(N - 1) |-> EmptyDesc]

(* A short frame is gathered and padded in min_buf; a header that is not   *)
(* in one piece is gathered there for the filter.                          *)
Pad ==
    /\ pc = "pad" /\ pc' = "strip"
    /\ IF size < MIN_BUF_SIZE
       THEN /\ min_buf' = iov_to_buf(sender, 0, size) \o [k \in 1..(MIN_BUF_SIZE - size) |-> 0]
            /\ padded' = TRUE /\ size' = MIN_BUF_SIZE
       ELSE /\ min_buf' = IF Len(sender[1]) < HDR_LEN THEN iov_to_buf(sender, 0, HDR_LEN) ELSE <<>>
            /\ UNCHANGED <<padded, size>>
    /\ UNCHANGED <<frame, sender, at, iov_ofs, desc_offset, copy_size, RDH, ring>>

filter_buf == IF min_buf # <<>> THEN min_buf ELSE sender[1]

(* The type field, read through filter_buf, is that of a tagged frame.     *)
is_vlan_packet ==
    frame.tagged /\ filter_buf[ADDR + 1] = ADDR + 1

(* The filter has accepted the frame.  A tag is removed by moving the      *)
(* addresses over it, where the frame lies, and starting TAG bytes in.     *)
Strip ==
    /\ pc = "strip"
    /\ IF frame.VME /\ is_vlan_packet
       THEN /\ iov_ofs' = TAG /\ size' = size - TAG
            /\ IF padded
               THEN min_buf' = memmove(min_buf, TAG, ADDR) /\ pc' = "room" /\ UNCHANGED sender
               ELSE IF min_buf = <<>>
               THEN sender' = [sender EXCEPT ![1] = memmove(@, TAG, ADDR)] /\ pc' = "room" /\ UNCHANGED min_buf
               ELSE sender' = iov_from_buf(sender, TAG, filter_buf, ADDR) /\ pc' = "skip" /\ UNCHANGED min_buf
       ELSE pc' = "room" /\ UNCHANGED <<iov_ofs, size, min_buf, sender>>
    /\ UNCHANGED <<frame, padded, at, desc_offset, copy_size, RDH, ring>>

(* while (iov->iov_len <= iov_ofs): past the entries the tag used up.      *)
Skip ==
    /\ pc = "skip"
    /\ IF Len(Iov[at]) <= iov_ofs
       THEN iov_ofs' = iov_ofs - Len(Iov[at]) /\ at' = at + 1 /\ pc' = pc
       ELSE pc' = "room" /\ UNCHANGED <<iov_ofs, at>>
    /\ UNCHANGED <<frame, sender, min_buf, padded, size, desc_offset, copy_size, RDH, ring>>

(* e1000_has_rxbufs: the free descriptors are counted, null ones too.      *)
HasRxbufs ==
    /\ pc = "room"
    /\ pc' = IF total_size <= frame.avail * rxbuf_size THEN "desc" ELSE "dropped"
    /\ UNCHANGED <<frame, sender, min_buf, padded, at, iov_ofs, size, desc_offset, copy_size, RDH, ring>>

(* The outer loop up to the inner one: what this buffer is to hold, which  *)
(* is nothing when only bytes of the FCS are left.                         *)
NextDesc ==
    /\ pc = "desc"
    /\ IF RDH \notin frame.nulls /\ desc_offset < size
       THEN copy_size' = Minimum(size - desc_offset, rxbuf_size) /\ pc' = "copy"
       ELSE copy_size' = 0 /\ pc' = "writeback"
    /\ UNCHANGED <<frame, sender, min_buf, padded, at, iov_ofs, size, desc_offset, RDH, ring>>

(* Mutant: the offset into an entry survives its end.                      *)
Mutant_Copy ==
    /\ pc = "copy" /\ at \in DOMAIN Iov
    /\ LET iov_copy == Minimum(copy_size, Len(Iov[at]) - iov_ofs)
       IN  /\ ring' = [ring EXCEPT ![RDH].data = @ \o SubSeq(Iov[at], iov_ofs + 1, iov_ofs + iov_copy)]
           /\ copy_size' = copy_size - iov_copy
           /\ iov_ofs' = iov_ofs + iov_copy
           /\ at' = IF iov_ofs + iov_copy = Len(Iov[at]) THEN at + 1 ELSE at
           /\ pc' = IF copy_size = iov_copy THEN "writeback" ELSE pc
    /\ UNCHANGED <<frame, sender, min_buf, padded, size, desc_offset, RDH>>

(* Mutant: an entry is left only after something was copied from it.       *)
Mutant_stall ==
    /\ pc = "copy" /\ at \in DOMAIN Iov
    /\ LET iov_copy == Minimum(copy_size, Len(Iov[at]) - iov_ofs)
           ended    == iov_ofs + iov_copy = Len(Iov[at]) /\ iov_copy > 0
       IN  /\ ring' = [ring EXCEPT ![RDH].data = @ \o SubSeq(Iov[at], iov_ofs + 1, iov_ofs + iov_copy)]
           /\ copy_size' = copy_size - iov_copy
           /\ iov_ofs' = IF ended THEN 0 ELSE iov_ofs + iov_copy
           /\ at' = IF ended THEN at + 1 ELSE at
           /\ pc' = IF copy_size = iov_copy THEN "writeback" ELSE pc
    /\ UNCHANGED <<frame, sender, min_buf, padded, size, desc_offset, RDH>>

(* A round of the inner loop: as much as the entry and the buffer allow.   *)
Copy ==
    /\ pc = "copy" /\ at \in DOMAIN Iov
    /\ LET iov_copy == Minimum(copy_size, Len(Iov[at]) - iov_ofs)
           ended    == iov_ofs + iov_copy = Len(Iov[at])
       IN  /\ ring' = [ring EXCEPT ![RDH].data = @ \o SubSeq(Iov[at], iov_ofs + 1, iov_ofs + iov_copy)]
           /\ copy_size' = copy_size - iov_copy
           /\ iov_ofs' = IF ended THEN 0 ELSE iov_ofs + iov_copy
           /\ at' = IF ended THEN at + 1 ELSE at
           /\ pc' = IF copy_size = iov_copy THEN "writeback" ELSE pc
    /\ UNCHANGED <<frame, sender, min_buf, padded, size, desc_offset, RDH>>

(* Mutant: the descriptor says how much data it got, not how much of the   *)
(* frame.                                                                  *)
Mutant_Described(d, desc_size) ==
    [d EXCEPT !.DD = TRUE, !.length = Len(d.data), !.EOP = desc_offset + desc_size >= total_size]

Described(d, desc_size) ==
    [d EXCEPT !.DD = TRUE, !.length = desc_size, !.EOP = desc_offset + desc_size >= total_size]

(* The rest of the outer loop: the descriptor is written back and the head *)
(* moves on; back where it started, the frame is given up.                 *)
WriteBack ==
    /\ pc = "writeback"
    /\ LET null      == RDH \in frame.nulls
           desc_size == IF null THEN 0 ELSE Minimum(total_size - desc_offset, rxbuf_size)
       IN  /\ ring' = IF null THEN [ring EXCEPT ![RDH].DD = TRUE]
                      ELSE [ring EXCEPT ![RDH] = Described(@, desc_size)]
           /\ desc_offset' = desc_offset + desc_size
           /\ RDH' = (RDH + 1) % N
           /\ pc' = IF RDH' = 0 THEN "dropped"
                    ELSE IF desc_offset' < total_size THEN "desc" ELSE "stored"
    /\ UNCHANGED <<frame, sender, min_buf, padded, at, iov_ofs, size, copy_size>>

(* The function returns; the next call starts afresh.                      *)
Return ==
    /\ pc \in {"stored", "dropped"}
    /\ frame' = NoFrame /\ sender' = <<>> /\ min_buf' = <<>> /\ padded' = FALSE /\ at' = 1
    /\ iov_ofs' = 0 /\ size' = 0 /\ desc_offset' = 0 /\ copy_size' = 0 /\ RDH' = 0
    /\ ring' = [k \in 0..(N - 1) |-> EmptyDesc] /\ pc' = "idle"

Step == Pad \/ Strip \/ Skip \/ HasRxbufs \/ NextDesc \/ Copy \/ WriteBack \/ Return
Next == Call \/ Step

(* The function runs on once it has been called.                           *)
Spec == Init /\ [][Next]_vars /\ WF_vars(Step)

-----------------------------------------------------------------------------
(* The frame as the guest is to see it, said without iovecs and buffers:   *)
(* padded to the minimum, and without its tag where VME asks for that.     *)
Stripped == frame.VME /\ frame.tagged /\ Total(frame.split) > ADDR
Reference ==
    LET len == Total(frame.split)
        flat == [k \in 1..(IF len < MIN_BUF_SIZE THEN MIN_BUF_SIZE ELSE len) |-> IF k <= len THEN k ELSE 0]
    IN  IF Stripped THEN SubSeq(flat, 1, ADDR) \o SubSeq(flat, ADDR + TAG + 1, Len(flat)) ELSE flat

(* The descriptors the call went through that have a buffer, in order.     *)
Buffers == SelectSeq([k \in 1..RDH |-> k - 1], LAMBDA k : k \notin frame.nulls)

(* However a frame is cut into iovecs, what the guest finds in its buffers *)
(* is that frame: no byte lost, repeated or moved by the padding, the      *)
(* in-place removal of the tag, or the two copy loops.                     *)
StoredIsFrame ==
    pc = "stored" => FoldLeft(LAMBDA a, k : a \o ring[k].data, <<>>, Buffers) = Reference

(* The descriptors describe it: full buffers, then the rest, the FCS       *)
(* counted, with end-of-packet on the last one alone, and data never       *)
(* beyond the length or the buffer.                                        *)
DescribedExactly ==
    pc = "stored" =>
        \A i \in DOMAIN Buffers :
            LET d == ring[Buffers[i]]
            IN  /\ d.DD /\ d.EOP = (i = Len(Buffers))
                /\ d.length = IF i = Len(Buffers)
                              THEN Len(Reference) + (IF frame.fcs THEN FCS ELSE 0)
                                     - (i - 1) * rxbuf_size
                              ELSE rxbuf_size
                /\ Len(d.data) <= d.length /\ d.length \in 1..rxbuf_size

(* iov never runs past the list and iov_ofs never past an entry, empty     *)
(* entries, an entry ended by the tag and a buffer ended by an entry       *)
(* included.                                                               *)
ReadsInside ==
    pc \in {"skip", "copy"} => at \in DOMAIN Iov /\ (pc = "copy" => iov_ofs <= Len(Iov[at]))

(* The only bytes of the sender's that are ever overwritten are those from *)
(* the tag's length to the tag's end, and only to remove the tag of an     *)
(* unpadded frame: whoever is given the same buffer next (net_hub_receive) *)
(* can rely on every other frame and byte.                                 *)
SenderKeepsItsBytes ==
    LET flat == iov_to_buf(sender, 0, iov_size(sender))
    IN  \A k \in DOMAIN flat :
            flat[k] # k => Stripped /\ ~padded /\ k \in (TAG + 1)..(TAG + ADDR)

(* The call comes to an end.                                               *)
CallReturns == pc # "idle" ~> pc = "idle"
=============================================================================
