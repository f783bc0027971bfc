------------------------------- MODULE E1000Rx -------------------------------
(***************************************************************************)
(* Reception: the descriptor ring in guest memory, the packet queue in     *)
(* front of the device and the guest driver that posts and cleans          *)
(* descriptors.  Frames come from the host; link state and interrupts are  *)
(* those of E1000Phy and E1000Irq.                                         *)
(*                                                                         *)
(* The driver is sane: RDLEN covers N descriptors, RDH and RDT are indexes *)
(* into the ring and it only gives the device descriptors it has cleaned.  *)
(***************************************************************************)
EXTENDS E1000Phy, FiniteSets, Sequences

CONSTANTS
    N,              \* descriptors in the ring: RDLEN / sizeof(desc)
    RctlValues,     \* values the driver writes to RCTL
    Frames,         \* kinds of frames on the wire
    Nulls,          \* whether a descriptor's buffer address may be null
    LinkChanges,    \* whether the link may go down and up
    W,              \* width of a statistics register (32)
    nq_maxlen,      \* limit of the packet queue
    MaxFrames       \* bound: frames sent in a behaviour, looped ones included

(* The fields of RCTL that the device looks at, and what a frame says of   *)
(* itself: vlan (tagged), vfta (its VLAN id is in the filter table), group *)
(* and bcast (destination), ra (it matches a valid receive address) and    *)
(* mta (its hash bit is set).                                              *)
RctlBits ==
    [EN : BOOLEAN, BSEX : BOOLEAN, SZ : 0..3, RDMTS : 0..3, LPE : BOOLEAN, SBP : BOOLEAN,
     SECRC : BOOLEAN, UPE : BOOLEAN, MPE : BOOLEAN, BAM : BOOLEAN, VFE : BOOLEAN]
FrameKinds ==
    [size : Nat, vlan : BOOLEAN, vfta : BOOLEAN, group : BOOLEAN, bcast : BOOLEAN,
     ra : BOOLEAN, mta : BOOLEAN]

(* A frame fits a statistics register, as it does in 32 bits.              *)
ASSUME RxAssumption ==
    /\ N \in Nat /\ N > 1
    /\ RctlValues \subseteq RctlBits /\ Frames \subseteq FrameKinds
    /\ Nulls \subseteq BOOLEAN /\ LinkChanges \in BOOLEAN
    /\ W \in Nat /\ 2 ^ W \in Nat /\ 2 ^ W > 64
    /\ \A f \in Frames : f.size + 4 < 2 ^ W
    /\ {"RXT0", "RXDMT0", "RXO"} \subseteq Causes

DescSize == 16

VARIABLES
    s,          \* E1000State: link (with irq), RCTL, VME, RDH, RDT, rxbuf_*;
                \* GPRC, TPR, TORL, TORH; ring: the descriptors in guest
                \* memory; history: due (lengths of the frames stored that the
                \* driver has not put together), count (frames, their octets on
                \* the wire and those of the VLAN tags taken out of them, since
                \* the statistics were read), overrun (the head has run past the
                \* tail), within (no frame has filled more buffers than lay
                \* between head and tail)
    queue,      \* the NIC's incoming queue
    sent,       \* history: frames the host has sent or the PHY looped back
    clean,      \* driver: next descriptor to look at
    part,       \* driver: bytes of the frame being put together
    polling,    \* driver: RXT0 was read and the ring is being cleaned
    whole       \* history: each frame the driver put together was the next due

vars == <<s, queue, sent, clean, part, polling, whole>>

NoRctl == [EN |-> FALSE, BSEX |-> FALSE, SZ |-> 0, RDMTS |-> 0, LPE |-> FALSE,
           SBP |-> FALSE, SECRC |-> FALSE, UPE |-> FALSE, MPE |-> FALSE, BAM |-> FALSE,
           VFE |-> FALSE]

-----------------------------------------------------------------------------
(* Pure parts of the receive path.                                         *)

(* SZ is the two-bit buffer size field.                                    *)
rxbufsize(rctl) ==
    IF rctl.SZ = 0 THEN 2048
    ELSE IF rctl.BSEX THEN <<16384, 8192, 4096>>[rctl.SZ] ELSE <<1024, 512, 256>>[rctl.SZ]

fcs_len(d) == IF d.RCTL.SECRC THEN 0 ELSE 4

receive_filter(d, f) ==
    /\ f.vlan /\ d.RCTL.VFE => f.vfta
    /\ \/ d.RCTL.UPE
       \/ f.group /\ d.RCTL.MPE
       \/ f.bcast /\ d.RCTL.BAM
       \/ f.ra
       \/ f.mta

(* Mutant: the tail descriptor is counted as free.                         *)
Mutant_has_rxbufs(d, total) ==
    total <= d.rxbuf_size * (IF d.RDH <= d.RDT THEN d.RDT - d.RDH + 1
                             ELSE N + d.RDT - d.RDH + 1)

e1000_has_rxbufs(d, total) ==
    IF total <= d.rxbuf_size THEN d.RDH # d.RDT
    ELSE LET bufs == IF d.RDH < d.RDT THEN d.RDT - d.RDH
                     ELSE IF d.RDH > d.RDT THEN N + d.RDT - d.RDH ELSE 0
         IN  total <= bufs * d.rxbuf_size

e1000_can_receive(d) == d.link.LU /\ d.RCTL.EN /\ e1000_has_rxbufs(d, 1)

set_ics_rx(d, val) == [d EXCEPT !.link.irq = set_ics(@, val)]

Oversized(d, size) ==
    /\ size > 16384 \/ (size > 1522 /\ ~d.RCTL.LPE)
    /\ ~d.RCTL.SBP

(* The descriptors the do loop of e1000_receive_iov goes through for a     *)
(* frame of total bytes: Slot(i) is the i-th one, Filled(i) the buffers    *)
(* among the first i.  The loop ends when the frame is stored, or when the *)
(* head is back where it started.                                          *)
Slot(d, i) == (d.RDH + i) % N
Filled(d, i) == Cardinality({j \in 0..(i - 1) : ~d.ring[Slot(d, j)].null})
Needed(d, total) == (total + d.rxbuf_size - 1) \div d.rxbuf_size
Used(d, total) ==
    CHOOSE i \in 1..N :
        /\ i = N \/ Filled(d, i) >= Needed(d, total)
        /\ \A j \in 1..(i - 1) : Filled(d, j) < Needed(d, total)

(* Mutant: the end-of-packet bit left by the previous user of a descriptor *)
(* survives.                                                               *)
Mutant_keep_eop(d, total, i) ==
    LET desc == d.ring[Slot(d, i)]
        left == total - Filled(d, i) * d.rxbuf_size
    IN  IF desc.null THEN [desc EXCEPT !.DD = TRUE]
        ELSE [desc EXCEPT !.DD = TRUE, !.length = IF left > d.rxbuf_size THEN d.rxbuf_size ELSE left,
                          !.EOP = @ \/ left <= d.rxbuf_size]

(* What the loop writes back to its i-th descriptor.                       *)
WriteBack(d, total, i) ==
    LET desc == d.ring[Slot(d, i)]
        left == total - Filled(d, i) * d.rxbuf_size
    IN  IF desc.null THEN [desc EXCEPT !.DD = TRUE]
        ELSE [desc EXCEPT !.DD = TRUE, !.length = IF left > d.rxbuf_size THEN d.rxbuf_size ELSE left,
                          !.EOP = (left <= d.rxbuf_size)]

(* Mutant: a low ring replaces the receive cause instead of adding to it.  *)
Mutant_causes(d) ==
    LET rdt == IF d.RDT < d.RDH THEN d.RDT + N ELSE d.RDT
    IN  IF (rdt - d.RDH) * DescSize <= (N * DescSize) \div 2 ^ d.rxbuf_min_shift
        THEN {"RXDMT0"} ELSE {"RXT0"}

(* The causes of a frame received, from the ring as the loop leaves it.    *)
RxCauses(d) ==
    LET rdt == IF d.RDT < d.RDH THEN d.RDT + N ELSE d.RDT
    IN  {"RXT0"} \cup
        (IF (rdt - d.RDH) * DescSize <= (N * DescSize) \div 2 ^ d.rxbuf_min_shift
         THEN {"RXDMT0"} ELSE {})

(* Mutant: the carry is looked for after the low word has been stored.     *)
Mutant_late_carry(d, size) ==
    [d EXCEPT !.GPRC = (@ + 1) % 2 ^ W, !.TPR = (@ + 1) % 2 ^ W,
              !.TORL = (@ + size + 4) % 2 ^ W]

(* The statistics of a frame of size bytes as it is stored, to which the   *)
(* FCS is added whether or not it is stored.                               *)
CountReceived(d, size) ==
    LET n == (d.TORL + size + 4) % 2 ^ W
    IN  [d EXCEPT !.GPRC = (@ + 1) % 2 ^ W, !.TPR = (@ + 1) % 2 ^ W, !.TORL = n,
                  !.TORH = IF n < d.TORL THEN (@ + 1) % 2 ^ W ELSE @]

(* A frame of size0 bytes, size without the tag that was taken out.        *)
Store(d, size0, size) ==
    LET total == size + fcs_len(d)
        used == Used(d, total)
        room == (d.RDT + N - d.RDH) % N
        t == [d EXCEPT !.RDH = Slot(d, used),
                       !.ring = [k \in 0..(N - 1) |->
                                   LET i == (k + N - d.RDH) % N
                                   IN  IF i < used THEN WriteBack(d, total, i) ELSE d.ring[k]],
                       !.overrun = @ \/ used > room,
                       !.within = @ /\ Filled(d, used) <= room]
    IN  IF used = N THEN set_ics_rx(t, {"RXO"})
        ELSE [set_ics_rx(CountReceived(t, size), RxCauses(t)) EXCEPT
                !.due = Append(@, total),
                !.count = [frames |-> @.frames + 1, octets |-> @.octets + size0 + 4,
                           tags |-> @.tags + (size0 - size)]]

(* e1000_receive and e1000_receive_iov.  Every outcome is non-zero for the *)
(* queue, so the state is all that matters.                                *)
e1000_receive_iov(d, f) ==
    LET size0 == IF f.size < 60 THEN 60 ELSE f.size
        size  == IF d.VME /\ f.vlan THEN size0 - 4 ELSE size0
    IN  IF ~d.link.LU \/ ~d.RCTL.EN \/ Oversized(d, size0) \/ ~receive_filter(d, f) THEN d
        ELSE IF ~e1000_has_rxbufs(d, size + fcs_len(d)) THEN set_ics_rx(d, {"RXO"})
        ELSE Store(d, size0, size)

qemu_deliver_packet(d, f) == IF d.link.link_down THEN d ELSE e1000_receive_iov(d, f)

(* qemu_net_queue_flush: the handler never answers 0, so the whole queue   *)
(* is delivered or dropped.                                                *)
Flush(d) ==
    LET after[n \in 0..Len(queue)] ==
            IF n = 0 THEN d ELSE qemu_deliver_packet(after[n - 1], queue[n])
    IN  after[Len(queue)]

-----------------------------------------------------------------------------
NoCount == [frames |-> 0, octets |-> 0, tags |-> 0]
FreshDesc == [null |-> FALSE, DD |-> FALSE, EOP |-> FALSE, length |-> 0]

(* A device after e1000_reset, before its driver has started; rxbuf_size   *)
(* keeps its old value.                                                    *)
ResetRx(link, rxbuf_size) ==
    [link |-> link, RCTL |-> NoRctl, VME |-> FALSE, RDH |-> 0, RDT |-> 0,
     rxbuf_size |-> rxbuf_size, rxbuf_min_shift |-> 1,
     GPRC |-> 0, TPR |-> 0, TORL |-> 0, TORH |-> 0,
     ring |-> [k \in 0..(N - 1) |-> FreshDesc], due |-> <<>>,
     count |-> NoCount, overrun |-> FALSE, within |-> TRUE]

Init ==
    /\ s = ResetRx(ResetLink(FALSE), 0)
    /\ queue = <<>> /\ sent = 0 /\ clean = 0 /\ part = 0 /\ polling = FALSE /\ whole = TRUE

driver == <<clean, part, polling, whole>>

(* The host sends a frame: qemu_net_queue_send without a callback.         *)
HostSend ==
    /\ sent < MaxFrames
    /\ sent' = sent + 1
    /\ \E f \in Frames :
        IF ~e1000_can_receive(s)
        THEN /\ queue' = IF Len(queue) >= nq_maxlen THEN queue ELSE Append(queue, f)
             /\ s' = s
        ELSE /\ s' = Flush(qemu_deliver_packet(s, f))
             /\ queue' = <<>>
    /\ UNCHANGED driver

set_rx_control(v) ==
    /\ s' = Flush([s EXCEPT !.RCTL = v, !.rxbuf_size = rxbufsize(v),
                            !.rxbuf_min_shift = v.RDMTS + 1])
    /\ queue' = <<>>

WriteRCTL == \E v \in RctlValues : set_rx_control(v) /\ UNCHANGED <<sent, driver>>

WriteCTRL ==
    \E vme \in BOOLEAN : s' = [s EXCEPT !.VME = vme] /\ UNCHANGED <<queue, sent, driver>>

(* Mutant: the queue is not flushed when buffers arrive.                   *)
Mutant_rdt_no_flush(d, rdt) == s' = [d EXCEPT !.RDT = rdt] /\ queue' = queue

set_rdt(d, rdt) ==
    LET t == [d EXCEPT !.RDT = rdt]
    IN  IF e1000_has_rxbufs(t, 1) THEN s' = Flush(t) /\ queue' = <<>>
        ELSE s' = t /\ queue' = queue

(* Driver: hand n cleaned descriptors to the device.  One descriptor stays *)
(* free, so that a full ring is not taken for an empty one.  Bound: at     *)
(* most one buffer address in the ring is null.                            *)
Free == (clean + N - s.RDT - 1) % N

PostBuffers ==
    \E n \in 1..Free, null \in Nulls :
        /\ null => n = 1 /\ \A k \in 0..(N - 1) : ~s.ring[k].null
        /\ set_rdt([s EXCEPT !.ring = [k \in 0..(N - 1) |->
                        IF (k + N - s.RDT) % N < n
                        THEN [s.ring[k] EXCEPT !.null = null] ELSE s.ring[k]]],
                   (s.RDT + n) % N)
        /\ UNCHANGED <<sent, driver>>

(* Driver: the interrupt handler reads ICR, which clears it, and starts to *)
(* clean the ring when a frame was received.                               *)
ReadICR ==
    /\ s.link.irq.ICR # {}
    /\ s' = [s EXCEPT !.link.irq = mac_icr_read(@)]
    /\ polling' = (polling \/ "RXT0" \in s.link.irq.ICR)
    /\ UNCHANGED <<queue, sent, clean, part, whole>>

(* Driver: take one descriptor and clear its done bit (not its             *)
(* end-of-packet bit), or stop when the next one is not done.  The length  *)
(* is not looked at again.                                                 *)
Clean ==
    /\ polling
    /\ LET desc == s.ring[clean]
           ends == desc.EOP /\ ~desc.null
           got  == IF desc.null THEN part ELSE part + desc.length
       IN  IF ~desc.DD THEN polling' = FALSE /\ UNCHANGED <<s, clean, part, whole>>
           ELSE /\ s' = [s EXCEPT !.ring[clean].DD = FALSE, !.ring[clean].length = 0,
                                  !.due = IF ends /\ @ # <<>> THEN Tail(@) ELSE @]
                /\ clean' = (clean + 1) % N
                /\ part' = IF ends THEN 0 ELSE got
                /\ whole' = (whole /\ (ends => s.due # <<>> /\ got = Head(s.due)))
                /\ polling' = TRUE
    /\ UNCHANGED <<queue, sent>>

(* Driver: read the statistics, which clears them; TORH clears TORL too.   *)
ReadStatistics ==
    /\ s.count.frames > 0
    /\ s' = [s EXCEPT !.GPRC = 0, !.TPR = 0, !.TORH = 0, !.TORL = 0,
                      !.count = NoCount]
    /\ UNCHANGED <<queue, sent, driver>>

(* The link: set_link by the host, a negotiation restarted by the guest    *)
(* and its timer.  None of them flushes the queue.  The guest sets the     *)
(* loopback bit in the same write; it only allows SendLooped.              *)
SetLink ==
    /\ LinkChanges
    /\ \E up \in BOOLEAN :
        s' = [s EXCEPT !.link = e1000_set_link_status([@ EXCEPT !.link_down = ~up])]
    /\ UNCHANGED <<queue, sent, driver>>

RestartAutoneg ==
    /\ LinkChanges
    /\ s' = [s EXCEPT !.link =
                set_mdic(@, TRUE, "WRITE", "PHY_CTRL", CtrlBits \cup {"LOOPBACK"}, FALSE)]
    /\ UNCHANGED <<queue, sent, driver>>

AutonegTimer ==
    /\ s.link.autoneg_timer
    /\ s' = [s EXCEPT !.link = e1000_autoneg_timer([@ EXCEPT !.autoneg_timer = FALSE])]
    /\ UNCHANGED <<queue, sent, driver>>

(* Guest: a frame is transmitted in loopback.  e1000_send_packet gives it  *)
(* to e1000_receive at once, past e1000_can_receive, nc->link_down and the *)
(* packets in the queue.  (The transmit causes are those of E1000Tx.)      *)
SendLooped ==
    /\ "LOOPBACK" \in s.link.phy_reg["PHY_CTRL"]
    /\ sent < MaxFrames
    /\ sent' = sent + 1
    /\ \E f \in Frames : s' = e1000_receive_iov(s, f)
    /\ UNCHANGED <<queue, driver>>

(* System reset restarts the guest too; the packet queue is not touched.   *)
Reset ==
    /\ s' = ResetRx(ResetLink(s.link.link_down), s.rxbuf_size)
    /\ clean' = 0 /\ part' = 0 /\ polling' = FALSE /\ whole' = TRUE
    /\ UNCHANGED <<queue, sent>>

(* All receive registers travel; the queue stays behind.                   *)
Migrate ==
    /\ s' = [s EXCEPT !.link = PostLoadLink(PreSaveLink(@))]
    /\ queue' = <<>>
    /\ UNCHANGED <<sent, driver>>

Next ==
    \/ HostSend \/ WriteRCTL \/ WriteCTRL \/ PostBuffers \/ ReadICR \/ Clean \/ ReadStatistics
    \/ SetLink \/ RestartAutoneg \/ AutonegTimer \/ SendLooped
    \/ Reset \/ Migrate

Spec == Init /\ [][Next]_vars

-----------------------------------------------------------------------------
(* What the driver puts together are the frames the device accepted, in    *)
(* order, whole and once: across ring wraps, frames of several buffers,    *)
(* null buffers, changes of buffer size and packets flushed from the       *)
(* queue.  Null buffers count as room in e1000_has_rxbufs and may send the *)
(* head past the tail (overrun), after which nothing is said: see          *)
(* DeviceStaysBehindTail.                                                  *)
DriverSeesAccepted ==
    ~s.overrun =>
    /\ whole
    /\ ~s.ring[clean].DD => s.due = <<>> /\ part = 0

(* No frame fills more buffers than the driver has given, and as long as   *)
(* the head has not run past the tail (overrun) the device has marked no   *)
(* descriptor done but those between the driver's index and the head.  The *)
(* exemption is needed with a sane driver: the loop skips null buffers,    *)
(* which e1000_has_rxbufs has counted as room, and goes on past RDT, up to *)
(* a full turn of the ring.  (The comment in start_xmit, to which the loop *)
(* refers, says that this takes bogus registers.)  By the first part a     *)
(* null buffer is the only cause of it.                                    *)
DeviceStaysBehindTail ==
    /\ s.within
    /\ ~s.overrun => \A k \in 0..(N - 1) : s.ring[k].DD =>
                        (k + N - clean) % N < (s.RDH + N - clean) % N

(* A done descriptor the driver is not looking at has its receive cause    *)
(* still in ICR: no wake-up is lost between ReadICR and Clean.             *)
NoLostReceive == ~s.overrun /\ s.ring[clean].DD /\ ~polling => "RXT0" \in s.link.irq.ICR

(* The statistics count the frames stored since they were last read, and   *)
(* their octets from the destination address through the CRC, through      *)
(* carries from the low word to the high word, except that the VLAN tags   *)
(* the device has taken out are missing: the comment at TOR says that all  *)
(* are included, and the code adds the size after the tag is stripped.     *)
ReceiveStatisticsExact ==
    /\ s.GPRC = s.count.frames % 2 ^ W /\ s.TPR = s.GPRC
    /\ s.TORH * 2 ^ W + s.TORL = (s.count.octets - s.count.tags) % (2 ^ W * 2 ^ W)

(* Whatever makes the device able to receive again, except a link that     *)
(* comes up, delivers the packets that were queued meanwhile.              *)
FlushedByDriver ==
    [][~e1000_can_receive(s) /\ e1000_can_receive(s') /\ s'.link.LU = s.link.LU
         => queue' = <<>>]_vars
=============================================================================
