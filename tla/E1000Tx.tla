------------------------------- MODULE E1000Tx -------------------------------
(***************************************************************************)
(* Transmission: the descriptor ring in guest memory, the transmit state   *)
(* that the device keeps between descriptors, TCP segmentation, VLAN and   *)
(* checksum offload, and the statistics registers.  The guest driver posts *)
(* packets of several descriptors, and may hand them over piecemeal.       *)
(*                                                                         *)
(* A byte is <<packet, position>>, so that what arrives on the wire can be *)
(* compared with what was posted.  The driver is sane: TDLEN covers N      *)
(* descriptors, TDT stays behind the descriptors it has not reclaimed, MSS *)
(* is not zero and packets fit the 64 KiB of tx.data.                      *)
(***************************************************************************)
EXTENDS E1000Irq, FiniteSets, Sequences, SequencesExt

CONSTANTS
    N,              \* descriptors in the ring: TDLEN / sizeof(desc)
    Kinds,          \* the kinds of packets the driver sends
    VME,            \* CTRL.VME: VLAN tags are inserted
    MigrateOpen,    \* whether a guest may be migrated with a packet half posted
    W,              \* width of a statistics register (32)
    MaxPackets      \* bound: packets the driver posts in a behaviour

Total(seq) ==
    LET upto[n \in 0..Len(seq)] == IF n = 0 THEN 0 ELSE upto[n - 1] + seq[n]
    IN  upto[Len(seq)]

(* A kind of packet: hdr header bytes and payload bytes, cut into data     *)
(* descriptors of the given lengths; tso with segments of mss bytes;       *)
(* context: a context descriptor precedes it (one may serve many packets). *)
PacketKinds ==
    [hdr : Nat, mss : Nat, payload : Nat, cuts : Seq(Nat), tso : BOOLEAN,
     context : BOOLEAN, sum : BOOLEAN, tag : Nat]

(* A packet fits a statistics register, as it does in 32 bits.             *)
ASSUME TxAssumption ==
    /\ N \in Nat /\ N > 1 /\ VME \in BOOLEAN /\ MigrateOpen \in BOOLEAN
    /\ W \in Nat /\ 2 ^ W \in Nat /\ 2 ^ W > 0
    /\ Kinds \subseteq PacketKinds
    /\ \A k \in Kinds : /\ k.mss > 0 /\ k.hdr > 0 /\ Total(k.cuts) = k.hdr + k.payload
                        /\ k.hdr + k.payload < 2 ^ W
    /\ TxCauses \subseteq Causes

VARIABLES
    s,          \* E1000State: TCTL_EN, TDH, TDT, tx, irq, TPT, GPTC, TOTL, TOTH;
                \* ring: the descriptors in guest memory; wire: history of frames
    todo,       \* driver: descriptors of the current packet not yet handed over
    posted,     \* history: kinds of the packets posted; the index is the packet
    clean,      \* driver: oldest descriptor not reclaimed
    reaping,    \* driver: TXDW was read and the ring is being reclaimed
    counted     \* history: frames covered by the last read of the statistics

vars == <<s, todo, posted, clean, reaping, counted>>

NoTx ==
    [data |-> <<>>, header |-> <<>>, hdr_len |-> 0, mss |-> 0, paylen |-> 0,
     tso_frames |-> 0, sum_needed |-> FALSE, tse |-> FALSE, cptse |-> FALSE,
     vlan_needed |-> FALSE, vlan_header |-> 0]

-----------------------------------------------------------------------------
(* The frame xmit_seg puts on the wire: seq is what it adds to the         *)
(* sequence number of the header, fin whether PSH and FIN survive.         *)
Frame(tx) ==
    LET tso   == tx.tse /\ tx.cptse
        sofar == tx.tso_frames * tx.mss
    IN  [bytes |-> tx.data, seq |-> IF tso THEN sofar ELSE 0,
         fin |-> ~(tso /\ tx.paylen - sofar > tx.mss), sum |-> tx.sum_needed,
         vlan |-> IF tx.vlan_needed THEN tx.vlan_header ELSE 0]

(* Mutant: the high word is not touched.                                   *)
Mutant_no_carry(d, size) ==
    [d EXCEPT !.TPT = (@ + 1) % 2 ^ W, !.GPTC = (@ + 1) % 2 ^ W,
              !.TOTL = (@ + size) % 2 ^ W]

(* The statistics at the end of xmit_seg; the carry is seen by the sum     *)
(* being less than what was there.                                         *)
CountFrame(d, size) ==
    LET low == (d.TOTL + size) % 2 ^ W
    IN  [d EXCEPT !.TPT = (@ + 1) % 2 ^ W, !.GPTC = (@ + 1) % 2 ^ W, !.TOTL = low,
                  !.TOTH = IF low < d.TOTL THEN (@ + 1) % 2 ^ W ELSE @]

(* Mutant: the frame counter of the packet stands still.                   *)
Mutant_no_frame_count(d) == [CountFrame(d, Len(d.tx.data)) EXCEPT !.wire = Append(@, Frame(d.tx))]

xmit_seg(d) ==
    [CountFrame(d, Len(d.tx.data)) EXCEPT
        !.wire = Append(@, Frame(d.tx)),
        !.tx.tso_frames = IF d.tx.tse /\ d.tx.cptse THEN @ + 1 ELSE @]

(* Mutant: the next segment starts without the header.                     *)
Mutant_no_header(d, byte) ==
    LET data == Append(d.tx.data, byte)
        t    == [d EXCEPT !.tx.data = data]
    IN  IF Len(data) = d.tx.hdr_len + d.tx.mss THEN [xmit_seg(t) EXCEPT !.tx.data = <<>>] ELSE t

(* The segmentation loop of process_tx_desc, seen by one byte: the header  *)
(* is kept once it is complete, and a full segment is sent and replaced by *)
(* the header.                                                             *)
Segment(d, byte) ==
    LET data == Append(d.tx.data, byte)
        t    == [d EXCEPT !.tx.data = data,
                          !.tx.header = IF Len(data) = d.tx.hdr_len THEN data ELSE @]
    IN  IF Len(data) = d.tx.hdr_len + d.tx.mss
        THEN [xmit_seg(t) EXCEPT !.tx.data = t.tx.header] ELSE t

ContextDesc(d, desc) ==
    [d EXCEPT !.tx.paylen = desc.paylen, !.tx.hdr_len = desc.hdr_len, !.tx.mss = desc.mss,
              !.tx.tse = desc.TSE, !.tx.tso_frames = 0]

(* What a data or legacy descriptor sets before its data is looked at.     *)
DescFlags(d, desc) ==
    LET cptse == desc.type = "data" /\ desc.TSE
    IN  [d EXCEPT
           !.tx.cptse = cptse,
           !.tx.sum_needed = IF desc.type = "data" /\ d.tx.data = <<>> THEN desc.TXSM ELSE @,
           !.tx.vlan_needed = @ \/ (VME /\ desc.VLE /\ (cptse \/ desc.EOP)),
           !.tx.vlan_header = IF VME /\ desc.VLE /\ (cptse \/ desc.EOP) THEN desc.special ELSE @]

(* A data descriptor that asks for segmentation is ignored when the        *)
(* context does not.                                                       *)
DescData(d, bytes) ==
    IF d.tx.tse /\ d.tx.cptse
    THEN LET after[n \in 0..Len(bytes)] == IF n = 0 THEN d ELSE Segment(after[n - 1], bytes[n])
         IN  after[Len(bytes)]
    ELSE IF d.tx.cptse THEN d ELSE [d EXCEPT !.tx.data = @ \o bytes]

(* Mutant: what belongs to one packet stays for the next.                  *)
Mutant_keep_offloads(d) ==
    LET t == IF d.tx.tse /\ d.tx.cptse /\ Len(d.tx.data) < d.tx.hdr_len THEN d ELSE xmit_seg(d)
    IN  [t EXCEPT !.tx.data = <<>>, !.tx.tso_frames = 0, !.tx.cptse = FALSE]

EndOfPacket(d) ==
    LET t == IF d.tx.tse /\ d.tx.cptse /\ Len(d.tx.data) < d.tx.hdr_len THEN d ELSE xmit_seg(d)
    IN  [t EXCEPT !.tx.data = <<>>, !.tx.tso_frames = 0, !.tx.cptse = FALSE,
                  !.tx.sum_needed = FALSE, !.tx.vlan_needed = FALSE]

process_tx_desc(d, desc) ==
    LET t == [d EXCEPT !.irq.mit_ide = @ \/ desc.IDE]
    IN  IF desc.type = "context" THEN ContextDesc(t, desc)
        ELSE LET u == DescData(DescFlags(t, desc), desc.bytes)
             IN  IF desc.EOP THEN EndOfPacket(u) ELSE u

(* Mutant: a descriptor is reported done without a cause.                  *)
Mutant_silent_writeback(d) ==
    [cause |-> {}, d |-> IF d.ring[d.TDH].RS THEN [d EXCEPT !.ring[d.TDH].DD = TRUE] ELSE d]

txdesc_writeback(d) ==
    IF d.ring[d.TDH].RS THEN [cause |-> {"TXDW"}, d |-> [d EXCEPT !.ring[d.TDH].DD = TRUE]]
    ELSE [cause |-> {}, d |-> d]

(* Mutant: the status is written before the descriptor is looked at, and   *)
(* a packet that spans two runs is reported done by its first descriptor.  *)
Mutant_done_early(acc) ==
    LET wb == [cause |-> {"TXDW"}, d |-> [acc.d EXCEPT !.ring[acc.d.TDH].DD = TRUE]]
    IN  [cause |-> acc.cause \cup wb.cause,
         d |-> [process_tx_desc(wb.d, acc.d.ring[acc.d.TDH]) EXCEPT !.TDH = (@ + 1) % N]]

(* One turn of the loop of start_xmit.                                     *)
XmitOne(acc) ==
    LET wb == txdesc_writeback(process_tx_desc(acc.d, acc.d.ring[acc.d.TDH]))
    IN  [cause |-> acc.cause \cup wb.cause, d |-> [wb.d EXCEPT !.TDH = (@ + 1) % N]]

(* The loop ends at TDT, before the head can be back where it started.     *)
start_xmit(d) ==
    IF ~d.TCTL_EN THEN d
    ELSE LET turns == (d.TDT + N - d.TDH) % N
             after[n \in 0..turns] ==
                 IF n = 0 THEN [cause |-> {"TXQE"}, d |-> d] ELSE XmitOne(after[n - 1])
         IN  [after[turns].d EXCEPT !.irq = set_ics(@, after[turns].cause)]

-----------------------------------------------------------------------------
NoDesc ==
    [type |-> "legacy", bytes |-> <<>>, EOP |-> FALSE, RS |-> FALSE, TSE |-> FALSE,
     VLE |-> FALSE, TXSM |-> FALSE, IDE |-> FALSE, DD |-> FALSE, special |-> 0,
     hdr_len |-> 0, mss |-> 0, paylen |-> 0]

(* The descriptors of packet number pid; status is asked of the last.      *)
Descriptors(kind, pid) ==
    LET upto(i) == Total(SubSeq(kind.cuts, 1, i))
        data == [i \in DOMAIN kind.cuts |->
                   [NoDesc EXCEPT
                      !.type = IF kind.tso \/ kind.sum THEN "data" ELSE "legacy",
                      !.bytes = [b \in 1..kind.cuts[i] |-> <<pid, upto(i - 1) + b>>],
                      !.EOP = (i = Len(kind.cuts)), !.RS = (i = Len(kind.cuts)),
                      !.TSE = kind.tso, !.TXSM = kind.sum,
                      !.VLE = (kind.tag # 0), !.special = kind.tag]]
        context == [NoDesc EXCEPT !.type = "context", !.hdr_len = kind.hdr, !.mss = kind.mss,
                                  !.paylen = kind.payload, !.TSE = kind.tso]
    IN  IF kind.context THEN <<context>> \o data ELSE data

ResetTx ==
    [TCTL_EN |-> FALSE, TDH |-> 0, TDT |-> 0, tx |-> NoTx, irq |-> ResetIrq,
     TPT |-> 0, GPTC |-> 0, TOTL |-> 0, TOTH |-> 0,
     ring |-> [k \in 0..(N - 1) |-> NoDesc], wire |-> <<>>]

Init ==
    /\ s = ResetTx /\ todo = <<>> /\ posted = <<>> /\ clean = 0
    /\ reaping = FALSE /\ counted = 0

(* Driver: make up the next packet.  One without a context of its own      *)
(* follows a packet with the same.                                         *)
SharesContext(kind) ==
    posted # <<>> /\ [kind EXCEPT !.context = TRUE] = [Last(posted) EXCEPT !.context = TRUE]

Post ==
    /\ todo = <<>> /\ Len(posted) < MaxPackets
    /\ \E kind \in Kinds :
        /\ kind.tso => kind.context \/ SharesContext(kind)
        /\ posted' = Append(posted, kind)
        /\ todo' = Descriptors(kind, Len(posted) + 1)
    /\ UNCHANGED <<s, clean, reaping, counted>>

(* Driver: write some of the descriptors to the ring, then TDT.            *)
Free == (clean + N - s.TDT - 1) % N

WriteTDT ==
    \E n \in 1..Len(todo) :
        /\ n <= Free
        /\ s' = start_xmit([s EXCEPT
                  !.ring = [k \in 0..(N - 1) |->
                              LET i == ((k + N - s.TDT) % N) + 1
                              IN  IF i <= n THEN todo[i] ELSE @[k]],
                  !.TDT = (@ + n) % N])
        /\ todo' = SubSeq(todo, n + 1, Len(todo))
        /\ UNCHANGED <<posted, clean, reaping, counted>>

(* Driver: switch transmission on or off.                                  *)
WriteTCTL ==
    \E en \in BOOLEAN :
        /\ s' = start_xmit([s EXCEPT !.TCTL_EN = en])
        /\ UNCHANGED <<todo, posted, clean, reaping, counted>>

ReadICR ==
    /\ s.irq.ICR # {}
    /\ s' = [s EXCEPT !.irq = mac_icr_read(@)]
    /\ reaping' = (reaping \/ "TXDW" \in s.irq.ICR)
    /\ UNCHANGED <<todo, posted, clean, counted>>

(* The descriptors between clean and the driver's tail.                    *)
Outstanding == {k \in 0..(N - 1) : (k + N - clean) % N < (s.TDT + N - clean) % N}

(* Driver: reclaim a packet whose last descriptor is done, or stop.        *)
Reclaim ==
    /\ reaping
    /\ LET done == {k \in Outstanding : s.ring[k].DD}
       IN  IF done = {} THEN reaping' = FALSE /\ UNCHANGED <<s, clean>>
           ELSE LET k == CHOOSE j \in done : \A i \in done : (j + N - clean) % N <= (i + N - clean) % N
                IN  /\ clean' = (k + 1) % N
                    /\ s' = [s EXCEPT !.ring[k].DD = FALSE]
                    /\ reaping' = TRUE
    /\ UNCHANGED <<todo, posted, counted>>

(* Driver: read the statistics, which clears them; TOTH clears TOTL too.   *)
ReadStatistics ==
    /\ counted # Len(s.wire)
    /\ s' = [s EXCEPT !.TPT = 0, !.GPTC = 0, !.TOTH = 0, !.TOTL = 0]
    /\ counted' = Len(s.wire)
    /\ UNCHANGED <<todo, posted, clean, reaping>>

Reset ==
    /\ s' = ResetTx /\ todo' = <<>> /\ posted' = <<>> /\ clean' = 0
    /\ reaping' = FALSE /\ counted' = 0

(* The registers and most of tx travel; tse, cptse, vlan_needed and        *)
(* vlan_header are not in vmstate_e1000.                                   *)
PostLoadTx(tx) ==
    [tx EXCEPT !.tse = FALSE, !.cptse = FALSE, !.vlan_needed = FALSE, !.vlan_header = 0]

Migrate ==
    /\ MigrateOpen \/ (todo = <<>> /\ s.TDH = s.TDT)
    /\ s' = [s EXCEPT !.tx = PostLoadTx(@), !.irq = PostLoadIrq(PreSaveIrq(@))]
    /\ UNCHANGED <<todo, posted, clean, reaping, counted>>

Next ==
    \/ Post \/ WriteTDT \/ WriteTCTL \/ ReadICR \/ Reclaim \/ ReadStatistics
    \/ Reset \/ Migrate

Spec == Init /\ [][Next]_vars

-----------------------------------------------------------------------------
Pid(frame)  == frame.bytes[1][1]
KindOf(frame) == posted[Pid(frame)]
Payload(frame) ==
    IF frame.bytes = <<>> THEN <<>>
    ELSE SubSeq(frame.bytes, KindOf(frame).hdr + 1, Len(frame.bytes))

PostedPayload(pid) == [i \in 1..posted[pid].payload |-> <<pid, posted[pid].hdr + i>>]

(* The payload on the wire is the payload posted: nothing is lost,         *)
(* repeated or reordered by segmentation, by packets cut into descriptors  *)
(* anywhere, or by handing them over in pieces.                            *)
PayloadPreserved ==
    LET onWire == FlattenSeq([i \in DOMAIN s.wire |-> Payload(s.wire[i])])
        all    == FlattenSeq([pid \in DOMAIN posted |-> PostedPayload(pid)])
    IN  /\ IsPrefix(onWire, all)
        /\ s.TDH = s.TDT /\ todo = <<>> => onWire = all

(* Every frame starts with its packet's header.  A segment's sequence      *)
(* number counts the payload before it, every segment before the end of    *)
(* the payload has mss bytes of it and none has more, and PSH and FIN are  *)
(* in exactly the segments that end the payload.  These can be two: when   *)
(* the payload is a multiple of mss the last full segment keeps both       *)
(* (e1000.c:603), and at EOP the header left in tp->data is sent once more *)
(* as a segment without payload, PSH and FIN still set (e1000.c:722-723).  *)
SegmentsWellFormed ==
    \A i \in DOMAIN s.wire :
        LET f == s.wire[i]
            k == KindOf(f)
        IN  /\ f.bytes # <<>>
            /\ SubSeq(f.bytes, 1, k.hdr) = [j \in 1..k.hdr |-> <<Pid(f), j>>]
            /\ k.tso => /\ Len(Payload(f)) <= k.mss
                        /\ Payload(f) # <<>> => Head(Payload(f))[2] = k.hdr + f.seq + 1
                        /\ LET end == f.seq + Len(Payload(f)) = k.payload
                           IN  (f.fin <=> end) /\ (Len(Payload(f)) = k.mss \/ end)

(* Every frame of a packet gets the checksum and the VLAN tag its packet   *)
(* asked for, and none the packet before left behind.                      *)
OffloadsOwn ==
    \A i \in DOMAIN s.wire :
        LET f == s.wire[i]
        IN  /\ f.sum = KindOf(f).sum
            /\ f.vlan = IF VME THEN KindOf(f).tag ELSE 0

(* A packet reported done is on the wire to its last byte.                 *)
DoneIsOnWire ==
    \A k \in 0..(N - 1) : s.ring[k].DD /\ s.ring[k].bytes # <<>> =>
        \E i \in DOMAIN s.wire : Last(s.ring[k].bytes) \in Range(s.wire[i].bytes)

(* A packet reported done that the driver is not looking for has its cause *)
(* in ICR: no wake-up is lost between ReadICR and Reclaim.                 *)
NoLostTransmit ==
    (\E k \in Outstanding : s.ring[k].DD) /\ ~reaping => "TXDW" \in s.irq.ICR

(* The statistics count the frames since they were last read, through      *)
(* carries from the low word to the high word.                             *)
StatisticsExact ==
    LET frames == SubSeq(s.wire, counted + 1, Len(s.wire))
        octets == Total([i \in DOMAIN frames |-> Len(frames[i].bytes)])
    IN  /\ s.TPT = Len(frames) % 2 ^ W /\ s.GPTC = s.TPT
        /\ s.TOTH * 2 ^ W + s.TOTL = octets % (2 ^ W * 2 ^ W)
=============================================================================
