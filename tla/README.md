# Specifications for SE4VM

SE4VM is a symbolic-execution framework for virtual devices. Its own code has three parts:

- `harness/e1000`: QEMU's e1000 network card (`e1000.c`) cut out of QEMU 1.7.1, the functions it
  calls collected in `klee_external_function_calls.c`, and a KLEE driver (`klee_main.c`) that runs
  the entry points on symbolic state;
- `snapshot`: DISC, a change to QEMU 1.5.0 (`hw/core/qdev.c`, `include/disc/disc.h`, `hmp.c`). It
  takes a snapshot of a device after init and later *flips* the device: it sets it back to the
  snapshot, except for what its `VMStateDescription` lists. If the guest then misbehaves, the
  migration state was incomplete;
- `harness/scripts`: `SE-Diff.py` runs two versions of a program with KLEE and compares the paths
  found; two shell scripts call tools.

The question behind the first two is which device state matters and whether migration keeps it. The
modules here model the e1000 handlers, the packet queue in front of the device, DISC with the part
of QEMU that a flip can break, and `SE-Diff.py`, check them with TLC on small instances, and prove
interrupts, link, reception, transmission, packet queue, DISC and `SE-Diff.py` correct with TLAPS. The rest of the
tree (QEMU, glib) is vendored and outside the scope.

## Inventory

| Component | State | Operations | Hard parts | Module |
|---|---|---|---|---|
| Interrupts and mitigation (`e1000.c:259-350`) | ICR, ICS, IMS, RDTR/RADV/TADV/ITR, `mit_timer`, `mit_timer_on`, `mit_irq_level`, `mit_ide`, INTx pin | writes of ICS/ICR/IMS/IMC and the delays, ICR read, timer, reset, save, load | an edge postponed by a window must not get lost, whatever is masked, saved or migrated meanwhile | `E1000Irq`, `E1000Interrupts`, `IrqLine` |
| Link and PHY (`e1000.c:175-243, 425-457, 850-864`) | STATUS.LU, `phy_reg`, MDIC, `autoneg_timer`, `nc->link_down` | MDIC write, negotiation timer, `set_link`, reset, save, load | a timer started by the guest races the host; load infers what was not saved | `E1000Phy`, `E1000Link` |
| Receive (`e1000.c:352-423, 797-1065, 1116`) | RCTL, RDH, RDT, `rxbuf_size`, `rxbuf_min_shift`, the ring in guest memory, GPRC/TPR/TORL/TORH | frame arrival, writes of RCTL/RDT/CTRL, driver cleaning | frames over several descriptors, ring wrap, lost wake-ups, queued packets | `E1000Rx` |
| Receive data path (`e1000.c:929-1031`, `klee_external_function_calls.c:88-139`) | the sender's iovecs, `min_buf`, `iov_ofs`, `desc_offset`, the buffers | padding, tag removal, the two copy loops | empty and short entries, a tag or a buffer that ends with an entry, FCS-only buffers, null buffers | `E1000Iov` |
| Packet queue (`klee_external_function_calls.c:363-625`) | `packets`, `nq_count`, `delivering`, `receive_disabled` | send, append, deliver, flush | the handler may send again before it returns; refusals; callbacks | `NetQueue`, used in `E1000Rx` |
| Transmit (`e1000.c:569-795`) | TDH, TDT, TCTL, `tx`, the ring, TPT/GPTC/TOTL/TOTH | writes of TDT/TCTL, driver reclaiming | half a packet kept between runs, segmentation, what is not migrated | `E1000Tx` |
| EEPROM (`e1000.c:459-520, 1528-1537`) | `eecd_state`, `eeprom_data` | EECD bit-banging, EERD | 16-bit counters that wrap, state that survives reset | `E1000Eeprom` |
| DISC (`qdev.c:185-487, 971-1112`) | `g_dss`, `g_num_dss`, device instances, `dev->realized` | realize, snapshot, flip by name, hotplug, unplug | a whole-instance copy reaches more than registers; a table of one entry | `Disc` |
| PCI and memory around DISC (`pci.c`, `memory.c`, `queue.h` of QEMU 1.5.0) | `io_regions`, `mmio.parent`, the lists `subregions` and `address_spaces`, bus mastering, memory maps | register, map, reset, unregister, commit | list links and parents live in the instance the flip overwrites; damage shows at a later commit | `Disc` |
| `SE-Diff.py` | `klee-last`, output directories, hashes, the merge | compile, run, read the link, hash, compare | a link shared with other runs; failures nobody looks at; equal hashes | `SEDiff` |
| Register dispatch (`e1000.c:1067-1235`) | `mac_reg` | `e1000_mmio_read/write` | - | actions of the modules above |
| Migration state (`e1000.c:1275-1441`) | the fields of `vmstate_e1000` | `pre_save`, `post_load` | what is not listed | the `Migrate` actions |
| KLEE driver, stubs, shell scripts | none that outlives a call | - | - | not modelled |

How they interact: every e1000 handler raises interrupts through `set_ics`, so `E1000Irq` is a
library of functions on the interrupt record that `E1000Phy`, `E1000Rx` and `E1000Tx` extend or
include in their own state. The receive path needs the link (STATUS.LU, `link_down`) and stands
behind the packet queue. Host code (`set_link`, the sender of packets) and the guest (registers,
descriptors in shared memory) act on the device concurrently, but every handler runs under QEMU's
global lock, so one handler is one action. The exception is `NetQueue`, whose handlers call out
and can be re-entered: there a call and its return are two actions.

## Modules

A register of flag bits is the set of its 1 bits; a record stands for the part of `E1000State`
that a component works on. Functions keep the names of the C functions and map a record to the
record after the call. `PROJECT.json` gives the lines behind each definition. Operators named
`Mutant_...` are plausible wrong versions of the definition that follows them; no specification
uses them.

**E1000Irq** has `set_interrupt_cause` and all its callers. `pin` is the last level given to
`pci_set_irq`, `mit_timer` the time left in units of 256 ns. `PreSaveIrq` and `PostLoadIrq` are
the interrupt parts of save and load; the mitigation subsection travels only with `FLAG_MIT`.
`INT_ASSERTED` is not modelled: the guard at line 275 is false for the 8254x device id.

**E1000Interrupts** turns them into a state machine: register accesses, `Transmit` (what
`start_xmit` does to this part), `Tick` and `MitTimer` (time; a timer that has expired runs before
time goes on), `Reset`, `Savevm` (the guest runs on) and `Migrate`. The history variable `quiet`
is the time left of the window that the registers called for when the pin last rose; it is
computed from their description, not from the timer.

**IrqLine** is the abstract specification of a level-triggered line that may rise late: never high
without an unmasked cause, never lowered while one is left, and every cause is delivered or
withdrawn. `E1000Interrupts` implements it with `cause <- ICR, mask <- IMS, line <- pin`.

**E1000Phy / E1000Link** have one PHY register of each kind in `phy_regcap`. `Migrate` composes
`e1000_pre_save` on the source and `e1000_post_load` on a reset destination; `link_down` and the
timer do not travel. What the host wants is the history `wish`, which only `SetLink` writes:
`nc->link_down` is no witness of it, since `e1000_post_load` sets it by inference. The history
`stranded` marks the migration in which that inference is wrong (see below).

**NetQueue** has senders with and without `sent_cb`, a handler that answers 1, 0 or -1, and a
stack of calls in progress: the handler, the flush loop, which takes one packet a step, and
`sent_cb`, which the loop calls with `delivering` clear. Handler and callback may send
(`SendFromHandler` is a hub or a peer that loops back, `SendFromCallback` is
`virtio_net_tx_complete`, which sends what it has until it is told to wait). A receiver becomes able
by `BecomeAble`, without a flush, as e1000 does when its link comes up, or by `Flush`, as e1000 does
for writes of RCTL and RDT. `Flush` finds no call in progress: `qemu_net_queue_flush` does not look
at `delivering`, but besides `qemu_net_queue_send`, whose handler has returned by then, e1000 calls
it only for those register writes, never from its receive handler, and `sent_cb` does not flush the
queue it was called by. A sender with a callback keeps the promise in
`net/queue.c` not to send while it waits. The sender's own link is left out.

**E1000Rx** has the ring in guest memory and a driver that posts buffers, reads ICR and cleans.
What a frame's addresses and tags mean to the filter are facts of the frame. The descriptor loop
is given by what it visits (`Used`, `Filled`) and what it writes back, rather than step by step;
payload bytes are counted, not stored. The flush of the packet queue is the recursive function in
`Flush`, so that proofs can use it. `SendLooped` is a frame transmitted in PHY loopback, which
`e1000_send_packet` hands straight to `e1000_receive`. The driver is sane: RDH, RDT and RDLEN fit the ring and one
descriptor stays free. Four histories feed the properties: `due`, the lengths of the frames stored
that the driver has not put together; `count`, the frames received since the statistics were read,
their octets as they came over the wire, and how many of these were VLAN tags that the device took
out; `overrun`, set when a frame has taken the head past the tail (see below); and `within`, cleared
when a frame fills more buffers than lay between head and tail.

**E1000Tx** tags every byte with its packet and position. `Segment` is the segmentation loop seen
by one byte. That loop, the loop of `start_xmit` and the sums are recursive functions, so that proofs can
use them. Packets are TCP; IP ids and lengths and the checksum arithmetic are left out, as are
packets beyond 64 KiB and bogus TDT/TDLEN. `Migrate` is also what a flip does to the transmit
registers: of `tx`, the vmsd lists everything but `tse`, `cptse`,
`vlan_needed` and `vlan_header` (and the scratch copy `vlan`).

**E1000Eeprom** has the bit counters with their width; the number of address and data bits are
constants. `Scribble` is any EECD write before a driver starts. EERD is a plain register whose read
has no effect, so it is not a variable: `flash_eerd_read` is applied to all its contents.

**E1000Iov** is one call of `e1000_receive_iov` seen by its bytes. `E1000Rx` has what a frame does
to ring and registers and takes the copying for granted; here every byte is named by its place in
the frame, and each round of the loops is a step. The filter has accepted the frame. `Reference` says
what the guest is to see without iovecs or buffers, and the properties compare with it. The number
of free descriptors is part of the call; null buffers may be anywhere.

**Disc** models a device as a row of cells in the order of the C structures, since that is what the
flip copies: `realized`, the config pointer and what lies behind it, the mapping of BAR 0, the list
entries, bus mastering, registers, and `tx.tse` for what the vmsd does not mention. A pointer that init
allocated is named by the device it was allocated for. `device_load_state` walks the vmsds with
offsets, sizes, counts and nested structures. What `QTAILQ_FOREACH` meets (`Chain`) is the least set
that holds the first entry and with each its next, and the loop of `pci_bus_reset` is the recursive
function `AfterReset`: both so that proofs can use them. The PCI and memory operations work on the same cells,
with `QTAILQ` as in `queue.h`, so a flip that leaves a stale link is followed to its effect: a failed
assertion, a NULL dereference, or a device that the guest no longer reaches. `Plug` is
`device_set_realized` with the snapshot inside `realize` and the flag set after it. The history
`clean` says that no flip so far has changed what the rest of QEMU keeps in an instance. When the bus
holds a dangling pointer nothing more is said.

**SEDiff** has the script's statements as steps. A path is its hash. KLEE, which makes a directory and
moves `klee-last` when it starts, is external, and so is another KLEE in the same directory.

## Runs

Runs that must pass:

| Run | Bounds | Shows |
|---|---|---|
| `interrupts` | 3 causes, ITR in {0,3,5}, delays in {0,1} | no interrupt is lost; ICS mirrors ICR; `mit_irq_level` is the pin; rises keep the programmed distance; the pin implements `IrqLine`, its liveness included |
| `link` | 2 causes | MAC and PHY agree; a link the host took down stays down; down against the host's wish means negotiating, and negotiation ends, unless a migration strands it |
| `net_queue` | 5 packets, limit 2 | conservation, no re-entry, an exact count and its bound; only packets sent from inside a call, or after a receiver became able without a flush, overtake; the callback comes to a sender whose receiver keeps flushing |
| `rx` | 3 descriptors, 2 buffer sizes, 2 kinds of frames, 3 frames, queue of 2, at most one null buffer in the ring, 9-bit statistics | the driver sees exactly the accepted frames; no frame fills more buffers than were given, and descriptors done are behind the head; no lost wake-up; statistics exact but for tags taken out; new buffers and RCTL writes flush the queue |
| `tx` | 4 descriptors, 5 kinds of packets, 3 packets, 4-bit statistics | payload, segments, offloads, status, causes and statistics are right however descriptors are handed over |
| `eeprom` | 8 words of 4 bits, 5-bit counters | a read after a fresh select gives the word asked for; EERD gives the same with START, and no data without |
| `disc` | 2 slots, e1000 and another card, 3 devices in all | the table stays within its array and holds init states; a flip keeps what the vmsd lists, resets the rest and touches no other kind of device; devices found wired as after init stay reachable where config space says |
| `iov` | lengths scaled down in their order (addresses 3, tag 2, header 6, minimum 8, buffers 4, FCS 2), frames of 2, 4, 7, 8, 9 and 11 bytes in all cuts into 3 entries, 5 descriptors, no, one or only null buffers | the guest's buffers hold the frame, the descriptors describe it, reads stay inside the list, the sender's bytes survive except where a tag is removed, the call returns |
| `se_diff` | 3 hashes, up to 3 paths a run, one other KLEE run | the merge is exact at every step, the report is right when both programs ran and nobody moved the link, and files are named for their hashes |

Runs that must find a violation; each is a disagreement between the code and a statement in the
repository, quoted in `PROJECT.json`:

| Run | What happens |
|---|---|
| `tx_migration` | `tx.tse` is not migrated: packets relying on an earlier TSO context lose their data |
| `disc_regions` | an e1000 flipped while its BAR is mapped: the region's parent is gone but the BAR's address is kept, and the next system reset fails an assertion in `memory.c` |
| `disc_unplug` | a flip clears `dev->realized`; unplugging then leaves a dangling pointer and sends no event |

Also met while modelling; the models follow the code and no run is spent on them:

- packets without a callback are queued up to the limit (`klee_external_function_calls.c:463-479`),
  while the comment of QEMU's `net/queue.c:33-39` says they are dropped;
- `e1000_has_rxbufs` counts null buffers as room, so that the loop, which skips them
  (`e1000.c:1017-1025`), can pass the tail or run around the ring though the registers are sane,
  while the comment it refers to (`e1000.c:1024`, `784-787`) says that this takes bogus registers.
  With RDH 0, RDT 1 and a null buffer in descriptor 0, descriptor 1 is written. The `rx` run checks
  the state in which that happens and follows it no further (`CONSTRAINT MCNotOverrun`); `within`
  and the statistics are claimed there too, the properties that compare ring and driver are not;
- a VLAN tag that is stripped is missing from the octet count (`e1000.c:969`, `1036-1042`), which by
  the comment at 1035-1038 runs from the destination address through the CRC;
  `ReceiveStatisticsExact` subtracts the tags and fails without that;
- when the payload of a packet is a multiple of mss, its last full segment keeps PSH and FIN
  (`e1000.c:603`), and at EOP the header that is left is sent once more, without payload and with
  PSH and FIN set (`e1000.c:722-723`); `SegmentsWellFormed` says which segments have them;
- a link that comes up (`e1000.c:859`, `213`) does not flush the packets queued meanwhile, though
  `net/queue.c:28-30` asks that of a receiver: a sender that waits may wait for ever, and the next
  packet overtakes those queued. `FlushedByDriver` leaves this case out, `DeliveredInOrder` allows
  it for packets sent then, and `CallbackComes` asks for flushes;
- `sent_cb` runs inside the flush loop with `delivering` clear
  (`klee_external_function_calls.c:446-455`), so that what it sends overtakes the packets that the
  loop has not reached;
- a guest that clears the restart bit of PHY_CTRL while negotiation runs and is migrated then
  arrives with `link_down` set and no timer (`e1000.c:1323-1328`), though the comment at 1314-1316
  says that a negotiation in progress is restarted. The link stays down until the host's next
  `set_link`. `DownOnlyWhileNegotiating` and `LinkComesBack` exempt exactly this migration
  (`stranded`), and fail without the exemption;
- with two e1000 cards, a flip overwrites the second with the first one's pointers, since the table
  has one entry and is searched by name (`qdev.c:276`); `FlipToInit` is about the device of the
  snapshot;
- a flip switches bus mastering off until the guest writes the command register, and with an empty
  list entry the next insertion before it writes through a NULL pointer (`queue.h:374`); `Disc` has
  both, and `WiredAsConfigured` excludes them by `clean`;
- the harness copy of `device_load_state` (`klee_external_function_calls.c:658`) flips a device whose
  vmsd has a subsection, which the walk over `vmsd->fields` does not see;
- `qemu_flush_queued_packets` flushes a hub's other ports before the device's own queue
  (`klee_external_function_calls.c:614-619`), so with three ports packets may change order;
- `SE-Diff.py` ignores what KLEE returned (`:123`, `:132`), and its message for that case is behind
  `id == 2` instead of `idx == 2` (`:104`); `compare.sh` sets `KTEST_FILE=f` instead of `$f`;
- the negotiation timer sets the link without raising LSC (`e1000.c:213`), unlike `set_link`.

Why the bounds are enough. Interrupt causes only matter by which delay applies to them, and there
is one of each class; the delays are chosen so that each can be the shortest. Three descriptors
hold a frame of two buffers, wrap, fill up and run empty. Three frames allow one in the ring,
one in the queue and one in flight; 300 bytes need two small buffers or a large one. Two full
segments and a short one are the cases of segmentation, and cuts lie before, in and after the
header. Queue limits of two separate full, nearly full and empty. The statistics are narrow so
that carries happen; no frame is longer than a register can hold, as with 32 bits. In `iov` only the
order of the lengths matters, and three entries let the tag begin, end and span one, with an empty
one before, between or behind; 11 bytes and the FCS need four buffers. Two slots give a list a first
and a last element, three devices one plugged in after a removal. Three hashes fill each of the three
lists, and three paths allow two of one hash. `CHECK_DEADLOCK` is off only in `se_diff`, where the
script comes to its end.

Fairness. `interrupts`: the virtual clock advances and the main loop runs expired timers
(`WF(Tick)`, `WF(MitTimer)`); nothing is assumed of the guest. `link`: the 500 ms timer fires,
which assumes a guest that does not restart negotiation for ever in shorter intervals.
`net_queue`: handlers and callbacks return, the flush loop goes on, and a receiver that is asked again
and again accepts some time (strong fairness of `Return(1)`). No receiver is assumed to flush, since
e1000 does not always: `CallbackComes` is about behaviours in which it flushes again and
again. `iov`: the function runs on once called.

## Proofs

Proofs about a component are in `<module>_proofs`. They hold for every value of the constants that
satisfies the named assumptions of the modules, which say no more than that sizes are naturals, flags
Booleans and that the causes include the ones the code raises.

**Interrupts** (`E1000Interrupts_proofs`; `IrqAssumption`, `DelayAssumption`), for every set of causes,
all delay values and both machine types:

- `TypeCorrect`, `InterruptNotLost` (`NoLostInterrupt`), `IcsReadsIcr` (`IcsMirrorsIcr`);
- `LevelIsPin` (`LevelTracksPin`) and `NeverPostponed` (`NoMitigation`: a machine type without
  `FLAG_MIT` never postpones an interrupt, migration included; no run checks this one);
- `EdgesThrottled` (`Throttled`);
- `ImplementsLine`: the component implements the safety part of `IrqLine`.

None of these invariants is inductive alone. `IInv` adds that a window has an armed
timer (`mit_timer_on => mit_timer # NoTimer`), that `mit_irq_level` never claims more than the pin
shows and equals it with mitigation, that no window exists without mitigation (after a migration
of an old machine type, `mit_irq_level` is 0 and the pin may be high, so equality fails there),
and that inside a window the timer has exactly `quiet` left. `Ready` is what a call of
`set_interrupt_cause` needs, `Settled` what it leaves; the lemma `SetInterruptCause` proves that
once for all callers, `DelayIsShortest` that the running minimum of the code is the shortest
programmed delay, and `NextIInv` goes through the actions. Savevm and migration end a window
early by design (`e1000_pre_save` emulates a timeout), hence the exception in `Throttled`.

**Link** (`E1000Common_proofs` with lemmas for every handler, `E1000Link_proofs` with the theorems;
`PhyAssumption`): `LinkTypeCorrect`, `MacAndPhyAgree` (`LinkBitsAgree`), `HostDownIsDown`
(`AdminDownHolds`), `DownHasTimer` (`DownOnlyWhileNegotiating`) and `MigrationNeverRaises`
(`MigrationKeepsDown`). `Linked` says of the device alone that the types hold, that MAC and PHY agree,
that the link is down while `nc->link_down` says so, and that down without it means a timer; they
need each other, since `e1000_post_load` infers `link_down` from the link bit and the negotiation bits,
and the timer's guard tests `link_down`, not the link. `LinkInv` adds what `link_down` has to do with
the host: it is set whenever the host took the link down, and set otherwise only if `stranded`. The handlers take a
record to a record, so each is one lemma of `E1000Common_proofs` that other components with a link can
cite.

**Packet queue** (`NetQueue_proofs`; `QueueAssumption`), for any limit and number of packets:
`PacketsConserved` (`Conserved`), `OrderKept` (`DeliveredInOrder`), `NotReentered`
(`HandlerNotReentered`), `Bounded` (`QueueBounded`) and `WaiterServed` (`WaiterHasPacket`). The
invariant `QueueInv` says in which of its places (queue, handler, delivered, dropped) each packet is,
that the order runs through these places (accepted before carried before queued, packets that
`MayOvertake` apart), that a receiver that is able while no call is in progress has an empty queue
unless `behind`, that at most one packet has a callback, and that the room a flush needs to put its
packet back is already counted. `StackOK` lists the stacks there are: a call on its own, or on a
callback; in the second case the sender does not wait, so that this flush meets no packet with a
callback and the recursion ends. These are what the properties lack: without them a refused packet
could be put back in front of older ones, or the bound fail at the return of the handler.

**Reception** (`E1000Rx_proofs`; `RxAssumption`), for every size of the ring, all values of RCTL and all
frames, null buffers, resets and migrations included:

- `DriverSeesAcceptedHolds` (`DriverSeesAccepted`), `DeviceStaysBehindTailHolds`
  (`DeviceStaysBehindTail`), `NoLostReceiveHolds` (`NoLostReceive`);
- `ReceiveStatisticsExactHolds` (`ReceiveStatisticsExact`), for every width of the registers;
- `FlushedByDriverHolds` (`FlushedByDriver`).

`RxAssumption` says what the run's constants satisfy too: a frame with its FCS fits a statistics
register (without that the carry of `e1000.c:1036-1042` is missed), and `2 ^ W` is a natural above 64,
the shortest frame, since the prover knows nothing of powers.

The invariant is `RxInv`. It looks at the ring from the driver's index: `Placed` says that the
descriptors done are exactly the first `Dist(RDH, clean)` ones and that the head is not past the tail;
`Accepted` that there are functions `acc` and `cnt` over them, the bytes the driver will have in hand and
the frames it will have put together after each, such that every end of packet completes the next frame
due and the last descriptor completes the last frame; `Told` that RXT0 is pending unless the driver
polls; `Counted` that the two words hold the sum. `DriverSeesAccepted` is about the descriptor at hand
only and says nothing of those behind it, hence `Accepted`; it also needs `Placed`, since a descriptor
the device did not use could otherwise be taken for one it did. The functions are what makes the
step work: storing a frame extends them at the end (`ReadsExtended`), cleaning cuts off the first entry
(`ReadsAdvanced`). What the descriptor loop does is in `UsedIs`, `FilledSteps` and `FrameShape`: the
buffers of a frame are full but for the last, end of packet is on the last one alone, and with room in
`e1000_has_rxbufs` the loop fills no more buffers than there is room for, and stops before the tail
unless a null buffer took part (`Enough`). With `overrun` nothing is claimed of the ring, as in the
properties; types, `within` and statistics still hold.
`Carry` is the arithmetic of the two words. The action property follows from the invariant because a
frame that comes past `e1000_can_receive` (loopback) finds an enabled device without buffers
(`NoRoomForAny`).

**Transmission** (`E1000Tx_proofs`; `TxAssumption`), for every size of the ring, every set of kinds of
packets (header, mss, payload, cuts into descriptors, offloads) and every width of the registers:

- `RingInvariant` and `NoLostTransmitHolds` (`NoLostTransmit`), for all guests and all migrations;
- for a *careful* guest: `TxInvariant`, `PayloadPreservedHolds` (`PayloadPreserved`),
  `SegmentsWellFormedHolds` (`SegmentsWellFormed`), `OffloadsOwnHolds` (`OffloadsOwn`),
  `DoneIsOnWireHolds` (`DoneIsOnWire`) and `StatisticsExactHolds` (`StatisticsExact`).

`Careful` says that the guest is not migrated with a packet half posted and that each packet to be
segmented has a context descriptor of its own. Both are needed, because `tx.tse`, `cptse` and the VLAN
fields are not migrated: `tx_migration` shows what happens to a packet that relies on an earlier context.
The constants of the `tx` run satisfy `Careful`. `TxAssumption` says besides the types that mss and header
are not empty, that the cuts add up to the packet, and that a packet fits a statistics register (else the
carry of `e1000.c:632` is missed).

`RingInv` is the counterpart of `Placed` and `Told` of reception. `TxInv` adds `Flow`: there are functions
`pk` and `nr` over the descriptors that wait, first those between head and tail and then those the driver
still holds, that give for each the packet and the number of the descriptor in it; each follows the one
before (`Follows`), the last ends the last packet posted, and the device stands where the first begins
(`Standing`). Between two packets that means that nothing is gathered, no offload is left over and the
wire has exactly the packets before (`Idle`, `SentAll`); inside a packet, that context, header, data, frame
count and offload flags are those of the packet at that byte and the wire has the payload before
it (`Open`, `Sending`, `Gathers`). The properties speak of the wire alone; without the state between
descriptors nothing could be said of the next frame. From the inside out: `SegmentSends` is one byte of the
segmentation, `SegmentsSend` and `DataSends` a descriptor's bytes, `EndSends` the end of a packet,
`ProcessStands` one descriptor, `LoopStands` and `StartXmitFlows` the loop of `start_xmit`. Handing over
moves descriptors from the driver to the ring and changes none of the functions (`HandOverFlows`); a new
packet extends them (`PostFlows`); reclaiming touches no descriptor that waits (`ReclaimFlows`).
`XmitSegCounted` is the carry between the two words, with the same argument as in reception.

**DISC** (`Disc_proofs`; `DiscAssumption`), for any number of slots, devices and names:

- `SnapshotsAreInit` (`SnapshotIsInit`), for any size of the table;
- `WiringFollowsConfig` (`WiredAsConfigured`);
- `FlipsBackToInit` (`FlipToInit`), for `MAX_DEV_SNAPSHOTS = 1`, the value in `disc.h:12`. With more
  entries it is false: `find_device_state_by_name` takes the first entry of a name for all
  devices of that name, so that a second device with a snapshot of its own would be set back to the
  first one's.

The lists are the hard part: they run through the instances a flip overwrites. `ListOK` says of a list
which instances are on it, which of them may be removed safely and which have a back link that is no
leftover; it survives a flip. `Whole` is a list without leftovers, with a rank that keeps its back links
from going round, so that a walk from the head meets exactly its members. Insertion at the tail, before
the first entry and removal each have a lemma for both. `MachineInv` joins them with the flags: the
instances on `subregions` are those with BAR 0 mapped, of which those with a parent may be removed;
those on `address_spaces` are the devices there are, of which the realized ones may be removed; BAR 0 is
mapped exactly when the command register says so, and each instance has its own config space. `Wired`
(lists whole, every mapped region with its parent, memory maps as after a commit) is claimed while
`clean`. Where a
proof needs induction (the walk of a list, the loop of `pci_bus_reset`), it takes the least
counterexample instead.

**SE-Diff.py** (`SEDiff_proofs`; `SEDiffAssumption`), for any hashes, paths and other runs:
`MergesInOrder` (`MergedSoFar`) and `DifferenceReported` (`ReportsDifference`). `Merged` is the loop
invariant of `compare`: the lists hold what lies before the two indices, and every key passed in one
list is smaller than every key left in the other. That second half is what `MergedSoFar` lacks; it shows
that a key taken from one list is not in the other. `Runs` says that each program has at most one
directory and that the link, unless another run moved it, is still the one of the program when it is
read. The keys being sorted rests on `AscendingExists`, since `SortedKeys` is a `CHOOSE`.

Only model-checked:

- liveness everywhere (`LineDelivery`, `LinkComesBack`, the callback of `NetQueue`, the return of
  `E1000Iov`): fairness is outside the prover's reach;
- `ReadsWord` of `E1000Eeprom`: it needs the binary digits of a word, which take induction over exponents;
- the properties of `E1000Iov`: its helpers on iovecs are folds over sequences, which the proofs would
  need as recursive functions first; the run has all cuts of its frames;
- guests outside `Careful`: without a migration, a packet may rely on an earlier context; the theorems on
  transmission leave it out, since `Spec` always allows a migration between packets.

## Not modelled

The KLEE driver (`klee_main.c`) calls each handler once; it also registers a snapshot entry with
NULL buffers (`klee_main.c:265`), so that its flip copies from NULL. QOM casts and timer stubs are pure lookups. The byte
format of the migration stream, DMA addresses, the I/O BAR and registers without effect are data no
property tells apart. `net/hub.c` is vendored; of it the harness only carries `net_hub_flush`. A queue
is purged only when the sender of all its packets goes away, and the harness does not carry that
function. The checksum arithmetic of `putsum` keeps no state, and no other part depends on its value. The shell scripts only call tools.
A model of the rest of QEMU and glib would say nothing about this project's own code.

## Plan

Done in the order of importance: interrupts (with proofs), link, queue, receive, transmit, EEPROM,
DISC, then DISC with the PCI and memory code, the receive data path and `SE-Diff.py`. A module with
a flipped and an untouched twin of the device is not needed: the flip of the registers is the
`Migrate` of `E1000Tx`, and that of the rest is followed in `Disc`. The proofs went from interrupts to
link, queue, DISC, `SE-Diff.py`, reception and transmission. Left:

1. `ReadsInside` and `SenderKeepsItsBytes` of `E1000Iov`, once its helpers are recursive functions;
2. transmission for a guest that is never migrated but shares contexts, with `Migrate` switched by a
   constant of its own and the context of the last packet in `Standing`.

The list of runs is kept short: a new question is added to the run of its component where the state
space allows it, and takes a run of its own only where it needs other constants.
