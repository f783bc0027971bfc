-------------------------------- MODULE Disc --------------------------------
(***************************************************************************)
(* DISC, the device state checker added to QEMU's qdev.c: a snapshot of a  *)
(* device is taken at the end of its init, and the monitor command         *)
(* test-device later flips every device of that name: the whole instance   *)
(* is set back to the snapshot, except for the fields its vmsd lists.      *)
(*                                                                         *)
(* An instance holds more than registers: the links by which the PCI and   *)
(* memory code have it on their lists.  So a device is a row of cells in   *)
(* the order of the C structures, the copies work on cells, and the PCI    *)
(* and memory operations that follow a flip work on what it left there.    *)
(***************************************************************************)
EXTENDS Integers, Sequences, FiniteSets

CONSTANTS
    NSlots,             \* functions of the PCI bus
    Names,              \* device names
    DiscNames,          \* those whose ids are 8086:100e
    MAX_DEV_SNAPSHOTS,
    Placement,          \* <<slot, name>> pairs that are plugged in
    MaxDevices          \* bound: devices created in a behaviour

Slots == 1..NSlots

ASSUME DiscAssumption ==
    /\ NSlots \in Nat /\ MAX_DEV_SNAPSHOTS \in Nat /\ MaxDevices \in Nat
    /\ DiscNames \subseteq Names /\ Placement \subseteq Slots \X Names

(* A pointer to an instance is its slot; HEAD is the head of a list.  In   *)
(* the table of the bus a NULL is an instance that is none.                *)
NULL == 0
HEAD == -1
NoDevice == [uid |-> 0]

(* The cells of an E1000State, in order.  CONFIG and NIC point to what     *)
(* init allocated, named by the uid of the device it was allocated for;    *)
(* BAR0 says whether io_regions[0] is mapped, PARENT whether mmio.parent   *)
(* is set; a LINK is a queue entry; mac_reg has two registers, tx.tse is   *)
(* one of the fields the vmsd does not mention.                            *)
CLASS == 0
REALIZED == 1
CONFIG == 2
BAR0 == 3
AS_LINK == 4
BUS_MASTER == 5
IRQ_STATE == 6
NIC == 7
PARENT == 8
MMIO_LINK == 9
MAC_REG == 10
TSE == 12
Cells == CLASS..TSE

Registers == {IRQ_STATE, MAC_REG, MAC_REG + 1, TSE}
Lists     == {MMIO_LINK, AS_LINK}

(* A field of a vmsd: num elements of size cells at offset, plain memory   *)
(* or, with sub, structures of their own.                                  *)
Field(offset, size, num, exists, sub) ==
    [offset |-> offset, size |-> size, num |-> num, exists |-> exists, sub |-> sub]

(* config is a pointer in PCIDevice but described as a buffer of 256       *)
(* bytes: the bytes that follow it hold name and the first BARs.           *)
vmstate_pci_device ==
    << Field(CONFIG, 2, 1, TRUE, <<>>), Field(IRQ_STATE, 1, 1, TRUE, <<>>) >>

(* The unused entries have offset 0, and the versioned one does not exist. *)
vmstate_e1000 ==
    << Field(CLASS, 7, 1, TRUE, vmstate_pci_device), Field(CLASS, 1, 1, FALSE, <<>>),
       Field(CLASS, 1, 1, TRUE, <<>>), Field(MAC_REG, 1, 2, TRUE, <<>>) >>

VARIABLES
    vm,         \* the bus, its devices and the memory map
    g_dss,      \* the table of snapshots; g_num_dss is its length
    running,    \* the machine has been started
    created,    \* number of devices created; the last uid
    removed,    \* uids of devices that were removed and freed
    announced,  \* uids of the DEVICE_DELETED events sent
    clean       \* history: no flip has changed what the PCI and memory code
                \* keep in an instance

vars == <<vm, g_dss, running, created, removed, announced, clean>>

(* devices: pci_bus->devices.  config: the bits of the command register,   *)
(* MEMORY with an address in BAR 0.  list: the subregions of PCI memory    *)
(* (above those that are there from the start) and address_spaces.  mmio,  *)
(* dma: whether the guest reaches the device, and the device memory, since *)
(* the last commit.  status: what became of the process.                   *)
Init ==
    /\ vm = [devices |-> [s \in Slots |-> NoDevice], config |-> [s \in Slots |-> {}],
             list |-> [l \in Lists |-> [first |-> NULL, last |-> HEAD]],
             mmio |-> [s \in Slots |-> FALSE], dma |-> [s \in Slots |-> FALSE],
             status |-> "ok"]
    /\ g_dss = <<>> /\ running = FALSE /\ created = 0
    /\ removed = {} /\ announced = {} /\ clean = TRUE

Live(s) == vm.devices[s] # NoDevice

-----------------------------------------------------------------------------
(* Lists: QTAILQ, on the cell l of the instances.                          *)

SetNext(v, l, p, to) ==
    IF p = HEAD THEN [v EXCEPT !.list[l].first = to]
    ELSE IF p = NULL THEN [v EXCEPT !.status = "crashed"]
    ELSE [v EXCEPT !.devices[p].mem[l].next = to]

QTAILQ_INSERT_TAIL(v, l, s) ==
    SetNext([v EXCEPT !.devices[s].mem[l] = [next |-> NULL, prev |-> v.list[l].last],
                      !.list[l].last = s], l, v.list[l].last, s)

QTAILQ_INSERT_BEFORE(v, l, other, s) ==
    LET prev == v.devices[other].mem[l].prev
    IN  SetNext([v EXCEPT !.devices[s].mem[l] = [next |-> other, prev |-> prev],
                          !.devices[other].mem[l].prev = s], l, prev, s)

QTAILQ_REMOVE(v, l, s) ==
    LET link == v.devices[s].mem[l]
    IN  SetNext(IF link.next # NULL
                THEN [v EXCEPT !.devices[link.next].mem[l].prev = link.prev]
                ELSE [v EXCEPT !.list[l].last = link.prev], l, link.prev, link.next)

(* What QTAILQ_FOREACH meets: what is in every set that holds the first    *)
(* and with an instance the next.                                          *)
Walked(v, l, S) ==
    /\ v.list[l].first \in S \cup {NULL}
    /\ \A s \in S : v.devices[s] # NoDevice => v.devices[s].mem[l].next \in S \cup {NULL}
Chain(v, l) == {s \in Slots : \A S \in SUBSET Slots : Walked(v, l, S) => s \in S}

(* memory_region_transaction_commit: the memory map of the guest and those *)
(* of the devices still on address_spaces are made anew.  A region on the  *)
(* list whose parent and address were lost is not at its BAR.              *)
Commit(v) ==
    IF v.status # "ok" THEN v
    ELSE [v EXCEPT !.mmio = [s \in Slots |-> s \in Chain(v, MMIO_LINK) /\ v.devices[s].mem[PARENT]],
                   !.dma = [s \in Slots |-> IF s \in Chain(v, AS_LINK)
                                            THEN v.devices[s].mem[BUS_MASTER] ELSE @[s]]]

(* BARs have the highest priority in the list: the newest comes first.     *)
memory_region_add_subregion(v, s) ==
    IF v.devices[s].mem[PARENT] THEN [v EXCEPT !.status = "aborted"]
    ELSE LET w == [v EXCEPT !.devices[s].mem[PARENT] = TRUE]
             first == v.list[MMIO_LINK].first
         IN  Commit(IF first = NULL THEN QTAILQ_INSERT_TAIL(w, MMIO_LINK, s)
                    ELSE QTAILQ_INSERT_BEFORE(w, MMIO_LINK, first, s))

memory_region_del_subregion(v, s) ==
    IF ~v.devices[s].mem[PARENT] THEN [v EXCEPT !.status = "aborted"]
    ELSE Commit(QTAILQ_REMOVE([v EXCEPT !.devices[s].mem[PARENT] = FALSE], MMIO_LINK, s))

(* Mutant: the bit is stored and takes effect with the next commit.        *)
Mutant_no_commit(v, s, enabled) == [v EXCEPT !.devices[s].mem[BUS_MASTER] = enabled]

memory_region_set_enabled(v, s, enabled) ==
    IF v.status # "ok" \/ enabled = v.devices[s].mem[BUS_MASTER] THEN v
    ELSE Commit([v EXCEPT !.devices[s].mem[BUS_MASTER] = enabled])

pci_update_mappings(v, s) ==
    LET new_addr == "MEMORY" \in v.config[s]
        addr     == v.devices[s].mem[BAR0]
        unmapped == IF addr THEN memory_region_del_subregion(v, s) ELSE v
        stored   == [unmapped EXCEPT !.devices[s].mem[BAR0] = new_addr]
    IN  IF v.status # "ok" \/ new_addr = addr THEN v
        ELSE IF unmapped.status # "ok" THEN unmapped
        ELSE IF new_addr THEN memory_region_add_subregion(stored, s) ELSE stored

-----------------------------------------------------------------------------
(* PCI devices                                                             *)

device_reset(v, s) ==
    [v EXCEPT !.devices[s].mem = [c \in Cells |-> IF c \in Registers THEN "reset" ELSE @[c]]]

(* The command register and the BARs are cleared; bus mastering stays as   *)
(* it is until the next write of the command register.                     *)
pci_device_reset(v, s) ==
    IF v.status # "ok" THEN v
    ELSE pci_update_mappings([device_reset(v, s) EXCEPT !.config[s] = {}], s)

(* The machine after the reset of the first n functions of the bus.        *)
AfterReset[n \in 0..NSlots] ==
    IF n = 0 THEN vm
    ELSE IF Live(n) THEN pci_device_reset(AfterReset[n - 1], n) ELSE AfterReset[n - 1]

pci_bus_reset == AfterReset[NSlots]

(* What init leaves in an instance; its address space joins the list.      *)
InitMem(uid) ==
    [c \in Cells |->
        CASE c \in {CONFIG, NIC} -> uid
          [] c \in {REALIZED, BAR0, BUS_MASTER, PARENT} -> FALSE
          [] c \in Lists -> [next |-> NULL, prev |-> NULL]
          [] c = CLASS -> "class"
          [] OTHER -> "init"]

do_pci_register_device(v, s, dev) ==
    QTAILQ_INSERT_TAIL(Commit([v EXCEPT !.devices[s] = dev, !.config[s] = {}, !.dma[s] = FALSE]),
                       AS_LINK, s)

(* pci_unregister_device: the BAR is unmapped, the address space leaves    *)
(* its list and the pointer on the bus is cleared.                         *)
pci_unregister_device(v, s) ==
    LET unmapped == IF v.devices[s].mem[BAR0] THEN memory_region_del_subregion(v, s) ELSE v
    IN  IF unmapped.status # "ok" THEN unmapped
        ELSE [QTAILQ_REMOVE(unmapped, AS_LINK, s) EXCEPT !.devices[s] = NoDevice, !.config[s] = {},
                                                         !.mmio[s] = FALSE, !.dma[s] = FALSE]

-----------------------------------------------------------------------------
(* The snapshot                                                            *)

device_in_DISC_list(dev) == dev.name \in DiscNames

(* device_snapshot: nothing when the table is full or one of the two       *)
(* allocations fails; otherwise a copy of the instance as it is now.       *)
device_snapshot(dev) ==
    \E alloc \in BOOLEAN :
        g_dss' = IF Len(g_dss) < MAX_DEV_SNAPSHOTS /\ alloc THEN Append(g_dss, dev) ELSE g_dss

(* Mutant: the snapshot is made of a device that has been reset.           *)
Mutant_realize_late(v, s, ok) ==
    IF ok /\ device_in_DISC_list(v.devices[s])
    THEN device_snapshot(device_reset(v, s).devices[s]) ELSE g_dss' = g_dss

(* device_realize, after init: the snapshot, unless init failed.           *)
device_realize(v, s, ok) ==
    IF ok /\ device_in_DISC_list(v.devices[s]) THEN device_snapshot(v.devices[s]) ELSE g_dss' = g_dss

(* device_add, or a -device option: init refuses an occupied slot and may  *)
(* fail, which undoes the registration.  The realized flag is set, and a   *)
(* hotplugged device reset, only after the snapshot.                       *)
Plug ==
    /\ vm.status = "ok" /\ created < MaxDevices
    /\ created' = created + 1
    /\ \E p \in Placement, ok \in BOOLEAN :
        LET s       == p[1]
            inited  == do_pci_register_device(vm, s, [uid |-> created + 1, name |-> p[2],
                                                      mem |-> InitMem(created + 1)])
            done    == IF running THEN device_reset(inited, s) ELSE inited
        IN  IF Live(s) THEN UNCHANGED <<vm, g_dss>>
            ELSE /\ device_realize(inited, s, ok)
                 /\ vm' = IF ok THEN [done EXCEPT !.devices[s].mem[REALIZED] = TRUE]
                          ELSE pci_unregister_device(inited, s)
    /\ UNCHANGED <<running, removed, announced, clean>>

(* Machine start and system reset.                                         *)
SystemReset ==
    /\ vm.status = "ok" /\ running' = TRUE
    /\ vm' = pci_bus_reset
    /\ UNCHANGED <<g_dss, created, removed, announced, clean>>

(* pci_default_write_config, on the command register.                      *)
WriteCommand(s, bits) ==
    /\ vm.status = "ok" /\ running /\ Live(s)
    /\ vm' = memory_region_set_enabled(pci_update_mappings([vm EXCEPT !.config[s] = bits], s),
                                       s, "MASTER" \in bits)
    /\ UNCHANGED <<g_dss, running, created, removed, announced, clean>>

(* The guest and outside events change the registers of a device.          *)
Activity ==
    /\ vm.status = "ok" /\ running
    /\ \E s \in Slots :
        /\ Live(s)
        /\ vm' = [vm EXCEPT !.devices[s].mem =
                    [c \in Cells |-> IF c \in Registers THEN "written" ELSE @[c]]]
    /\ UNCHANGED <<g_dss, running, created, removed, announced, clean>>

-----------------------------------------------------------------------------
(* The flip                                                                *)

(* The cells that the memcpy of a plain field at base covers.              *)
Covered(field, base) ==
    IF field.exists THEN (base + field.offset)..(base + field.offset + field.size * field.num - 1)
    ELSE {}

(* device_load_state: every field that exists, structures by their own     *)
(* vmsd, is copied back from the swap space.                               *)
device_load_state(vmsd, opaque, swapspace) ==
    LET OfField(f) ==
          IF f.sub = <<>> THEN Covered(f, 0)
          ELSE UNION {Covered(f.sub[j], f.offset + f.size * i) :
                        i \in 0..f.num - 1, j \in DOMAIN f.sub}
        copied == UNION {OfField(vmsd[i]) : i \in DOMAIN vmsd}
    IN  [c \in Cells |-> IF c \in copied THEN swapspace[c] ELSE opaque[c]]

(* The entries for a name, of which the first is used.                     *)
Matches(name) == {i \in DOMAIN g_dss : g_dss[i].name = name}
FirstMatch(name) == g_dss[CHOOSE i \in Matches(name) : \A j \in Matches(name) : i <= j]

(* Mutant: the swap space is filled after the snapshot has been copied.    *)
Mutant_swap_late(name, mem) ==
    IF Matches(name) = {} THEN mem
    ELSE device_load_state(vmstate_e1000, FirstMatch(name).mem, FirstMatch(name).mem)

device_nap_reset(name, mem) ==
    IF Matches(name) = {} THEN mem
    ELSE device_load_state(vmstate_e1000, FirstMatch(name).mem, mem)

find_device_state_by_name(name) ==
    [s \in Slots |-> IF Live(s) /\ vm.devices[s].name = name
                     THEN [vm.devices[s] EXCEPT !.mem = device_nap_reset(name, @)]
                     ELSE vm.devices[s]]

(* What the rest of QEMU keeps in an instance.                             *)
Wiring(dev) == [c \in {AS_LINK, BUS_MASTER, PARENT, MMIO_LINK} |-> dev.mem[c]]

(* hmp_test_device                                                         *)
Flip ==
    /\ vm.status = "ok"
    /\ \E name \in Names :
        /\ vm' = [vm EXCEPT !.devices = find_device_state_by_name(name)]
        /\ clean' = (clean /\ \A s \in Slots : Live(s) => Wiring(vm'.devices[s]) = Wiring(vm.devices[s]))
    /\ UNCHANGED <<g_dss, running, created, removed, announced>>

(* The guest acknowledges the removal of a device: device_unparent.        *)
(* Unrealizing it takes it off the bus (free_device_snapshot is empty);    *)
(* that step and the event are skipped when dev->realized is false, and    *)
(* then the bus and the lists point to freed memory.                       *)
Unplug ==
    \E s \in Slots :
        /\ vm.status = "ok" /\ running /\ Live(s)
        /\ removed' = removed \cup {vm.devices[s].uid}
        /\ IF vm.devices[s].mem[REALIZED]
           THEN /\ vm' = pci_unregister_device(vm, s)
                /\ announced' = announced \cup {vm.devices[s].uid}
           ELSE /\ vm' = [vm EXCEPT !.status = "undefined"]
                /\ UNCHANGED announced
        /\ UNCHANGED <<g_dss, running, created, clean>>

(* The process has ended, or nothing can be said of it any more.           *)
Ended == vm.status # "ok" /\ UNCHANGED vars

Next ==
    \/ Plug \/ SystemReset \/ Activity \/ Flip \/ Unplug \/ Ended
    \/ \E s \in Slots, bits \in SUBSET {"MEMORY", "MASTER"} : WriteCommand(s, bits)

Spec == Init /\ [][Next]_vars

-----------------------------------------------------------------------------
(* A flip of the device the snapshot was taken of keeps the registers that *)
(* vmsd->fields lists, with every element of an array and every nested     *)
(* structure, sets those it does not mention back to their value after     *)
(* init, and leaves the device with its own pointers.  It writes no        *)
(* instance of a kind that DISC does not handle, whatever name is given    *)
(* and whatever the table holds.                                           *)
FlippedToInit(dev, mem) ==
    /\ \A c \in Registers \ {TSE} : mem[c] = dev.mem[c]
    /\ mem[TSE] = "init" /\ mem[NIC] = dev.uid /\ mem[CONFIG] = dev.uid

FlipToInit ==
    [][Flip => \A s \in Slots : Live(s) /\ vm'.devices[s] # vm.devices[s] =>
         /\ device_in_DISC_list(vm.devices[s])
         /\ (\E i \in DOMAIN g_dss : g_dss[i].uid = vm.devices[s].uid)
              => FlippedToInit(vm.devices[s], vm'.devices[s].mem)]_vars

(* Every entry of the table is a device as its init left it, of a kind     *)
(* that DISC handles, no device has two, and the table never grows past    *)
(* its array, however often devices come and go.                           *)
SnapshotIsInit ==
    /\ Len(g_dss) <= MAX_DEV_SNAPSHOTS
    /\ \A i \in DOMAIN g_dss :
        /\ device_in_DISC_list(g_dss[i])
        /\ \A c \in Registers : g_dss[i].mem[c] = "init"
        /\ \A j \in DOMAIN g_dss : g_dss[j].uid = g_dss[i].uid => i = j

(* As long as flips only hit devices that are wired into the machine as    *)
(* they were after init (BAR unmapped, bus mastering off, no device        *)
(* plugged in later), every device stays reachable exactly where its       *)
(* config space says, a bus master reaches memory, and no assertion of the *)
(* memory code fails, through resets, plugging and unplugging.             *)
WiredAsConfigured ==
    clean => /\ vm.status \notin {"aborted", "crashed"}
             /\ vm.status = "ok" =>
                  \A s \in Slots : Live(s) => /\ vm.mmio[s] <=> "MEMORY" \in vm.config[s]
                                              /\ "MASTER" \in vm.config[s] => vm.dma[s]

(* No assertion of memory.c fails ("assert(subregion->parent == mr)",      *)
(* memory.c:1377).                                                         *)
AssertionsHold == vm.status # "aborted"

(* A device's removal is announced (QMP/qmp-events.txt:142) and takes it   *)
(* off the bus.                                                            *)
RemovalAnnounced == removed \subseteq announced
=============================================================================
