----------------------------- MODULE Disc_proofs -----------------------------
(***************************************************************************)
(* Proofs about Disc, for a bus of any size, any devices on it and any     *)
(* number of flips.                                                        *)
(*                                                                         *)
(* A flip leaves stale links in an instance, so the lists are not lists    *)
(* any more.  What holds all the same: no list operation follows a link to *)
(* an instance that is gone, because what still leads to an instance that  *)
(* may leave a list is led to by its own links.  That is ListOK; Whole is  *)
(* what it becomes as long as no flip has touched a link.                  *)
(***************************************************************************)
EXTENDS Disc, SequenceTheorems, WellFoundedInduction, TLAPS

Occ(v)        == {s \in Slots : v.devices[s] # NoDevice}
Cell(v, s, c) == v.devices[s].mem[c]
Nx(v, l, s)   == v.devices[s].mem[l].next
Pv(v, l, s)   == v.devices[s].mem[l].prev
With(v, S, c) == {s \in S : Cell(v, s, c)}

(* An instance, and the machine.                                           *)
IsMem(m) ==
    /\ m = [c \in Cells |-> m[c]]
    /\ \A c \in {REALIZED, BAR0, BUS_MASTER, PARENT} : m[c] \in BOOLEAN
    /\ \A l \in Lists : m[l] = [next |-> m[l].next, prev |-> m[l].prev]

IsDev(d) ==
    /\ d = [uid |-> d.uid, name |-> d.name, mem |-> d.mem]
    /\ d.uid \in Nat \ {0} /\ IsMem(d.mem)

Machine(v) ==
    /\ v = [devices |-> v.devices, config |-> v.config, list |-> v.list,
            mmio |-> v.mmio, dma |-> v.dma, status |-> v.status]
    /\ v.devices = [s \in Slots |-> v.devices[s]]
    /\ \A s \in Occ(v) : IsDev(v.devices[s])
    /\ v.config = [s \in Slots |-> v.config[s]]
    /\ v.list = [l \in Lists |-> v.list[l]]
    /\ \A l \in Lists : v.list[l] = [first |-> v.list[l].first, last |-> v.list[l].last]
    /\ v.mmio \in [Slots -> BOOLEAN] /\ v.dma \in [Slots -> BOOLEAN]

(* M: the instances on list l.  On: those that may be removed from it.     *)
(* Tr: those whose back link is no leftover.                               *)
ListOK(v, l, M, On, Tr) ==
    /\ On \subseteq Tr /\ Tr \subseteq M /\ M \subseteq Occ(v)
    /\ v.list[l].first \in M \cup {NULL}
    /\ v.list[l].last \in M \cup {HEAD}
    /\ \A s \in M : Nx(v, l, s) \in M \cup {NULL}
    /\ \A s \in Tr : Pv(v, l, s) \in M \cup {NULL, HEAD}
    /\ \A s \in On : /\ Pv(v, l, s) # NULL
                     /\ v.list[l].first = s => Pv(v, l, s) = HEAD
                     /\ v.list[l].last = s => Nx(v, l, s) = NULL
    /\ \A s \in On, x \in M : Nx(v, l, x) = s => Pv(v, l, s) = x
    /\ \A s \in On, x \in Tr : Pv(v, l, x) = s => Nx(v, l, s) = x

(* A list as it should be; r keeps its back links from going round.        *)
Whole(v, l, M) ==
    /\ ListOK(v, l, M, M, M)
    /\ \A s \in M : Pv(v, l, s) = HEAD => v.list[l].first = s
    /\ v.list[l].last = HEAD => v.list[l].first = NULL
    /\ \E r \in [Slots -> Nat] : \A s \in M : Pv(v, l, s) \in M => r[Pv(v, l, s)] < r[s]

(* What holds after any number of flips, M being the mapped BARs.          *)
Loose(v, M) ==
    /\ Machine(v)
    /\ ListOK(v, MMIO_LINK, M, With(v, M, PARENT), M)
    /\ ListOK(v, AS_LINK, Occ(v), With(v, Occ(v), REALIZED), With(v, Occ(v), REALIZED))
    /\ With(v, Occ(v), PARENT) \subseteq M

(* What holds when none of them touched the wiring.                        *)
Wired(v, M) ==
    /\ Whole(v, MMIO_LINK, M) /\ Whole(v, AS_LINK, Occ(v))
    /\ \A s \in Occ(v) : /\ Cell(v, s, PARENT) = (s \in M)
                         /\ v.mmio[s] = (s \in M)
                         /\ v.dma[s] = Cell(v, s, BUS_MASTER)

(* The table g, when n devices have been created.                          *)
IsSnapshot(d, n) ==
    /\ IsDev(d) /\ d.uid \in 1..n /\ d.name \in DiscNames
    /\ \A c \in Registers : d.mem[c] = "init"
    /\ d.mem[NIC] = d.uid /\ d.mem[CONFIG] = d.uid
    /\ d.mem[REALIZED] = FALSE /\ d.mem[PARENT] = FALSE
    /\ d.mem[MMIO_LINK] = [next |-> NULL, prev |-> NULL]
    /\ d.mem[AS_LINK].next = NULL

Snapshots(g, n) ==
    /\ Len(g) <= MAX_DEV_SNAPSHOTS
    /\ \A i \in DOMAIN g : IsSnapshot(g[i], n)
    /\ \A i, j \in DOMAIN g : g[i].uid = g[j].uid => i = j

Mapped(v) == With(v, Occ(v), BAR0)

MachineInv ==
    /\ Loose(vm, Mapped(vm))
    /\ \A s \in Occ(vm) : /\ Cell(vm, s, BAR0) = ("MEMORY" \in vm.config[s])
                          /\ Cell(vm, s, CONFIG) = vm.devices[s].uid
    /\ clean => /\ Wired(vm, Mapped(vm))
                /\ \A s \in Occ(vm) : "MASTER" \in vm.config[s] => Cell(vm, s, BUS_MASTER)

(* The inductive invariant.                                                *)
DiscInv ==
    /\ created \in Nat /\ Snapshots(g_dss, created)
    /\ g_dss \in Seq({g_dss[i] : i \in DOMAIN g_dss})
    /\ vm.status = "ok" => MachineInv
    /\ clean => vm.status \notin {"aborted", "crashed"}

-----------------------------------------------------------------------------
(* Pointers and cells                                                      *)

(* The two ends of a list are no instance.                                 *)
LEMMA Pointers == NULL \notin Slots /\ HEAD \notin Slots /\ NULL # HEAD /\ Slots \subseteq Nat
BY DiscAssumption DEF NULL, HEAD, Slots

(* The cells of an instance by name: which are links, which are registers, *)
(* and that they differ.                                                   *)
LEMMA CellNames ==
    /\ Lists \subseteq Cells /\ {CLASS, REALIZED, CONFIG, BAR0, BUS_MASTER, NIC, PARENT} \subseteq Cells
    /\ Registers \subseteq Cells
    /\ Lists = {MMIO_LINK, AS_LINK} /\ MMIO_LINK # AS_LINK
    /\ \A c \in {CLASS, REALIZED, CONFIG, BAR0, BUS_MASTER, NIC, PARENT} : c \notin Lists /\ c \notin Registers
    /\ \A l \in Lists : l \notin Registers
    /\ REALIZED # PARENT /\ REALIZED # BAR0 /\ REALIZED # BUS_MASTER
    /\ PARENT # BAR0 /\ PARENT # BUS_MASTER /\ BAR0 # BUS_MASTER
    /\ CONFIG \notin {REALIZED, PARENT, BAR0, BUS_MASTER}
BY DEF Lists, Cells, Registers, CLASS, REALIZED, CONFIG, BAR0, AS_LINK, BUS_MASTER, IRQ_STATE, NIC,
       PARENT, MMIO_LINK, MAC_REG, TSE

-----------------------------------------------------------------------------
(* Writes to the machine                                                   *)

Vm(D, G, L, X, Y, z) ==
    [devices |-> D, config |-> G, list |-> L, mmio |-> X, dma |-> Y, status |-> z]

(* The fields of a machine put together from its parts.                    *)
LEMMA VmFields ==
    ASSUME NEW D, NEW G, NEW L, NEW X, NEW Y, NEW z
    PROVE  LET w == Vm(D, G, L, X, Y, z) IN
           w.devices = D /\ w.config = G /\ w.list = L /\ w.mmio = X /\ w.dma = Y /\ w.status = z
BY DEF Vm

(* Such a machine is well formed when its parts are.                       *)
LEMMA Build ==
    ASSUME NEW D, NEW G, NEW L, NEW X \in [Slots -> BOOLEAN], NEW Y \in [Slots -> BOOLEAN], NEW z,
           D = [s \in Slots |-> D[s]], G = [s \in Slots |-> G[s]],
           \A s \in Slots : D[s] # NoDevice => IsDev(D[s]),
           L = [l \in Lists |-> L[l]],
           \A l \in Lists : L[l] = [first |-> L[l].first, last |-> L[l].last]
    PROVE  Machine(Vm(D, G, L, X, Y, z))
<1> DEFINE w == Vm(D, G, L, X, Y, z)
<1>1. w.devices = D /\ w.config = G /\ w.list = L /\ w.mmio = X /\ w.dma = Y /\ w.status = z
  BY VmFields
<1>2. w = [devices |-> w.devices, config |-> w.config, list |-> w.list,
            mmio |-> w.mmio, dma |-> w.dma, status |-> w.status]
  BY <1>1 DEF Vm
<1> HIDE DEF w
<1>3. \A s \in Occ(w) : IsDev(w.devices[s])
  BY <1>1 DEF Occ
<1>4. /\ w.list = [l \in Lists |-> w.list[l]]
      /\ \A l \in Lists : w.list[l] = [first |-> w.list[l].first, last |-> w.list[l].last]
  BY <1>1, Zenon
<1>5. w.devices = [s \in Slots |-> w.devices[s]]
  BY <1>1, Zenon
<1>6. w.config = [s \in Slots |-> w.config[s]]
  BY <1>1, Zenon
<1> QED
  BY <1>1, <1>2, <1>3, <1>4, <1>5, <1>6 DEF Machine, w

(* The machine as the record it is.                                        *)
LEMMA Unbuild ==
    ASSUME NEW v, Machine(v)
    PROVE  /\ v = Vm(v.devices, v.config, v.list, v.mmio, v.dma, v.status)
           /\ v.devices = [s \in Slots |-> v.devices[s]] /\ v.config = [s \in Slots |-> v.config[s]]
           /\ \A s \in Slots : v.devices[s] # NoDevice => IsDev(v.devices[s])
           /\ v.list = [l \in Lists |-> v.list[l]]
           /\ \A l \in Lists : v.list[l] = [first |-> v.list[l].first, last |-> v.list[l].last]
           /\ v.mmio \in [Slots -> BOOLEAN] /\ v.dma \in [Slots -> BOOLEAN]
BY DEF Machine, Vm, Occ

(* The instance in slot s gets the memory m.                               *)
PutMem(v, s, m) ==
    Vm([x \in Slots |-> IF x = s
                        THEN [uid |-> v.devices[s].uid, name |-> v.devices[s].name, mem |-> m]
                        ELSE v.devices[x]],
       v.config, v.list, v.mmio, v.dma, v.status)

(* Overwriting the memory of one instance leaves all else alone.           *)
LEMMA PutMemFields ==
    ASSUME NEW v, Machine(v), NEW s \in Occ(v), NEW m, IsMem(m)
    PROVE  LET w == PutMem(v, s, m) IN
           /\ Machine(w) /\ Occ(w) = Occ(v)
           /\ w.config = v.config /\ w.list = v.list /\ w.mmio = v.mmio /\ w.dma = v.dma
           /\ w.status = v.status
           /\ \A x \in Slots : x # s => w.devices[x] = v.devices[x]
           /\ w.devices[s].uid = v.devices[s].uid /\ w.devices[s].name = v.devices[s].name
           /\ w.devices[s].mem = m
<1> DEFINE d == [uid |-> v.devices[s].uid, name |-> v.devices[s].name, mem |-> m]
           D == [x \in Slots |-> IF x = s THEN d ELSE v.devices[x]]
           w == Vm(D, v.config, v.list, v.mmio, v.dma, v.status)
<1>1. s \in Slots /\ v.devices[s] # NoDevice /\ IsDev(v.devices[s])
  BY DEF Occ, Machine
<1>2. IsDev(d) /\ d # NoDevice /\ d.mem = m /\ d.uid = v.devices[s].uid /\ d.name = v.devices[s].name
  BY <1>1 DEF IsDev, NoDevice
<1> HIDE DEF d
<1>3. D = [x \in Slots |-> D[x]] /\ D[s] = d /\ \A x \in Slots : x # s => D[x] = v.devices[x]
  BY <1>1
<1>4. \A x \in Slots : D[x] # NoDevice => IsDev(D[x])
  BY <1>2, <1>3, Unbuild
<1>5. Machine(w)
  <2> HIDE DEF D
  <2> QED
    BY <1>3, <1>4, Unbuild, Build
<1>6. /\ w.devices = D /\ w.config = v.config /\ w.list = v.list
      /\ w.mmio = v.mmio /\ w.dma = v.dma /\ w.status = v.status
  BY VmFields
<1>7. w = PutMem(v, s, m)
  BY DEF PutMem, d
<1> HIDE DEF D, w
<1>8. Occ(w) = Occ(v)
  BY <1>1, <1>2, <1>3, <1>6 DEF Occ
<1> QED
  BY <1>2, <1>3, <1>5, <1>6, <1>7, <1>8

(* w is v except for list l.                                               *)
KeepsBut(v, w, l) ==
    /\ Machine(w) /\ Occ(w) = Occ(v)
    /\ w.config = v.config /\ w.mmio = v.mmio /\ w.dma = v.dma /\ w.status = v.status
    /\ \A s \in Occ(v) :
        /\ w.devices[s].uid = v.devices[s].uid /\ w.devices[s].name = v.devices[s].name
        /\ \A c \in Cells \ {l} : Cell(w, s, c) = Cell(v, s, c)
    /\ \A k \in Lists \ {l} : w.list[k] = v.list[k]

(* Two changes to one list are a change to that list.                      *)
LEMMA KeepsTwice ==
    ASSUME NEW u, NEW v, NEW w, NEW l, KeepsBut(u, v, l), KeepsBut(v, w, l)
    PROVE  KeepsBut(u, w, l)
BY DEF KeepsBut

(* The link of instance s for list l is written.                           *)
PutLink(v, l, s, n, p) == [v EXCEPT !.devices[s].mem[l] = [next |-> n, prev |-> p]]

(* What writing the link of an instance changes.                           *)
LEMMA PutLinkFields ==
    ASSUME NEW v, Machine(v), NEW s \in Occ(v), NEW l \in Lists, NEW n, NEW p
    PROVE  LET w == PutLink(v, l, s, n, p) IN
           /\ KeepsBut(v, w, l) /\ w.list = v.list
           /\ \A x \in Occ(v) : /\ Nx(w, l, x) = IF x = s THEN n ELSE Nx(v, l, x)
                                /\ Pv(w, l, x) = IF x = s THEN p ELSE Pv(v, l, x)
<1> DEFINE link == [next |-> n, prev |-> p]
           m == [v.devices[s].mem EXCEPT ![l] = link]
           w == PutMem(v, s, m)
<1>1. s \in Slots /\ IsDev(v.devices[s])
  BY DEF Occ, Machine
<1>2. PutLink(v, l, s, n, p) = w
  BY <1>1 DEF Machine, IsDev, PutMem, Vm, PutLink
<1>3. l \in Cells /\ l \notin {REALIZED, BAR0, BUS_MASTER, PARENT} /\ Lists \subseteq Cells
  BY CellNames
<1>4. link.next = n /\ link.prev = p /\ link = [next |-> link.next, prev |-> link.prev]
  OBVIOUS
<1> HIDE DEF link
<1>5. m[l] = link /\ \A c \in Cells \ {l} : m[c] = Cell(v, s, c)
  BY <1>1, <1>3 DEF IsDev, IsMem, Cell
<1>6. IsMem(m)
  <2>1. m = [c \in Cells |-> m[c]]
    BY <1>1 DEF IsDev, IsMem
  <2> HIDE DEF m
  <2>2. \A c \in {REALIZED, BAR0, BUS_MASTER, PARENT} : m[c] \in BOOLEAN
    BY <1>1, <1>3, <1>5, CellNames DEF IsDev, IsMem, Cell
  <2>3. \A k \in Lists : m[k] = [next |-> m[k].next, prev |-> m[k].prev]
    BY <1>1, <1>3, <1>4, <1>5 DEF IsDev, IsMem, Cell
  <2> QED
    BY <2>1, <2>2, <2>3 DEF IsMem
<1> HIDE DEF m
<1>7. /\ Machine(w) /\ Occ(w) = Occ(v)
      /\ w.config = v.config /\ w.list = v.list /\ w.mmio = v.mmio /\ w.dma = v.dma
      /\ w.status = v.status
      /\ \A x \in Slots : x # s => w.devices[x] = v.devices[x]
      /\ w.devices[s].uid = v.devices[s].uid /\ w.devices[s].name = v.devices[s].name
      /\ w.devices[s].mem = m
  BY <1>6, PutMemFields
<1> HIDE DEF w
<1>8. Occ(v) \subseteq Slots
  BY DEF Occ
<1>9. KeepsBut(v, w, l)
  BY <1>5, <1>7, <1>8 DEF KeepsBut, Cell
<1>10. \A x \in Occ(v) : /\ Nx(w, l, x) = IF x = s THEN n ELSE Nx(v, l, x)
                         /\ Pv(w, l, x) = IF x = s THEN p ELSE Pv(v, l, x)
  BY <1>4, <1>5, <1>7, <1>8 DEF Nx, Pv
<1> QED
  BY <1>2, <1>7, <1>9, <1>10

(* Writing a next pointer is such a change ...                             *)
LEMMA PutNext ==
    ASSUME NEW v, Machine(v), NEW s \in Occ(v), NEW l \in Lists, NEW n
    PROVE  [v EXCEPT !.devices[s].mem[l].next = n] = PutLink(v, l, s, n, Pv(v, l, s))
<1>1. s \in Slots /\ IsDev(v.devices[s])
  BY DEF Occ, Machine
<1>2. v.devices[s].mem[l] = [next |-> v.devices[s].mem[l].next, prev |-> v.devices[s].mem[l].prev]
  BY <1>1 DEF IsDev, IsMem
<1>3. [v.devices[s].mem[l] EXCEPT !.next = n] = [next |-> n, prev |-> Pv(v, l, s)]
  BY <1>2 DEF Pv
<1>4. [v EXCEPT !.devices[s].mem[l].next = n]
        = [v EXCEPT !.devices[s].mem[l] = [v.devices[s].mem[l] EXCEPT !.next = n]]
  BY <1>1 DEF Machine, IsDev
<1> QED
  BY <1>3, <1>4 DEF PutLink

(* ... and so is writing a prev pointer.                                   *)
LEMMA PutPrev ==
    ASSUME NEW v, Machine(v), NEW s \in Occ(v), NEW l \in Lists, NEW p
    PROVE  [v EXCEPT !.devices[s].mem[l].prev = p] = PutLink(v, l, s, Nx(v, l, s), p)
<1>1. s \in Slots /\ IsDev(v.devices[s])
  BY DEF Occ, Machine
<1>2. v.devices[s].mem[l] = [next |-> v.devices[s].mem[l].next, prev |-> v.devices[s].mem[l].prev]
  BY <1>1 DEF IsDev, IsMem
<1>3. [v.devices[s].mem[l] EXCEPT !.prev = p] = [next |-> Nx(v, l, s), prev |-> p]
  BY <1>2 DEF Nx
<1>4. [v EXCEPT !.devices[s].mem[l].prev = p]
        = [v EXCEPT !.devices[s].mem[l] = [v.devices[s].mem[l] EXCEPT !.prev = p]]
  BY <1>1 DEF Machine, IsDev
<1> QED
  BY <1>3, <1>4 DEF PutLink

(* The head of list l is written.                                          *)
PutHead(v, l, f, t) ==
    Vm(v.devices, v.config,
       [k \in Lists |-> IF k = l THEN [first |-> f, last |-> t] ELSE v.list[k]],
       v.mmio, v.dma, v.status)

(* What writing the head of a list changes.                                *)
LEMMA PutHeadFields ==
    ASSUME NEW v, Machine(v), NEW l \in Lists, NEW f, NEW t
    PROVE  LET w == PutHead(v, l, f, t) IN
           /\ KeepsBut(v, w, l) /\ w.devices = v.devices
           /\ w.list[l].first = f /\ w.list[l].last = t
           /\ \A x \in Occ(v) : Nx(w, l, x) = Nx(v, l, x) /\ Pv(w, l, x) = Pv(v, l, x)
<1> DEFINE h == [first |-> f, last |-> t]
           L == [k \in Lists |-> IF k = l THEN h ELSE v.list[k]]
           w == Vm(v.devices, v.config, L, v.mmio, v.dma, v.status)
<1>1. h.first = f /\ h.last = t /\ h = [first |-> h.first, last |-> h.last]
  OBVIOUS
<1>2. w = PutHead(v, l, f, t)
  BY DEF PutHead
<1> HIDE DEF h
<1>3. L[l] = h /\ (\A k \in Lists \ {l} : L[k] = v.list[k]) /\ L = [k \in Lists |-> L[k]]
  OBVIOUS
<1>4. \A k \in Lists : L[k] = [first |-> L[k].first, last |-> L[k].last]
  BY <1>1, <1>3, Unbuild
<1> HIDE DEF L
<1>6. Machine(w)
  <2>1. /\ v.devices = [s \in Slots |-> v.devices[s]] /\ v.config = [s \in Slots |-> v.config[s]]
        /\ \A s \in Slots : v.devices[s] # NoDevice => IsDev(v.devices[s])
        /\ v.mmio \in [Slots -> BOOLEAN] /\ v.dma \in [Slots -> BOOLEAN]
    BY Unbuild
  <2> QED
    BY <1>3, <1>4, <2>1, Build
<1>7. /\ w.devices = v.devices /\ w.config = v.config /\ w.list = L
      /\ w.mmio = v.mmio /\ w.dma = v.dma /\ w.status = v.status
  BY VmFields
<1> HIDE DEF w
<1>8. KeepsBut(v, w, l)
  BY <1>3, <1>6, <1>7 DEF KeepsBut, Occ, Cell
<1> QED
  BY <1>1, <1>2, <1>3, <1>7, <1>8 DEF Nx, Pv

(* Writing the head's first pointer is such a change ...                   *)
LEMMA PutFirst ==
    ASSUME NEW v, Machine(v), NEW l \in Lists, NEW f
    PROVE  [v EXCEPT !.list[l].first = f] = PutHead(v, l, f, v.list[l].last)
<1> DEFINE h == [first |-> f, last |-> v.list[l].last]
           L == [k \in Lists |-> IF k = l THEN h ELSE v.list[k]]
<1>0. v.list[l] = [first |-> v.list[l].first, last |-> v.list[l].last]
  BY DEF Machine
<1>1. [v.list[l] EXCEPT !.first = f] = h
  BY <1>0
<1>2. [v.list EXCEPT ![l] = h] = L
  BY DEF Machine
<1>3. [v EXCEPT !.list[l].first = f]
        = [v EXCEPT !.list = [v.list EXCEPT ![l] = [v.list[l] EXCEPT !.first = f]]]
  BY DEF Machine
<1> HIDE DEF h
<1>4. [v EXCEPT !.list = L] = Vm(v.devices, v.config, L, v.mmio, v.dma, v.status)
  BY DEF Machine, Vm
<1> QED
  BY <1>1, <1>2, <1>3, <1>4 DEF PutHead, h

(* ... and so is writing its last pointer.                                 *)
LEMMA PutLast ==
    ASSUME NEW v, Machine(v), NEW l \in Lists, NEW t
    PROVE  [v EXCEPT !.list[l].last = t] = PutHead(v, l, v.list[l].first, t)
<1> DEFINE h == [first |-> v.list[l].first, last |-> t]
           L == [k \in Lists |-> IF k = l THEN h ELSE v.list[k]]
<1>0. v.list[l] = [first |-> v.list[l].first, last |-> v.list[l].last]
  BY DEF Machine
<1>1. [v.list[l] EXCEPT !.last = t] = h
  BY <1>0
<1>2. [v.list EXCEPT ![l] = h] = L
  BY DEF Machine
<1>3. [v EXCEPT !.list[l].last = t]
        = [v EXCEPT !.list = [v.list EXCEPT ![l] = [v.list[l] EXCEPT !.last = t]]]
  BY DEF Machine
<1> HIDE DEF h
<1>4. [v EXCEPT !.list = L] = Vm(v.devices, v.config, L, v.mmio, v.dma, v.status)
  BY DEF Machine, Vm
<1> QED
  BY <1>1, <1>2, <1>3, <1>4 DEF PutHead, h

(* The pointer that leads to the next element: of an instance or the head. *)
LEMMA SetNextFields ==
    ASSUME NEW v, Machine(v), NEW l \in Lists, NEW p \in Occ(v) \cup {HEAD}, NEW to
    PROVE  LET w == SetNext(v, l, p, to) IN
           /\ KeepsBut(v, w, l)
           /\ w.list[l].first = IF p = HEAD THEN to ELSE v.list[l].first
           /\ w.list[l].last = v.list[l].last
           /\ \A x \in Occ(v) : /\ Nx(w, l, x) = IF x = p THEN to ELSE Nx(v, l, x)
                                /\ Pv(w, l, x) = Pv(v, l, x)
<1>1. Occ(v) \subseteq Slots
  BY DEF Occ
<1>2. CASE p = HEAD
  <2>1. SetNext(v, l, p, to) = PutHead(v, l, to, v.list[l].last)
    BY <1>2, PutFirst DEF SetNext
  <2>2. \A x \in Occ(v) : x # p
    BY <1>1, <1>2, Pointers
  <2> QED
    BY <1>2, <2>1, <2>2, PutHeadFields
<1>3. CASE p # HEAD
  <2>1. p \in Occ(v) /\ p # NULL
    BY <1>1, <1>3, Pointers
  <2> DEFINE w == PutLink(v, l, p, to, Pv(v, l, p))
  <2>2. SetNext(v, l, p, to) = w
    BY <1>3, <2>1, PutNext DEF SetNext
  <2>3. /\ KeepsBut(v, w, l) /\ w.list = v.list
        /\ \A x \in Occ(v) : /\ Nx(w, l, x) = IF x = p THEN to ELSE Nx(v, l, x)
                             /\ Pv(w, l, x) = IF x = p THEN Pv(v, l, p) ELSE Pv(v, l, x)
    BY <2>1, PutLinkFields
  <2> HIDE DEF w
  <2> QED
    BY <1>3, <2>2, <2>3
<1> QED
  BY <1>2, <1>3

-----------------------------------------------------------------------------
(* The operations on a list: what they write                               *)

(* QTAILQ_INSERT_TAIL, pointer by pointer.                                 *)
LEMMA InsertTailFields ==
    ASSUME NEW v, Machine(v), NEW l \in Lists, NEW s \in Occ(v),
           v.list[l].last \in Occ(v) \cup {HEAD}, v.list[l].last # s
    PROVE  LET w == QTAILQ_INSERT_TAIL(v, l, s)
               p == v.list[l].last
           IN  /\ KeepsBut(v, w, l)
               /\ w.list[l].first = IF p = HEAD THEN s ELSE v.list[l].first
               /\ w.list[l].last = s
               /\ \A x \in Occ(v) :
                    /\ Nx(w, l, x) = IF x = p THEN s ELSE IF x = s THEN NULL ELSE Nx(v, l, x)
                    /\ Pv(w, l, x) = IF x = s THEN p ELSE Pv(v, l, x)
<1> DEFINE p == v.list[l].last
           a == PutLink(v, l, s, NULL, p)
           b == PutHead(a, l, a.list[l].first, s)
           w == SetNext(b, l, p, s)
<1>1. /\ KeepsBut(v, a, l) /\ a.list = v.list
      /\ \A x \in Occ(v) : /\ Nx(a, l, x) = IF x = s THEN NULL ELSE Nx(v, l, x)
                           /\ Pv(a, l, x) = IF x = s THEN p ELSE Pv(v, l, x)
  BY PutLinkFields
<1>2. Machine(a) /\ Occ(a) = Occ(v)
  BY <1>1 DEF KeepsBut
<1>3. /\ KeepsBut(a, b, l)
      /\ b.list[l].first = a.list[l].first /\ b.list[l].last = s
      /\ \A x \in Occ(v) : Nx(b, l, x) = Nx(a, l, x) /\ Pv(b, l, x) = Pv(a, l, x)
  <2> HIDE DEF a, p
  <2>1. KeepsBut(a, b, l)
    BY <1>2, PutHeadFields
  <2>2. b.list[l].first = a.list[l].first /\ b.list[l].last = s
    BY <1>2, PutHeadFields
  <2>3. \A x \in Occ(a) : Nx(b, l, x) = Nx(a, l, x) /\ Pv(b, l, x) = Pv(a, l, x)
    BY <1>2, PutHeadFields
  <2> HIDE DEF b
  <2> QED
    BY <1>2, <2>1, <2>2, <2>3
<1>4. Machine(b) /\ Occ(b) = Occ(v) /\ KeepsBut(v, b, l)
  <2>1. KeepsBut(v, b, l)
    BY <1>1, <1>3, KeepsTwice
  <2> QED
    BY <2>1 DEF KeepsBut
<1>5. b = [v EXCEPT !.devices[s].mem[l] = [next |-> NULL, prev |-> p], !.list[l].last = s]
  <2>1. b = [a EXCEPT !.list[l].last = s]
    BY <1>2, PutLast
  <2> QED
    BY <2>1 DEF PutLink
<1>6. w = QTAILQ_INSERT_TAIL(v, l, s)
  <2> HIDE DEF b
  <2> QED
    BY <1>5 DEF QTAILQ_INSERT_TAIL
<1>7. p \in Occ(v) \cup {HEAD} /\ p # s
  OBVIOUS
<1> HIDE DEF a, b, p
<1>8. /\ KeepsBut(b, w, l)
      /\ w.list[l].first = IF p = HEAD THEN s ELSE b.list[l].first
      /\ w.list[l].last = b.list[l].last
      /\ \A x \in Occ(v) : /\ Nx(w, l, x) = IF x = p THEN s ELSE Nx(b, l, x)
                           /\ Pv(w, l, x) = Pv(b, l, x)
  BY <1>4, <1>7, SetNextFields
<1>9. KeepsBut(v, w, l)
  BY <1>4, <1>8, KeepsTwice
<1> HIDE DEF w
<1>10. /\ w.list[l].first = IF p = HEAD THEN s ELSE v.list[l].first
       /\ w.list[l].last = s
       /\ \A x \in Occ(v) :
            /\ Nx(w, l, x) = IF x = p THEN s ELSE IF x = s THEN NULL ELSE Nx(v, l, x)
            /\ Pv(w, l, x) = IF x = s THEN p ELSE Pv(v, l, x)
  BY <1>1, <1>3, <1>8
<1> QED
  BY <1>6, <1>9, <1>10 DEF p

(* QTAILQ_INSERT_BEFORE, pointer by pointer.                               *)
LEMMA InsertBeforeFields ==
    ASSUME NEW v, Machine(v), NEW l \in Lists, NEW s \in Occ(v), NEW o \in Occ(v), o # s,
           Pv(v, l, o) \in Occ(v) \cup {HEAD}
    PROVE  LET w == QTAILQ_INSERT_BEFORE(v, l, o, s)
               p == Pv(v, l, o)
           IN  /\ KeepsBut(v, w, l)
               /\ w.list[l].first = IF p = HEAD THEN s ELSE v.list[l].first
               /\ w.list[l].last = v.list[l].last
               /\ \A x \in Occ(v) :
                    /\ Nx(w, l, x) = IF x = p THEN s ELSE IF x = s THEN o ELSE Nx(v, l, x)
                    /\ Pv(w, l, x) = IF x = s THEN p ELSE IF x = o THEN s ELSE Pv(v, l, x)
<1> DEFINE p == Pv(v, l, o)
           a == PutLink(v, l, s, o, p)
           b == PutLink(a, l, o, Nx(a, l, o), s)
           w == SetNext(b, l, p, s)
<1>1. /\ KeepsBut(v, a, l) /\ a.list = v.list
      /\ \A x \in Occ(v) : /\ Nx(a, l, x) = IF x = s THEN o ELSE Nx(v, l, x)
                           /\ Pv(a, l, x) = IF x = s THEN p ELSE Pv(v, l, x)
  BY PutLinkFields
<1>2. Machine(a) /\ Occ(a) = Occ(v)
  BY <1>1 DEF KeepsBut
<1>3. /\ KeepsBut(a, b, l) /\ b.list = a.list
      /\ \A x \in Occ(v) : /\ Nx(b, l, x) = IF x = o THEN Nx(a, l, o) ELSE Nx(a, l, x)
                           /\ Pv(b, l, x) = IF x = o THEN s ELSE Pv(a, l, x)
  BY <1>2, PutLinkFields
<1>4. Machine(b) /\ Occ(b) = Occ(v) /\ KeepsBut(v, b, l)
  <2>1. KeepsBut(v, b, l)
    BY <1>1, <1>3, KeepsTwice
  <2> QED
    BY <2>1 DEF KeepsBut
<1>5. b = [v EXCEPT !.devices[s].mem[l] = [next |-> o, prev |-> p], !.devices[o].mem[l].prev = s]
  <2>1. b = [a EXCEPT !.devices[o].mem[l].prev = s]
    BY <1>2, PutPrev
  <2> QED
    BY <2>1 DEF PutLink
<1>6. w = QTAILQ_INSERT_BEFORE(v, l, o, s)
  <2> HIDE DEF b
  <2>1. p = v.devices[o].mem[l].prev
    BY DEF Pv
  <2> QED
    BY <1>5, <2>1 DEF QTAILQ_INSERT_BEFORE
<1>7. p \in Occ(v) \cup {HEAD}
  OBVIOUS
<1> HIDE DEF a, b, p
<1>8. /\ KeepsBut(b, w, l)
      /\ w.list[l].first = IF p = HEAD THEN s ELSE b.list[l].first
      /\ w.list[l].last = b.list[l].last
      /\ \A x \in Occ(v) : /\ Nx(w, l, x) = IF x = p THEN s ELSE Nx(b, l, x)
                           /\ Pv(w, l, x) = Pv(b, l, x)
  BY <1>4, <1>7, SetNextFields
<1>9. KeepsBut(v, w, l)
  BY <1>4, <1>8, KeepsTwice
<1> HIDE DEF w
<1>10. /\ w.list[l].first = IF p = HEAD THEN s ELSE v.list[l].first
       /\ w.list[l].last = v.list[l].last
       /\ \A x \in Occ(v) :
            /\ Nx(w, l, x) = IF x = p THEN s ELSE IF x = s THEN o ELSE Nx(v, l, x)
            /\ Pv(w, l, x) = IF x = s THEN p ELSE IF x = o THEN s ELSE Pv(v, l, x)
  BY <1>1, <1>3, <1>8
<1> QED
  BY <1>6, <1>9, <1>10 DEF p

(* QTAILQ_REMOVE, pointer by pointer.                                      *)
LEMMA RemoveFields ==
    ASSUME NEW v, Machine(v), NEW l \in Lists, NEW s \in Occ(v),
           Nx(v, l, s) \in Occ(v) \cup {NULL}, Pv(v, l, s) \in Occ(v) \cup {HEAD}
    PROVE  LET w == QTAILQ_REMOVE(v, l, s)
               n == Nx(v, l, s)
               q == Pv(v, l, s)
           IN  /\ KeepsBut(v, w, l)
               /\ w.list[l].first = IF q = HEAD THEN n ELSE v.list[l].first
               /\ w.list[l].last = IF n = NULL THEN q ELSE v.list[l].last
               /\ \A x \in Occ(v) : /\ Nx(w, l, x) = IF x = q THEN n ELSE Nx(v, l, x)
                                    /\ Pv(w, l, x) = IF x = n THEN q ELSE Pv(v, l, x)
<1> DEFINE n == Nx(v, l, s)
           q == Pv(v, l, s)
           a == PutLink(v, l, n, Nx(v, l, n), q)
           b == PutHead(v, l, v.list[l].first, q)
           c == IF n # NULL THEN a ELSE b
           w == SetNext(c, l, q, n)
<1>0. n \in Occ(v) \cup {NULL} /\ q \in Occ(v) \cup {HEAD} /\ NULL \notin Occ(v)
  BY Pointers DEF Occ
<1>1. w = QTAILQ_REMOVE(v, l, s)
  <2>0. v.devices[s].mem[l].next = n /\ v.devices[s].mem[l].prev = q
    BY DEF Nx, Pv
  <2>1. b = [v EXCEPT !.list[l].last = q]
    BY PutLast
  <2>2. CASE n # NULL
    <3>1. a = [v EXCEPT !.devices[n].mem[l].prev = q]
      BY <1>0, <2>2, PutPrev
    <3> HIDE DEF n, q, a, b
    <3> QED
      BY <2>0, <2>2, <3>1 DEF QTAILQ_REMOVE
  <2>3. CASE n = NULL
    <3> HIDE DEF n, q, a, b
    <3> QED
      BY <2>0, <2>1, <2>3 DEF QTAILQ_REMOVE
  <2> QED
    BY <2>2, <2>3
<1>2. /\ KeepsBut(v, c, l) /\ c.list[l].first = v.list[l].first
      /\ c.list[l].last = IF n = NULL THEN q ELSE v.list[l].last
      /\ \A x \in Occ(v) : /\ Nx(c, l, x) = Nx(v, l, x)
                           /\ Pv(c, l, x) = IF x = n THEN q ELSE Pv(v, l, x)
  <2>1. CASE n # NULL
    <3>1. n \in Occ(v)
      BY <1>0, <2>1
    <3>2. /\ KeepsBut(v, a, l) /\ a.list = v.list
          /\ \A x \in Occ(v) : /\ Nx(a, l, x) = IF x = n THEN Nx(v, l, n) ELSE Nx(v, l, x)
                               /\ Pv(a, l, x) = IF x = n THEN q ELSE Pv(v, l, x)
      BY <3>1, PutLinkFields
    <3> HIDE DEF n, q, a, b
    <3> QED
      BY <2>1, <3>2
  <2>2. CASE n = NULL
    <3>1. /\ KeepsBut(v, b, l) /\ b.list[l].first = v.list[l].first /\ b.list[l].last = q
          /\ \A x \in Occ(v) : Nx(b, l, x) = Nx(v, l, x) /\ Pv(b, l, x) = Pv(v, l, x)
      BY PutHeadFields
    <3> HIDE DEF n, q, a, b
    <3> QED
      BY <1>0, <2>2, <3>1
  <2> QED
    BY <2>1, <2>2
<1> HIDE DEF n, q, c
<1>3. Machine(c) /\ Occ(c) = Occ(v)
  BY <1>2 DEF KeepsBut
<1>4. /\ KeepsBut(c, w, l)
      /\ w.list[l].first = IF q = HEAD THEN n ELSE c.list[l].first
      /\ w.list[l].last = c.list[l].last
      /\ \A x \in Occ(v) : /\ Nx(w, l, x) = IF x = q THEN n ELSE Nx(c, l, x)
                           /\ Pv(w, l, x) = Pv(c, l, x)
  BY <1>0, <1>3, SetNextFields
<1>5. KeepsBut(v, w, l)
  BY <1>2, <1>4, KeepsTwice
<1> HIDE DEF w
<1>6. /\ w.list[l].first = IF q = HEAD THEN n ELSE v.list[l].first
      /\ w.list[l].last = IF n = NULL THEN q ELSE v.list[l].last
      /\ \A x \in Occ(v) : /\ Nx(w, l, x) = IF x = q THEN n ELSE Nx(v, l, x)
                           /\ Pv(w, l, x) = IF x = n THEN q ELSE Pv(v, l, x)
  BY <1>2, <1>4
<1> QED
  BY <1>1, <1>5, <1>6 DEF n, q

-----------------------------------------------------------------------------
(* The operations on a list: what they preserve                            *)

(* An insertion at the tail keeps a list that may have stale links.        *)
LEMMA InsertTailOK ==
    ASSUME NEW v, NEW l \in Lists, NEW M, NEW On, NEW Tr, NEW s \in Occ(v) \ M,
           Machine(v), ListOK(v, l, M, On, Tr)
    PROVE  LET w == QTAILQ_INSERT_TAIL(v, l, s) IN
           KeepsBut(v, w, l) /\ ListOK(w, l, M \cup {s}, On \cup {s}, Tr \cup {s})
                             /\ Nx(w, l, s) = NULL
<1> DEFINE w == QTAILQ_INSERT_TAIL(v, l, s)
           p == v.list[l].last
           M2 == M \cup {s}
           On2 == On \cup {s}
           Tr2 == Tr \cup {s}
<1>0. On \subseteq Tr /\ Tr \subseteq M /\ M \subseteq Occ(v) /\ p \in M \cup {HEAD} /\ s \notin M /\ s \in Occ(v)
  BY DEF ListOK
<1>1. NULL \notin Occ(v) /\ HEAD \notin Occ(v) /\ NULL # HEAD
  BY Pointers DEF Occ
<1>2. /\ KeepsBut(v, w, l)
      /\ w.list[l].first = IF p = HEAD THEN s ELSE v.list[l].first
      /\ w.list[l].last = s
      /\ \A x \in Occ(v) : /\ Nx(w, l, x) = IF x = p THEN s ELSE IF x = s THEN NULL ELSE Nx(v, l, x)
                           /\ Pv(w, l, x) = IF x = s THEN p ELSE Pv(v, l, x)
  <2>1. p \in Occ(v) \cup {HEAD} /\ p # s
    BY <1>0, <1>1
  <2> QED
    BY <2>1, InsertTailFields
<1> HIDE DEF w, p
<1>3. Occ(w) = Occ(v)
  BY <1>2 DEF KeepsBut
<1>4. p = v.list[l].last
  BY DEF p
<1>5. On2 \subseteq Tr2 /\ Tr2 \subseteq M2 /\ M2 \subseteq Occ(w)
  BY <1>0, <1>3
<1>6. w.list[l].first \in M2 \cup {NULL} /\ w.list[l].last \in M2 \cup {HEAD}
  BY <1>2 DEF ListOK
<1>7. \A x \in M2 : Nx(w, l, x) \in M2 \cup {NULL}
  BY <1>0, <1>2 DEF ListOK
<1>8. \A x \in Tr2 : Pv(w, l, x) \in M2 \cup {NULL, HEAD}
  BY <1>0, <1>2 DEF ListOK
<1>9. \A x \in On2 : /\ Pv(w, l, x) # NULL
                     /\ w.list[l].first = x => Pv(w, l, x) = HEAD
                     /\ w.list[l].last = x => Nx(w, l, x) = NULL
  <2>1. \A x \in On2 : Pv(w, l, x) # NULL
    BY <1>0, <1>1, <1>2 DEF ListOK
  <2>2. \A x \in On2 : w.list[l].first = x => Pv(w, l, x) = HEAD
    BY <1>0, <1>1, <1>2 DEF ListOK
  <2>3. \A x \in On2 : w.list[l].last = x => Nx(w, l, x) = NULL
    BY <1>0, <1>1, <1>2 DEF ListOK
  <2> QED
    BY <2>1, <2>2, <2>3
<1>10. \A x \in On2, y \in M2 : Nx(w, l, y) = x => Pv(w, l, x) = y
  BY <1>0, <1>1, <1>2 DEF ListOK
<1>11. \A x \in On2, y \in Tr2 : Pv(w, l, y) = x => Nx(w, l, x) = y
  <2>1. \A x \in On : p = x => Nx(v, l, x) = NULL
    BY <1>4 DEF ListOK
  <2>2. \A x \in On, y \in Tr : Pv(v, l, y) = x => Nx(v, l, x) = y
    BY DEF ListOK
  <2>3. \A y \in Tr : Pv(v, l, y) # s
    BY <1>0, <1>1 DEF ListOK
  <2> QED
    BY <1>0, <1>1, <1>2, <2>1, <2>2, <2>3
<1>12. ListOK(w, l, M2, On2, Tr2)
  BY <1>5, <1>6, <1>7, <1>8, <1>9, <1>10, <1>11 DEF ListOK
<1>13. Nx(w, l, s) = NULL
  BY <1>0, <1>1, <1>2
<1> QED
  BY <1>2, <1>12, <1>13 DEF w

(* So does an insertion before the first entry.                            *)
LEMMA InsertBeforeOK ==
    ASSUME NEW v, NEW l \in Lists, NEW M, NEW On, NEW s \in Occ(v) \ M, NEW o \in M,
           Machine(v), ListOK(v, l, M, On, M), v.list[l].first = o, Pv(v, l, o) # NULL
    PROVE  LET w == QTAILQ_INSERT_BEFORE(v, l, o, s) IN
           KeepsBut(v, w, l) /\ ListOK(w, l, M \cup {s}, On \cup {s}, M \cup {s})
<1> DEFINE w == QTAILQ_INSERT_BEFORE(v, l, o, s)
           p == Pv(v, l, o)
           M2 == M \cup {s}
           On2 == On \cup {s}
<1>0. On \subseteq M /\ M \subseteq Occ(v) /\ p \in M \cup {HEAD} /\ s \notin M /\ s \in Occ(v)
      /\ o \in Occ(v) /\ o # s
  BY DEF ListOK
<1>1. NULL \notin Occ(v) /\ HEAD \notin Occ(v) /\ NULL # HEAD
  BY Pointers DEF Occ
<1>2. /\ KeepsBut(v, w, l)
      /\ w.list[l].first = IF p = HEAD THEN s ELSE v.list[l].first
      /\ w.list[l].last = v.list[l].last
      /\ \A x \in Occ(v) : /\ Nx(w, l, x) = IF x = p THEN s ELSE IF x = s THEN o ELSE Nx(v, l, x)
                           /\ Pv(w, l, x) = IF x = s THEN p ELSE IF x = o THEN s ELSE Pv(v, l, x)
  <2>1. p \in Occ(v) \cup {HEAD}
    BY <1>0, <1>1
  <2> QED
    BY <1>0, <2>1, InsertBeforeFields
<1> HIDE DEF w, p
<1>3. Occ(w) = Occ(v)
  BY <1>2 DEF KeepsBut
<1>4. p = Pv(v, l, o) /\ v.list[l].first = o
  BY DEF p
<1>5. On2 \subseteq M2 /\ M2 \subseteq Occ(w)
  BY <1>0, <1>3
<1>6. w.list[l].first \in M2 \cup {NULL} /\ w.list[l].last \in M2 \cup {HEAD}
  BY <1>2 DEF ListOK
<1>7. \A x \in M2 : Nx(w, l, x) \in M2 \cup {NULL}
  BY <1>0, <1>2 DEF ListOK
<1>8. \A x \in M2 : Pv(w, l, x) \in M2 \cup {NULL, HEAD}
  BY <1>0, <1>2 DEF ListOK
<1>9. \A x \in On2 : /\ Pv(w, l, x) # NULL
                     /\ w.list[l].first = x => Pv(w, l, x) = HEAD
                     /\ w.list[l].last = x => Nx(w, l, x) = NULL
  <2>1. \A x \in On2 : Pv(w, l, x) # NULL
    BY <1>0, <1>1, <1>2 DEF ListOK
  <2>2. \A x \in On2 : w.list[l].first = x => Pv(w, l, x) = HEAD
    BY <1>0, <1>1, <1>2, <1>4 DEF ListOK
  <2>3. \A x \in On : v.list[l].last = x => x # p
    BY <1>0, <1>1, <1>4 DEF ListOK
  <2>4. \A x \in On2 : w.list[l].last = x => Nx(w, l, x) = NULL
    BY <1>0, <1>1, <1>2, <2>3 DEF ListOK
  <2> QED
    BY <2>1, <2>2, <2>4
<1>10. \A x \in On2, y \in M2 : Nx(w, l, y) = x => Pv(w, l, x) = y
  <2>1. \A y \in M : Nx(v, l, y) # s
    BY <1>0, <1>1 DEF ListOK
  <2>2. \A x \in On, y \in M : Nx(v, l, y) = x => Pv(v, l, x) = y
    BY DEF ListOK
  <2> QED
    BY <1>0, <1>1, <1>2, <1>4, <2>1, <2>2
<1>11. \A x \in On2, y \in M2 : Pv(w, l, y) = x => Nx(w, l, x) = y
  <2>1. \A y \in M : Pv(v, l, y) # s
    BY <1>0, <1>1 DEF ListOK
  <2>2. \A x \in On, y \in M : Pv(v, l, y) = x => Nx(v, l, x) = y
    BY DEF ListOK
  <2> QED
    BY <1>0, <1>1, <1>2, <1>4, <2>1, <2>2
<1>12. ListOK(w, l, M2, On2, M2)
  BY <1>5, <1>6, <1>7, <1>8, <1>9, <1>10, <1>11 DEF ListOK
<1> QED
  BY <1>2, <1>12 DEF w

(* So does a removal of an entry whose own links are good.                 *)
LEMMA RemoveOK ==
    ASSUME NEW v, NEW l \in Lists, NEW M, NEW On, NEW Tr, NEW s \in On,
           Machine(v), ListOK(v, l, M, On, Tr)
    PROVE  LET w == QTAILQ_REMOVE(v, l, s) IN
           KeepsBut(v, w, l) /\ ListOK(w, l, M \ {s}, On \ {s}, Tr \ {s})
<1> DEFINE w == QTAILQ_REMOVE(v, l, s)
           n == Nx(v, l, s)
           q == Pv(v, l, s)
           M2 == M \ {s}
           On2 == On \ {s}
           Tr2 == Tr \ {s}
<1>0. On \subseteq Tr /\ Tr \subseteq M /\ M \subseteq Occ(v) /\ s \in M /\ s \in Occ(v) /\ s \in Tr
      /\ n \in M \cup {NULL} /\ q \in M \cup {HEAD}
  BY DEF ListOK
<1>1. NULL \notin Occ(v) /\ HEAD \notin Occ(v) /\ NULL # HEAD
  BY Pointers DEF Occ
<1>2. /\ KeepsBut(v, w, l)
      /\ w.list[l].first = IF q = HEAD THEN n ELSE v.list[l].first
      /\ w.list[l].last = IF n = NULL THEN q ELSE v.list[l].last
      /\ \A x \in Occ(v) : /\ Nx(w, l, x) = IF x = q THEN n ELSE Nx(v, l, x)
                           /\ Pv(w, l, x) = IF x = n THEN q ELSE Pv(v, l, x)
  <2>1. n \in Occ(v) \cup {NULL} /\ q \in Occ(v) \cup {HEAD}
    BY <1>0
  <2> QED
    BY <1>0, <2>1, RemoveFields
<1> HIDE DEF w, n, q
<1>3. Occ(w) = Occ(v)
  BY <1>2 DEF KeepsBut
<1>4. n = Nx(v, l, s) /\ q = Pv(v, l, s)
  BY DEF n, q
<1>5. On2 \subseteq Tr2 /\ Tr2 \subseteq M2 /\ M2 \subseteq Occ(w)
  BY <1>0, <1>3
<1>6. /\ v.list[l].first = s => q = HEAD
      /\ v.list[l].last = s => n = NULL
      /\ \A x \in M : Nx(v, l, x) = s => q = x
      /\ \A x \in Tr : Pv(v, l, x) = s => n = x
  BY <1>4 DEF ListOK
<1>7. (n = s => q = s) /\ (q = s => n = s)
  BY <1>0, <1>4, <1>6
<1>8. w.list[l].first \in M2 \cup {NULL}
  BY <1>0, <1>1, <1>2, <1>6, <1>7 DEF ListOK
<1>9. w.list[l].last \in M2 \cup {HEAD}
  BY <1>0, <1>1, <1>2, <1>6, <1>7 DEF ListOK
<1>10. \A x \in M2 : Nx(w, l, x) \in M2 \cup {NULL}
  BY <1>0, <1>1, <1>2, <1>6, <1>7 DEF ListOK
<1>11. \A x \in Tr2 : Pv(w, l, x) \in M2 \cup {NULL, HEAD}
  BY <1>0, <1>1, <1>2, <1>6, <1>7 DEF ListOK
<1>12. \A x \in On2 : /\ Pv(w, l, x) # NULL
                      /\ w.list[l].first = x => Pv(w, l, x) = HEAD
                      /\ w.list[l].last = x => Nx(w, l, x) = NULL
  <2>1. \A x \in On2 : Pv(w, l, x) # NULL
    BY <1>0, <1>1, <1>2 DEF ListOK
  <2>2. \A x \in On2 : x = n => v.list[l].first # x
    BY <1>0, <1>1, <1>4 DEF ListOK
  <2>3. \A x \in On2 : w.list[l].first = x => Pv(w, l, x) = HEAD
    BY <1>0, <1>1, <1>2, <2>2 DEF ListOK
  <2>4. \A x \in On2 : x = q => v.list[l].last # x
    BY <1>0, <1>1, <1>4 DEF ListOK
  <2>5. \A x \in On2 : w.list[l].last = x => Nx(w, l, x) = NULL
    BY <1>0, <1>1, <1>2, <2>4 DEF ListOK
  <2> QED
    BY <2>1, <2>3, <2>5
<1>13. \A x \in On2, y \in M2 : Nx(w, l, y) = x => Pv(w, l, x) = y
  <2>1. \A x \in On, y \in M : Nx(v, l, y) = x => Pv(v, l, x) = y
    BY DEF ListOK
  <2>2. \A x \in On2, y \in M2 : x = n => Nx(v, l, y) # x
    BY <1>0, <1>4, <2>1
  <2> QED
    BY <1>0, <1>1, <1>2, <1>4, <1>6, <2>1, <2>2
<1>14. \A x \in On2, y \in Tr2 : Pv(w, l, y) = x => Nx(w, l, x) = y
  <2>1. \A x \in On, y \in Tr : Pv(v, l, y) = x => Nx(v, l, x) = y
    BY DEF ListOK
  <2>2. \A x \in On2, y \in Tr2 : x = q => Pv(v, l, y) # x
    BY <1>0, <1>4, <2>1
  <2> QED
    BY <1>0, <1>1, <1>2, <1>4, <1>6, <2>1, <2>2
<1>15. ListOK(w, l, M2, On2, Tr2)
  BY <1>5, <1>8, <1>9, <1>10, <1>11, <1>12, <1>13, <1>14 DEF ListOK
<1> QED
  BY <1>2, <1>15 DEF w

-----------------------------------------------------------------------------
(* Lists that no flip has touched                                          *)

(* The least-number principle, for a set.                                  *)
LEMMA LeastNumber ==
    ASSUME NEW T, T \subseteq Nat, T # {}
    PROVE  \E m \in T : \A k \in T : m <= k
<1>1. PICK m \in T : \A k \in T : ~(<<k, m>> \in OpToRel(<, Nat))
  BY WFMin, NatLessThanWellFounded, Zenon
<1>2. \A k \in T : ~(k < m)
  BY <1>1 DEF OpToRel
<1> QED
  BY <1>2

(* Among any instances on the list there is one whose predecessor is not   *)
(* among them.                                                             *)
LEMMA Foremost ==
    ASSUME NEW v, NEW l, NEW M, Whole(v, l, M), NEW T, T \subseteq M, T # {}
    PROVE  \E s \in T : Pv(v, l, s) \notin T
<1>0. M \subseteq Slots
  BY DEF Whole, ListOK, Occ
<1>1. PICK r \in [Slots -> Nat] : \A s \in M : Pv(v, l, s) \in M => r[Pv(v, l, s)] < r[s]
  BY DEF Whole
<1> DEFINE R == {r[s] : s \in T}
<1>2. R \subseteq Nat /\ R # {}
  BY <1>0, <1>1
<1>3. PICK m \in R : \A k \in R : m <= k
  <2> HIDE DEF R
  <2> QED
    BY <1>2, LeastNumber
<1>4. PICK s \in T : r[s] = m
  BY <1>3
<1>5. ASSUME Pv(v, l, s) \in T PROVE FALSE
  <2>1. r[Pv(v, l, s)] < r[s] /\ r[Pv(v, l, s)] \in R
    BY <1>1, <1>5
  <2>2. r[Pv(v, l, s)] \in Nat /\ r[s] \in Nat
    BY <1>0, <1>1, <1>5
  <2> HIDE DEF R
  <2>3. r[s] <= r[Pv(v, l, s)]
    BY <1>3, <1>4, <2>1
  <2> QED
    BY <2>1, <2>2, <2>3
<1> QED
  BY <1>5

(* Only an empty list has no first element.                                *)
LEMMA FirstOfWhole ==
    ASSUME NEW v, NEW l, NEW M, Whole(v, l, M), M # {}
    PROVE  v.list[l].first \in M
<1>1. PICK s \in M : Pv(v, l, s) \notin M
  BY Foremost
<1>2. Pv(v, l, s) = HEAD
  BY <1>1 DEF Whole, ListOK
<1> QED
  BY <1>2 DEF Whole

(* QTAILQ_FOREACH meets what is on the list, and nothing else.             *)
LEMMA WholeChain ==
    ASSUME NEW v, NEW l, NEW M, Whole(v, l, M)
    PROVE  Chain(v, l) = M
<1>0. ListOK(v, l, M, M, M) /\ M \subseteq Slots
  BY DEF Whole, ListOK, Occ
<1>1. Walked(v, l, M)
  BY <1>0 DEF Walked, ListOK, Nx
<1>2. Chain(v, l) \subseteq M
  BY <1>0, <1>1 DEF Chain
<1>3. ASSUME NEW S \in SUBSET Slots, Walked(v, l, S) PROVE M \subseteq S
  <2> SUFFICES ASSUME M \ S # {} PROVE FALSE
    OBVIOUS
  <2>1. PICK s \in M \ S : Pv(v, l, s) \notin M \ S
    BY Foremost
  <2>2. s \in Occ(v) /\ NULL \notin Occ(v)
    BY <1>0, Pointers DEF ListOK, Occ
  <2>3. CASE Pv(v, l, s) = HEAD
    <3>1. v.list[l].first = s
      BY <2>3 DEF Whole
    <3> QED
      BY <1>3, <2>2, <3>1 DEF Walked
  <2>4. CASE Pv(v, l, s) # HEAD
    <3>1. Pv(v, l, s) \in M
      BY <1>0, <2>1, <2>4 DEF ListOK
    <3>2. Pv(v, l, s) \in S /\ Nx(v, l, Pv(v, l, s)) = s
      BY <1>0, <2>1, <3>1 DEF ListOK
    <3>3. v.devices[Pv(v, l, s)] # NoDevice
      BY <1>0, <3>1 DEF ListOK, Occ
    <3>4. Nx(v, l, Pv(v, l, s)) \in S \cup {NULL}
      BY <1>3, <3>2, <3>3 DEF Walked, Nx
    <3> QED
      BY <2>1, <2>2, <3>2, <3>4
  <2> QED
    BY <2>3, <2>4
<1>4. M \subseteq Chain(v, l)
  BY <1>0, <1>3 DEF Chain
<1> QED
  BY <1>2, <1>4

(* An insertion at the tail keeps a list whole.                            *)
LEMMA InsertTailWhole ==
    ASSUME NEW v, NEW l \in Lists, NEW M, NEW s \in Occ(v) \ M, Machine(v), Whole(v, l, M)
    PROVE  Whole(QTAILQ_INSERT_TAIL(v, l, s), l, M \cup {s})
<1> DEFINE w == QTAILQ_INSERT_TAIL(v, l, s)
           p == v.list[l].last
           M2 == M \cup {s}
<1>0. ListOK(v, l, M, M, M)
  BY DEF Whole
<1>1. M \subseteq Occ(v) /\ p \in M \cup {HEAD} /\ s \notin M /\ s \in Slots /\ M \subseteq Slots
      /\ NULL \notin Occ(v) /\ HEAD \notin Occ(v)
  BY <1>0, Pointers DEF ListOK, Occ
<1>2. /\ w.list[l].first = IF p = HEAD THEN s ELSE v.list[l].first
      /\ w.list[l].last = s
      /\ \A x \in Occ(v) : Pv(w, l, x) = IF x = s THEN p ELSE Pv(v, l, x)
  <2>1. p \in Occ(v) \cup {HEAD} /\ p # s
    BY <1>1
  <2> QED
    BY <2>1, InsertTailFields
<1>3. ListOK(w, l, M2, M2, M2)
  BY <1>0, InsertTailOK
<1> HIDE DEF w
<1>4. p = HEAD => M = {}
  <2> SUFFICES ASSUME p = HEAD, M # {} PROVE FALSE
    OBVIOUS
  <2>1. v.list[l].first \in M /\ v.list[l].first = NULL
    BY FirstOfWhole DEF Whole
  <2> QED
    BY <1>1, <2>1
<1>5. \A x \in M2 : Pv(w, l, x) = HEAD => w.list[l].first = x
  <2>1. \A x \in M : Pv(v, l, x) = HEAD => v.list[l].first = x
    BY DEF Whole
  <2> QED
    BY <1>1, <1>2, <1>4, <2>1
<1>6. w.list[l].last # HEAD
  BY <1>1, <1>2
<1>7. \E r \in [Slots -> Nat] : \A x \in M2 : Pv(w, l, x) \in M2 => r[Pv(w, l, x)] < r[x]
  <2>1. PICK r \in [Slots -> Nat] : \A x \in M : Pv(v, l, x) \in M => r[Pv(v, l, x)] < r[x]
    BY DEF Whole
  <2> DEFINE e == IF p = HEAD THEN 0 ELSE r[p] + 1
             t == [x \in Slots |-> IF x = s THEN e ELSE r[x]]
  <2>2. e \in Nat
    BY <1>1, <2>1
  <2>3. t \in [Slots -> Nat]
    BY <2>1, <2>2
  <2>4. t[s] = e /\ \A x \in M : t[x] = r[x]
    BY <1>1
  <2>5. \A x \in M : Pv(v, l, x) # s
    BY <1>0, <1>1 DEF ListOK
  <2>6. ASSUME NEW x \in M2, Pv(w, l, x) \in M2 PROVE t[Pv(w, l, x)] < t[x]
    <3>1. CASE x = s
      <4>1. Pv(w, l, x) = p /\ p \in M
        BY <1>1, <1>2, <2>6, <3>1
      <4>2. t[p] = r[p] /\ e = r[p] + 1 /\ r[p] \in Nat
        BY <1>1, <2>1, <2>4, <4>1
      <4> HIDE DEF t, e
      <4> QED
        BY <2>4, <3>1, <4>1, <4>2
    <3>2. CASE x # s
      <4>1. x \in M /\ Pv(w, l, x) = Pv(v, l, x) /\ Pv(v, l, x) \in M
        BY <1>1, <1>2, <2>5, <2>6, <3>2
      <4> HIDE DEF t
      <4> QED
        BY <2>1, <2>4, <4>1
    <3> QED
      BY <3>1, <3>2
  <2> HIDE DEF t
  <2> QED
    BY <2>3, <2>6
<1> QED
  BY <1>3, <1>5, <1>6, <1>7 DEF Whole, w

(* So does an insertion before the first entry, which the head then points *)
(* to.                                                                     *)
LEMMA InsertBeforeWhole ==
    ASSUME NEW v, NEW l \in Lists, NEW M, NEW s \in Occ(v) \ M, Machine(v), Whole(v, l, M),
           NEW o, o = v.list[l].first, o # NULL
    PROVE  /\ o \in M /\ Pv(v, l, o) = HEAD
           /\ Whole(QTAILQ_INSERT_BEFORE(v, l, o, s), l, M \cup {s})
<1> DEFINE w == QTAILQ_INSERT_BEFORE(v, l, o, s)
           M2 == M \cup {s}
<1>0. ListOK(v, l, M, M, M)
  BY DEF Whole
<1>1. M \subseteq Occ(v) /\ s \notin M /\ s \in Occ(v) /\ s \in Slots /\ M \subseteq Slots
      /\ NULL \notin Occ(v) /\ HEAD \notin Occ(v) /\ NULL # HEAD
  BY <1>0, Pointers DEF ListOK, Occ
<1>2. o \in M /\ Pv(v, l, o) = HEAD
  BY <1>0 DEF ListOK
<1>3. /\ w.list[l].first = s
      /\ w.list[l].last = v.list[l].last
      /\ \A x \in Occ(v) : Pv(w, l, x) = IF x = s THEN HEAD ELSE IF x = o THEN s ELSE Pv(v, l, x)
  <2>1. Pv(v, l, o) \in Occ(v) \cup {HEAD} /\ o \in Occ(v) /\ o # s
    BY <1>1, <1>2
  <2> QED
    BY <1>2, <2>1, InsertBeforeFields
<1>4. ListOK(w, l, M2, M2, M2)
  <2>1. Pv(v, l, o) # NULL
    BY <1>1, <1>2
  <2> QED
    BY <1>0, <1>2, <2>1, InsertBeforeOK
<1> HIDE DEF w
<1>5. \A x \in M2 : Pv(w, l, x) = HEAD => w.list[l].first = x
  <2>1. \A x \in M : Pv(v, l, x) = HEAD => o = x
    BY DEF Whole
  <2> QED
    BY <1>1, <1>2, <1>3, <2>1
<1>6. w.list[l].last # HEAD
  BY <1>1, <1>3 DEF Whole
<1>7. \E r \in [Slots -> Nat] : \A x \in M2 : Pv(w, l, x) \in M2 => r[Pv(w, l, x)] < r[x]
  <2>1. PICK r \in [Slots -> Nat] : \A x \in M : Pv(v, l, x) \in M => r[Pv(v, l, x)] < r[x]
    BY DEF Whole
  <2> DEFINE t == [x \in Slots |-> IF x = s THEN 0 ELSE r[x] + 1]
  <2>2. t \in [Slots -> Nat]
    BY <2>1
  <2>3. t[s] = 0 /\ \A x \in M : t[x] = r[x] + 1 /\ r[x] \in Nat
    BY <1>1, <2>1
  <2>4. \A x \in M : Pv(v, l, x) # s
    BY <1>0, <1>1 DEF ListOK
  <2> HIDE DEF t
  <2>5. ASSUME NEW x \in M2, Pv(w, l, x) \in M2 PROVE t[Pv(w, l, x)] < t[x]
    <3>1. x # s
      BY <1>1, <1>3, <2>5
    <3>2. CASE x = o
      <4>1. Pv(w, l, x) = s
        BY <1>1, <1>2, <1>3, <3>1, <3>2
      <4> QED
        BY <1>2, <2>3, <3>2, <4>1
    <3>3. CASE x # o
      <4>1. x \in M /\ Pv(w, l, x) = Pv(v, l, x) /\ Pv(v, l, x) \in M
        BY <1>1, <1>3, <2>4, <2>5, <3>1, <3>3
      <4>2. r[Pv(v, l, x)] < r[x]
        BY <2>1, <4>1
      <4>3. t[x] = r[x] + 1 /\ t[Pv(v, l, x)] = r[Pv(v, l, x)] + 1 /\ r[x] \in Nat /\ r[Pv(v, l, x)] \in Nat
        BY <2>3, <4>1
      <4> QED
        BY <4>1, <4>2, <4>3
    <3> QED
      BY <3>2, <3>3
  <2> QED
    BY <2>2, <2>5
<1> QED
  BY <1>2, <1>4, <1>5, <1>6, <1>7 DEF Whole, w

(* So does a removal.                                                      *)
LEMMA RemoveWhole ==
    ASSUME NEW v, NEW l \in Lists, NEW M, NEW s \in M, Machine(v), Whole(v, l, M)
    PROVE  Whole(QTAILQ_REMOVE(v, l, s), l, M \ {s})
<1> DEFINE w == QTAILQ_REMOVE(v, l, s)
           n == Nx(v, l, s)
           q == Pv(v, l, s)
           M2 == M \ {s}
<1>0. ListOK(v, l, M, M, M)
  BY DEF Whole
<1>1. M \subseteq Occ(v) /\ s \in Occ(v) /\ M \subseteq Slots
      /\ NULL \notin Occ(v) /\ HEAD \notin Occ(v) /\ NULL # HEAD
      /\ n \in M \cup {NULL} /\ q \in M \cup {HEAD}
  BY <1>0, Pointers DEF ListOK, Occ
<1>2. /\ w.list[l].first = IF q = HEAD THEN n ELSE v.list[l].first
      /\ w.list[l].last = IF n = NULL THEN q ELSE v.list[l].last
      /\ \A x \in Occ(v) : Pv(w, l, x) = IF x = n THEN q ELSE Pv(v, l, x)
  <2>1. n \in Occ(v) \cup {NULL} /\ q \in Occ(v) \cup {HEAD}
    BY <1>1
  <2> QED
    BY <1>1, <2>1, RemoveFields
<1>3. ListOK(w, l, M2, M2, M2)
  BY <1>0, RemoveOK
<1>4. \A x \in M : Pv(v, l, x) = s => x = n
  BY <1>0 DEF ListOK
<1>5. n \in M => Pv(v, l, n) = s
  BY <1>0 DEF ListOK
<1> HIDE DEF w, n
<1>6. \A x \in M2 : Pv(w, l, x) = HEAD => w.list[l].first = x
  <2>1. \A x \in M : Pv(v, l, x) = HEAD => v.list[l].first = x
    BY DEF Whole
  <2> QED
    BY <1>1, <1>2, <2>1
<1>7. w.list[l].last = HEAD => w.list[l].first = NULL
  <2>1. v.list[l].last # HEAD
    BY <1>1, FirstOfWhole DEF Whole
  <2> QED
    BY <1>1, <1>2, <2>1
<1>8. \E r \in [Slots -> Nat] : \A x \in M2 : Pv(w, l, x) \in M2 => r[Pv(w, l, x)] < r[x]
  <2>1. PICK r \in [Slots -> Nat] : \A x \in M : Pv(v, l, x) \in M => r[Pv(v, l, x)] < r[x]
    BY DEF Whole
  <2>2. ASSUME NEW x \in M2, Pv(w, l, x) \in M2 PROVE r[Pv(w, l, x)] < r[x]
    <3>1. CASE x = n
      <4>1. Pv(w, l, x) = q /\ q \in M /\ r[q] < r[s]
        BY <1>1, <1>2, <2>1, <2>2, <3>1
      <4>2. r[s] < r[x]
        BY <1>5, <2>1, <3>1
      <4>3. r[q] \in Nat /\ r[s] \in Nat /\ r[x] \in Nat
        BY <1>1, <2>1, <4>1
      <4> HIDE DEF q
      <4> QED
        BY <4>1, <4>2, <4>3
    <3>2. CASE x # n
      BY <1>1, <1>2, <2>1, <2>2, <3>2
    <3> QED
      BY <3>1, <3>2
  <2> QED
    BY <2>1, <2>2
<1> QED
  BY <1>3, <1>6, <1>7, <1>8 DEF Whole, w

(* A list depends on its head and its own links only.                      *)
SameList(v, w, l, M) ==
    M \subseteq Occ(w) /\ w.list[l] = v.list[l] /\ \A x \in M : Cell(w, x, l) = Cell(v, x, l)

(* What does not touch the links of a list keeps it as good as it was ...  *)
LEMMA SameListOK ==
    ASSUME NEW v, NEW w, NEW l, NEW M, NEW On, NEW Tr, SameList(v, w, l, M), ListOK(v, l, M, On, Tr)
    PROVE  ListOK(w, l, M, On, Tr)
<1>1. \A x \in M : Nx(w, l, x) = Nx(v, l, x) /\ Pv(w, l, x) = Pv(v, l, x)
  BY DEF SameList, Nx, Pv, Cell
<1>2. w.list[l] = v.list[l] /\ M \subseteq Occ(w)
  BY DEF SameList
<1> QED
  BY <1>1, <1>2 DEF ListOK

(* ... and whole.                                                          *)
LEMMA SameWhole ==
    ASSUME NEW v, NEW w, NEW l, NEW M, SameList(v, w, l, M), Whole(v, l, M)
    PROVE  Whole(w, l, M)
<1>1. \A x \in M : Pv(w, l, x) = Pv(v, l, x)
  BY DEF SameList, Pv, Cell
<1>2. w.list[l] = v.list[l]
  BY DEF SameList
<1>3. ListOK(w, l, M, M, M)
  BY SameListOK DEF Whole
<1>4. \A s \in M : Pv(w, l, s) = HEAD => w.list[l].first = s
  BY <1>1, <1>2 DEF Whole
<1>5. w.list[l].last = HEAD => w.list[l].first = NULL
  BY <1>2 DEF Whole
<1>6. \E r \in [Slots -> Nat] : \A s \in M : Pv(w, l, s) \in M => r[Pv(w, l, s)] < r[s]
  <2>1. PICK r \in [Slots -> Nat] : \A s \in M : Pv(v, l, s) \in M => r[Pv(v, l, s)] < r[s]
    BY DEF Whole
  <2> QED
    BY <1>1, <2>1
<1> QED
  BY <1>3, <1>4, <1>5, <1>6 DEF Whole

(* Fewer instances may be removed, fewer back links matter.                *)
LEMMA FewerOn ==
    ASSUME NEW v, NEW l, NEW M, NEW On, NEW Tr, ListOK(v, l, M, On, Tr), NEW A, NEW B,
           A \subseteq B, B \subseteq Tr, A \subseteq On
    PROVE  ListOK(v, l, M, A, B)
BY DEF ListOK

(* A walk does not leave the list.                                         *)
LEMMA ChainInside ==
    ASSUME NEW v, NEW l, NEW M, NEW On, NEW Tr, ListOK(v, l, M, On, Tr)
    PROVE  Chain(v, l) \subseteq M
<1>1. M \in SUBSET Slots
  BY DEF ListOK, Occ
<1>2. Walked(v, l, M)
  BY DEF Walked, ListOK, Nx
<1> QED
  BY <1>1, <1>2 DEF Chain

-----------------------------------------------------------------------------
(* Memory regions                                                          *)

(* w is v except for the cells in C.                                       *)
Alike(v, w, C) ==
    /\ Machine(w) /\ Occ(w) = Occ(v) /\ w.list = v.list
    /\ \A x \in Occ(v) : /\ w.devices[x].uid = v.devices[x].uid /\ w.devices[x].name = v.devices[x].name
                         /\ \A c \in Cells \ C : Cell(w, x, c) = Cell(v, x, c)

PutCell(v, s, c, e) == [v EXCEPT !.devices[s].mem[c] = e]

(* What writing one flag of an instance changes.                           *)
LEMMA PutCellFields ==
    ASSUME NEW v, Machine(v), NEW s \in Occ(v),
           NEW c \in {REALIZED, BAR0, BUS_MASTER, PARENT}, NEW e \in BOOLEAN
    PROVE  LET w == PutCell(v, s, c, e) IN
           /\ Alike(v, w, {c})
           /\ w.config = v.config /\ w.mmio = v.mmio /\ w.dma = v.dma /\ w.status = v.status
           /\ \A x \in Occ(v) : Cell(w, x, c) = IF x = s THEN e ELSE Cell(v, x, c)
<1> DEFINE m == [v.devices[s].mem EXCEPT ![c] = e]
           w == PutMem(v, s, m)
<1>1. s \in Slots /\ IsDev(v.devices[s]) /\ Occ(v) \subseteq Slots
  BY DEF Occ, Machine
<1>2. PutCell(v, s, c, e) = w
  BY <1>1 DEF Machine, IsDev, PutMem, Vm, PutCell
<1>3. c \in Cells /\ c \notin Lists /\ Lists \subseteq Cells /\ {REALIZED, BAR0, BUS_MASTER, PARENT} \subseteq Cells
  BY CellNames
<1>4. m[c] = e /\ \A k \in Cells \ {c} : m[k] = Cell(v, s, k)
  BY <1>1, <1>3 DEF IsDev, IsMem, Cell
<1>5. IsMem(m)
  <2>1. m = [k \in Cells |-> m[k]]
    BY <1>1 DEF IsDev, IsMem
  <2> HIDE DEF m
  <2>2. \A k \in {REALIZED, BAR0, BUS_MASTER, PARENT} : m[k] \in BOOLEAN
    BY <1>1, <1>3, <1>4 DEF IsDev, IsMem, Cell
  <2>3. \A k \in Lists : m[k] = [next |-> m[k].next, prev |-> m[k].prev]
    BY <1>1, <1>3, <1>4 DEF IsDev, IsMem, Cell
  <2> QED
    BY <2>1, <2>2, <2>3 DEF IsMem
<1> HIDE DEF m
<1>6. /\ Machine(w) /\ Occ(w) = Occ(v)
      /\ w.config = v.config /\ w.list = v.list /\ w.mmio = v.mmio /\ w.dma = v.dma
      /\ w.status = v.status
      /\ \A x \in Slots : x # s => w.devices[x] = v.devices[x]
      /\ w.devices[s].uid = v.devices[s].uid /\ w.devices[s].name = v.devices[s].name
      /\ w.devices[s].mem = m
  BY <1>5, PutMemFields
<1> HIDE DEF w
<1>7. Alike(v, w, {c})
  BY <1>1, <1>4, <1>6 DEF Alike, Cell
<1>8. \A x \in Occ(v) : Cell(w, x, c) = IF x = s THEN e ELSE Cell(v, x, c)
  BY <1>1, <1>4, <1>6 DEF Cell
<1> QED
  BY <1>2, <1>6, <1>7, <1>8

(* The guest's memory map after a commit: the mapped BARs with a parent;   *)
(* every device on address_spaces has its bus mastering in effect.         *)
LEMMA CommitFields ==
    ASSUME NEW v, Machine(v), v.status = "ok", NEW A, NEW B, NEW D, ListOK(v, AS_LINK, A, B, D)
    PROVE  LET w == Commit(v) IN
           /\ Alike(v, w, {}) /\ w.devices = v.devices /\ w.config = v.config /\ w.status = v.status
           /\ \A s \in Slots :
                /\ w.mmio[s] = (s \in Chain(v, MMIO_LINK) /\ Cell(v, s, PARENT))
                /\ w.dma[s] = IF s \in Chain(v, AS_LINK) THEN Cell(v, s, BUS_MASTER) ELSE v.dma[s]
<1> DEFINE X == [s \in Slots |-> s \in Chain(v, MMIO_LINK) /\ v.devices[s].mem[PARENT]]
           Y == [s \in Slots |-> IF s \in Chain(v, AS_LINK) THEN v.devices[s].mem[BUS_MASTER] ELSE v.dma[s]]
           w == Vm(v.devices, v.config, v.list, X, Y, v.status)
<1>1. Commit(v) = w
  BY DEF Commit, Machine, Vm
<1>2. X \in [Slots -> BOOLEAN]
  OBVIOUS
<1>3. Y \in [Slots -> BOOLEAN]
  <2>0. A \subseteq Occ(v)
    BY DEF ListOK
  <2>1. Chain(v, AS_LINK) \subseteq Occ(v)
    BY <2>0, ChainInside
  <2>2. \A s \in Occ(v) : v.devices[s].mem[BUS_MASTER] \in BOOLEAN
    BY DEF Machine, IsDev, IsMem
  <2>3. \A s \in Slots : v.dma[s] \in BOOLEAN
    BY DEF Machine
  <2> QED
    BY <2>1, <2>2, <2>3
<1>4. \A s \in Slots :
        /\ X[s] = (s \in Chain(v, MMIO_LINK) /\ Cell(v, s, PARENT))
        /\ Y[s] = IF s \in Chain(v, AS_LINK) THEN Cell(v, s, BUS_MASTER) ELSE v.dma[s]
  BY DEF Cell
<1> HIDE DEF X, Y
<1>5. Machine(w)
  <2>1. /\ v.devices = [s \in Slots |-> v.devices[s]] /\ v.config = [s \in Slots |-> v.config[s]]
        /\ \A s \in Slots : v.devices[s] # NoDevice => IsDev(v.devices[s])
        /\ v.list = [l \in Lists |-> v.list[l]]
        /\ \A l \in Lists : v.list[l] = [first |-> v.list[l].first, last |-> v.list[l].last]
    BY Unbuild
  <2> QED
    BY <1>2, <1>3, <2>1, Build
<1>6. /\ w.devices = v.devices /\ w.config = v.config /\ w.list = v.list
      /\ w.mmio = X /\ w.dma = Y /\ w.status = v.status
  BY VmFields
<1> HIDE DEF w
<1>7. Alike(v, w, {})
  BY <1>5, <1>6 DEF Alike, Occ, Cell
<1> QED
  BY <1>1, <1>4, <1>6, <1>7

(* w is v except for the cells in C and what a commit makes anew.          *)
Rest(v, w, C) ==
    /\ Machine(w) /\ Occ(w) = Occ(v) /\ w.config = v.config
    /\ \A x \in Occ(v) : /\ w.devices[x].uid = v.devices[x].uid /\ w.devices[x].name = v.devices[x].name
                         /\ \A c \in Cells \ C : Cell(w, x, c) = Cell(v, x, c)

(* The wiring with the BARs in M mapped, k saying whether it is intact;    *)
(* and the same before the commit.                                         *)
Ok(v, M, k) == Loose(v, M) /\ (k => Wired(v, M))

Ready(v, M, k) ==
    /\ Loose(v, M)
    /\ k => /\ Whole(v, MMIO_LINK, M) /\ Whole(v, AS_LINK, Occ(v))
            /\ \A s \in Occ(v) : Cell(v, s, PARENT) = (s \in M)

(* Both lists of a machine that has the lists and flags of another.        *)
LEMMA SameLoose ==
    ASSUME NEW v, NEW w, NEW M, Loose(v, M), Machine(w), Occ(w) = Occ(v), w.list = v.list,
           \A x \in Occ(v) : \A c \in {REALIZED, PARENT, MMIO_LINK, AS_LINK} : Cell(w, x, c) = Cell(v, x, c)
    PROVE  /\ Loose(w, M)
           /\ Whole(v, MMIO_LINK, M) => Whole(w, MMIO_LINK, M)
           /\ Whole(v, AS_LINK, Occ(v)) => Whole(w, AS_LINK, Occ(w))
<1>1. M \subseteq Occ(v)
  BY DEF Loose, ListOK
<1>2. SameList(v, w, MMIO_LINK, M) /\ SameList(v, w, AS_LINK, Occ(v))
  BY <1>1 DEF SameList
<1>3. /\ With(w, M, PARENT) = With(v, M, PARENT)
      /\ With(w, Occ(w), PARENT) = With(v, Occ(v), PARENT)
      /\ With(w, Occ(w), REALIZED) = With(v, Occ(v), REALIZED)
  BY <1>1 DEF With
<1>4. ListOK(w, MMIO_LINK, M, With(w, M, PARENT), M)
  BY <1>2, <1>3, SameListOK DEF Loose
<1>5. ListOK(w, AS_LINK, Occ(w), With(w, Occ(w), REALIZED), With(w, Occ(w), REALIZED))
  BY <1>2, <1>3, SameListOK DEF Loose
<1>6. Loose(w, M)
  BY <1>3, <1>4, <1>5 DEF Loose
<1>7. Whole(v, MMIO_LINK, M) => Whole(w, MMIO_LINK, M)
  BY <1>2, SameWhole
<1>8. Whole(v, AS_LINK, Occ(v)) => Whole(w, AS_LINK, Occ(w))
  BY <1>2, SameWhole
<1> QED
  BY <1>6, <1>7, <1>8

(* Writing what is not wiring leaves the wiring.                           *)
LEMMA KeepsOk ==
    ASSUME NEW v, NEW w, NEW M, NEW k, Ok(v, M, k), Machine(w), Occ(w) = Occ(v),
           w.list = v.list, w.mmio = v.mmio, w.dma = v.dma,
           \A x \in Occ(v) : \A c \in {REALIZED, PARENT, BUS_MASTER, MMIO_LINK, AS_LINK} :
                                Cell(w, x, c) = Cell(v, x, c)
    PROVE  Ok(w, M, k)
<1>1. Loose(v, M)
  BY DEF Ok
<1>2. /\ Loose(w, M)
      /\ Whole(v, MMIO_LINK, M) => Whole(w, MMIO_LINK, M)
      /\ Whole(v, AS_LINK, Occ(v)) => Whole(w, AS_LINK, Occ(w))
  BY <1>1, SameLoose
<1>3. ASSUME k PROVE Wired(w, M)
  <2>1. Wired(v, M)
    BY <1>3 DEF Ok
  <2>2. Whole(w, MMIO_LINK, M) /\ Whole(w, AS_LINK, Occ(w))
    BY <1>2, <2>1 DEF Wired
  <2>3. \A s \in Occ(w) : /\ Cell(w, s, PARENT) = (s \in M)
                          /\ w.mmio[s] = (s \in M)
                          /\ w.dma[s] = Cell(w, s, BUS_MASTER)
    BY <2>1 DEF Wired
  <2> QED
    BY <2>2, <2>3 DEF Wired
<1> QED
  BY <1>2, <1>3 DEF Ok

(* A commit of the memory regions: it succeeds, and the flags and the      *)
(* lists agree afterwards.                                                 *)
LEMMA CommitOk ==
    ASSUME NEW v, NEW M, NEW k, Ready(v, M, k), v.status = "ok"
    PROVE  LET w == Commit(v) IN
           /\ Ok(w, M, k) /\ Rest(v, w, {}) /\ w.status = "ok" /\ w.list = v.list
<1> DEFINE w == Commit(v)
<1>1. Loose(v, M) /\ Machine(v)
  BY DEF Ready, Loose
<1>2. PICK A, B, D : ListOK(v, AS_LINK, A, B, D)
  BY <1>1 DEF Loose
<1>3. /\ Alike(v, w, {}) /\ w.devices = v.devices /\ w.config = v.config /\ w.status = v.status
      /\ \A s \in Slots :
            /\ w.mmio[s] = (s \in Chain(v, MMIO_LINK) /\ Cell(v, s, PARENT))
            /\ w.dma[s] = IF s \in Chain(v, AS_LINK) THEN Cell(v, s, BUS_MASTER) ELSE v.dma[s]
  BY <1>1, <1>2, CommitFields
<1> HIDE DEF w
<1>4. Machine(w) /\ Occ(w) = Occ(v) /\ w.list = v.list
  BY <1>3 DEF Alike
<1>5. \A x, c : Cell(w, x, c) = Cell(v, x, c)
  BY <1>3 DEF Cell
<1>6. /\ Loose(w, M)
      /\ Whole(v, MMIO_LINK, M) => Whole(w, MMIO_LINK, M)
      /\ Whole(v, AS_LINK, Occ(v)) => Whole(w, AS_LINK, Occ(w))
  BY <1>1, <1>4, <1>5, SameLoose
<1>7. ASSUME k PROVE Wired(w, M)
  <2>1. /\ Whole(v, MMIO_LINK, M) /\ Whole(v, AS_LINK, Occ(v))
        /\ \A s \in Occ(v) : Cell(v, s, PARENT) = (s \in M)
    BY <1>7 DEF Ready
  <2>2. Chain(v, MMIO_LINK) = M /\ Chain(v, AS_LINK) = Occ(v)
    BY <2>1, WholeChain
  <2>3. Occ(v) \subseteq Slots
    BY DEF Occ
  <2>4. \A s \in Occ(w) : /\ Cell(w, s, PARENT) = (s \in M)
                          /\ w.mmio[s] = (s \in M)
                          /\ w.dma[s] = Cell(w, s, BUS_MASTER)
    <3> TAKE s \in Occ(w)
    <3>1. s \in Slots /\ s \in Occ(v)
      BY <1>4, <2>3
    <3>2. Cell(w, s, PARENT) = (s \in M)
      BY <1>5, <2>1, <3>1, Zenon
    <3>3. w.mmio[s] = (s \in M /\ Cell(v, s, PARENT))
      BY <1>3, <2>2, <3>1, Zenon
    <3>4. w.mmio[s] = (s \in M)
      <4>0. Cell(v, s, PARENT) = (s \in M)
        BY <2>1, <3>1, Zenon
      <4>2. s \in M => Cell(v, s, PARENT)
        BY <4>0, Zenon
      <4>1. (s \in M /\ Cell(v, s, PARENT)) = (s \in M)
        BY <4>2
      <4> QED
        BY <3>3, <4>1, Zenon
    <3>5. w.dma[s] = Cell(w, s, BUS_MASTER)
      BY <1>3, <1>5, <2>2, <3>1
    <3> QED
      BY <3>2, <3>4, <3>5
  <2> QED
    BY <1>6, <2>1, <2>4 DEF Wired
<1>8. Rest(v, w, {})
  BY <1>3, <1>4, <1>5 DEF Rest
<1> QED
  BY <1>3, <1>4, <1>6, <1>7, <1>8 DEF Ok, w

(* The list, the flags and the rest, after an operation on the list        *)
(* MMIO_LINK of a machine whose PARENT flags were set for it.              *)
LEMMA Rewired ==
    ASSUME NEW v, NEW u, NEW w, NEW M, NEW N, NEW k, NEW s \in Occ(v), NEW e \in BOOLEAN,
           Ok(v, M, k), v.status = "ok",
           u = PutCell(v, s, PARENT, e), KeepsBut(u, w, MMIO_LINK),
           N = IF e THEN M \cup {s} ELSE M \ {s},
           ListOK(w, MMIO_LINK, N, IF e THEN With(v, M, PARENT) \cup {s} ELSE With(v, M, PARENT) \ {s}, N),
           k => Whole(w, MMIO_LINK, N)
    PROVE  Ready(w, N, k) /\ Rest(v, w, {PARENT, MMIO_LINK}) /\ w.status = "ok"
<1>1. Machine(v) /\ Loose(v, M)
  BY DEF Ok, Loose
<1>2. PARENT \in Cells /\ PARENT \notin Lists /\ REALIZED \in Cells /\ REALIZED # PARENT
      /\ AS_LINK \in Lists /\ MMIO_LINK \in Lists /\ AS_LINK # MMIO_LINK /\ Lists \subseteq Cells
      /\ REALIZED \notin Lists
  BY CellNames
<1>3. /\ Alike(v, u, {PARENT})
      /\ u.config = v.config /\ u.mmio = v.mmio /\ u.dma = v.dma /\ u.status = v.status
      /\ \A x \in Occ(v) : Cell(u, x, PARENT) = IF x = s THEN e ELSE Cell(v, x, PARENT)
  BY <1>1, PutCellFields
<1>4. /\ Occ(u) = Occ(v) /\ u.list = v.list
      /\ \A x \in Occ(v) : /\ u.devices[x].uid = v.devices[x].uid /\ u.devices[x].name = v.devices[x].name
                           /\ \A c \in Cells \ {PARENT} : Cell(u, x, c) = Cell(v, x, c)
  BY <1>3 DEF Alike
<1>5. /\ Machine(w) /\ Occ(w) = Occ(v) /\ w.config = v.config /\ w.status = "ok"
      /\ w.list[AS_LINK] = v.list[AS_LINK]
      /\ \A x \in Occ(v) : /\ w.devices[x].uid = v.devices[x].uid /\ w.devices[x].name = v.devices[x].name
                           /\ \A c \in Cells \ {PARENT, MMIO_LINK} : Cell(w, x, c) = Cell(v, x, c)
                           /\ Cell(w, x, PARENT) = IF x = s THEN e ELSE Cell(v, x, PARENT)
  BY <1>2, <1>3, <1>4 DEF KeepsBut
<1>6. Rest(v, w, {PARENT, MMIO_LINK})
  BY <1>5 DEF Rest
<1>7. SameList(v, w, AS_LINK, Occ(v))
  BY <1>2, <1>5 DEF SameList
<1>8. With(w, Occ(w), REALIZED) = With(v, Occ(v), REALIZED)
  BY <1>2, <1>5 DEF With
<1>9. ListOK(w, AS_LINK, Occ(w), With(w, Occ(w), REALIZED), With(w, Occ(w), REALIZED))
  BY <1>1, <1>5, <1>7, <1>8, SameListOK DEF Loose
<1>10. M \subseteq Occ(v) /\ With(v, Occ(v), PARENT) \subseteq M
  BY <1>1 DEF Loose, ListOK
<1>11. With(w, Occ(w), PARENT) \subseteq N
  <2>1. SUFFICES ASSUME NEW x \in Occ(v), Cell(w, x, PARENT) PROVE x \in N
    BY <1>5 DEF With
  <2>2. CASE x = s
    BY <1>5, <2>1, <2>2
  <2>3. CASE x # s
    BY <1>5, <1>10, <2>1, <2>3 DEF With
  <2> QED
    BY <2>2, <2>3
<1>12. With(w, N, PARENT) = IF e THEN With(v, M, PARENT) \cup {s} ELSE With(v, M, PARENT) \ {s}
  <2>1. CASE e
    BY <1>5, <1>10, <2>1 DEF With
  <2>2. CASE ~e
    BY <1>5, <1>10, <2>2 DEF With
  <2> QED
    BY <2>1, <2>2
<1>13. Loose(w, N)
  BY <1>5, <1>9, <1>11, <1>12 DEF Loose
<1>14. ASSUME k PROVE /\ Whole(w, MMIO_LINK, N) /\ Whole(w, AS_LINK, Occ(w))
                      /\ \A x \in Occ(w) : Cell(w, x, PARENT) = (x \in N)
  <2>1. Wired(v, M)
    BY <1>14 DEF Ok
  <2>2. Whole(w, AS_LINK, Occ(w))
    BY <1>5, <1>7, <2>1, SameWhole DEF Wired
  <2>3. ASSUME NEW x \in Occ(w) PROVE Cell(w, x, PARENT) = (x \in N)
    <3>1. CASE x = s
      <4>1. Cell(w, x, PARENT) = e
        BY <1>5, <2>3, <3>1
      <4>2. e = (x \in N)
        BY <3>1
      <4> QED
        BY <4>1, <4>2, Zenon
    <3>2. CASE x # s
      <4>1. Cell(w, x, PARENT) = Cell(v, x, PARENT)
        BY <1>5, <2>3, <3>2
      <4>2. Cell(v, x, PARENT) = (x \in M)
        BY <1>5, <2>1, <2>3, Zenon DEF Wired
      <4>3. (x \in M) = (x \in N)
        BY <3>2
      <4> QED
        BY <4>1, <4>2, <4>3, Zenon
    <3> QED
      BY <3>1, <3>2
  <2> QED
    BY <1>14, <2>2, <2>3
<1> QED
  BY <1>5, <1>6, <1>13, <1>14 DEF Ready

(* Mapping a BAR: no assertion fails, and a pointer that a flip cleared is *)
(* followed only if there was such a flip.                                 *)
LEMMA AddSubregion ==
    ASSUME NEW v, NEW M, NEW k, NEW s \in Occ(v) \ M, Ok(v, M, k), v.status = "ok"
    PROVE  LET w == memory_region_add_subregion(v, s) IN
           /\ k => w.status = "ok"
           /\ w.status = "ok" => Ok(w, M \cup {s}, k) /\ Rest(v, w, {PARENT, MMIO_LINK})
<1> DEFINE u == PutCell(v, s, PARENT, TRUE)
           first == v.list[MMIO_LINK].first
           q == IF first = NULL THEN QTAILQ_INSERT_TAIL(u, MMIO_LINK, s)
                ELSE QTAILQ_INSERT_BEFORE(u, MMIO_LINK, first, s)
           w == memory_region_add_subregion(v, s)
<1>1. Machine(v) /\ Loose(v, M)
  BY DEF Ok, Loose
<1>2. ~Cell(v, s, PARENT)
  BY <1>1 DEF Loose, With
<1>3. w = Commit(q)
  BY <1>2 DEF memory_region_add_subregion, Cell, PutCell
<1>4. /\ Alike(v, u, {PARENT})
      /\ u.config = v.config /\ u.mmio = v.mmio /\ u.dma = v.dma /\ u.status = v.status
  BY <1>1, PutCellFields
<1>5. /\ Machine(u) /\ Occ(u) = Occ(v) /\ u.list = v.list
      /\ \A x \in Occ(v) : \A c \in Cells \ {PARENT} : Cell(u, x, c) = Cell(v, x, c)
  BY <1>4 DEF Alike
<1>6. ListOK(v, MMIO_LINK, M, With(v, M, PARENT), M) /\ M \subseteq Occ(v)
  BY <1>1 DEF Loose, ListOK
<1>7. MMIO_LINK \in Lists /\ MMIO_LINK \in Cells /\ MMIO_LINK # PARENT
  BY CellNames
<1>8. SameList(v, u, MMIO_LINK, M)
  BY <1>5, <1>6, <1>7 DEF SameList
<1>9. ListOK(u, MMIO_LINK, M, With(v, M, PARENT), M)
  BY <1>6, <1>8, SameListOK
<1>10. k => Whole(u, MMIO_LINK, M)
  BY <1>8, SameWhole DEF Ok, Wired
<1> HIDE DEF w
<1>11. ASSUME KeepsBut(u, q, MMIO_LINK),
              ListOK(q, MMIO_LINK, M \cup {s}, With(v, M, PARENT) \cup {s}, M \cup {s}),
              k => Whole(q, MMIO_LINK, M \cup {s})
       PROVE  w.status = "ok" /\ Ok(w, M \cup {s}, k) /\ Rest(v, w, {PARENT, MMIO_LINK})
  <2> HIDE DEF q
  <2>0. u = PutCell(v, s, PARENT, TRUE)
    OBVIOUS
  <2> HIDE DEF u
  <2>1. Ready(q, M \cup {s}, k) /\ Rest(v, q, {PARENT, MMIO_LINK}) /\ q.status = "ok"
    BY <1>11, <2>0, Rewired
  <2>2. Ok(w, M \cup {s}, k) /\ Rest(q, w, {}) /\ w.status = "ok"
    BY <1>3, <2>1, CommitOk
  <2>3. Rest(v, w, {PARENT, MMIO_LINK})
    BY <2>1, <2>2 DEF Rest
  <2> QED
    BY <2>2, <2>3
<1>12. CASE first = NULL
  <2>1. q = QTAILQ_INSERT_TAIL(u, MMIO_LINK, s)
    BY <1>12
  <2>2. s \in Occ(u) \ M
    BY <1>5
  <2> HIDE DEF q, u
  <2>3. /\ KeepsBut(u, q, MMIO_LINK)
        /\ ListOK(q, MMIO_LINK, M \cup {s}, With(v, M, PARENT) \cup {s}, M \cup {s})
    BY <1>5, <1>7, <1>9, <2>1, <2>2, InsertTailOK
  <2>4. k => Whole(q, MMIO_LINK, M \cup {s})
    BY <1>5, <1>7, <1>10, <2>1, <2>2, InsertTailWhole
  <2> QED
    BY <1>11, <2>3, <2>4 DEF w
<1>13. CASE first # NULL
  <2>1. q = QTAILQ_INSERT_BEFORE(u, MMIO_LINK, first, s) /\ u.list[MMIO_LINK].first = first
    BY <1>5, <1>13
  <2>2. s \in Occ(u) \ M
    BY <1>5
  <2>3. first \in M
    BY <1>6, <1>13 DEF ListOK
  <2> HIDE DEF q, u, first
  <2>4. k => /\ Pv(u, MMIO_LINK, first) = HEAD
             /\ Whole(q, MMIO_LINK, M \cup {s})
    BY <1>5, <1>7, <1>10, <1>13, <2>1, <2>2, InsertBeforeWhole
  <2>5. CASE Pv(u, MMIO_LINK, first) # NULL
    <3>1. /\ KeepsBut(u, q, MMIO_LINK)
          /\ ListOK(q, MMIO_LINK, M \cup {s}, With(v, M, PARENT) \cup {s}, M \cup {s})
      BY <1>5, <1>7, <1>9, <2>1, <2>2, <2>3, <2>5, InsertBeforeOK
    <3> QED
      BY <1>11, <2>4, <3>1 DEF w
  <2>6. CASE Pv(u, MMIO_LINK, first) = NULL
    <3>1. ~k
      BY <2>4, <2>6, Pointers
    <3>2. q.status = "crashed"
      <4> DEFINE a == [u EXCEPT !.devices[s].mem[MMIO_LINK] =
                                    [next |-> first, prev |-> Pv(u, MMIO_LINK, first)],
                                !.devices[first].mem[MMIO_LINK].prev = s]
      <4>1. q = SetNext(a, MMIO_LINK, Pv(u, MMIO_LINK, first), s)
        BY <2>1 DEF QTAILQ_INSERT_BEFORE, Pv
      <4>2. a = Vm(a.devices, a.config, a.list, a.mmio, a.dma, a.status)
        <5> DEFINE z == PutLink(u, MMIO_LINK, s, first, Pv(u, MMIO_LINK, first))
        <5>1. KeepsBut(u, z, MMIO_LINK)
          BY <1>5, <1>7, <2>2, PutLinkFields
        <5>2. Machine(z)
          BY <5>1 DEF KeepsBut
        <5>3. a = [z EXCEPT !.devices[first].mem[MMIO_LINK].prev = s]
          BY DEF PutLink
        <5> HIDE DEF z
        <5> DEFINE D == [z.devices EXCEPT ![first].mem[MMIO_LINK].prev = s]
        <5>4. z = Vm(z.devices, z.config, z.list, z.mmio, z.dma, z.status)
          BY <5>2, Unbuild
        <5>5. a = [z EXCEPT !.devices = D]
          BY <5>3
        <5> HIDE DEF D, a
        <5>6. a = Vm(D, z.config, z.list, z.mmio, z.dma, z.status)
          BY <5>4, <5>5 DEF Vm
        <5> QED
          BY <5>6 DEF Vm
      <4> HIDE DEF a
      <4>3. q = [a EXCEPT !.status = "crashed"]
        BY <2>6, <4>1, Pointers DEF SetNext
      <4> QED
        BY <4>2, <4>3 DEF Vm
    <3>3. w.status # "ok"
      BY <1>3, <3>2 DEF Commit
    <3> QED
      BY <3>1, <3>3 DEF w
  <2> QED
    BY <2>5, <2>6
<1> QED
  BY <1>12, <1>13

(* Unmapping a BAR: the assertion on mr->parent fails only after a flip.   *)
LEMMA DelSubregion ==
    ASSUME NEW v, NEW M, NEW k, NEW s \in M, Ok(v, M, k), v.status = "ok"
    PROVE  LET w == memory_region_del_subregion(v, s) IN
           /\ k => w.status = "ok"
           /\ w.status = "ok" => Ok(w, M \ {s}, k) /\ Rest(v, w, {PARENT, MMIO_LINK})
<1> DEFINE u == PutCell(v, s, PARENT, FALSE)
           q == QTAILQ_REMOVE(u, MMIO_LINK, s)
           w == memory_region_del_subregion(v, s)
<1>1. Machine(v) /\ Loose(v, M)
  BY DEF Ok, Loose
<1>2. ListOK(v, MMIO_LINK, M, With(v, M, PARENT), M) /\ M \subseteq Occ(v)
  BY <1>1 DEF Loose, ListOK
<1>3. CASE ~Cell(v, s, PARENT)
  <2>1. w = [v EXCEPT !.status = "aborted"]
    BY <1>3 DEF memory_region_del_subregion, Cell
  <2>2. w.status = "aborted"
    BY <1>1, <2>1 DEF Machine
  <2>3. ~k
    <3>1. Wired(v, M) => Cell(v, s, PARENT) = (s \in M)
      BY <1>2, Zenon DEF Wired
    <3>2. Wired(v, M) => Cell(v, s, PARENT)
      BY <3>1, Zenon
    <3> QED
      BY <1>3, <3>2 DEF Ok
  <2> QED
    BY <2>2, <2>3
<1>4. CASE Cell(v, s, PARENT)
  <2>1. w = Commit(q)
    BY <1>4 DEF memory_region_del_subregion, Cell, PutCell
  <2>2. /\ Alike(v, u, {PARENT})
        /\ u.config = v.config /\ u.mmio = v.mmio /\ u.dma = v.dma /\ u.status = v.status
    BY <1>1, <1>2, PutCellFields
  <2>3. /\ Machine(u) /\ Occ(u) = Occ(v) /\ u.list = v.list
        /\ \A x \in Occ(v) : \A c \in Cells \ {PARENT} : Cell(u, x, c) = Cell(v, x, c)
    BY <2>2 DEF Alike
  <2>4. MMIO_LINK \in Lists /\ MMIO_LINK \in Cells /\ MMIO_LINK # PARENT
    BY CellNames
  <2>5. SameList(v, u, MMIO_LINK, M)
    BY <1>2, <2>3, <2>4 DEF SameList
  <2>6. ListOK(u, MMIO_LINK, M, With(v, M, PARENT), M)
    BY <1>2, <2>5, SameListOK
  <2>7. k => Whole(u, MMIO_LINK, M)
    BY <2>5, SameWhole DEF Ok, Wired
  <2>8. s \in With(v, M, PARENT)
    BY <1>4 DEF With
  <2>9. u = PutCell(v, s, PARENT, FALSE) /\ q = QTAILQ_REMOVE(u, MMIO_LINK, s)
    OBVIOUS
  <2> HIDE DEF u, q
  <2>10. /\ KeepsBut(u, q, MMIO_LINK)
         /\ ListOK(q, MMIO_LINK, M \ {s}, With(v, M, PARENT) \ {s}, M \ {s})
    BY <2>3, <2>4, <2>6, <2>8, <2>9, RemoveOK
  <2>11. k => Whole(q, MMIO_LINK, M \ {s})
    BY <2>3, <2>4, <2>7, <2>9, RemoveWhole
  <2>12. Ready(q, M \ {s}, k) /\ Rest(v, q, {PARENT, MMIO_LINK}) /\ q.status = "ok"
    BY <1>2, <2>9, <2>10, <2>11, Rewired
  <2> HIDE DEF w
  <2>13. Ok(w, M \ {s}, k) /\ Rest(q, w, {}) /\ w.status = "ok"
    BY <2>1, <2>12, CommitOk
  <2>14. Rest(v, w, {PARENT, MMIO_LINK})
    BY <2>12, <2>13 DEF Rest
  <2> QED
    BY <2>13, <2>14 DEF w
<1> QED
  BY <1>3, <1>4

(* Mapping or unmapping the BAR as the command register says.              *)
LEMMA UpdateMappings ==
    ASSUME NEW v, NEW k, NEW s \in Occ(v), Ok(v, Mapped(v), k), v.status = "ok"
    PROVE  LET w == pci_update_mappings(v, s) IN
           /\ k => w.status = "ok"
           /\ w.status = "ok" =>
                /\ Ok(w, Mapped(w), k) /\ Rest(v, w, {PARENT, MMIO_LINK, BAR0})
                /\ Cell(w, s, BAR0) = ("MEMORY" \in v.config[s])
                /\ \A x \in Occ(v) : x # s => Cell(w, x, BAR0) = Cell(v, x, BAR0)
<1> DEFINE new == "MEMORY" \in v.config[s]
           w == pci_update_mappings(v, s)
<1>1. Machine(v)
  BY DEF Ok, Loose
<1>2. Cell(v, s, BAR0) \in BOOLEAN /\ new \in BOOLEAN
  <2>1. IsDev(v.devices[s])
    BY <1>1 DEF Machine
  <2>2. Cell(v, s, BAR0) \in BOOLEAN
    BY <2>1 DEF IsDev, IsMem, Cell
  <2> QED
    BY <2>2
<1>3. BAR0 \in Cells /\ BAR0 \notin {PARENT, MMIO_LINK, REALIZED, BUS_MASTER, AS_LINK}
  BY CellNames
<1>4. CASE new = Cell(v, s, BAR0)
  <2>1. w = v
    BY <1>4 DEF pci_update_mappings, Cell
  <2>2. Rest(v, v, {PARENT, MMIO_LINK, BAR0})
    BY <1>1 DEF Rest
  <2> QED
    BY <1>4, <2>1, <2>2
<1>5. CASE Cell(v, s, BAR0) = TRUE /\ new = FALSE
  <2> DEFINE u == memory_region_del_subregion(v, s)
             z == PutCell(u, s, BAR0, FALSE)
  <2>1. s \in Mapped(v)
    BY <1>5 DEF Mapped, With
  <2>2. /\ k => u.status = "ok"
        /\ u.status = "ok" => Ok(u, Mapped(v) \ {s}, k) /\ Rest(v, u, {PARENT, MMIO_LINK})
    BY <2>1, DelSubregion
  <2>3. w = IF u.status # "ok" THEN u ELSE z
    BY <1>5 DEF pci_update_mappings, Cell, PutCell
  <2> HIDE DEF w, u
  <2>4. CASE u.status # "ok"
    BY <2>2, <2>3, <2>4 DEF w
  <2>5. CASE u.status = "ok"
    <3>1. Ok(u, Mapped(v) \ {s}, k) /\ Rest(v, u, {PARENT, MMIO_LINK})
      BY <2>2, <2>5
    <3>2. Machine(u)
      BY <3>1 DEF Rest
    <3>3. /\ Occ(u) = Occ(v) /\ u.config = v.config
          /\ \A x \in Occ(v) :
                /\ u.devices[x].uid = v.devices[x].uid /\ u.devices[x].name = v.devices[x].name
                /\ \A c \in Cells \ {PARENT, MMIO_LINK} : Cell(u, x, c) = Cell(v, x, c)
      BY <3>1 DEF Rest
    <3>4. /\ Alike(u, z, {BAR0})
          /\ z.config = u.config /\ z.mmio = u.mmio /\ z.dma = u.dma /\ z.status = u.status
          /\ \A x \in Occ(u) : Cell(z, x, BAR0) = IF x = s THEN FALSE ELSE Cell(u, x, BAR0)
      <4>1. s \in Occ(u) /\ BAR0 \in {REALIZED, BAR0, BUS_MASTER, PARENT} /\ FALSE \in BOOLEAN
        BY <3>3
      <4> QED
        BY <3>2, <4>1, PutCellFields
    <3> HIDE DEF z
    <3>5. /\ Machine(z) /\ Occ(z) = Occ(u) /\ z.list = u.list
          /\ \A x \in Occ(u) :
                /\ z.devices[x].uid = u.devices[x].uid /\ z.devices[x].name = u.devices[x].name
                /\ \A c \in Cells \ {BAR0} : Cell(z, x, c) = Cell(u, x, c)
      BY <3>4 DEF Alike
    <3>6. \A x \in Occ(u) : \A c \in {REALIZED, PARENT, BUS_MASTER, MMIO_LINK, AS_LINK} :
                                Cell(z, x, c) = Cell(u, x, c)
      BY <3>5, CellNames
    <3>7. Ok(z, Mapped(v) \ {s}, k)
      BY <3>1, <3>4, <3>5, <3>6, KeepsOk
    <3>8. \A x \in Occ(v) : Cell(z, x, BAR0) = IF x = s THEN FALSE ELSE Cell(v, x, BAR0)
      BY <1>3, <3>3, <3>4
    <3>9. Mapped(z) = Mapped(v) \ {s}
      BY <3>3, <3>5, <3>8 DEF Mapped, With
    <3>10. Rest(v, z, {PARENT, MMIO_LINK, BAR0})
      BY <3>3, <3>4, <3>5 DEF Rest
    <3>11. w = z
      BY <2>3, <2>5
    <3> QED
      BY <1>5, <2>5, <3>4, <3>7, <3>8, <3>9, <3>10, <3>11 DEF w
  <2> QED
    BY <2>4, <2>5
<1>6. CASE Cell(v, s, BAR0) = FALSE /\ new = TRUE
  <2> DEFINE z == PutCell(v, s, BAR0, TRUE)
  <2>1. w = memory_region_add_subregion(z, s)
    BY <1>6 DEF pci_update_mappings, Cell, PutCell
  <2>2. /\ Alike(v, z, {BAR0})
        /\ z.config = v.config /\ z.mmio = v.mmio /\ z.dma = v.dma /\ z.status = v.status
        /\ \A x \in Occ(v) : Cell(z, x, BAR0) = IF x = s THEN TRUE ELSE Cell(v, x, BAR0)
    BY <1>1, PutCellFields
  <2> HIDE DEF z, w
  <2>3. /\ Machine(z) /\ Occ(z) = Occ(v) /\ z.list = v.list
        /\ \A x \in Occ(v) :
              /\ z.devices[x].uid = v.devices[x].uid /\ z.devices[x].name = v.devices[x].name
              /\ \A c \in Cells \ {BAR0} : Cell(z, x, c) = Cell(v, x, c)
    BY <2>2 DEF Alike
  <2>4. \A x \in Occ(v) : \A c \in {REALIZED, PARENT, BUS_MASTER, MMIO_LINK, AS_LINK} :
                              Cell(z, x, c) = Cell(v, x, c)
    BY <2>3, CellNames
  <2>5. Ok(z, Mapped(v), k)
    BY <2>2, <2>3, <2>4, KeepsOk
  <2>6. s \in Occ(z) \ Mapped(v) /\ z.status = "ok"
    BY <1>6, <2>2, <2>3 DEF Mapped, With
  <2>7. /\ k => w.status = "ok"
        /\ w.status = "ok" => Ok(w, Mapped(v) \cup {s}, k) /\ Rest(z, w, {PARENT, MMIO_LINK})
    BY <2>1, <2>5, <2>6, AddSubregion
  <2>8. ASSUME w.status = "ok"
        PROVE  /\ Ok(w, Mapped(w), k) /\ Rest(v, w, {PARENT, MMIO_LINK, BAR0})
               /\ Cell(w, s, BAR0) = new
               /\ \A x \in Occ(v) : x # s => Cell(w, x, BAR0) = Cell(v, x, BAR0)
    <3>1. Ok(w, Mapped(v) \cup {s}, k) /\ Rest(z, w, {PARENT, MMIO_LINK})
      BY <2>7, <2>8
    <3>2. /\ Machine(w) /\ Occ(w) = Occ(z) /\ w.config = z.config
          /\ \A x \in Occ(z) :
                /\ w.devices[x].uid = z.devices[x].uid /\ w.devices[x].name = z.devices[x].name
                /\ \A c \in Cells \ {PARENT, MMIO_LINK} : Cell(w, x, c) = Cell(z, x, c)
      BY <3>1 DEF Rest
    <3>3. \A x \in Occ(v) : Cell(w, x, BAR0) = IF x = s THEN TRUE ELSE Cell(v, x, BAR0)
      BY <1>3, <2>2, <2>3, <3>2
    <3>4. Mapped(w) = Mapped(v) \cup {s}
      BY <2>3, <3>2, <3>3 DEF Mapped, With
    <3>5. Rest(v, w, {PARENT, MMIO_LINK, BAR0})
      BY <2>2, <2>3, <3>2 DEF Rest
    <3> QED
      BY <1>6, <3>1, <3>3, <3>4, <3>5
  <2> QED
    BY <2>7, <2>8 DEF w
<1> QED
  BY <1>2, <1>4, <1>5, <1>6

(* Bus mastering on or off.                                                *)
LEMMA SetEnabled ==
    ASSUME NEW v, NEW M, NEW k, NEW s \in Occ(v), NEW on \in BOOLEAN, Ok(v, M, k), v.status = "ok"
    PROVE  LET w == memory_region_set_enabled(v, s, on) IN
           /\ w.status = "ok" /\ Ok(w, M, k) /\ Rest(v, w, {BUS_MASTER})
           /\ Cell(w, s, BUS_MASTER) = on
           /\ \A x \in Occ(v) : x # s => Cell(w, x, BUS_MASTER) = Cell(v, x, BUS_MASTER)
<1> DEFINE u == PutCell(v, s, BUS_MASTER, on)
           w == memory_region_set_enabled(v, s, on)
<1>1. Machine(v) /\ Loose(v, M)
  BY DEF Ok, Loose
<1>2. CASE on = Cell(v, s, BUS_MASTER)
  <2>1. w = v
    BY <1>2 DEF memory_region_set_enabled, Cell
  <2>2. Rest(v, v, {BUS_MASTER})
    BY <1>1 DEF Rest
  <2> QED
    BY <1>2, <2>1, <2>2
<1>3. CASE on # Cell(v, s, BUS_MASTER)
  <2>1. w = Commit(u)
    BY <1>3 DEF memory_region_set_enabled, Cell, PutCell
  <2>2. /\ Alike(v, u, {BUS_MASTER})
        /\ u.config = v.config /\ u.mmio = v.mmio /\ u.dma = v.dma /\ u.status = v.status
        /\ \A x \in Occ(v) : Cell(u, x, BUS_MASTER) = IF x = s THEN on ELSE Cell(v, x, BUS_MASTER)
    <3>1. Alike(v, u, {BUS_MASTER})
      BY <1>1, PutCellFields
    <3>2. u.config = v.config /\ u.mmio = v.mmio /\ u.dma = v.dma /\ u.status = v.status
      BY <1>1, PutCellFields
    <3>3. \A x \in Occ(v) : Cell(u, x, BUS_MASTER) = IF x = s THEN on ELSE Cell(v, x, BUS_MASTER)
      BY <1>1, PutCellFields
    <3> QED
      BY <3>1, <3>2, <3>3
  <2> HIDE DEF u, w
  <2>3. /\ Machine(u) /\ Occ(u) = Occ(v) /\ u.list = v.list
        /\ \A x \in Occ(v) :
              /\ u.devices[x].uid = v.devices[x].uid /\ u.devices[x].name = v.devices[x].name
              /\ \A c \in Cells \ {BUS_MASTER} : Cell(u, x, c) = Cell(v, x, c)
    BY <2>2 DEF Alike
  <2>4. \A x \in Occ(v) : \A c \in {REALIZED, PARENT, MMIO_LINK, AS_LINK} : Cell(u, x, c) = Cell(v, x, c)
    BY <2>3, CellNames
  <2>5. /\ Loose(u, M)
        /\ Whole(v, MMIO_LINK, M) => Whole(u, MMIO_LINK, M)
        /\ Whole(v, AS_LINK, Occ(v)) => Whole(u, AS_LINK, Occ(u))
    BY <1>1, <2>3, <2>4, SameLoose
  <2>6. ASSUME k PROVE /\ Whole(u, MMIO_LINK, M) /\ Whole(u, AS_LINK, Occ(u))
                       /\ \A x \in Occ(u) : Cell(u, x, PARENT) = (x \in M)
    <3>1. Wired(v, M)
      BY <2>6 DEF Ok
    <3>2. \A x \in Occ(u) : Cell(u, x, PARENT) = (x \in M)
      BY <2>3, <2>4, <3>1 DEF Wired
    <3> QED
      BY <2>5, <3>1, <3>2 DEF Wired
  <2>7. Ready(u, M, k) /\ u.status = "ok"
    BY <2>2, <2>5, <2>6 DEF Ready
  <2>8. Ok(w, M, k) /\ Rest(u, w, {}) /\ w.status = "ok"
    BY <2>1, <2>7, CommitOk
  <2>9. /\ Machine(w) /\ Occ(w) = Occ(u) /\ w.config = u.config
        /\ \A x \in Occ(u) :
              /\ w.devices[x].uid = u.devices[x].uid /\ w.devices[x].name = u.devices[x].name
              /\ \A c \in Cells : Cell(w, x, c) = Cell(u, x, c)
    BY <2>8 DEF Rest
  <2>10. Rest(v, w, {BUS_MASTER})
    BY <2>2, <2>3, <2>9 DEF Rest
  <2>11. BUS_MASTER \in Cells
    BY CellNames
  <2> QED
    BY <2>2, <2>3, <2>8, <2>9, <2>10, <2>11 DEF w
<1> QED
  BY <1>2, <1>3

-----------------------------------------------------------------------------
(* PCI devices                                                             *)

Consistent(v) == \A s \in Occ(v) : Cell(v, s, BAR0) = ("MEMORY" \in v.config[s])
Mastering(v)  == \A s \in Occ(v) : "MASTER" \in v.config[s] => Cell(v, s, BUS_MASTER)

Owned(v)      == \A s \in Occ(v) : Cell(v, s, CONFIG) = v.devices[s].uid

(* The invariant of the machine, of any machine: see MachineInv.           *)
Good(v, k) == Ok(v, Mapped(v), k) /\ Consistent(v) /\ Owned(v) /\ (k => Mastering(v))

(* The form of the invariant that the steps of a bus reset pass on.        *)
LEMMA GoodIsMachineInv == Good(vm, clean) <=> MachineInv
BY DEF Good, Ok, Consistent, Owned, Mastering, MachineInv

(* The registers of an instance are all given the value z.                 *)
SetRegisters(v, s, z) ==
    [v EXCEPT !.devices[s].mem = [c \in Cells |-> IF c \in Registers THEN z ELSE @[c]]]

(* Registers are apart from lists and flags.                               *)
LEMMA SetRegistersFields ==
    ASSUME NEW v, Machine(v), NEW s \in Occ(v), NEW z
    PROVE  LET w == SetRegisters(v, s, z) IN
           /\ Alike(v, w, Registers)
           /\ w.config = v.config /\ w.mmio = v.mmio /\ w.dma = v.dma /\ w.status = v.status
<1> DEFINE m == [c \in Cells |-> IF c \in Registers THEN z ELSE v.devices[s].mem[c]]
           w == PutMem(v, s, m)
<1>1. s \in Slots /\ IsDev(v.devices[s]) /\ Occ(v) \subseteq Slots
  BY DEF Occ, Machine
<1>2. SetRegisters(v, s, z) = w
  BY <1>1 DEF Machine, IsDev, PutMem, Vm, SetRegisters
<1>3. /\ {REALIZED, BAR0, BUS_MASTER, PARENT} \subseteq Cells /\ Lists \subseteq Cells
      /\ \A c \in {REALIZED, BAR0, BUS_MASTER, PARENT} : c \notin Registers
      /\ \A l \in Lists : l \notin Registers
  BY CellNames
<1>4. \A c \in Cells \ Registers : m[c] = Cell(v, s, c)
  BY DEF Cell
<1>5. IsMem(m)
  <2>1. m = [c \in Cells |-> m[c]]
    OBVIOUS
  <2> HIDE DEF m
  <2>2. \A c \in {REALIZED, BAR0, BUS_MASTER, PARENT} : m[c] \in BOOLEAN
    BY <1>1, <1>3, <1>4 DEF IsDev, IsMem, Cell
  <2>3. \A l \in Lists : m[l] = [next |-> m[l].next, prev |-> m[l].prev]
    BY <1>1, <1>3, <1>4 DEF IsDev, IsMem, Cell
  <2> QED
    BY <2>1, <2>2, <2>3 DEF IsMem
<1> HIDE DEF m
<1>6. /\ Machine(w) /\ Occ(w) = Occ(v)
      /\ w.config = v.config /\ w.list = v.list /\ w.mmio = v.mmio /\ w.dma = v.dma
      /\ w.status = v.status
      /\ \A x \in Slots : x # s => w.devices[x] = v.devices[x]
      /\ w.devices[s].uid = v.devices[s].uid /\ w.devices[s].name = v.devices[s].name
      /\ w.devices[s].mem = m
  BY <1>5, PutMemFields
<1> HIDE DEF w
<1>7. Alike(v, w, Registers)
  BY <1>1, <1>4, <1>6 DEF Alike, Cell
<1> QED
  BY <1>2, <1>6, <1>7

(* A machine that differs in registers, or in nothing but its status.      *)
LEMMA AlikeGood ==
    ASSUME NEW v, NEW w, NEW k, Alike(v, w, Registers), Good(v, k),
           w.config = v.config, w.mmio = v.mmio, w.dma = v.dma
    PROVE  Good(w, k)
<1>1. /\ Machine(w) /\ Occ(w) = Occ(v) /\ w.list = v.list
      /\ \A x \in Occ(v) : \A c \in Cells \ Registers : Cell(w, x, c) = Cell(v, x, c)
  BY DEF Alike
<1>2. \A x \in Occ(v) : \A c \in {REALIZED, PARENT, BUS_MASTER, MMIO_LINK, AS_LINK, BAR0} :
                            Cell(w, x, c) = Cell(v, x, c)
  BY <1>1, CellNames
<1>3. Ok(v, Mapped(v), k)
  BY DEF Good
<1>4. Ok(w, Mapped(v), k)
  BY <1>1, <1>2, <1>3, KeepsOk
<1>5. Mapped(w) = Mapped(v)
  BY <1>1, <1>2 DEF Mapped, With
<1>6. Consistent(w)
  BY <1>1, <1>2 DEF Good, Consistent
<1>7. k => Mastering(w)
  BY <1>1, <1>2 DEF Good, Mastering
<1>8. Owned(w)
  <2>1. CONFIG \in Cells \ Registers
    BY CellNames
  <2>2. \A x \in Occ(v) : w.devices[x].uid = v.devices[x].uid
    BY DEF Alike
  <2> QED
    BY <1>1, <2>1, <2>2 DEF Good, Owned
<1> QED
  BY <1>4, <1>5, <1>6, <1>7, <1>8 DEF Good

(* The command register is written.                                        *)
PutConfig(v, s, b) == [v EXCEPT !.config[s] = b]

(* Writing the configuration space of a slot changes that slot only.       *)
LEMMA PutConfigFields ==
    ASSUME NEW v, Machine(v), NEW s \in Slots, NEW b
    PROVE  LET w == PutConfig(v, s, b) IN
           /\ Machine(w) /\ w.devices = v.devices /\ w.list = v.list /\ w.mmio = v.mmio
           /\ w.dma = v.dma /\ w.status = v.status
           /\ \A x \in Slots : w.config[x] = IF x = s THEN b ELSE v.config[x]
<1> DEFINE G == [v.config EXCEPT ![s] = b]
           w == Vm(v.devices, G, v.list, v.mmio, v.dma, v.status)
<1>1. /\ v = Vm(v.devices, v.config, v.list, v.mmio, v.dma, v.status)
      /\ v.devices = [x \in Slots |-> v.devices[x]] /\ v.config = [x \in Slots |-> v.config[x]]
      /\ \A x \in Slots : v.devices[x] # NoDevice => IsDev(v.devices[x])
      /\ v.list = [l \in Lists |-> v.list[l]]
      /\ \A l \in Lists : v.list[l] = [first |-> v.list[l].first, last |-> v.list[l].last]
      /\ v.mmio \in [Slots -> BOOLEAN] /\ v.dma \in [Slots -> BOOLEAN]
  BY Unbuild
<1>2. PutConfig(v, s, b) = w
  <2>1. PutConfig(v, s, b) = [v EXCEPT !.config = G]
    BY DEF PutConfig
  <2> HIDE DEF G
  <2> QED
    BY <1>1, <2>1 DEF Vm
<1>3. G = [x \in Slots |-> G[x]] /\ \A x \in Slots : G[x] = IF x = s THEN b ELSE v.config[x]
  BY <1>1
<1> HIDE DEF G
<1>4. Machine(w)
  BY <1>1, <1>3, Build
<1>5. /\ w.devices = v.devices /\ w.config = G /\ w.list = v.list
      /\ w.mmio = v.mmio /\ w.dma = v.dma /\ w.status = v.status
  BY VmFields
<1> HIDE DEF w
<1> QED
  BY <1>2, <1>3, <1>4, <1>5

(* A write of the command register, up to the mappings.                    *)
LEMMA ConfigWrite ==
    ASSUME NEW v, NEW k, NEW s \in Occ(v), NEW b, Good(v, k), v.status = "ok"
    PROVE  LET w == pci_update_mappings(PutConfig(v, s, b), s) IN
           /\ k => w.status = "ok"
           /\ w.status = "ok" =>
                /\ Ok(w, Mapped(w), k) /\ Consistent(w) /\ Owned(w) /\ Occ(w) = Occ(v)
                /\ w.config[s] = b /\ \A x \in Slots : x # s => w.config[x] = v.config[x]
                /\ \A x \in Occ(v) : Cell(w, x, BUS_MASTER) = Cell(v, x, BUS_MASTER)
<1> DEFINE u == PutConfig(v, s, b)
           w == pci_update_mappings(u, s)
<1>1. Machine(v) /\ s \in Slots
  BY DEF Good, Ok, Loose, Occ
<1>2. /\ Machine(u) /\ u.devices = v.devices /\ u.list = v.list /\ u.mmio = v.mmio
      /\ u.dma = v.dma /\ u.status = v.status
      /\ \A x \in Slots : u.config[x] = IF x = s THEN b ELSE v.config[x]
  BY <1>1, PutConfigFields
<1> HIDE DEF u
<1>3. /\ Occ(u) = Occ(v) /\ Mapped(u) = Mapped(v)
      /\ \A x, c : Cell(u, x, c) = Cell(v, x, c)
  BY <1>2 DEF Occ, Mapped, With, Cell
<1>4. Ok(v, Mapped(v), k)
  BY DEF Good
<1>5. Ok(u, Mapped(u), k)
  BY <1>2, <1>3, <1>4, KeepsOk
<1>6. /\ k => w.status = "ok"
      /\ w.status = "ok" =>
           /\ Ok(w, Mapped(w), k) /\ Rest(u, w, {PARENT, MMIO_LINK, BAR0})
           /\ Cell(w, s, BAR0) = ("MEMORY" \in u.config[s])
           /\ \A x \in Occ(u) : x # s => Cell(w, x, BAR0) = Cell(u, x, BAR0)
  BY <1>2, <1>3, <1>5, UpdateMappings
<1> HIDE DEF w
<1>7. ASSUME w.status = "ok"
      PROVE  /\ Ok(w, Mapped(w), k) /\ Consistent(w) /\ Owned(w) /\ Occ(w) = Occ(v)
             /\ w.config[s] = b /\ \A x \in Slots : x # s => w.config[x] = v.config[x]
             /\ \A x \in Occ(v) : Cell(w, x, BUS_MASTER) = Cell(v, x, BUS_MASTER)
  <2>1. /\ Ok(w, Mapped(w), k) /\ Rest(u, w, {PARENT, MMIO_LINK, BAR0})
        /\ Cell(w, s, BAR0) = ("MEMORY" \in u.config[s])
        /\ \A x \in Occ(u) : x # s => Cell(w, x, BAR0) = Cell(u, x, BAR0)
    BY <1>6, <1>7
  <2>2. /\ Occ(w) = Occ(u) /\ w.config = u.config
        /\ \A x \in Occ(u) : \A c \in Cells \ {PARENT, MMIO_LINK, BAR0} : Cell(w, x, c) = Cell(u, x, c)
    BY <2>1 DEF Rest
  <2>3. BUS_MASTER \in Cells \ {PARENT, MMIO_LINK, BAR0}
    BY CellNames
  <2>4. ASSUME NEW x \in Occ(w) PROVE Cell(w, x, BAR0) = ("MEMORY" \in w.config[x])
    <3>1. CASE x = s
      BY <2>1, <2>2, <3>1
    <3>2. CASE x # s
      <4>1. Cell(w, x, BAR0) = Cell(v, x, BAR0)
        BY <1>3, <2>1, <2>2, <2>4, <3>2
      <4>2. w.config[x] = v.config[x]
        BY <1>2, <2>2, <2>4, <3>2 DEF Occ
      <4>3. Cell(v, x, BAR0) = ("MEMORY" \in v.config[x])
        BY <1>3, <2>2, <2>4, Zenon DEF Good, Consistent
      <4> QED
        BY <4>1, <4>2, <4>3, Zenon
    <3> QED
      BY <3>1, <3>2
  <2>5. Consistent(w)
    BY <2>4 DEF Consistent
  <2>6. /\ w.config[s] = b /\ \A x \in Slots : x # s => w.config[x] = v.config[x]
    BY <1>1, <1>2, <2>2
  <2>7. Owned(w)
    <3>1. CONFIG \in Cells \ {PARENT, MMIO_LINK, BAR0}
      BY CellNames
    <3>2. \A x \in Occ(u) : w.devices[x].uid = u.devices[x].uid
      BY <2>1 DEF Rest
    <3> QED
      BY <1>2, <1>3, <2>2, <3>1, <3>2 DEF Good, Owned
  <2> QED
    BY <1>3, <2>1, <2>2, <2>3, <2>5, <2>6, <2>7
<1> QED
  BY <1>6, <1>7 DEF w, u

(* pci_default_write_config, on the command register.                      *)
LEMMA CommandWrite ==
    ASSUME NEW v, NEW k, NEW s \in Occ(v), NEW b, Good(v, k), v.status = "ok"
    PROVE  LET w == memory_region_set_enabled(pci_update_mappings(PutConfig(v, s, b), s),
                                              s, "MASTER" \in b) IN
           /\ k => w.status = "ok"
           /\ w.status = "ok" => Good(w, k)
<1> DEFINE u == pci_update_mappings(PutConfig(v, s, b), s)
           master == "MASTER" \in b
           w == memory_region_set_enabled(u, s, master)
<1>1. /\ k => u.status = "ok"
      /\ u.status = "ok" =>
           /\ Ok(u, Mapped(u), k) /\ Consistent(u) /\ Owned(u) /\ Occ(u) = Occ(v)
           /\ u.config[s] = b /\ \A x \in Slots : x # s => u.config[x] = v.config[x]
           /\ \A x \in Occ(v) : Cell(u, x, BUS_MASTER) = Cell(v, x, BUS_MASTER)
  BY ConfigWrite
<1> HIDE DEF u
<1>2. CASE u.status # "ok"
  <2>1. w = u
    BY <1>2 DEF memory_region_set_enabled
  <2> QED
    BY <1>1, <1>2, <2>1 DEF u
<1>3. CASE u.status = "ok"
  <2>1. /\ Ok(u, Mapped(u), k) /\ Consistent(u) /\ Owned(u) /\ Occ(u) = Occ(v)
        /\ u.config[s] = b /\ \A x \in Slots : x # s => u.config[x] = v.config[x]
        /\ \A x \in Occ(v) : Cell(u, x, BUS_MASTER) = Cell(v, x, BUS_MASTER)
    BY <1>1, <1>3
  <2>2. s \in Occ(u) /\ master \in BOOLEAN
    BY <2>1
  <2>3. /\ w.status = "ok" /\ Ok(w, Mapped(u), k) /\ Rest(u, w, {BUS_MASTER})
        /\ Cell(w, s, BUS_MASTER) = master
        /\ \A x \in Occ(u) : x # s => Cell(w, x, BUS_MASTER) = Cell(u, x, BUS_MASTER)
    <3> HIDE DEF master
    <3> QED
      BY <1>3, <2>1, <2>2, SetEnabled
  <2> HIDE DEF w
  <2>4. /\ Occ(w) = Occ(u) /\ w.config = u.config
        /\ \A x \in Occ(u) : \A c \in Cells \ {BUS_MASTER} : Cell(w, x, c) = Cell(u, x, c)
    BY <2>3 DEF Rest
  <2>5. BAR0 \in Cells \ {BUS_MASTER}
    BY CellNames
  <2>6. Mapped(w) = Mapped(u) /\ Consistent(w)
    BY <2>1, <2>4, <2>5 DEF Mapped, With, Consistent
  <2>7. ASSUME k PROVE Mastering(w)
    <3>1. Mastering(v)
      BY <2>7 DEF Good
    <3>2. ASSUME NEW x \in Occ(w), "MASTER" \in w.config[x] PROVE Cell(w, x, BUS_MASTER)
      <4>1. x \in Occ(u) /\ x \in Occ(v) /\ x \in Slots /\ w.config[x] = u.config[x]
        BY <2>1, <2>4, <3>2 DEF Occ
      <4>2. CASE x = s
        BY <2>1, <2>3, <3>2, <4>1, <4>2
      <4>3. CASE x # s
        <5>1. "MASTER" \in v.config[x]
          BY <2>1, <3>2, <4>1, <4>3
        <5> QED
          BY <2>1, <2>3, <3>1, <4>1, <4>3, <5>1 DEF Mastering
      <4> QED
        BY <4>2, <4>3
    <3> QED
      BY <3>2 DEF Mastering
  <2>8. Owned(w)
    <3>1. CONFIG \in Cells \ {BUS_MASTER}
      BY CellNames
    <3>2. \A x \in Occ(u) : w.devices[x].uid = u.devices[x].uid
      BY <2>3 DEF Rest
    <3> QED
      BY <2>1, <2>4, <3>1, <3>2 DEF Owned
  <2> QED
    BY <2>3, <2>6, <2>7, <2>8 DEF Good, u, w
<1> QED
  BY <1>2, <1>3

(* One device is reset: its BAR is unmapped and bus mastering ends, unless *)
(* the lists are broken, which they are not while no flip has touched      *)
(* them.                                                                   *)
LEMMA DeviceReset ==
    ASSUME NEW v, NEW k, NEW s \in Occ(v), Good(v, k), v.status = "ok"
    PROVE  LET w == pci_device_reset(v, s) IN
           /\ k => w.status = "ok"
           /\ w.status = "ok" => Good(w, k) /\ Occ(w) = Occ(v)
<1> DEFINE r == SetRegisters(v, s, "reset")
           w == pci_update_mappings(PutConfig(r, s, {}), s)
<1>1. pci_device_reset(v, s) = w
  BY DEF pci_device_reset, device_reset, SetRegisters, PutConfig
<1>2. Machine(v)
  BY DEF Good, Ok, Loose
<1>3. /\ Alike(v, r, Registers)
      /\ r.config = v.config /\ r.mmio = v.mmio /\ r.dma = v.dma /\ r.status = v.status
  BY <1>2, SetRegistersFields
<1> HIDE DEF r
<1>4. Good(r, k) /\ r.status = "ok"
  BY <1>3, AlikeGood
<1>5. Occ(r) = Occ(v) /\ Occ(v) \subseteq Slots
  BY <1>3 DEF Alike, Occ
<1>6. /\ k => w.status = "ok"
      /\ w.status = "ok" =>
           /\ Ok(w, Mapped(w), k) /\ Consistent(w) /\ Owned(w) /\ Occ(w) = Occ(r)
           /\ w.config[s] = {} /\ \A x \in Slots : x # s => w.config[x] = r.config[x]
           /\ \A x \in Occ(r) : Cell(w, x, BUS_MASTER) = Cell(r, x, BUS_MASTER)
  BY <1>4, <1>5, ConfigWrite
<1> HIDE DEF w
<1>7. ASSUME w.status = "ok" PROVE Good(w, k) /\ Occ(w) = Occ(v)
  <2>1. /\ Ok(w, Mapped(w), k) /\ Consistent(w) /\ Owned(w) /\ Occ(w) = Occ(r)
        /\ w.config[s] = {} /\ \A x \in Slots : x # s => w.config[x] = r.config[x]
        /\ \A x \in Occ(r) : Cell(w, x, BUS_MASTER) = Cell(r, x, BUS_MASTER)
    BY <1>6, <1>7
  <2>2. ASSUME k PROVE Mastering(w)
    <3>1. Mastering(r)
      BY <1>4, <2>2 DEF Good
    <3> QED
      BY <1>5, <2>1, <3>1 DEF Mastering
  <2> QED
    BY <1>5, <2>1, <2>2 DEF Good
<1> QED
  BY <1>1, <1>6, <1>7

(* The reset of the bus: the machine after each of its functions.          *)
ResetOne(x, n) == IF Live(n) THEN pci_device_reset(x, n) ELSE x
ResetStep(f, n) == IF n = 0 THEN vm ELSE ResetOne(f[n - 1], n)

(* The machine after n devices of a bus reset, as a recursion.             *)
LEMMA AfterResetIs ==
    /\ AfterReset[0] = vm
    /\ \A n \in 1..NSlots : AfterReset[n] = ResetOne(AfterReset[n - 1], n)
<1> DEFINE Up(f, n) == f = [i \in 0..n |-> ResetStep(f, i)]
           T == {n \in 0..NSlots : ~\E f : Up(f, n)}
<1>1. ASSUME T # {} PROVE FALSE
  <2>1. T \subseteq Nat
    BY DiscAssumption
  <2>2. PICK n \in T : \A y \in T : n <= y
    <3> HIDE DEF T
    <3> QED
      BY <1>1, <2>1, LeastNumber
  <2>3. n \in 0..NSlots /\ n \in Nat /\ ~\E f : Up(f, n)
    BY <2>1, <2>2
  <2>4. CASE n = 0
    <3> DEFINE g == [i \in 0..0 |-> vm]
    <3>1. Up(g, 0)
      BY DEF ResetStep
    <3> QED
      BY <2>3, <2>4, <3>1
  <2>5. CASE n # 0
    <3>1. n - 1 \in 0..NSlots /\ n - 1 \notin T
      BY <2>2, <2>3, <2>5, DiscAssumption
    <3>2. PICK f : Up(f, n - 1)
      BY <3>1
    <3> DEFINE g == [i \in 0..n |-> IF i = n THEN ResetOne(f[n - 1], n) ELSE f[i]]
    <3>3. \A i \in 0..(n - 1) : g[i] = f[i] /\ f[i] = ResetStep(f, i)
      BY <2>3, <2>5, <3>2
    <3>4. g[n] = ResetOne(f[n - 1], n) /\ g[n - 1] = f[n - 1]
      BY <2>3, <2>5
    <3>5. ASSUME NEW i \in 0..n PROVE g[i] = ResetStep(g, i)
      <4>1. CASE i = n
        BY <2>3, <2>5, <3>4, <4>1 DEF ResetStep
      <4>2. CASE i = 0
        <5>1. 0 \in 0..(n - 1)
          BY <2>3, <2>5
        <5>2. g[0] = ResetStep(f, 0)
          BY <3>3, <5>1
        <5> HIDE DEF g
        <5> QED
          BY <4>2, <5>2 DEF ResetStep
      <4>3. CASE i # n /\ i # 0
        <5>1. i \in 0..(n - 1) /\ i - 1 \in 0..(n - 1)
          BY <2>3, <3>5, <4>3
        <5> HIDE DEF g
        <5> QED
          BY <3>3, <4>3, <5>1 DEF ResetStep
      <4> QED
        BY <4>1, <4>2, <4>3
    <3>6. g = [i \in 0..n |-> g[i]]
      OBVIOUS
    <3> HIDE DEF g
    <3>7. Up(g, n)
      BY <3>5, <3>6
    <3> QED
      BY <2>3, <3>7
  <2> QED
    BY <2>4, <2>5
<1>2. PICK f : Up(f, NSlots)
  BY <1>1, DiscAssumption
<1>3. AfterReset = CHOOSE h : h = [i \in 0..NSlots |->
          IF i = 0 THEN vm
          ELSE IF Live(i) THEN pci_device_reset(h[i - 1], i) ELSE h[i - 1]]
  BY Zenon DEF AfterReset
<1>4. \E h : h = [i \in 0..NSlots |->
          IF i = 0 THEN vm
          ELSE IF Live(i) THEN pci_device_reset(h[i - 1], i) ELSE h[i - 1]]
  BY <1>2, Zenon DEF ResetStep, ResetOne
<1>5. AfterReset = [i \in 0..NSlots |->
          IF i = 0 THEN vm
          ELSE IF Live(i) THEN pci_device_reset(AfterReset[i - 1], i) ELSE AfterReset[i - 1]]
  BY <1>3, <1>4, Zenon
<1> QED
  BY <1>5, DiscAssumption DEF ResetOne

(* A reset of the whole bus.                                               *)
LEMMA BusReset ==
    ASSUME Good(vm, clean), vm.status = "ok"
    PROVE  /\ clean => pci_bus_reset.status = "ok"
           /\ pci_bus_reset.status = "ok" => Good(pci_bus_reset, clean)
<1> DEFINE Kept(v) == /\ clean => v.status = "ok"
                      /\ v.status = "ok" => Good(v, clean) /\ Occ(v) = Occ(vm)
           T == {n \in 0..NSlots : ~Kept(AfterReset[n])}
<1>1. ASSUME T # {} PROVE FALSE
  <2>1. T \subseteq Nat
    BY DiscAssumption
  <2>2. PICK n \in T : \A y \in T : n <= y
    <3> HIDE DEF T
    <3> QED
      BY <1>1, <2>1, LeastNumber
  <2>3. n \in 0..NSlots /\ n \in Nat /\ ~Kept(AfterReset[n])
    BY <2>1, <2>2
  <2>4. CASE n = 0
    BY <2>3, <2>4, AfterResetIs
  <2>5. CASE n # 0
    <3>1. n \in 1..NSlots /\ n - 1 \in 0..NSlots /\ n - 1 \notin T
      BY <2>2, <2>3, <2>5, DiscAssumption
    <3> DEFINE u == AfterReset[n - 1]
    <3>2. Kept(u) /\ AfterReset[n] = ResetOne(u, n)
      BY <3>1, AfterResetIs
    <3> HIDE DEF u
    <3>3. CASE ~Live(n) \/ u.status # "ok"
      <4>1. ResetOne(u, n) = u
        BY <3>3 DEF ResetOne, pci_device_reset
      <4> QED
        BY <2>3, <3>2, <4>1
    <3>4. CASE Live(n) /\ u.status = "ok"
      <4>1. n \in Occ(u) /\ Good(u, clean)
        BY <3>1, <3>2, <3>4 DEF Occ, Live, Slots
      <4>2. ResetOne(u, n) = pci_device_reset(u, n)
        BY <3>4 DEF ResetOne
      <4> DEFINE w == pci_device_reset(u, n)
      <4>3. /\ clean => w.status = "ok"
            /\ w.status = "ok" => Good(w, clean) /\ Occ(w) = Occ(u)
        BY <3>4, <4>1, DeviceReset
      <4> QED
        BY <2>3, <3>2, <3>4, <4>2, <4>3
    <3> QED
      BY <3>3, <3>4
  <2> QED
    BY <2>4, <2>5
<1>2. Kept(AfterReset[NSlots])
  BY <1>1, DiscAssumption
<1> QED
  BY <1>2 DEF pci_bus_reset

(* A device enters a slot, or leaves it.                                   *)
PutSlot(v, s, d) ==
    Vm([v.devices EXCEPT ![s] = d], [v.config EXCEPT ![s] = {}], v.list, v.mmio,
       [v.dma EXCEPT ![s] = FALSE], v.status)

(* Filling or emptying a slot changes that slot only.                      *)
LEMMA PutSlotFields ==
    ASSUME NEW v, Machine(v), NEW s \in Slots, NEW d, d = NoDevice \/ IsDev(d)
    PROVE  LET w == PutSlot(v, s, d) IN
           /\ Machine(w) /\ w.list = v.list /\ w.mmio = v.mmio /\ w.status = v.status
           /\ w.devices[s] = d /\ w.config[s] = {} /\ ~w.dma[s]
           /\ \A x \in Slots : x # s => /\ w.devices[x] = v.devices[x] /\ w.config[x] = v.config[x]
                                        /\ w.dma[x] = v.dma[x]
<1> DEFINE D == [v.devices EXCEPT ![s] = d]
           G == [v.config EXCEPT ![s] = {}]
           Y == [v.dma EXCEPT ![s] = FALSE]
           w == Vm(D, G, v.list, v.mmio, Y, v.status)
<1>1. PutSlot(v, s, d) = w
  BY DEF PutSlot
<1>2. /\ v.devices = [x \in Slots |-> v.devices[x]] /\ v.config = [x \in Slots |-> v.config[x]]
      /\ \A x \in Slots : v.devices[x] # NoDevice => IsDev(v.devices[x])
      /\ v.list = [l \in Lists |-> v.list[l]]
      /\ \A l \in Lists : v.list[l] = [first |-> v.list[l].first, last |-> v.list[l].last]
      /\ v.mmio \in [Slots -> BOOLEAN] /\ v.dma \in [Slots -> BOOLEAN]
  BY Unbuild
<1>3. D = [x \in Slots |-> D[x]] /\ D[s] = d /\ \A x \in Slots : x # s => D[x] = v.devices[x]
  BY <1>2
<1>4. G = [x \in Slots |-> G[x]] /\ G[s] = {} /\ \A x \in Slots : x # s => G[x] = v.config[x]
  BY <1>2
<1>5. Y \in [Slots -> BOOLEAN] /\ Y[s] = FALSE /\ \A x \in Slots : x # s => Y[x] = v.dma[x]
  BY <1>2
<1> HIDE DEF D, G, Y
<1>6. \A x \in Slots : D[x] # NoDevice => IsDev(D[x])
  BY <1>2, <1>3
<1>7. Machine(w)
  BY <1>2, <1>3, <1>4, <1>5, <1>6, Build
<1>8. /\ w.devices = D /\ w.config = G /\ w.list = v.list
      /\ w.mmio = v.mmio /\ w.dma = Y /\ w.status = v.status
  BY VmFields
<1> HIDE DEF w
<1> QED
  BY <1>1, <1>3, <1>4, <1>5, <1>7, <1>8

(* Emptying a slot takes its instance off the machine.                     *)
LEMMA EmptySlot ==
    ASSUME NEW v, Machine(v), NEW s \in Slots
    PROVE  LET w == PutSlot(v, s, NoDevice) IN
           /\ Machine(w) /\ w.list = v.list /\ w.mmio = v.mmio /\ w.status = v.status
           /\ Occ(w) = Occ(v) \ {s}
           /\ \A x \in Slots : x # s => /\ w.devices[x] = v.devices[x]
                                        /\ w.config[x] = v.config[x]
                                        /\ w.dma[x] = v.dma[x]
<1> DEFINE w == PutSlot(v, s, NoDevice)
<1>1. NoDevice = NoDevice \/ IsDev(NoDevice)
  OBVIOUS
<1>2. Machine(w) /\ w.list = v.list /\ w.mmio = v.mmio /\ w.status = v.status
  BY <1>1, PutSlotFields
<1>3. w.devices[s] = NoDevice
  BY <1>1, PutSlotFields
<1>4. \A x \in Slots : x # s => /\ w.devices[x] = v.devices[x]
                               /\ w.config[x] = v.config[x]
                               /\ w.dma[x] = v.dma[x]
  BY <1>1, PutSlotFields
<1> HIDE DEF w
<1>5. Occ(w) = Occ(v) \ {s}
  BY <1>3, <1>4 DEF Occ
<1> QED
  BY <1>2, <1>4, <1>5 DEF w

(* The guest does not reach the device any more.                           *)
Unreach(v, s) == [v EXCEPT !.mmio[s] = FALSE]

(* A slot whose window the guest no longer reaches.                        *)
LEMMA UnreachFields ==
    ASSUME NEW v, Machine(v), NEW s \in Slots
    PROVE  LET w == Unreach(v, s) IN
           /\ Machine(w) /\ w.devices = v.devices /\ w.config = v.config /\ w.list = v.list
           /\ w.dma = v.dma /\ w.status = v.status
           /\ \A x \in Slots : x # s => w.mmio[x] = v.mmio[x]
<1> DEFINE X == [v.mmio EXCEPT ![s] = FALSE]
           w == Vm(v.devices, v.config, v.list, X, v.dma, v.status)
<1>1. /\ v = Vm(v.devices, v.config, v.list, v.mmio, v.dma, v.status)
      /\ v.devices = [x \in Slots |-> v.devices[x]] /\ v.config = [x \in Slots |-> v.config[x]]
      /\ \A x \in Slots : v.devices[x] # NoDevice => IsDev(v.devices[x])
      /\ v.list = [l \in Lists |-> v.list[l]]
      /\ \A l \in Lists : v.list[l] = [first |-> v.list[l].first, last |-> v.list[l].last]
      /\ v.mmio \in [Slots -> BOOLEAN] /\ v.dma \in [Slots -> BOOLEAN]
  BY Unbuild
<1>2. Unreach(v, s) = w
  <2>1. Unreach(v, s) = [v EXCEPT !.mmio = X]
    BY DEF Unreach
  <2> HIDE DEF X
  <2> QED
    BY <1>1, <2>1 DEF Vm
<1>3. X \in [Slots -> BOOLEAN] /\ \A x \in Slots : x # s => X[x] = v.mmio[x]
  BY <1>1
<1> HIDE DEF X
<1>4. Machine(w)
  BY <1>1, <1>3, Build
<1>5. /\ w.devices = v.devices /\ w.config = v.config /\ w.list = v.list
      /\ w.mmio = X /\ w.dma = v.dma /\ w.status = v.status
  BY VmFields
<1> HIDE DEF w
<1> QED
  BY <1>2, <1>3, <1>4, <1>5

(* Those that have been realized, whose links on address_spaces are good.  *)
Done(v) == With(v, Occ(v), REALIZED)

(* pci_unregister_device, of a device that is realized or was just inited. *)
LEMMA Unregister ==
    ASSUME NEW v, NEW k, NEW s \in Occ(v), Good(v, k), v.status = "ok",
           \/ s \in Done(v)
           \/ /\ ~Cell(v, s, BAR0)
              /\ ListOK(v, AS_LINK, Occ(v), Done(v) \cup {s}, Done(v) \cup {s})
    PROVE  LET w == pci_unregister_device(v, s) IN
           /\ k => w.status = "ok"
           /\ w.status = "ok" => Good(w, k)
<1> DEFINE u == IF Cell(v, s, BAR0) THEN memory_region_del_subregion(v, s) ELSE v
           N == Mapped(v) \ {s}
           w == pci_unregister_device(v, s)
<1>1. Machine(v) /\ Ok(v, Mapped(v), k) /\ s \in Slots
  BY DEF Good, Ok, Loose, Occ
<1>2. /\ k => u.status = "ok"
      /\ u.status = "ok" => /\ Ok(u, N, k) /\ Rest(v, u, {PARENT, MMIO_LINK})
                            /\ ListOK(u, AS_LINK, Occ(u), Done(u) \cup {s}, Done(u) \cup {s})
  <2>1. CASE Cell(v, s, BAR0)
    <3>1. s \in Mapped(v) /\ s \in Done(v)
      BY <2>1 DEF Mapped, With
    <3>2. u = memory_region_del_subregion(v, s)
      BY <2>1
    <3> HIDE DEF u
    <3>3. /\ k => u.status = "ok"
          /\ u.status = "ok" => Ok(u, N, k) /\ Rest(v, u, {PARENT, MMIO_LINK})
      BY <1>1, <3>1, <3>2, DelSubregion
    <3>4. ASSUME u.status = "ok"
          PROVE  ListOK(u, AS_LINK, Occ(u), Done(u) \cup {s}, Done(u) \cup {s})
      <4>1. REALIZED \in Cells \ {PARENT, MMIO_LINK}
        BY CellNames
      <4>2. Rest(v, u, {PARENT, MMIO_LINK}) /\ Loose(u, N)
        BY <3>3, <3>4 DEF Ok
      <4>3. s \in Done(u)
        BY <3>1, <4>1, <4>2 DEF Rest, Done, With
      <4>4. Done(u) \cup {s} = Done(u)
        BY <4>3
      <4> QED
        BY <4>2, <4>4 DEF Loose, Done
    <3> QED
      BY <3>3, <3>4
  <2>2. CASE ~Cell(v, s, BAR0)
    <3>1. u = v
      BY <2>2
    <3>2. N = Mapped(v)
      BY <2>2 DEF Mapped, With
    <3>3. Rest(v, v, {PARENT, MMIO_LINK})
      BY <1>1 DEF Rest
    <3>4. ListOK(v, AS_LINK, Occ(v), Done(v) \cup {s}, Done(v) \cup {s})
      <4>1. CASE s \in Done(v)
        <5>1. Done(v) \cup {s} = Done(v)
          BY <4>1
        <5> QED
          BY <1>1, <5>1 DEF Ok, Loose, Done
      <4> QED
        BY <4>1
    <3> HIDE DEF u, N
    <3> QED
      BY <1>1, <3>1, <3>2, <3>3, <3>4
  <2> QED
    BY <2>1, <2>2
<1> DEFINE q == QTAILQ_REMOVE(u, AS_LINK, s)
           y == PutSlot(q, s, NoDevice)
           z == Unreach(y, s)
<1>3. w = IF u.status # "ok" THEN u
          ELSE [q EXCEPT !.devices[s] = NoDevice, !.config[s] = {}, !.mmio[s] = FALSE, !.dma[s] = FALSE]
  BY DEF pci_unregister_device, Cell
<1> HIDE DEF w, u
<1>4. CASE u.status # "ok"
  BY <1>2, <1>3, <1>4 DEF w
<1>5. CASE u.status = "ok"
  <2>1. /\ Ok(u, N, k) /\ Rest(v, u, {PARENT, MMIO_LINK})
        /\ ListOK(u, AS_LINK, Occ(u), Done(u) \cup {s}, Done(u) \cup {s})
    BY <1>2, <1>5
  <2>2. /\ Machine(u) /\ Occ(u) = Occ(v) /\ u.config = v.config
        /\ \A x \in Occ(v) : \A c \in Cells \ {PARENT, MMIO_LINK} : Cell(u, x, c) = Cell(v, x, c)
    BY <2>1 DEF Rest
  <2>3. AS_LINK \in Lists /\ MMIO_LINK \in Lists \ {AS_LINK}
    BY CellNames
  <2>4. /\ KeepsBut(u, q, AS_LINK)
        /\ ListOK(q, AS_LINK, Occ(u) \ {s}, (Done(u) \cup {s}) \ {s}, (Done(u) \cup {s}) \ {s})
    <3>1. s \in Done(u) \cup {s}
      OBVIOUS
    <3> QED
      BY <2>1, <2>2, <2>3, <3>1, RemoveOK
  <2>5. k => Whole(q, AS_LINK, Occ(u) \ {s})
    BY <2>1, <2>2, <2>3, RemoveWhole DEF Ok, Wired
  <2> HIDE DEF q
  <2>6. /\ Machine(q) /\ Occ(q) = Occ(u) /\ q.config = u.config /\ q.mmio = u.mmio /\ q.dma = u.dma
        /\ q.status = "ok" /\ q.list[MMIO_LINK] = u.list[MMIO_LINK]
        /\ \A x \in Occ(u) : \A c \in Cells \ {AS_LINK} : Cell(q, x, c) = Cell(u, x, c)
    BY <1>5, <2>3, <2>4 DEF KeepsBut
  <2>8. w = z
    <3>1. q = Vm(q.devices, q.config, q.list, q.mmio, q.dma, q.status)
      BY <2>6, Unbuild
    <3> QED
      <4>1. w = [q EXCEPT !.devices[s] = NoDevice, !.config[s] = {}, !.mmio[s] = FALSE, !.dma[s] = FALSE]
        BY <1>3, <1>5
      <4> QED
        <5> DEFINE D == [q.devices EXCEPT ![s] = NoDevice]
                   G == [q.config EXCEPT ![s] = {}]
                   X == [q.mmio EXCEPT ![s] = FALSE]
                   Y == [q.dma EXCEPT ![s] = FALSE]
        <5>1. w = [q EXCEPT !.devices = D, !.config = G, !.mmio = X, !.dma = Y]
          BY <4>1
        <5>2. z = [Vm(D, G, q.list, q.mmio, Y, q.status) EXCEPT !.mmio = X]
          BY DEF PutSlot, Unreach, Vm
        <5> HIDE DEF D, G, X, Y, z
        <5>3. w = Vm(D, G, q.list, X, Y, q.status)
          BY <3>1, <5>1 DEF Vm
        <5> QED
          BY <5>2, <5>3 DEF Vm
  <2>7. /\ Machine(y) /\ y.list = q.list /\ y.mmio = q.mmio /\ y.status = q.status
        /\ Occ(y) = Occ(q) \ {s}
        /\ \A x \in Slots : x # s => /\ y.devices[x] = q.devices[x] /\ y.config[x] = q.config[x]
                                     /\ y.dma[x] = q.dma[x]
    BY <1>1, <2>6, EmptySlot
  <2> HIDE DEF y
  <2>9. /\ Machine(z) /\ z.list = q.list /\ z.status = "ok"
        /\ Occ(z) = Occ(q) \ {s}
        /\ \A x \in Slots : x # s => /\ z.devices[x] = q.devices[x] /\ z.config[x] = q.config[x]
                                     /\ z.dma[x] = q.dma[x] /\ z.mmio[x] = q.mmio[x]
    <3>1. /\ Machine(z) /\ z.devices = y.devices /\ z.config = y.config /\ z.list = y.list
          /\ z.dma = y.dma /\ z.status = y.status
          /\ \A x \in Slots : x # s => z.mmio[x] = y.mmio[x]
      BY <1>1, <2>7, UnreachFields
    <3> HIDE DEF z
    <3>2. Occ(z) = Occ(q) \ {s}
      BY <2>7, <3>1 DEF Occ
    <3> QED
      BY <2>6, <2>7, <3>1, <3>2
  <2> HIDE DEF z
  <2>10. /\ Occ(z) = Occ(v) \ {s} /\ Occ(z) \subseteq Slots \ {s}
         /\ \A x \in Occ(z) : /\ \A c : Cell(z, x, c) = Cell(q, x, c)
                              /\ \A c \in Cells \ {AS_LINK} : Cell(z, x, c) = Cell(u, x, c)
                              /\ z.config[x] = v.config[x] /\ z.mmio[x] = u.mmio[x] /\ z.dma[x] = u.dma[x]
    <3>1. Occ(z) = Occ(v) \ {s} /\ Occ(z) \subseteq Slots \ {s}
      BY <2>2, <2>6, <2>9 DEF Occ
    <3>2. \A x \in Occ(z) : \A c : Cell(z, x, c) = Cell(q, x, c)
      BY <2>9, <3>1 DEF Cell
    <3>3. \A x \in Occ(z) : \A c \in Cells \ {AS_LINK} : Cell(z, x, c) = Cell(u, x, c)
      BY <2>2, <2>6, <3>1, <3>2
    <3>4. \A x \in Occ(z) : z.config[x] = v.config[x] /\ z.mmio[x] = u.mmio[x] /\ z.dma[x] = u.dma[x]
      BY <2>2, <2>6, <2>9, <3>1
    <3> QED
      BY <3>1, <3>2, <3>3, <3>4
  <2>11. /\ {REALIZED, PARENT, BUS_MASTER, MMIO_LINK, BAR0} \subseteq Cells \ {AS_LINK}
         /\ {REALIZED, BUS_MASTER, BAR0} \subseteq Cells \ {PARENT, MMIO_LINK}
    BY CellNames
  <2>12. N \subseteq Occ(z) /\ Mapped(z) = N
    BY <2>2, <2>10, <2>11 DEF Mapped, With
  <2>13. SameList(u, z, MMIO_LINK, N)
    BY <2>6, <2>9, <2>10, <2>11, <2>12 DEF SameList
  <2>14. SameList(q, z, AS_LINK, Occ(u) \ {s})
    BY <2>2, <2>9, <2>10 DEF SameList
  <2>15. Loose(u, N)
    BY <2>1 DEF Ok
  <2>16. Loose(z, N)
    <3>1. /\ With(z, N, PARENT) = With(u, N, PARENT)
          /\ With(z, Occ(z), PARENT) \subseteq With(u, Occ(u), PARENT)
          /\ With(z, Occ(z), REALIZED) = (Done(u) \cup {s}) \ {s}
      BY <2>2, <2>10, <2>11, <2>12 DEF With, Done
    <3>2. ListOK(z, MMIO_LINK, N, With(z, N, PARENT), N)
      BY <2>13, <2>15, <3>1, SameListOK DEF Loose
    <3>3. ListOK(z, AS_LINK, Occ(u) \ {s}, (Done(u) \cup {s}) \ {s}, (Done(u) \cup {s}) \ {s})
      BY <2>4, <2>14, SameListOK
    <3>4. With(z, Occ(z), PARENT) \subseteq N
      BY <2>15, <3>1 DEF Loose
    <3> QED
      BY <2>2, <2>9, <2>10, <3>1, <3>2, <3>3, <3>4 DEF Loose
  <2>17. ASSUME k PROVE Wired(z, N) /\ Mastering(z)
    <3>1. Wired(u, N) /\ Mastering(v)
      BY <2>1, <2>17 DEF Ok, Good
    <3>2. Whole(z, MMIO_LINK, N)
      BY <2>13, <3>1, SameWhole DEF Wired
    <3>3. Whole(z, AS_LINK, Occ(z))
      <4>1. Whole(z, AS_LINK, Occ(u) \ {s})
        BY <2>5, <2>14, <2>17, SameWhole
      <4> QED
        BY <2>2, <2>10, <4>1
    <3>4. \A x \in Occ(z) : /\ Cell(z, x, PARENT) = (x \in N)
                            /\ z.mmio[x] = (x \in N)
                            /\ z.dma[x] = Cell(z, x, BUS_MASTER)
      BY <2>2, <2>10, <2>11, <3>1 DEF Wired
    <3>5. Mastering(z)
      BY <2>2, <2>10, <2>11, <3>1 DEF Mastering
    <3> QED
      BY <3>2, <3>3, <3>4, <3>5 DEF Wired
  <2>18. Consistent(z)
    BY <2>2, <2>10, <2>11 DEF Good, Consistent
  <2>19. Owned(z)
    <3>1. CONFIG \in Cells \ {AS_LINK} /\ CONFIG \in Cells \ {PARENT, MMIO_LINK}
      BY CellNames
    <3>2. \A x \in Occ(z) : z.devices[x].uid = q.devices[x].uid
      BY <2>9, <2>10
    <3>3. \A x \in Occ(u) : q.devices[x].uid = u.devices[x].uid
      BY <2>4 DEF KeepsBut
    <3>4. \A x \in Occ(v) : u.devices[x].uid = v.devices[x].uid
      BY <2>1 DEF Rest
    <3> QED
      BY <2>2, <2>10, <3>1, <3>2, <3>3, <3>4 DEF Good, Owned
  <2> QED
    BY <2>8, <2>9, <2>12, <2>16, <2>17, <2>18, <2>19 DEF Good, Ok, w
<1> QED
  BY <1>4, <1>5

(* do_pci_register_device, of an instance with nothing set yet.            *)
LEMMA Register ==
    ASSUME NEW v, NEW k, NEW s \in Slots \ Occ(v), Good(v, k), v.status = "ok", NEW dev, IsDev(dev),
           ~dev.mem[REALIZED], ~dev.mem[PARENT], ~dev.mem[BAR0], ~dev.mem[BUS_MASTER],
           dev.mem[CONFIG] = dev.uid
    PROVE  LET w == do_pci_register_device(v, s, dev) IN
           /\ w.status = "ok" /\ Good(w, k) /\ Occ(w) = Occ(v) \cup {s}
           /\ ListOK(w, AS_LINK, Occ(w), Done(w) \cup {s}, Done(w) \cup {s})
           /\ w.devices[s].uid = dev.uid /\ w.devices[s].name = dev.name
           /\ \A c \in Cells \ {AS_LINK} : Cell(w, s, c) = dev.mem[c]
           /\ Nx(w, AS_LINK, s) = NULL
<1> DEFINE M == Mapped(v)
           u == PutSlot(v, s, dev)
           t == Commit(u)
           w == QTAILQ_INSERT_TAIL(t, AS_LINK, s)
<1>1. Machine(v) /\ Loose(v, M) /\ s \in Slots /\ s \notin Occ(v) /\ Occ(v) \subseteq Slots
  BY DEF Good, Ok, Loose, Occ
<1>2. do_pci_register_device(v, s, dev) = w
  <2>1. v = Vm(v.devices, v.config, v.list, v.mmio, v.dma, v.status)
    BY <1>1, Unbuild
  <2>2. u = [v EXCEPT !.devices[s] = dev, !.config[s] = {}, !.dma[s] = FALSE]
    <3> DEFINE D == [v.devices EXCEPT ![s] = dev]
               G == [v.config EXCEPT ![s] = {}]
               Y == [v.dma EXCEPT ![s] = FALSE]
               e == [v EXCEPT !.devices[s] = dev, !.config[s] = {}, !.dma[s] = FALSE]
    <3>1. e = [v EXCEPT !.devices = D, !.config = G, !.dma = Y]
      OBVIOUS
    <3>2. u = Vm(D, G, v.list, v.mmio, Y, v.status)
      BY DEF PutSlot
    <3> HIDE DEF D, G, Y, u, e
    <3>3. e = Vm(D, G, v.list, v.mmio, Y, v.status)
      BY <2>1, <3>1 DEF Vm
    <3> QED
      BY <3>2, <3>3 DEF e
  <2> QED
    BY <2>2 DEF do_pci_register_device
<1>3. /\ Machine(u) /\ u.list = v.list /\ u.status = "ok"
      /\ u.devices[s] = dev /\ u.config[s] = {} /\ ~u.dma[s]
      /\ \A x \in Slots : x # s => /\ u.devices[x] = v.devices[x] /\ u.config[x] = v.config[x]
                                   /\ u.dma[x] = v.dma[x]
  BY <1>1, PutSlotFields
<1> HIDE DEF u
<1>4. dev # NoDevice
  BY DEF IsDev, NoDevice
<1>5. Occ(u) = Occ(v) \cup {s}
  BY <1>1, <1>3, <1>4 DEF Occ
<1>6. \A x \in Occ(v) : x # s /\ x \in Slots /\ \A c : Cell(u, x, c) = Cell(v, x, c)
  BY <1>1, <1>3 DEF Cell
<1>7. M \subseteq Occ(v) /\ s \notin M
  BY <1>1 DEF Mapped, With
<1> HIDE DEF M
<1>8. SameList(v, u, AS_LINK, Occ(v)) /\ SameList(v, u, MMIO_LINK, M)
  BY <1>3, <1>5, <1>6, <1>7 DEF SameList
<1>9. ListOK(v, AS_LINK, Occ(v), Done(v), Done(v)) /\ ListOK(v, MMIO_LINK, M, With(v, M, PARENT), M)
  BY <1>1 DEF Loose, Done
<1>10. ListOK(u, AS_LINK, Occ(v), Done(v), Done(v))
  BY <1>8, <1>9, SameListOK
<1>11. /\ Alike(u, t, {}) /\ t.devices = u.devices /\ t.config = u.config /\ t.status = u.status
       /\ \A x \in Slots :
            /\ t.mmio[x] = (x \in Chain(u, MMIO_LINK) /\ Cell(u, x, PARENT))
            /\ t.dma[x] = IF x \in Chain(u, AS_LINK) THEN Cell(u, x, BUS_MASTER) ELSE u.dma[x]
  BY <1>3, <1>10, CommitFields
<1> HIDE DEF t
<1>12. Machine(t) /\ Occ(t) = Occ(v) \cup {s} /\ t.list = v.list /\ \A x, c : Cell(t, x, c) = Cell(u, x, c)
  BY <1>3, <1>5, <1>11 DEF Alike, Cell
<1>13. SameList(u, t, AS_LINK, Occ(v))
  BY <1>3, <1>12 DEF SameList
<1>14. ListOK(t, AS_LINK, Occ(v), Done(v), Done(v)) /\ s \in Occ(t) \ Occ(v) /\ AS_LINK \in Lists
  BY <1>1, <1>10, <1>12, <1>13, SameListOK, CellNames
<1>15. /\ KeepsBut(t, w, AS_LINK)
       /\ ListOK(w, AS_LINK, Occ(v) \cup {s}, Done(v) \cup {s}, Done(v) \cup {s})
       /\ Nx(w, AS_LINK, s) = NULL
  BY <1>12, <1>14, InsertTailOK
<1>16. ASSUME k PROVE Whole(w, AS_LINK, Occ(v) \cup {s})
  <2>1. Whole(v, AS_LINK, Occ(v))
    BY <1>16 DEF Good, Ok, Wired
  <2>2. Whole(u, AS_LINK, Occ(v))
    BY <1>8, <2>1, SameWhole
  <2>3. Whole(t, AS_LINK, Occ(v))
    BY <1>13, <2>2, SameWhole
  <2> QED
    BY <1>12, <1>14, <2>3, InsertTailWhole
<1> HIDE DEF w
<1>17. /\ Machine(w) /\ Occ(w) = Occ(v) \cup {s} /\ w.config = u.config
       /\ w.mmio = t.mmio /\ w.dma = t.dma /\ w.status = "ok"
       /\ w.list[MMIO_LINK] = v.list[MMIO_LINK]
  BY <1>3, <1>11, <1>12, <1>15, CellNames DEF KeepsBut
<1>18. \A x \in Occ(t) :
         /\ w.devices[x].uid = t.devices[x].uid /\ w.devices[x].name = t.devices[x].name
         /\ \A c \in Cells \ {AS_LINK} : Cell(w, x, c) = Cell(t, x, c)
  BY <1>15 DEF KeepsBut
<1>19. \A x \in Occ(v) : \A c \in Cells \ {AS_LINK} : Cell(w, x, c) = Cell(v, x, c)
  BY <1>6, <1>12, <1>18
<1>20. /\ w.devices[s].uid = dev.uid /\ w.devices[s].name = dev.name
       /\ \A c \in Cells \ {AS_LINK} : Cell(w, s, c) = dev.mem[c]
  <2>1. \A c : Cell(t, s, c) = dev.mem[c]
    BY <1>3, <1>12 DEF Cell
  <2> QED
    BY <1>3, <1>11, <1>12, <1>18, <2>1
<1>21. {REALIZED, PARENT, BAR0, BUS_MASTER, MMIO_LINK} \subseteq Cells \ {AS_LINK}
  BY CellNames
<1>22. ~Cell(w, s, REALIZED) /\ ~Cell(w, s, PARENT) /\ ~Cell(w, s, BAR0) /\ ~Cell(w, s, BUS_MASTER)
  BY <1>20, <1>21
<1>23. /\ Done(w) = Done(v) /\ Mapped(w) = M
       /\ With(w, M, PARENT) = With(v, M, PARENT)
       /\ With(w, Occ(w), PARENT) = With(v, Occ(v), PARENT)
  BY <1>7, <1>17, <1>19, <1>21, <1>22 DEF Done, Mapped, With, M
<1>24. ListOK(w, AS_LINK, Occ(w), Done(w) \cup {s}, Done(w) \cup {s})
  BY <1>15, <1>17, <1>23
<1>25. SameList(v, w, MMIO_LINK, M)
  BY <1>7, <1>17, <1>19, <1>21 DEF SameList
<1>26. Loose(w, M)
  <2>1. ListOK(w, MMIO_LINK, M, With(w, M, PARENT), M)
    BY <1>9, <1>23, <1>25, SameListOK
  <2>2. ListOK(w, AS_LINK, Occ(w), Done(w), Done(w))
    BY <1>24, FewerOn
  <2>3. With(w, Occ(w), PARENT) \subseteq M
    BY <1>1, <1>23 DEF Loose
  <2> QED
    BY <1>17, <2>1, <2>2, <2>3 DEF Loose, Done
<1>27. ASSUME k PROVE Wired(w, M) /\ Mastering(w)
  <2>1. Wired(v, M) /\ Mastering(v)
    BY <1>27 DEF Good, Ok, M
  <2>2. Whole(w, AS_LINK, Occ(w))
    BY <1>16, <1>17, <1>27
  <2>3. Whole(w, MMIO_LINK, M)
    BY <1>25, <2>1, SameWhole DEF Wired
  <2>4. Chain(u, MMIO_LINK) = M /\ Chain(u, AS_LINK) = Occ(v)
    <3>1. Whole(u, MMIO_LINK, M) /\ Whole(u, AS_LINK, Occ(v))
      BY <1>8, <2>1, SameWhole DEF Wired
    <3> QED
      BY <3>1, WholeChain
  <2>5. ASSUME NEW x \in Occ(w)
        PROVE  /\ Cell(w, x, PARENT) = (x \in M) /\ w.mmio[x] = (x \in M)
               /\ w.dma[x] = Cell(w, x, BUS_MASTER)
    <3>1. x \in Slots
      BY <2>5 DEF Occ
    <3>2. w.mmio[x] = (x \in M /\ Cell(u, x, PARENT))
      BY <1>11, <1>17, <2>4, <3>1
    <3>3. CASE x = s
      <4>1. w.dma[x] = u.dma[x]
        BY <1>1, <1>11, <1>17, <2>4, <3>1, <3>3
      <4>2. {Cell(w, x, PARENT), Cell(w, x, BUS_MASTER), w.dma[x]} \subseteq BOOLEAN
        <5>1. IsDev(w.devices[x]) /\ w.dma \in [Slots -> BOOLEAN]
          BY <1>17, <2>5 DEF Machine
        <5> QED
          BY <3>1, <5>1 DEF IsDev, IsMem, Cell
      <4>3. x \notin M /\ ~Cell(w, x, PARENT) /\ ~Cell(w, x, BUS_MASTER) /\ ~w.dma[x]
        BY <1>3, <1>7, <1>22, <3>3, <4>1
      <4> QED
        BY <3>2, <4>2, <4>3
    <3>4. CASE x # s
      <4>1. x \in Occ(v)
        BY <1>17, <2>5, <3>4
      <4>2. Cell(w, x, PARENT) = Cell(v, x, PARENT) /\ Cell(w, x, BUS_MASTER) = Cell(v, x, BUS_MASTER)
        BY <1>19, <1>21, <4>1
      <4>3. Cell(v, x, PARENT) = (x \in M)
        BY <2>1, <4>1, Zenon DEF Wired
      <4>4. w.dma[x] = Cell(w, x, BUS_MASTER)
        BY <1>6, <1>11, <1>17, <2>4, <3>1, <4>1, <4>2
      <4>5. w.mmio[x] = (x \in M)
        <5>1. Cell(u, x, PARENT) = (x \in M)
          BY <1>6, <4>1, <4>3
        <5>2. x \in M => Cell(u, x, PARENT)
          BY <5>1, Zenon
        <5>3. (x \in M /\ Cell(u, x, PARENT)) = (x \in M)
          BY <5>2
        <5> QED
          BY <3>2, <5>3, Zenon
      <4>6. Cell(w, x, PARENT) = (x \in M)
        BY <4>2, <4>3, Zenon
      <4> QED
        BY <4>4, <4>5, <4>6
    <3> QED
      BY <3>3, <3>4
  <2>6. Mastering(w)
    <3>1. ASSUME NEW x \in Occ(w), "MASTER" \in w.config[x] PROVE Cell(w, x, BUS_MASTER)
      <4>1. x # s /\ x \in Occ(v)
        BY <1>3, <1>17, <3>1
      <4>2. w.config[x] = v.config[x]
        BY <1>1, <1>3, <1>17, <4>1
      <4> QED
        BY <1>19, <1>21, <2>1, <3>1, <4>1, <4>2 DEF Mastering
    <3> QED
      BY <3>1 DEF Mastering
  <2> QED
    BY <2>2, <2>3, <2>5, <2>6 DEF Wired
<1>28. Consistent(w)
  <2>1. ASSUME NEW x \in Occ(w) PROVE Cell(w, x, BAR0) = ("MEMORY" \in w.config[x])
    <3>1. CASE x = s
      <4>1. Cell(w, x, BAR0) \in BOOLEAN
        <5>1. IsDev(w.devices[x])
          BY <1>17, <2>1 DEF Machine
        <5> QED
          BY <5>1 DEF IsDev, IsMem, Cell
      <4> QED
        BY <1>3, <1>17, <1>22, <3>1, <4>1
    <3>2. CASE x # s
      <4>1. x \in Occ(v)
        BY <1>17, <2>1, <3>2
      <4>2. Cell(w, x, BAR0) = Cell(v, x, BAR0) /\ w.config[x] = v.config[x]
        BY <1>1, <1>3, <1>17, <1>19, <1>21, <3>2, <4>1
      <4>3. Cell(v, x, BAR0) = ("MEMORY" \in v.config[x])
        BY <4>1, Zenon DEF Good, Consistent
      <4> QED
        BY <4>2, <4>3, Zenon
    <3> QED
      BY <3>1, <3>2
  <2> QED
    BY <2>1 DEF Consistent
<1>29. Owned(w)
  <2>1. CONFIG \in Cells \ {AS_LINK}
    BY CellNames
  <2>2. \A x \in Occ(v) : w.devices[x].uid = v.devices[x].uid
    BY <1>3, <1>6, <1>11, <1>12, <1>18
  <2> QED
    BY <1>17, <1>19, <1>20, <2>1, <2>2 DEF Good, Owned
<1>30. Good(w, k)
  BY <1>23, <1>26, <1>27, <1>28, <1>29 DEF Good, Ok
<1> QED
  BY <1>2, <1>15, <1>17, <1>20, <1>24, <1>30 DEF w

(* The realized flag is set, on a device whose links are good.             *)
LEMMA Realized ==
    ASSUME NEW v, NEW k, NEW s \in Occ(v), Good(v, k),
           ListOK(v, AS_LINK, Occ(v), Done(v) \cup {s}, Done(v) \cup {s})
    PROVE  LET w == PutCell(v, s, REALIZED, TRUE) IN Good(w, k) /\ w.status = v.status
<1> DEFINE w == PutCell(v, s, REALIZED, TRUE)
           M == Mapped(v)
<1>1. Machine(v) /\ Loose(v, M)
  BY DEF Good, Ok, Loose
<1>2. /\ Alike(v, w, {REALIZED})
      /\ w.config = v.config /\ w.mmio = v.mmio /\ w.dma = v.dma /\ w.status = v.status
      /\ \A x \in Occ(v) : Cell(w, x, REALIZED) = IF x = s THEN TRUE ELSE Cell(v, x, REALIZED)
  BY <1>1, PutCellFields
<1> HIDE DEF w
<1>3. /\ Machine(w) /\ Occ(w) = Occ(v) /\ w.list = v.list
      /\ \A x \in Occ(v) : /\ w.devices[x].uid = v.devices[x].uid
                           /\ \A c \in Cells \ {REALIZED} : Cell(w, x, c) = Cell(v, x, c)
  BY <1>2 DEF Alike
<1>4. {PARENT, BAR0, BUS_MASTER, CONFIG, MMIO_LINK, AS_LINK} \subseteq Cells \ {REALIZED}
  BY CellNames
<1>5. Done(w) = Done(v) \cup {s} /\ Mapped(w) = M
  BY <1>2, <1>3, <1>4 DEF Done, Mapped, With
<1>6. M \subseteq Occ(v)
  BY DEF Mapped, With
<1> HIDE DEF M
<1>7. SameList(v, w, AS_LINK, Occ(v)) /\ SameList(v, w, MMIO_LINK, M)
  BY <1>3, <1>4, <1>6 DEF SameList
<1>8. ListOK(w, AS_LINK, Occ(w), Done(w), Done(w))
  BY <1>3, <1>5, <1>7, SameListOK
<1>9. With(w, M, PARENT) = With(v, M, PARENT) /\ With(w, Occ(w), PARENT) = With(v, Occ(v), PARENT)
  BY <1>3, <1>4, <1>6 DEF With
<1>10. ListOK(w, MMIO_LINK, M, With(w, M, PARENT), M)
  BY <1>1, <1>7, <1>9, SameListOK DEF Loose
<1>11. Loose(w, M)
  BY <1>1, <1>3, <1>8, <1>9, <1>10 DEF Loose, Done
<1>12. ASSUME k PROVE Wired(w, M) /\ Mastering(w)
  <2>1. Wired(v, M) /\ Mastering(v)
    BY <1>12 DEF Good, Ok, M
  <2>2. Whole(w, MMIO_LINK, M) /\ Whole(w, AS_LINK, Occ(w))
    BY <1>3, <1>7, <2>1, SameWhole DEF Wired
  <2>3. \A x \in Occ(w) : /\ Cell(w, x, PARENT) = (x \in M) /\ w.mmio[x] = (x \in M)
                          /\ w.dma[x] = Cell(w, x, BUS_MASTER)
    BY <1>2, <1>3, <1>4, <2>1 DEF Wired
  <2>4. Mastering(w)
    BY <1>2, <1>3, <1>4, <2>1 DEF Mastering
  <2> QED
    BY <2>2, <2>3, <2>4 DEF Wired
<1>13. Consistent(w) /\ Owned(w)
  BY <1>2, <1>3, <1>4 DEF Good, Consistent, Owned
<1> QED
  BY <1>2, <1>5, <1>11, <1>12, <1>13 DEF Good, Ok, w

-----------------------------------------------------------------------------
(* The snapshot and the flip                                               *)

(* The memory of an instance when it has just been initialised.            *)
LEMMA InitMemIs ==
    ASSUME NEW n
    PROVE  LET m == InitMem(n) IN
           /\ IsMem(m) /\ m[CONFIG] = n /\ m[NIC] = n
           /\ \A c \in {REALIZED, BAR0, BUS_MASTER, PARENT} : m[c] = FALSE
           /\ \A c \in Registers : m[c] = "init"
           /\ m[MMIO_LINK] = [next |-> NULL, prev |-> NULL]
<1> DEFINE m == InitMem(n)
<1>1. \A c \in Cells :
        m[c] = CASE c \in {CONFIG, NIC} -> n
                 [] c \in {REALIZED, BAR0, BUS_MASTER, PARENT} -> FALSE
                 [] c \in Lists -> [next |-> NULL, prev |-> NULL]
                 [] c = CLASS -> "class"
                 [] OTHER -> "init"
  BY DEF InitMem
<1>2. m = [c \in Cells |-> m[c]]
  BY DEF InitMem
<1> HIDE DEF m
<1>3. m[CONFIG] = n /\ m[NIC] = n
  BY <1>1 DEF Cells, CLASS, TSE, CONFIG, NIC, REALIZED, BAR0, BUS_MASTER, PARENT, Lists, MMIO_LINK, AS_LINK
<1>4. ASSUME NEW c \in {REALIZED, BAR0, BUS_MASTER, PARENT} PROVE m[c] = FALSE
  <2>1. c \in Cells /\ c \notin {CONFIG, NIC} /\ c \notin Lists /\ c # CLASS
    BY DEF Cells, CLASS, TSE, CONFIG, NIC, REALIZED, BAR0, BUS_MASTER, PARENT, Lists, MMIO_LINK, AS_LINK
  <2>2. m[c] = CASE c \in {CONFIG, NIC} -> n
                 [] c \in {REALIZED, BAR0, BUS_MASTER, PARENT} -> FALSE
                 [] c \in Lists -> [next |-> NULL, prev |-> NULL]
                 [] c = CLASS -> "class"
                 [] OTHER -> "init"
    BY <1>1, <2>1
  <2> QED
    BY <2>1, <2>2, Zenon
<1>5. \A l \in Lists : m[l] = [next |-> NULL, prev |-> NULL]
  BY <1>1 DEF Cells, CLASS, TSE, CONFIG, NIC, REALIZED, BAR0, BUS_MASTER, PARENT, Lists, MMIO_LINK, AS_LINK
<1>6. \A c \in Registers : m[c] = "init"
  BY <1>1 DEF Cells, CLASS, TSE, CONFIG, NIC, REALIZED, BAR0, BUS_MASTER, PARENT, Lists, MMIO_LINK, AS_LINK,
              Registers, IRQ_STATE, MAC_REG
<1>7. IsMem(m)
  <2>1. \A l \in Lists : m[l] = [next |-> m[l].next, prev |-> m[l].prev]
    BY <1>5
  <2> QED
    BY <1>2, <1>4, <2>1 DEF IsMem
<1> QED
  BY <1>3, <1>4, <1>5, <1>6, <1>7 DEF Lists, m

(* What the vmsd of the e1000 has device_load_state copy back.             *)
Copied == {CLASS, CONFIG, BAR0, IRQ_STATE, MAC_REG, MAC_REG + 1}

(* device_load_state copies the cells that the vmsd lists, nested and in   *)
(* arrays, and leaves the others.                                          *)
LEMMA LoadCopies ==
    ASSUME NEW o, NEW w
    PROVE  device_load_state(vmstate_e1000, o, w) = [c \in Cells |-> IF c \in Copied THEN w[c] ELSE o[c]]
<1> DEFINE E == vmstate_e1000
           P == vmstate_pci_device
           OfField(f) == IF f.sub = <<>> THEN Covered(f, 0)
                         ELSE UNION {Covered(f.sub[j], f.offset + f.size * i) :
                                        i \in 0..f.num - 1, j \in DOMAIN f.sub}
           All == UNION {OfField(E[i]) : i \in DOMAIN E}
<1>1. device_load_state(E, o, w) = [c \in Cells |-> IF c \in All THEN w[c] ELSE o[c]]
  BY DEF device_load_state
<1>2. OfField(E[1]) = {CONFIG, BAR0, IRQ_STATE}
  <2>1. /\ E[1].sub = P /\ E[1].offset = 0 /\ E[1].size = 7 /\ E[1].num = 1
    BY DEF vmstate_e1000, Field, CLASS
  <2>2. Covered(P[1], 0) = {CONFIG, BAR0} /\ Covered(P[2], 0) = {IRQ_STATE}
    BY DEF Covered, vmstate_pci_device, Field, CONFIG, BAR0, IRQ_STATE
  <2>3. P # <<>> /\ DOMAIN P = {1, 2}
    BY DEF vmstate_pci_device
  <2> HIDE DEF E, P
  <2>4. OfField(E[1]) = UNION {Covered(P[j], 0 + 7 * i) : i \in 0..1 - 1, j \in {1, 2}}
    BY <2>1, <2>3
  <2>5. \A i \in 0..1 - 1 : 0 + 7 * i = 0
    OBVIOUS
  <2>6. 0 \in 0..1 - 1
    OBVIOUS
  <2>7. \A x : x \in OfField(E[1]) <=> x \in Covered(P[1], 0) \/ x \in Covered(P[2], 0)
    <3> HIDE DEF OfField
    <3> QED
      BY <2>4, <2>5, <2>6
  <2> HIDE DEF OfField
  <2> QED
    BY <2>2, <2>7
<1>3. OfField(E[2]) = {}
  BY DEF vmstate_e1000, Field, Covered
<1>4. OfField(E[3]) = {CLASS}
  BY DEF vmstate_e1000, Field, Covered, CLASS
<1>5. OfField(E[4]) = {MAC_REG, MAC_REG + 1}
  BY DEF vmstate_e1000, Field, Covered, MAC_REG
<1>6. DOMAIN E = {1, 2, 3, 4}
  BY DEF vmstate_e1000
<1> HIDE DEF E
<1>7. All = OfField(E[1]) \cup OfField(E[2]) \cup OfField(E[3]) \cup OfField(E[4])
  <2> HIDE DEF OfField
  <2> QED
    BY <1>6
<1>8. All = Copied
  <2> HIDE DEF OfField, All
  <2> QED
    BY <1>2, <1>3, <1>4, <1>5, <1>7 DEF Copied
<1> QED
  BY <1>1, <1>8 DEF E

(* What a flip does to a list: the flipped instances F are still on it,    *)
(* but no link of theirs leads anywhere.                                   *)
LEMMA FlippedList ==
    ASSUME NEW v, NEW w, NEW l, NEW M, NEW On, NEW Tr, NEW A, NEW B, NEW F, ListOK(v, l, M, On, Tr),
           M \subseteq Occ(w), w.list[l] = v.list[l], A \subseteq On \ F, A \subseteq B, B \subseteq Tr,
           \A x \in M \ F : Cell(w, x, l) = Cell(v, x, l),
           \A x \in M \cap F : Nx(w, l, x) = NULL,
           \A x \in B \cap F : Pv(w, l, x) = NULL
    PROVE  ListOK(w, l, M, A, B)
<1>1. \A x \in M : x \notin F => Nx(w, l, x) = Nx(v, l, x) /\ Pv(w, l, x) = Pv(v, l, x)
  BY DEF Nx, Pv, Cell
<1>2. M \subseteq Slots /\ A \subseteq M /\ B \subseteq M /\ NULL \notin Slots
  BY Pointers DEF ListOK, Occ
<1>3. \A x \in M : Nx(w, l, x) \in M \cup {NULL}
  BY <1>1 DEF ListOK
<1>4. \A x \in B : Pv(w, l, x) \in M \cup {NULL, HEAD}
  BY <1>1, <1>2 DEF ListOK
<1>5. \A s \in A : /\ Pv(w, l, s) # NULL
                   /\ w.list[l].first = s => Pv(w, l, s) = HEAD
                   /\ w.list[l].last = s => Nx(w, l, s) = NULL
  BY <1>1, <1>2 DEF ListOK
<1>6. \A s \in A, x \in M : Nx(w, l, x) = s => Pv(w, l, s) = x
  BY <1>1, <1>2 DEF ListOK
<1>7. \A s \in A, x \in B : Pv(w, l, x) = s => Nx(w, l, s) = x
  BY <1>1, <1>2 DEF ListOK
<1>8. w.list[l].first \in M \cup {NULL} /\ w.list[l].last \in M \cup {HEAD}
  BY DEF ListOK
<1> QED
  BY <1>2, <1>3, <1>4, <1>5, <1>6, <1>7, <1>8 DEF ListOK

(* The table is a sequence of snapshots.                                   *)
Table == Snapshots(g_dss, created) /\ g_dss \in Seq({g_dss[i] : i \in DOMAIN g_dss})

(* The entry found for a name is one of the table, with that name.         *)
LEMMA FirstMatchIs ==
    ASSUME Table, NEW name, Matches(name) # {}
    PROVE  \E i \in DOMAIN g_dss : FirstMatch(name) = g_dss[i] /\ g_dss[i].name = name
<1>1. Matches(name) \subseteq DOMAIN g_dss /\ \A i \in Matches(name) : g_dss[i].name = name
  BY DEF Matches
<1>2. DOMAIN g_dss \subseteq Nat
  BY DEF Table
<1>3. \E i \in Matches(name) : \A j \in Matches(name) : i <= j
  BY <1>1, <1>2, LeastNumber
<1>4. PICK i \in Matches(name) : i = CHOOSE h \in Matches(name) : \A j \in Matches(name) : h <= j
  BY <1>3, Zenon
<1> QED
  BY <1>1, <1>4 DEF FirstMatch

(* The machine after test-device name.                                     *)
FlipOf(name) == [vm EXCEPT !.devices = find_device_state_by_name(name)]

(* An instance and what a flip with entry i of the table makes of it.      *)
FlipsTo(d, e, i) ==
    /\ g_dss[i].name = d.name /\ e.uid = d.uid /\ e.name = d.name
    /\ \A c \in Cells : e.mem[c] = IF c \in Copied THEN d.mem[c] ELSE g_dss[i].mem[c]

(* Which cells survive a flip: CONFIG, BAR0 and the registers but TSE; no  *)
(* link, no parent, not bus mastering and not dev->realized.               *)
LEMMA CopiedCells ==
    /\ Copied \subseteq Cells /\ CONFIG \in Copied /\ BAR0 \in Copied
    /\ \A c \in {REALIZED, BUS_MASTER, PARENT, NIC, TSE} : c \in Cells \ Copied
    /\ \A l \in Lists : l \in Cells \ Copied
    /\ \A c \in Registers \ {TSE} : c \in Copied
BY DEF Copied, Cells, Lists, Registers, CLASS, REALIZED, CONFIG, BAR0, AS_LINK, BUS_MASTER, IRQ_STATE, NIC,
       PARENT, MMIO_LINK, MAC_REG, TSE

(* A flip: each instance is as it was, or an entry of the table with the   *)
(* cells kept that the vmsd lists.                                         *)
LEMMA Flipped ==
    ASSUME Machine(vm), Table, NEW name
    PROVE  LET w == FlipOf(name) IN
           /\ Machine(w) /\ Occ(w) = Occ(vm) /\ w.config = vm.config /\ w.list = vm.list
           /\ w.mmio = vm.mmio /\ w.dma = vm.dma /\ w.status = vm.status
           /\ \A x \in Occ(vm) : \/ w.devices[x] = vm.devices[x]
                                 \/ \E i \in DOMAIN g_dss : FlipsTo(vm.devices[x], w.devices[x], i)
<1> DEFINE D == find_device_state_by_name(name)
           w == Vm(D, vm.config, vm.list, vm.mmio, vm.dma, vm.status)
<1>1. /\ vm = Vm(vm.devices, vm.config, vm.list, vm.mmio, vm.dma, vm.status)
      /\ vm.devices = [x \in Slots |-> vm.devices[x]] /\ vm.config = [x \in Slots |-> vm.config[x]]
      /\ \A x \in Slots : vm.devices[x] # NoDevice => IsDev(vm.devices[x])
      /\ vm.list = [l \in Lists |-> vm.list[l]]
      /\ \A l \in Lists : vm.list[l] = [first |-> vm.list[l].first, last |-> vm.list[l].last]
      /\ vm.mmio \in [Slots -> BOOLEAN] /\ vm.dma \in [Slots -> BOOLEAN]
  BY Unbuild
<1>2. FlipOf(name) = w
  <2> HIDE DEF D
  <2> QED
    BY <1>1 DEF FlipOf, Vm, D
<1>3. D = [x \in Slots |-> D[x]]
  BY DEF find_device_state_by_name
<1>4. \A x \in Slots :
        D[x] = IF vm.devices[x] # NoDevice /\ vm.devices[x].name = name
               THEN [vm.devices[x] EXCEPT !.mem = device_nap_reset(name, vm.devices[x].mem)]
               ELSE vm.devices[x]
  BY DEF find_device_state_by_name, Live
<1> HIDE DEF D
<1>5. ASSUME NEW x \in Occ(vm)
      PROVE  /\ D[x] # NoDevice /\ IsDev(D[x])
             /\ \/ D[x] = vm.devices[x]
                \/ \E i \in DOMAIN g_dss : FlipsTo(vm.devices[x], D[x], i)
  <2> DEFINE d == vm.devices[x]
  <2>1. x \in Slots /\ d # NoDevice /\ IsDev(d)
    BY <1>1, <1>5 DEF Occ
  <2>2. d = [uid |-> d.uid, name |-> d.name, mem |-> d.mem]
    BY <2>1 DEF IsDev
  <2>3. D[x] = IF d.name = name THEN [d EXCEPT !.mem = device_nap_reset(name, d.mem)] ELSE d
    BY <1>4, <2>1
  <2> HIDE DEF d
  <2>4. CASE d.name # name \/ Matches(name) = {}
    <3>1. [d EXCEPT !.mem = d.mem] = d
      BY <2>2
    <3>2. D[x] = d
      BY <2>3, <2>4, <3>1 DEF device_nap_reset
    <3> QED
      BY <2>1, <3>2 DEF d
  <2>5. CASE d.name = name /\ Matches(name) # {}
    <3>1. PICK i \in DOMAIN g_dss : FirstMatch(name) = g_dss[i] /\ g_dss[i].name = name
      BY <2>5, FirstMatchIs
    <3> DEFINE g == g_dss[i]
               m == [c \in Cells |-> IF c \in Copied THEN d.mem[c] ELSE g.mem[c]]
    <3>2. device_nap_reset(name, d.mem) = m
      BY <2>5, <3>1, LoadCopies DEF device_nap_reset
    <3>3. D[x] = [uid |-> d.uid, name |-> d.name, mem |-> m]
      <4> HIDE DEF m
      <4> QED
        BY <2>2, <2>3, <2>5, <3>2
    <3>4. IsDev(g)
      BY DEF Table, Snapshots, IsSnapshot
    <3> HIDE DEF g
    <3>5. \A c \in Cells : m[c] = IF c \in Copied THEN d.mem[c] ELSE g.mem[c]
      OBVIOUS
    <3>6. IsMem(m)
      <4>1. m = [c \in Cells |-> m[c]]
        OBVIOUS
      <4> HIDE DEF m
      <4>2. \A c \in {REALIZED, BAR0, BUS_MASTER, PARENT} : m[c] \in BOOLEAN
        BY <2>1, <3>4, <3>5, CopiedCells DEF IsDev, IsMem
      <4>3. \A l \in Lists : m[l] = [next |-> m[l].next, prev |-> m[l].prev]
        BY <2>1, <3>4, <3>5, CopiedCells DEF IsDev, IsMem
      <4> QED
        BY <4>1, <4>2, <4>3 DEF IsMem
    <3> HIDE DEF m
    <3>7. D[x].uid = d.uid /\ D[x].name = d.name /\ D[x].mem = m
      BY <3>3
    <3>8. IsDev(D[x]) /\ D[x] # NoDevice
      BY <2>1, <3>3, <3>6, <3>7 DEF IsDev, NoDevice
    <3>9. FlipsTo(d, D[x], i)
      BY <2>5, <3>1, <3>5, <3>7 DEF FlipsTo, g
    <3> QED
      BY <3>8, <3>9 DEF d
  <2> QED
    BY <2>4, <2>5
<1>6. \A x \in Slots : x \notin Occ(vm) => D[x] = NoDevice
  BY <1>4 DEF Occ
<1>7. \A x \in Slots : D[x] # NoDevice => IsDev(D[x])
  BY <1>5, <1>6
<1>8. Machine(w)
  BY <1>1, <1>3, <1>7, Build
<1>9. /\ w.devices = D /\ w.config = vm.config /\ w.list = vm.list
      /\ w.mmio = vm.mmio /\ w.dma = vm.dma /\ w.status = vm.status
  BY VmFields
<1> HIDE DEF w
<1>10. Occ(w) = Occ(vm)
  BY <1>5, <1>6, <1>9 DEF Occ
<1> QED
  BY <1>2, <1>5, <1>8, <1>9, <1>10

(* A flip keeps the invariant, and the wiring if the cells of it are kept. *)
LEMMA FlipKeeps ==
    ASSUME Good(vm, clean), Table, NEW name, NEW k,
           k => /\ clean
                /\ \A s \in Slots : Live(s) => Wiring(FlipOf(name).devices[s]) = Wiring(vm.devices[s])
    PROVE  Good(FlipOf(name), k)
<1> DEFINE w == FlipOf(name)
           M == Mapped(vm)
           F == {x \in Occ(vm) : w.devices[x] # vm.devices[x]}
<1>1. Machine(vm) /\ Loose(vm, M)
  BY DEF Good, Ok, Loose
<1>2. /\ Machine(w) /\ Occ(w) = Occ(vm) /\ w.config = vm.config /\ w.list = vm.list
      /\ w.mmio = vm.mmio /\ w.dma = vm.dma /\ w.status = vm.status
      /\ \A x \in Occ(vm) : \/ w.devices[x] = vm.devices[x]
                            \/ \E i \in DOMAIN g_dss : FlipsTo(vm.devices[x], w.devices[x], i)
  BY <1>1, Flipped
<1>3. k => /\ clean
           /\ \A s \in Slots : Live(s) => Wiring(w.devices[s]) = Wiring(vm.devices[s])
  OBVIOUS
<1> HIDE DEF w
<1>4. \A x \in Occ(vm) \ F : w.devices[x] = vm.devices[x] /\ \A c : Cell(w, x, c) = Cell(vm, x, c)
  BY DEF Cell
<1>5. ASSUME NEW x \in F
      PROVE  /\ w.devices[x].uid = vm.devices[x].uid
             /\ \A c \in Copied : Cell(w, x, c) = Cell(vm, x, c)
             /\ ~Cell(w, x, REALIZED) /\ ~Cell(w, x, PARENT)
             /\ Nx(w, AS_LINK, x) = NULL /\ Nx(w, MMIO_LINK, x) = NULL /\ Pv(w, MMIO_LINK, x) = NULL
  <2>1. PICK i \in DOMAIN g_dss : FlipsTo(vm.devices[x], w.devices[x], i)
    BY <1>2
  <2>2. IsSnapshot(g_dss[i], created)
    BY DEF Table, Snapshots
  <2>3. /\ w.devices[x].uid = vm.devices[x].uid
        /\ \A c \in Cells : Cell(w, x, c) = IF c \in Copied THEN Cell(vm, x, c) ELSE g_dss[i].mem[c]
    BY <2>1 DEF FlipsTo, Cell
  <2>4. /\ Cell(w, x, REALIZED) = g_dss[i].mem[REALIZED] /\ Cell(w, x, PARENT) = g_dss[i].mem[PARENT]
        /\ Cell(w, x, AS_LINK) = g_dss[i].mem[AS_LINK] /\ Cell(w, x, MMIO_LINK) = g_dss[i].mem[MMIO_LINK]
    BY <2>3, CopiedCells DEF Lists
  <2>5. ~g_dss[i].mem[REALIZED] /\ ~g_dss[i].mem[PARENT]
    BY <2>2 DEF IsSnapshot
  <2>6. /\ g_dss[i].mem[AS_LINK].next = NULL /\ g_dss[i].mem[MMIO_LINK].next = NULL
        /\ g_dss[i].mem[MMIO_LINK].prev = NULL
    BY <2>2 DEF IsSnapshot
  <2>7. Nx(w, AS_LINK, x) = NULL /\ Nx(w, MMIO_LINK, x) = NULL /\ Pv(w, MMIO_LINK, x) = NULL
    BY <2>4, <2>6 DEF Nx, Pv, Cell
  <2> QED
    BY <2>3, <2>4, <2>5, <2>7, CopiedCells
<1>6. F \subseteq Occ(vm) /\ M \subseteq Occ(vm)
  BY DEF Mapped, With
<1> HIDE DEF F
<1>7. \A x \in Occ(vm) : w.devices[x].uid = vm.devices[x].uid /\ \A c \in Copied : Cell(w, x, c) = Cell(vm, x, c)
  BY <1>4, <1>5
<1>8. Mapped(w) = M
  BY <1>2, <1>7, CopiedCells DEF Mapped, With
<1>9. /\ With(w, Occ(w), REALIZED) \subseteq With(vm, Occ(vm), REALIZED) \ F
      /\ With(w, Occ(w), PARENT) \subseteq With(vm, Occ(vm), PARENT) \ F
      /\ With(w, M, PARENT) \subseteq With(vm, M, PARENT) \ F
  BY <1>2, <1>4, <1>5, <1>6 DEF With
<1> HIDE DEF M
<1>10. ListOK(w, MMIO_LINK, M, With(w, M, PARENT), M)
  <2>1. ListOK(vm, MMIO_LINK, M, With(vm, M, PARENT), M)
    BY <1>1 DEF Loose
  <2>2. With(w, M, PARENT) \subseteq M
    BY DEF With
  <2>3. \A x \in M \ F : Cell(w, x, MMIO_LINK) = Cell(vm, x, MMIO_LINK)
    BY <1>4, <1>6
  <2>4. \A x \in M \cap F : Nx(w, MMIO_LINK, x) = NULL /\ Pv(w, MMIO_LINK, x) = NULL
    BY <1>5
  <2> QED
    BY <1>2, <1>6, <1>9, <2>1, <2>2, <2>3, <2>4, FlippedList
<1>11. ListOK(w, AS_LINK, Occ(w), With(w, Occ(w), REALIZED), With(w, Occ(w), REALIZED))
  <2>1. ListOK(vm, AS_LINK, Occ(vm), With(vm, Occ(vm), REALIZED), With(vm, Occ(vm), REALIZED))
    BY <1>1 DEF Loose
  <2>2. \A x \in Occ(vm) \ F : Cell(w, x, AS_LINK) = Cell(vm, x, AS_LINK)
    BY <1>4
  <2>3. \A x \in Occ(vm) \cap F : Nx(w, AS_LINK, x) = NULL
    BY <1>5
  <2>4. With(w, Occ(w), REALIZED) \cap F = {}
    BY <1>9
  <2> QED
    BY <1>2, <1>9, <2>1, <2>2, <2>3, <2>4, FlippedList
<1>12. Loose(w, M)
  <2>1. With(w, Occ(w), PARENT) \subseteq M
    BY <1>1, <1>9 DEF Loose
  <2> QED
    BY <1>2, <1>10, <1>11, <2>1 DEF Loose
<1>13. ASSUME k PROVE Wired(w, M) /\ Mastering(w)
  <2>1. Wired(vm, M) /\ Mastering(vm)
    BY <1>3, <1>13 DEF Good, Ok, M
  <2>2. \A x \in Occ(vm) : \A c \in {AS_LINK, BUS_MASTER, PARENT, MMIO_LINK} : Cell(w, x, c) = Cell(vm, x, c)
    <3> SUFFICES ASSUME NEW x \in Occ(vm), NEW c \in {AS_LINK, BUS_MASTER, PARENT, MMIO_LINK}
                 PROVE  Cell(w, x, c) = Cell(vm, x, c)
      OBVIOUS
    <3>1. Wiring(w.devices[x]) = Wiring(vm.devices[x])
      BY <1>3, <1>13 DEF Occ, Live
    <3>2. Wiring(w.devices[x])[c] = Cell(w, x, c) /\ Wiring(vm.devices[x])[c] = Cell(vm, x, c)
      BY DEF Wiring, Cell
    <3> QED
      BY <3>1, <3>2
  <2>3. SameList(vm, w, MMIO_LINK, M) /\ SameList(vm, w, AS_LINK, Occ(vm))
    BY <1>2, <1>6, <2>2 DEF SameList
  <2>4. Whole(w, MMIO_LINK, M) /\ Whole(w, AS_LINK, Occ(w))
    BY <1>2, <2>1, <2>3, SameWhole DEF Wired
  <2>5. \A x \in Occ(w) : /\ Cell(w, x, PARENT) = (x \in M) /\ w.mmio[x] = (x \in M)
                          /\ w.dma[x] = Cell(w, x, BUS_MASTER)
    BY <1>2, <2>1, <2>2 DEF Wired
  <2>6. Mastering(w)
    BY <1>2, <2>1, <2>2 DEF Mastering
  <2> QED
    BY <2>4, <2>5, <2>6 DEF Wired
<1>14. Consistent(w) /\ Owned(w)
  BY <1>2, <1>7, CopiedCells DEF Good, Consistent, Owned
<1> QED
  BY <1>8, <1>12, <1>13, <1>14 DEF Good, Ok, w

-----------------------------------------------------------------------------
(* The invariant                                                           *)

(* A sequence is one over its own elements.                                *)
LEMMA RangeSeq ==
    ASSUME NEW S, NEW g \in Seq(S)
    PROVE  g \in Seq({g[i] : i \in DOMAIN g})
<1>1. DOMAIN g = 1..Len(g) /\ Len(g) \in Nat /\ g = [i \in 1..Len(g) |-> g[i]]
  OBVIOUS
<1> DEFINE R == {g[i] : i \in DOMAIN g}
<1>2. g \in [1..Len(g) -> R]
  BY <1>1
<1> HIDE DEF R
<1>3. g \in Seq(R)
  BY <1>1, <1>2
<1> QED
  BY <1>3 DEF R

(* The empty machine.                                                      *)
LEMMA InitDiscInv == Init => DiscInv
<1> SUFFICES ASSUME Init PROVE DiscInv
  OBVIOUS
<1> DEFINE X == [s \in Slots |-> FALSE]
           L == [l \in Lists |-> [first |-> NULL, last |-> HEAD]]
<1>1. vm = Vm([s \in Slots |-> NoDevice], [s \in Slots |-> {}], L, X, X, "ok")
  BY DEF Init, Vm
<1>2. Machine(vm)
  <2> DEFINE D == [s \in Slots |-> NoDevice]
             G == [s \in Slots |-> {}]
  <2>1. D = [s \in Slots |-> D[s]] /\ G = [s \in Slots |-> G[s]] /\ L = [l \in Lists |-> L[l]]
    OBVIOUS
  <2>2. X \in [Slots -> BOOLEAN]
    OBVIOUS
  <2>3. \A s \in Slots : D[s] # NoDevice => IsDev(D[s])
    OBVIOUS
  <2>4. \A l \in Lists : L[l] = [first |-> L[l].first, last |-> L[l].last]
    OBVIOUS
  <2> HIDE DEF D, G, L, X
  <2>5. vm = Vm(D, G, L, X, X, "ok")
    BY <1>1 DEF D, G
  <2> QED
    BY <2>1, <2>2, <2>3, <2>4, <2>5, Build
<1>3. Occ(vm) = {} /\ \A l \in Lists : vm.list[l].first = NULL /\ vm.list[l].last = HEAD
  BY DEF Init, Occ
<1>4. Mapped(vm) = {} /\ \A c : With(vm, {}, c) = {}
  BY <1>3 DEF Mapped, With
<1>5. \A l \in Lists : Whole(vm, l, {})
  <2> SUFFICES ASSUME NEW l \in Lists PROVE Whole(vm, l, {})
    OBVIOUS
  <2>1. ListOK(vm, l, {}, {}, {})
    BY <1>3 DEF ListOK
  <2>2. [s \in Slots |-> 0] \in [Slots -> Nat]
    OBVIOUS
  <2>3. \E r \in [Slots -> Nat] : \A s \in {} : Pv(vm, l, s) \in {} => r[Pv(vm, l, s)] < r[s]
    BY <2>2
  <2> QED
    BY <1>3, <2>1, <2>3 DEF Whole
<1>6. MMIO_LINK \in Lists /\ AS_LINK \in Lists
  BY CellNames
<1>7. ListOK(vm, MMIO_LINK, {}, {}, {}) /\ ListOK(vm, AS_LINK, {}, {}, {})
  BY <1>5, <1>6 DEF Whole
<1>8. Loose(vm, {})
  BY <1>2, <1>3, <1>4, <1>7 DEF Loose
<1>9. Wired(vm, {})
  BY <1>3, <1>5, <1>6 DEF Wired
<1>10. MachineInv
  BY <1>3, <1>4, <1>8, <1>9 DEF MachineInv
<1>11. Snapshots(g_dss, created) /\ created \in Nat /\ g_dss \in Seq({g_dss[i] : i \in DOMAIN g_dss})
  BY DiscAssumption DEF Init, Snapshots
<1>12. vm.status = "ok"
  BY DEF Init
<1> QED
  BY <1>10, <1>11, <1>12 DEF DiscInv

(* The invariant again, by the machine that the step leaves.               *)
LEMMA Again ==
    ASSUME created' \in Nat, Snapshots(g_dss', created'),
           g_dss' \in Seq({(g_dss')[i] : i \in DOMAIN g_dss'}),
           vm'.status = "ok" => Good(vm', clean'),
           clean' => vm'.status \notin {"aborted", "crashed"}
    PROVE  DiscInv'
<1>1. vm'.status = "ok" => MachineInv'
  BY DEF Good, Ok, Consistent, Owned, Mastering, MachineInv
<1> QED
  BY <1>1 DEF DiscInv

(* More devices have been created.                                         *)
LEMMA Older ==
    ASSUME NEW g, NEW n \in Nat, Snapshots(g, n)
    PROVE  Snapshots(g, n + 1)
<1>1. \A d : IsSnapshot(d, n) => IsSnapshot(d, n + 1)
  BY DEF IsSnapshot
<1> QED
  BY <1>1 DEF Snapshots

(* A sequence, of whatever its elements are.                               *)
IsSequence(g) == g \in Seq({g[i] : i \in DOMAIN g})

(* The snapshot of the device that has just been created.                  *)
LEMMA OneMore ==
    ASSUME NEW g, NEW n \in Nat, Snapshots(g, n), IsSequence(g),
           Len(g) < MAX_DEV_SNAPSHOTS, NEW d, IsSnapshot(d, n + 1), d.uid = n + 1
    PROVE  /\ Snapshots(Append(g, d), n + 1)
           /\ IsSequence(Append(g, d))
<1> DEFINE S == {g[i] : i \in DOMAIN g} \cup {d}
           h == Append(g, d)
<1>1. Len(g) \in Nat /\ DOMAIN g = 1..Len(g) /\ g \in Seq(S) /\ d \in S
  <2>1. g \in Seq({g[i] : i \in DOMAIN g})
    BY DEF IsSequence
  <2> DEFINE R == {g[i] : i \in DOMAIN g}
  <2> HIDE DEF R
  <2>2. g \in Seq(R \cup {d})
    BY <2>1 DEF R
  <2> QED
    BY <2>1, <2>2 DEF R
<1> HIDE DEF S
<1>2. h \in Seq(S) /\ Len(h) = Len(g) + 1 /\ DOMAIN h = 1..Len(g) + 1
  BY <1>1
<1>3. h[Len(g) + 1] = d /\ \A i \in 1..Len(g) : h[i] = g[i]
  BY <1>1
<1> HIDE DEF h
<1>4. Len(h) <= MAX_DEV_SNAPSHOTS
  BY <1>1, <1>2, DiscAssumption
<1>5. \A e : IsSnapshot(e, n) => IsSnapshot(e, n + 1) /\ e.uid # n + 1
  BY DEF IsSnapshot
<1>6. \A i \in DOMAIN g : IsSnapshot(g[i], n)
  BY DEF Snapshots
<1>7. \A i \in DOMAIN h : IsSnapshot(h[i], n + 1)
  BY <1>1, <1>2, <1>3, <1>5, <1>6
<1>8. \A i, j \in DOMAIN h : h[i].uid = h[j].uid => i = j
  <2> SUFFICES ASSUME NEW i \in DOMAIN h, NEW j \in DOMAIN h, h[i].uid = h[j].uid PROVE i = j
    OBVIOUS
  <2>1. \A y \in 1..Len(g) : h[y] = g[y] /\ g[y].uid # n + 1
    BY <1>1, <1>3, <1>5, <1>6
  <2>2. \A y \in DOMAIN h : y \in 1..Len(g) \/ y = Len(g) + 1
    BY <1>1, <1>2
  <2>3. \A y, z \in 1..Len(g) : g[y].uid = g[z].uid => y = z
    BY <1>1 DEF Snapshots
  <2> QED
    BY <1>3, <2>1, <2>2, <2>3
<1>9. IsSequence(h)
  BY <1>2, RangeSeq DEF IsSequence
<1> QED
  BY <1>4, <1>7, <1>8, <1>9 DEF Snapshots, h

(* What the invariant says while the process runs.                         *)
LEMMA Running ==
    ASSUME DiscInv, vm.status = "ok"
    PROVE  Good(vm, clean) /\ Table /\ created \in Nat /\ Machine(vm) /\ Occ(vm) \subseteq Slots
<1>1. MachineInv
  BY DEF DiscInv
<1>2. Good(vm, clean)
  BY <1>1, GoodIsMachineInv
<1> QED
  BY <1>2 DEF DiscInv, Table, Good, Ok, Loose, Occ

(* Plugging in a device, which may take its snapshot.                      *)
LEMMA PlugKeeps ==
    ASSUME DiscInv, Plug PROVE DiscInv'
<1>1. vm.status = "ok" /\ created' = created + 1 /\ UNCHANGED <<running, removed, announced, clean>>
  BY DEF Plug
<1>2. Good(vm, clean) /\ Table /\ created \in Nat /\ Machine(vm)
  BY <1>1, Running
<1>3. PICK p \in Placement, ok \in BOOLEAN :
        LET s       == p[1]
            inited  == do_pci_register_device(vm, s, [uid |-> created + 1, name |-> p[2],
                                                      mem |-> InitMem(created + 1)])
            done    == IF running THEN device_reset(inited, s) ELSE inited
        IN  IF Live(s) THEN UNCHANGED <<vm, g_dss>>
            ELSE /\ device_realize(inited, s, ok)
                 /\ vm' = IF ok THEN [done EXCEPT !.devices[s].mem[REALIZED] = TRUE]
                          ELSE pci_unregister_device(inited, s)
  BY DEF Plug
<1> DEFINE n == created + 1
           s == p[1]
           dev == [uid |-> n, name |-> p[2], mem |-> InitMem(n)]
           u == do_pci_register_device(vm, s, dev)
           t == IF running THEN device_reset(u, s) ELSE u
<1>4. s \in Slots /\ n \in Nat \ {0}
  BY <1>2, DiscAssumption
<1>5. CASE Live(s)
  <2>1. vm' = vm /\ g_dss' = g_dss
    BY <1>3, <1>5
  <2>2. Snapshots(g_dss, created + 1)
    BY <1>2, Older DEF Table
  <2>3. Good(vm', clean') /\ vm'.status = "ok"
    BY <1>1, <1>2, <2>1
  <2>4. Snapshots(g_dss', created') /\ g_dss' \in Seq({(g_dss')[i] : i \in DOMAIN g_dss'}) /\ created' \in Nat
    BY <1>1, <1>2, <2>1, <2>2 DEF Table
  <2> QED
    BY <2>3, <2>4, Again
<1>6. CASE ~Live(s)
  <2>1. device_realize(u, s, ok) /\ vm' = IF ok THEN PutCell(t, s, REALIZED, TRUE) ELSE pci_unregister_device(u, s)
    BY <1>3, <1>6 DEF PutCell
  <2>2. s \in Slots \ Occ(vm)
    BY <1>4, <1>6 DEF Live, Occ
  <2> DEFINE m == InitMem(n)
  <2>3. /\ IsMem(m) /\ m[CONFIG] = n /\ m[NIC] = n
        /\ \A c \in {REALIZED, BAR0, BUS_MASTER, PARENT} : m[c] = FALSE
        /\ \A c \in Registers : m[c] = "init"
        /\ m[MMIO_LINK] = [next |-> NULL, prev |-> NULL]
    BY InitMemIs
  <2>4. dev = [uid |-> n, name |-> p[2], mem |-> m]
    OBVIOUS
  <2> HIDE DEF m, dev, n, s
  <2>5. dev.uid = n /\ dev.name = p[2] /\ dev.mem = m /\ IsDev(dev)
    BY <1>4, <2>3, <2>4 DEF IsDev
  <2>6. /\ ~dev.mem[REALIZED] /\ ~dev.mem[PARENT] /\ ~dev.mem[BAR0] /\ ~dev.mem[BUS_MASTER]
        /\ dev.mem[CONFIG] = dev.uid
    BY <2>3, <2>5
  <2>7. /\ u.status = "ok" /\ Good(u, clean) /\ Occ(u) = Occ(vm) \cup {s}
        /\ ListOK(u, AS_LINK, Occ(u), Done(u) \cup {s}, Done(u) \cup {s})
        /\ u.devices[s].uid = dev.uid /\ u.devices[s].name = dev.name
        /\ \A c \in Cells \ {AS_LINK} : Cell(u, s, c) = dev.mem[c]
        /\ Nx(u, AS_LINK, s) = NULL
    BY <1>1, <1>2, <2>2, <2>5, <2>6, Register
  <2> HIDE DEF u
  <2>8. s \in Occ(u) /\ Machine(u)
    BY <2>7 DEF Good, Ok, Loose
  <2> DEFINE d == u.devices[s]
  <2>9. d.name \in DiscNames => IsSnapshot(d, n)
    <3>1. IsDev(d)
      BY <2>8 DEF Machine
    <3>2. \A c \in Cells \ {AS_LINK} : d.mem[c] = m[c]
      BY <2>5, <2>7 DEF Cell
    <3>3. d.uid = n /\ d.mem[AS_LINK].next = NULL
      BY <2>5, <2>7 DEF Nx
    <3> HIDE DEF d
    <3>4. /\ {REALIZED, BAR0, BUS_MASTER, PARENT, CONFIG, NIC, MMIO_LINK} \subseteq Cells \ {AS_LINK}
          /\ Registers \subseteq Cells \ {AS_LINK}
      BY CellNames
    <3>5. /\ \A c \in Registers : d.mem[c] = "init"
          /\ d.mem[NIC] = d.uid /\ d.mem[CONFIG] = d.uid
          /\ d.mem[MMIO_LINK] = [next |-> NULL, prev |-> NULL]
      BY <2>3, <3>2, <3>3, <3>4
    <3>6. d.mem[REALIZED] = FALSE /\ d.mem[PARENT] = FALSE
      BY <2>3, <3>2, <3>4
    <3>7. d.uid \in 1..n
      BY <1>4, <3>3
    <3> QED
      BY <3>1, <3>3, <3>5, <3>6, <3>7 DEF IsSnapshot
  <2>10. Snapshots(g_dss', created') /\ g_dss' \in Seq({(g_dss')[i] : i \in DOMAIN g_dss'}) /\ created' \in Nat
    <3>1. created' = created + 1 /\ created' \in Nat
      BY <1>1, <1>2
    <3>2. CASE g_dss' = g_dss
      <4>1. Snapshots(g_dss, created + 1)
        BY <1>2, Older DEF Table
      <4> QED
        BY <1>2, <3>1, <3>2, <4>1 DEF Table
    <3>3. CASE g_dss' = Append(g_dss, d) /\ d.name \in DiscNames /\ Len(g_dss) < MAX_DEV_SNAPSHOTS
      <4>1. IsSnapshot(d, created + 1) /\ d.uid = created + 1
        BY <2>5, <2>7, <2>9, <3>3 DEF n
      <4>2. Snapshots(g_dss, created) /\ IsSequence(g_dss)
        BY <1>2 DEF Table, IsSequence
      <4> HIDE DEF d
      <4>3. /\ Snapshots(Append(g_dss, d), created + 1)
            /\ Append(g_dss, d) \in Seq({Append(g_dss, d)[i] : i \in DOMAIN Append(g_dss, d)})
        <5>1. Len(g_dss) < MAX_DEV_SNAPSHOTS
          BY <3>3
        <5>2. Snapshots(Append(g_dss, d), created + 1)
          BY <1>2, <4>1, <4>2, <5>1, OneMore
        <5>3. IsSequence(Append(g_dss, d))
          BY <1>2, <4>1, <4>2, <5>1, OneMore
        <5> QED
          BY <5>2, <5>3 DEF IsSequence
      <4> QED
        BY <3>1, <3>3, <4>3
    <3>4. g_dss' = g_dss \/ (g_dss' = Append(g_dss, d) /\ d.name \in DiscNames /\ Len(g_dss) < MAX_DEV_SNAPSHOTS)
      BY <2>1 DEF device_realize, device_snapshot, device_in_DISC_list
    <3> QED
      BY <3>2, <3>3, <3>4
  <2>11. CASE ok
    <3>1. /\ Good(t, clean) /\ s \in Occ(t) /\ t.status = "ok"
          /\ ListOK(t, AS_LINK, Occ(t), Done(t) \cup {s}, Done(t) \cup {s})
      <4>1. CASE ~running
        BY <2>7, <2>8, <4>1
      <4>2. CASE running
        <5>1. t = SetRegisters(u, s, "reset")
          BY <4>2 DEF device_reset, SetRegisters
        <5> HIDE DEF t
        <5>2. /\ Alike(u, t, Registers)
              /\ t.config = u.config /\ t.mmio = u.mmio /\ t.dma = u.dma /\ t.status = u.status
          BY <2>8, <5>1, SetRegistersFields
        <5>3. Good(t, clean)
          BY <2>7, <5>2, AlikeGood
        <5>4. /\ Occ(t) = Occ(u) /\ t.list = u.list
              /\ \A x \in Occ(u) : \A c \in Cells \ Registers : Cell(t, x, c) = Cell(u, x, c)
          BY <5>2 DEF Alike
        <5>5. REALIZED \in Cells \ Registers /\ AS_LINK \in Cells \ Registers
          BY CellNames
        <5>6. Done(t) = Done(u)
          BY <5>4, <5>5 DEF Done, With
        <5>7. SameList(u, t, AS_LINK, Occ(u))
          BY <5>4, <5>5 DEF SameList
        <5>8. ListOK(t, AS_LINK, Occ(t), Done(t) \cup {s}, Done(t) \cup {s})
          BY <2>7, <5>4, <5>6, <5>7, SameListOK
        <5> QED
          BY <2>7, <2>8, <5>2, <5>3, <5>4, <5>8
      <4> QED
        BY <4>1, <4>2
    <3> HIDE DEF t
    <3>2. vm' = PutCell(t, s, REALIZED, TRUE)
      BY <2>1, <2>11
    <3>3. Good(vm', clean) /\ vm'.status = "ok"
      BY <3>1, <3>2, Realized
    <3> QED
      BY <1>1, <2>10, <3>3, Again
  <2>12. CASE ~ok
    <3>1. vm' = pci_unregister_device(u, s)
      BY <2>1, <2>12
    <3>2. ~Cell(u, s, BAR0)
      BY <2>3, <2>5, <2>7, CellNames
    <3>3. /\ clean => vm'.status = "ok"
          /\ vm'.status = "ok" => Good(vm', clean)
      BY <2>7, <2>8, <3>1, <3>2, Unregister
    <3> QED
      BY <1>1, <2>10, <3>3, Again
  <2> QED
    BY <2>11, <2>12
<1> QED
  BY <1>5, <1>6

(* A system reset.                                                         *)
LEMMA ResetKeeps ==
    ASSUME DiscInv, SystemReset PROVE DiscInv'
<1>1. vm.status = "ok" /\ vm' = pci_bus_reset /\ UNCHANGED <<g_dss, created, removed, announced, clean>>
  BY DEF SystemReset
<1>2. Good(vm, clean) /\ Table /\ created \in Nat
  BY <1>1, Running
<1>3. /\ clean => vm'.status = "ok"
      /\ vm'.status = "ok" => Good(vm', clean)
  BY <1>1, <1>2, BusReset
<1> QED
  BY <1>1, <1>2, <1>3, Again DEF Table

(* A write to the command register.                                        *)
LEMMA CommandKeeps ==
    ASSUME DiscInv, NEW s \in Slots, NEW bits, WriteCommand(s, bits) PROVE DiscInv'
<1>1. /\ vm.status = "ok" /\ Live(s) /\ UNCHANGED <<g_dss, running, created, removed, announced, clean>>
      /\ vm' = memory_region_set_enabled(pci_update_mappings(PutConfig(vm, s, bits), s), s, "MASTER" \in bits)
  BY DEF WriteCommand, PutConfig
<1>2. Good(vm, clean) /\ Table /\ created \in Nat /\ s \in Occ(vm)
  BY <1>1, Running DEF Live, Occ
<1>3. /\ clean => vm'.status = "ok"
      /\ vm'.status = "ok" => Good(vm', clean)
  BY <1>1, <1>2, CommandWrite
<1> QED
  BY <1>1, <1>2, <1>3, Again DEF Table

(* The guest at work.                                                      *)
LEMMA ActivityKeeps ==
    ASSUME DiscInv, Activity PROVE DiscInv'
<1>1. vm.status = "ok" /\ UNCHANGED <<g_dss, running, created, removed, announced, clean>>
  BY DEF Activity
<1>2. PICK s \in Slots : Live(s) /\ vm' = SetRegisters(vm, s, "written")
  BY DEF Activity, SetRegisters
<1>3. Good(vm, clean) /\ Table /\ created \in Nat /\ Machine(vm) /\ s \in Occ(vm)
  BY <1>1, <1>2, Running DEF Live, Occ
<1>4. /\ Alike(vm, vm', Registers)
      /\ vm'.config = vm.config /\ vm'.mmio = vm.mmio /\ vm'.dma = vm.dma /\ vm'.status = vm.status
  BY <1>2, <1>3, SetRegistersFields
<1>5. Good(vm', clean)
  BY <1>3, <1>4, AlikeGood
<1> QED
  BY <1>1, <1>3, <1>4, <1>5, Again DEF Table

(* A flip.  After it nothing is said of wiring, but the lists stay as good *)
(* as they were.                                                           *)
LEMMA FlipInv ==
    ASSUME DiscInv, Flip PROVE DiscInv'
<1>1. vm.status = "ok" /\ UNCHANGED <<g_dss, running, created, removed, announced>>
  BY DEF Flip
<1>2. PICK name \in Names :
        /\ vm' = FlipOf(name)
        /\ clean' = (clean /\ \A s \in Slots : Live(s) => Wiring(vm'.devices[s]) = Wiring(vm.devices[s]))
  BY DEF Flip, FlipOf
<1>3. Good(vm, clean) /\ Table /\ created \in Nat /\ Machine(vm)
  BY <1>1, Running
<1>4. vm'.status = "ok"
  BY <1>1, <1>2, <1>3, Flipped
<1>5. clean' => /\ clean
                /\ \A s \in Slots : Live(s) => Wiring(FlipOf(name).devices[s]) = Wiring(vm.devices[s])
  BY <1>2
<1>6. Good(vm', clean')
  BY <1>2, <1>3, <1>5, FlipKeeps
<1> QED
  BY <1>1, <1>3, <1>4, <1>6, Again DEF Table

(* Unplugging a device.                                                    *)
LEMMA UnplugKeeps ==
    ASSUME DiscInv, Unplug PROVE DiscInv'
<1>1. PICK s \in Slots :
        /\ vm.status = "ok" /\ Live(s) /\ UNCHANGED <<g_dss, running, created, clean>>
        /\ vm' = IF Cell(vm, s, REALIZED) THEN pci_unregister_device(vm, s)
                 ELSE [vm EXCEPT !.status = "undefined"]
  BY DEF Unplug, Cell
<1>2. Good(vm, clean) /\ Table /\ created \in Nat /\ Machine(vm) /\ s \in Occ(vm)
  BY <1>1, Running DEF Live, Occ
<1>3. CASE Cell(vm, s, REALIZED)
  <2>1. s \in Done(vm) /\ vm' = pci_unregister_device(vm, s)
    BY <1>1, <1>2, <1>3 DEF Done, With
  <2>2. /\ clean => vm'.status = "ok"
        /\ vm'.status = "ok" => Good(vm', clean)
    <3>1. vm.status = "ok" /\ s \in Done(vm)
      BY <1>1, <2>1
    <3> DEFINE w == pci_unregister_device(vm, s)
    <3>2. clean => w.status = "ok"
      BY <1>2, <3>1, Unregister
    <3>3. w.status = "ok" => Good(w, clean)
      BY <1>2, <3>1, Unregister
    <3> HIDE DEF w
    <3>4. vm' = w
      BY <2>1 DEF w
    <3> QED
      BY <3>2, <3>3, <3>4
  <2> QED
    BY <1>1, <1>2, <2>2, Again DEF Table
<1>4. CASE ~Cell(vm, s, REALIZED)
  <2>1. vm' = [vm EXCEPT !.status = "undefined"]
    BY <1>1, <1>4
  <2>2. vm'.status = "undefined"
    BY <1>2, <2>1 DEF Machine
  <2> QED
    BY <1>1, <1>2, <2>2, Again DEF Table
<1> QED
  BY <1>3, <1>4

(* A step that changes nothing.                                            *)
LEMMA StutterKeeps ==
    ASSUME DiscInv, UNCHANGED vars PROVE DiscInv'
<1>1. /\ vm' = vm /\ g_dss' = g_dss /\ created' = created /\ clean' = clean
  BY DEF vars
<1>2. vm.status = "ok" => Good(vm, clean)
  BY GoodIsMachineInv DEF DiscInv
<1>3. vm'.status = "ok" => Good(vm', clean')
  BY <1>1, <1>2
<1> QED
  BY <1>1, <1>3, Again DEF DiscInv

-----------------------------------------------------------------------------
(* The theorems                                                            *)

(* DiscInv holds for every bus, table and set of devices, whatever is      *)
(* plugged, reset, written, flipped and unplugged, in any order.           *)
THEOREM DiscInvariant == Spec => []DiscInv
<1>1. Init => DiscInv
  BY InitDiscInv
<1>2. DiscInv /\ [Next]_vars => DiscInv'
  <2> SUFFICES ASSUME DiscInv, [Next]_vars PROVE DiscInv'
    OBVIOUS
  <2>1. CASE Plug
    BY <2>1, PlugKeeps
  <2>2. CASE SystemReset
    BY <2>2, ResetKeeps
  <2>3. CASE Activity
    BY <2>3, ActivityKeeps
  <2>4. CASE Flip
    BY <2>4, FlipInv
  <2>5. CASE Unplug
    BY <2>5, UnplugKeeps
  <2>6. CASE Ended
    BY <2>6, StutterKeeps DEF Ended
  <2>7. CASE \E s \in Slots, bits \in SUBSET {"MEMORY", "MASTER"} : WriteCommand(s, bits)
    BY <2>7, CommandKeeps
  <2>8. CASE UNCHANGED vars
    BY <2>8, StutterKeeps
  <2> QED
    BY <2>1, <2>2, <2>3, <2>4, <2>5, <2>6, <2>7, <2>8 DEF Next
<1> QED
  BY <1>1, <1>2, PTL DEF Spec

(* Every entry of g_dss is a device as its init left it, of a kind that    *)
(* device_in_DISC_list names; no device has two, and device_snapshot never *)
(* writes past MAX_DEV_SNAPSHOTS.                                          *)
THEOREM SnapshotsAreInit == Spec => []SnapshotIsInit
<1>1. DiscInv => SnapshotIsInit
  <2> SUFFICES ASSUME DiscInv PROVE SnapshotIsInit
    OBVIOUS
  <2>1. Snapshots(g_dss, created)
    BY DEF DiscInv
  <2> QED
    BY <2>1 DEF SnapshotIsInit, Snapshots, IsSnapshot, device_in_DISC_list
<1> QED
  BY <1>1, DiscInvariant, PTL

(* As long as no flip touched a link, a parent or a bus mastering region,  *)
(* no assertion of memory.c fails, no NULL link is followed, the guest     *)
(* reaches a BAR exactly when the command register maps it, and a device   *)
(* with bus mastering reaches memory.                                      *)
THEOREM WiringFollowsConfig == Spec => []WiredAsConfigured
<1>1. DiscInv => WiredAsConfigured
  <2> SUFFICES ASSUME DiscInv, clean
               PROVE  /\ vm.status \notin {"aborted", "crashed"}
                      /\ vm.status = "ok" =>
                           \A s \in Slots : Live(s) => /\ vm.mmio[s] <=> "MEMORY" \in vm.config[s]
                                                       /\ "MASTER" \in vm.config[s] => vm.dma[s]
    BY DEF WiredAsConfigured
  <2>1. vm.status \notin {"aborted", "crashed"}
    BY DEF DiscInv
  <2>2. ASSUME vm.status = "ok", NEW s \in Slots, Live(s)
        PROVE  /\ vm.mmio[s] <=> "MEMORY" \in vm.config[s]
               /\ "MASTER" \in vm.config[s] => vm.dma[s]
    <3>1. MachineInv /\ s \in Occ(vm)
      BY <2>2 DEF DiscInv, Live, Occ
    <3>2. vm.mmio[s] = (s \in Mapped(vm)) /\ vm.dma[s] = Cell(vm, s, BUS_MASTER)
      BY <3>1 DEF MachineInv, Wired
    <3>3. s \in Mapped(vm) <=> Cell(vm, s, BAR0)
      BY <3>1 DEF Mapped, With
    <3>4. Cell(vm, s, BAR0) <=> "MEMORY" \in vm.config[s]
      BY <3>1, Zenon DEF MachineInv
    <3>5. "MASTER" \in vm.config[s] => Cell(vm, s, BUS_MASTER)
      BY <3>1 DEF MachineInv
    <3> QED
      BY <3>2, <3>3, <3>4, <3>5, Zenon
  <2> QED
    BY <2>1, <2>2
<1> QED
  BY <1>1, DiscInvariant, PTL

(* A flip changes only devices DISC handles.  With the table of one entry  *)
(* that disc.h gives it (MAX_DEV_SNAPSHOTS), a flip of the device the      *)
(* entry was taken of keeps every register its vmsd lists, sets tx.tse,    *)
(* which it does not, back to its value after init, and leaves the device  *)
(* its own configuration space and network card.                           *)
THEOREM FlipsBackToInit ==
    ASSUME MAX_DEV_SNAPSHOTS = 1
    PROVE  Spec => FlipToInit
<1>1. DiscInv /\ [Next]_vars =>
        [Flip => \A s \in Slots : Live(s) /\ vm'.devices[s] # vm.devices[s] =>
             /\ device_in_DISC_list(vm.devices[s])
             /\ (\E i \in DOMAIN g_dss : g_dss[i].uid = vm.devices[s].uid)
                  => FlippedToInit(vm.devices[s], vm'.devices[s].mem)]_vars
  <2> SUFFICES ASSUME DiscInv, Flip, NEW s \in Slots, Live(s), vm'.devices[s] # vm.devices[s]
               PROVE  /\ device_in_DISC_list(vm.devices[s])
                      /\ (\E i \in DOMAIN g_dss : g_dss[i].uid = vm.devices[s].uid)
                           => FlippedToInit(vm.devices[s], vm'.devices[s].mem)
    OBVIOUS
  <2>1. vm.status = "ok"
    BY DEF Flip
  <2>2. PICK name \in Names : vm' = FlipOf(name)
    BY DEF Flip, FlipOf
  <2>3. Good(vm, clean) /\ Table /\ Machine(vm) /\ s \in Occ(vm)
    BY <2>1, Running DEF Live, Occ
  <2>4. PICK i \in DOMAIN g_dss : FlipsTo(vm.devices[s], vm'.devices[s], i)
    BY <2>2, <2>3, Flipped
  <2>5. IsSnapshot(g_dss[i], created)
    BY <2>3 DEF Table, Snapshots
  <2>6. device_in_DISC_list(vm.devices[s])
    BY <2>4, <2>5 DEF FlipsTo, IsSnapshot, device_in_DISC_list
  <2>7. ASSUME NEW j \in DOMAIN g_dss, g_dss[j].uid = vm.devices[s].uid
        PROVE  FlippedToInit(vm.devices[s], vm'.devices[s].mem)
    <3>1. i = j
      <4>1. Len(g_dss) \in Nat /\ DOMAIN g_dss = 1..Len(g_dss) /\ Len(g_dss) <= 1
        BY <2>3 DEF Table, Snapshots
      <4> QED
        BY <4>1
    <3> DEFINE d == vm.devices[s]
               m == vm'.devices[s].mem
    <3>2. \A c \in Cells : m[c] = IF c \in Copied THEN d.mem[c] ELSE g_dss[i].mem[c]
      BY <2>4 DEF FlipsTo
    <3>3. d.mem[CONFIG] = d.uid
      BY <2>3 DEF Good, Owned, Cell
    <3>4. g_dss[i].mem[NIC] = g_dss[i].uid /\ g_dss[i].mem[TSE] = "init"
      BY <2>5 DEF IsSnapshot, Registers
    <3> HIDE DEF d, m
    <3>5. \A c \in Registers \ {TSE} : m[c] = d.mem[c]
      BY <3>2, CopiedCells
    <3>6. m[TSE] = "init" /\ m[NIC] = g_dss[i].uid /\ m[CONFIG] = d.uid
      BY <3>2, <3>3, <3>4, CopiedCells
    <3> QED
      BY <2>7, <3>1, <3>5, <3>6 DEF FlippedToInit, d, m
  <2> QED
    BY <2>6, <2>7
<1> QED
  BY <1>1, DiscInvariant, PTL DEF Spec, FlipToInit
=============================================================================
