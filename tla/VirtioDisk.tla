----------------------------- MODULE VirtioDisk -----------------------------
(***************************************************************************)
(* The driver of the virtio disk, kernel/virtio_disk.c, and the device it  *)
(* talks to through shared memory: a table of NUM descriptors, the avail   *)
(* ring (driver to device) and the used ring (device to driver).           *)
(*                                                                         *)
(* The driver runs under vdisk_lock; between the memory accesses the       *)
(* device can see, the device runs.  The device may complete requests in   *)
(* any order.  A process asks for one transfer at a time and holds its     *)
(* buffer's lock meanwhile, so a process stands for its buffer too.        *)
(* Memory nobody may read any more (a ring slot that was consumed, the     *)
(* header and status of a request that is over) is set to a fixed value;   *)
(* for ring slots that value is no descriptor, so reading one shows.       *)
(***************************************************************************)
EXTENDS Integers, FiniteSets

CONSTANTS
    Procs,      \* processes, each with a buffer
    NoProc,     \* a null struct buf *
    Intr,       \* virtio_disk_intr(), as the holder of vdisk_lock
    Nobody,     \* vdisk_lock is free
    NUM,        \* number of descriptors and of ring entries
    IdxMod      \* ring indices are counted modulo IdxMod (2^16 in the code)

\* What the constants have to be.
VirtioAssumption ==
    /\ NUM \in Nat /\ NUM >= 3
    /\ IdxMod \in Nat /\ IdxMod >= NUM /\ IdxMod % NUM = 0
    /\ NoProc \notin Procs /\ Intr \notin Procs /\ Nobody \notin Procs \cup {Intr}

Descs == 0..NUM - 1
Dirs == {"read", "write"}
Stale == NUM            \* the contents of a consumed ring slot

\* What the addr field of a descriptor can point to.
NoAddr == [kind |-> "none"]
Addrs == {NoAddr} \cup [kind : {"ops", "status"}, i : Descs] \cup [kind : {"data"}, b : Procs]

VARIABLES
    desc,       \* desc[i]: addr, next and the flags of descriptor i
    free,       \* free[i]: descriptor i is free
    ops,        \* ops[i]: the command header that belongs to descriptor i
    info,       \* info[i]: buffer and status of the chain that starts at i
    aring, aidx,    \* avail->ring and avail->idx
    uring, uidx,    \* used->ring and used->idx, written by the device
    used_idx,   \* disk.used_idx: the driver has looked this far in uring
    bdisk,      \* bdisk[p]: b->disk of p's buffer, "does disk own buf?"
    vlock,      \* who holds vdisk_lock
    pc,         \* pc[p]: where p is in virtio_disk_rw()
    dir,        \* dir[p]: the direction p asks for
    idx,        \* idx[p]: the descriptors p has
    ipc,        \* where virtio_disk_intr() is
    irq,        \* the device's interrupt is pending
    devidx,     \* the device has looked this far in aring
    inflight,   \* chains the device works on
    written,    \* chains whose transfer and status are done
    served      \* history: served[p] is what the device did to p's buffer

descVars == <<desc, free, ops, info>>
ringVars == <<aring, aidx>>
devVars == <<uring, uidx, irq, devidx, inflight, written, served>>
vars == <<descVars, ringVars, devVars, used_idx, bdisk, vlock, pc, dir, idx, ipc>>

PCs == {"idle", "alloc", "asleep_free", "publish", "wait", "asleep_buf", "panic"}

TypeOK ==
    /\ desc \in [Descs -> [addr : Addrs, next : Descs, more : BOOLEAN, devwrite : BOOLEAN]]
    /\ free \in [Descs -> BOOLEAN]
    /\ ops \in [Descs -> Dirs]
    /\ info \in [Descs -> [b : Procs \cup {NoProc}, ok : BOOLEAN]]
    /\ aring \in [Descs -> Descs \cup {Stale}] /\ uring \in [Descs -> Descs \cup {Stale}]
    /\ {aidx, uidx, used_idx, devidx} \subseteq 0..IdxMod - 1
    /\ bdisk \in [Procs -> BOOLEAN]
    /\ vlock \in Procs \cup {Intr, Nobody}
    /\ pc \in [Procs -> PCs]
    /\ dir \in [Procs -> Dirs]
    /\ idx \in [Procs -> [1..3 -> Descs] \cup {<<>>}]
    /\ ipc \in {"off", "loop", "exit", "panic"}
    /\ irq \in BOOLEAN
    /\ inflight \in SUBSET Descs /\ written \in SUBSET Descs
    /\ served \in [Procs -> Dirs \cup {"no"}]

EmptyDesc == [addr |-> NoAddr, next |-> 0, more |-> FALSE, devwrite |-> FALSE]

\* virtio_disk_init(): queue memory zeroed, all descriptors free.
Init ==
    /\ desc = [i \in Descs |-> EmptyDesc]
    /\ free = [i \in Descs |-> TRUE]
    /\ ops = [i \in Descs |-> "read"]
    /\ info = [i \in Descs |-> [b |-> NoProc, ok |-> TRUE]]
    /\ aring = [i \in Descs |-> Stale] /\ uring = [i \in Descs |-> Stale]
    /\ aidx = 0 /\ uidx = 0 /\ used_idx = 0 /\ devidx = 0
    /\ bdisk = [p \in Procs |-> FALSE]
    /\ vlock = Nobody
    /\ pc = [p \in Procs |-> "idle"]
    /\ dir = [p \in Procs |-> "read"]
    /\ idx = [p \in Procs |-> <<>>]
    /\ ipc = "off"
    /\ irq = FALSE
    /\ inflight = {} /\ written = {}
    /\ served = [p \in Procs |-> "no"]

-----------------------------------------------------------------------------
(* Helpers.                                                                *)

GoTo(p, label) == pc' = [pc EXCEPT ![p] = label]

Succ(i) == (i + 1) % IdxMod

\* The k-th free descriptor, in the order of alloc_desc()'s scan.
FreeSet == {i \in Descs : free[i]}
KthFree(k) == CHOOSE i \in FreeSet : Cardinality({j \in FreeSet : j <= i}) = k

\* wakeup(&disk.free[0]) by p, which goes on at label.
WakeFree(p, label) ==
    pc' = [q \in Procs |-> IF q = p THEN label
                           ELSE IF pc[q] = "asleep_free" THEN "alloc" ELSE pc[q]]

-----------------------------------------------------------------------------
(* virtio_disk_rw()                                                        *)

\* A process calls virtio_disk_rw().
Call(p, d) ==
    /\ pc[p] = "idle"
    /\ dir' = [dir EXCEPT ![p] = d]
    /\ GoTo(p, "alloc")
    /\ UNCHANGED <<descVars, ringVars, devVars, used_idx, bdisk, vlock, idx, ipc>>

\* alloc3_desc() fails.  The descriptors it got are freed again, and that
\* wakes the others that wait for descriptors; then p sleeps.
AllocFail(p) ==
    /\ pc[p] = "alloc" /\ vlock = Nobody
    /\ Cardinality(FreeSet) < 3
    /\ desc' = [i \in Descs |-> IF free[i] THEN EmptyDesc ELSE desc[i]]
    /\ IF FreeSet = {} THEN GoTo(p, "asleep_free") ELSE WakeFree(p, "asleep_free")
    /\ UNCHANGED <<free, ops, info, ringVars, devVars, used_idx, bdisk, vlock, dir, idx, ipc>>

\* The three descriptors of a request of p: header, data, status.
Chain(p, i, j, k) ==
    [desc EXCEPT
        ![i] = [addr |-> [kind |-> "ops", i |-> i], next |-> j, more |-> TRUE,
                devwrite |-> FALSE],
        ![j] = [addr |-> [kind |-> "data", b |-> p], next |-> k, more |-> TRUE,
                devwrite |-> dir[p] = "read"],
        ![k] = [addr |-> [kind |-> "status", i |-> i], next |-> 0, more |-> FALSE,
                devwrite |-> TRUE]]

\* alloc3_desc() succeeds; format the chain and put its head in the ring.
Format(p) ==
    /\ pc[p] = "alloc" /\ vlock = Nobody
    /\ Cardinality(FreeSet) >= 3
    /\ LET i == KthFree(1)  j == KthFree(2)  k == KthFree(3) IN
         /\ free' = [free EXCEPT ![i] = FALSE, ![j] = FALSE, ![k] = FALSE]
         /\ idx' = [idx EXCEPT ![p] = <<i, j, k>>]
         /\ ops' = [ops EXCEPT ![i] = dir[p]]
         /\ desc' = Chain(p, i, j, k)
         /\ info' = [info EXCEPT ![i] = [b |-> p, ok |-> FALSE]]
         /\ aring' = [aring EXCEPT ![aidx % NUM] = i]
    /\ bdisk' = [bdisk EXCEPT ![p] = TRUE]
    /\ vlock' = p
    /\ GoTo(p, "publish")
    /\ UNCHANGED <<aidx, devVars, used_idx, dir, ipc>>

\* avail->idx counted modulo NUM.
PublishMutant(p) ==
    /\ pc[p] = "publish"
    /\ aidx' = (aidx + 1) % NUM
    /\ GoTo(p, "wait")
    /\ UNCHANGED <<descVars, aring, devVars, used_idx, bdisk, vlock, dir, idx, ipc>>

\* disk.avail->idx += 1, "not % NUM", and notify the device.
Publish(p) ==
    /\ pc[p] = "publish"
    /\ aidx' = Succ(aidx)
    /\ GoTo(p, "wait")
    /\ UNCHANGED <<descVars, aring, devVars, used_idx, bdisk, vlock, dir, idx, ipc>>

\* while (b->disk == 1) sleep(b): after Publish() p still holds the lock, after
\* a wakeup it takes it again.
Wait(p) ==
    /\ pc[p] = "wait" /\ vlock \in {p, Nobody}
    /\ bdisk[p]
    /\ vlock' = Nobody
    /\ GoTo(p, "asleep_buf")
    /\ UNCHANGED <<descVars, ringVars, devVars, used_idx, bdisk, dir, idx, ipc>>

\* The descriptors that free_chain(i) reaches through next.
ChainOf(i) == {i} \cup (IF desc[i].more
                        THEN LET j == desc[i].next
                             IN  {j} \cup (IF desc[j].more THEN {desc[j].next} ELSE {})
                        ELSE {})

\* free_chain(i) of a chain none of whose descriptors is free already.
FreeChain(i) ==
    /\ desc' = [j \in Descs |-> IF j \in ChainOf(i) THEN EmptyDesc ELSE desc[j]]
    /\ free' = [j \in Descs |-> j \in ChainOf(i) \/ free[j]]

\* The end of virtio_disk_rw(); free_desc() panics on a descriptor that is free.
Finish(p) ==
    /\ pc[p] = "wait" /\ vlock \in {p, Nobody}
    /\ ~ bdisk[p]
    /\ info' = [info EXCEPT ![idx[p][1]] = [b |-> NoProc, ok |-> TRUE]]
    /\ ops' = [ops EXCEPT ![idx[p][1]] = "read"]
    /\ dir' = [dir EXCEPT ![p] = "read"]
    /\ served' = [served EXCEPT ![p] = "no"]
    /\ \/ /\ \A j \in ChainOf(idx[p][1]) : ~ free[j]
          /\ FreeChain(idx[p][1])
          /\ WakeFree(p, "idle")
       \/ /\ \E j \in ChainOf(idx[p][1]) : free[j]
          /\ GoTo(p, "panic")
          /\ UNCHANGED <<desc, free>>
    /\ idx' = [idx EXCEPT ![p] = <<>>]
    /\ vlock' = Nobody
    /\ UNCHANGED <<ringVars, uring, uidx, irq, devidx, inflight, written, used_idx, bdisk, ipc>>

-----------------------------------------------------------------------------
(* virtio_disk_intr()                                                      *)

\* Take the lock and acknowledge, before looking at the used ring.
IntrStart ==
    /\ irq /\ ipc = "off" /\ vlock = Nobody
    /\ vlock' = Intr
    /\ ipc' = "loop"
    /\ irq' = FALSE
    /\ UNCHANGED <<descVars, ringVars, uring, uidx, devidx, inflight, written, served,
                   used_idx, bdisk, pc, dir, idx>>

\* An iteration of the loop: the disk is done with a buffer, wake its process.
\* A failed status panics, and so would a chain that nobody waits for.
IntrLoop ==
    LET id == uring[used_idx % NUM]
        b == info[id].b
    IN  /\ ipc = "loop" /\ used_idx # uidx
        /\ IF info[id].ok /\ b # NoProc
           THEN /\ bdisk' = [bdisk EXCEPT ![b] = FALSE]
                /\ pc' = [pc EXCEPT ![b] = IF @ = "asleep_buf" THEN "wait" ELSE @]
                /\ used_idx' = Succ(used_idx)
                /\ uring' = [uring EXCEPT ![used_idx % NUM] = Stale]
                /\ UNCHANGED ipc
           ELSE ipc' = "panic" /\ UNCHANGED <<bdisk, pc, used_idx, uring>>
        /\ UNCHANGED <<descVars, ringVars, uidx, irq, devidx, inflight, written, served,
                       vlock, dir, idx>>

\* The loop finds nothing more; the device may add entries after that.
IntrExit ==
    /\ ipc = "loop" /\ used_idx = uidx
    /\ ipc' = "exit"
    /\ UNCHANGED <<descVars, ringVars, devVars, used_idx, bdisk, vlock, pc, dir, idx>>

\* virtio_disk_intr() that acknowledges the interrupt when it is done.
IntrEndMutant ==
    /\ ipc = "exit"
    /\ vlock' = Nobody
    /\ ipc' = "off"
    /\ irq' = FALSE
    /\ UNCHANGED <<descVars, ringVars, uring, uidx, devidx, inflight, written, served,
                   used_idx, bdisk, pc, dir, idx>>

\* release(&disk.vdisk_lock)
IntrEnd ==
    /\ ipc = "exit"
    /\ vlock' = Nobody
    /\ ipc' = "off"
    /\ UNCHANGED <<descVars, ringVars, devVars, used_idx, bdisk, pc, dir, idx>>

-----------------------------------------------------------------------------
(* The device.                                                             *)

\* The device takes the next chain from the avail ring.
DevFetch ==
    /\ devidx # aidx
    /\ inflight' = inflight \cup {aring[devidx % NUM]}
    /\ aring' = [aring EXCEPT ![devidx % NUM] = Stale]
    /\ devidx' = Succ(devidx)
    /\ UNCHANGED <<descVars, aidx, uring, uidx, irq, written, served, used_idx,
                   bdisk, vlock, pc, dir, idx, ipc>>

\* It follows the chain that starts at h, moves the data and writes the status.
DevTransfer(h) ==
    LET j == desc[h].next
        k == desc[j].next
    IN  /\ h \in inflight \ written
        /\ desc[h].addr.kind = "ops" /\ desc[j].addr.kind = "data"
        /\ desc[k].addr.kind = "status"
        /\ desc[j].devwrite = (ops[desc[h].addr.i] = "read")
        /\ served' = [served EXCEPT ![desc[j].addr.b] = ops[desc[h].addr.i]]
        /\ info' = [info EXCEPT ![desc[k].addr.i].ok = TRUE]
        /\ written' = written \cup {h}
        /\ UNCHANGED <<desc, free, ops, ringVars, uring, uidx, irq, devidx, inflight,
                       used_idx, bdisk, vlock, pc, dir, idx, ipc>>

\* It puts the chain in the used ring and raises the interrupt.
DevUsed(h) ==
    /\ h \in written
    /\ uring' = [uring EXCEPT ![uidx % NUM] = h]
    /\ uidx' = Succ(uidx)
    /\ inflight' = inflight \ {h} /\ written' = written \ {h}
    /\ irq' = TRUE
    /\ UNCHANGED <<descVars, ringVars, devidx, served, used_idx, bdisk, vlock, pc, dir,
                   idx, ipc>>

-----------------------------------------------------------------------------
RwStep(p) == AllocFail(p) \/ Format(p) \/ Publish(p) \/ Wait(p) \/ Finish(p)
IntrStep == IntrStart \/ IntrLoop \/ IntrExit \/ IntrEnd
DevStep == DevFetch \/ \E h \in Descs : DevTransfer(h) \/ DevUsed(h)

Next ==
    \/ \E p \in Procs : RwStep(p) \/ \E d \in Dirs : Call(p, d)
    \/ IntrStep
    \/ DevStep

Spec == Init /\ [][Next]_vars

-----------------------------------------------------------------------------
(* Properties.                                                             *)

\* The descriptors p has; the device owns them until p frees them.
Owned(p) == IF idx[p] = <<>> THEN {} ELSE {idx[p][n] : n \in 1..3}

\* A descriptor is free or belongs to exactly one request: alloc3_desc() and
\* free_chain() neither leak one nor give one to two processes.
DescOwnedOnce ==
    \A i \in Descs :
        Cardinality({p \in Procs : i \in Owned(p)}) = IF free[i] THEN 0 ELSE 1

\* The chain that starts at h is complete and belongs to a request that is
\* waiting for the device.
ChainIntact(h) ==
    \E p \in Procs :
        /\ idx[p] # <<>> /\ idx[p][1] = h
        /\ bdisk[p] /\ info[h].b = p /\ ops[h] = dir[p]
        /\ desc = Chain(p, idx[p][1], idx[p][2], idx[p][3])

\* Ring slots from i up to j, both modulo IdxMod.
Between(i, j) == {(i + n) % IdxMod : n \in 0..((j - i) % IdxMod) - 1}

\* Whatever the device can reach, in the avail ring, in its own hands or in the
\* used ring, is an intact chain: no slot is overwritten, no descriptor is
\* reused too early, and the indices may wrap.
DeviceSeesChains ==
    /\ \A i \in Between(devidx, aidx) : ChainIntact(aring[i % NUM])
    /\ \A h \in inflight : ChainIntact(h)
    /\ \A i \in Between(used_idx, uidx) : ChainIntact(uring[i % NUM])

\* virtio_disk_rw() returns only when the device has done what was asked.
Served == \A p \in Procs : pc[p] = "wait" /\ ~ bdisk[p] => served[p] = dir[p]

\* No panic of free_desc() or virtio_disk_intr().
NoPanic == ipc # "panic" /\ \A p \in Procs : pc[p] # "panic"

\* A process sleeps only for what is not there yet: descriptors or the device.
NoLostWakeup ==
    \A p \in Procs :
        /\ pc[p] = "asleep_free" => Cardinality(FreeSet) < 3
        /\ pc[p] = "asleep_buf" => bdisk[p]

\* The interrupt is acknowledged before the used ring is read (line 291): as long
\* as the ring holds a chain that the driver has not seen, an interrupt is still
\* to come or the handler is still in its loop, however its steps meet the
\* device's.  A request can only be forgotten in the ring if this fails.
NoLostInterrupt == used_idx # uidx => irq \/ ipc = "loop"

\* What driver and device may rely on in the memory they share: each descriptor
\* has one owner, what the device can reach is intact, a process returns only
\* when the device has done what it asked for, and no panic is reached.
DiskInv == TypeOK /\ DescOwnedOnce /\ DeviceSeesChains /\ Served /\ NoPanic

\* Neither side waits for an event that is over: no wakeup() of free_desc() or
\* virtio_disk_intr() and no interrupt of the device is lost.
NothingMissed == NoLostWakeup /\ NoLostInterrupt
=============================================================================
