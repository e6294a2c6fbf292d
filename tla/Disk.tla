-------------------------------- MODULE Disk --------------------------------
(***************************************************************************)
(* The disk driver VirtioDisk under names of its own, so that it can stand *)
(* beside the models of the parts above it.                                *)
(***************************************************************************)
CONSTANTS Tasks, NoTask, Intr, Nobody, NUM, IdxMod

VARIABLES desc, free, ops, info, aring, aidx, uring, uidx, used_idx, bdisk, vlock, vpc, dir, idx,
          ipc, irq, devidx, inflight, written, served

diskVars == <<desc, free, ops, info, aring, aidx, uring, uidx, used_idx, bdisk, vlock, vpc, dir, idx,
              ipc, irq, devidx, inflight, written, served>>

V == INSTANCE VirtioDisk WITH Procs <- Tasks, NoProc <- NoTask, pc <- vpc

\* DiskInv of virtio_disk.c: every descriptor has one owner, what the device can
\* reach is intact, and a process returns only when the device has served it.
DiskInv == V!DiskInv

\* NothingMissed of virtio_disk.c: no completed request stays in the used ring
\* without an interrupt to come, and nobody sleeps for what is already there.
NothingMissed == V!NothingMissed
=============================================================================
