-------------------------------- MODULE Pipe --------------------------------
(***************************************************************************)
(* A pipe: kernel/pipe.c, with the part of fork(), fileclose() and exit()  *)
(* that decides when an end of the pipe is closed.                         *)
(*                                                                         *)
(* piperead() and pipewrite() hold pi->lock from loop iteration to loop    *)
(* iteration and give it up only to sleep; an iteration is a step, because *)
(* kill() needs no pi->lock.  sleep() releases pi->lock and goes to sleep  *)
(* in one step (module Proc).                                              *)
(***************************************************************************)
EXTENDS Integers, Sequences

CONSTANTS
    Procs,      \* processes
    Creator,    \* the one that calls pipe()
    Nobody,     \* pi->lock is free
    Killable,   \* processes that may be killed
    Bytes,      \* what programs write
    PIPESIZE,
    CntMod,     \* nread and nwrite are counted modulo CntMod (2^32)
    MaxN        \* longest read or write

ASSUME PipeAssumption ==
    /\ Creator \in Procs /\ Nobody \notin Procs /\ Killable \subseteq Procs
    /\ PIPESIZE \in Nat \ {0}
    /\ CntMod \in Nat /\ CntMod > PIPESIZE /\ CntMod % PIPESIZE = 0
    /\ MaxN \in Nat

VARIABLES
    data,       \* pi->data
    nread, nwrite,
    readopen, writeopen,
    freed,      \* kfree(pi) was called
    lock,       \* who holds pi->lock
    rd, wr,     \* the processes that have the read end, the write end, open
    pc,         \* pc[p]: where p is
    left,       \* left[p]: n - i, the bytes p's call has still to copy
    killed      \* killed[p]: p->killed

ringVars == <<data, nread, nwrite>>
endVars == <<readopen, writeopen, freed, rd, wr>>
vars == <<ringVars, endVars, lock, pc, left, killed>>

WritePCs == {"write", "write_loop", "write_full", "write_asleep"}
ReadPCs == {"read", "read_wait", "read_empty", "read_asleep", "read_loop"}
PCs == {"idle", "exited"} \cup WritePCs \cup ReadPCs

TypeOK ==
    /\ data \in [0..PIPESIZE - 1 -> Bytes]
    /\ {nread, nwrite} \subseteq 0..CntMod - 1
    /\ {readopen, writeopen, freed} \subseteq BOOLEAN
    /\ lock \in Procs \cup {Nobody}
    /\ rd \in SUBSET Procs /\ wr \in SUBSET Procs
    /\ pc \in [Procs -> PCs]
    /\ left \in [Procs -> 0..MaxN]
    /\ killed \in [Procs -> BOOLEAN]

\* pipealloc()
Init ==
    /\ data \in [0..PIPESIZE - 1 -> Bytes]
    /\ nread = 0 /\ nwrite = 0
    /\ readopen = TRUE /\ writeopen = TRUE /\ freed = FALSE
    /\ lock = Nobody
    /\ rd = {Creator} /\ wr = {Creator}
    /\ pc = [p \in Procs |-> "idle"]
    /\ left = [p \in Procs |-> 0]
    /\ killed = [p \in Procs |-> FALSE]

-----------------------------------------------------------------------------
(* Helpers.                                                                *)

GoTo(p, label) == pc' = [pc EXCEPT ![p] = label]

\* wakeup(&pi->nread) and wakeup(&pi->nwrite) by p, which goes on at label.
WakeReaders(p, label) ==
    pc' = [q \in Procs |-> IF q = p THEN label
                           ELSE IF pc[q] = "read_asleep" THEN "read" ELSE pc[q]]
WakeWriters(p, label) ==
    pc' = [q \in Procs |-> IF q = p THEN label
                           ELSE IF pc[q] = "write_asleep" THEN "write" ELSE pc[q]]

Empty == nread = nwrite

\* A test that forgets that nread wraps.
FullWrapMutant == nwrite = nread + PIPESIZE

Full == nwrite = (nread + PIPESIZE) % CntMod

\* acquire(&pi->lock), at the start of a call or when sleep() returns.
Lock(p) ==
    /\ pc[p] \in {"write", "read"} /\ lock = Nobody
    /\ lock' = p
    /\ GoTo(p, IF pc[p] = "write" THEN "write_loop" ELSE "read_wait")
    /\ UNCHANGED <<ringVars, endVars, left, killed>>

-----------------------------------------------------------------------------
(* pipewrite()                                                             *)

CallWrite(p, m) ==
    /\ pc[p] = "idle" /\ p \in wr /\ ~ killed[p]
    /\ left' = [left EXCEPT ![p] = m]
    /\ GoTo(p, "write")
    /\ UNCHANGED <<ringVars, endVars, lock, killed>>

\* if (pi->readopen == 0 || killed(pr)) return -1
WriteFails(p) ==
    /\ pc[p] = "write_loop" /\ left[p] > 0
    /\ ~ readopen \/ killed[p]
    /\ lock' = Nobody
    /\ GoTo(p, "idle")
    /\ left' = [left EXCEPT ![p] = 0]
    /\ UNCHANGED <<ringVars, endVars, killed>>

\* The pipe is full: wake the readers, and then
WriteFull(p) ==
    /\ pc[p] = "write_loop" /\ left[p] > 0 /\ readopen /\ ~ killed[p]
    /\ Full
    /\ WakeReaders(p, "write_full")
    /\ UNCHANGED <<ringVars, endVars, lock, left, killed>>

\* ... sleep(&pi->nwrite, &pi->lock).
WriteSleep(p) ==
    /\ pc[p] = "write_full"
    /\ lock' = Nobody
    /\ GoTo(p, "write_asleep")
    /\ UNCHANGED <<ringVars, endVars, left, killed>>

\* pi->data[pi->nwrite++ % PIPESIZE] = ch
WriteByte(p, ch) ==
    /\ pc[p] = "write_loop" /\ left[p] > 0 /\ readopen /\ ~ killed[p]
    /\ ~ Full
    /\ data' = [data EXCEPT ![nwrite % PIPESIZE] = ch]
    /\ nwrite' = (nwrite + 1) % CntMod
    /\ left' = [left EXCEPT ![p] = @ - 1]
    /\ UNCHANGED <<nread, endVars, lock, pc, killed>>

\* The end of pipewrite(), after the last byte or a copyin() that fails.
WriteDone(p) ==
    /\ pc[p] = "write_loop"
    /\ left[p] = 0 \/ (~ Full /\ readopen /\ ~ killed[p])
    /\ lock' = Nobody
    /\ WakeReaders(p, "idle")
    /\ left' = [left EXCEPT ![p] = 0]
    /\ UNCHANGED <<ringVars, endVars, killed>>

-----------------------------------------------------------------------------
(* piperead()                                                              *)

CallRead(p, m) ==
    /\ pc[p] = "idle" /\ p \in rd /\ ~ killed[p]
    /\ left' = [left EXCEPT ![p] = m]
    /\ GoTo(p, "read")
    /\ UNCHANGED <<ringVars, endVars, lock, killed>>

\* The while loop: return -1, decide to sleep, or go on to copy.
ReadWait(p) ==
    /\ pc[p] = "read_wait"
    /\ \/ /\ Empty /\ writeopen /\ killed[p]
          /\ lock' = Nobody /\ GoTo(p, "idle") /\ left' = [left EXCEPT ![p] = 0]
       \/ /\ Empty /\ writeopen /\ ~ killed[p]
          /\ GoTo(p, "read_empty") /\ UNCHANGED <<lock, left>>
       \/ /\ ~ Empty \/ ~ writeopen
          /\ GoTo(p, "read_loop") /\ UNCHANGED <<lock, left>>
    /\ UNCHANGED <<ringVars, endVars, killed>>

\* sleep(&pi->nread, &pi->lock)
ReadSleep(p) ==
    /\ pc[p] = "read_empty"
    /\ lock' = Nobody
    /\ GoTo(p, "read_asleep")
    /\ UNCHANGED <<ringVars, endVars, left, killed>>

\* ch = pi->data[pi->nread++ % PIPESIZE]; if copyout() fails the byte is gone
\* and the loop ends.
ReadByte(p, copied) ==
    /\ pc[p] = "read_loop" /\ left[p] > 0 /\ ~ Empty
    /\ nread' = (nread + 1) % CntMod
    /\ left' = [left EXCEPT ![p] = IF copied THEN @ - 1 ELSE 0]
    /\ UNCHANGED <<data, nwrite, endVars, lock, pc, killed>>

\* wakeup(&pi->nwrite), at the end of piperead().
ReadDone(p) ==
    /\ pc[p] = "read_loop" /\ (left[p] = 0 \/ Empty)
    /\ lock' = Nobody
    /\ WakeWriters(p, "idle")
    /\ left' = [left EXCEPT ![p] = 0]
    /\ UNCHANGED <<ringVars, endVars, killed>>

-----------------------------------------------------------------------------
(* Ends of the pipe: fork(), close(), exit() and pipeclose()               *)

\* fork(): the child has the ends its parent has.
Fork(p, q) ==
    /\ pc[p] = "idle" /\ ~ killed[p] /\ p \in rd \cup wr
    /\ pc[q] = "idle" /\ q \notin rd \cup wr
    /\ rd' = IF p \in rd THEN rd \cup {q} ELSE rd
    /\ wr' = IF p \in wr THEN wr \cup {q} ELSE wr
    /\ UNCHANGED <<ringVars, readopen, writeopen, freed, lock, pc, left, killed>>

\* pipeclose(pi, 1) that wakes nobody.
CloseWriteMutant(p, label) ==
    /\ p \in wr /\ wr' = wr \ {p}
    /\ IF wr = {p}
       THEN /\ lock = Nobody
            /\ writeopen' = FALSE
            /\ freed' = (freed \/ ~ readopen)
       ELSE UNCHANGED <<writeopen, freed>>
    /\ GoTo(p, label)
    /\ UNCHANGED <<readopen, rd>>

\* p closes its write end; the last one to do so calls pipeclose(pi, 1).
CloseWrite(p, label) ==
    /\ p \in wr /\ wr' = wr \ {p}
    /\ IF wr = {p}
       THEN /\ lock = Nobody
            /\ writeopen' = FALSE
            /\ freed' = (freed \/ ~ readopen)
            /\ WakeReaders(p, label)
       ELSE GoTo(p, label) /\ UNCHANGED <<writeopen, freed>>
    /\ UNCHANGED <<readopen, rd>>

\* pipeclose() that frees the pipe with the first end.
CloseReadMutant(p, label) ==
    /\ p \in rd /\ rd' = rd \ {p}
    /\ IF rd = {p}
       THEN /\ lock = Nobody
            /\ readopen' = FALSE
            /\ freed' = TRUE
            /\ WakeWriters(p, label)
       ELSE GoTo(p, label) /\ UNCHANGED <<readopen, freed>>
    /\ UNCHANGED <<writeopen, wr>>

\* p closes its read end; the last one to do so calls pipeclose(pi, 0).
CloseRead(p, label) ==
    /\ p \in rd /\ rd' = rd \ {p}
    /\ IF rd = {p}
       THEN /\ lock = Nobody
            /\ readopen' = FALSE
            /\ freed' = (freed \/ ~ writeopen)
            /\ WakeWriters(p, label)
       ELSE GoTo(p, label) /\ UNCHANGED <<readopen, freed>>
    /\ UNCHANGED <<writeopen, wr>>

\* close(), by the program.
Close(p) ==
    /\ pc[p] = "idle"
    /\ CloseWrite(p, "idle") \/ CloseRead(p, "idle")
    /\ UNCHANGED <<ringVars, lock, left, killed>>

\* A killed process does not return to user mode: exit() closes its files.
Exit(p) ==
    /\ pc[p] \in {"idle", "exited"} /\ killed[p]
    /\ CloseWrite(p, "exited") \/ CloseRead(p, "exited")
    /\ UNCHANGED <<ringVars, lock, left, killed>>

\* kill(): wakes the victim if it sleeps.  (One that has no end of the pipe is
\* of no interest.)
Kill(q) ==
    /\ q \in Killable /\ ~ killed[q] /\ q \in rd \cup wr
    /\ killed' = [killed EXCEPT ![q] = TRUE]
    /\ pc' = [pc EXCEPT ![q] = IF @ = "write_asleep" THEN "write"
                               ELSE IF @ = "read_asleep" THEN "read" ELSE @]
    /\ UNCHANGED <<ringVars, endVars, lock, left>>

-----------------------------------------------------------------------------
\* What p does once it is in the kernel.
Advance(p) ==
    \/ WriteFails(p) \/ WriteFull(p) \/ WriteSleep(p) \/ WriteDone(p)
    \/ \E ch \in Bytes : WriteByte(p, ch)
    \/ ReadWait(p) \/ ReadSleep(p) \/ ReadDone(p)
    \/ \E copied \in BOOLEAN : ReadByte(p, copied)

Next ==
    \E p \in Procs :
        \/ \E m \in 1..MaxN : CallWrite(p, m) \/ CallRead(p, m)
        \/ Lock(p) \/ Advance(p)
        \/ \E q \in Procs : Fork(p, q)
        \/ Close(p) \/ Exit(p) \/ Kill(p)

Spec == Init /\ [][Next]_vars

\* A process in the kernel goes on and gets pi->lock in the end.  Nothing is
\* assumed of what programs do.
LiveSpec ==
    /\ Spec
    /\ \A p \in Procs : WF_vars(Advance(p)) /\ SF_vars(Lock(p))

-----------------------------------------------------------------------------
(* Properties.                                                             *)

\* The bytes in the ring, the oldest first.
Contents == [k \in 1..(nwrite - nread) % CntMod |-> data[(nread + k - 1) % PIPESIZE]]

\* A pipe is a FIFO of PIPESIZE bytes, over any wrap of the ring and of the
\* counters and any interleaving of readers and writers.
Abs == INSTANCE Fifo WITH Size <- PIPESIZE, q <- Contents
RefinesFifo == Abs!Spec

\* kfree(pi) happens when nobody can use the pipe any more: no process is
\* inside piperead() or pipewrite() or still has an end.
FreedOnlyUnused ==
    freed => rd = {} /\ wr = {} /\ \A p \in Procs : pc[p] \in {"idle", "exited"}

\* A writer sleeps only for room ("DOC: pipewrite-full", line 84): no wakeup of
\* piperead() or pipeclose() is lost.
WriterNotStuck ==
    \A p \in Procs : pc[p] = "write_asleep" =>
        (Full /\ readopen) \/ \E q \in Procs : lock = q /\ pc[q] = "read_loop"

\* A reader sleeps only while the pipe is empty ("DOC: pipe-empty", line 108):
\* no wakeup of pipewrite() or pipeclose() is lost, as long as nobody is killed.
\* (A writer killed in the middle of its write returns without a wakeup.)
ReaderNotStuck ==
    \A p \in Procs : pc[p] = "read_asleep" /\ (\A q \in Procs : ~ killed[q]) =>
        (Empty /\ writeopen) \/ \E q \in Procs : lock = q /\ pc[q] \in WritePCs

\* When the last write end is closed, a reader in the kernel returns.
EndOfFileSeen == \A p \in Procs : pc[p] \in ReadPCs /\ ~ writeopen ~> pc[p] \in {"idle", "exited"}

\* When the last read end is closed, a writer in the kernel returns.
BrokenPipeSeen == \A p \in Procs : pc[p] \in WritePCs /\ ~ readopen ~> pc[p] \in {"idle", "exited"}

\* The page of the pipe is there for as long as somebody can touch it, and neither
\* side sleeps for something that has already happened.
PipeInv == TypeOK /\ FreedOnlyUnused /\ WriterNotStuck /\ ReaderNotStuck

\* Each side learns that the other is gone.
CloseSeen == EndOfFileSeen /\ BrokenPipeSeen
=============================================================================
