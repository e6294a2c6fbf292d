--------------------------------- MODULE Bio ---------------------------------
(***************************************************************************)
(* The buffer cache, kernel/bio.c, and the sleep lock of each buffer,      *)
(* kernel/sleeplock.c.                                                     *)
(*                                                                         *)
(* A critical section of bcache.lock, or of the spin lock inside a sleep   *)
(* lock, is one step; processes interleave between them.  The list of      *)
(* buffers is kept as the next and prev pointers of the code.  Processes   *)
(* use the cache the way log.c and fs.c do: whoever modifies a buffer      *)
(* writes or pins it before releasing it, and unpins it only when it is    *)
(* written.  A block stands for the pair of dev and blockno.               *)
(***************************************************************************)
EXTENDS Integers, Sequences, FiniteSets

CONSTANTS
    Procs,      \* processes that use the cache
    Blocks,     \* blocks of the disk
    NBUF,       \* number of buffers
    Vals,       \* block contents
    InitVal,
    NoBlock,    \* dev 0, block 0: what a buffer holds at boot
    NoProc,     \* pid 0: nobody holds a sleep lock
    MaxPins     \* bound on the blocks pinned at a time

ASSUME BioAssumption ==
    /\ NBUF \in Nat \ {0}
    /\ IsFiniteSet(Procs)
    /\ MaxPins \in Nat
    /\ InitVal \in Vals
    /\ NoBlock \notin Blocks /\ NoProc \notin Procs

Bufs == 1..NBUF
ListHead == 0           \* bcache.head
Nodes == 0..NBUF

VARIABLES
    blockno,    \* blockno[i]: b->dev and b->blockno
    valid,      \* valid[i]: b->valid
    refcnt,     \* refcnt[i]: b->refcnt
    data,       \* data[i]: b->data
    next, prev, \* the list through the buffers and bcache.head
    locked,     \* locked[i]: b->lock.locked
    lpid,       \* lpid[i]: b->lock.pid
    disk,       \* disk[b]: block b on disk
    pc,         \* pc[p]: where p is
    buf,        \* buf[p]: the buffer p has from bget() (ListHead: none)
    want,       \* want[p]: the block p asked for
    dirty,      \* dirty[p]: p has modified its buffer and not yet saved it
    pinned,     \* the blocks that log_write() has pinned
    latest,     \* history: latest[b] is what was last stored in block b
    lru         \* history: the buffers, the most recently released first

listVars == <<next, prev, lru>>
lockVars == <<locked, lpid>>
bufVars == <<blockno, valid, refcnt, data>>
procVars == <<pc, buf, want, dirty>>
vars == <<bufVars, listVars, lockVars, disk, procVars, pinned, latest>>

PCs == {"idle", "lock", "asleep", "woken", "locked", "reading", "have", "writing",
        "unref", "panic"}

TypeOK ==
    /\ blockno \in [Bufs -> Blocks \cup {NoBlock}]
    /\ valid \in [Bufs -> BOOLEAN]
    /\ refcnt \in [Bufs -> Nat]
    /\ data \in [Bufs -> Vals]
    /\ next \in [Nodes -> Nodes]
    /\ prev \in [Nodes -> Nodes]
    /\ locked \in [Bufs -> BOOLEAN]
    /\ lpid \in [Bufs -> Procs \cup {NoProc}]
    /\ disk \in [Blocks -> Vals]
    /\ pc \in [Procs -> PCs]
    /\ buf \in [Procs -> Nodes]
    /\ want \in [Procs -> Blocks \cup {NoBlock}]
    /\ dirty \in [Procs -> BOOLEAN]
    /\ pinned \in SUBSET Blocks
    /\ latest \in [Blocks -> Vals]
    /\ lru \in Seq(Bufs)

\* binit(): each buffer is put at the head of the list.
Init ==
    /\ blockno = [i \in Bufs |-> NoBlock]
    /\ valid = [i \in Bufs |-> FALSE]
    /\ refcnt = [i \in Bufs |-> 0]
    /\ data = [i \in Bufs |-> InitVal]
    /\ next = [n \in Nodes |-> IF n = ListHead THEN NBUF ELSE n - 1]
    /\ prev = [n \in Nodes |-> IF n = NBUF THEN ListHead ELSE n + 1]
    /\ locked = [i \in Bufs |-> FALSE]
    /\ lpid = [i \in Bufs |-> NoProc]
    /\ disk = [b \in Blocks |-> InitVal]
    /\ pc = [p \in Procs |-> "idle"]
    /\ buf = [p \in Procs |-> ListHead]
    /\ want = [p \in Procs |-> NoBlock]
    /\ dirty = [p \in Procs |-> FALSE]
    /\ pinned = {}
    /\ latest = disk
    /\ lru = [k \in Bufs |-> NBUF + 1 - k]

-----------------------------------------------------------------------------
(* Helpers.                                                                *)

GoTo(p, label) == pc' = [pc EXCEPT ![p] = label]

\* The k-th node from the head along the pointers f.
Nth(f, k) ==
    LET walk[j \in 0..k] == IF j = 0 THEN ListHead ELSE f[walk[j - 1]]
    IN  walk[k]

\* The first node along f, in front of the head, that is in S; ListHead if none is.
First(f, S) ==
    LET hits == {k \in 1..NBUF : /\ Nth(f, k) \in S
                                 /\ \A j \in 1..k - 1 : Nth(f, j) \notin S \cup {ListHead}}
    IN  IF hits = {} THEN ListHead ELSE Nth(f, CHOOSE k \in hits : TRUE)

\* holding_sleep()
Holding(p, i) == locked[i] /\ lpid[i] = p

\* A step of the holder of a buffer that must hold its lock, or panics.
IfHolding(p, A) ==
    \/ Holding(p, buf[p]) /\ A
    \/ ~ Holding(p, buf[p]) /\ GoTo(p, "panic")
         /\ UNCHANGED <<bufVars, listVars, lockVars, disk, buf, want, dirty, pinned, latest>>

-----------------------------------------------------------------------------
(* bread()                                                                 *)

\* "Is the block already cached?"
Find(b) == First(next, {i \in Bufs : blockno[i] = b})

\* bget() whose walk from bcache.head.prev ends one buffer early.
VictimMutant == First(prev, {i \in Bufs : refcnt[i] = 0 /\ i # next[ListHead]})

\* "Recycle the least recently used (LRU) unused buffer."
Victim == First(prev, {i \in Bufs : refcnt[i] = 0})

\* bget() that does not count the caller.
HitMutant(p, b) ==
    /\ Find(b) # ListHead
    /\ buf' = [buf EXCEPT ![p] = Find(b)]
    /\ GoTo(p, "lock")
    /\ UNCHANGED bufVars

Hit(p, b) ==
    /\ Find(b) # ListHead
    /\ refcnt' = [refcnt EXCEPT ![Find(b)] = @ + 1]
    /\ buf' = [buf EXCEPT ![p] = Find(b)]
    /\ GoTo(p, "lock")
    /\ UNCHANGED <<blockno, valid, data>>

\* bget() that forgets b->valid = 0.
RecycleMutant(p, b) ==
    /\ Find(b) = ListHead /\ Victim # ListHead
    /\ blockno' = [blockno EXCEPT ![Victim] = b]
    /\ refcnt' = [refcnt EXCEPT ![Victim] = 1]
    /\ buf' = [buf EXCEPT ![p] = Victim]
    /\ GoTo(p, "lock")
    /\ UNCHANGED <<valid, data>>

Recycle(p, b) ==
    /\ Find(b) = ListHead /\ Victim # ListHead
    /\ blockno' = [blockno EXCEPT ![Victim] = b]
    /\ valid' = [valid EXCEPT ![Victim] = FALSE]
    /\ refcnt' = [refcnt EXCEPT ![Victim] = 1]
    /\ buf' = [buf EXCEPT ![p] = Victim]
    /\ GoTo(p, "lock")
    /\ UNCHANGED data

\* panic("bget: no buffers")
NoBuffers(p, b) ==
    /\ Find(b) = ListHead /\ Victim = ListHead
    /\ GoTo(p, "panic")
    /\ UNCHANGED <<bufVars, buf>>

\* bget() up to its release(&bcache.lock).
Bget(p, b) ==
    /\ pc[p] = "idle"
    /\ want' = [want EXCEPT ![p] = b]
    /\ Hit(p, b) \/ Recycle(p, b) \/ NoBuffers(p, b)
    /\ UNCHANGED <<listVars, lockVars, disk, dirty, pinned, latest>>

\* acquire_sleep(), from its start or from its return from sleep().
AcquireSleep(p) ==
    /\ pc[p] \in {"lock", "woken"}
    /\ IF locked[buf[p]]
       THEN GoTo(p, "asleep") /\ UNCHANGED lockVars
       ELSE /\ locked' = [locked EXCEPT ![buf[p]] = TRUE]
            /\ lpid' = [lpid EXCEPT ![buf[p]] = p]
            /\ GoTo(p, "locked")
    /\ UNCHANGED <<bufVars, listVars, disk, buf, want, dirty, pinned, latest>>

\* if (!b->valid) virtio_disk_rw(b, 0)
TestValid(p) ==
    /\ pc[p] = "locked"
    /\ GoTo(p, IF valid[buf[p]] THEN "have" ELSE "reading")
    /\ UNCHANGED <<bufVars, listVars, lockVars, disk, buf, want, dirty, pinned, latest>>

\* The disk has filled the buffer; b->valid = 1.
ReadDone(p) ==
    /\ pc[p] = "reading"
    /\ data' = [data EXCEPT ![buf[p]] = disk[blockno[buf[p]]]]
    /\ valid' = [valid EXCEPT ![buf[p]] = TRUE]
    /\ GoTo(p, "have")
    /\ UNCHANGED <<blockno, refcnt, listVars, lockVars, disk, buf, want, dirty,
                   pinned, latest>>

-----------------------------------------------------------------------------
(* What a process does with a buffer it has: modify, bwrite(), bpin() from *)
(* log_write(), bunpin() from install_trans().                             *)

Modify(p, v) ==
    /\ pc[p] = "have"
    /\ data' = [data EXCEPT ![buf[p]] = v]
    /\ latest' = [latest EXCEPT ![want[p]] = v]
    /\ dirty' = [dirty EXCEPT ![p] = TRUE]
    /\ UNCHANGED <<blockno, valid, refcnt, listVars, lockVars, disk, pc, buf, want, pinned>>

\* bwrite() up to the request to the disk.
Bwrite(p) ==
    /\ pc[p] = "have"
    /\ IfHolding(p, /\ GoTo(p, "writing")
                    /\ UNCHANGED <<bufVars, listVars, lockVars, disk, buf, want, dirty,
                                   pinned, latest>>)

\* The disk has stored the buffer.
WriteDone(p) ==
    /\ pc[p] = "writing"
    /\ disk' = [disk EXCEPT ![blockno[buf[p]]] = data[buf[p]]]
    /\ dirty' = [dirty EXCEPT ![p] = FALSE]
    /\ GoTo(p, "have")
    /\ UNCHANGED <<bufVars, listVars, lockVars, buf, want, pinned, latest>>

\* log_write(): bpin() for a block that is not logged yet.
Bpin(p) ==
    /\ pc[p] = "have"
    /\ \/ /\ want[p] \notin pinned
          /\ Cardinality(pinned) < MaxPins
          /\ refcnt' = [refcnt EXCEPT ![buf[p]] = @ + 1]
       \/ want[p] \in pinned /\ UNCHANGED refcnt
    /\ pinned' = pinned \cup {want[p]}
    /\ dirty' = [dirty EXCEPT ![p] = FALSE]
    /\ UNCHANGED <<blockno, valid, data, listVars, lockVars, disk, pc, buf, want, latest>>

\* bunpin() of a buffer that is on disk.
Bunpin(p) ==
    /\ pc[p] = "have"
    /\ want[p] \in pinned /\ disk[want[p]] = data[buf[p]]
    /\ refcnt' = [refcnt EXCEPT ![buf[p]] = @ - 1]
    /\ pinned' = pinned \ {want[p]}
    /\ UNCHANGED <<blockno, valid, data, listVars, lockVars, disk, procVars, latest>>

-----------------------------------------------------------------------------
(* brelse()                                                                *)

\* release_sleep(): wakeup() makes every sleeper of this lock try again.
ReleaseSleep(p) ==
    /\ locked' = [locked EXCEPT ![buf[p]] = FALSE]
    /\ lpid' = [lpid EXCEPT ![buf[p]] = NoProc]
    /\ pc' = [q \in Procs |->
                 IF q = p THEN "unref"
                 ELSE IF pc[q] = "asleep" /\ buf[q] = buf[p] THEN "woken" ELSE pc[q]]

\* brelse() up to the return of release_sleep().
Brelse(p) ==
    /\ pc[p] = "have" /\ ~ dirty[p]
    /\ IfHolding(p, /\ ReleaseSleep(p)
                    /\ UNCHANGED <<bufVars, listVars, disk, buf, want, dirty, pinned, latest>>)

\* The list with node i taken out and put back behind the head, one assignment
\* at a time.
ToHead(i) ==
    LET p1 == [prev EXCEPT ![next[i]] = prev[i]]
        n1 == [next EXCEPT ![p1[i]] = next[i]]
        n2 == [n1 EXCEPT ![i] = n1[ListHead]]
        p2 == [p1 EXCEPT ![i] = ListHead]
    IN  /\ prev' = [p2 EXCEPT ![n2[ListHead]] = i]
        /\ next' = [n2 EXCEPT ![ListHead] = i]

\* The order s of the buffers with i moved to its front
Released(s, i) ==
    LET m == CHOOSE k \in Bufs : s[k] = i
    IN  [k \in Bufs |-> IF k = 1 THEN i ELSE IF k <= m THEN s[k - 1] ELSE s[k]]

\* The rest of brelse(), under bcache.lock.
Unref(p) ==
    /\ pc[p] = "unref"
    /\ refcnt' = [refcnt EXCEPT ![buf[p]] = @ - 1]
    /\ IF refcnt[buf[p]] = 1
       THEN /\ ToHead(buf[p])
            /\ lru' = Released(lru, buf[p])
       ELSE UNCHANGED listVars
    /\ buf' = [buf EXCEPT ![p] = ListHead]
    /\ want' = [want EXCEPT ![p] = NoBlock]
    /\ GoTo(p, "idle")
    /\ UNCHANGED <<blockno, valid, data, lockVars, disk, dirty, pinned, latest>>

-----------------------------------------------------------------------------
\* A process that has a buffer, or is getting one, goes on.
Advance(p) ==
    \/ AcquireSleep(p) \/ TestValid(p) \/ ReadDone(p) \/ WriteDone(p)
    \/ Brelse(p) \/ Unref(p)

Next ==
    \E p \in Procs :
        \/ \E b \in Blocks : Bget(p, b)
        \/ \E v \in Vals : Modify(p, v)
        \/ Advance(p) \/ Bwrite(p) \/ Bpin(p) \/ Bunpin(p)

Spec == Init /\ [][Next]_vars

-----------------------------------------------------------------------------
(* Properties.                                                             *)

\* bget(): a block never has two buffers, whatever look-ups, recycling and
\* releases interleave.
OneBufPerBlock ==
    \A i, j \in Bufs : blockno[i] = blockno[j] /\ blockno[i] # NoBlock => i = j

\* "Only one process at a time can use a buffer" (line 15): acquire_sleep() and
\* release_sleep() exclude, and lock.pid names the holder.
HolderAlone ==
    \A p, q \in Procs :
        pc[p] \in {"locked", "reading", "have", "writing"} =>
            /\ Holding(p, buf[p])
            /\ pc[q] \in {"locked", "reading", "have", "writing"} /\ buf[p] = buf[q] => p = q

\* bread() returns the block it was asked for, with what was last stored in it,
\* even when its buffer was recycled or handed on in between.
Coherent ==
    \A p \in Procs :
        pc[p] = "have" => blockno[buf[p]] = want[p] /\ data[buf[p]] = latest[want[p]]

\* A buffer's count is the processes between bget() and the end of brelse(),
\* and its pin: no reference leaks and none is given back twice.
RefExact ==
    \A i \in Bufs :
        refcnt[i] = Cardinality({p \in Procs : buf[p] = i})
                    + (IF blockno[i] \in pinned THEN 1 ELSE 0)

\* Nobody sleeps for a sleep lock that is free.
NoLostWakeup == \A p \in Procs : pc[p] = "asleep" => locked[buf[p]]

\* The pointers always form one ring through all buffers, in the order the
\* comment promises: "head.next is most recent, head.prev is least" (line 31).
ListIsLru ==
    \A k \in Bufs : Nth(next, k) = lru[k] /\ Nth(prev, k) = lru[NBUF + 1 - k]

\* One buffer for a block and one process in it, counts that match who uses it, a
\* list in LRU order, nobody asleep for a free buffer: also after a panic.
BioInv ==
    /\ TypeOK
    /\ OneBufPerBlock /\ HolderAlone /\ RefExact /\ ListIsLru
    /\ NoLostWakeup

\* "bget: no buffers" is the only panic of the cache, and a true one: none of the
\* buffers holds the block, and each is in the hands of another process or pinned
\* by the log.  bwrite() and brelse() never panic.
PanicsOnlyWhenFull ==
    [][\A p \in Procs : pc[p] # "panic" /\ pc'[p] = "panic" =>
          /\ pc[p] = "idle"
          /\ \A i \in Bufs : /\ blockno[i] # want'[p]
                             /\ \/ \E q \in Procs \ {p} : buf[q] = i
                                \/ blockno[i] \in pinned]_vars

\* What bread() promises its callers: a consistent cache at every moment, and a
\* buffer as long as there is one to give.
CachePromise == []BioInv /\ PanicsOnlyWhenFull
=============================================================================
