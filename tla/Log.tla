--------------------------------- MODULE Log ---------------------------------
(***************************************************************************)
(* The write-ahead log: kernel/log.c, with the part of the buffer cache    *)
(* (kernel/bio.c) it relies on, pinning, and crashes at any point.         *)
(*                                                                         *)
(* Disk writes are synchronous and atomic per block; the machine may stop  *)
(* between any two steps.  Log blocks are only ever written through, so    *)
(* for them the cache and the disk are the same.  A file-system operation  *)
(* holds the buffer it modifies from bread() to brelse() and cannot be     *)
(* overtaken by a commit, so modifying a block and log_write() are one     *)
(* step.                                                                   *)
(***************************************************************************)
EXTENDS Integers, Sequences, FiniteSets

CONSTANTS
    Ops,            \* processes that execute FS system calls
    Blocks,         \* home blocks of the file system
    Vals,           \* block contents
    InitVal,
    NotCached,      \* the block has no buffer
    MAXOPBLOCKS,    \* "max # of blocks any FS op writes" (param.h)
    OpBlocks,       \* max # of different blocks the modelled operations write
    LOGSIZE,        \* max data blocks in on-disk log
    NLog            \* sb->nlog: header and data blocks of the on-disk log

ASSUME LogAssumption ==
    /\ InitVal \in Vals /\ NotCached \notin Vals
    /\ MAXOPBLOCKS \in Nat \ {0} /\ OpBlocks \in 0..MAXOPBLOCKS /\ LOGSIZE \in Nat /\ NLog \in Nat
    /\ NLog > LOGSIZE       \* the log area holds what param.h says it does

VARIABLES
    home,           \* home[b]: block b on disk
    logd,           \* logd[i]: data block i of the on-disk log
    hdr,            \* on-disk header block: the sequence block[0..n-1]
    lh,             \* log.lh, the in-memory header
    cache,          \* cache[b]: cached contents of b, or NotCached
    pins,           \* pins[b]: references bpin() has added to b's buffer
    outstanding,    \* log.outstanding
    committing,     \* log.committing
    pc,             \* pc[o]: where o is in begin_op/end_op/commit
    wrote,          \* wrote[o]: blocks o has logged in this operation
    tail,           \* the loop variable of write_log() and install_trans()
    mode            \* "up", or the steps of recover_from_log() after a crash

diskVars == <<home, logd, hdr>>
memVars == <<lh, cache, pins>>
opVars == <<pc, wrote>>
vars == <<diskVars, memVars, outstanding, committing, opVars, tail, mode>>

PCs == {"idle", "begin", "asleep", "in", "commit", "write_log", "install",
        "done", "panic"}

TypeOK ==
    /\ home \in [Blocks -> Vals]
    /\ logd \in [1..LOGSIZE -> Vals]
    /\ hdr \in Seq(Blocks)
    /\ lh \in Seq(Blocks)
    /\ cache \in [Blocks -> Vals \cup {NotCached}]
    /\ pins \in [Blocks -> Nat]
    /\ outstanding \in Nat
    /\ committing \in BOOLEAN
    /\ pc \in [Ops -> PCs]
    /\ wrote \in [Ops -> SUBSET Blocks]
    /\ tail \in Nat
    /\ mode \in {"up", "read_head", "install"}

Init ==
    /\ home = [b \in Blocks |-> InitVal]
    /\ logd = [i \in 1..LOGSIZE |-> InitVal]
    /\ hdr = <<>>
    /\ lh = <<>>
    /\ cache = [b \in Blocks |-> NotCached]
    /\ pins = [b \in Blocks |-> 0]
    /\ outstanding = 0
    /\ committing = FALSE
    /\ pc = [o \in Ops |-> "idle"]
    /\ wrote = [o \in Ops |-> {}]
    /\ tail = 1
    /\ mode = "read_head"

-----------------------------------------------------------------------------
(* Helpers.                                                                *)

Logged(s, b) == \E i \in 1..Len(s) : s[i] = b
Slot(s, b) == CHOOSE i \in 1..Len(s) : s[i] = b

GoTo(o, label) == pc' = [pc EXCEPT ![o] = label]

\* What bread() returns for a home block.
Bread(b) == IF cache[b] = NotCached THEN home[b] ELSE cache[b]

\* wakeup(&log), by o, which goes on at label.
WakeupAnd(o, label) ==
    pc' = [x \in Ops |-> IF x = o THEN label
                         ELSE IF pc[x] = "asleep" THEN "begin" ELSE pc[x]]

-----------------------------------------------------------------------------
(* The buffer cache.                                                       *)

\* bread() of a block that is not cached.
Load(b) ==
    /\ mode = "up"
    /\ cache[b] = NotCached
    /\ cache' = [cache EXCEPT ![b] = home[b]]
    /\ UNCHANGED <<diskVars, lh, pins, outstanding, committing, opVars, tail, mode>>

\* bget() recycles the buffer of b for another block.
Evict(b) ==
    /\ mode = "up"
    /\ cache[b] # NotCached /\ pins[b] = 0
    /\ cache' = [cache EXCEPT ![b] = NotCached]
    /\ UNCHANGED <<diskVars, lh, pins, outstanding, committing, opVars, tail, mode>>

-----------------------------------------------------------------------------
(* begin_op(), log_write() and end_op()                                    *)

\* begin_op() must not let another operation in.
MustWait == committing \/ Len(lh) + (outstanding + 1) * MAXOPBLOCKS > LOGSIZE

BeginOp(o) ==
    /\ mode = "up"
    /\ pc[o] \in {"idle", "begin"}
    /\ IF MustWait
       THEN GoTo(o, "asleep") /\ UNCHANGED outstanding
       ELSE GoTo(o, "in") /\ outstanding' = outstanding + 1
    /\ UNCHANGED <<diskVars, memVars, committing, wrote, tail, mode>>

\* The end of log_write(): absorb a block that is already logged, or add and
\* pin it.
LogWrite(b) ==
    IF Logged(lh, b)
    THEN UNCHANGED <<lh, pins>>
    ELSE /\ lh' = Append(lh, b)
         /\ pins' = [pins EXCEPT ![b] = @ + 1]

\* bread(b), modify, log_write(b), brelse(b) in operation o; log_write() tests
\* for room before it looks for the block in the log.
Write(o, b, v) ==
    /\ mode = "up"
    /\ pc[o] = "in"
    /\ cache[b] # NotCached
    /\ Cardinality(wrote[o] \cup {b}) <= OpBlocks
    /\ IF Len(lh) >= LOGSIZE \/ Len(lh) >= NLog - 1 \/ outstanding < 1
       THEN GoTo(o, "panic") /\ UNCHANGED <<cache, lh, pins, wrote>>
       ELSE /\ cache' = [cache EXCEPT ![b] = v]
            /\ LogWrite(b)
            /\ wrote' = [wrote EXCEPT ![o] = @ \cup {b}]
            /\ UNCHANGED pc
    /\ UNCHANGED <<diskVars, outstanding, committing, tail, mode>>

\* end_op() that wakes nobody when it gives its reservation back.
EndOpMutant(o) ==
    /\ mode = "up"
    /\ pc[o] = "in"
    /\ outstanding' = outstanding - 1
    /\ wrote' = [wrote EXCEPT ![o] = {}]
    /\ IF outstanding = 1
       THEN committing' = TRUE /\ GoTo(o, "commit")
       ELSE UNCHANGED committing /\ GoTo(o, "idle")
    /\ UNCHANGED <<diskVars, memVars, tail, mode>>

\* end_op() up to its release(&log.lock).
EndOp(o) ==
    /\ mode = "up"
    /\ pc[o] = "in"
    /\ outstanding' = outstanding - 1
    /\ wrote' = [wrote EXCEPT ![o] = {}]
    /\ \/ committing /\ GoTo(o, "panic") /\ UNCHANGED committing
       \/ ~ committing /\ outstanding = 1 /\ committing' = TRUE /\ GoTo(o, "commit")
       \/ ~ committing /\ outstanding # 1 /\ UNCHANGED committing
            /\ WakeupAnd(o, "idle")
    /\ UNCHANGED <<diskVars, memVars, tail, mode>>

\* The end of end_op(), after commit().
EndCommit(o) ==
    /\ mode = "up"
    /\ pc[o] = "done"
    /\ committing' = FALSE
    /\ WakeupAnd(o, "idle")
    /\ UNCHANGED <<diskVars, memVars, outstanding, wrote, tail, mode>>

-----------------------------------------------------------------------------
(* commit(), one disk write per step.                                      *)

\* if (log.lh.n > 0)
CommitStart(o) ==
    /\ mode = "up"
    /\ pc[o] = "commit"
    /\ GoTo(o, IF lh = <<>> THEN "done" ELSE "write_log")
    /\ tail' = 1
    /\ UNCHANGED <<diskVars, memVars, outstanding, committing, wrote, mode>>

\* An iteration of write_log().
WriteLog(o) ==
    /\ mode = "up"
    /\ pc[o] = "write_log" /\ tail <= Len(lh)
    /\ logd' = [logd EXCEPT ![tail] = Bread(lh[tail])]
    /\ tail' = tail + 1
    /\ UNCHANGED <<home, hdr, memVars, outstanding, committing, opVars, mode>>

\* write_head(): the real commit.
WriteHead(o) ==
    /\ mode = "up"
    /\ pc[o] = "write_log" /\ tail > Len(lh)
    /\ hdr' = lh
    /\ GoTo(o, "install")
    /\ tail' = 1
    /\ UNCHANGED <<home, logd, memVars, outstanding, committing, wrote, mode>>

\* Copy log block i to its home location, through the cache.
InstallBlock(i) ==
    /\ home' = [home EXCEPT ![lh[i]] = logd[i]]
    /\ cache' = [cache EXCEPT ![lh[i]] = logd[i]]

\* install_trans(0) that forgets bunpin().
InstallMutant(o) ==
    /\ mode = "up"
    /\ pc[o] = "install" /\ tail <= Len(lh)
    /\ InstallBlock(tail)
    /\ tail' = tail + 1
    /\ UNCHANGED <<logd, hdr, lh, pins, outstanding, committing, opVars, mode>>

\* An iteration of install_trans(0).
Install(o) ==
    /\ mode = "up"
    /\ pc[o] = "install" /\ tail <= Len(lh)
    /\ InstallBlock(tail)
    /\ pins' = [pins EXCEPT ![lh[tail]] = @ - 1]
    /\ tail' = tail + 1
    /\ UNCHANGED <<logd, hdr, lh, outstanding, committing, opVars, mode>>

\* log.lh.n = 0; write_head(): erase the transaction from the log.
Erase(o) ==
    /\ mode = "up"
    /\ pc[o] = "install" /\ tail > Len(lh)
    /\ lh' = <<>>
    /\ hdr' = <<>>
    /\ GoTo(o, "done")
    /\ UNCHANGED <<home, logd, cache, pins, outstanding, committing, wrote, tail,
                   mode>>

-----------------------------------------------------------------------------
(* Crash and recovery.                                                     *)

\* The machine stops and boots again: memory is lost, the disk is not.
Crash ==
    /\ lh' = <<>>
    /\ cache' = [b \in Blocks |-> NotCached]
    /\ pins' = [b \in Blocks |-> 0]
    /\ outstanding' = 0
    /\ committing' = FALSE
    /\ pc' = [o \in Ops |-> "idle"]
    /\ wrote' = [o \in Ops |-> {}]
    /\ tail' = 1
    /\ mode' = "read_head"
    /\ UNCHANGED diskVars

\* read_head()
ReadHead ==
    /\ mode = "read_head"
    /\ lh' = hdr
    /\ tail' = 1
    /\ mode' = "install"
    /\ UNCHANGED <<diskVars, cache, pins, outstanding, committing, opVars>>

\* An iteration of install_trans(1).
RecoverInstall ==
    /\ mode = "install" /\ tail <= Len(lh)
    /\ InstallBlock(tail)
    /\ tail' = tail + 1
    /\ UNCHANGED <<logd, hdr, lh, pins, outstanding, committing, opVars, mode>>

\* recover_from_log() that leaves the header on disk.
RecoverDoneMutant ==
    /\ mode = "install" /\ tail > Len(lh)
    /\ lh' = <<>>
    /\ mode' = "up"
    /\ UNCHANGED <<home, logd, hdr, cache, pins, outstanding, committing, opVars,
                   tail>>

\* log.lh.n = 0; write_head(): clear the log.
RecoverDone ==
    /\ mode = "install" /\ tail > Len(lh)
    /\ lh' = <<>>
    /\ hdr' = <<>>
    /\ mode' = "up"
    /\ UNCHANGED <<home, logd, cache, pins, outstanding, committing, opVars, tail>>

-----------------------------------------------------------------------------
CommitStep(o) ==
    \/ CommitStart(o) \/ WriteLog(o) \/ WriteHead(o) \/ Install(o) \/ Erase(o)
    \/ EndCommit(o)

OpStep(o) ==
    \/ BeginOp(o) \/ EndOp(o)
    \/ \E b \in Blocks, v \in Vals : Write(o, b, v)

Recover == ReadHead \/ RecoverInstall \/ RecoverDone

Next ==
    \/ \E o \in Ops : OpStep(o) \/ CommitStep(o)
    \/ \E b \in Blocks : Load(b) \/ Evict(b)
    \/ Recover
    \/ Crash

Spec == Init /\ [][Next]_vars

\* Operations end, commits go on while the machine is up and recovery goes on
\* after a crash.  Nothing is assumed of operations that want to begin.
LiveSpec ==
    /\ Spec
    /\ WF_vars(Recover)
    /\ \A o \in Ops : WF_vars(EndOp(o)) /\ WF_vars(CommitStep(o))

-----------------------------------------------------------------------------
(* Properties.                                                             *)

\* What a crash now would leave: the home blocks under the committed log.
Durable == [b \in Blocks |-> IF Logged(hdr, b) THEN logd[Slot(hdr, b)] ELSE home[b]]

\* What the file system reads.
Current == IF mode = "up" THEN [b \in Blocks |-> Bread(b)] ELSE Durable

\* log.c implements an atomic store: whatever happens, after a crash the disk
\* holds the effects of whole groups of operations, and nothing else.
Abs == INSTANCE TxDisk WITH cur <- Current, durable <- Durable,
                            active <- {o \in Ops : pc[o] = "in"}
RefinesTxDisk == Abs!Spec

\* Neither panic of log_write() nor the one of end_op() is reached: no operation
\* ends during a commit, and the space begin_op() reserves is enough.
NoPanic == \A o \in Ops : pc[o] # "panic"

\* end_op() returns to the last operation only when everything is on disk.
Synchronous == mode = "up" /\ outstanding = 0 /\ ~ committing => Durable = Current

\* A buffer is pinned exactly while its block is in the log and not yet
\* installed, so no pin leaks and no logged block can be recycled.
PinsExact ==
    mode = "up" =>
        \A b \in Blocks :
            pins[b] = IF /\ Logged(lh, b)
                         /\ (\A o \in Ops : pc[o] # "install") \/ Slot(lh, b) >= tail
                      THEN 1 ELSE 0

\* An operation that sleeps in begin_op() is woken up, unless the machine
\* crashes again and again.
SleepersWake == \A o \in Ops : pc[o] = "asleep" ~> pc[o] # "asleep"

\* What holds between any two steps of log.c, a crash included: no panic is
\* reached, the cache holds on to exactly the blocks that the log still needs, and
\* everything is on disk when the last operation has returned.
LogInv == TypeOK /\ NoPanic /\ PinsExact /\ Synchronous
=============================================================================
