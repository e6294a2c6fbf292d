# A TLA+ model of the mkros kernel

mkros is a small RISC-V kernel (Sv48, QEMU `virt`, OpenSBI, NUMA) derived from
xv6-riscv.  This directory holds TLA+ modules translated from its source, TLC
configurations that check them on small instances, and TLAPS proofs of the
results that matter most.

At this commit `main()` (kernel/main.c:19-57) brings up the console, the device
tree, the boot-time allocator and the kernel page table, starts the other harts
and idles; it does not call `procinit`, `binit`, `iinit`, `fileinit`,
`virtio_disk_init`, `plicinit`, `userinit` or `scheduler`.  The code of those
components is complete and compiled into the kernel, so each of them is
modelled from the state its own initialisation function establishes.

## 1. Inventory

| component | source | state | operations | hard part | correct when |
|---|---|---|---|---|---|
| spin locks, interrupt nesting | kernel/spinlock.c, cpu.c | `locked`, `cpu` of each lock; `noff`, `intena`, SIE of each hart | `acquire`, `release`, `holding`, `push_off`, `pop_off` | interrupts between any two instructions; other harts between the two reads of `holding` | mutual exclusion, no self-deadlock with a handler, interrupt state restored |
| processes and scheduler | kernel/proc.c, swtch.S | `proc[]`, `wait_lock`, `nextpid`, `cpu->proc` | `fork`, `exit`, `wait`, `kill`, `sleep`, `wakeup`, `yield`, `scheduler` | locks handed over in `swtch`, lost wakeups, freeing a stack in use, orphans | one hart per stack, family tree sound, no lost wakeup |
| sleep locks | kernel/sleeplock.c | `locked`, `pid` | `acquire_sleep`, `release_sleep`, `holding_sleep` | built on `sleep`/`wakeup`; the waker does not hand over | mutual exclusion, progress |
| traps, timer | kernel/trap.c, timer.c, plic.c, kernelvec.S, trampoline.S, swtch.S | `sepc`, `scause`, `sstatus`, `stvec`, `tp` of each hart; trapframe and kernel stack of each process; `ticks` | `uservec`, `usertrap`, `usertrapret`, `userret`, `kernelvec`, `kerneltrap`, `devintr`, `timer_tick` | a trap overwrites the registers of the one below; a process comes back on another hart | programs and system calls keep their place, killed processes exit |
| system call layer | kernel/syscall.c, sysproc.c | trapframe | argument fetching, dispatch, `sys_sleep`, `sys_kill` ... | user pointers; a sleep that a tick or a kill ends | arguments checked, `sleep(n)` ends |
| buffer cache | kernel/bio.c | `buf[]` with `dev`, `blockno`, `valid`, `refcnt`, the LRU list | `bread`, `bwrite`, `brelse`, `bpin`, `bunpin` | look-up and recycling race, `valid` is read under another lock than `refcnt` | one buffer per block, contents of the right block |
| log | kernel/log.c | on-disk header and blocks, `log.lh`, `outstanding`, `committing` | `begin_op`, `end_op`, `log_write`, `commit`, recovery | crash between any two disk writes, group commit, space reservation | atomic, durable operations |
| virtio disk driver | kernel/virtio_disk.c | descriptor ring, `free[]`, `used_idx`, `info[]` | `virtio_disk_rw`, `virtio_disk_intr` | device and driver share memory; 16-bit indices wrap; descriptors run out | each request completes once, no descriptor shared |
| directories and inode table | kernel/fs.c, sysfile.c | inode table, inodes, directories | `iget`, `ilock`, `iput`, `dirlink`, `namex`, `create`, ... | reference counts of cached and linked inodes, lock order | an inode is freed once, when unreachable |
| blocks and contents of files | kernel/fs.c, file.c | block bitmap, `addrs`, indirect blocks, data | `balloc`, `bfree`, `bmap`, `itrunc`, `readi`, `writei`, `fileread`, `filewrite` | full disk and failed copies in the middle, crash between the parts of a write, log reservation | a block has one owner, at every moment on the disk too; writes are atomic by part |
| files and descriptors | kernel/file.c, sysfile.c | `ftable`, `ofile[]` | `filealloc`, `filedup`, `fileclose`, `sys_open`, `sys_link`, `sys_unlink`, ... | partial failure of a multi-step system call | counts match the descriptors |
| pipes | kernel/pipe.c | ring of 512 bytes, `nread`, `nwrite`, `readopen`, `writeopen` | `pipealloc`, `pipeclose`, `piperead`, `pipewrite` | blocking on both sides, close while blocked, 32-bit counters wrap | FIFO, nobody blocked for ever |
| exec | kernel/exec.c | the new page table | `exec`, `loadseg` | failure in the middle | old image intact on failure |
| page tables | kernel/vm.c | Sv48 tables | `walk`, `mappages`, `uvmunmap`, `uvmalloc`, `uvmcopy`, `copyin`, ... | partial failure, freed once | mapped pages owned once |
| page allocator | kernel/kalloc.c | free list | `kalloc`, `kfree` | shared by all harts | no page owned twice |
| boot allocator | mm/bootmem.c | bitmaps per node | `bootmem_init`, `bootmem_alloc`, `bootmem_free` | bit arithmetic on 64-bit words | no page handed out twice |
| console and UART | kernel/console.c, uart.c, plic.c | input ring `r`/`w`/`e`; output ring | `console_intr`, `console_read`, `uartputc`, `uartstart`, `uartintr` | interrupt against reader, ring wrap, output waits for an interrupt | lines delivered once and in order |
| printk | kernel/printk/*.c | ring buffer | `ring_buf_put`, `ring_buf_flush`, `printk` | wrap, full against empty | the bytes of a message are printed once and in order |
| boot | kernel/main.c, entry.S | `started` | `main` | memory ordering between harts | no hart runs ahead |
| device tree | kernel/device_tree.c | `dt`: harts, NUMA nodes, memory, distances | `parse_device_tree` and a parser per kind of node | phandles that refer forward, cells of several widths, missing properties | the kernel knows exactly what the tree describes |
| strings | kernel/string.c | none | `memset`, `memmove`, ... | overlap | |
| libfdt | lib/libfdt | a blob: header, reserve map, structure block, strings block | searches (`fdt_ro.c`), edits (`fdt_rw.c`, `fdt_wip.c`), ranges (`fdt_addresses.c`) | every edit moves blocks and offsets; little room; any offset from the caller | the blob stays well formed and stands for the edited tree; a failed call changes nothing |
| SBI | lib/ | none | wrappers of firmware calls | | |

How the components interact: system calls (sysproc.c, sysfile.c) call the file,
pipe, inode and process code; the file system calls the log, the log calls the
buffer cache, the cache calls the disk driver; the driver and the console share
state with interrupt handlers that `devintr` (trap.c) calls.  Everything that
blocks does so with `sleep`/`wakeup` of proc.c, and everything that is shared is
under a spin lock or a sleep lock.

## 2. Modules

| module | models | state and steps |
|---|---|---|
| Spinlock | spinlock.c and interrupts in the middle of it | `locked`, `lcpu` are the fields of the locks; `noff`, `intena`, `sie` of the hart; each hart has a thread and a handler context, and each shared memory access is a step |
| Proc | proc.c, with the killed test of `usertrap` | `state`, `pid`, `parent`, `chan`, `killed` of proc[]; `plock`, `waitlock`; `onstack` and `cpuproc` tell `swtch()` from `c->proc`; `pc` is where a kernel thread is |
| Log | log.c over an abstract cache and disk | `hdr`, `logd`, `home` are the disk, the rest is lost in `Crash`; each disk write of a commit or a recovery is a step |
| TxDisk | abstract: what log.c promises | `cur`, `durable`, `active`: whole groups of operations become durable, a crash goes back to `durable` |
| Blocks | balloc ... writei of fs.c, `fileread` and `filewrite` of file.c, on the disk TxDisk promises | `cache`, `home` (the disk), `lh` (logged blocks), in-memory `inode`, locks and offsets; one block of a write is a step, `Crash` keeps `home` |
| Contents | abstract: what `read()` and `write()` promise | `content`, `saved`: files as byte sequences, changed by whole parts of a write |
| Bio | bio.c and sleeplock.c | `next`/`prev` are the pointers of the LRU list; one step per critical section |
| VirtioDisk | virtio_disk.c and the device | descriptors and both rings; a step per memory access that the device can see |
| Bootmem | mm/bootmem.c | `bitmap` as the set of bits that are 1; shifts with the width of an int in words of another width |
| Vm | kalloc.c, vm.c, exec.c and the memory of `userinit`, `fork`, `sbrk`, `exit`, `wait`; composed with Bootmem | `freelist` as a bag; `pt` the page tables as trees of pages; an allocation is a step, taking down a table is one |
| Printk, Uart | printk.c, ring_buffer.c; uart.c | the ring of a `printk()`, `pr.lock`, `panicked`; `uart_tx_buf` and its counters |
| Serial | composes Printk with Uart | a byte that leaves a ring is a call of `uartputc_sync()`; `write()` calls `uartputc()` on the same UART |
| Pipe | pipe.c | ring, counters modulo `CntMod`, both ends and who has them |
| Fifo | abstract: a bounded FIFO | implemented by Pipe and by the transmit buffer in Serial |
| Console | `console_intr`, `console_read` | `r`, `w`, `e` modulo `CntMod`, characters as classes |
| LineInput | abstract: an input line editor | implemented by Console |
| File | file.c, descriptors, `sys_pipe`, `sys_open`, `fork`/`exit` of descriptors | `ftable` counts, `ofile`, and what files refer to |
| Names | `namex`, `create`, `link`, `unlink`, `chdir`, `open`, `iput` | inodes with `type`, `nlink`, entries; table entries with `ref`, `valid`, lock; `put` and `freed`: an `iput()` under way, which lets go of all locks between its two halves |
| FdtRead | fdt.c, fdt_ro.c and the reading half of fdt_addresses.c | operators on a blob; offsets count items of the structure block, sizes count bytes |
| FdtEdit | fdt_rw.c, fdt_wip.c and the appending half of fdt_addresses.c | `fdt`, the blob with its header and with where its blocks really are; an action per call, with any offset |
| FdtTree | abstract: a tree of nodes edited one call at a time | `tree`, `known`, `rsv`; implemented by FdtEdit |
| DeviceTree | device_tree.c over FdtEdit | firmware edits the blob, then the boot hart parses it, one subnode of the root a step, into `dt` |
| Traps | trap.c, timer.c, plic.c, trampoline.S, kernelvec.S, swtch.S, `sys_sleep`, `sys_kill` | control registers and place of each hart; trapframe, kernel stack and context of each process; a step wherever an interrupt or another hart can come between |
| Threads | abstract: programs that run as if alone | `at`, `upc`, `killed`; implemented by Traps |
| Disk, UserMemory, SerialLine, FileSystem | VirtioDisk; Vm; Serial; File and Names | the same models under variable names of their own, so that a run and a proof module can have them beside another model; they name the properties that both speak of |
| MCBio, MCTraps, MCSerial | instances of the module of that name, with the bounds of section 3 | Spinlock, Proc, Pipe and Console need none beyond a cfg |
| MCVm, MCLog, MCDevices, MCFileSystem | instances with two models each: Proc and Vm, Log and Blocks, DeviceTree and VirtioDisk, Names and File | the two share no state; a behaviour follows one of them, chosen in the initial state |
| SpinlockProofs, ProcProofs, LogProofs, PipeProofs, ConsoleProofs, BioProofs, TrapsProofs | TLAPS proofs about the module of that name | section 5; in a second half ProcProofs is about Vm, PipeProofs about File and Names, ConsoleProofs about Serial and BioProofs about VirtioDisk |
| RingArithmetic | lemmas about `%` for rings with counters that wrap, and about page addresses | used by PipeProofs, ConsoleProofs, BioProofs and ProcProofs |

Where the steps are cut: a critical section that waits for nothing inside is one
step, because nobody else can see its middle; a lock that the code keeps while it
waits (for another lock, for the disk, across `swtch()`) is a variable.  Memory
that is read without a lock (`holding()`, LSR, the rings of the disk) makes each
access a step of its own.  The headers of the modules say what else is abstracted.
Definitions with names ending in `Mutant` are plausible errors of the operation
below them; they are not part of any specification and serve to test that the
properties would notice.

## 3. Runs

`tlc -config <cfg> <module>`; each ends without an error, but for iput, which ends in the
counterexample of section 6.

| run | instance | checks |
|---|---|---|
| spinlock | 2 harts, each with a thread and a handler, 1 lock, 1 bare `push_off` | mutual exclusion, no panic, interrupts restored, while somebody spins somebody gets the lock |
| proc_live | 2 slots, 2 harts, pids up to 4 | `wait()` returns once a child has exited; killed processes exit |
| traps | 2 processes, 2 harts, ticks modulo 3; p1 has 2 instructions and sleeps 1 tick, p2 sleeps -1 ticks; at most one hart with a pending software interrupt | each trap goes to the right vector, `tp` is right, kernel stacks balance, no panic (TrapsInv); programs and system calls keep their place across traps and moves (refinement of Threads); `sleep()` ends and killed processes exit (TrapsLive) |
| log | Log: 3 operations, 2 blocks, log of 6, each operation up to 2 of its 3 blocks. Blocks: 2 processes, 3 open files of 2 inodes, disk of 8 blocks of 2 bytes, 1 direct block, writes of 1 and 4 bytes, 2 calls, a disk that is empty or nearly full | refinement of TxDisk with a crash at any step, durability on return, pins and panics, sleepers wake; bitmap exact in memory and on the disk, an operation fits its reservation (BlocksInv), refinement of Contents |
| bio | 2 processes, 4 blocks, 3 buffers, up to 2 pinned | contents (Coherent); one buffer per block, counts, LRU order, no lost wakeup, and no panic but that of `bget()` when no buffer is left (CachePromise) |
| devices | 3 trees that firmware edits up to twice, with little room, at any offset, one blob without the magic number, one board with everything the kernel looks for; and the disk: 3 processes, 8 descriptors, indices modulo 16 | the blob stays well formed (BlobInv), searches are exact (a value that is no list of \0-ended strings is refused, but for the case of section 6), the kernel knows what the tree describes, refinement of FdtTree; descriptors owned once, device sees intact chains, data there on return (DiskInv), nothing missed |
| processes | Proc: 3 slots, 2 harts, pids up to 5, kill of any. Vm: 2 processes, 7 pages for `kalloc` and 10 for page tables of 3 levels, programs of two segments, 1 argument; and two machines without processes, below | one hart per stack, no stack freed in use, no lost orphan, no lost wakeup; every page is in one place, no panic, `p->sz` matches the table, a failed call leaves memory alone; bits of owned pages are set |
| serial | 2 threads, ring of 8 and messages of 8 and 9, UART buffer of 2, a panic | a message is printed once and in order up to what a full ring loses (PrintedExactly); not mixed, UART not overrun, panic never blocks (SerialInv); transmit buffer is a FIFO |
| pipe | 2 processes, 2 byte values, pipe of 2, counters modulo 4, one killed | FIFO, freed once unused, nobody stuck, close seen |
| console | 2 readers, buffer of 3, indices modulo 6, reads of up to 2 | line editing refined, end of file, indices in order and a full buffer readable (ConsoleInv), reads return |
| filesystem | Names: 2 processes, 4 inodes, two sets of system calls, below. File: 2 processes, 4 files, 2 descriptors each, 1 page for pipes | link and reference counts, no use of a freed inode, no panic, `iput()` never sleeps under itable.lock (NamesInv), an inode is lost only after a free (LostOnlyAfterFree); counts match descriptors after any partial failure (FileInv) |
| iput | as filesystem | FreedWhenUnused, which fs.c:119-121 says and the code does not do: a counterexample of 28 states |

Why the bounds are enough for what is asked.  Every race here is between two
actors, or two and an interrupt handler or device; the third slot in processes is
there for a parent, a child and init, the third process on the disk for 8
descriptors that serve only two requests.  Rings have the least size at which
full, empty, and wrapped differ, and counters the least modulus that is a
multiple of it and larger (4 for 2, 6 for 3, 16 for 8), so that both wrap within
a run, as 32-bit and 16-bit counters do after longer ones.  In log, three
operations with a reservation of 3 in a log of 6 make the third one wait, and
two blocks make operations share blocks; they cannot fill the log, so that the
reservation is right is left to the theorem LogSafe.  In bio four blocks and three buffers
force recycling, and two pins with the buffer of one process leave none for the other.
Messages of 8 bytes end on a full ring of 8, those of 9 wrap it and empty a quarter on the way.  For Vm there is enough for a process and either a fork or an
exec, and not for both, so that every allocation succeeds in some behaviour and fails in
another, and page-table pages run out before, with and after pages.  MaxPid, MaxArgs, MaxBare, MaxPins, MaxCalls and MaxN bound what clients ask for.
In Blocks a write of 4 bytes reaches from the direct to the indirect block and does not
fit one log operation, and one free block makes an allocation fail with a data block, or
the indirect block, already in hand.  Two edits of a tree are enough to add
something and to remove or outgrow it; the larger board is only parsed.  In Traps p1 needs two
instructions, so that a program counter that is lost shows, and each process must be
able to come back on the other hart in the middle of a trap; ticks wraps after three.

Two models in one run: in MCVm, MCLog, MCDevices and MCFileSystem a variable (`part`,
`layer` or `device`) says which model a behaviour follows, the other one keeps its initial state.
Each property speaks of one model, so the run shows what two runs would.

Two modules choose their instance in the initial state.  Vm, through Bootmem, has a
record `machine`: one for the processes; one with ints half as wide as words, as built, two adjacent nodes
behind the kernel, single pages and no frees; one with ints as wide as words, all requests and frees, which
checks the search and the bookkeeping apart from the width of the shifts.  The last two
have no processes, the first has no other callers of bootmem.  Single pages without frees is what
the kernel asks for at boot, but the layout is not that of the board in the boot log (src/README.md:119), where the
kernel lies inside node 0: there bootmem_init() fails (bootmem.c:41, section 6).  Names
has a set of calls: one workload of files that are created, linked, opened and
removed in a directory that stays, one in which directories are removed while they
are current directories.

In proc_live and processes a step `Rest` stands for the pids that run out at MaxPid and
for init's exit. Both follow `Proc`; an exit that reparents children needs the three slots
of processes, whose graph is too large for liveness. Deadlock is not checked in pipe, because all
processes may have closed the pipe; in serial, because `panic()` stops its thread.
All others cannot stop.

## 4. Fairness

Safety is checked and proved without fairness.  The temporal properties use:

- Spinlock: weak fairness of a context that is inside `acquire`/`release`, because
  a hart executes on; strong fairness of the swap by a waiting context is not
  assumed, but every holder releases (strong fairness of `Release`).
- Proc: weak fairness of the scheduler's return and of a process that resumes;
  strong fairness of picking each runnable process, which the scan of `proc[]`
  from the start justifies (proc.c:395-425), of the timer's `yield()`, and of
  taking a contended lock in the end.
- Log: operations end, commits and recovery go on.  Nothing is assumed of
  operations that want to begin.
- Traps: a hart inside a trap handler goes on (weak).  A timer interrupt that a hart
  could take again and again is taken in the end, a runnable process is picked in the
  end, and a process that runs again and again makes a step (strong): the timer is
  periodic and the scheduler scans all slots.  A hart with a software interrupt pending never gets so far as to run a process
  (section 6), and the other one has to do.
- Pipe, Console: a process in the kernel goes on (weak) and gets the contended lock in
  the end (strong); nothing is assumed of programs or of the keyboard.

Spin locks are not fair in the code: a hart can in theory lose every race for the
swap, so strong fairness of taking a lock says that this has no adversary.

## 5. Proofs

TLAPS proves the following for every value of the constants that the named assumption of
the component's module allows: any number of harts, processes, slots, locks, operations,
blocks, buffers and pages, any size of a ring, a log or a program.  An assumption is an `ASSUME`
of the component's module; for the components that are proved about through an `INSTANCE`
(VirtioDisk, File, Names, Serial, Vm) it is a definition such as `VmAssumption`, which the theorem names as its
hypothesis and the MC module assumes, so that TLC evaluates it.  These assumptions say that
constants are numbers or sets of the right kind, that model values such as NoProc are
outside the sets they must not be in, and three facts of the build: a counter's modulus
is a multiple of its ring's size and larger (2^32 and 512, 128), the log area on the disk
holds LOGSIZE blocks and a header, and Bio has finitely many processes.

Each component has an inductive invariant `IInv` (TLC has checked it on the run's
instance), a lemma per action that the action preserves it, and the theorems follow from
it.

| module | theorems | statement |
|---|---|---|
| SpinlockProofs | SpinlockTypeOK, SpinlockMutualExclusion, SpinlockNoPanic, SpinlockNoSelfDeadlock, SpinlockIntrRestored | the invariants of those names |
| ProcProofs | ProcTypeOK, ProcOneCpuPerStack, ProcStackNotFreed, ProcParentAlive, ProcNoLostWakeup, ProcPidUnique, ProcSchedHoldsNoWaitLock | the invariants of those names |
| | VmSizeExact, VmOnlyFullPanics, VmImageStays | of Vm: the part SizeExact of `MemInv`; the only panic that is left; `ImageStays` |
| LogProofs | LogRefines, LogPinsExact, LogSynchronous, LogTypeOK | Log implements TxDisk; the parts of `LogInv` other than NoPanic |
| | LogSafe | `LogInv`, if `OpBlocks < MAXOPBLOCKS` |
| PipeProofs | PipeSafe, PipeRefines | `PipeInv`; Pipe implements Fifo |
| | FilesSafe | of File: `FileInv` |
| | NamesLostOnlyAfterFree, NamesRefsExact | of Names: `LostOnlyAfterFree`; the part RefsExact of `NamesInv` |
| | NamesOpenKept, NamesNoDangling | until a panic of `ilock()`: what is open is not freed (`OpenKept`); every name stands for an allocated inode, and `unlink()` never finds "nlink < 1" |
| | NamesNoPanic | TypeOK, NoPanic and OpenKept of `NamesInv`, if no path has a ".." in it (`NoDotDot`) |
| ConsoleProofs | ConsoleSafe, ConsoleEof, ConsoleRefines | `ConsoleInv`; a ^D gives an empty read; Console implements LineInput |
| | SerialSafe, SerialPrintedExactly, SerialRefines | of Serial: `SerialInv`; `PrintedExactly`; the transmit buffer implements Fifo |
| BioProofs | BioCoherent, BioConsistent, BioSafe | `Coherent`; `BioInv`; `CachePromise`, which adds when `bget()` panics |
| | DiskSafe, DiskNothingMissed, DiskNoRequestLost | of VirtioDisk: `DiskInv`; `NothingMissed`; where a request is |
| TrapsProofs | TrapsSafe, TrapsRefine | `TrapsInv`; Traps implements Threads |

Two theorems have a hypothesis beyond that assumption.  `log_write()` tests for a full log before it looks
whether the block is in it already (log.c:205), so operations that use all of what
`begin_op()` reserves can panic (section 6); LogSafe is about operations that log
fewer blocks than MAXOPBLOCKS.  A ".." can
lead to an inode that was freed (section 6), and only a ".." can: NamesNoPanic is about programs that use none, the
other theorems about Names about all programs.

Three statements are weaker than a reader might expect, because the code is.  `bget()`
panics when all buffers are in use, and with NBUF = 30, NPROC = 64 and LOGSIZE = 30 they can be:
BioSafe says that it panics only then, when each buffer is in the hands of another process or
pinned and none has the block, and that nothing else of bio.c panics.  `ring_buf_size()` takes a full ring for
an empty one (section 6): SerialPrintedExactly says how many bytes of a message are printed,
which is all of them unless it ends on a full ring, for messages of every length.
`iput()` may lose an inode (section 6): NamesLostOnlyAfterFree says that it frees one whenever it
drops the last reference, except in the one window where the inode was freed and allocated again.

Along which arguments:

SpinlockProofs.  None of the invariants is inductive alone: that `holding()` is not
fooled needs that `lcpu` names a hart only while one of its contexts owns the lock
(`LockInv`); that only one context of a hart can own it needs that the context
underneath owns nothing (`QuietInv`), which needs that interrupts are on only at
depth zero (`SieInv`), which needs that `noff` counts exactly the locks held, the
bare `push_off`s and the one under way (`CountInv`, with cardinalities).  `WantInv`
ties `intena` to what the thread last chose.

ProcProofs.  The invariant says who holds which lock where (`CpuInv`, `WaitLockInv`,
`PcInv`), what fork() owns (`ForkInv`), that parents are alive and past no reparent()
(`ParentInv`) and that an exiting child has woken its parent (`WakeInv`); under
`wait_lock` the last two are stable.

LogProofs.  `outstanding` is the number of operations inside (`CountInv`), so whoever
commits is alone (`CommitInv`); logged blocks are pinned, hence cached, and every other
buffer equals the disk (`PinInv`, `CacheInv`), so what a commit writes is the current
disk, and the disk seen through the header is the same before and after each block that
is installed, by a commit or by a recovery that crashes again (`TailInv`).  That is the
refinement: `durable` is the disk seen through the header, and the one write of the header is
TxDisk's commit.  LogSafe adds that the reservations of all operations inside fit
(`SpaceInv`).

PipeProofs.  The holder of the lock is where the code holds it (`LockInv`), open flags
say who can still come (`EndInv`), what a process saw before it sleeps is still so
(`SleepInv`), and the ring holds no more than PIPESIZE bytes (`RingInv`): that makes
`nwrite - nread` exact although both wrap, which is what RingArithmetic is about.

ConsoleProofs.  Distances from `r` to `w` to `e` add up to at most the size of the
buffer (`InOrder`), and to less while a line is being edited (`OrderInv`); no character of that line
ends a line (`LineInv`), so ^U stops at `w`.

BioProofs.  `next` and `prev` are the two directions of one order of all buffers
(`ListInv`), so a search misses none; counts are exact, so what is recycled is unused; a
valid buffer has what was last stored in its block (`DataInv`), and where the disk has
something older the block is pinned or still held (`StoredInv`, `PinInv`), so it is not read again.
The walk along the list is a recursive function; what it returns is proved with the
least number for which it would be wrong, which exists because `<` is well-founded.

TrapsProofs.  What the registers of a hart are depends on where its code is
(`HartInv`), and that depends on what the process that it takes over has left: its
context and the one pair of locals under a `kret` (`BusyInv`, `AwayInv`), or on the
stack of the scheduler (`IdleInv`).  The place of a program is read below the trap that lies
on it, on a hart or in a context, so that a trap, its end, `sched()` and `swtch()` leave
it alone, and every other step is one of Threads.

VirtioDisk (in BioProofs).  A request that the device has not completed is in exactly one of
three places, the avail ring, the device or the used ring (`DiskNoRequestLost`), and the
three descriptors of its chain are its own; the indices of both rings are compared modulo
their width, which is exact because never more requests are between them than descriptors exist.
The lock is released only by who waits, so what is seen before a sleep is still so.

File (in PipeProofs).  A count of `ftable` is compared with the set of its holders:
descriptors, by process and number, and the local variables of calls under way.  A fork() that is
copying its descriptors holds the ones it has copied.  The last holder that closes is
alone with its copy of the entry, so the end of the pipe or the inode is given back
once.  `Holders` and `Owners` are finite whatever NOFILE is.

Names (in PipeProofs).  A count of the inode table is the number of processes that have
the inode as current directory, as open file, or in `ip` or `dp` at a place where the call has a
reference there, and of those who are in `iput()` with it (`UseInv`).  So an `iput()` that finds a count of 1 is alone, and what
somebody has looked up under a lock (`SureInv`) stays what it is.  `nlink` is at least the names of the inode, its
subdirectories and the calls that owe it a name or a decrement (`LinkInv`): `link()` counts
before it enters the name, `unlink()` clears the entry before it counts.  It may be more,
for a name that was made in a directory that is gone, but then nothing is freed too early.
Whoever comes to `iput()` and has not freed yet finds a valid entry (`PutSure`), so that with a
count of 1 and no links it frees; after the free it only counts down, and that is the step in which an inode that was allocated
anew can be lost.  The invariant holds until `ilock()` panics; a step
preserves it or is that panic, at the end of a "..".

Serial (in ConsoleProofs).  `uartputc_sync()` takes no lock: threads that have seen LSR idle
and not written yet are counted against the FIFO.  Output holds `pr.lock` while
`pr.locking` is on, and a panic turns it off before it prints; head and tail of a
ring are the bytes sent and put, modulo its capacity.  The ring is full only after Capacity
bytes and after each quarter more, which tells which messages end on a full one.

Vm (in ProcProofs).  A call builds or shrinks tables of one process that nobody else
touches.  Wherever an allocation can fail, that table maps exactly the pages below
`va` and the two at the top (`TableInv`), and so what a failure path gives back, from
`va` down to where the call began, restores the table that was there.  With it every page that is
unmapped, copied, loaded or freed is mapped, and a table whose leaves are gone frees without
a panic.  One panic is left: mappages() finds the trapframe or the trampoline where it
wants to put a page of a program that has grown up to them; `growproc()` and `uvmalloc()` do not compare with TRAPFRAME.

What TLAPS cannot prove stays with TLC: the temporal properties with fairness
(LockProgress, WaitReturns, KilledExits, TrapsLive, SleepersWake, CloseSeen,
ReadReturns), and all of FdtRead, FdtEdit,
FdtTree and DeviceTree, which describe trees with RECURSIVE operators.  Not proved so far,
and model-checked only: BlocksInv and RefinesContents (Blocks), LinksExact and IputNeverBlocks in NamesInv,
and what MemInv says beyond SizeExact.  LinksExact and NoPanic in NamesInv and the bitmaps in MemInv
do not hold for every value of the constants: the workloads and machines for which they fail are in
section 6.

## 6. Known deviations

Cases in which the code does not do what its comments or documents say, found while
modelling.  The run iput shows one of them.  The others are outside the runs' instances, or
the runs check the weaker statement that is true; each is reproduced by a change of an instance.

| where | what happens | how to see it |
|---|---|---|
| proc.c:528 | `kill()` compares the pids of free slots, which are 0: `kill(0)` marks one, `allocproc` does not clear the mark, the next process is born killed | Proc: invariant `BornAlive`, `KillPids = {0}` |
| proc.c:377-383 | `wait()` tests `killed(p)` and then sleeps: a kill in between wakes nobody ("Wake process from sleep()", line 531) | Proc: invariant `KilledNotAsleep`, `KillPids = {2, 3}`, `MaxPid = 3` |
| log.c:205 | `log_write()` panics on a full log before it looks whether the block is logged already, so operations that keep to MAXOPBLOCKS (param.h:11) can panic | Log: `LogInv`, 2 operations, 4 blocks, `OpBlocks = MAXOPBLOCKS = 2`, `LOGSIZE = 4`, `NLog = 5` |
| bootmem.c:98 | `1 << (63 - col)` is a 32-bit shift and tests another page ("current page already allocated", line 99) once the search starts over | Vm: `MemInv`, `Machines <- BuiltLargeRequest` |
| bootmem.c:151 | the same shift, sign-extended, clears the bits of other pages | Vm: `MemInv`, `Machines <- BuiltFrees` |
| bootmem.c:68 | `(1 << rest) - 1` marks rest % 32 pages of the bitmap and node | Vm: `MemInv`, `BitsPerPage = 6` |
| bootmem.c:41 | the node that holds the kernel ends too late, its bitmap is in the next node; the board of the boot log (src/README.md:119) is such a machine | Vm: `MemInv`, `Machines <- BuiltKernelInNode` |
| kalloc.c:43 | `kinit()`, which `main()` does not call, frees all memory behind the kernel, the nodes of bootmem and what it has given out included | Vm: `MemInv`, `KPages` with pages of a node, such as `10..16` |
| vm.c:108, 289 | page-table pages come from `alloc_pages` ("page-table pages", kalloc.c:2, come from `kalloc`) and `freewalk()` gives them to `kfree`; bootmem runs dry, and no process can be created though pages are free | Vm: `fork`, `exit`, `wait`, and a second `fork`, which fails with pages on the free list |
| proc.c:217, vm.c:232 | `growproc()` and `uvmalloc()` do not compare the new size with TRAPFRAME, so a program that grows up to it makes `mappages()` panic; with the build's address space memory is exhausted first | ProcProofs: VmOnlyFullPanics; Vm: `MemInv`, with a trapframe below the memory there is |
| fs.c:330-335 | an `iput()` that frees holds no lock between the free and `ref--`; if `ialloc()` reuses the inode in between, the new file's last `iput()` sees `ref == 2` and does not free it, and the inode stays allocated without link or reference ("iput() frees if the reference and link counts have fallen to zero", fs.c:119-121) | the run iput: `FreedWhenUnused` |
| ring_buffer.c:46 | the size of a full ring is 0, so flushing one that is exactly full loses it ("Flush the buffer", internal.h:25): a `printk()` that ends there loses its last MAX_RING_BUF_SIZE bytes | Serial: invariant `AllPrinted` in the run serial, which checks `PrintedExactly` instead |
| bio.c:83 | `bget()` panics when log pins and other processes have all buffers; NBUF, NPROC and LOGSIZE allow it | Bio: in the run bio, the invariant that no `pc` is "panic" |
| uart.c:93, trap.c:177 | a writer waits for `uartstart()`, which only `uartputc()` calls, because `devintr()` never calls `uartintr()` (its comment, uart.c:164, says so) | Serial: invariant `TxNotStuck` |
| pipe.c:80 | a killed writer returns without the wakeup for the bytes it has written; a reader sleeps on a pipe that is not empty | Pipe: `PipeInv`, with `ReaderNotStuck` without its hypothesis on `killed` |
| sysfile.c:232 | `create()` locks a parent that may have been removed since `nameiparent()`; the new inode has a link and no name | Names: `NamesInv`, `NInodes = 3`, `Workloads <- Orphans` |
| fs.c:293 | `sys_unlink()` takes the link of ".." although the entry stays while the directory is in use; a look-up then reaches a free inode and `ilock()` panics; only a ".." can lead there (NamesNoPanic) | Names: `NamesInv`, `NInodes = 3`, `Workloads <- DotDots` |
| console.c:100, 171 | a full buffer hands over an unfinished line, which two readers may share between them ("Reads are line at a time", line 3) | by the trace: reader one takes part of the line and sleeps, reader two takes the rest |
| main.c, trap.c:167 | `devintr()` never clears SSIP: on a hart that `main()` wakes with an IPI the software interrupt comes back at once after every `sret`, and a timer interrupt, which has a lower priority, is never taken | Traps: `Free(h)`; such a hart runs no process |
| sysproc.c:44 | `sleep(n)` with a negative n compares as unsigned and sleeps until ticks has gone round or the process is killed | Traps: `TrapsLive` without `nap[p].n >= 0` |
| timer.c:27, trap.c:169 | the timer of every hart increments `ticks`, so a tick is shorter the more harts there are | Traps: `UserTimer` and `KernelTimer` of any hart |
| fs.c:485 | a copy that fails in `writei()` has changed the cached block and releases it without `log_write()`: readers see the bytes until the block is evicted | Blocks and Contents: the `Torn` bytes |
| fdt_addresses.c:76 | `UINT32_MAX + 1` is 0 in 32 bits, so with one address cell a range that ends behind 2^32 is accepted unless it starts at 0, and every range that starts at 0 is refused (libfdt.h: FDT_ERR_BADVALUE for an address that "doesn't fit") | FdtEdit: the test in `FdtAppendpropAddrrange` |
| fdt_ro.c, `fdt_stringlist_contains` | reads one byte behind the value, and accepts a last string that is not ended, which makes the list invalid ("each terminated by \0", "0 not found, or invalid list", libfdt.h:1092-1096) | FdtRead: `FdtStringlistContains`; LookupsExact with `~IsList(v) => r = 1` |

Some more need inputs that the models leave out: device_tree.h:45 has
`nodes[MAX_CORES_PER_NODE]` where the bound is MAX_NUMA_NODE; `address_cells` and
`size_cells` are unsigned and their tests for an error (device_tree.c:289, 296) never
fire; `get_prop_of_node()` leaves the value unset for a length it does not expect and
returns success; `parse_cpu_node()` counts an entry before it can fail and uses
`status`, `riscv,isa` and `mmu-type` without a test for NULL (129-138) or for
MAX_INFO_STR_LEN; a distance matrix whose length is no multiple of 3 cells is read
behind its end (253); the messages at device_tree.c:86, 213, 290 and 297 pass an int for `%s`.
`kalloc.c` uses `ram_start + ram_size`, `vm.c` uses `ram_end`: they agree only if the ranges of memory
are ascending and adjacent.  With more than one bitmap block an unaligned part of a write could
log 11 blocks; FSSIZE is 2000, which one bitmap block covers.

## 7. Plan

In this order:

1. Inode: the table of NINODE entries, `iget` and `ilock`, and
   Names over it, with Blocks below instead of one copy of each inode.
2. Proof that a page has one owner, for every number of pages and processes;
   `kern_vm_init` and the user copies of vm.c.
3. Proof of the bitmap of Blocks, and of LinksExact for programs that remove no directory.
4. Sequential writing of a tree (fdt_sw.c) as a second implementation of FdtTree.

## 8. Not modelled

- Of libfdt: fdt_sw.c, fdt_overlay.c, fdt_check.c, fdt_empty_tree.c, fdt_strerror.c and
  `fdt_move()`, which the kernel does not call.  Aliases whose value is not an absolute
  path.
- SBI, `vsprintf` and the string functions: conversions and copies without state.
- Boot: straight-line code, and `started` is one store; what it hands over is the initial
  state of the other models.  At this commit it never calls `scheduler()`.
- The kernel page table, which is made once, user copies, and the fetching of arguments of system calls.
- In Blocks: more than one block of inodes or of the bitmap, `ialloc` and the removal of
  inodes (Names has them with one copy of each inode), `stati`.
- In Traps: registers other than those of the control flow; timervec, which this kernel does not
  use; for `n > 0` the time a process has slept saturates and does not wrap; claim, service and completion of
  an external interrupt are one step, and the registers of the PLIC that boot writes are left out; a handler that
  waits for tickslock is a trap not taken yet.
- ramdisk.c is not part of the build.  mkfs is not in the repository: `NLog > LOGSIZE`
  is assumed of the disk it makes.
- Memory ordering: `__sync_synchronize()` is everywhere where the code needs it, and the
  models are sequentially consistent.
