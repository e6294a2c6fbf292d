------------------------------ MODULE Spinlock ------------------------------
(***************************************************************************)
(* Spin locks and nested interrupt disabling: kernel/spinlock.c together   *)
(* with the interrupt-enable bit of each CPU (sstatus.SIE) and the trap    *)
(* path of kernel/trap.c that can run a handler in the middle of any of    *)
(* these functions.                                                        *)
(*                                                                         *)
(* Every CPU has two execution contexts: the kernel thread it runs, and    *)
(* the interrupt handler that may be stacked on top of it.  Each memory    *)
(* access that another CPU or a handler could come between is one step.    *)
(* Lock clients are arbitrary except that they acquire locks in increasing *)
(* order, the discipline the rest of the kernel follows.                   *)
(***************************************************************************)
EXTENDS Integers, FiniteSets

CONSTANTS
    Cpus,       \* the harts
    NLocks,     \* locks are 1..NLocks, in the order clients acquire them
    MaxBare     \* bound on push_off()s in force that are not an acquire()'s

ASSUME CpusAssumption  == Cpus # {} /\ 0 \notin Cpus
ASSUME LocksAssumption == NLocks \in Nat
ASSUME BareAssumption  == MaxBare \in Nat

Locks  == 1..NLocks
Levels == {"thread", "handler"}
Ctx    == Cpus \X Levels

NoCpu  == 0     \* lk->cpu = 0
NoLock == 0     \* a push_off() that is not part of an acquire()

VARIABLES
    locked,     \* locked[k]: lk->locked
    lcpu,       \* lcpu[k]: lk->cpu
    sie,        \* sie[c]: interrupts enabled on c
    noff,       \* noff[c]: cpu->noff
    intena,     \* intena[c]: cpu->intena
    active,     \* active[c]: the context c is executing
    pc,         \* pc[x]: where context x is inside acquire/release/push/pop
    target,     \* target[x]: the lock the current call is about (NoLock when
                \* it is done with it)
    old,        \* old[x]: push_off()'s local (FALSE once it is dead)
    held,       \* held[x]: the locks x acquired and has not released
    bare,       \* bare[x]: push_off()s of x that no lock stands for
    want        \* want[c]: history, the last explicit intr_on()/intr_off()

cpuVars == <<sie, noff, intena>>
lockVars == <<locked, lcpu>>
ctxVars == <<pc, target, old, held, bare>>
vars == <<lockVars, cpuVars, active, ctxVars, want>>

PCs == {"run", "intr_off", "count", "check_locked", "check_cpu", "spin",
        "set_cpu", "unlock", "pop", "panic"}

TypeOK ==
    /\ locked \in [Locks -> BOOLEAN]
    /\ lcpu   \in [Locks -> Cpus \cup {NoCpu}]
    /\ sie    \in [Cpus -> BOOLEAN]
    /\ noff   \in [Cpus -> Nat]
    /\ intena \in [Cpus -> BOOLEAN]
    /\ active \in [Cpus -> Levels]
    /\ pc     \in [Ctx -> PCs]
    /\ target \in [Ctx -> Locks \cup {NoLock}]
    /\ old    \in [Ctx -> BOOLEAN]
    /\ held   \in [Ctx -> SUBSET Locks]
    /\ bare   \in [Ctx -> 0..MaxBare]
    /\ want   \in [Cpus -> BOOLEAN]

\* initlock() for every lock; a CPU starts in its thread with interrupts
\* either way (off during boot, on in a running kernel).
Init ==
    /\ locked = [k \in Locks |-> FALSE]
    /\ lcpu   = [k \in Locks |-> NoCpu]
    /\ sie    \in [Cpus -> BOOLEAN]
    /\ noff   = [c \in Cpus |-> 0]
    /\ intena = [c \in Cpus |-> FALSE]
    /\ active = [c \in Cpus |-> "thread"]
    /\ pc     = [x \in Ctx |-> "run"]
    /\ target = [x \in Ctx |-> NoLock]
    /\ old    = [x \in Ctx |-> FALSE]
    /\ held   = [x \in Ctx |-> {}]
    /\ bare   = [x \in Ctx |-> 0]
    /\ want   = sie

-----------------------------------------------------------------------------
(* Where a context is.                                                     *)

At(x, label) == active[x[1]] = x[2] /\ pc[x] = label

GoTo(x, label) == pc' = [pc EXCEPT ![x] = label]

-----------------------------------------------------------------------------
(* push_off()                                                              *)

\* int old = intr_get(), on behalf of acquire(k) or of a bare push_off().
PushOffRead(x, k) ==
    /\ At(x, "run")
    /\ old' = [old EXCEPT ![x] = sie[x[1]]]
    /\ target' = [target EXCEPT ![x] = k]
    /\ GoTo(x, "intr_off")
    /\ UNCHANGED <<lockVars, cpuVars, active, held, bare, want>>

\* acquire(k); the caller respects the lock order.
Acquire(x, k) ==
    /\ \A j \in held[x] : j < k
    /\ PushOffRead(x, k)

\* push_off() called directly, as this_proc() does.
PushOff(x) == bare[x] < MaxBare /\ PushOffRead(x, NoLock)

\* intr_off()
IntrOffMutant(x) ==
    /\ At(x, "intr_off")
    /\ GoTo(x, "count")
    /\ UNCHANGED <<lockVars, cpuVars, active, target, old, held, bare, want>>

IntrOff(x) ==
    /\ At(x, "intr_off")
    /\ sie' = [sie EXCEPT ![x[1]] = FALSE]
    /\ GoTo(x, "count")
    /\ UNCHANGED <<lockVars, noff, intena, active, target, old, held, bare,
                   want>>

\* Every push_off() overwrites intena, not only the outermost one.
CountMutant(x) ==
    /\ At(x, "count")
    /\ intena' = [intena EXCEPT ![x[1]] = old[x]]
    /\ noff' = [noff EXCEPT ![x[1]] = @ + 1]
    /\ old' = [old EXCEPT ![x] = FALSE]
    /\ IF target[x] = NoLock
       THEN GoTo(x, "run") /\ bare' = [bare EXCEPT ![x] = @ + 1]
       ELSE GoTo(x, "check_locked") /\ UNCHANGED bare
    /\ UNCHANGED <<lockVars, sie, active, target, held, want>>

\* if (noff == 0) intena = old; noff += 1
Count(x) ==
    /\ At(x, "count")
    /\ intena' = [intena EXCEPT ![x[1]] = IF noff[x[1]] = 0 THEN old[x] ELSE @]
    /\ noff' = [noff EXCEPT ![x[1]] = @ + 1]
    /\ old' = [old EXCEPT ![x] = FALSE]
    /\ IF target[x] = NoLock
       THEN GoTo(x, "run") /\ bare' = [bare EXCEPT ![x] = @ + 1]
       ELSE GoTo(x, "check_locked") /\ UNCHANGED bare
    /\ UNCHANGED <<lockVars, sie, active, target, held, want>>

-----------------------------------------------------------------------------
(* acquire(), after its push_off().  holding() reads lk->locked and then   *)
(* lk->cpu; other CPUs may run between the two reads.                      *)

HoldingReadLocked(x) ==
    /\ At(x, "check_locked")
    /\ GoTo(x, IF locked[target[x]] THEN "check_cpu" ELSE "spin")
    /\ UNCHANGED <<lockVars, cpuVars, active, target, old, held, bare, want>>

HoldingReadCpu(x) ==
    /\ At(x, "check_cpu")
    /\ GoTo(x, IF lcpu[target[x]] = x[1] THEN "panic" ELSE "spin")
    /\ UNCHANGED <<lockVars, cpuVars, active, target, old, held, bare, want>>

\* The swap does not look at what it overwrote.
TestAndSetMutant(x) ==
    /\ At(x, "spin")
    /\ locked' = [locked EXCEPT ![target[x]] = TRUE]
    /\ GoTo(x, "set_cpu")
    /\ UNCHANGED <<lcpu, cpuVars, active, target, old, held, bare, want>>

\* The amoswap that finds 0; a swap that finds 1 changes nothing.
TestAndSet(x) ==
    /\ At(x, "spin")
    /\ ~locked[target[x]]
    /\ locked' = [locked EXCEPT ![target[x]] = TRUE]
    /\ GoTo(x, "set_cpu")
    /\ UNCHANGED <<lcpu, cpuVars, active, target, old, held, bare, want>>

SetCpu(x) ==
    /\ At(x, "set_cpu")
    /\ lcpu' = [lcpu EXCEPT ![target[x]] = x[1]]
    /\ held' = [held EXCEPT ![x] = @ \cup {target[x]}]
    /\ target' = [target EXCEPT ![x] = NoLock]
    /\ GoTo(x, "run")
    /\ UNCHANGED <<locked, cpuVars, active, old, bare, want>>

-----------------------------------------------------------------------------
(* release() and pop_off()                                                 *)

\* release() forgets lk->cpu = 0.
ReleaseMutant(x, k) ==
    /\ At(x, "run")
    /\ k \in held[x]
    /\ target' = [target EXCEPT ![x] = k]
    /\ GoTo(x, "unlock")
    /\ UNCHANGED <<lockVars, cpuVars, active, old, held, bare, want>>

\* if (!holding(lk)) panic; lk->cpu = 0.  Locks may be released in any order
\* (sleep() takes p->lock and then releases lk).
Release(x, k) ==
    /\ At(x, "run")
    /\ k \in held[x]
    /\ target' = [target EXCEPT ![x] = k]
    /\ IF locked[k] /\ lcpu[k] = x[1]
       THEN lcpu' = [lcpu EXCEPT ![k] = NoCpu] /\ GoTo(x, "unlock")
       ELSE UNCHANGED lcpu /\ GoTo(x, "panic")
    /\ UNCHANGED <<locked, cpuVars, active, old, held, bare, want>>

\* __sync_lock_release
Unlock(x) ==
    /\ At(x, "unlock")
    /\ locked' = [locked EXCEPT ![target[x]] = FALSE]
    /\ held' = [held EXCEPT ![x] = @ \ {target[x]}]
    /\ target' = [target EXCEPT ![x] = NoLock]
    /\ GoTo(x, "pop")
    /\ UNCHANGED <<lcpu, cpuVars, active, old, bare, want>>

\* pop_off() called directly.
PopOff(x) ==
    /\ At(x, "run")
    /\ bare[x] > 0
    /\ bare' = [bare EXCEPT ![x] = @ - 1]
    /\ GoTo(x, "pop")
    /\ UNCHANGED <<lockVars, cpuVars, active, target, old, held, want>>

\* The body of pop_off(): interrupts come back when the count reaches zero.
Pop(x) ==
    LET c == x[1] IN
    /\ At(x, "pop")
    /\ IF sie[c] \/ noff[c] < 1
       THEN GoTo(x, "panic") /\ UNCHANGED <<sie, noff>>
       ELSE /\ noff' = [noff EXCEPT ![c] = @ - 1]
            /\ sie' = [sie EXCEPT ![c] = noff[c] = 1 /\ intena[c]]
            /\ GoTo(x, "run")
    /\ UNCHANGED <<lockVars, intena, active, target, old, held, bare, want>>

-----------------------------------------------------------------------------
(* Interrupts.  The hardware clears SIE on the way into kernelvec and      *)
(* kerneltrap(), and restores it on sret.                                  *)

Interrupt(c) ==
    /\ active[c] = "thread"
    /\ sie[c]
    /\ active' = [active EXCEPT ![c] = "handler"]
    /\ sie' = [sie EXCEPT ![c] = FALSE]
    /\ UNCHANGED <<lockVars, noff, intena, ctxVars, want>>

InterruptReturn(c) ==
    LET h == <<c, "handler">> IN
    /\ At(h, "run")
    /\ held[h] = {} /\ bare[h] = 0
    /\ active' = [active EXCEPT ![c] = "thread"]
    /\ sie' = [sie EXCEPT ![c] = TRUE]
    /\ UNCHANGED <<lockVars, noff, intena, ctxVars, want>>

\* The thread's own intr_on()/intr_off(): scheduler(), usertrap(), usertrapret().
SetIntr(c, on) ==
    LET t == <<c, "thread">> IN
    /\ At(t, "run")
    /\ held[t] = {} /\ bare[t] = 0
    /\ sie' = [sie EXCEPT ![c] = on]
    /\ want' = [want EXCEPT ![c] = on]
    /\ UNCHANGED <<lockVars, noff, intena, active, ctxVars>>

-----------------------------------------------------------------------------
CtxStep(x) ==
    \/ \E k \in Locks : Acquire(x, k) \/ Release(x, k)
    \/ PushOff(x) \/ IntrOff(x) \/ Count(x)
    \/ HoldingReadLocked(x) \/ HoldingReadCpu(x) \/ TestAndSet(x) \/ SetCpu(x)
    \/ Unlock(x) \/ PopOff(x) \/ Pop(x)

CpuStep(c) ==
    \/ Interrupt(c) \/ InterruptReturn(c)
    \/ \E on \in BOOLEAN : SetIntr(c, on)

Next == (\E x \in Ctx : CtxStep(x)) \/ (\E c \in Cpus : CpuStep(c))

Spec == Init /\ [][Next]_vars

\* A CPU keeps executing, and a client leaves the critical sections it enters.
\* Nothing is assumed of a spinning CPU but that it keeps trying: its swap may
\* lose every race.
InCall(x) ==
    \/ IntrOff(x) \/ Count(x) \/ HoldingReadLocked(x) \/ HoldingReadCpu(x)
    \/ TestAndSet(x) \/ SetCpu(x) \/ Unlock(x) \/ Pop(x)

Fairness ==
    \A x \in Ctx : WF_vars(InCall(x)) /\ \A k \in Locks : SF_vars(Release(x, k))

LiveSpec == Spec /\ Fairness

-----------------------------------------------------------------------------
(* Properties.                                                             *)

\* Contexts inside the critical section of lock k, from the successful swap
\* to the store that unlocks it.
Owns(x, k) == k \in held[x] \/ (pc[x] = "set_cpu" /\ target[x] = k)

\* acquire()/release() give mutual exclusion between all threads and handlers
\* of all CPUs, however their steps interleave.
MutualExclusion ==
    \A x, y \in Ctx : \A k \in Locks : Owns(x, k) /\ Owns(y, k) => x = y

\* No call reaches one of the panics of spinlock.c: holding() never mistakes
\* another CPU's lock for this CPU's on a stale lk->cpu, release() always
\* recognises its own lock, and pop_off() always finds interrupts off and a
\* push to undo.
NoPanic == \A x \in Ctx : pc[x] # "panic"

\* "disable interrupts to avoid deadlock" (acquire, line 20): no context is
\* interrupted while it owns a lock, so a handler never waits for a lock of
\* the very thread it interrupted.
NoSelfDeadlock ==
    \A c \in Cpus : active[c] = "handler" =>
        \A k \in Locks : ~ Owns(<<c, "thread">>, k)

\* "push_off, pop_off leaves them off": once a thread has undone all its
\* push_off()s its interrupt flag is what it last set it to, whatever handlers
\* ran in between.
IntrRestored ==
    \A c \in Cpus :
        LET t == <<c, "thread">> IN
        At(t, "run") /\ held[t] = {} /\ bare[t] = 0 => sie[c] = want[c]

\* While some CPU spins for a lock, some CPU gets it: holders are never
\* preempted by a handler that needs their lock, and lock-ordered clients do
\* not wait for each other in a cycle.
LockProgress ==
    \A k \in Locks :
        (\E x \in Ctx : pc[x] = "spin" /\ target[x] = k)
            ~> (\E x \in Ctx : pc[x] = "set_cpu" /\ target[x] = k)
=============================================================================
