-------------------------------- MODULE Proc --------------------------------
(***************************************************************************)
(* Processes and scheduling: kernel/proc.c with the part of usertrap()     *)
(* (kernel/trap.c) that decides when a killed process exits.               *)
(*                                                                         *)
(* A process is a slot of the table proc[].  Its kernel thread survives    *)
(* context switches: pc[p] says where in fork/exit/wait it is.  A CPU runs *)
(* on the scheduler's stack or on a process's kernel stack (onstack), and  *)
(* c->proc (cpuproc) lags behind while swtch() is under way.  p->lock and  *)
(* wait_lock record the CPU that holds them.  A critical section that      *)
(* takes one p->lock, and waits for nothing inside, is one step; p->lock   *)
(* is kept across steps exactly where the code keeps it across swtch(),    *)
(* and wait_lock where wait() and exit() keep it.  Table scans may visit   *)
(* slots in any order, which includes the order of the code.               *)
(***************************************************************************)
EXTENDS Integers, FiniteSets

CONSTANTS
    Procs,      \* the slots of proc[]
    InitProc,   \* initproc
    Cpus,       \* the harts
    NoProc,     \* a null struct proc *
    NoCpu,      \* a free lock
    KillPids,   \* pids that programs pass to kill()
    MaxPid      \* bound on the pids handed out

ASSUME ProcAssumption ==
    /\ InitProc \in Procs /\ NoProc \notin Procs
    /\ NoCpu \notin Cpus
    /\ KillPids \subseteq Nat
    /\ MaxPid \in Nat

VARIABLES
    state,      \* state[p]: p->state
    chan,       \* chan[p]: p->chan; the only channels here are processes
    killed,     \* killed[p]: p->killed
    pid,        \* pid[p]: p->pid
    parent,     \* parent[p]: p->parent
    nextpid,
    plock,      \* plock[p]: the CPU holding p->lock
    waitlock,   \* the CPU holding wait_lock
    cpuproc,    \* cpuproc[c]: c->proc
    onstack,    \* onstack[c]: whose kernel stack c is on, NoProc: scheduler()
    pc,         \* pc[p]: where p's kernel thread is
    np,         \* np[p]: fork()'s local np
    todo        \* todo[p]: slots p's current wakeup() has not visited yet

tableVars == <<state, chan, killed, pid, parent, nextpid>>
lockVars == <<plock, waitlock>>
cpuVars == <<cpuproc, onstack>>
threadVars == <<pc, np, todo>>
vars == <<tableVars, lockVars, cpuVars, threadVars>>

States == {"UNUSED", "USED", "SLEEPING", "RUNNABLE", "RUNNING", "ZOMBIE"}

\* "user" is user mode and every point of the kernel where no lock is held and
\* no system call of proc.c is under way.  In SpinPCs the thread is inside
\* acquire(&wait_lock), its interrupts off; in OpenPCs it can be preempted.
SpinPCs == {"fork_parent", "reparent", "wait_lock"}
OpenPCs == {"user", "forked", "fork_run", "exit", "wait"}
PCs == OpenPCs \cup SpinPCs \cup
       {"wake_init", "wake_parent", "zombie", "wait_scan", "wait_sleep", "panic"}

TypeOK ==
    /\ state \in [Procs -> States]
    /\ chan \in [Procs -> Procs \cup {NoProc}]
    /\ killed \in [Procs -> BOOLEAN]
    /\ pid \in [Procs -> Nat]
    /\ parent \in [Procs -> Procs \cup {NoProc}]
    /\ nextpid \in Nat
    /\ plock \in [Procs -> Cpus \cup {NoCpu}]
    /\ waitlock \in Cpus \cup {NoCpu}
    /\ cpuproc \in [Cpus -> Procs \cup {NoProc}]
    /\ onstack \in [Cpus -> Procs \cup {NoProc}]
    /\ pc \in [Procs -> PCs]
    /\ np \in [Procs -> Procs \cup {NoProc}]
    /\ todo \in [Procs -> SUBSET Procs]

\* procinit() and userinit(): one runnable process, every CPU in scheduler().
Init ==
    /\ state = [p \in Procs |-> IF p = InitProc THEN "RUNNABLE" ELSE "UNUSED"]
    /\ chan = [p \in Procs |-> NoProc]
    /\ killed = [p \in Procs |-> FALSE]
    /\ pid = [p \in Procs |-> IF p = InitProc THEN 1 ELSE 0]
    /\ parent = [p \in Procs |-> NoProc]
    /\ nextpid = 2
    /\ plock = [p \in Procs |-> NoCpu]
    /\ waitlock = NoCpu
    /\ cpuproc = [c \in Cpus |-> NoProc]
    /\ onstack = [c \in Cpus |-> NoProc]
    /\ pc = [p \in Procs |-> "user"]
    /\ np = [p \in Procs |-> NoProc]
    /\ todo = [p \in Procs |-> {}]

-----------------------------------------------------------------------------
(* Locks and program counters.                                             *)

Free(p) == plock[p] = NoCpu

\* CPU c executes p's thread, which is past the release of p->lock that ends
\* every switch to it, and is at label.
At(c, p, label) == onstack[c] = p /\ plock[p] # c /\ pc[p] = label

GoTo(p, label) == pc' = [pc EXCEPT ![p] = label]

\* swtch() back to the scheduler of c, with p->lock held.
SwitchOut(c, p) ==
    /\ Free(p)
    /\ plock' = [plock EXCEPT ![p] = c]
    /\ onstack' = [onstack EXCEPT ![c] = NoProc]
    /\ UNCHANGED cpuproc

-----------------------------------------------------------------------------
(* scheduler(), sched() and yield()                                        *)

\* A switch that forgets to mark the process RUNNING.
SchedRunMutant(c, p) ==
    /\ onstack[c] = NoProc /\ cpuproc[c] = NoProc
    /\ Free(p) /\ state[p] = "RUNNABLE"
    /\ cpuproc' = [cpuproc EXCEPT ![c] = p]
    /\ onstack' = [onstack EXCEPT ![c] = p]
    /\ plock' = [plock EXCEPT ![p] = c]
    /\ UNCHANGED <<tableVars, waitlock, threadVars>>

\* The scheduler finds p runnable and switches to it, p->lock held.
SchedRun(c, p) ==
    /\ onstack[c] = NoProc /\ cpuproc[c] = NoProc
    /\ Free(p) /\ state[p] = "RUNNABLE"
    /\ state' = [state EXCEPT ![p] = "RUNNING"]
    /\ cpuproc' = [cpuproc EXCEPT ![c] = p]
    /\ onstack' = [onstack EXCEPT ![c] = p]
    /\ plock' = [plock EXCEPT ![p] = c]
    /\ UNCHANGED <<chan, killed, pid, parent, nextpid, waitlock, threadVars>>

\* The scheduler continues after swtch(): c->proc = 0; release(&p->lock).
SchedBack(c) ==
    /\ onstack[c] = NoProc /\ cpuproc[c] # NoProc
    /\ cpuproc' = [cpuproc EXCEPT ![c] = NoProc]
    /\ plock' = [plock EXCEPT ![cpuproc[c]] = NoCpu]
    /\ UNCHANGED <<tableVars, waitlock, onstack, threadVars>>

\* What a thread does first when it is switched to: forkret() and yield()
\* release p->lock; sleep() clears p->chan, releases p->lock and goes for
\* wait_lock again.
Resume(c, p) ==
    /\ onstack[c] = p /\ plock[p] = c
    /\ plock' = [plock EXCEPT ![p] = NoCpu]
    /\ IF pc[p] = "wait_sleep"
       THEN chan' = [chan EXCEPT ![p] = NoProc] /\ GoTo(p, "wait")
       ELSE UNCHANGED <<chan, pc>>
    /\ UNCHANGED <<state, killed, pid, parent, nextpid, waitlock, cpuVars, np,
                   todo>>

\* A timer interrupt, from user mode or in the kernel with interrupts on.
Yield(c, p) ==
    /\ \E label \in OpenPCs : At(c, p, label)
    /\ SwitchOut(c, p)
    /\ state' = [state EXCEPT ![p] = "RUNNABLE"]
    /\ UNCHANGED <<chan, killed, pid, parent, nextpid, waitlock, threadVars>>

\* acquire(&wait_lock) begins: push_off().
Spin(c, p) ==
    /\ \/ At(c, p, "forked") /\ GoTo(p, "fork_parent")
       \/ At(c, p, "exit") /\ GoTo(p, "reparent")
       \/ At(c, p, "wait") /\ GoTo(p, "wait_lock")
    /\ UNCHANGED <<tableVars, lockVars, cpuVars, np, todo>>

-----------------------------------------------------------------------------
(* fork()                                                                  *)

\* A system call starts: usertrap() lets only a process that is not killed in.
Syscall(c, p) == At(c, p, "user") /\ ~ killed[p]

\* allocproc(): an unused slot gets the next pid.  Note that p->killed is left
\* as it is.
AllocProc(q) ==
    /\ state[q] = "UNUSED" /\ Free(q)
    /\ nextpid <= MaxPid
    /\ pid' = [pid EXCEPT ![q] = nextpid]
    /\ nextpid' = nextpid + 1

\* fork() up to its first release(&np->lock).
ForkAlloc(c, p, q) ==
    /\ Syscall(c, p)
    /\ AllocProc(q)
    /\ state' = [state EXCEPT ![q] = "USED"]
    /\ np' = [np EXCEPT ![p] = q]
    /\ pc' = [pc EXCEPT ![p] = "forked", ![q] = "user"]
    /\ UNCHANGED <<chan, killed, parent, lockVars, cpuVars, todo>>

\* A failed allocation of the trapframe, the page table or the user memory:
\* the pid is used up and freeproc() clears the slot.
ForkFail(c, p, q) ==
    /\ Syscall(c, p)
    /\ state[q] = "UNUSED" /\ Free(q)
    /\ nextpid <= MaxPid
    /\ nextpid' = nextpid + 1
    /\ killed' = [killed EXCEPT ![q] = FALSE]
    /\ UNCHANGED <<state, chan, pid, parent, lockVars, cpuVars, threadVars>>

\* acquire(&wait_lock); np->parent = p; release(&wait_lock).
ForkParent(c, p) ==
    /\ At(c, p, "fork_parent")
    /\ waitlock = NoCpu
    /\ parent' = [parent EXCEPT ![np[p]] = p]
    /\ GoTo(p, "fork_run")
    /\ UNCHANGED <<state, chan, killed, pid, nextpid, lockVars, cpuVars, np,
                   todo>>

\* acquire(&np->lock); np->state = RUNNABLE; release(&np->lock).
ForkRun(c, p) ==
    /\ At(c, p, "fork_run")
    /\ Free(np[p])
    /\ state' = [state EXCEPT ![np[p]] = "RUNNABLE"]
    /\ np' = [np EXCEPT ![p] = NoProc]
    /\ GoTo(p, "user")
    /\ UNCHANGED <<chan, killed, pid, parent, nextpid, lockVars, cpuVars, todo>>

-----------------------------------------------------------------------------
(* kill() and setkilled()                                                  *)

\* kill(n) reaches the slot q that has pid n.  A scan that finds no such slot
\* changes nothing.
Kill(c, p, q) ==
    /\ Syscall(c, p)
    /\ pid[q] \in KillPids /\ Free(q)
    /\ killed' = [killed EXCEPT ![q] = TRUE]
    /\ state' = [state EXCEPT ![q] = IF @ = "SLEEPING" THEN "RUNNABLE" ELSE @]
    /\ UNCHANGED <<chan, pid, parent, nextpid, lockVars, cpuVars, threadVars>>

\* usertrap() kills a process after an unexpected trap.
SetKilled(c, p) ==
    /\ At(c, p, "user") /\ Free(p)
    /\ killed' = [killed EXCEPT ![p] = TRUE]
    /\ UNCHANGED <<state, chan, pid, parent, nextpid, lockVars, cpuVars,
                   threadVars>>

-----------------------------------------------------------------------------
(* exit()                                                                  *)

\* A usertrap() that lets a killed process go back to user mode.
ExitStartMutant(c, p) ==
    /\ At(c, p, "user") /\ ~ killed[p]
    /\ GoTo(p, IF p = InitProc THEN "panic" ELSE "exit")
    /\ UNCHANGED <<tableVars, lockVars, cpuVars, np, todo>>

\* exit() is called by the process or, for a killed one, by usertrap().
ExitStart(c, p) ==
    /\ At(c, p, "user")
    /\ GoTo(p, IF p = InitProc THEN "panic" ELSE "exit")
    /\ UNCHANGED <<tableVars, lockVars, cpuVars, np, todo>>

Children(p) == {q \in Procs : parent[q] = p}

\* exit() that does not reparent.
ReparentMutant(c, p) ==
    /\ At(c, p, "reparent")
    /\ waitlock = NoCpu
    /\ waitlock' = c
    /\ todo' = [todo EXCEPT ![p] = Procs \ {p}]
    /\ GoTo(p, "wake_parent")
    /\ UNCHANGED <<tableVars, plock, cpuVars, np>>

\* acquire(&wait_lock); reparent(p).  reparent() calls wakeup(initproc) after
\* each child it moves; with wait_lock held throughout, init can not go back to
\* sleep in between and one wakeup() after the last child is the same.
Reparent(c, p) ==
    /\ At(c, p, "reparent")
    /\ waitlock = NoCpu
    /\ waitlock' = c
    /\ parent' = [q \in Procs |-> IF parent[q] = p THEN InitProc ELSE parent[q]]
    /\ todo' = [todo EXCEPT ![p] = Procs \ {p}]
    /\ GoTo(p, IF Children(p) = {} THEN "wake_parent" ELSE "wake_init")
    /\ UNCHANGED <<state, chan, killed, pid, nextpid, plock, cpuVars, np>>

\* exit() that wakes the sleepers of its own channel.
WakeChanMutant(p) == p

\* The channel of the wakeup() that p is in.
WakeChan(p) == IF pc[p] = "wake_init" THEN InitProc ELSE parent[p]

\* One iteration of wakeup().
WakeupVisit(c, p, q) ==
    /\ \E label \in {"wake_init", "wake_parent"} : At(c, p, label)
    /\ q \in todo[p] /\ Free(q)
    /\ todo' = [todo EXCEPT ![p] = @ \ {q}]
    /\ state' = [state EXCEPT ![q] =
                    IF @ = "SLEEPING" /\ chan[q] = WakeChan(p)
                    THEN "RUNNABLE" ELSE @]
    /\ UNCHANGED <<chan, killed, pid, parent, nextpid, lockVars, cpuVars, pc,
                   np>>

\* wakeup(initproc) is done, wakeup(p->parent) follows.
WakeupParent(c, p) ==
    /\ At(c, p, "wake_init")
    /\ todo[p] = {}
    /\ todo' = [todo EXCEPT ![p] = Procs \ {p}]
    /\ GoTo(p, "wake_parent")
    /\ UNCHANGED <<tableVars, lockVars, cpuVars, np>>

\* exit() that releases p->lock before it has left its stack.
ZombieMutant(c, p) ==
    /\ At(c, p, "wake_parent")
    /\ todo[p] = {} /\ Free(p)
    /\ onstack' = [onstack EXCEPT ![c] = NoProc]
    /\ state' = [state EXCEPT ![p] = "ZOMBIE"]
    /\ waitlock' = NoCpu
    /\ GoTo(p, "zombie")
    /\ UNCHANGED <<chan, killed, pid, parent, nextpid, plock, cpuproc, np, todo>>

\* acquire(&p->lock); state = ZOMBIE; release(&wait_lock); sched().
Zombie(c, p) ==
    /\ At(c, p, "wake_parent")
    /\ todo[p] = {}
    /\ SwitchOut(c, p)
    /\ state' = [state EXCEPT ![p] = "ZOMBIE"]
    /\ waitlock' = NoCpu
    /\ GoTo(p, "zombie")
    /\ UNCHANGED <<chan, killed, pid, parent, nextpid, np, todo>>

-----------------------------------------------------------------------------
(* wait()                                                                  *)

WaitStart(c, p) ==
    /\ Syscall(c, p)
    /\ GoTo(p, "wait")
    /\ UNCHANGED <<tableVars, lockVars, cpuVars, np, todo>>

\* acquire(&wait_lock) succeeds, on entry or at the end of sleep().
WaitLock(c, p) ==
    /\ At(c, p, "wait_lock")
    /\ waitlock = NoCpu
    /\ waitlock' = c
    /\ GoTo(p, "wait_scan")
    /\ UNCHANGED <<tableVars, plock, cpuVars, np, todo>>

\* wait() returns: release(&wait_lock).
WaitReturn(p) == waitlock' = NoCpu /\ GoTo(p, "user")

\* freeproc(q)
FreeProc(q) ==
    /\ state' = [state EXCEPT ![q] = "UNUSED"]
    /\ pid' = [pid EXCEPT ![q] = 0]
    /\ parent' = [parent EXCEPT ![q] = NoProc]
    /\ chan' = [chan EXCEPT ![q] = NoProc]
    /\ killed' = [killed EXCEPT ![q] = FALSE]

\* The scan finds the zombie q once q's last CPU has let go of its lock.
WaitReap(c, p, q) ==
    /\ At(c, p, "wait_scan")
    /\ parent[q] = p /\ state[q] = "ZOMBIE" /\ Free(q)
    /\ FreeProc(q)
    /\ WaitReturn(p)
    /\ UNCHANGED <<nextpid, plock, cpuVars, np, todo>>

\* The same, but the status can not be copied out: the zombie stays.
WaitCopyFail(c, p, q) ==
    /\ At(c, p, "wait_scan")
    /\ parent[q] = p /\ state[q] = "ZOMBIE" /\ Free(q)
    /\ WaitReturn(p)
    /\ UNCHANGED <<tableVars, plock, cpuVars, np, todo>>

\* The scan is over without a zombie.  wait_lock keeps the children and the
\* zombies among them fixed, so the scan is one step.
NoZombie(p) == \A q \in Children(p) : state[q] # "ZOMBIE"

\* if (!havekids || killed(p)) return -1
WaitNothing(c, p) ==
    /\ At(c, p, "wait_scan")
    /\ NoZombie(p)
    /\ Children(p) = {} \/ killed[p]
    /\ WaitReturn(p)
    /\ UNCHANGED <<tableVars, plock, cpuVars, np, todo>>

\* Otherwise wait() has decided to sleep, and has released p->lock again.
WaitDecide(c, p) ==
    /\ At(c, p, "wait_scan")
    /\ NoZombie(p)
    /\ Children(p) # {} /\ ~ killed[p]
    /\ GoTo(p, "wait_sleep")
    /\ UNCHANGED <<tableVars, lockVars, cpuVars, np, todo>>

\* sleep() that releases wait_lock before it takes p->lock.
WaitSleepMutant(c, p) ==
    \/ /\ At(c, p, "wait_sleep") /\ waitlock = c
       /\ waitlock' = NoCpu
       /\ UNCHANGED <<tableVars, plock, cpuVars, threadVars>>
    \/ /\ At(c, p, "wait_sleep") /\ waitlock # c
       /\ SwitchOut(c, p)
       /\ chan' = [chan EXCEPT ![p] = p]
       /\ state' = [state EXCEPT ![p] = "SLEEPING"]
       /\ UNCHANGED <<killed, pid, parent, nextpid, waitlock, threadVars>>

\* sleep(p, &wait_lock): p->lock is taken before wait_lock is released.
WaitSleep(c, p) ==
    /\ At(c, p, "wait_sleep")
    /\ SwitchOut(c, p)
    /\ waitlock' = NoCpu
    /\ chan' = [chan EXCEPT ![p] = p]
    /\ state' = [state EXCEPT ![p] = "SLEEPING"]
    /\ UNCHANGED <<killed, pid, parent, nextpid, threadVars>>

-----------------------------------------------------------------------------
\* What p's own kernel code does, timer interrupts apart.
ForkStep(c, p) ==
    \/ \E q \in Procs : ForkAlloc(c, p, q) \/ ForkFail(c, p, q)
    \/ ForkParent(c, p) \/ ForkRun(c, p)
ExitStep(c, p) ==
    \/ ExitStart(c, p) \/ Reparent(c, p)
    \/ \E q \in Procs : WakeupVisit(c, p, q)
    \/ WakeupParent(c, p) \/ Zombie(c, p)
WaitStep(c, p) ==
    \/ WaitStart(c, p) \/ WaitLock(c, p)
    \/ \E q \in Procs : WaitReap(c, p, q) \/ WaitCopyFail(c, p, q)
    \/ WaitNothing(c, p) \/ WaitDecide(c, p) \/ WaitSleep(c, p)
KillStep(c, p) ==
    \/ \E q \in Procs : Kill(c, p, q)
    \/ SetKilled(c, p)

ProcStep(c, p) ==
    ForkStep(c, p) \/ ExitStep(c, p) \/ WaitStep(c, p) \/ KillStep(c, p)

Next ==
    \E c \in Cpus :
        \/ SchedBack(c)
        \/ \E p \in Procs :
              \/ SchedRun(c, p) \/ Resume(c, p) \/ Yield(c, p)
              \/ Spin(c, p) \/ ProcStep(c, p)

Spec == Init /\ [][Next]_vars

\* A system call under way continues, a killed process exits, a timer interrupt
\* comes, the scheduler's scan gets round to every runnable process, and a lock
\* that is free again and again is got in the end.
Continue(c, p) ==
    \/ Spin(c, p) \/ ForkParent(c, p) \/ ForkRun(c, p)
    \/ killed[p] /\ ExitStart(c, p)
    \/ Reparent(c, p) \/ WakeupParent(c, p) \/ Zombie(c, p)
    \/ \E q \in Procs : WakeupVisit(c, p, q) \/ WaitReap(c, p, q)
    \/ WaitLock(c, p)
    \/ WaitNothing(c, p) \/ WaitDecide(c, p) \/ WaitSleep(c, p)

Fairness ==
    /\ \A c \in Cpus : WF_vars(SchedBack(c))
    /\ \A p \in Procs :
          /\ WF_vars(\E c \in Cpus : Resume(c, p))
          /\ SF_vars(\E c \in Cpus : Yield(c, p))
          /\ SF_vars(\E c \in Cpus : SchedRun(c, p))
          /\ SF_vars(\E c \in Cpus : Continue(c, p))

LiveSpec == Spec /\ Fairness

-----------------------------------------------------------------------------
(* Properties.                                                             *)

\* scheduler()/sched(): no two CPUs are on the kernel stack of one process,
\* and a process is RUNNING exactly while a CPU is on its stack.
OneCpuPerStack ==
    /\ \A c, d \in Cpus : cpuproc[c] = cpuproc[d] /\ cpuproc[c] # NoProc => c = d
    /\ \A p \in Procs : state[p] = "RUNNING" <=> \E c \in Cpus : onstack[c] = p

\* "make sure the child isn't still in exit() or swtch()" (wait, line 353): no
\* process is freed, or its slot reused, while a CPU is still on its stack.
StackNotFreed ==
    \A c \in Cpus : cpuproc[c] # NoProc => state[cpuproc[c]] \notin {"UNUSED", "USED"}

\* A process that runs, waits or is a zombie has a parent that can still
\* wait() for it, however fork, exit and reparent interleave.
ParentAlive ==
    \A p \in Procs :
        state[p] \notin {"UNUSED", "USED"} /\ p # InitProc =>
            /\ parent[p] # NoProc
            /\ state[parent[p]] \notin {"UNUSED", "USED", "ZOMBIE"}

\* sleep()/wakeup() lose nothing: a parent is never asleep in wait() while one
\* of its children is a zombie, except between the steps of a reparent() that
\* has not yet reached it.
NoLostWakeup ==
    \A p, q \in Procs :
        /\ state[q] = "ZOMBIE" /\ parent[q] = p
        /\ state[p] = "SLEEPING" /\ chan[p] = p
        => \E r \in Procs : pc[r] = "wake_init" /\ p \in todo[r] /\ p = InitProc

\* allocpid() and freeproc(): pids name processes.
PidUnique ==
    \A p, q \in Procs :
        /\ state[p] # "UNUSED" => pid[p] # 0
        /\ pid[p] = pid[q] /\ pid[p] # 0 => p = q

\* "Must hold only p->lock" (sched, line 422): no CPU enters the scheduler
\* with wait_lock, so nobody who waits for wait_lock waits for a sleeper.
SchedHoldsNoWaitLock == waitlock # NoCpu => onstack[waitlock] # NoProc

\* A parent in wait() with a zombie child returns: no wakeup is lost and no
\* cycle of wait_lock, p->lock and the scheduler blocks it.
WaitReturns ==
    \A p \in Procs :
        /\ pc[p] \in {"wait_scan", "wait_sleep", "wait", "wait_lock"}
        /\ \E q \in Children(p) : state[q] = "ZOMBIE"
        ~> pc[p] = "user"

\* "The victim won't exit until it tries to return to user space" (kill, line
\* 521): a killed process that is on its way there does exit.
KilledExits ==
    \A p \in Procs \ {InitProc} :
        killed[p] /\ pc[p] = "user" /\ state[p] \in {"RUNNABLE", "RUNNING"}
            ~> state[p] = "ZOMBIE"

\* "Kill the process with the given pid" (kill, line 520), and no process has
\* pid 0: when programs only ever call kill(0), no process is born killed.
BornAlive == KillPids \subseteq {0} => \A p \in Procs : state[p] = "USED" => ~ killed[p]

\* "Wake process from sleep()" (kill, line 531): a killed process is not asleep.
KilledNotAsleep == \A p \in Procs : killed[p] => state[p] # "SLEEPING"
=============================================================================
