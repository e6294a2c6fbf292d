-------------------------------- MODULE Traps --------------------------------
(***************************************************************************)
(* Traps: the vectors of trampoline.S and kernelvec.S, the handlers of     *)
(* trap.c, the timer, the PLIC and the system calls of sysproc.c that wait *)
(* for the timer or mark a process killed.  A hart has its own control     *)
(* registers, which every trap overwrites; a process has a trapframe and a *)
(* kernel stack, and comes back from the scheduler on any hart.            *)
(*                                                                         *)
(* Code that runs with interrupts off and touches nothing that another     *)
(* hart changes is one step.  A handler that spins for tickslock is a      *)
(* trap not taken yet: its hart does nothing else meanwhile.               *)
(***************************************************************************)
EXTENDS Integers, SequencesExt

CONSTANTS
    Procs,
    Harts,
    None,       \* no process, no hart
    UserPcs,    \* UserPcs[p]: instructions of the program of p, which starts again after the last
    Lengths,    \* Lengths[p]: the arguments with which p calls sleep()
    TickMod     \* ticks is an unsigned int: it wraps

ASSUME TrapsAssumption ==
    /\ UserPcs \in [Procs -> Nat \ {0}] /\ TickMod \in Nat \ {0}
    /\ None \notin Procs \union Harts /\ Procs \intersect Harts = {}

VARIABLES
    pc,         \* pc[h]: a place in the code and, in user mode, the instruction
    csr,        \* csr[h]: sstatus.SIE and SPIE, sepc, stvec; the register tp; cpus[h].intena
    run,        \* run[h]: cpus[h].proc
    state,      \* state[p], chan being &ticks for a sleeping process
    killed,     \* the processes whose killed flag is set
    frame,      \* frame[p]: trapframe->epc and ->kernel_hartid
    stack,      \* stack[s]: the locals of kerneltrap() on the stack of a process or a scheduler
    ctx,        \* ctx[p]: where swtch() left the process, and sched()'s local intena
    nap,        \* nap[p]: n of sys_sleep(), and ticks - ticks0, which is all that ticks is read for
    tickslock,
    ssip,       \* harts at which the IPI of main() is pending; nothing clears it
    panicked

vars == <<pc, csr, run, state, killed, frame, stack, ctx, nap, tickslock, ssip, panicked>>

At(place) == <<place, 0>>
User(n) == <<"user", n>>
InUser(h) == pc[h][1] = "user"

\* The registers a trap sets.  sret leaves them; what nobody reads any more is kept as
\* one value, so that it does not tell states apart.
Quiet(regs) == [regs EXCEPT !.sepc = At("none"), !.spie = FALSE]

\* No sleep under way, or one of length 0
NoNap == [n |-> 0, since |-> 0]

Init ==
    /\ pc = [h \in Harts |-> At("scheduler")]
    /\ csr = [h \in Harts |-> [sepc |-> At("none"), spie |-> FALSE, sie |-> TRUE, stvec |-> "kernelvec",
                               tp |-> h, intena |-> FALSE]]
    /\ run = [h \in Harts |-> None]
    /\ state = [p \in Procs |-> "RUNNABLE"]
    /\ killed = {}
    /\ frame = [p \in Procs |-> [epc |-> 0, kernel_hartid |-> None]]
    /\ stack = [s \in Procs \union Harts |-> <<>>]
    /\ ctx = [p \in Procs |-> [at |-> "forkret", intena |-> FALSE]]
    /\ nap = [p \in Procs |-> NoNap]
    /\ tickslock = None
    /\ ssip \in SUBSET Harts \ {Harts}
    /\ panicked = FALSE

-----------------------------------------------------------------------------
\* A pending software interrupt comes before the next instruction of a hart that may take it.
Free(h) == h \notin ssip \/ (~InUser(h) /\ ~csr[h].sie)

this_proc(h) == run[csr[h].tp]
Stack(h) == IF run[h] = None THEN h ELSE run[h]

Goto(h, place) == pc' = [pc EXCEPT ![h] = At(place)]
Set(h, regs) == csr' = [csr EXCEPT ![h] = regs]

\* sched(): leave the hart to its scheduler, which finishes with release(&p->lock).
\* now: the states of the processes; i: were interrupts on before the first lock was taken
\* regs: the hart's registers
SchedOut(h, p, regs, now, st, at, i) ==
    /\ state' = [now EXCEPT ![p] = st]
    /\ ctx' = [ctx EXCEPT ![p] = [at |-> at, intena |-> i]]
    /\ run' = [run EXCEPT ![h] = None]
    /\ Set(h, [Quiet(regs) EXCEPT !.sie = i, !.intena = FALSE])
    /\ Goto(h, "scheduler")

\* intr_on() at the top of scheduler()'s loop
SchedLoop(h) ==
    /\ pc[h] = At("scheduler") /\ ~csr[h].sie
    /\ Set(h, [csr[h] EXCEPT !.sie = TRUE])
    /\ UNCHANGED <<pc, run, state, killed, frame, stack, ctx, nap, tickslock, ssip, panicked>>

\* The cpu's intena that release(&p->lock) finds on the process's side of swtch()
Intena(h, p) == IF ctx[p].at = "forkret" THEN csr[h].sie ELSE ctx[p].intena

\* swtch() to a process: the registers of its context
Swtch(h, p) == Goto(h, ctx[p].at)

Run(h, p) ==
    /\ pc[h] = At("scheduler") /\ Free(h) /\ state[p] = "RUNNABLE"
    /\ state' = [state EXCEPT ![p] = "RUNNING"]
    /\ run' = [run EXCEPT ![h] = p]
    /\ Set(h, [csr[h] EXCEPT !.sie = Intena(h, p)])
    /\ Swtch(h, p)
    /\ ctx' = [ctx EXCEPT ![p] = [at |-> "none", intena |-> FALSE]]
    /\ UNCHANGED <<killed, frame, stack, nap, tickslock, ssip, panicked>>

-----------------------------------------------------------------------------
(* devintr()                                                               *)

\* ticks++, seen by a process in sys_sleep().  A process whose sleep is over runs before
\* ticks has gone all the way round, which takes 2^32 of them: its difference stays.
Later(w) ==
    CASE w = NoNap -> NoNap
      [] w.n > 0 /\ w.since = TickMod - 1 -> w
      [] OTHER -> [w EXCEPT !.since = (@ + 1) % TickMod]

\* Mutant: timer_tick() without wakeup().
WakeupMutant(h) == state

\* wakeup(&ticks)
Wakeup(h) == [p \in Procs |-> IF state[p] = "SLEEPING" /\ p # run[h] THEN "RUNNABLE" ELSE state[p]]

\* timer_tick(); its callers wake the processes
timer_tick ==
    /\ tickslock = None
    /\ nap' = [p \in Procs |-> Later(nap[p])]

\* Of the interrupts that are pending the hart takes external before software before timer.
Open(h) == InUser(h) \/ csr[h].sie

\* An external interrupt, whose device devintr() serves between plic_claim() and
\* plic_complete() if no other hart was faster, or the software interrupt, which it
\* leaves pending
Device(h) == Open(h) /\ UNCHANGED <<nap, state>>

Timer(h) == Open(h) /\ Free(h) /\ timer_tick

-----------------------------------------------------------------------------
(* Traps from user mode: uservec, usertrap() and usertrapret()             *)

\* The registers after uservec has taken the kernel's from the trapframe, and usertrap()
\* has set stvec; the hardware has turned interrupts off.
Uservec(h) == [csr[h] EXCEPT !.tp = frame[run[h]].kernel_hartid, !.stvec = "kernelvec", !.sie = FALSE]

\* The trapframe after uservec, with the program counter where usertrap() wants it
SaveFrame(h, epc) == frame' = [frame EXCEPT ![run[h]] = [epc |-> epc, kernel_hartid |-> None]]

\* A trap reaches usertrap() if stvec says so; panic("usertrap: not from user mode")
IntoUsertrap(h) ==
    /\ csr[h].stvec = "uservec"
    /\ panicked' = ~InUser(h)
    /\ UNCHANGED <<stack, tickslock, ssip>>

\* The process of a hart in user mode executes an instruction.
Instr(h) ==
    /\ InUser(h) /\ Free(h)
    /\ pc' = [pc EXCEPT ![h] = User((@[2] + 1) % UserPcs[run[h]])]
    /\ UNCHANGED <<csr, run, state, killed, frame, stack, ctx, nap, tickslock, ssip, panicked>>

\* A system call: it returns to the next instruction, and runs with interrupts on.
Ecall(h) ==
    LET p == run[Uservec(h).tp]  IN
    /\ InUser(h) /\ Free(h) /\ IntoUsertrap(h)
    /\ IF p \in killed
       THEN /\ SaveFrame(h, pc[h][2])
            /\ SchedOut(h, p, Uservec(h), state, "ZOMBIE", "dead", FALSE)
       ELSE /\ SaveFrame(h, (pc[h][2] + 1) % UserPcs[p])
            /\ Set(h, [Uservec(h) EXCEPT !.sie = TRUE])
            /\ Goto(h, "syscall")
            /\ UNCHANGED <<run, state, ctx>>
    /\ UNCHANGED <<killed, nap>>

\* setkilled()
Fault(h) ==
    /\ InUser(h) /\ Free(h) /\ IntoUsertrap(h)
    /\ SaveFrame(h, pc[h][2])
    /\ Set(h, Uservec(h))
    /\ killed' = killed \union {run[Uservec(h).tp]}
    /\ Goto(h, "after")
    /\ UNCHANGED <<run, state, ctx, nap>>

\* An interrupt: devintr()
UserIntr(h) ==
    /\ IntoUsertrap(h)
    /\ SaveFrame(h, pc[h][2])
    /\ Set(h, Uservec(h))
    /\ UNCHANGED <<run, killed, ctx>>

UserDevice(h) == Device(h) /\ UserIntr(h) /\ Goto(h, "after")
UserTimer(h) == Timer(h) /\ UserIntr(h) /\ Goto(h, "afterTick") /\ state' = Wakeup(h)

\* Mutant: without intr_off().
UsertrapretMutant(h) == Set(h, [csr[h] EXCEPT !.stvec = "uservec"]) /\ Goto(h, "userret")

\* usertrapret() turns interrupts off before it sends traps to uservec.
Usertrapret(h) == Set(h, [csr[h] EXCEPT !.sie = FALSE, !.stvec = "uservec"]) /\ Goto(h, "userret")

\* The second test of killed(), yield() for a timer interrupt, usertrapret()
UsertrapEnd(h) ==
    LET p == this_proc(h)  IN
    /\ pc[h][1] \in {"after", "afterTick"} /\ Free(h)
    /\ CASE p \in killed -> SchedOut(h, p, csr[h], state, "ZOMBIE", "dead", csr[h].sie)
         [] p \notin killed /\ pc[h] = At("afterTick") ->
                SchedOut(h, p, csr[h], state, "RUNNABLE", "usertrapret", csr[h].sie)
         [] OTHER -> Usertrapret(h) /\ UNCHANGED <<run, state, ctx>>
    /\ UNCHANGED <<killed, frame, stack, nap, tickslock, ssip, panicked>>

\* usertrapret() after yield(), and after forkret()
BackToUser(h) ==
    /\ pc[h][1] \in {"forkret", "usertrapret"} /\ Free(h)
    /\ Usertrapret(h)
    /\ UNCHANGED <<run, state, killed, frame, stack, ctx, nap, tickslock, ssip, panicked>>

\* usertrapret() leaves in the trapframe what uservec will need.  The program counter in
\* it is not read again.
PutFrame(h, p) == frame' = [frame EXCEPT ![p] = [epc |-> 0, kernel_hartid |-> csr[h].tp]]

\* The rest of usertrapret(), userret and its sret: the program's registers come back, tp
\* with them.
Userret(h) ==
    LET p == this_proc(h)  IN
    /\ pc[h] = At("userret")
    /\ PutFrame(h, p)
    /\ Set(h, [Quiet(csr[h]) EXCEPT !.sie = TRUE, !.tp = None])
    /\ pc' = [pc EXCEPT ![h] = User(frame[p].epc)]
    /\ UNCHANGED <<run, state, killed, stack, ctx, nap, tickslock, ssip, panicked>>

-----------------------------------------------------------------------------
(* Traps from kernel mode: kernelvec and kerneltrap()                      *)

\* kernelvec saves the registers on the current stack, kerneltrap() sepc and sstatus in
\* its locals; panic("kerneltrap: not from supervisor mode")
KernelIntr(h) ==
    /\ csr[h].stvec = "kernelvec"
    /\ panicked' = InUser(h)
    /\ stack' = [stack EXCEPT ![Stack(h)] = Append(@, [sepc |-> pc[h], spie |-> csr[h].sie])]
    /\ UNCHANGED <<killed, frame, tickslock, ssip>>

Kernelvec(h) == [csr[h] EXCEPT !.sepc = pc[h], !.spie = csr[h].sie, !.sie = FALSE]

KernelDevice(h) ==
    /\ Device(h) /\ KernelIntr(h)
    /\ Set(h, Kernelvec(h))
    /\ Goto(h, "kret")
    /\ UNCHANGED <<run, ctx>>

\* yield(), if there is a process to do it
KernelTimer(h) ==
    LET p == this_proc(h)  IN
    /\ Timer(h) /\ KernelIntr(h)
    /\ IF p # None /\ state[p] = "RUNNING"
       THEN SchedOut(h, p, Kernelvec(h), Wakeup(h), "RUNNABLE", "kret", FALSE)
       ELSE /\ Set(h, Kernelvec(h))
            /\ state' = Wakeup(h)
            /\ Goto(h, "kret")
            /\ UNCHANGED <<run, ctx>>

\* Mutant: those the hart has after yield().
SavedMutant(h) == [sepc |-> csr[h].sepc, spie |-> csr[h].spie]

\* The registers sret will use: those kerneltrap() kept in its locals
Saved(h) == Last(stack[Stack(h)])

\* w_sepc() and w_sstatus(); kernelvec takes the other registers back, but not tp; sret.
KerneltrapEnd(h) ==
    /\ pc[h] = At("kret")
    /\ pc' = [pc EXCEPT ![h] = Saved(h).sepc]
    /\ Set(h, [Quiet(csr[h]) EXCEPT !.sie = Saved(h).spie])
    /\ stack' = [stack EXCEPT ![Stack(h)] = Front(@)]
    /\ UNCHANGED <<run, state, killed, frame, ctx, nap, tickslock, ssip, panicked>>

-----------------------------------------------------------------------------
(* syscall(): sleep(), kill() and the calls that change nothing here       *)

\* push_off() of acquire(&tickslock), which then waits with interrupts off
PushOff(h, place) ==
    /\ Set(h, [csr[h] EXCEPT !.sie = FALSE, !.intena = csr[h].sie])
    /\ Goto(h, place)

SysSleep(h, n) ==
    /\ pc[h] = At("syscall") /\ Free(h) /\ n \in Lengths[this_proc(h)]
    /\ nap' = [nap EXCEPT ![this_proc(h)] = [n |-> n, since |-> 0]]
    /\ PushOff(h, "lock")
    /\ UNCHANGED <<run, state, killed, frame, stack, ctx, tickslock, ssip, panicked>>

\* The lock; the first time, ticks0 = ticks
Lock(h) ==
    /\ pc[h][1] \in {"lock", "relock"} /\ tickslock = None
    /\ tickslock' = h
    /\ nap' = IF pc[h] = At("lock") THEN [nap EXCEPT ![this_proc(h)].since = 0] ELSE nap
    /\ Goto(h, "sleeploop")
    /\ UNCHANGED <<csr, run, state, killed, frame, stack, ctx, ssip, panicked>>

\* ticks - ticks0 < n, in unsigned arithmetic
Early(p) == nap[p].since < nap[p].n % TickMod

SleepLoop(h) ==
    LET p == this_proc(h)  IN
    /\ pc[h] = At("sleeploop")
    /\ \/ /\ Early(p) /\ p \notin killed
          /\ Goto(h, "sleep")
          /\ UNCHANGED <<csr, tickslock, nap>>
       \/ /\ ~Early(p) \/ p \in killed
          /\ tickslock' = None
          /\ Set(h, [csr[h] EXCEPT !.sie = csr[h].intena])
          /\ nap' = [nap EXCEPT ![p] = NoNap]
          /\ Goto(h, "after")
    /\ UNCHANGED <<run, state, killed, frame, stack, ctx, ssip, panicked>>

\* sleep(&ticks, &tickslock)
Sleep(h) ==
    /\ pc[h] = At("sleep")
    /\ tickslock' = None
    /\ SchedOut(h, this_proc(h), csr[h], state, "SLEEPING", "wake", csr[h].intena)
    /\ UNCHANGED <<killed, frame, stack, nap, ssip, panicked>>

\* sleep() takes the lock again.
Wake(h) ==
    /\ pc[h] = At("wake") /\ Free(h)
    /\ PushOff(h, "relock")
    /\ UNCHANGED <<run, state, killed, frame, stack, ctx, nap, tickslock, ssip, panicked>>

SysKill(h, q) ==
    /\ pc[h] = At("syscall") /\ Free(h) /\ state[q] # "ZOMBIE"
    /\ killed' = killed \union {q}
    /\ state' = [state EXCEPT ![q] = IF @ = "SLEEPING" THEN "RUNNABLE" ELSE @]
    /\ Goto(h, "after")
    /\ UNCHANGED <<csr, run, frame, stack, ctx, nap, tickslock, ssip, panicked>>

SysOther(h) ==
    /\ pc[h] = At("syscall") /\ Free(h)
    /\ Goto(h, "after")
    /\ UNCHANGED <<csr, run, state, killed, frame, stack, ctx, nap, tickslock, ssip, panicked>>

-----------------------------------------------------------------------------
\* What a hart does for its process when nothing interrupts it; the ends of traps, and
\* what runs with interrupts off
ThreadStep(h) ==
    \/ UsertrapEnd(h) \/ BackToUser(h) \/ Wake(h) \/ Lock(h) \/ SysOther(h)
    \/ \E n \in UNION {Lengths[p] : p \in Procs} : SysSleep(h, n)
    \/ \E q \in Procs : SysKill(h, q)

TrapStep(h) == Userret(h) \/ KerneltrapEnd(h) \/ SleepLoop(h) \/ Sleep(h) \/ SchedLoop(h)

Interrupted(h) == UserDevice(h) \/ KernelDevice(h)
Ticked(h) == UserTimer(h) \/ KernelTimer(h)

Next ==
    \E h \in Harts :
        \/ ThreadStep(h) \/ TrapStep(h)
        \/ Instr(h) \/ Ecall(h) \/ Fault(h) \/ Interrupted(h) \/ Ticked(h)
        \/ \E p \in Procs : Run(h, p)

Spec == Init /\ [][Next]_vars

\* A pending interrupt is taken when the hart lets it, the code of a process gets on
\* between two interrupts and gets a lock that is free again and again, and the loop of
\* scheduler() passes over no process for ever.
Fairness ==
    /\ \A h \in Harts : WF_vars(TrapStep(h)) /\ SF_vars(Ticked(h))
    /\ \A p \in Procs : SF_vars(\E h \in Harts : run[h] = p /\ ThreadStep(h)) /\ SF_vars(\E h \in Harts : Run(h, p))

LiveSpec == Spec /\ Fairness

-----------------------------------------------------------------------------
(* Properties                                                              *)

\* TrapsInv of trap.c: whenever a trap may come, stvec leads to the handler for
\* the mode the hart is in, so that none of the three panics of usertrap() and
\* kerneltrap() is reached; kernel code finds its own hart in tp, and its own
\* process, whatever hart it was on before; no process runs on two harts.
TrapsInv ==
    /\ ~panicked
    /\ \A h \in Harts :
        /\ Open(h) => csr[h].stvec = IF InUser(h) THEN "uservec" ELSE "kernelvec"
        /\ InUser(h) \/ csr[h].tp = h
        /\ run[h] # None => state[run[h]] = "RUNNING"
        /\ run[h] = None \/ \A g \in Harts \ {h} : run[g] # run[h]
        /\ Len(stack[Stack(h)]) = (IF pc[h] = At("kret") THEN 1 ELSE 0)
        /\ pc[h] = At("kret") => ~csr[h].sie
    /\ tickslock # None => ~Open(tickslock)

\* Where the program of a process is, without the traps on top of it
Place(p) ==
    LET here == {h \in Harts : run[h] = p}
        h    == CHOOSE x \in here : TRUE
        now  == IF here = {} THEN At(ctx[p].at) ELSE pc[h]
    IN  CASE now[1] = "kret" -> Last(stack[p]).sepc
          [] OTHER -> now

Stage(p) ==
    CASE state[p] = "ZOMBIE" -> "dead"
      [] Place(p)[1] = "syscall" -> "syscall"
      [] Place(p)[1] \in {"lock", "relock", "sleeploop", "sleep", "wake"} -> "wait"
      [] Place(p)[1] \in {"user", "after", "afterTick", "usertrapret", "forkret", "userret"} -> "user"
      [] OTHER -> "lost"

Thread == INSTANCE Threads WITH
    at <- [p \in Procs |-> Stage(p)],
    upc <- [p \in Procs |-> IF Place(p)[1] = "user" THEN Place(p)[2] ELSE frame[p].epc]

\* RefinesThreads of trap.c and the vectors: interrupts, nested in system calls
\* or not, the time slices they start and the moves between harts leave every
\* program and every system call exactly where it was.
RefinesThreads == Thread!Spec

\* TrapsLive of sysproc.c and trap.c: a sleep() of a length that is not negative
\* ends, and a killed process exits though its program never calls the system;
\* a hart that a software interrupt keeps busy does not stop the others.
TrapsLive ==
    \A p \in Procs :
        LET Bound == p \in killed \/ (Stage(p) = "wait" /\ nap[p].n >= 0)
        IN  Bound ~> (~Bound \/ state[p] = "ZOMBIE")
=============================================================================
