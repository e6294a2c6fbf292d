----------------------------- MODULE ProcProofs -----------------------------
(***************************************************************************)
(* TLAPS proofs about Proc, for any number of process slots and CPUs.      *)
(*                                                                         *)
(* The properties of Proc are consequences of who holds which lock.        *)
(* CpuInv: p->lock is kept across a switch, so a process that is not       *)
(* RUNNING but still has a CPU on its stack is locked.  WaitLockInv:       *)
(* wait_lock has one holder, whose thread is inside wait() or exit().      *)
(* Under it the family tree (ParentInv) and the promise that an exiting    *)
(* child has woken its parent (WakeInv) are stable.  ForkInv keeps a slot  *)
(* that fork() is filling out of everybody's hands.                        *)
(*                                                                         *)
(* The second part is about Vm, the memory of those processes.             *)
(***************************************************************************)
EXTENDS Proc, UserMemory, Sequences, RingArithmetic, TLAPS

\* The points of wait() and exit() where the thread holds wait_lock.
HoldPCs == {"wake_init", "wake_parent", "wait_scan", "wait_sleep"}
ForkPCs == {"forked", "fork_parent", "fork_run"}
ExitPCs == {"exit", "reparent", "wake_init", "wake_parent", "zombie"}

Live == {"RUNNING", "RUNNABLE", "SLEEPING"}

\* CPUs, stacks and p->lock: p->lock is held across steps only by the CPU
\* whose c->proc is p.
CpuInv ==
    /\ \A c \in Cpus : onstack[c] # NoProc => onstack[c] = cpuproc[c]
    /\ \A c, d \in Cpus : cpuproc[c] = cpuproc[d] /\ cpuproc[c] # NoProc => c = d
    /\ \A p \in Procs : plock[p] # NoCpu => cpuproc[plock[p]] = p
    /\ \A c \in Cpus : cpuproc[c] # NoProc /\ onstack[c] = NoProc =>
          /\ plock[cpuproc[c]] = c
          /\ state[cpuproc[c]] \in {"RUNNABLE", "SLEEPING", "ZOMBIE"}
    /\ \A c \in Cpus : onstack[c] # NoProc => state[onstack[c]] = "RUNNING"
    /\ \A p \in Procs : state[p] = "RUNNING" => \E c \in Cpus : onstack[c] = p

\* wait_lock is held exactly by the thread between its acquire and release.
WaitLockInv ==
    /\ waitlock # NoCpu =>
          /\ onstack[waitlock] # NoProc
          /\ plock[onstack[waitlock]] # waitlock
          /\ pc[onstack[waitlock]] \in HoldPCs
    /\ \A c \in Cpus :
          onstack[c] # NoProc /\ plock[onstack[c]] # c /\ pc[onstack[c]] \in HoldPCs
             => waitlock = c

\* Where a thread can be in each state.
PcInv ==
    \A p \in Procs :
        /\ state[p] = "UNUSED"   => pc[p] \in {"user", "zombie"}
        /\ state[p] = "USED"     => pc[p] = "user"
        /\ state[p] = "SLEEPING" => pc[p] = "wait_sleep" /\ chan[p] = p
        /\ state[p] = "RUNNABLE" => pc[p] \in OpenPCs \cup {"wait_sleep"}
        /\ state[p] = "RUNNING"  => pc[p] # "zombie"
        /\ state[p] = "ZOMBIE"   => pc[p] = "zombie"
        /\ \A c \in Cpus : onstack[c] = p /\ plock[p] = c =>
              pc[p] \in OpenPCs \cup {"wait_sleep"}

\* fork() owns the slot it is filling.
ForkInv ==
    /\ \A p \in Procs : pc[p] \in ForkPCs =>
          np[p] \in Procs /\ state[np[p]] = "USED"
    /\ \A p, q \in Procs : pc[p] \in ForkPCs /\ pc[q] \in ForkPCs /\ np[p] = np[q]
          => p = q
    /\ \A p \in Procs : pc[p] = "fork_run" => parent[np[p]] = p

\* Parents are alive and past no reparent(); init stays.
ParentInv ==
    /\ \A p, q \in Procs : parent[q] = p => state[p] \in Live
          /\ pc[p] \notin {"wake_init", "wake_parent", "zombie"}
    /\ \A q \in Procs : state[q] = "UNUSED" => parent[q] = NoProc
    /\ \A q \in Procs : state[q] \in Live \cup {"ZOMBIE"} /\ q # InitProc =>
          parent[q] # NoProc
    /\ state[InitProc] \in Live /\ pc[InitProc] \notin ExitPCs

\* A child that is about to become a zombie has woken its parent.
WakeInv ==
    /\ \A p \in Procs : pc[p] = "wake_parent" /\ parent[p] \notin todo[p] =>
          state[parent[p]] # "SLEEPING"
    /\ \A p \in Procs : pc[p] = "wake_init" /\ InitProc \notin todo[p] =>
          state[InitProc] # "SLEEPING"
    /\ \A c \in Cpus : onstack[c] # NoProc /\ plock[onstack[c]] # c
          /\ pc[onstack[c]] = "wait_sleep" => NoZombie(onstack[c])

PidInv ==
    /\ \A p \in Procs : pid[p] < nextpid
    /\ nextpid > 0
    /\ PidUnique

IInv == /\ TypeOK /\ CpuInv /\ WaitLockInv /\ PcInv /\ ForkInv /\ ParentInv
        /\ WakeInv /\ NoLostWakeup /\ PidInv

-----------------------------------------------------------------------------
(* The inductive step, one lemma per action.                               *)

LEMMA SchedRunKeeps ==
    ASSUME IInv, NEW c \in Cpus, NEW p \in Procs, SchedRun(c, p)
    PROVE  IInv'
<1>. USE ProcAssumption DEF At, Free, GoTo, SwitchOut, SchedRun, tableVars,
   lockVars, cpuVars, threadVars
<1>t. TypeOK
  BY DEF IInv
<1>1. TypeOK'
  BY <1>t DEF IInv, TypeOK, States, PCs, OpenPCs, SpinPCs, ForkInv, ForkPCs
<1>2. CpuInv'
  BY <1>t DEF IInv, TypeOK, CpuInv, PcInv, ForkInv, ForkPCs
<1>3. WaitLockInv'
  BY <1>t DEF IInv, TypeOK, CpuInv, WaitLockInv, PcInv, HoldPCs, OpenPCs
<1>4. PcInv'
  BY <1>t DEF IInv, TypeOK, CpuInv, PcInv, ForkInv, ForkPCs, OpenPCs, SpinPCs
<1>5. ForkInv'
  BY <1>t DEF IInv, TypeOK, CpuInv, PcInv, ForkInv, ForkPCs
<1>6. ParentInv'
  BY <1>t DEF IInv, TypeOK, CpuInv, PcInv, ForkInv, ForkPCs, ParentInv,
     ExitPCs, Live
<1>7. WakeInv'
  BY <1>t DEF IInv, TypeOK, CpuInv, WaitLockInv, HoldPCs, PcInv, ForkInv,
     ForkPCs, ParentInv, ExitPCs, Live, WakeInv, NoZombie, Children
<1>8. NoLostWakeup'
  BY <1>t DEF IInv, TypeOK, CpuInv, WaitLockInv, HoldPCs, PcInv, ForkInv,
     ForkPCs, ParentInv, ExitPCs, Live, WakeInv, NoLostWakeup, NoZombie, Children
<1>9. PidInv'
  BY <1>t DEF IInv, TypeOK, CpuInv, PidInv, PidUnique, ForkInv, ForkPCs
<1>. QED BY <1>1, <1>2, <1>3, <1>4, <1>5, <1>6, <1>7, <1>8, <1>9 DEF IInv

LEMMA SchedBackKeeps ==
    ASSUME IInv, NEW c \in Cpus, SchedBack(c)
    PROVE  IInv'
<1>. USE ProcAssumption DEF At, Free, GoTo, SwitchOut, SchedBack, tableVars,
   lockVars, cpuVars, threadVars
<1>t. TypeOK
  BY DEF IInv
<1>1. TypeOK'
  BY <1>t DEF IInv, TypeOK, States, PCs, OpenPCs, SpinPCs, ForkInv, ForkPCs
<1>2. CpuInv'
  BY <1>t DEF IInv, TypeOK, CpuInv, PcInv, ForkInv, ForkPCs
<1>3. WaitLockInv'
  BY <1>t DEF IInv, TypeOK, CpuInv, WaitLockInv, PcInv, HoldPCs, OpenPCs
<1>4. PcInv'
  BY <1>t DEF IInv, TypeOK, CpuInv, PcInv, ForkInv, ForkPCs, OpenPCs, SpinPCs
<1>5. ForkInv'
  BY <1>t DEF IInv, TypeOK, CpuInv, PcInv, ForkInv, ForkPCs
<1>6. ParentInv'
  BY <1>t DEF IInv, TypeOK, CpuInv, PcInv, ForkInv, ForkPCs, ParentInv,
     ExitPCs, Live
<1>7. WakeInv'
  BY <1>t DEF IInv, TypeOK, CpuInv, WaitLockInv, HoldPCs, PcInv, ForkInv,
     ForkPCs, ParentInv, ExitPCs, Live, WakeInv, NoZombie, Children
<1>8. NoLostWakeup'
  BY <1>t DEF IInv, TypeOK, CpuInv, WaitLockInv, HoldPCs, PcInv, ForkInv,
     ForkPCs, ParentInv, ExitPCs, Live, WakeInv, NoLostWakeup, NoZombie, Children
<1>9. PidInv'
  BY <1>t DEF IInv, TypeOK, CpuInv, PidInv, PidUnique, ForkInv, ForkPCs
<1>. QED BY <1>1, <1>2, <1>3, <1>4, <1>5, <1>6, <1>7, <1>8, <1>9 DEF IInv

LEMMA ResumeKeeps ==
    ASSUME IInv, NEW c \in Cpus, NEW p \in Procs, Resume(c, p)
    PROVE  IInv'
<1>. USE ProcAssumption DEF At, Free, GoTo, SwitchOut, Resume, tableVars,
   lockVars, cpuVars, threadVars
<1>t. TypeOK
  BY DEF IInv
<1>1. TypeOK'
  BY <1>t DEF IInv, TypeOK, States, PCs, OpenPCs, SpinPCs, ForkInv, ForkPCs
<1>2. CpuInv'
  BY <1>t DEF IInv, TypeOK, CpuInv, PcInv, ForkInv, ForkPCs
<1>3. WaitLockInv'
  BY <1>t DEF IInv, TypeOK, CpuInv, WaitLockInv, PcInv, HoldPCs, OpenPCs
<1>4. PcInv'
  BY <1>t DEF IInv, TypeOK, CpuInv, PcInv, ForkInv, ForkPCs, OpenPCs, SpinPCs
<1>5. ForkInv'
  BY <1>t DEF IInv, TypeOK, CpuInv, PcInv, ForkInv, ForkPCs
<1>6. ParentInv'
  BY <1>t DEF IInv, TypeOK, CpuInv, PcInv, ForkInv, ForkPCs, ParentInv,
     ExitPCs, Live
<1>7. WakeInv'
  BY <1>t DEF IInv, TypeOK, CpuInv, WaitLockInv, HoldPCs, PcInv, ForkInv,
     ForkPCs, ParentInv, ExitPCs, Live, WakeInv, NoZombie, Children
<1>8. NoLostWakeup'
  BY <1>t DEF IInv, TypeOK, CpuInv, WaitLockInv, HoldPCs, PcInv, ForkInv,
     ForkPCs, ParentInv, ExitPCs, Live, WakeInv, NoLostWakeup, NoZombie, Children
<1>9. PidInv'
  BY <1>t DEF IInv, TypeOK, CpuInv, PidInv, PidUnique, ForkInv, ForkPCs
<1>. QED BY <1>1, <1>2, <1>3, <1>4, <1>5, <1>6, <1>7, <1>8, <1>9 DEF IInv

LEMMA YieldKeeps ==
    ASSUME IInv, NEW c \in Cpus, NEW p \in Procs, Yield(c, p)
    PROVE  IInv'
<1>. USE ProcAssumption DEF At, Free, GoTo, SwitchOut, Yield, tableVars,
   lockVars, cpuVars, threadVars
<1>t. TypeOK
  BY DEF IInv
<1>1. TypeOK'
  BY <1>t DEF IInv, TypeOK, States, PCs, OpenPCs, SpinPCs, ForkInv, ForkPCs
<1>2. CpuInv'
  BY <1>t DEF IInv, TypeOK, CpuInv, PcInv, ForkInv, ForkPCs
<1>3. WaitLockInv'
  BY <1>t DEF IInv, TypeOK, CpuInv, WaitLockInv, PcInv, HoldPCs, OpenPCs
<1>4. PcInv'
  BY <1>t DEF IInv, TypeOK, CpuInv, PcInv, ForkInv, ForkPCs, OpenPCs, SpinPCs
<1>5. ForkInv'
  BY <1>t DEF IInv, TypeOK, CpuInv, PcInv, ForkInv, ForkPCs
<1>6. ParentInv'
  BY <1>t DEF IInv, TypeOK, CpuInv, PcInv, ForkInv, ForkPCs, ParentInv,
     ExitPCs, Live
<1>7. WakeInv'
  BY <1>t DEF IInv, TypeOK, CpuInv, WaitLockInv, HoldPCs, PcInv, ForkInv,
     ForkPCs, ParentInv, ExitPCs, Live, WakeInv, NoZombie, Children
<1>8. NoLostWakeup'
  BY <1>t DEF IInv, TypeOK, CpuInv, WaitLockInv, HoldPCs, PcInv, ForkInv,
     ForkPCs, ParentInv, ExitPCs, Live, WakeInv, NoLostWakeup, NoZombie, Children
<1>9. PidInv'
  BY <1>t DEF IInv, TypeOK, CpuInv, PidInv, PidUnique, ForkInv, ForkPCs
<1>. QED BY <1>1, <1>2, <1>3, <1>4, <1>5, <1>6, <1>7, <1>8, <1>9 DEF IInv

LEMMA SpinKeeps ==
    ASSUME IInv, NEW c \in Cpus, NEW p \in Procs, Spin(c, p)
    PROVE  IInv'
<1>. USE ProcAssumption DEF At, Free, GoTo, SwitchOut, Spin, tableVars,
   lockVars, cpuVars, threadVars
<1>t. TypeOK
  BY DEF IInv
<1>1. TypeOK'
  BY <1>t DEF IInv, TypeOK, States, PCs, OpenPCs, SpinPCs, ForkInv, ForkPCs
<1>2. CpuInv'
  BY <1>t DEF IInv, TypeOK, CpuInv, PcInv, ForkInv, ForkPCs
<1>3. WaitLockInv'
  BY <1>t DEF IInv, TypeOK, CpuInv, WaitLockInv, PcInv, HoldPCs, OpenPCs
<1>4. PcInv'
  BY <1>t DEF IInv, TypeOK, CpuInv, PcInv, ForkInv, ForkPCs, OpenPCs, SpinPCs
<1>5. ForkInv'
  BY <1>t DEF IInv, TypeOK, CpuInv, PcInv, ForkInv, ForkPCs
<1>6. ParentInv'
  BY <1>t DEF IInv, TypeOK, CpuInv, PcInv, ForkInv, ForkPCs, ParentInv,
     ExitPCs, Live
<1>7. WakeInv'
  BY <1>t DEF IInv, TypeOK, CpuInv, WaitLockInv, HoldPCs, PcInv, ForkInv,
     ForkPCs, ParentInv, ExitPCs, Live, WakeInv, NoZombie, Children
<1>8. NoLostWakeup'
  BY <1>t DEF IInv, TypeOK, CpuInv, WaitLockInv, HoldPCs, PcInv, ForkInv,
     ForkPCs, ParentInv, ExitPCs, Live, WakeInv, NoLostWakeup, NoZombie, Children
<1>9. PidInv'
  BY <1>t DEF IInv, TypeOK, CpuInv, PidInv, PidUnique, ForkInv, ForkPCs
<1>. QED BY <1>1, <1>2, <1>3, <1>4, <1>5, <1>6, <1>7, <1>8, <1>9 DEF IInv

LEMMA ForkAllocKeeps ==
    ASSUME IInv, NEW c \in Cpus, NEW p \in Procs, NEW q \in Procs, ForkAlloc(c, p, q)
    PROVE  IInv'
<1>. USE ProcAssumption DEF At, Free, GoTo, SwitchOut, ForkAlloc, Syscall,
   AllocProc, tableVars, lockVars, cpuVars, threadVars
<1>t. TypeOK
  BY DEF IInv
<1>1. TypeOK'
  BY <1>t DEF IInv, TypeOK, States, PCs, OpenPCs, SpinPCs, ForkInv, ForkPCs
<1>2. CpuInv'
  BY <1>t DEF IInv, TypeOK, CpuInv, PcInv, ForkInv, ForkPCs
<1>3. WaitLockInv'
  BY <1>t DEF IInv, TypeOK, CpuInv, WaitLockInv, PcInv, HoldPCs, OpenPCs
<1>4. PcInv'
  BY <1>t DEF IInv, TypeOK, CpuInv, PcInv, ForkInv, ForkPCs, OpenPCs, SpinPCs
<1>5. ForkInv'
  BY <1>t DEF IInv, TypeOK, CpuInv, PcInv, ForkInv, ForkPCs
<1>6. ParentInv'
  BY <1>t DEF IInv, TypeOK, CpuInv, PcInv, ForkInv, ForkPCs, ParentInv,
     ExitPCs, Live
<1>7. WakeInv'
  BY <1>t DEF IInv, TypeOK, CpuInv, WaitLockInv, HoldPCs, PcInv, ForkInv,
     ForkPCs, ParentInv, ExitPCs, Live, WakeInv, NoZombie, Children
<1>8. NoLostWakeup'
  BY <1>t DEF IInv, TypeOK, CpuInv, WaitLockInv, HoldPCs, PcInv, ForkInv,
     ForkPCs, ParentInv, ExitPCs, Live, WakeInv, NoLostWakeup, NoZombie, Children
<1>9. PidInv'
  BY <1>t DEF IInv, TypeOK, CpuInv, PidInv, PidUnique, ForkInv, ForkPCs
<1>. QED BY <1>1, <1>2, <1>3, <1>4, <1>5, <1>6, <1>7, <1>8, <1>9 DEF IInv

LEMMA ForkFailKeeps ==
    ASSUME IInv, NEW c \in Cpus, NEW p \in Procs, NEW q \in Procs, ForkFail(c, p, q)
    PROVE  IInv'
<1>. USE ProcAssumption DEF At, Free, GoTo, SwitchOut, ForkFail, Syscall,
   tableVars, lockVars, cpuVars, threadVars
<1>t. TypeOK
  BY DEF IInv
<1>1. TypeOK'
  BY <1>t DEF IInv, TypeOK, States, PCs, OpenPCs, SpinPCs, ForkInv, ForkPCs
<1>2. CpuInv'
  BY <1>t DEF IInv, TypeOK, CpuInv, PcInv, ForkInv, ForkPCs
<1>3. WaitLockInv'
  BY <1>t DEF IInv, TypeOK, CpuInv, WaitLockInv, PcInv, HoldPCs, OpenPCs
<1>4. PcInv'
  BY <1>t DEF IInv, TypeOK, CpuInv, PcInv, ForkInv, ForkPCs, OpenPCs, SpinPCs
<1>5. ForkInv'
  BY <1>t DEF IInv, TypeOK, CpuInv, PcInv, ForkInv, ForkPCs
<1>6. ParentInv'
  BY <1>t DEF IInv, TypeOK, CpuInv, PcInv, ForkInv, ForkPCs, ParentInv,
     ExitPCs, Live
<1>7. WakeInv'
  BY <1>t DEF IInv, TypeOK, CpuInv, WaitLockInv, HoldPCs, PcInv, ForkInv,
     ForkPCs, ParentInv, ExitPCs, Live, WakeInv, NoZombie, Children
<1>8. NoLostWakeup'
  BY <1>t DEF IInv, TypeOK, CpuInv, WaitLockInv, HoldPCs, PcInv, ForkInv,
     ForkPCs, ParentInv, ExitPCs, Live, WakeInv, NoLostWakeup, NoZombie, Children
<1>9. PidInv'
  BY <1>t DEF IInv, TypeOK, CpuInv, PidInv, PidUnique, ForkInv, ForkPCs
<1>. QED BY <1>1, <1>2, <1>3, <1>4, <1>5, <1>6, <1>7, <1>8, <1>9 DEF IInv

LEMMA ForkParentKeeps ==
    ASSUME IInv, NEW c \in Cpus, NEW p \in Procs, ForkParent(c, p)
    PROVE  IInv'
<1>. USE ProcAssumption DEF At, Free, GoTo, SwitchOut, ForkParent, tableVars,
   lockVars, cpuVars, threadVars
<1>t. TypeOK
  BY DEF IInv
<1>1. TypeOK'
  BY <1>t DEF IInv, TypeOK, States, PCs, OpenPCs, SpinPCs, ForkInv, ForkPCs
<1>2. CpuInv'
  BY <1>t DEF IInv, TypeOK, CpuInv, PcInv, ForkInv, ForkPCs
<1>3. WaitLockInv'
  BY <1>t DEF IInv, TypeOK, CpuInv, WaitLockInv, PcInv, HoldPCs, OpenPCs
<1>4. PcInv'
  BY <1>t DEF IInv, TypeOK, CpuInv, PcInv, ForkInv, ForkPCs, OpenPCs, SpinPCs
<1>5. ForkInv'
  BY <1>t DEF IInv, TypeOK, CpuInv, PcInv, ForkInv, ForkPCs
<1>6. ParentInv'
  BY <1>t DEF IInv, TypeOK, CpuInv, PcInv, ForkInv, ForkPCs, ParentInv,
     ExitPCs, Live
<1>7. WakeInv'
  BY <1>t DEF IInv, TypeOK, CpuInv, WaitLockInv, HoldPCs, PcInv, ForkInv,
     ForkPCs, ParentInv, ExitPCs, Live, WakeInv, NoZombie, Children
<1>8. NoLostWakeup'
  BY <1>t DEF IInv, TypeOK, CpuInv, WaitLockInv, HoldPCs, PcInv, ForkInv,
     ForkPCs, ParentInv, ExitPCs, Live, WakeInv, NoLostWakeup, NoZombie, Children
<1>9. PidInv'
  BY <1>t DEF IInv, TypeOK, CpuInv, PidInv, PidUnique, ForkInv, ForkPCs
<1>. QED BY <1>1, <1>2, <1>3, <1>4, <1>5, <1>6, <1>7, <1>8, <1>9 DEF IInv

LEMMA ForkRunKeeps ==
    ASSUME IInv, NEW c \in Cpus, NEW p \in Procs, ForkRun(c, p)
    PROVE  IInv'
<1>. USE ProcAssumption DEF At, Free, GoTo, SwitchOut, ForkRun, tableVars,
   lockVars, cpuVars, threadVars
<1>t. TypeOK
  BY DEF IInv
<1>1. TypeOK'
  BY <1>t DEF IInv, TypeOK, States, PCs, OpenPCs, SpinPCs, ForkInv, ForkPCs
<1>2. CpuInv'
  BY <1>t DEF IInv, TypeOK, CpuInv, PcInv, ForkInv, ForkPCs
<1>3. WaitLockInv'
  BY <1>t DEF IInv, TypeOK, CpuInv, WaitLockInv, PcInv, HoldPCs, OpenPCs
<1>4. PcInv'
  BY <1>t DEF IInv, TypeOK, CpuInv, PcInv, ForkInv, ForkPCs, OpenPCs, SpinPCs
<1>5. ForkInv'
  BY <1>t DEF IInv, TypeOK, CpuInv, PcInv, ForkInv, ForkPCs
<1>6. ParentInv'
  BY <1>t DEF IInv, TypeOK, CpuInv, PcInv, ForkInv, ForkPCs, ParentInv,
     ExitPCs, Live
<1>7. WakeInv'
  BY <1>t DEF IInv, TypeOK, CpuInv, WaitLockInv, HoldPCs, PcInv, ForkInv,
     ForkPCs, ParentInv, ExitPCs, Live, WakeInv, NoZombie, Children
<1>8. NoLostWakeup'
  BY <1>t DEF IInv, TypeOK, CpuInv, WaitLockInv, HoldPCs, PcInv, ForkInv,
     ForkPCs, ParentInv, ExitPCs, Live, WakeInv, NoLostWakeup, NoZombie, Children
<1>9. PidInv'
  BY <1>t DEF IInv, TypeOK, CpuInv, PidInv, PidUnique, ForkInv, ForkPCs
<1>. QED BY <1>1, <1>2, <1>3, <1>4, <1>5, <1>6, <1>7, <1>8, <1>9 DEF IInv

LEMMA KillKeeps ==
    ASSUME IInv, NEW c \in Cpus, NEW p \in Procs, NEW q \in Procs, Kill(c, p, q)
    PROVE  IInv'
<1>. USE ProcAssumption DEF At, Free, GoTo, SwitchOut, Kill, Syscall,
   tableVars, lockVars, cpuVars, threadVars
<1>t. TypeOK
  BY DEF IInv
<1>1. TypeOK'
  BY <1>t DEF IInv, TypeOK, States, PCs, OpenPCs, SpinPCs, ForkInv, ForkPCs
<1>2. CpuInv'
  BY <1>t DEF IInv, TypeOK, CpuInv, PcInv, ForkInv, ForkPCs
<1>3. WaitLockInv'
  BY <1>t DEF IInv, TypeOK, CpuInv, WaitLockInv, PcInv, HoldPCs, OpenPCs
<1>4. PcInv'
  BY <1>t DEF IInv, TypeOK, CpuInv, PcInv, ForkInv, ForkPCs, OpenPCs, SpinPCs
<1>5. ForkInv'
  BY <1>t DEF IInv, TypeOK, CpuInv, PcInv, ForkInv, ForkPCs
<1>6. ParentInv'
  BY <1>t DEF IInv, TypeOK, CpuInv, PcInv, ForkInv, ForkPCs, ParentInv,
     ExitPCs, Live
<1>7. WakeInv'
  BY <1>t DEF IInv, TypeOK, CpuInv, WaitLockInv, HoldPCs, PcInv, ForkInv,
     ForkPCs, ParentInv, ExitPCs, Live, WakeInv, NoZombie, Children
<1>8. NoLostWakeup'
  BY <1>t DEF IInv, TypeOK, CpuInv, WaitLockInv, HoldPCs, PcInv, ForkInv,
     ForkPCs, ParentInv, ExitPCs, Live, WakeInv, NoLostWakeup, NoZombie, Children
<1>9. PidInv'
  BY <1>t DEF IInv, TypeOK, CpuInv, PidInv, PidUnique, ForkInv, ForkPCs
<1>. QED BY <1>1, <1>2, <1>3, <1>4, <1>5, <1>6, <1>7, <1>8, <1>9 DEF IInv

LEMMA SetKilledKeeps ==
    ASSUME IInv, NEW c \in Cpus, NEW p \in Procs, SetKilled(c, p)
    PROVE  IInv'
<1>. USE ProcAssumption DEF At, Free, GoTo, SwitchOut, SetKilled, tableVars,
   lockVars, cpuVars, threadVars
<1>t. TypeOK
  BY DEF IInv
<1>1. TypeOK'
  BY <1>t DEF IInv, TypeOK, States, PCs, OpenPCs, SpinPCs, ForkInv, ForkPCs
<1>2. CpuInv'
  BY <1>t DEF IInv, TypeOK, CpuInv, PcInv, ForkInv, ForkPCs
<1>3. WaitLockInv'
  BY <1>t DEF IInv, TypeOK, CpuInv, WaitLockInv, PcInv, HoldPCs, OpenPCs
<1>4. PcInv'
  BY <1>t DEF IInv, TypeOK, CpuInv, PcInv, ForkInv, ForkPCs, OpenPCs, SpinPCs
<1>5. ForkInv'
  BY <1>t DEF IInv, TypeOK, CpuInv, PcInv, ForkInv, ForkPCs
<1>6. ParentInv'
  BY <1>t DEF IInv, TypeOK, CpuInv, PcInv, ForkInv, ForkPCs, ParentInv,
     ExitPCs, Live
<1>7. WakeInv'
  BY <1>t DEF IInv, TypeOK, CpuInv, WaitLockInv, HoldPCs, PcInv, ForkInv,
     ForkPCs, ParentInv, ExitPCs, Live, WakeInv, NoZombie, Children
<1>8. NoLostWakeup'
  BY <1>t DEF IInv, TypeOK, CpuInv, WaitLockInv, HoldPCs, PcInv, ForkInv,
     ForkPCs, ParentInv, ExitPCs, Live, WakeInv, NoLostWakeup, NoZombie, Children
<1>9. PidInv'
  BY <1>t DEF IInv, TypeOK, CpuInv, PidInv, PidUnique, ForkInv, ForkPCs
<1>. QED BY <1>1, <1>2, <1>3, <1>4, <1>5, <1>6, <1>7, <1>8, <1>9 DEF IInv

LEMMA ExitStartKeeps ==
    ASSUME IInv, NEW c \in Cpus, NEW p \in Procs, ExitStart(c, p)
    PROVE  IInv'
<1>. USE ProcAssumption DEF At, Free, GoTo, SwitchOut, ExitStart, tableVars,
   lockVars, cpuVars, threadVars
<1>t. TypeOK
  BY DEF IInv
<1>1. TypeOK'
  BY <1>t DEF IInv, TypeOK, States, PCs, OpenPCs, SpinPCs, ForkInv, ForkPCs
<1>2. CpuInv'
  BY <1>t DEF IInv, TypeOK, CpuInv, PcInv, ForkInv, ForkPCs
<1>3. WaitLockInv'
  BY <1>t DEF IInv, TypeOK, CpuInv, WaitLockInv, PcInv, HoldPCs, OpenPCs
<1>4. PcInv'
  BY <1>t DEF IInv, TypeOK, CpuInv, PcInv, ForkInv, ForkPCs, OpenPCs, SpinPCs
<1>5. ForkInv'
  BY <1>t DEF IInv, TypeOK, CpuInv, PcInv, ForkInv, ForkPCs
<1>6. ParentInv'
  BY <1>t DEF IInv, TypeOK, CpuInv, PcInv, ForkInv, ForkPCs, ParentInv,
     ExitPCs, Live
<1>7. WakeInv'
  BY <1>t DEF IInv, TypeOK, CpuInv, WaitLockInv, HoldPCs, PcInv, ForkInv,
     ForkPCs, ParentInv, ExitPCs, Live, WakeInv, NoZombie, Children
<1>8. NoLostWakeup'
  BY <1>t DEF IInv, TypeOK, CpuInv, WaitLockInv, HoldPCs, PcInv, ForkInv,
     ForkPCs, ParentInv, ExitPCs, Live, WakeInv, NoLostWakeup, NoZombie, Children
<1>9. PidInv'
  BY <1>t DEF IInv, TypeOK, CpuInv, PidInv, PidUnique, ForkInv, ForkPCs
<1>. QED BY <1>1, <1>2, <1>3, <1>4, <1>5, <1>6, <1>7, <1>8, <1>9 DEF IInv

LEMMA ReparentKeeps ==
    ASSUME IInv, NEW c \in Cpus, NEW p \in Procs, Reparent(c, p)
    PROVE  IInv'
<1>. USE ProcAssumption DEF At, Free, GoTo, SwitchOut, Reparent, tableVars,
   lockVars, cpuVars, threadVars
<1>t. TypeOK
  BY DEF IInv
<1>1. TypeOK'
  BY <1>t DEF IInv, TypeOK, States, PCs, OpenPCs, SpinPCs, ForkInv, ForkPCs
<1>2. CpuInv'
  BY <1>t DEF IInv, TypeOK, CpuInv, PcInv, ForkInv, ForkPCs
<1>3. WaitLockInv'
  BY <1>t DEF IInv, TypeOK, CpuInv, WaitLockInv, PcInv, HoldPCs, OpenPCs
<1>4. PcInv'
  BY <1>t DEF IInv, TypeOK, CpuInv, PcInv, ForkInv, ForkPCs, OpenPCs, SpinPCs
<1>5. ForkInv'
  BY <1>t DEF IInv, TypeOK, CpuInv, PcInv, ForkInv, ForkPCs
<1>6. ParentInv'
  BY <1>t DEF IInv, TypeOK, CpuInv, PcInv, ForkInv, ForkPCs, ParentInv,
     ExitPCs, Live
<1>7. WakeInv'
  <2>1. \A r \in Procs : pc[r] \notin {"wake_init", "wake_parent"}
    BY <1>t DEF IInv, TypeOK, States, CpuInv, WaitLockInv, PcInv, HoldPCs,
       OpenPCs
  <2>2. p # InitProc /\ pc'[p] \in {"wake_init", "wake_parent"}
    BY <1>t DEF IInv, TypeOK, ParentInv, ExitPCs
  <2>3. \A r \in Procs : r # p => pc'[r] = pc[r]
    BY <1>t DEF TypeOK
  <2>4. (\A r \in Procs : pc[r] = "wake_parent" /\ parent[r] \notin todo[r] =>
            state[parent[r]] # "SLEEPING")'
    <3>. SUFFICES ASSUME parent'[p] \notin todo'[p] PROVE state'[parent'[p]] # "SLEEPING"
      BY <2>1, <2>2, <2>3
    <3>1. parent[p] \in Procs /\ parent[p] # p
      BY <1>t DEF IInv, TypeOK, CpuInv, ParentInv, ExitPCs, Live
    <3>2. parent'[p] = parent[p] /\ todo'[p] = Procs \ {p}
      BY <1>t, <3>1 DEF TypeOK
    <3>. QED BY <3>1, <3>2
  <2>5. (\A r \in Procs : pc[r] = "wake_init" /\ InitProc \notin todo[r] =>
            state[InitProc] # "SLEEPING")'
    BY <1>t, <2>1, <2>2, <2>3 DEF TypeOK
  <2>6. (\A d \in Cpus : onstack[d] # NoProc /\ plock[onstack[d]] # d
            /\ pc[onstack[d]] = "wait_sleep" => NoZombie(onstack[d]))'
    <3>1. \A d \in Cpus : onstack[d] # NoProc /\ plock[onstack[d]] # d =>
             pc[onstack[d]] # "wait_sleep"
      BY <1>t DEF IInv, TypeOK, WaitLockInv, HoldPCs
    <3>. QED BY <1>t, <2>2, <2>3, <3>1 DEF TypeOK
  <2>. QED BY <2>4, <2>5, <2>6 DEF WakeInv
<1>8. NoLostWakeup'
  BY <1>t DEF IInv, TypeOK, CpuInv, WaitLockInv, HoldPCs, PcInv, ForkInv,
     ForkPCs, ParentInv, ExitPCs, Live, WakeInv, NoLostWakeup, NoZombie, Children
<1>9. PidInv'
  BY <1>t DEF IInv, TypeOK, CpuInv, PidInv, PidUnique, ForkInv, ForkPCs
<1>. QED BY <1>1, <1>2, <1>3, <1>4, <1>5, <1>6, <1>7, <1>8, <1>9 DEF IInv

LEMMA WakeupVisitKeeps ==
    ASSUME IInv, NEW c \in Cpus, NEW p \in Procs, NEW q \in Procs, WakeupVisit(c, p, q)
    PROVE  IInv'
<1>. USE ProcAssumption DEF At, Free, GoTo, SwitchOut, WakeupVisit, WakeChan,
   tableVars, lockVars, cpuVars, threadVars
<1>t. TypeOK
  BY DEF IInv
<1>1. TypeOK'
  BY <1>t DEF IInv, TypeOK, States, PCs, OpenPCs, SpinPCs, ForkInv, ForkPCs
<1>2. CpuInv'
  BY <1>t DEF IInv, TypeOK, CpuInv, PcInv, ForkInv, ForkPCs
<1>3. WaitLockInv'
  BY <1>t DEF IInv, TypeOK, CpuInv, WaitLockInv, PcInv, HoldPCs, OpenPCs
<1>4. PcInv'
  BY <1>t DEF IInv, TypeOK, CpuInv, PcInv, ForkInv, ForkPCs, OpenPCs, SpinPCs
<1>5. ForkInv'
  BY <1>t DEF IInv, TypeOK, CpuInv, PcInv, ForkInv, ForkPCs
<1>6. ParentInv'
  BY <1>t DEF IInv, TypeOK, CpuInv, PcInv, ForkInv, ForkPCs, ParentInv,
     ExitPCs, Live
<1>7. WakeInv'
  BY <1>t DEF IInv, TypeOK, CpuInv, WaitLockInv, HoldPCs, PcInv, ForkInv,
     ForkPCs, ParentInv, ExitPCs, Live, WakeInv, NoZombie, Children
<1>8. NoLostWakeup'
  BY <1>t DEF IInv, TypeOK, CpuInv, WaitLockInv, HoldPCs, PcInv, ForkInv,
     ForkPCs, ParentInv, ExitPCs, Live, WakeInv, NoLostWakeup, NoZombie, Children
<1>9. PidInv'
  BY <1>t DEF IInv, TypeOK, CpuInv, PidInv, PidUnique, ForkInv, ForkPCs
<1>. QED BY <1>1, <1>2, <1>3, <1>4, <1>5, <1>6, <1>7, <1>8, <1>9 DEF IInv

LEMMA WakeupParentKeeps ==
    ASSUME IInv, NEW c \in Cpus, NEW p \in Procs, WakeupParent(c, p)
    PROVE  IInv'
<1>. USE ProcAssumption DEF At, Free, GoTo, SwitchOut, WakeupParent, tableVars,
   lockVars, cpuVars, threadVars
<1>t. TypeOK
  BY DEF IInv
<1>1. TypeOK'
  BY <1>t DEF IInv, TypeOK, States, PCs, OpenPCs, SpinPCs, ForkInv, ForkPCs
<1>2. CpuInv'
  BY <1>t DEF IInv, TypeOK, CpuInv, PcInv, ForkInv, ForkPCs
<1>3. WaitLockInv'
  BY <1>t DEF IInv, TypeOK, CpuInv, WaitLockInv, PcInv, HoldPCs, OpenPCs
<1>4. PcInv'
  BY <1>t DEF IInv, TypeOK, CpuInv, PcInv, ForkInv, ForkPCs, OpenPCs, SpinPCs
<1>5. ForkInv'
  BY <1>t DEF IInv, TypeOK, CpuInv, PcInv, ForkInv, ForkPCs
<1>6. ParentInv'
  BY <1>t DEF IInv, TypeOK, CpuInv, PcInv, ForkInv, ForkPCs, ParentInv,
     ExitPCs, Live
<1>7. WakeInv'
  BY <1>t DEF IInv, TypeOK, CpuInv, WaitLockInv, HoldPCs, PcInv, ForkInv,
     ForkPCs, ParentInv, ExitPCs, Live, WakeInv, NoZombie, Children
<1>8. NoLostWakeup'
  BY <1>t DEF IInv, TypeOK, CpuInv, WaitLockInv, HoldPCs, PcInv, ForkInv,
     ForkPCs, ParentInv, ExitPCs, Live, WakeInv, NoLostWakeup, NoZombie, Children
<1>9. PidInv'
  BY <1>t DEF IInv, TypeOK, CpuInv, PidInv, PidUnique, ForkInv, ForkPCs
<1>. QED BY <1>1, <1>2, <1>3, <1>4, <1>5, <1>6, <1>7, <1>8, <1>9 DEF IInv

LEMMA ZombieKeeps ==
    ASSUME IInv, NEW c \in Cpus, NEW p \in Procs, Zombie(c, p)
    PROVE  IInv'
<1>. USE ProcAssumption DEF At, Free, GoTo, SwitchOut, Zombie, tableVars,
   lockVars, cpuVars, threadVars
<1>t. TypeOK
  BY DEF IInv
<1>1. TypeOK'
  BY <1>t DEF IInv, TypeOK, States, PCs, OpenPCs, SpinPCs, ForkInv, ForkPCs
<1>2. CpuInv'
  BY <1>t DEF IInv, TypeOK, CpuInv, PcInv, ForkInv, ForkPCs
<1>3. WaitLockInv'
  BY <1>t DEF IInv, TypeOK, CpuInv, WaitLockInv, PcInv, HoldPCs, OpenPCs
<1>4. PcInv'
  BY <1>t DEF IInv, TypeOK, CpuInv, PcInv, ForkInv, ForkPCs, OpenPCs, SpinPCs
<1>5. ForkInv'
  BY <1>t DEF IInv, TypeOK, CpuInv, PcInv, ForkInv, ForkPCs
<1>6. ParentInv'
  BY <1>t DEF IInv, TypeOK, CpuInv, PcInv, ForkInv, ForkPCs, ParentInv,
     ExitPCs, Live
<1>7. WakeInv'
  BY <1>t DEF IInv, TypeOK, CpuInv, WaitLockInv, HoldPCs, PcInv, ForkInv,
     ForkPCs, ParentInv, ExitPCs, Live, WakeInv, NoZombie, Children
<1>8. NoLostWakeup'
  BY <1>t DEF IInv, TypeOK, CpuInv, WaitLockInv, HoldPCs, PcInv, ForkInv,
     ForkPCs, ParentInv, ExitPCs, Live, WakeInv, NoLostWakeup, NoZombie, Children
<1>9. PidInv'
  BY <1>t DEF IInv, TypeOK, CpuInv, PidInv, PidUnique, ForkInv, ForkPCs
<1>. QED BY <1>1, <1>2, <1>3, <1>4, <1>5, <1>6, <1>7, <1>8, <1>9 DEF IInv

LEMMA WaitStartKeeps ==
    ASSUME IInv, NEW c \in Cpus, NEW p \in Procs, WaitStart(c, p)
    PROVE  IInv'
<1>. USE ProcAssumption DEF At, Free, GoTo, SwitchOut, WaitStart, Syscall,
   tableVars, lockVars, cpuVars, threadVars
<1>t. TypeOK
  BY DEF IInv
<1>1. TypeOK'
  BY <1>t DEF IInv, TypeOK, States, PCs, OpenPCs, SpinPCs, ForkInv, ForkPCs
<1>2. CpuInv'
  BY <1>t DEF IInv, TypeOK, CpuInv, PcInv, ForkInv, ForkPCs
<1>3. WaitLockInv'
  BY <1>t DEF IInv, TypeOK, CpuInv, WaitLockInv, PcInv, HoldPCs, OpenPCs
<1>4. PcInv'
  BY <1>t DEF IInv, TypeOK, CpuInv, PcInv, ForkInv, ForkPCs, OpenPCs, SpinPCs
<1>5. ForkInv'
  BY <1>t DEF IInv, TypeOK, CpuInv, PcInv, ForkInv, ForkPCs
<1>6. ParentInv'
  BY <1>t DEF IInv, TypeOK, CpuInv, PcInv, ForkInv, ForkPCs, ParentInv,
     ExitPCs, Live
<1>7. WakeInv'
  BY <1>t DEF IInv, TypeOK, CpuInv, WaitLockInv, HoldPCs, PcInv, ForkInv,
     ForkPCs, ParentInv, ExitPCs, Live, WakeInv, NoZombie, Children
<1>8. NoLostWakeup'
  BY <1>t DEF IInv, TypeOK, CpuInv, WaitLockInv, HoldPCs, PcInv, ForkInv,
     ForkPCs, ParentInv, ExitPCs, Live, WakeInv, NoLostWakeup, NoZombie, Children
<1>9. PidInv'
  BY <1>t DEF IInv, TypeOK, CpuInv, PidInv, PidUnique, ForkInv, ForkPCs
<1>. QED BY <1>1, <1>2, <1>3, <1>4, <1>5, <1>6, <1>7, <1>8, <1>9 DEF IInv

LEMMA WaitLockKeeps ==
    ASSUME IInv, NEW c \in Cpus, NEW p \in Procs, WaitLock(c, p)
    PROVE  IInv'
<1>. USE ProcAssumption DEF At, Free, GoTo, SwitchOut, WaitLock, tableVars,
   lockVars, cpuVars, threadVars
<1>t. TypeOK
  BY DEF IInv
<1>1. TypeOK'
  BY <1>t DEF IInv, TypeOK, States, PCs, OpenPCs, SpinPCs, ForkInv, ForkPCs
<1>2. CpuInv'
  BY <1>t DEF IInv, TypeOK, CpuInv, PcInv, ForkInv, ForkPCs
<1>3. WaitLockInv'
  BY <1>t DEF IInv, TypeOK, CpuInv, WaitLockInv, PcInv, HoldPCs, OpenPCs
<1>4. PcInv'
  BY <1>t DEF IInv, TypeOK, CpuInv, PcInv, ForkInv, ForkPCs, OpenPCs, SpinPCs
<1>5. ForkInv'
  BY <1>t DEF IInv, TypeOK, CpuInv, PcInv, ForkInv, ForkPCs
<1>6. ParentInv'
  BY <1>t DEF IInv, TypeOK, CpuInv, PcInv, ForkInv, ForkPCs, ParentInv,
     ExitPCs, Live
<1>7. WakeInv'
  BY <1>t DEF IInv, TypeOK, CpuInv, WaitLockInv, HoldPCs, PcInv, ForkInv,
     ForkPCs, ParentInv, ExitPCs, Live, WakeInv, NoZombie, Children
<1>8. NoLostWakeup'
  BY <1>t DEF IInv, TypeOK, CpuInv, WaitLockInv, HoldPCs, PcInv, ForkInv,
     ForkPCs, ParentInv, ExitPCs, Live, WakeInv, NoLostWakeup, NoZombie, Children
<1>9. PidInv'
  BY <1>t DEF IInv, TypeOK, CpuInv, PidInv, PidUnique, ForkInv, ForkPCs
<1>. QED BY <1>1, <1>2, <1>3, <1>4, <1>5, <1>6, <1>7, <1>8, <1>9 DEF IInv

LEMMA WaitReapKeeps ==
    ASSUME IInv, NEW c \in Cpus, NEW p \in Procs, NEW q \in Procs, WaitReap(c, p, q)
    PROVE  IInv'
<1>. USE ProcAssumption DEF At, Free, GoTo, SwitchOut, WaitReap, FreeProc,
   WaitReturn, tableVars, lockVars, cpuVars, threadVars
<1>t. TypeOK
  BY DEF IInv
<1>1. TypeOK'
  BY <1>t DEF IInv, TypeOK, States, PCs, OpenPCs, SpinPCs, ForkInv, ForkPCs
<1>2. CpuInv'
  BY <1>t DEF IInv, TypeOK, CpuInv, PcInv, ForkInv, ForkPCs
<1>3. WaitLockInv'
  BY <1>t DEF IInv, TypeOK, CpuInv, WaitLockInv, PcInv, HoldPCs, OpenPCs
<1>4. PcInv'
  BY <1>t DEF IInv, TypeOK, CpuInv, PcInv, ForkInv, ForkPCs, OpenPCs, SpinPCs
<1>5. ForkInv'
  BY <1>t DEF IInv, TypeOK, CpuInv, PcInv, ForkInv, ForkPCs
<1>6. ParentInv'
  BY <1>t DEF IInv, TypeOK, CpuInv, PcInv, ForkInv, ForkPCs, ParentInv,
     ExitPCs, Live
<1>7. WakeInv'
  BY <1>t DEF IInv, TypeOK, CpuInv, WaitLockInv, HoldPCs, PcInv, ForkInv,
     ForkPCs, ParentInv, ExitPCs, Live, WakeInv, NoZombie, Children
<1>8. NoLostWakeup'
  BY <1>t DEF IInv, TypeOK, CpuInv, WaitLockInv, HoldPCs, PcInv, ForkInv,
     ForkPCs, ParentInv, ExitPCs, Live, WakeInv, NoLostWakeup, NoZombie, Children
<1>9. PidInv'
  BY <1>t DEF IInv, TypeOK, CpuInv, PidInv, PidUnique, ForkInv, ForkPCs
<1>. QED BY <1>1, <1>2, <1>3, <1>4, <1>5, <1>6, <1>7, <1>8, <1>9 DEF IInv

LEMMA WaitCopyFailKeeps ==
    ASSUME IInv, NEW c \in Cpus, NEW p \in Procs, NEW q \in Procs, WaitCopyFail(c, p, q)
    PROVE  IInv'
<1>. USE ProcAssumption DEF At, Free, GoTo, SwitchOut, WaitCopyFail,
   WaitReturn, tableVars, lockVars, cpuVars, threadVars
<1>t. TypeOK
  BY DEF IInv
<1>1. TypeOK'
  BY <1>t DEF IInv, TypeOK, States, PCs, OpenPCs, SpinPCs, ForkInv, ForkPCs
<1>2. CpuInv'
  BY <1>t DEF IInv, TypeOK, CpuInv, PcInv, ForkInv, ForkPCs
<1>3. WaitLockInv'
  BY <1>t DEF IInv, TypeOK, CpuInv, WaitLockInv, PcInv, HoldPCs, OpenPCs
<1>4. PcInv'
  BY <1>t DEF IInv, TypeOK, CpuInv, PcInv, ForkInv, ForkPCs, OpenPCs, SpinPCs
<1>5. ForkInv'
  BY <1>t DEF IInv, TypeOK, CpuInv, PcInv, ForkInv, ForkPCs
<1>6. ParentInv'
  BY <1>t DEF IInv, TypeOK, CpuInv, PcInv, ForkInv, ForkPCs, ParentInv,
     ExitPCs, Live
<1>7. WakeInv'
  BY <1>t DEF IInv, TypeOK, CpuInv, WaitLockInv, HoldPCs, PcInv, ForkInv,
     ForkPCs, ParentInv, ExitPCs, Live, WakeInv, NoZombie, Children
<1>8. NoLostWakeup'
  BY <1>t DEF IInv, TypeOK, CpuInv, WaitLockInv, HoldPCs, PcInv, ForkInv,
     ForkPCs, ParentInv, ExitPCs, Live, WakeInv, NoLostWakeup, NoZombie, Children
<1>9. PidInv'
  BY <1>t DEF IInv, TypeOK, CpuInv, PidInv, PidUnique, ForkInv, ForkPCs
<1>. QED BY <1>1, <1>2, <1>3, <1>4, <1>5, <1>6, <1>7, <1>8, <1>9 DEF IInv

LEMMA WaitNothingKeeps ==
    ASSUME IInv, NEW c \in Cpus, NEW p \in Procs, WaitNothing(c, p)
    PROVE  IInv'
<1>. USE ProcAssumption DEF At, Free, GoTo, SwitchOut, WaitNothing, WaitReturn,
   tableVars, lockVars, cpuVars, threadVars
<1>t. TypeOK
  BY DEF IInv
<1>1. TypeOK'
  BY <1>t DEF IInv, TypeOK, States, PCs, OpenPCs, SpinPCs, ForkInv, ForkPCs
<1>2. CpuInv'
  BY <1>t DEF IInv, TypeOK, CpuInv, PcInv, ForkInv, ForkPCs
<1>3. WaitLockInv'
  BY <1>t DEF IInv, TypeOK, CpuInv, WaitLockInv, PcInv, HoldPCs, OpenPCs
<1>4. PcInv'
  BY <1>t DEF IInv, TypeOK, CpuInv, PcInv, ForkInv, ForkPCs, OpenPCs, SpinPCs
<1>5. ForkInv'
  BY <1>t DEF IInv, TypeOK, CpuInv, PcInv, ForkInv, ForkPCs
<1>6. ParentInv'
  BY <1>t DEF IInv, TypeOK, CpuInv, PcInv, ForkInv, ForkPCs, ParentInv,
     ExitPCs, Live
<1>7. WakeInv'
  BY <1>t DEF IInv, TypeOK, CpuInv, WaitLockInv, HoldPCs, PcInv, ForkInv,
     ForkPCs, ParentInv, ExitPCs, Live, WakeInv, NoZombie, Children
<1>8. NoLostWakeup'
  BY <1>t DEF IInv, TypeOK, CpuInv, WaitLockInv, HoldPCs, PcInv, ForkInv,
     ForkPCs, ParentInv, ExitPCs, Live, WakeInv, NoLostWakeup, NoZombie, Children
<1>9. PidInv'
  BY <1>t DEF IInv, TypeOK, CpuInv, PidInv, PidUnique, ForkInv, ForkPCs
<1>. QED BY <1>1, <1>2, <1>3, <1>4, <1>5, <1>6, <1>7, <1>8, <1>9 DEF IInv

LEMMA WaitDecideKeeps ==
    ASSUME IInv, NEW c \in Cpus, NEW p \in Procs, WaitDecide(c, p)
    PROVE  IInv'
<1>. USE ProcAssumption DEF At, Free, GoTo, SwitchOut, WaitDecide, tableVars,
   lockVars, cpuVars, threadVars
<1>t. TypeOK
  BY DEF IInv
<1>1. TypeOK'
  BY <1>t DEF IInv, TypeOK, States, PCs, OpenPCs, SpinPCs, ForkInv, ForkPCs
<1>2. CpuInv'
  BY <1>t DEF IInv, TypeOK, CpuInv, PcInv, ForkInv, ForkPCs
<1>3. WaitLockInv'
  BY <1>t DEF IInv, TypeOK, CpuInv, WaitLockInv, PcInv, HoldPCs, OpenPCs
<1>4. PcInv'
  BY <1>t DEF IInv, TypeOK, CpuInv, PcInv, ForkInv, ForkPCs, OpenPCs, SpinPCs
<1>5. ForkInv'
  BY <1>t DEF IInv, TypeOK, CpuInv, PcInv, ForkInv, ForkPCs
<1>6. ParentInv'
  BY <1>t DEF IInv, TypeOK, CpuInv, PcInv, ForkInv, ForkPCs, ParentInv,
     ExitPCs, Live
<1>7. WakeInv'
  BY <1>t DEF IInv, TypeOK, CpuInv, WaitLockInv, HoldPCs, PcInv, ForkInv,
     ForkPCs, ParentInv, ExitPCs, Live, WakeInv, NoZombie, Children
<1>8. NoLostWakeup'
  BY <1>t DEF IInv, TypeOK, CpuInv, WaitLockInv, HoldPCs, PcInv, ForkInv,
     ForkPCs, ParentInv, ExitPCs, Live, WakeInv, NoLostWakeup, NoZombie, Children
<1>9. PidInv'
  BY <1>t DEF IInv, TypeOK, CpuInv, PidInv, PidUnique, ForkInv, ForkPCs
<1>. QED BY <1>1, <1>2, <1>3, <1>4, <1>5, <1>6, <1>7, <1>8, <1>9 DEF IInv

LEMMA WaitSleepKeeps ==
    ASSUME IInv, NEW c \in Cpus, NEW p \in Procs, WaitSleep(c, p)
    PROVE  IInv'
<1>. USE ProcAssumption DEF At, Free, GoTo, SwitchOut, WaitSleep, tableVars,
   lockVars, cpuVars, threadVars
<1>t. TypeOK
  BY DEF IInv
<1>1. TypeOK'
  BY <1>t DEF IInv, TypeOK, States, PCs, OpenPCs, SpinPCs, ForkInv, ForkPCs
<1>2. CpuInv'
  BY <1>t DEF IInv, TypeOK, CpuInv, PcInv, ForkInv, ForkPCs
<1>3. WaitLockInv'
  BY <1>t DEF IInv, TypeOK, CpuInv, WaitLockInv, PcInv, HoldPCs, OpenPCs
<1>4. PcInv'
  BY <1>t DEF IInv, TypeOK, CpuInv, PcInv, ForkInv, ForkPCs, OpenPCs, SpinPCs
<1>5. ForkInv'
  BY <1>t DEF IInv, TypeOK, CpuInv, PcInv, ForkInv, ForkPCs
<1>6. ParentInv'
  BY <1>t DEF IInv, TypeOK, CpuInv, PcInv, ForkInv, ForkPCs, ParentInv,
     ExitPCs, Live
<1>7. WakeInv'
  <2>1. \A r \in Procs : pc[r] \notin {"wake_init", "wake_parent"}
    BY <1>t DEF IInv, TypeOK, States, CpuInv, WaitLockInv, PcInv, HoldPCs,
       OpenPCs
  <2>2. pc' = pc /\ parent' = parent /\ onstack'[c] = NoProc /\ state'[p] = "SLEEPING"
    BY <1>t DEF TypeOK
  <2>3. (\A d \in Cpus : onstack[d] # NoProc /\ plock[onstack[d]] # d
            /\ pc[onstack[d]] = "wait_sleep" => NoZombie(onstack[d]))'
    <3>1. \A d \in Cpus : d # c /\ onstack[d] # NoProc /\ plock[onstack[d]] # d =>
             pc[onstack[d]] # "wait_sleep"
      BY <1>t DEF IInv, TypeOK, WaitLockInv, HoldPCs
    <3>2. \A d \in Cpus : d # c => onstack'[d] = onstack[d] /\ onstack[d] # p
      BY <1>t DEF IInv, TypeOK, CpuInv
    <3>. QED BY <1>t, <2>2, <3>1, <3>2 DEF TypeOK
  <2>. QED BY <2>1, <2>2, <2>3 DEF WakeInv
<1>8. NoLostWakeup'
  BY <1>t DEF IInv, TypeOK, CpuInv, WaitLockInv, HoldPCs, PcInv, ForkInv,
     ForkPCs, ParentInv, ExitPCs, Live, WakeInv, NoLostWakeup, NoZombie, Children
<1>9. PidInv'
  BY <1>t DEF IInv, TypeOK, CpuInv, PidInv, PidUnique, ForkInv, ForkPCs
<1>. QED BY <1>1, <1>2, <1>3, <1>4, <1>5, <1>6, <1>7, <1>8, <1>9 DEF IInv

-----------------------------------------------------------------------------
(* The theorems.                                                           *)

\* procinit() and userinit() establish the inductive invariant.
LEMMA InitKeeps == Init => IInv
<1>. SUFFICES ASSUME Init PROVE IInv
  OBVIOUS
<1>. USE ProcAssumption DEF Init
<1>1. TypeOK
  BY DEF TypeOK, States, PCs, OpenPCs
<1>2. CpuInv /\ WaitLockInv
  BY DEF CpuInv, WaitLockInv
<1>3. PcInv /\ ForkInv /\ ParentInv
  BY DEF PcInv, OpenPCs, ForkInv, ForkPCs, ParentInv, ExitPCs, Live
<1>4. WakeInv /\ NoLostWakeup
  BY DEF WakeInv, NoLostWakeup
<1>5. PidInv
  BY DEF PidInv, PidUnique
<1>. QED BY <1>1, <1>2, <1>3, <1>4, <1>5 DEF IInv

\* Every step of every CPU and process keeps it.
LEMMA NextKeeps == IInv /\ [Next]_vars => IInv'
<1>. SUFFICES ASSUME IInv, [Next]_vars PROVE IInv'
  OBVIOUS
<1>1. ASSUME NEW c \in Cpus, SchedBack(c) PROVE IInv'
  BY <1>1, SchedBackKeeps
<1>2. ASSUME NEW c \in Cpus, NEW p \in Procs,
             SchedRun(c, p) \/ Resume(c, p) \/ Yield(c, p) \/ Spin(c, p)
      PROVE  IInv'
  BY <1>2, SchedRunKeeps, ResumeKeeps, YieldKeeps, SpinKeeps
<1>3. ASSUME NEW c \in Cpus, NEW p \in Procs, ForkStep(c, p) PROVE IInv'
  BY <1>3, ForkAllocKeeps, ForkFailKeeps, ForkParentKeeps, ForkRunKeeps DEF
     ForkStep
<1>4. ASSUME NEW c \in Cpus, NEW p \in Procs, ExitStep(c, p) PROVE IInv'
  BY <1>4, ExitStartKeeps, ReparentKeeps, WakeupVisitKeeps, WakeupParentKeeps,
     ZombieKeeps
     DEF ExitStep
<1>5. ASSUME NEW c \in Cpus, NEW p \in Procs, WaitStep(c, p) PROVE IInv'
  BY <1>5, WaitStartKeeps, WaitLockKeeps, WaitReapKeeps, WaitCopyFailKeeps,
     WaitNothingKeeps, WaitDecideKeeps, WaitSleepKeeps DEF WaitStep
<1>6. ASSUME NEW c \in Cpus, NEW p \in Procs, KillStep(c, p) PROVE IInv'
  BY <1>6, KillKeeps, SetKilledKeeps DEF KillStep
<1>7. CASE UNCHANGED vars
  <2>. USE <1>7 DEF vars, tableVars, lockVars, cpuVars, threadVars
  <2>1. TypeOK' /\ CpuInv' /\ WaitLockInv' /\ PcInv'
    BY DEF IInv, TypeOK, CpuInv, WaitLockInv, PcInv
  <2>2. ForkInv' /\ ParentInv'
    BY DEF IInv, ForkInv, ParentInv
  <2>3. WakeInv' /\ NoLostWakeup' /\ PidInv'
    BY DEF IInv, WakeInv, NoLostWakeup, PidInv, PidUnique, NoZombie, Children
  <2>. QED BY <2>1, <2>2, <2>3 DEF IInv
<1>. QED
  BY <1>1, <1>2, <1>3, <1>4, <1>5, <1>6, <1>7 DEF Next, ProcStep

\* The inductive invariant holds in every reachable state.
THEOREM ProcInductive == Spec => []IInv
  BY InitKeeps, NextKeeps, PTL DEF Spec

\* The process table, the locks and the CPUs keep their types.
THEOREM ProcTypeOK == Spec => []TypeOK
  BY ProcInductive, PTL DEF IInv

\* scheduler() and sched() never put two CPUs on one kernel stack.
THEOREM ProcOneCpuPerStack == Spec => []OneCpuPerStack
<1>1. IInv => OneCpuPerStack
  BY ProcAssumption DEF IInv, CpuInv, OneCpuPerStack
<1>. QED BY <1>1, ProcInductive, PTL

\* wait() never frees a process whose stack a CPU is still on.
THEOREM ProcStackNotFreed == Spec => []StackNotFreed
<1>1. IInv => StackNotFreed
  BY DEF IInv, CpuInv, StackNotFreed
<1>. QED BY <1>1, ProcInductive, PTL

\* Every process has a live parent, whatever exits.
THEOREM ProcParentAlive == Spec => []ParentAlive
<1>1. IInv => ParentAlive
  BY DEF IInv, TypeOK, States, ParentInv, Live, ParentAlive
<1>. QED BY <1>1, ProcInductive, PTL

\* No wakeup of a parent in wait() is lost.
THEOREM ProcNoLostWakeup == Spec => []NoLostWakeup
<1>1. IInv => NoLostWakeup
  BY DEF IInv
<1>. QED BY <1>1, ProcInductive, PTL

\* Pids name processes.
THEOREM ProcPidUnique == Spec => []PidUnique
<1>1. IInv => PidUnique
  BY DEF IInv, PidInv
<1>. QED BY <1>1, ProcInductive, PTL

\* The scheduler is never entered with wait_lock.
THEOREM ProcSchedHoldsNoWaitLock == Spec => []SchedHoldsNoWaitLock
<1>1. IInv => SchedHoldsNoWaitLock
  BY DEF IInv, WaitLockInv, SchedHoldsNoWaitLock
<1>. QED BY <1>1, ProcInductive, PTL

-----------------------------------------------------------------------------
(***************************************************************************)
(* User memory.  The proof about Vm: what page tables map, for any number  *)
(* of processes and pages, any page size, programs and arguments of sbrk().*)
(*                                                                         *)
(* The argument.  A call works on the tables of one process: a new one,    *)
(* which is USED and has no other builder, or the caller itself, which is  *)
(* RUNNABLE (JobInv).  So the tables of everybody else stay as they are.   *)
(* The table that is built maps exactly the pages below va and the two at  *)
(* the top (TableInv), whichever allocation of the loop fails next; that   *)
(* is why giving back from..va-1 leaves what was there before.             *)
(***************************************************************************)
JobFields == {"op", "q", "which", "stage", "from", "va", "end", "mem", "argv", "size", "segs", "stack"}
Top == {M!TRAMPOLINE, M!TRAPFRAME}
Segments == Seq([vaddr : Nat, end : Nat])

InLoop(p) == mpc[p] \in {"kalloc", "map", "failed"}
InCall(p) == InLoop(p) \/ mpc[p] \in {"mapped", "argv", "segment", "commit", "bad"}
Own(p) == <<p, "proc">>

\* t maps n pages of a program and, at the top, the trampoline and the trapframe tf.
Maps(t, n, tf) ==
    /\ DOMAIN t.leaf = (0..n - 1) \cup Top /\ (0..n - 1) \cap Top = {}
    /\ t.leaf[M!TRAPFRAME].pa = tf

ShapeInv ==
    /\ mstate \in [Tasks -> {"UNUSED", "USED", "RUNNABLE", "ZOMBIE"}]
    /\ mpc \in [Tasks -> M!PCs] /\ sz \in [Tasks -> Nat]
    /\ DOMAIN trapframe = Tasks /\ DOMAIN job = Tasks
    /\ DOMAIN pt = M!Tables /\ \A t \in M!Tables : DOMAIN pt[t] = {"root", "tables", "leaf"}

\* Whose memory p's call is about
New(p) == job[p].op \in {"userinit", "fork"}

JobInv(p) ==
    InCall(p) =>
    /\ DOMAIN job[p] = JobFields /\ job[p].q \in Tasks
    /\ job[p].from \in Nat /\ job[p].va \in Int /\ job[p].end \in Nat /\ job[p].size \in Nat
    /\ job[p].segs \in Segments
    /\ job[p].stage \in {"trapframe", "root", "trampoline", "trapframe_va", "page"}
    /\ job[p].op \in {"userinit", "fork", "sbrk", "exec"}
    /\ New(p) =>
          /\ job[p].which = "proc" /\ mstate[job[p].q] = "USED" /\ job[p].from = 0
          /\ InLoop(p) \/ mpc[p] = "mapped"
    /\ job[p].op = "userinit" => job[p].q = p
    /\ job[p].op = "fork" => mstate[p] = "RUNNABLE" /\ job[p].end = sz[p]
    /\ job[p].op = "sbrk" =>
          /\ job[p].which = "proc" /\ job[p].q = p /\ mstate[p] = "RUNNABLE"
          /\ job[p].stage = "page" /\ job[p].from = M!Pages(sz[p])
          /\ InLoop(p) \/ mpc[p] = "mapped"
    /\ job[p].op = "exec" =>
          /\ job[p].which = "exec" /\ job[p].q = p /\ mstate[p] = "RUNNABLE"
          /\ InLoop(p) /\ job[p].stage = "page" => job[p].from = M!Pages(job[p].size)
          /\ job[p].stage # "trapframe" /\ (job[p].stage # "page" => job[p].size = 0)
          /\ job[p].stack = TRUE =>
                job[p].stage = "page" /\ mpc[p] # "segment" /\ M!Pages(job[p].end) >= 2

\* The table it builds
TableInv(p) ==
    LET j == job[p]
        t == pt[M!Target(p)]
        tf == trapframe[job[p].q]
    IN InCall(p) =>
    /\ j.stage \in {"trapframe", "root"} => mpc[p] \in {"kalloc", "failed", "argv"}
    /\ j.stage = "trampoline" => mpc[p] \in {"map", "failed"} /\ j.va = M!TRAMPOLINE /\ DOMAIN t.leaf = {}
    /\ j.stage = "trapframe_va" =>
          mpc[p] \in {"map", "failed"} /\ j.va = M!TRAPFRAME /\ DOMAIN t.leaf = {M!TRAMPOLINE}
    /\ j.stage = "page" => mpc[p] # "argv"
    /\ j.stage = "page" /\ InLoop(p) => Maps(t, j.va, tf) /\ j.from <= j.va /\ j.va * PGSIZE < j.end
    /\ mpc[p] = "mapped" => Maps(t, M!Pages(j.end), tf)
    /\ mpc[p] \in {"segment", "commit", "bad"} => Maps(t, M!Pages(j.size), tf)
    /\ mpc[p] \in {"argv", "segment", "commit", "bad"} => j.op = "exec"

\* What exec() loads a segment into
LoadInv(p) ==
    InCall(p) /\ job[p].op = "exec" /\ job[p].stage = "page" /\ ~ job[p].stack =>
    /\ \A v \in DOMAIN pt[M!Target(p)].leaf \ Top : pt[M!Target(p)].leaf[v].u = TRUE
    /\ InLoop(p) \/ mpc[p] = "mapped" => job[p].segs # <<>> /\ Head(job[p].segs).end <= job[p].end

\* The memory of a process that is not in sbrk()
SizeInv(p) ==
    /\ mstate[p] \in {"RUNNABLE", "ZOMBIE"} /\ mpc[p] # "panic" /\ ~ (InCall(p) /\ job[p].op = "sbrk") =>
          Maps(pt[Own(p)], M!Pages(sz[p]), trapframe[p])
    /\ mstate[p] \in {"UNUSED", "USED"} => sz[p] = 0
    /\ mstate[p] = "ZOMBIE" => mpc[p] = "user"

\* The only panic: the program has grown up to the trapframe.
OnlyFull(p) == mpc[p] = "panic" => job[p].va \in Top

RowInv(p) == JobInv(p) /\ TableInv(p) /\ LoadInv(p) /\ SizeInv(p) /\ OnlyFull(p)

\* A new process has one builder.
BuilderInv ==
    \A p, q \in Tasks : InCall(p) /\ InCall(q) /\ New(p) /\ New(q) /\ job[p].q = job[q].q => p = q

BootInv ==
    \A p \in Tasks : mpc[p] = "boot" =>
        p = InitTask /\ \A q \in Tasks : mstate[q] = "UNUSED" /\ ~ InCall(q)

VmIInv == ShapeInv /\ BuilderInv /\ BootInv /\ \A p \in Tasks : RowInv(p)

-----------------------------------------------------------------------------
(* Bytes and pages.                                                        *)

LEMMA Consts ==
  ASSUME M!VmAssumption
  PROVE  /\ PGSIZE \in Nat \ {0} /\ MaxArgs \in Nat /\ Grows \subseteq Int /\ InitTask \in Tasks
         /\ \A g \in Programs : g \in Segments
         /\ M!TRAMPOLINE \in Int /\ M!TRAPFRAME \in Int /\ M!TRAMPOLINE # M!TRAPFRAME
<1>1. Fan ^ LEVELS \in Int
  BY SMT DEF M!VmAssumption
<1>. QED BY <1>1 DEF M!VmAssumption, M!TRAMPOLINE, M!TRAPFRAME, M!MAX_VA, Segments

\* The pages of n bytes hold them, and none is unused.
LEMMA PagesChar ==
  ASSUME M!VmAssumption, NEW n \in Int
  PROVE  /\ M!Pages(n) \in Int /\ PGSIZE * M!Pages(n) \in Int
         /\ PGSIZE * M!Pages(n) >= n /\ PGSIZE * M!Pages(n) - PGSIZE < n
         /\ M!PGROUNDUP(n) = PGSIZE * M!Pages(n)
<1>0. PGSIZE \in Nat \ {0}
  BY Consts
<1>. DEFINE x == n + PGSIZE - 1
            d == x \div PGSIZE
<1>1. x \in Int /\ d \in Int /\ x = PGSIZE * d + (x % PGSIZE) /\ x % PGSIZE \in 0..PGSIZE - 1
  <2>1. x \in Int
    BY <1>0
  <2>. HIDE DEF x
  <2>. QED BY <1>0, <2>1, DivMod
<1>2. M!PGROUNDUP(n) = d * PGSIZE /\ d * PGSIZE = PGSIZE * d /\ PGSIZE * d \in Int
  BY <1>0, <1>1 DEF M!PGROUNDUP
<1>3. (PGSIZE * d) \div PGSIZE = d
  BY <1>0, <1>1
<1>4. M!Pages(n) = d
  BY <1>2, <1>3 DEF M!Pages
<1>5. PGSIZE * d >= n /\ PGSIZE * d - PGSIZE < n
  <2>. HIDE DEF d
  <2>1. PICK y \in Int : y = PGSIZE * d
    BY <1>2
  <2>2. PICK z \in 0..PGSIZE - 1 : z = x % PGSIZE
    BY <1>1
  <2>3. n + PGSIZE - 1 = y + z
    BY <1>1, <2>1, <2>2
  <2>. QED BY <1>0, <2>1, <2>2, <2>3
<1>. QED BY <1>1, <1>2, <1>4, <1>5

\* The first page boundary at or above n.
LEMMA PagesUnique ==
  ASSUME M!VmAssumption, NEW n \in Int, NEW k \in Int, PGSIZE * k >= n, PGSIZE * k - PGSIZE < n
  PROVE  M!Pages(n) = k
<1>0. PGSIZE \in Nat \ {0}
  BY Consts
<1>1. PICK m \in Int : m = M!Pages(n) /\ PGSIZE * m \in Int /\ PGSIZE * m >= n /\ PGSIZE * m - PGSIZE < n
  BY PagesChar
<1>2. PGSIZE * (m - k) = PGSIZE * m - PGSIZE * k /\ PGSIZE * k \in Int
  BY <1>0, Distributes
<1>3. PGSIZE * (m - k) < PGSIZE /\ PGSIZE * (m - k) > - PGSIZE
  BY <1>0, <1>1, <1>2
<1>4. ~ (m - k >= 1) /\ ~ (m - k <= -1)
  BY <1>0, <1>3, Times
<1>. QED BY <1>1, <1>4

LEMMA PagesMono ==
  ASSUME M!VmAssumption, NEW a \in Int, NEW b \in Int, a <= b
  PROVE  M!Pages(a) <= M!Pages(b)
<1>0. PGSIZE \in Nat \ {0}
  BY Consts
<1>1. PICK m \in Int : m = M!Pages(a) /\ PGSIZE * m \in Int /\ PGSIZE * m - PGSIZE < a
  BY PagesChar
<1>2. PICK k \in Int : k = M!Pages(b) /\ PGSIZE * k \in Int /\ PGSIZE * k >= b
  BY PagesChar
<1>3. PGSIZE * (k - m) = PGSIZE * k - PGSIZE * m
  BY <1>0, <1>1, <1>2, Distributes
<1>4. PGSIZE * (k - m) > - PGSIZE
  BY <1>0, <1>1, <1>2, <1>3
<1>5. ~ (k - m <= -1)
  BY <1>0, <1>4, Times
<1>. QED BY <1>1, <1>2, <1>5

LEMMA PagesNat ==
  ASSUME M!VmAssumption, NEW n \in Nat
  PROVE  M!Pages(n) \in Nat /\ (n = 0 => M!Pages(n) = 0)
<1>0. PGSIZE \in Nat \ {0}
  BY Consts
<1>1. M!Pages(0) = 0
  <2>1. PGSIZE * 0 = 0
    BY <1>0
  <2>. QED BY <1>0, <2>1, PagesUnique
<1>. QED BY <1>1, PagesChar, PagesMono

\* The loop of uvmalloc(): the page at va is one of those of end bytes, until va is
\* as large as their number.
LEMMA LoopPages ==
  ASSUME M!VmAssumption, NEW va \in Int, NEW end \in Int
  PROVE  /\ va * PGSIZE < end => va + 1 <= M!Pages(end)
         /\ ~ (va * PGSIZE < end) => M!Pages(end) <= va
<1>0. PGSIZE \in Nat \ {0}
  BY Consts
<1>1. PICK m \in Int : m = M!Pages(end) /\ PGSIZE * m \in Int /\ PGSIZE * m >= end /\ PGSIZE * m - PGSIZE < end
  BY PagesChar
<1>2. PGSIZE * (m - va) = PGSIZE * m - PGSIZE * va /\ PGSIZE * va = va * PGSIZE /\ PGSIZE * va \in Int
  BY <1>0, Distributes
<1>3. CASE va * PGSIZE < end
  <2>1. PGSIZE * (m - va) > 0
    BY <1>1, <1>2, <1>3
  <2>2. ~ (m - va <= -1)
    BY <1>0, <2>1, Times
  <2>3. m # va
    BY <1>1, <1>2, <1>3, <1>0
  <2>. QED BY <1>1, <1>3, <2>2, <2>3
<1>4. CASE ~ (va * PGSIZE < end)
  <2>1. PGSIZE * (m - va) < PGSIZE
    BY <1>0, <1>1, <1>2, <1>4
  <2>2. ~ (m - va >= 1)
    BY <1>0, <2>1, Times
  <2>. QED BY <1>1, <1>4, <2>2
<1>. QED BY <1>3, <1>4

\* Rounding up adds no page, and two pages above it are two more.
LEMMA PagesTop ==
  ASSUME M!VmAssumption, NEW n \in Nat
  PROVE  LET top == M!PGROUNDUP(n) IN
         /\ top \in Nat /\ top + 2 * PGSIZE \in Nat
         /\ M!Pages(top) = M!Pages(n) /\ M!Pages(top + 2 * PGSIZE) = M!Pages(n) + 2
<1>. DEFINE top == M!PGROUNDUP(n)
<1>0. PGSIZE \in Nat \ {0}
  BY Consts
<1>1. PICK m \in Int : m = M!Pages(n) /\ PGSIZE * m \in Int /\ PGSIZE * m >= n /\ PGSIZE * m - PGSIZE < n
                       /\ top = PGSIZE * m
  BY PagesChar
<1>. HIDE DEF top
<1>2. top \in Nat /\ top + 2 * PGSIZE \in Nat
  BY <1>0, <1>1
<1>3. M!Pages(top) = m
  <2>1. PGSIZE * m >= top /\ PGSIZE * m - PGSIZE < top
    BY <1>0, <1>1
  <2>. QED BY <1>1, <1>2, <2>1, PagesUnique
<1>4. M!Pages(top + 2 * PGSIZE) = m + 2
  <2>1. PGSIZE * (m + 2) = PGSIZE * m + PGSIZE * 2 /\ PGSIZE * 2 = 2 * PGSIZE
    BY <1>0, <1>1, Distributes
  <2>2. PICK t2 \in Int : t2 = top + 2 * PGSIZE
    BY <1>0, <1>1
  <2>3. PGSIZE * (m + 2) = t2
    BY <1>1, <2>1, <2>2
  <2>4. PGSIZE * (m + 2) >= t2 /\ PGSIZE * (m + 2) - PGSIZE < t2
    BY <1>0, <2>2, <2>3
  <2>. QED BY <1>1, <2>2, <2>4, PagesUnique
<1>. QED BY <1>1, <1>2, <1>3, <1>4 DEF top

-----------------------------------------------------------------------------
(* What a step of p leaves alone.                                          *)

\* Nobody else is anywhere else in its call, and only the process s has other memory.
Others(p) == \A r \in Tasks : r # p => mpc'[r] = mpc[r] /\ job'[r] = job[r]
RowsOf(s) ==
    \A r \in Tasks : r # s =>
        /\ mstate'[r] = mstate[r] /\ sz'[r] = sz[r] /\ trapframe'[r] = trapframe[r]
        /\ pt'[<<r, "proc">>] = pt[<<r, "proc">>] /\ pt'[<<r, "exec">>] = pt[<<r, "exec">>]

LEMMA RowSame ==
  ASSUME NEW r \in Tasks, RowInv(r), mpc'[r] = mpc[r], job'[r] = job[r],
         mstate'[r] = mstate[r], sz'[r] = sz[r], trapframe'[r] = trapframe[r],
         pt'[<<r, "proc">>] = pt[<<r, "proc">>],
         InCall(r) => /\ mstate'[job[r].q] = mstate[job[r].q]
                      /\ trapframe'[job[r].q] = trapframe[job[r].q]
                      /\ pt'[<<job[r].q, job[r].which>>] = pt[<<job[r].q, job[r].which>>]
  PROVE  RowInv(r)'
<1>1. JobInv(r)'
  BY DEF RowInv, JobInv, InCall, InLoop, New
<1>2. TableInv(r)'
  BY DEF RowInv, TableInv, InCall, InLoop, Maps, M!Target
<1>3. LoadInv(r)'
  BY DEF RowInv, LoadInv, InCall, InLoop, M!Target
<1>4. SizeInv(r)'
  BY DEF RowInv, SizeInv, InCall, InLoop, Maps, Own
<1>5. OnlyFull(r)'
  BY DEF RowInv, OnlyFull
<1>. QED BY <1>1, <1>2, <1>3, <1>4, <1>5 DEF RowInv

\* A process that is not RUNNABLE is in no call, but for the one in userinit().
LEMMA Idle ==
  ASSUME NEW r \in Tasks, JobInv(r), InCall(r)
  PROVE  mstate[r] = "RUNNABLE" \/ (New(r) /\ job[r].q = r /\ mstate[r] = "USED")
BY DEF JobInv, New

\* The process whose memory p's step changes is p's own, or one that nobody else
\* works on.
Reach(p, s) ==
    \/ s = p
    \/ mstate[s] \in {"UNUSED", "ZOMBIE"}
    \/ InCall(p) /\ New(p) /\ job[p].q = s

Acts(p) == mpc[p] = "boot" \/ InCall(p) \/ mstate[p] = "RUNNABLE"

LEMMA Private ==
  ASSUME VmIInv, NEW p \in Tasks, NEW s \in Tasks, Reach(p, s), Acts(p),
         NEW r \in Tasks, r # p, InCall(r)
  PROVE  r # s /\ job[r].q # s
<1>1. RowInv(r) /\ RowInv(p)
  BY DEF VmIInv
<1>2. JobInv(r) /\ JobInv(p)
  BY <1>1 DEF RowInv
<1>3. job[r].q = r \/ (New(r) /\ mstate[job[r].q] = "USED")
  BY <1>2 DEF JobInv, New
<1>4. mstate[r] = "RUNNABLE" \/ (New(r) /\ job[r].q = r /\ mstate[r] = "USED")
  BY <1>2, Idle
<1>5. CASE s = p
  <2>1. CASE mpc[p] = "boot"
    BY <2>1 DEF VmIInv, BootInv
  <2>2. CASE InCall(p)
    <3>1. mstate[p] = "RUNNABLE" \/ (New(p) /\ job[p].q = p /\ mstate[p] = "USED")
      BY <1>2, <2>2, Idle
    <3>2. New(r) /\ New(p) /\ job[r].q = job[p].q => r = p
      BY <2>2 DEF VmIInv, BuilderInv
    <3>. QED BY <1>3, <1>5, <3>1, <3>2
  <2>3. CASE mstate[p] = "RUNNABLE"
    BY <1>3, <1>5, <2>3
  <2>. QED BY <2>1, <2>2, <2>3 DEF Acts
<1>6. CASE mstate[s] \in {"UNUSED", "ZOMBIE"}
  BY <1>3, <1>4, <1>6
<1>7. CASE InCall(p) /\ New(p) /\ job[p].q = s
  <2>1. mstate[s] = "USED"
    BY <1>2, <1>7 DEF JobInv
  <2>2. New(r) /\ job[r].q = job[p].q => r = p
    BY <1>7 DEF VmIInv, BuilderInv
  <2>. QED BY <1>3, <1>4, <1>7, <2>1, <2>2
<1>. QED BY <1>5, <1>6, <1>7 DEF Reach

LEMMA BuilderKeeps ==
  ASSUME VmIInv, NEW p \in Tasks, Others(p),
         InCall(p)' /\ New(p)' =>
             \/ InCall(p) /\ New(p) /\ job'[p].q = job[p].q
             \/ mstate[job'[p].q] = "UNUSED"
  PROVE  BuilderInv'
<1>. SUFFICES ASSUME NEW r \in Tasks, NEW q \in Tasks, r # q, InCall(r)', InCall(q)', New(r)', New(q)',
                     job'[r].q = job'[q].q
              PROVE  FALSE
  BY DEF BuilderInv
<1>1. \A u \in Tasks : u # p /\ InCall(u)' /\ New(u)' =>
         /\ InCall(u) /\ New(u) /\ job'[u].q = job[u].q /\ mstate[job[u].q] = "USED"
  <2>. SUFFICES ASSUME NEW u \in Tasks, u # p, InCall(u)', New(u)'
                PROVE  InCall(u) /\ New(u) /\ job'[u].q = job[u].q /\ mstate[job[u].q] = "USED"
    OBVIOUS
  <2>1. InCall(u) /\ New(u) /\ job'[u].q = job[u].q
    BY DEF Others, InCall, InLoop, New
  <2>2. JobInv(u)
    BY DEF VmIInv, RowInv
  <2>. QED BY <2>1, <2>2 DEF JobInv
<1>2. \A u, v \in Tasks : InCall(u) /\ InCall(v) /\ New(u) /\ New(v) /\ job[u].q = job[v].q => u = v
  BY DEF VmIInv, BuilderInv
<1>. QED BY <1>1, <1>2

LEMMA BootKeeps ==
  ASSUME VmIInv, NEW p \in Tasks, Others(p), Acts(p), mpc'[p] # "boot"
  PROVE  BootInv'
<1>. SUFFICES ASSUME NEW r \in Tasks, mpc'[r] = "boot" PROVE FALSE
  BY DEF BootInv
<1>1. r # p /\ mpc[r] = "boot"
  BY DEF Others
<1>2. r = InitTask /\ mstate[p] = "UNUSED" /\ ~ InCall(p)
  BY <1>1 DEF VmIInv, BootInv
<1>3. mpc[p] = "boot"
  BY <1>2 DEF Acts
<1>4. p = InitTask
  BY <1>3 DEF VmIInv, BootInv
<1>. QED BY <1>1, <1>2, <1>4

\* All that is left for an action: its own process, and the one whose memory it changes.
LEMMA StepKeeps ==
  ASSUME VmIInv, NEW p \in Tasks, NEW s \in Tasks, Reach(p, s), Acts(p), Others(p), RowsOf(s),
         ShapeInv', RowInv(p)', mpc'[p] # "boot",
         s # p => SizeInv(s)',
         InCall(p)' /\ New(p)' =>
             \/ InCall(p) /\ New(p) /\ job'[p].q = job[p].q
             \/ mstate[job'[p].q] = "UNUSED"
  PROVE  VmIInv'
<1>1. BuilderInv'
  BY BuilderKeeps
<1>2. BootInv'
  BY BootKeeps
<1>3. ASSUME NEW r \in Tasks PROVE RowInv(r)'
  <2>0. RowInv(r) /\ mpc'[p] # "boot"
    BY DEF VmIInv
  <2>1. CASE r = p
    BY <2>1
  <2>2. CASE r # p /\ r # s
    <3>1. InCall(r) => job[r].q \in Tasks /\ job[r].which \in {"proc", "exec"}
      BY <2>0 DEF RowInv, JobInv, New
    <3>2. InCall(r) => job[r].q # s
      BY <2>2, Private
    <3>3. mpc'[r] = mpc[r] /\ job'[r] = job[r]
      BY <2>2 DEF Others
    <3>4. /\ mstate'[r] = mstate[r] /\ sz'[r] = sz[r] /\ trapframe'[r] = trapframe[r]
          /\ pt'[<<r, "proc">>] = pt[<<r, "proc">>]
      BY <2>2 DEF RowsOf
    <3>5. InCall(r) => /\ mstate'[job[r].q] = mstate[job[r].q]
                       /\ trapframe'[job[r].q] = trapframe[job[r].q]
                       /\ pt'[<<job[r].q, job[r].which>>] = pt[<<job[r].q, job[r].which>>]
      <4>1. ASSUME NEW u \in Tasks, u # s
            PROVE  /\ mstate'[u] = mstate[u] /\ trapframe'[u] = trapframe[u]
                   /\ \A w \in {"proc", "exec"} : pt'[<<u, w>>] = pt[<<u, w>>]
        BY <4>1 DEF RowsOf
      <4>. QED BY <3>1, <3>2, <4>1
    <3>. QED BY <2>0, <3>3, <3>4, <3>5, RowSame
  <2>3. CASE r # p /\ r = s
    <3>1. ~ InCall(r)
      BY <2>3, Private
    <3>2. mpc'[r] = mpc[r] /\ job'[r] = job[r]
      BY <2>3 DEF Others
    <3>3. ~ InCall(r)'
      BY <3>1, <3>2 DEF InCall, InLoop
    <3>4. JobInv(r)' /\ TableInv(r)' /\ LoadInv(r)'
      BY <3>3 DEF JobInv, TableInv, LoadInv
    <3>5. OnlyFull(r)'
      BY <2>0, <3>2 DEF RowInv, OnlyFull
    <3>. QED BY <2>3, <3>4, <3>5 DEF RowInv
  <2>. QED BY <2>1, <2>2, <2>3
<1>. QED BY <1>1, <1>2, <1>3 DEF VmIInv

-----------------------------------------------------------------------------
(* Tables.                                                                 *)

LEMMA MapsMore ==
  ASSUME M!VmAssumption, NEW t, NEW u, NEW n \in Nat, NEW tf, NEW y, Maps(t, n, tf),
         n \notin DOMAIN t.leaf, u.leaf = M!Extend(t.leaf, n, y)
  PROVE  Maps(u, n + 1, tf)
<1>1. /\ DOMAIN u.leaf = DOMAIN t.leaf \cup {n}
      /\ \A z \in DOMAIN t.leaf : u.leaf[z] = t.leaf[z]
  BY DEF M!Extend
<1>2. 0..(n + 1) - 1 = (0..n - 1) \cup {n}
  OBVIOUS
<1>3. DOMAIN u.leaf = (0..(n + 1) - 1) \cup Top
  BY <1>1, <1>2 DEF Maps
<1>4. (0..(n + 1) - 1) \cap Top = {}
  BY <1>2 DEF Maps
<1>5. u.leaf[M!TRAPFRAME].pa = tf
  BY <1>1 DEF Maps, Top
<1>. QED BY <1>3, <1>4, <1>5 DEF Maps

LEMMA MapsLess ==
  ASSUME M!VmAssumption, NEW t, NEW u, NEW n \in Nat, NEW m \in Nat, m <= n, NEW tf, Maps(t, n, tf),
         u.leaf = M!Without(t.leaf, m..n - 1)
  PROVE  Maps(u, m, tf)
<1>1. /\ DOMAIN u.leaf = DOMAIN t.leaf \ (m..n - 1)
      /\ \A z \in DOMAIN u.leaf : u.leaf[z] = t.leaf[z]
  BY DEF M!Without
<1>2. (0..n - 1) \ (m..n - 1) = 0..m - 1 /\ 0..m - 1 \subseteq 0..n - 1 /\ m..n - 1 \subseteq 0..n - 1
  OBVIOUS
<1>3. DOMAIN u.leaf = (0..m - 1) \cup Top
  BY <1>1, <1>2 DEF Maps
<1>4. (0..m - 1) \cap Top = {}
  BY <1>2 DEF Maps
<1>5. u.leaf[M!TRAPFRAME].pa = tf
  BY <1>1, <1>3 DEF Maps, Top
<1>. QED BY <1>3, <1>4, <1>5 DEF Maps

\* uvmalloc() at the end of its loop has mapped what it was asked for.
LEMMA MapsAll ==
  ASSUME M!VmAssumption, NEW t, NEW va \in Int, NEW end \in Nat, NEW tf,
         va <= M!Pages(end), Maps(t, va, tf), ~ (va * PGSIZE < end)
  PROVE  Maps(t, M!Pages(end), tf)
<1>1. M!Pages(end) \in Int /\ M!Pages(end) <= va
  BY LoopPages, PagesChar
<1>2. M!Pages(end) = va
  BY <1>1
<1>. QED BY <1>2

\* proc_freepagetable() finds what it wants to unmap, and no more.
LEMMA MapsFree ==
  ASSUME NEW t, NEW size, NEW tf, Maps(t, M!Pages(size), tf)
  PROVE  M!CanFree(t, size) /\ t.leaf[M!TRAPFRAME].pa = tf
BY DEF Maps, M!CanFree, Top

-----------------------------------------------------------------------------
(* Steps that change no memory but that of the caller.                     *)

\* Where p is, after GoTo(p, label) and SetJob(p, j)
LEMMA Moves ==
  ASSUME ShapeInv, NEW p \in Tasks, NEW l
  PROVE  /\ M!GoTo(p, l) => mpc'[p] = l /\ \A r \in Tasks : r # p => mpc'[r] = mpc[r]
         /\ l \in M!PCs /\ M!GoTo(p, l) => mpc' \in [Tasks -> M!PCs]
         /\ M!SetJob(p, l) =>
               job'[p] = l /\ DOMAIN job' = Tasks /\ \A r \in Tasks : r # p => job'[r] = job[r]
BY DEF ShapeInv, M!GoTo, M!SetJob

LEMMA Returns ==
  ASSUME ShapeInv, NEW p \in Tasks, M!Return(p)
  PROVE  /\ Others(p) /\ mpc'[p] = "user" /\ ~ InCall(p)'
         /\ mpc' \in [Tasks -> M!PCs] /\ DOMAIN job' = Tasks
<1>1. M!GoTo(p, "user") /\ M!SetJob(p, M!NoJob)
  BY DEF M!Return
<1>2. "user" \in M!PCs
  BY DEF M!PCs
<1>3. mpc'[p] = "user" /\ mpc' \in [Tasks -> M!PCs] /\ DOMAIN job' = Tasks
  BY <1>1, <1>2, Moves
<1>4. Others(p)
  BY <1>1, Moves DEF Others
<1>. QED BY <1>3, <1>4 DEF InCall, InLoop

\* A panic stops the hart where it is.
LEMMA PanicKeeps ==
  ASSUME VmIInv, NEW p \in Tasks, Acts(p), M!Panics(p), job[p].va \in Top
  PROVE  VmIInv'
<1>1. ShapeInv /\ RowInv(p)
  BY DEF VmIInv
<1>2. /\ UNCHANGED <<mstate, sz, trapframe, pt, job>> /\ M!GoTo(p, "panic")
  BY DEF M!Panics, M!procVars
<1>3. mpc'[p] = "panic" /\ Others(p) /\ mpc' \in [Tasks -> M!PCs]
  <2>1. "panic" \in M!PCs
    BY DEF M!PCs
  <2>. QED BY <1>1, <1>2, <2>1, Moves DEF Others
<1>4. ShapeInv'
  BY <1>1, <1>2, <1>3 DEF ShapeInv
<1>5. RowsOf(p) /\ Reach(p, p)
  BY <1>2 DEF RowsOf, Reach
<1>6. ~ InCall(p)'
  BY <1>3 DEF InCall, InLoop
<1>7. mstate[p] # "ZOMBIE"
  <2>1. JobInv(p) /\ (mstate[p] = "ZOMBIE" => mpc[p] = "user")
    BY <1>1 DEF RowInv, SizeInv
  <2>2. InCall(p) => mstate[p] = "RUNNABLE" \/ mstate[p] = "USED"
    BY <2>1, Idle
  <2>. QED BY <2>1, <2>2 DEF Acts
<1>8. RowInv(p)'
  <2>1. JobInv(p)' /\ TableInv(p)' /\ LoadInv(p)'
    BY <1>6 DEF JobInv, TableInv, LoadInv
  <2>2. SizeInv(p)'
    BY <1>1, <1>2, <1>3, <1>7 DEF RowInv, SizeInv
  <2>3. OnlyFull(p)'
    BY <1>2 DEF OnlyFull, Top
  <2>. QED BY <2>1, <2>2, <2>3 DEF RowInv
<1>. QED BY <1>3, <1>4, <1>5, <1>6, <1>8, StepKeeps

\* A step of p that changes its locals only.
LEMMA LocalKeeps ==
  ASSUME VmIInv, NEW p \in Tasks, NEW l \in M!PCs, l # "boot", Acts(p),
         UNCHANGED <<mstate, sz, trapframe, pt>>, M!GoTo(p, l) \/ (UNCHANGED mpc /\ l = mpc[p]),
         Others(p), DOMAIN job' = Tasks,
         JobInv(p)', TableInv(p)', LoadInv(p)', OnlyFull(p)',
         l # "panic" /\ ~ (InCall(p)' /\ job'[p].op = "sbrk") /\ mstate[p] = "RUNNABLE" =>
             mpc[p] # "panic" /\ ~ (InCall(p) /\ job[p].op = "sbrk"),
         mstate[p] # "ZOMBIE",
         InCall(p)' /\ New(p)' => InCall(p) /\ New(p) /\ job'[p].q = job[p].q
  PROVE  VmIInv'
<1>1. ShapeInv /\ RowInv(p)
  BY DEF VmIInv
<1>2. mpc'[p] = l /\ mpc' \in [Tasks -> M!PCs]
  BY <1>1, Moves DEF ShapeInv
<1>3. ShapeInv'
  BY <1>1, <1>2 DEF ShapeInv
<1>4. RowsOf(p) /\ Reach(p, p)
  BY DEF RowsOf, Reach
<1>5. SizeInv(p)'
  <2>1. SizeInv(p)
    BY <1>1 DEF RowInv
  <2>2. mstate[p] \in {"RUNNABLE", "ZOMBIE"} /\ l # "panic" /\ ~ (InCall(p)' /\ job'[p].op = "sbrk") =>
            Maps(pt[Own(p)], M!Pages(sz[p]), trapframe[p])
    BY <2>1 DEF SizeInv
  <2>3. Maps(pt[Own(p)], M!Pages(sz[p]), trapframe[p]) => Maps(pt'[Own(p)], M!Pages(sz'[p]), trapframe'[p])
    OBVIOUS
  <2>. QED BY <1>2, <2>1, <2>2, <2>3 DEF SizeInv, Own
<1>6. RowInv(p)'
  BY <1>5 DEF RowInv
<1>. QED BY <1>2, <1>3, <1>4, <1>6, StepKeeps

LEMMA KallocFailsKeeps ==
  ASSUME VmIInv, NEW p \in Tasks, M!KallocFails(p)
  PROVE  VmIInv'
<1>1. ShapeInv /\ RowInv(p) /\ mpc[p] = "kalloc" /\ InCall(p)
  BY DEF VmIInv, M!KallocFails, InCall, InLoop
<1>2. UNCHANGED <<mstate, sz, trapframe, pt, job>> /\ M!GoTo(p, "failed")
  BY DEF M!KallocFails, M!procVars
<1>3. mpc'[p] = "failed" /\ Others(p) /\ DOMAIN job' = Tasks
  BY <1>1, <1>2, Moves DEF Others, ShapeInv
<1>4. JobInv(p)'
  BY <1>1, <1>2, <1>3 DEF RowInv, JobInv, InCall, InLoop, New
<1>5. TableInv(p)'
  BY <1>1, <1>2, <1>3 DEF RowInv, TableInv, InCall, InLoop, Maps, M!Target
<1>6. LoadInv(p)'
  BY <1>1, <1>2, <1>3 DEF RowInv, LoadInv, InCall, InLoop, M!Target
<1>7. OnlyFull(p)' /\ Acts(p) /\ "failed" \in M!PCs
  BY <1>1, <1>3 DEF OnlyFull, Acts, M!PCs
<1>8. mstate[p] # "ZOMBIE"
  BY <1>1 DEF RowInv, SizeInv
<1>9. InCall(p)' /\ New(p)' => InCall(p) /\ New(p) /\ job'[p].q = job[p].q
  BY <1>1, <1>2 DEF New
<1>10. ~ (InCall(p)' /\ job'[p].op = "sbrk") => mpc[p] # "panic" /\ ~ (InCall(p) /\ job[p].op = "sbrk")
  BY <1>1, <1>2, <1>3 DEF InCall, InLoop
<1>. QED BY <1>2, <1>3, <1>4, <1>5, <1>6, <1>7, <1>8, <1>9, <1>10, LocalKeeps

\* What is in a call whose record is changed in some of the fields of F
Changed(p, F) ==
    /\ DOMAIN job'[p] = DOMAIN job[p]
    /\ \A f \in JobFields \ F : job'[p][f] = job[p][f]

\* uvmcopy() never finds a page of the parent missing.
LEMMA AlwaysPresent ==
  ASSUME M!VmAssumption, VmIInv, NEW p \in Tasks, mpc[p] = "kalloc", job[p].stage = "page"
  PROVE  M!Present(p)
<1>. SUFFICES ASSUME job[p].op = "fork" PROVE job[p].va \in DOMAIN pt[<<p, "proc">>].leaf
  BY DEF M!Present
<1>1. RowInv(p) /\ ShapeInv /\ InCall(p) /\ InLoop(p)
  BY DEF VmIInv, InCall, InLoop
<1>2. /\ mstate[p] = "RUNNABLE" /\ job[p].end = sz[p] /\ job[p].end \in Nat
      /\ job[p].from = 0 /\ job[p].va \in Int
  BY <1>1 DEF RowInv, JobInv, New
<1>3. job[p].from <= job[p].va /\ job[p].va * PGSIZE < job[p].end
  BY <1>1 DEF RowInv, TableInv
<1>4. Maps(pt[<<p, "proc">>], M!Pages(sz[p]), trapframe[p])
  BY <1>1, <1>2 DEF RowInv, SizeInv, Own
<1>5. job[p].va + 1 <= M!Pages(sz[p]) /\ M!Pages(sz[p]) \in Int
  BY <1>2, <1>3, LoopPages, PagesChar
<1>6. job[p].va \in 0..M!Pages(sz[p]) - 1
  BY <1>2, <1>3, <1>5
<1>. QED BY <1>4, <1>6 DEF Maps

LEMMA AllocPageKeeps ==
  ASSUME M!VmAssumption, VmIInv, NEW p \in Tasks, M!AllocPage(p)
  PROVE  VmIInv'
<1>1. ShapeInv /\ RowInv(p) /\ mpc[p] = "kalloc" /\ job[p].stage = "page" /\ InCall(p)
  BY DEF VmIInv, M!AllocPage, InCall, InLoop
<1>2. /\ UNCHANGED <<mstate, sz, trapframe, pt>> /\ M!GoTo(p, "map")
      /\ M!SetJob(p, [job[p] EXCEPT !.mem = M!Page])
  BY <1>1, AlwaysPresent DEF M!AllocPage, M!procVars
<1>3. mpc'[p] = "map" /\ Others(p) /\ DOMAIN job' = Tasks /\ job'[p] = [job[p] EXCEPT !.mem = M!Page]
  BY <1>1, <1>2, Moves DEF Others
<1>4. Changed(p, {"mem"})
  BY <1>1, <1>3 DEF Changed, RowInv, JobInv, JobFields
<1>5. JobInv(p)'
  BY <1>1, <1>2, <1>3, <1>4 DEF RowInv, JobInv, InCall, InLoop, New, Changed, JobFields
<1>6. TableInv(p)'
  BY <1>1, <1>2, <1>3, <1>4 DEF RowInv, TableInv, InCall, InLoop, Maps, M!Target, Changed, JobFields
<1>7. LoadInv(p)'
  BY <1>1, <1>2, <1>3, <1>4 DEF RowInv, LoadInv, InCall, InLoop, M!Target, Changed, JobFields
<1>8. OnlyFull(p)' /\ Acts(p) /\ "map" \in M!PCs
  BY <1>1, <1>3 DEF OnlyFull, Acts, M!PCs
<1>9. mstate[p] # "ZOMBIE"
  BY <1>1 DEF RowInv, SizeInv
<1>10. InCall(p)' /\ New(p)' => InCall(p) /\ New(p) /\ job'[p].q = job[p].q
  BY <1>1, <1>4 DEF New, Changed, JobFields
<1>11. ~ (InCall(p)' /\ job'[p].op = "sbrk") => mpc[p] # "panic" /\ ~ (InCall(p) /\ job[p].op = "sbrk")
  BY <1>1, <1>3, <1>4 DEF InCall, InLoop, Changed, JobFields
<1>. QED BY <1>2, <1>3, <1>5, <1>6, <1>7, <1>8, <1>9, <1>10, <1>11, LocalKeeps

LEMMA FetchArgKeeps ==
  ASSUME VmIInv, NEW p \in Tasks, M!FetchArg(p)
  PROVE  VmIInv'
<1>1. ShapeInv /\ RowInv(p) /\ mpc[p] = "argv" /\ InCall(p)
  BY DEF VmIInv, M!FetchArg, InCall, InLoop
<1>2. /\ UNCHANGED <<mstate, sz, trapframe, pt, mpc>>
      /\ M!SetJob(p, [job[p] EXCEPT !.argv = Append(@, M!Page)])
  BY DEF M!FetchArg, M!procVars
<1>3. /\ mpc'[p] = "argv" /\ Others(p) /\ DOMAIN job' = Tasks
      /\ job'[p] = [job[p] EXCEPT !.argv = Append(@, M!Page)]
  BY <1>1, <1>2, Moves DEF Others
<1>4. Changed(p, {"argv"})
  BY <1>1, <1>3 DEF Changed, RowInv, JobInv, JobFields
<1>5. JobInv(p)'
  BY <1>1, <1>2, <1>3, <1>4 DEF RowInv, JobInv, InCall, InLoop, New, Changed, JobFields
<1>6. TableInv(p)'
  BY <1>1, <1>2, <1>3, <1>4 DEF RowInv, TableInv, InCall, InLoop, Maps, M!Target, Changed, JobFields
<1>7. LoadInv(p)'
  BY <1>1, <1>2, <1>3, <1>4 DEF RowInv, LoadInv, InCall, InLoop, M!Target, Changed, JobFields
<1>8. OnlyFull(p)' /\ Acts(p) /\ "argv" \in M!PCs
  BY <1>1, <1>3 DEF OnlyFull, Acts, M!PCs
<1>9. mstate[p] # "ZOMBIE"
  BY <1>1 DEF RowInv, SizeInv
<1>10. InCall(p)' /\ New(p)' => InCall(p) /\ New(p) /\ job'[p].q = job[p].q
  BY <1>1, <1>4 DEF New, Changed, JobFields
<1>11. ~ (InCall(p)' /\ job'[p].op = "sbrk") => mpc[p] # "panic" /\ ~ (InCall(p) /\ job[p].op = "sbrk")
  BY <1>1, <1>3, <1>4 DEF InCall, InLoop, Changed, JobFields
<1>. QED BY <1>1, <1>2, <1>3, <1>5, <1>6, <1>7, <1>8, <1>9, <1>10, <1>11, LocalKeeps

\* exec() of p, which is at l next: its own memory is not what it works on.
LEMMA ExecKeeps ==
  ASSUME VmIInv, NEW p \in Tasks, InCall(p), job[p].op = "exec", mpc[p] # "panic",
         NEW l \in M!PCs, l \notin {"boot", "panic"},
         UNCHANGED <<mstate, sz, trapframe, pt>>, M!GoTo(p, l), Others(p), DOMAIN job' = Tasks,
         InCall(p)' => job'[p].op = "exec",
         JobInv(p)', TableInv(p)', LoadInv(p)'
  PROVE  VmIInv'
<1>1. ShapeInv /\ RowInv(p)
  BY DEF VmIInv
<1>2. mstate[p] # "ZOMBIE"
  BY <1>1 DEF RowInv, SizeInv, InCall, InLoop
<1>3. OnlyFull(p)' /\ Acts(p)
  BY <1>1, Moves DEF OnlyFull, Acts
<1>4. ~ (InCall(p)' /\ New(p)') /\ job[p].op # "sbrk"
  BY DEF New
<1>. QED BY <1>2, <1>3, <1>4, LocalKeeps

LEMMA ArgsBadKeeps ==
  ASSUME VmIInv, NEW p \in Tasks, M!ArgsBad(p)
  PROVE  VmIInv'
<1>1. ShapeInv /\ RowInv(p) /\ mpc[p] = "argv" /\ InCall(p)
  BY DEF VmIInv, M!ArgsBad, InCall, InLoop
<1>2. UNCHANGED <<mstate, sz, trapframe, pt>> /\ M!Return(p) /\ M!GoTo(p, "user")
  BY DEF M!ArgsBad, M!procVars, M!Return
<1>3. mpc'[p] = "user" /\ ~ InCall(p)' /\ Others(p) /\ DOMAIN job' = Tasks
  BY <1>1, <1>2, Returns
<1>4. JobInv(p)' /\ TableInv(p)' /\ LoadInv(p)'
  BY <1>3 DEF JobInv, TableInv, LoadInv
<1>5. job[p].op = "exec"
  BY <1>1 DEF RowInv, TableInv
<1>6. "user" \in M!PCs
  BY DEF M!PCs
<1>. QED BY <1>1, <1>2, <1>3, <1>4, <1>5, <1>6, ExecKeeps

LEMMA StartExecKeeps ==
  ASSUME VmIInv, NEW p \in Tasks, M!StartExec(p)
  PROVE  VmIInv'
<1>1. ShapeInv /\ RowInv(p) /\ mpc[p] = "argv" /\ InCall(p)
  BY DEF VmIInv, M!StartExec, InCall, InLoop
<1>2. UNCHANGED <<mstate, sz, trapframe, pt, job>> /\ M!GoTo(p, "kalloc")
  BY DEF M!StartExec, M!procVars
<1>3. mpc'[p] = "kalloc" /\ Others(p) /\ DOMAIN job' = Tasks
  BY <1>1, <1>2, Moves DEF Others, ShapeInv
<1>4. job[p].op = "exec" /\ job[p].stage = "root"
  BY <1>1 DEF RowInv, TableInv, JobInv
<1>5. JobInv(p)'
  BY <1>1, <1>2, <1>3, <1>4 DEF RowInv, JobInv, InCall, InLoop, New
<1>6. TableInv(p)'
  BY <1>1, <1>2, <1>3, <1>4 DEF RowInv, TableInv, InCall, InLoop, Maps, M!Target
<1>7. LoadInv(p)'
  BY <1>2, <1>4 DEF LoadInv
<1>8. "kalloc" \in M!PCs
  BY DEF M!PCs
<1>. QED BY <1>1, <1>2, <1>3, <1>4, <1>5, <1>6, <1>7, <1>8, ExecKeeps

LEMMA SegmentBadKeeps ==
  ASSUME VmIInv, NEW p \in Tasks, M!SegmentBad(p)
  PROVE  VmIInv'
<1>1. ShapeInv /\ RowInv(p) /\ mpc[p] = "segment" /\ InCall(p)
  BY DEF VmIInv, M!SegmentBad, InCall, InLoop
<1>2. UNCHANGED <<mstate, sz, trapframe, pt, job>> /\ M!GoTo(p, "bad")
  BY DEF M!SegmentBad, M!procVars
<1>3. mpc'[p] = "bad" /\ Others(p) /\ DOMAIN job' = Tasks
  BY <1>1, <1>2, Moves DEF Others, ShapeInv
<1>4. job[p].op = "exec" /\ job[p].stage = "page"
  BY <1>1 DEF RowInv, TableInv, JobInv
<1>5. JobInv(p)'
  BY <1>1, <1>2, <1>3, <1>4 DEF RowInv, JobInv, InCall, InLoop, New
<1>6. TableInv(p)'
  BY <1>1, <1>2, <1>3, <1>4 DEF RowInv, TableInv, InCall, InLoop, Maps, M!Target
<1>7. LoadInv(p)'
  BY <1>1, <1>2, <1>3, <1>4 DEF RowInv, LoadInv, InCall, InLoop, M!Target
<1>8. "bad" \in M!PCs
  BY DEF M!PCs
<1>. QED BY <1>1, <1>2, <1>3, <1>4, <1>5, <1>6, <1>7, <1>8, ExecKeeps

LEMMA SysExecKeeps ==
  ASSUME M!VmAssumption, VmIInv, NEW p \in Tasks, NEW g \in Programs, M!sys_exec(p, g)
  PROVE  VmIInv'
<1>1. ShapeInv /\ RowInv(p) /\ mpc[p] = "user" /\ mstate[p] = "RUNNABLE" /\ ~ InCall(p) /\ g \in Segments
  BY Consts DEF VmIInv, M!sys_exec, InCall, InLoop
<1>. DEFINE c == M!Call("exec", p, "exec")
<1>2. /\ UNCHANGED <<mstate, sz, trapframe, pt>> /\ M!GoTo(p, "argv")
      /\ M!SetJob(p, [c EXCEPT !.stage = "root", !.segs = g])
  BY DEF M!sys_exec, M!procVars
<1>. HIDE DEF c
<1>3. /\ mpc'[p] = "argv" /\ Others(p) /\ DOMAIN job' = Tasks
      /\ job'[p] = [c EXCEPT !.stage = "root", !.segs = g]
  BY <1>1, <1>2, Moves DEF Others
<1>4. /\ DOMAIN c = JobFields /\ c.op = "exec" /\ c.q = p /\ c.which = "exec"
      /\ c.from = 0 /\ c.va = 0 /\ c.end = 0 /\ c.size = 0 /\ c.stack = FALSE
  BY DEF c, M!Call, JobFields
<1>5. /\ DOMAIN job'[p] = JobFields /\ job'[p].op = "exec" /\ job'[p].q = p /\ job'[p].which = "exec"
      /\ job'[p].from = 0 /\ job'[p].va = 0 /\ job'[p].end = 0 /\ job'[p].size = 0
      /\ job'[p].stage = "root" /\ job'[p].segs = g /\ job'[p].stack = FALSE
  BY <1>3, <1>4 DEF JobFields
<1>6. JobInv(p)'
  BY <1>1, <1>2, <1>3, <1>5 DEF JobInv, InCall, InLoop, New
<1>7. TableInv(p)'
  BY <1>3, <1>5 DEF TableInv, InCall, InLoop
<1>8. LoadInv(p)'
  BY <1>5 DEF LoadInv
<1>9. OnlyFull(p)' /\ Acts(p) /\ "argv" \in M!PCs
  BY <1>1, <1>3 DEF OnlyFull, Acts, M!PCs
<1>10. ~ New(p)'
  BY <1>5 DEF New
<1>. QED BY <1>1, <1>2, <1>3, <1>6, <1>7, <1>8, <1>9, <1>10, LocalKeeps

\* Where the loop of uvmalloc() begins or goes on.
LEMMA LoopMoves ==
  ASSUME ShapeInv, NEW p \in Tasks, NEW j, M!Loop(p, j)
  PROVE  /\ job'[p] = j /\ DOMAIN job' = Tasks /\ Others(p)
         /\ mpc' \in [Tasks -> M!PCs]
         /\ \E l \in {"kalloc", "mapped"} : M!GoTo(p, l)
         /\ j.va * PGSIZE < j.end => mpc'[p] = "kalloc"
         /\ ~ (j.va * PGSIZE < j.end) => mpc'[p] = "mapped"
<1>1. "kalloc" \in M!PCs /\ "mapped" \in M!PCs
  BY DEF M!PCs
<1>2. M!SetJob(p, j) /\ M!GoTo(p, IF j.va * PGSIZE < j.end THEN "kalloc" ELSE "mapped")
  BY DEF M!Loop
<1>3. CASE j.va * PGSIZE < j.end
  <2>1. M!GoTo(p, "kalloc")
    BY <1>2, <1>3
  <2>. QED BY <1>1, <1>2, <1>3, <2>1, Moves DEF Others
<1>4. CASE ~ (j.va * PGSIZE < j.end)
  <2>1. M!GoTo(p, "mapped")
    BY <1>2, <1>4
  <2>. QED BY <1>1, <1>2, <1>4, <2>1, Moves DEF Others
<1>. QED BY <1>3, <1>4

\* Its table invariant, for a table that has the pages below va
LEMMA LoopTable ==
  ASSUME M!VmAssumption, NEW p \in Tasks, NEW t, NEW tf, NEW va \in Int, NEW end \in Nat, NEW from \in Nat,
         t = (pt[M!Target(p)])', tf = trapframe'[job'[p].q],
         job'[p].va = va, job'[p].end = end, job'[p].from = from, job'[p].stage = "page",
         Maps(t, va, tf), from <= va, va <= M!Pages(end),
         va * PGSIZE < end => mpc'[p] = "kalloc",
         ~ (va * PGSIZE < end) => mpc'[p] = "mapped"
  PROVE  TableInv(p)'
<1>1. CASE va * PGSIZE < end
  BY <1>1 DEF TableInv, InCall, InLoop
<1>2. CASE ~ (va * PGSIZE < end)
  <2>1. Maps(t, M!Pages(end), tf)
    BY <1>2, MapsAll
  <2>. QED BY <1>2, <2>1 DEF TableInv, InCall, InLoop
<1>. QED BY <1>1, <1>2

LEMMA GrowKeeps ==
  ASSUME M!VmAssumption, VmIInv, NEW p \in Tasks, NEW n \in Grows, M!Grow(p, n)
  PROVE  VmIInv'
<1>1. ShapeInv /\ RowInv(p) /\ mpc[p] = "user" /\ mstate[p] = "RUNNABLE" /\ ~ InCall(p) /\ n \in Nat
  BY Consts DEF VmIInv, M!Grow, InCall, InLoop
<1>. DEFINE c == M!Call("sbrk", p, "proc")
            j == [c EXCEPT !.from = M!Pages(sz[p]), !.va = M!Pages(sz[p]), !.end = sz[p] + n]
<1>2. UNCHANGED <<mstate, sz, trapframe, pt>> /\ M!Loop(p, j)
  BY DEF M!Grow, M!procVars
<1>. HIDE DEF c
<1>3. /\ DOMAIN c = JobFields /\ c.op = "sbrk" /\ c.q = p /\ c.which = "proc" /\ c.stage = "page"
      /\ c.size = 0 /\ c.segs = <<>>
  BY DEF c, M!Call, JobFields
<1>4. sz[p] \in Nat /\ sz[p] + n \in Nat /\ M!Pages(sz[p]) \in Nat
  BY <1>1, PagesNat DEF ShapeInv
<1>5. /\ DOMAIN j = JobFields /\ j.op = "sbrk" /\ j.q = p /\ j.which = "proc" /\ j.stage = "page"
      /\ j.size = 0 /\ j.segs = <<>> /\ j.from = M!Pages(sz[p]) /\ j.va = M!Pages(sz[p])
      /\ j.end = sz[p] + n
  BY <1>3 DEF JobFields
<1>. HIDE DEF j
<1>6. /\ job'[p] = j /\ DOMAIN job' = Tasks /\ Others(p)
      /\ j.va * PGSIZE < j.end => mpc'[p] = "kalloc"
      /\ ~ (j.va * PGSIZE < j.end) => mpc'[p] = "mapped"
      /\ \E l \in {"kalloc", "mapped"} : M!GoTo(p, l)
  BY <1>1, <1>2, LoopMoves
<1>7. PICK l \in {"kalloc", "mapped"} : M!GoTo(p, l) /\ mpc'[p] = l
  BY <1>1, <1>6, Moves
<1>8. JobInv(p)'
  <2>1. <<>> \in Segments
    BY DEF Segments
  <2>. QED BY <1>1, <1>2, <1>4, <1>5, <1>6, <1>7, <2>1 DEF JobInv, InCall, InLoop, New
<1>9. TableInv(p)'
  <2>1. Maps(pt[Own(p)], M!Pages(sz[p]), trapframe[p])
    BY <1>1 DEF RowInv, SizeInv
  <2>2. (pt[M!Target(p)])' = pt[Own(p)] /\ trapframe'[job'[p].q] = trapframe[p]
    BY <1>2, <1>5, <1>6 DEF M!Target, Own
  <2>3. M!Pages(sz[p]) <= M!Pages(sz[p] + n)
    BY <1>1, <1>4, PagesMono
  <2>. DEFINE va == M!Pages(sz[p])
              end == sz[p] + n
  <2>4. /\ va * PGSIZE < end => mpc'[p] = "kalloc"
        /\ ~ (va * PGSIZE < end) => mpc'[p] = "mapped"
    BY <1>5, <1>6
  <2>5. job'[p].va = va /\ job'[p].end = end /\ job'[p].from = va /\ job'[p].stage = "page"
    BY <1>5, <1>6
  <2>6. va \in Int /\ va <= va /\ va \in Nat /\ end \in Nat /\ va <= M!Pages(end)
    BY <1>4, <2>3
  <2>. HIDE DEF va, end
  <2>7. Maps(pt[Own(p)], va, trapframe[p])
    BY <2>1 DEF va
  <2>. QED BY <2>2, <2>4, <2>5, <2>6, <2>7, LoopTable
<1>10. LoadInv(p)'
  BY <1>5, <1>6 DEF LoadInv
<1>11. OnlyFull(p)' /\ Acts(p) /\ l \in M!PCs
  BY <1>1, <1>7 DEF OnlyFull, Acts, M!PCs
<1>12. ~ New(p)'
  BY <1>5, <1>6 DEF New
<1>13. InCall(p)' /\ job'[p].op = "sbrk"
  BY <1>5, <1>6, <1>7 DEF InCall, InLoop
<1>. QED BY <1>1, <1>2, <1>6, <1>7, <1>8, <1>9, <1>10, <1>11, <1>12, <1>13, LocalKeeps

\* p is in exec(), whose table has n pages.
ExecAt(p) ==
    /\ InCall(p) /\ job[p].op = "exec" /\ job[p].stage = "page" /\ DOMAIN job[p] = JobFields
    /\ job[p].q = p /\ job[p].which = "exec" /\ mstate[p] = "RUNNABLE"
    /\ job[p].from \in Nat /\ job[p].va \in Int /\ job[p].end \in Nat /\ job[p].size \in Nat
    /\ job[p].segs \in Segments

LEMMA InExec ==
  ASSUME NEW p \in Tasks, RowInv(p), InCall(p), job[p].op = "exec",
         mpc[p] \in {"segment", "commit", "bad", "mapped"}
  PROVE  ExecAt(p)
BY DEF RowInv, JobInv, TableInv, ExecAt

LEMMA HeadTail ==
  ASSUME NEW S, NEW q \in Seq(S), q # <<>>
  PROVE  Head(q) \in S /\ Tail(q) \in Seq(S)
OBVIOUS

LEMMA HeadSegment ==
  ASSUME NEW q \in Segments, q # <<>>
  PROVE  Head(q).end \in Nat /\ Head(q).vaddr \in Nat /\ Tail(q) \in Segments
<1>. DEFINE S == [vaddr : Nat, end : Nat]
<1>1. q \in Seq(S)
  BY DEF Segments
<1>2. \A x \in S : x.end \in Nat /\ x.vaddr \in Nat
  OBVIOUS
<1>3. Seq(S) = Segments
  BY DEF Segments
<1>. HIDE DEF S
<1>. QED BY <1>1, <1>2, <1>3, HeadTail

LEMMA SegmentKeeps ==
  ASSUME M!VmAssumption, VmIInv, NEW p \in Tasks, M!Segment(p)
  PROVE  VmIInv'
<1>. DEFINE s == Head(job[p].segs)
            t == pt[<<p, "exec">>]
<1>1. ShapeInv /\ RowInv(p) /\ mpc[p] = "segment" /\ InCall(p) /\ job[p].segs # <<>>
  BY DEF VmIInv, M!Segment, InCall, InLoop
<1>2. UNCHANGED <<mstate, sz, trapframe, pt>>
  BY DEF M!Segment, M!procVars
<1>3. job[p].op = "exec"
  BY <1>1 DEF RowInv, TableInv
<1>4. ExecAt(p)
  BY <1>1, <1>3, InExec
<1>5. /\ Maps(t, M!Pages(job[p].size), trapframe[p]) /\ job[p].stack # TRUE
      /\ ~ job[p].stack => \A v \in DOMAIN t.leaf \ Top : t.leaf[v].u = TRUE
  BY <1>1, <1>3, <1>4 DEF RowInv, TableInv, LoadInv, JobInv, ExecAt, M!Target
<1>6. s.end \in Nat
  BY <1>1, <1>4, HeadSegment DEF ExecAt
<1>. HIDE DEF s, t
<1>7. CASE s.end < job[p].size /\ M!SetJob(p, [job[p] EXCEPT !.end = job[p].size]) /\ M!GoTo(p, "mapped")
  <2>1. /\ job'[p] = [job[p] EXCEPT !.end = job[p].size] /\ DOMAIN job' = Tasks /\ Others(p)
        /\ mpc'[p] = "mapped" /\ "mapped" \in M!PCs
    BY <1>1, <1>7, Moves DEF Others, M!PCs
  <2>2. Changed(p, {"end"}) /\ job'[p].end = job[p].size
    BY <1>4, <2>1 DEF Changed, ExecAt, JobFields
  <2>3. JobInv(p)'
    <3>1. /\ DOMAIN job'[p] = JobFields /\ job'[p].q = p /\ job'[p].which = "exec" /\ job'[p].op = "exec"
          /\ job'[p].stage = "page" /\ job'[p].from \in Nat /\ job'[p].va \in Int
          /\ job'[p].end \in Nat /\ job'[p].size \in Nat /\ job'[p].segs \in Segments
          /\ job'[p].stack # TRUE /\ mstate'[p] = "RUNNABLE"
      BY <1>2, <1>4, <1>5, <2>2 DEF Changed, JobFields, ExecAt
    <3>. QED BY <2>1, <3>1 DEF JobInv, InCall, InLoop, New
  <2>4. TableInv(p)'
    BY <1>2, <1>4, <1>5, <2>1, <2>2 DEF TableInv, InCall, InLoop, Changed, JobFields, ExecAt, M!Target, t
  <2>5. LoadInv(p)'
    <3>1. s.end <= job'[p].end
      BY <1>4, <1>6, <1>7, <2>2 DEF ExecAt
    <3>. QED BY <1>1, <1>2, <1>4, <1>5, <2>1, <2>2, <3>1
         DEF LoadInv, InCall, InLoop, Changed, JobFields, ExecAt, M!Target, t, s
  <2>6. InCall(p)' => job'[p].op = "exec"
    BY <1>3, <2>2 DEF Changed, JobFields
  <2>. QED BY <1>1, <1>2, <1>3, <1>7, <2>1, <2>3, <2>4, <2>5, <2>6, ExecKeeps
<1>8. CASE M!GoTo(p, "bad") /\ UNCHANGED job
  <2>1. mpc'[p] = "bad" /\ Others(p) /\ DOMAIN job' = Tasks /\ "bad" \in M!PCs
    BY <1>1, <1>8, Moves DEF Others, ShapeInv, M!PCs
  <2>2. JobInv(p)'
    BY <1>1, <1>2, <1>3, <1>4, <1>8, <2>1 DEF RowInv, JobInv, InCall, InLoop, New, ExecAt
  <2>3. TableInv(p)'
    BY <1>1, <1>2, <1>3, <1>4, <1>8, <2>1 DEF RowInv, TableInv, InCall, InLoop, Maps, M!Target, ExecAt
  <2>4. LoadInv(p)'
    BY <1>1, <1>2, <1>3, <1>4, <1>8, <2>1 DEF RowInv, LoadInv, InCall, InLoop, M!Target, ExecAt
  <2>. QED BY <1>1, <1>2, <1>3, <1>8, <2>1, <2>2, <2>3, <2>4, ExecKeeps
<1>9. CASE /\ s.end >= job[p].size
           /\ M!Loop(p, [job[p] EXCEPT !.from = M!Pages(job[p].size), !.va = M!Pages(job[p].size),
                                       !.end = s.end])
  <2>. DEFINE j == [job[p] EXCEPT !.from = M!Pages(job[p].size), !.va = M!Pages(job[p].size), !.end = s.end]
              va == M!Pages(job[p].size)
              end == s.end
  <2>1. /\ job'[p] = j /\ DOMAIN job' = Tasks /\ Others(p)
        /\ j.va * PGSIZE < j.end => mpc'[p] = "kalloc"
        /\ ~ (j.va * PGSIZE < j.end) => mpc'[p] = "mapped"
        /\ \E l \in {"kalloc", "mapped"} : M!GoTo(p, l)
    BY <1>1, <1>9, LoopMoves
  <2>2. PICK l \in {"kalloc", "mapped"} : M!GoTo(p, l) /\ mpc'[p] = l
    BY <1>1, <2>1, Moves
  <2>3. Changed(p, {"from", "va", "end"}) /\ job'[p].from = va /\ job'[p].va = va /\ job'[p].end = end
    BY <1>4, <2>1 DEF Changed, ExecAt, JobFields
  <2>4. /\ va * PGSIZE < end => mpc'[p] = "kalloc"
        /\ ~ (va * PGSIZE < end) => mpc'[p] = "mapped"
    BY <2>1, <2>3
  <2>5. va \in Nat /\ va \in Int /\ va <= va /\ end \in Nat /\ va <= M!Pages(end)
    BY <1>4, <1>6, <1>9, PagesNat, PagesMono DEF ExecAt
  <2>6. Maps(t, va, trapframe[p]) /\ va = M!Pages(job[p].size)
    BY <1>5
  <2>. HIDE DEF j, va, end
  <2>7. job'[p].stage = "page" /\ t = (pt[M!Target(p)])' /\ trapframe[p] = trapframe'[job'[p].q]
    BY <1>2, <1>4, <2>3 DEF Changed, JobFields, ExecAt, M!Target, t
  <2>8. TableInv(p)'
    BY <2>3, <2>4, <2>5, <2>6, <2>7, LoopTable
  <2>9. JobInv(p)'
    BY <1>2, <1>4, <1>5, <2>2, <2>3, <2>5, <2>6
    DEF JobInv, InCall, InLoop, New, Changed, JobFields, ExecAt
  <2>10. LoadInv(p)'
    <3>1. s.end <= job'[p].end
      BY <2>3, <1>6 DEF end
    <3>. QED BY <1>1, <1>2, <1>4, <1>5, <2>2, <2>3, <3>1
         DEF LoadInv, InCall, InLoop, Changed, JobFields, ExecAt, M!Target, t, s
  <2>11. (InCall(p)' => job'[p].op = "exec") /\ l \in M!PCs
    BY <1>3, <2>3 DEF Changed, JobFields, M!PCs
  <2>. QED BY <1>1, <1>2, <1>3, <2>1, <2>2, <2>8, <2>9, <2>10, <2>11, ExecKeeps
<1>. QED BY <1>7, <1>8, <1>9 DEF M!Segment, s

LEMMA StackPagesKeeps ==
  ASSUME M!VmAssumption, VmIInv, NEW p \in Tasks, M!StackPages(p)
  PROVE  VmIInv'
<1>. DEFINE top == M!PGROUNDUP(job[p].size)
            t == pt[<<p, "exec">>]
            va == M!Pages(top)
            end == top + 2 * PGSIZE
            j == [job[p] EXCEPT !.stack = TRUE, !.size = top, !.from = va, !.va = va, !.end = end]
<1>1. ShapeInv /\ RowInv(p) /\ mpc[p] = "segment" /\ InCall(p)
  BY DEF VmIInv, M!StackPages, InCall, InLoop
<1>2. UNCHANGED <<mstate, sz, trapframe, pt>> /\ M!Loop(p, j)
  BY DEF M!StackPages, M!procVars
<1>3. job[p].op = "exec"
  BY <1>1 DEF RowInv, TableInv
<1>4. ExecAt(p)
  BY <1>1, <1>3, InExec
<1>5. Maps(t, M!Pages(job[p].size), trapframe[p])
  BY <1>1, <1>4 DEF RowInv, TableInv, ExecAt, M!Target
<1>6. /\ top \in Nat /\ end \in Nat /\ va = M!Pages(job[p].size) /\ M!Pages(end) = va + 2
      /\ va \in Nat
  BY <1>4, PagesTop, PagesNat DEF ExecAt
<1>7. /\ DOMAIN j = JobFields
      /\ \A f \in JobFields \ {"stack", "size", "from", "va", "end"} : j[f] = job[p][f]
      /\ j.stack = TRUE /\ j.size = top /\ j.from = va /\ j.va = va /\ j.end = end
  BY <1>4 DEF ExecAt, JobFields
<1>. HIDE DEF j
<1>8. /\ job'[p] = j /\ DOMAIN job' = Tasks /\ Others(p)
      /\ j.va * PGSIZE < j.end => mpc'[p] = "kalloc"
      /\ ~ (j.va * PGSIZE < j.end) => mpc'[p] = "mapped"
      /\ \E l \in {"kalloc", "mapped"} : M!GoTo(p, l)
  BY <1>1, <1>2, LoopMoves
<1>9. PICK l \in {"kalloc", "mapped"} : M!GoTo(p, l) /\ mpc'[p] = l
  BY <1>1, <1>8, Moves
<1>. HIDE DEF va, end
<1>10. /\ va * PGSIZE < end => mpc'[p] = "kalloc"
       /\ ~ (va * PGSIZE < end) => mpc'[p] = "mapped"
  BY <1>7, <1>8
<1>11. /\ job'[p].va = va /\ job'[p].end = end /\ job'[p].from = va /\ job'[p].stage = "page"
       /\ t = (pt[M!Target(p)])' /\ trapframe[p] = trapframe'[job'[p].q]
  BY <1>2, <1>4, <1>7, <1>8 DEF JobFields, ExecAt, M!Target
<1>12. Maps(t, va, trapframe[p]) /\ va \in Int /\ va <= va /\ va <= M!Pages(end) /\ 2 <= M!Pages(end)
  BY <1>5, <1>6
<1>13. TableInv(p)'
  <2>. HIDE DEF t
  <2>. QED BY <1>6, <1>10, <1>11, <1>12, LoopTable
<1>14. JobInv(p)'
  <2>1. va = M!Pages(top)
    BY DEF va
  <2>. HIDE DEF top
  <2>. QED BY <1>2, <1>4, <1>6, <1>7, <1>8, <1>9, <1>11, <1>12, <2>1
           DEF JobInv, InCall, InLoop, New, JobFields, ExecAt
<1>15. LoadInv(p)'
  BY <1>7, <1>8 DEF LoadInv
<1>16. (InCall(p)' => job'[p].op = "exec") /\ l \in M!PCs
  BY <1>3, <1>7, <1>8 DEF JobFields, M!PCs
<1>. QED BY <1>1, <1>2, <1>3, <1>8, <1>9, <1>13, <1>14, <1>15, <1>16, ExecKeeps

LEMMA LoadsegKeeps ==
  ASSUME M!VmAssumption, VmIInv, NEW p \in Tasks, M!loadseg(p)
  PROVE  VmIInv'
<1>. DEFINE s == Head(job[p].segs)
            t == pt[<<p, "exec">>]
            need == (s.vaddr \div PGSIZE)..M!Pages(s.end) - 1
<1>1. ShapeInv /\ RowInv(p) /\ mpc[p] = "mapped" /\ InCall(p) /\ job[p].op = "exec" /\ ~ job[p].stack
  BY DEF VmIInv, M!loadseg, InCall, InLoop
<1>2. ExecAt(p)
  BY <1>1, InExec
<1>3. /\ Maps(t, M!Pages(job[p].end), trapframe[p])
      /\ \A v \in DOMAIN t.leaf \ Top : t.leaf[v].u = TRUE
      /\ job[p].segs # <<>> /\ s.end <= job[p].end
  BY <1>1, <1>2 DEF RowInv, TableInv, LoadInv, ExecAt, M!Target
<1>4. s.end \in Nat /\ s.vaddr \in Nat /\ Tail(job[p].segs) \in Segments
  BY <1>2, <1>3, HeadSegment DEF ExecAt
<1>5. \A v \in need : v \in DOMAIN t.leaf /\ t.leaf[v].u
  <2>0. PGSIZE \in Nat \ {0}
    BY Consts
  <2>1. M!Pages(s.end) <= M!Pages(job[p].end) /\ M!Pages(s.end) \in Nat /\ M!Pages(job[p].end) \in Nat
    <3>1. PICK e \in Nat : e = s.end
      BY <1>4
    <3>2. PICK f \in Nat : f = job[p].end
      BY <1>2 DEF ExecAt
    <3>3. e <= f
      BY <1>3, <3>1, <3>2
    <3>. HIDE DEF s
    <3>. QED BY <3>1, <3>2, <3>3, PagesMono, PagesNat
  <2>2. s.vaddr \div PGSIZE \in Nat
    <3>. HIDE DEF s
    <3>1. PICK a \in Nat : a = s.vaddr
      BY <1>4
    <3>. QED BY <2>0, <3>1
  <2>3. need \subseteq 0..M!Pages(job[p].end) - 1
    <3>1. PICK a \in Nat : a = s.vaddr \div PGSIZE
      BY <2>2
    <3>. QED BY <2>1, <3>1
  <2>. HIDE DEF need
  <2>4. \A v \in need : v \in DOMAIN t.leaf \ Top
    BY <1>3, <2>3 DEF Maps
  <2>. QED BY <1>3, <2>4
<1>6. /\ M!SetJob(p, [job[p] EXCEPT !.size = job[p].end, !.segs = Tail(@)])
      /\ \E next \in {"segment", "bad"} : M!GoTo(p, next)
      /\ UNCHANGED <<mstate, sz, trapframe, pt>>
  <2>1. pt[M!Target(p)] = t
    BY <1>2 DEF M!Target, ExecAt
  <2>. QED BY <1>5, <2>1 DEF M!loadseg, M!procVars
<1>. HIDE DEF need, s, t
<1>7. PICK l \in {"segment", "bad"} : M!GoTo(p, l)
  BY <1>6
<1>8. /\ mpc'[p] = l /\ Others(p) /\ DOMAIN job' = Tasks /\ l \in M!PCs
      /\ job'[p] = [job[p] EXCEPT !.size = job[p].end, !.segs = Tail(@)]
  BY <1>1, <1>6, <1>7, Moves DEF Others, M!PCs
<1>9. Changed(p, {"size", "segs"}) /\ job'[p].size = job[p].end /\ job'[p].segs = Tail(job[p].segs)
  BY <1>2, <1>8 DEF Changed, ExecAt, JobFields
<1>10. JobInv(p)'
  <2>1. /\ DOMAIN job'[p] = JobFields /\ job'[p].q = p /\ job'[p].which = "exec" /\ job'[p].op = "exec"
        /\ job'[p].stage = "page" /\ job'[p].from \in Nat /\ job'[p].va \in Int
        /\ job'[p].end \in Nat /\ job'[p].size \in Nat /\ job'[p].segs \in Segments
        /\ job'[p].stack # TRUE /\ mstate'[p] = "RUNNABLE"
    BY <1>1, <1>2, <1>4, <1>6, <1>9 DEF Changed, JobFields, ExecAt
  <2>. QED BY <1>8, <2>1 DEF JobInv, InCall, InLoop, New
<1>11. TableInv(p)'
  BY <1>2, <1>3, <1>6, <1>8, <1>9 DEF TableInv, InCall, InLoop, Changed, JobFields, ExecAt, M!Target, t
<1>12. LoadInv(p)'
  BY <1>2, <1>3, <1>6, <1>8, <1>9 DEF LoadInv, InCall, InLoop, Changed, JobFields, ExecAt, M!Target, t
<1>13. InCall(p)' => job'[p].op = "exec"
  BY <1>1, <1>9 DEF Changed, JobFields
<1>. QED BY <1>1, <1>6, <1>7, <1>8, <1>10, <1>11, <1>12, <1>13, ExecKeeps

LEMMA UserStackKeeps ==
  ASSUME M!VmAssumption, VmIInv, NEW p \in Tasks, M!UserStack(p)
  PROVE  VmIInv'
<1>. DEFINE T == <<p, "exec">>
            i == M!Pages(job[p].end) - 2
<1>1. ShapeInv /\ RowInv(p) /\ mpc[p] = "mapped" /\ InCall(p) /\ job[p].op = "exec" /\ job[p].stack
  BY DEF VmIInv, M!UserStack, InCall, InLoop
<1>2. ExecAt(p) /\ T \in M!Tables
  BY <1>1, InExec DEF M!Tables
<1>3. Maps(pt[T], M!Pages(job[p].end), trapframe[p])
  BY <1>1, <1>2 DEF RowInv, TableInv, ExecAt, M!Target
<1>4. job[p].stack = TRUE => M!Pages(job[p].end) >= 2
  BY <1>1, <1>2 DEF RowInv, JobInv
<1>5. UNCHANGED <<mstate, sz, trapframe>> /\ pt' = [pt EXCEPT ![T].leaf[i].u = FALSE]
  BY <1>2 DEF M!UserStack, M!procVars, ExecAt, M!Target
<1>6. PICK l \in {"commit", "bad"} : M!GoTo(p, l) /\ M!SetJob(p, [job[p] EXCEPT !.size = job[p].end])
  BY DEF M!UserStack
<1>7. /\ mpc'[p] = l /\ Others(p) /\ DOMAIN job' = Tasks /\ mpc' \in [Tasks -> M!PCs]
      /\ job'[p] = [job[p] EXCEPT !.size = job[p].end]
  BY <1>1, <1>6, Moves DEF Others, M!PCs
<1>8. Changed(p, {"size"}) /\ job'[p].size = job[p].end
  BY <1>2, <1>7 DEF Changed, ExecAt, JobFields
<1>9. i # M!TRAPFRAME
  <2>1. M!Pages(job[p].end) \in Nat
    BY <1>2, PagesNat DEF ExecAt
  <2>2. M!Pages(job[p].end) >= 2 => i \in 0..M!Pages(job[p].end) - 1
    BY <2>1
  <2>3. job[p].stack = TRUE
    BY <1>1, Zenon
  <2>4. i \in 0..M!Pages(job[p].end) - 1
    BY <1>4, <2>2, <2>3
  <2>. HIDE DEF i
  <2>. QED BY <1>3, <2>4 DEF Maps, Top
<1>. HIDE DEF i
<1>10. DOMAIN pt' = M!Tables /\ \A u \in M!Tables : u # T => pt'[u] = pt[u]
  BY <1>1, <1>5 DEF ShapeInv
<1>11. /\ DOMAIN pt'[T] = {"root", "tables", "leaf"}
       /\ DOMAIN pt'[T].leaf = DOMAIN pt[T].leaf
       /\ \A z \in DOMAIN pt[T].leaf : z # i => pt'[T].leaf[z] = pt[T].leaf[z]
  <2>1. DOMAIN pt[T] = {"root", "tables", "leaf"} /\ T \in DOMAIN pt
    BY <1>1, <1>2 DEF ShapeInv
  <2>2. DOMAIN pt'[T] = {"root", "tables", "leaf"}
    BY <1>5, <2>1
  <2>3. DOMAIN pt'[T].leaf = DOMAIN pt[T].leaf
    BY <1>5, <2>1
  <2>4. \A z \in DOMAIN pt[T].leaf : z # i => pt'[T].leaf[z] = pt[T].leaf[z]
    BY <1>5, <2>1
  <2>. QED BY <2>2, <2>3, <2>4
<1>12. Maps(pt'[T], M!Pages(job[p].end), trapframe[p])
  BY <1>3, <1>9, <1>11 DEF Maps, Top
<1>13. ShapeInv'
  BY <1>1, <1>5, <1>7, <1>10, <1>11 DEF ShapeInv
<1>14. RowsOf(p) /\ Reach(p, p) /\ Acts(p)
  <2>1. \A r \in Tasks : r # p => pt'[<<r, "proc">>] = pt[<<r, "proc">>] /\ pt'[<<r, "exec">>] = pt[<<r, "exec">>]
    BY <1>10 DEF M!Tables
  <2>. QED BY <1>1, <1>5, <2>1 DEF RowsOf, Reach, Acts
<1>15. JobInv(p)'
  <2>1. /\ DOMAIN job'[p] = JobFields /\ job'[p].q = p /\ job'[p].which = "exec" /\ job'[p].op = "exec"
        /\ job'[p].stage = "page" /\ job'[p].from \in Nat /\ job'[p].va \in Int
        /\ job'[p].end \in Nat /\ job'[p].size \in Nat /\ job'[p].segs \in Segments
        /\ job'[p].end = job[p].end /\ job'[p].stack = job[p].stack /\ mstate'[p] = "RUNNABLE"
    BY <1>2, <1>5, <1>8 DEF Changed, JobFields, ExecAt
  <2>. QED BY <1>4, <1>7, <2>1 DEF JobInv, InCall, InLoop, New
<1>16. TableInv(p)'
  BY <1>2, <1>5, <1>7, <1>8, <1>12 DEF TableInv, InCall, InLoop, Changed, JobFields, ExecAt, M!Target
<1>17. LoadInv(p)'
  BY <1>1, <1>8 DEF LoadInv, Changed, JobFields
<1>18. SizeInv(p)'
  <2>1. Maps(pt[Own(p)], M!Pages(sz[p]), trapframe[p]) /\ mstate[p] = "RUNNABLE"
    BY <1>1, <1>2 DEF RowInv, SizeInv, ExecAt
  <2>2. pt'[Own(p)] = pt[Own(p)]
    BY <1>10 DEF Own, M!Tables
  <2>. QED BY <1>5, <2>1, <2>2 DEF SizeInv, Own
<1>19. OnlyFull(p)' /\ mpc'[p] # "boot"
  BY <1>7 DEF OnlyFull
<1>20. ~ New(p)'
  BY <1>1, <1>8 DEF New, Changed, JobFields
<1>. QED BY <1>7, <1>13, <1>14, <1>15, <1>16, <1>17, <1>18, <1>19, <1>20, StepKeeps DEF RowInv

LEMMA NoTableFields ==
  DOMAIN M!NoTable = {"root", "tables", "leaf"} /\ DOMAIN M!NoTable.leaf = {}
BY DEF M!NoTable

LEMMA CommitKeeps ==
  ASSUME M!VmAssumption, VmIInv, NEW p \in Tasks, M!Commit(p)
  PROVE  VmIInv'
<1>1. ShapeInv /\ RowInv(p) /\ mpc[p] = "commit" /\ InCall(p)
  BY DEF VmIInv, M!Commit, InCall, InLoop
<1>2. job[p].op = "exec"
  BY <1>1 DEF RowInv, TableInv
<1>3. ExecAt(p)
  BY <1>1, <1>2, InExec
<1>4. Maps(pt[<<p, "exec">>], M!Pages(job[p].size), trapframe[p])
  BY <1>1, <1>3 DEF RowInv, TableInv, ExecAt, M!Target
<1>5. Maps(pt[<<p, "proc">>], M!Pages(sz[p]), trapframe[p])
  BY <1>1, <1>3 DEF RowInv, SizeInv, ExecAt, Own
<1>6. M!CanFree(pt[<<p, "proc">>], sz[p])
  BY <1>5, MapsFree
<1>7. /\ pt' = [pt EXCEPT ![<<p, "proc">>] = pt[<<p, "exec">>], ![<<p, "exec">>] = M!NoTable]
      /\ sz' = [sz EXCEPT ![p] = job[p].size] /\ M!Return(p) /\ UNCHANGED <<mstate, trapframe>>
  BY <1>6 DEF M!Commit
<1>8. mpc'[p] = "user" /\ ~ InCall(p)' /\ Others(p) /\ DOMAIN job' = Tasks /\ mpc' \in [Tasks -> M!PCs]
  BY <1>1, <1>7, Returns
<1>9. <<p, "proc">> \in M!Tables /\ <<p, "exec">> \in M!Tables /\ <<p, "proc">> # <<p, "exec">>
  BY DEF M!Tables
<1>10. /\ DOMAIN pt' = M!Tables /\ pt'[<<p, "proc">>] = pt[<<p, "exec">>] /\ pt'[<<p, "exec">>] = M!NoTable
       /\ \A u \in M!Tables : u # <<p, "proc">> /\ u # <<p, "exec">> => pt'[u] = pt[u]
  BY <1>1, <1>7, <1>9 DEF ShapeInv
<1>11. sz' \in [Tasks -> Nat] /\ sz'[p] = job[p].size /\ \A r \in Tasks : r # p => sz'[r] = sz[r]
  BY <1>1, <1>3, <1>7 DEF ShapeInv, ExecAt
<1>12. ShapeInv'
  <2>1. \A u \in M!Tables : DOMAIN pt'[u] = {"root", "tables", "leaf"}
    BY <1>1, <1>9, <1>10, NoTableFields DEF ShapeInv
  <2>. QED BY <1>1, <1>7, <1>8, <1>10, <1>11, <2>1 DEF ShapeInv
<1>13. RowsOf(p) /\ Reach(p, p) /\ Acts(p)
  <2>1. \A r \in Tasks : r # p => pt'[<<r, "proc">>] = pt[<<r, "proc">>] /\ pt'[<<r, "exec">>] = pt[<<r, "exec">>]
    BY <1>10 DEF M!Tables
  <2>. QED BY <1>1, <1>7, <1>11, <2>1 DEF RowsOf, Reach, Acts
<1>14. JobInv(p)' /\ TableInv(p)' /\ LoadInv(p)'
  BY <1>8 DEF JobInv, TableInv, LoadInv
<1>15. SizeInv(p)'
  <2>1. Maps(pt'[Own(p)], M!Pages(sz'[p]), trapframe'[p])
    BY <1>4, <1>7, <1>10, <1>11 DEF Own
  <2>. QED BY <1>3, <1>7, <2>1 DEF SizeInv, ExecAt, Own
<1>16. OnlyFull(p)' /\ mpc'[p] # "boot"
  BY <1>8 DEF OnlyFull
<1>. QED BY <1>8, <1>12, <1>13, <1>14, <1>15, <1>16, StepKeeps DEF RowInv

\* What is left of a table when the pages of the loop are given back.
LEMMA UndoneMaps ==
  ASSUME M!VmAssumption, NEW p \in Tasks, NEW tf, DOMAIN pt[M!Target(p)] = {"root", "tables", "leaf"},
         job[p].from \in Nat, job[p].va \in Int, job[p].from <= job[p].va,
         Maps(pt[M!Target(p)], job[p].va, tf)
  PROVE  Maps(M!Undone(p), job[p].from, tf)
<1>1. M!Undone(p).leaf = M!Without(pt[M!Target(p)].leaf, job[p].from..job[p].va - 1)
  BY DEF M!Undone, M!Mapped
<1>2. job[p].va \in Nat
  OBVIOUS
<1>. QED BY <1>1, <1>2, MapsLess

LEMMA ExecBadKeeps ==
  ASSUME M!VmAssumption, VmIInv, NEW p \in Tasks, M!ExecBad(p)
  PROVE  VmIInv'
<1>. DEFINE undone == IF mpc[p] = "bad" THEN pt[M!Target(p)] ELSE M!Undone(p)
<1>1. ShapeInv /\ RowInv(p) /\ mpc[p] \in {"bad", "failed"} /\ InCall(p) /\ job[p].op = "exec"
  BY DEF VmIInv, M!ExecBad, InCall, InLoop
<1>2. /\ job[p].q = p /\ job[p].which = "exec" /\ mstate[p] = "RUNNABLE" /\ M!Target(p) = <<p, "exec">>
      /\ job[p].from \in Nat /\ job[p].va \in Int
      /\ mpc[p] = "failed" /\ job[p].stage = "page" => job[p].from = M!Pages(job[p].size)
  BY <1>1 DEF RowInv, JobInv, M!Target, InLoop
<1>3. <<p, "proc">> \in M!Tables /\ <<p, "exec">> \in M!Tables /\ <<p, "proc">> # <<p, "exec">>
  BY DEF M!Tables
<1>4. job[p].stage = "page" => M!CanFree(undone, job[p].size)
  <2>. SUFFICES ASSUME job[p].stage = "page" PROVE M!CanFree(undone, job[p].size)
    OBVIOUS
  <2>1. CASE mpc[p] = "bad"
    <3>1. Maps(pt[M!Target(p)], M!Pages(job[p].size), trapframe[p])
      BY <1>1, <1>2, <2>1 DEF RowInv, TableInv
    <3>. QED BY <2>1, <3>1, MapsFree
  <2>2. CASE mpc[p] = "failed"
    <3>1. Maps(pt[M!Target(p)], job[p].va, trapframe[p]) /\ job[p].from <= job[p].va
      BY <1>1, <1>2, <2>2 DEF RowInv, TableInv, InLoop
    <3>2. DOMAIN pt[M!Target(p)] = {"root", "tables", "leaf"}
      BY <1>1, <1>2, <1>3 DEF ShapeInv
    <3>3. Maps(M!Undone(p), job[p].from, trapframe[p])
      BY <1>2, <3>1, <3>2, UndoneMaps
    <3>. QED BY <1>2, <2>2, <3>3, MapsFree
  <2>. QED BY <1>1, <2>1, <2>2
<1>5. /\ pt' = [pt EXCEPT ![<<p, "exec">>] = M!NoTable] /\ M!Return(p)
      /\ UNCHANGED <<mstate, sz, trapframe>>
  BY <1>2, <1>4 DEF M!ExecBad, M!procVars
<1>6. mpc'[p] = "user" /\ ~ InCall(p)' /\ Others(p) /\ DOMAIN job' = Tasks /\ mpc' \in [Tasks -> M!PCs]
  BY <1>1, <1>5, Returns
<1>7. /\ DOMAIN pt' = M!Tables /\ pt'[<<p, "exec">>] = M!NoTable
      /\ \A u \in M!Tables : u # <<p, "exec">> => pt'[u] = pt[u]
  BY <1>1, <1>3, <1>5 DEF ShapeInv
<1>8. ShapeInv'
  <2>1. \A u \in M!Tables : DOMAIN pt'[u] = {"root", "tables", "leaf"}
    BY <1>1, <1>7, NoTableFields DEF ShapeInv
  <2>. QED BY <1>1, <1>5, <1>6, <1>7, <2>1 DEF ShapeInv
<1>9. RowsOf(p) /\ Reach(p, p) /\ Acts(p)
  <2>1. \A r \in Tasks : r # p => pt'[<<r, "proc">>] = pt[<<r, "proc">>] /\ pt'[<<r, "exec">>] = pt[<<r, "exec">>]
    BY <1>7 DEF M!Tables
  <2>. QED BY <1>1, <1>5, <2>1 DEF RowsOf, Reach, Acts
<1>10. JobInv(p)' /\ TableInv(p)' /\ LoadInv(p)'
  BY <1>6 DEF JobInv, TableInv, LoadInv
<1>11. SizeInv(p)'
  <2>1. Maps(pt[Own(p)], M!Pages(sz[p]), trapframe[p])
    BY <1>1, <1>2 DEF RowInv, SizeInv
  <2>2. pt'[Own(p)] = pt[Own(p)]
    BY <1>3, <1>7 DEF Own
  <2>. QED BY <1>2, <1>5, <2>1, <2>2 DEF SizeInv, Own
<1>12. OnlyFull(p)' /\ mpc'[p] # "boot"
  BY <1>6 DEF OnlyFull
<1>. QED BY <1>6, <1>8, <1>9, <1>10, <1>11, <1>12, StepKeeps DEF RowInv

-----------------------------------------------------------------------------
(* Processes that begin, end, grow and shrink.                             *)

\* p is not in a call, before or after a step that leaves its own memory alone.
LEMMA IdleRow ==
  ASSUME NEW p \in Tasks, ~ InCall(p)', mpc'[p] \in {"user"}, SizeInv(p)'
  PROVE  RowInv(p)'
BY DEF RowInv, JobInv, TableInv, LoadInv, OnlyFull

LEMMA ExitKeeps ==
  ASSUME VmIInv, NEW p \in Tasks, M!exit(p)
  PROVE  VmIInv'
<1>1. ShapeInv /\ RowInv(p) /\ mpc[p] = "user" /\ mstate[p] = "RUNNABLE" /\ ~ InCall(p)
  BY DEF VmIInv, M!exit, InCall, InLoop
<1>2. UNCHANGED <<sz, trapframe, pt, mpc, job>> /\ mstate' = [mstate EXCEPT ![p] = "ZOMBIE"]
  BY DEF M!exit
<1>3. /\ mstate' \in [Tasks -> {"UNUSED", "USED", "RUNNABLE", "ZOMBIE"}] /\ mstate'[p] = "ZOMBIE"
      /\ \A r \in Tasks : r # p => mstate'[r] = mstate[r]
  BY <1>1, <1>2 DEF ShapeInv
<1>4. ShapeInv'
  BY <1>1, <1>2, <1>3 DEF ShapeInv
<1>5. Others(p) /\ RowsOf(p) /\ Reach(p, p) /\ Acts(p)
  BY <1>1, <1>2, <1>3 DEF Others, RowsOf, Reach, Acts
<1>6. ~ InCall(p)' /\ mpc'[p] = "user"
  BY <1>1, <1>2 DEF InCall, InLoop
<1>7. SizeInv(p)'
  <2>1. Maps(pt[Own(p)], M!Pages(sz[p]), trapframe[p])
    BY <1>1 DEF RowInv, SizeInv
  <2>. QED BY <1>2, <1>3, <1>6, <2>1 DEF SizeInv, Own
<1>8. RowInv(p)'
  BY <1>6, <1>7, IdleRow
<1>. QED BY <1>4, <1>5, <1>6, <1>8, StepKeeps

LEMMA Cleared ==
  ASSUME ShapeInv, NEW s \in Tasks, M!ClearProc(s)
  PROVE  /\ RowsOf(s) /\ SizeInv(s)'
         /\ mstate' \in [Tasks -> {"UNUSED", "USED", "RUNNABLE", "ZOMBIE"}] /\ sz' \in [Tasks -> Nat]
         /\ DOMAIN trapframe' = Tasks
         /\ DOMAIN pt' = M!Tables /\ \A t \in M!Tables : DOMAIN pt'[t] = {"root", "tables", "leaf"}
<1>1. /\ mstate' = [mstate EXCEPT ![s] = "UNUSED"] /\ sz' = [sz EXCEPT ![s] = 0]
      /\ trapframe' = [trapframe EXCEPT ![s] = 0] /\ pt' = [pt EXCEPT ![<<s, "proc">>] = M!NoTable]
  BY DEF M!ClearProc
<1>2. /\ mstate'[s] = "UNUSED" /\ \A r \in Tasks : r # s => mstate'[r] = mstate[r]
      /\ mstate' \in [Tasks -> {"UNUSED", "USED", "RUNNABLE", "ZOMBIE"}]
  BY <1>1 DEF ShapeInv
<1>3. sz' \in [Tasks -> Nat] /\ sz'[s] = 0 /\ \A r \in Tasks : r # s => sz'[r] = sz[r]
  BY <1>1 DEF ShapeInv
<1>4. DOMAIN trapframe' = Tasks /\ \A r \in Tasks : r # s => trapframe'[r] = trapframe[r]
  BY <1>1 DEF ShapeInv
<1>5. /\ DOMAIN pt' = M!Tables /\ \A t \in M!Tables : DOMAIN pt'[t] = {"root", "tables", "leaf"}
      /\ \A t \in M!Tables : t # <<s, "proc">> => pt'[t] = pt[t]
  BY <1>1, NoTableFields DEF ShapeInv
<1>6. \A r \in Tasks : r # s => pt'[<<r, "proc">>] = pt[<<r, "proc">>] /\ pt'[<<r, "exec">>] = pt[<<r, "exec">>]
  BY <1>5 DEF M!Tables
<1>7. SizeInv(s)'
  BY <1>2, <1>3 DEF SizeInv
<1>. QED BY <1>2, <1>3, <1>4, <1>5, <1>6, <1>7 DEF RowsOf

LEMMA WaitKeeps ==
  ASSUME M!VmAssumption, VmIInv, NEW p \in Tasks, NEW q \in Tasks, M!wait(p, q)
  PROVE  VmIInv'
<1>1. /\ ShapeInv /\ RowInv(p) /\ RowInv(q) /\ mpc[p] = "user" /\ mstate[p] = "RUNNABLE" /\ ~ InCall(p)
      /\ mstate[q] = "ZOMBIE"
  BY DEF VmIInv, M!wait, InCall, InLoop
<1>2. mpc[q] = "user"
  BY <1>1 DEF RowInv, SizeInv
<1>3. Maps(pt[<<q, "proc">>], M!Pages(sz[q]), trapframe[q])
  BY <1>1, <1>2 DEF RowInv, SizeInv, InCall, InLoop, Own
<1>4. M!CanFree(pt[<<q, "proc">>], sz[q])
  BY <1>3, MapsFree
<1>5. M!ClearProc(q) /\ UNCHANGED <<mpc, job>>
  BY <1>4 DEF M!wait
<1>6. /\ RowsOf(q) /\ SizeInv(q)' /\ Reach(p, q) /\ Acts(p) /\ Others(p)
  BY <1>1, <1>5, Cleared DEF Reach, Acts, Others
<1>7. ShapeInv'
  BY <1>1, <1>5, Cleared DEF ShapeInv
<1>8. RowInv(p)'
  <2>1. mpc'[p] = mpc[p] /\ job'[p] = job[p]
    BY <1>5
  <2>2. /\ mstate'[p] = mstate[p] /\ sz'[p] = sz[p] /\ trapframe'[p] = trapframe[p]
        /\ pt'[<<p, "proc">>] = pt[<<p, "proc">>]
    BY <1>1, <1>6 DEF RowsOf
  <2>. QED BY <1>1, <2>1, <2>2, RowSame
<1>9. mpc'[p] # "boot" /\ ~ InCall(p)'
  BY <1>1, <1>5 DEF InCall, InLoop
<1>. QED BY <1>6, <1>7, <1>8, <1>9, StepKeeps

LEMMA GrownKeeps ==
  ASSUME VmIInv, NEW p \in Tasks, M!Grown(p)
  PROVE  VmIInv'
<1>1. ShapeInv /\ RowInv(p) /\ mpc[p] = "mapped" /\ job[p].op = "sbrk" /\ InCall(p)
  BY DEF VmIInv, M!Grown, InCall, InLoop
<1>2. /\ job[p].q = p /\ job[p].which = "proc" /\ mstate[p] = "RUNNABLE" /\ job[p].end \in Nat
  BY <1>1 DEF RowInv, JobInv
<1>3. Maps(pt[Own(p)], M!Pages(job[p].end), trapframe[p])
  BY <1>1, <1>2 DEF RowInv, TableInv, M!Target, Own
<1>4. sz' = [sz EXCEPT ![p] = job[p].end] /\ M!Return(p) /\ UNCHANGED <<mstate, trapframe, pt>>
  BY DEF M!Grown
<1>5. mpc'[p] = "user" /\ ~ InCall(p)' /\ Others(p) /\ DOMAIN job' = Tasks /\ mpc' \in [Tasks -> M!PCs]
  BY <1>1, <1>4, Returns
<1>6. sz' \in [Tasks -> Nat] /\ sz'[p] = job[p].end /\ \A r \in Tasks : r # p => sz'[r] = sz[r]
  BY <1>1, <1>2, <1>4 DEF ShapeInv
<1>7. ShapeInv'
  BY <1>1, <1>4, <1>5, <1>6 DEF ShapeInv
<1>8. RowsOf(p) /\ Reach(p, p) /\ Acts(p)
  BY <1>1, <1>4, <1>6 DEF RowsOf, Reach, Acts
<1>9. SizeInv(p)'
  BY <1>2, <1>3, <1>4, <1>6 DEF SizeInv, Own
<1>10. RowInv(p)'
  BY <1>5, <1>9, IdleRow
<1>. QED BY <1>5, <1>7, <1>8, <1>10, StepKeeps

\* A step of p that gives its own table T another set of leaves.
LEMMA OwnTable ==
  ASSUME ShapeInv, NEW p \in Tasks, NEW t, DOMAIN t = {"root", "tables", "leaf"},
         pt' = [pt EXCEPT ![<<p, "proc">>] = t]
  PROVE  /\ DOMAIN pt' = M!Tables /\ \A u \in M!Tables : DOMAIN pt'[u] = {"root", "tables", "leaf"}
         /\ pt'[<<p, "proc">>] = t
         /\ \A r \in Tasks : r # p => pt'[<<r, "proc">>] = pt[<<r, "proc">>] /\ pt'[<<r, "exec">>] = pt[<<r, "exec">>]
<1>1. <<p, "proc">> \in M!Tables /\ \A r \in Tasks : <<r, "proc">> \in M!Tables /\ <<r, "exec">> \in M!Tables
  BY DEF M!Tables
<1>2. /\ DOMAIN pt' = M!Tables /\ pt'[<<p, "proc">>] = t
      /\ \A u \in M!Tables : u # <<p, "proc">> => pt'[u] = pt[u]
  BY <1>1 DEF ShapeInv
<1>3. \A u \in M!Tables : DOMAIN pt'[u] = {"root", "tables", "leaf"}
  BY <1>2 DEF ShapeInv
<1>. QED BY <1>1, <1>2, <1>3

LEMMA GrowFailsKeeps ==
  ASSUME M!VmAssumption, VmIInv, NEW p \in Tasks, M!GrowFails(p)
  PROVE  VmIInv'
<1>1. ShapeInv /\ RowInv(p) /\ mpc[p] = "failed" /\ job[p].op = "sbrk" /\ InCall(p) /\ InLoop(p)
  BY DEF VmIInv, M!GrowFails, InCall, InLoop
<1>2. /\ M!Target(p) = Own(p) /\ mstate[p] = "RUNNABLE" /\ job[p].stage = "page"
      /\ job[p].from = M!Pages(sz[p]) /\ job[p].q = p /\ job[p].from \in Nat /\ job[p].va \in Int
  BY <1>1 DEF RowInv, JobInv, M!Target, Own
<1>3. Maps(pt[M!Target(p)], job[p].va, trapframe[p]) /\ job[p].from <= job[p].va
  BY <1>1, <1>2 DEF RowInv, TableInv
<1>4. DOMAIN pt[M!Target(p)] = {"root", "tables", "leaf"}
  BY <1>1, <1>2 DEF ShapeInv, M!Tables, Own
<1>5. Maps(M!Undone(p), M!Pages(sz[p]), trapframe[p])
  BY <1>2, <1>3, <1>4, UndoneMaps
<1>6. DOMAIN M!Undone(p) = {"root", "tables", "leaf"}
  BY <1>4 DEF M!Undone
<1>7. pt' = [pt EXCEPT ![<<p, "proc">>] = M!Undone(p)] /\ M!Return(p) /\ UNCHANGED <<mstate, sz, trapframe>>
  BY <1>2 DEF M!GrowFails, M!procVars, Own
<1>8. mpc'[p] = "user" /\ ~ InCall(p)' /\ Others(p) /\ DOMAIN job' = Tasks /\ mpc' \in [Tasks -> M!PCs]
  BY <1>1, <1>7, Returns
<1>9. /\ DOMAIN pt' = M!Tables /\ \A u \in M!Tables : DOMAIN pt'[u] = {"root", "tables", "leaf"}
      /\ pt'[<<p, "proc">>] = M!Undone(p)
      /\ \A r \in Tasks : r # p => pt'[<<r, "proc">>] = pt[<<r, "proc">>] /\ pt'[<<r, "exec">>] = pt[<<r, "exec">>]
  BY <1>1, <1>6, <1>7, OwnTable
<1>10. ShapeInv'
  BY <1>1, <1>7, <1>8, <1>9 DEF ShapeInv
<1>11. RowsOf(p) /\ Reach(p, p) /\ Acts(p)
  BY <1>1, <1>7, <1>9 DEF RowsOf, Reach, Acts
<1>12. SizeInv(p)'
  BY <1>2, <1>5, <1>7, <1>9 DEF SizeInv, Own
<1>13. RowInv(p)'
  BY <1>8, <1>12, IdleRow
<1>. QED BY <1>8, <1>10, <1>11, <1>13, StepKeeps

LEMMA ShrinkKeeps ==
  ASSUME M!VmAssumption, VmIInv, NEW p \in Tasks, NEW n \in Grows, M!Shrink(p, n)
  PROVE  VmIInv'
<1>. DEFINE newsz == sz[p] + n
            t == pt[<<p, "proc">>]
            gone == M!Pages(newsz)..M!Pages(sz[p]) - 1
            u == [t EXCEPT !.leaf = M!Without(@, gone)]
<1>1. ShapeInv /\ RowInv(p) /\ mpc[p] = "user" /\ mstate[p] = "RUNNABLE" /\ ~ InCall(p)
  BY DEF VmIInv, M!Shrink, InCall, InLoop
<1>2. sz[p] \in Nat /\ newsz \in Nat /\ newsz <= sz[p]
  BY <1>1, Consts DEF ShapeInv, M!Shrink
<1>3. M!Pages(sz[p]) \in Nat /\ M!Pages(newsz) \in Nat /\ M!Pages(newsz) <= M!Pages(sz[p])
  BY <1>2, PagesNat, PagesMono
<1>4. Maps(t, M!Pages(sz[p]), trapframe[p])
  BY <1>1 DEF RowInv, SizeInv, Own
<1>5. gone \subseteq DOMAIN t.leaf
  <2>1. gone \subseteq 0..M!Pages(sz[p]) - 1
    BY <1>3
  <2>. QED BY <1>4, <2>1 DEF Maps
<1>6. DOMAIN t = {"root", "tables", "leaf"} /\ <<p, "proc">> \in DOMAIN pt
  BY <1>1 DEF ShapeInv, M!Tables
<1>7. /\ pt' = [pt EXCEPT ![<<p, "proc">>].leaf = M!Without(@, gone)]
      /\ sz' = [sz EXCEPT ![p] = newsz] /\ UNCHANGED <<mstate, trapframe, mpc, job>>
  BY <1>5 DEF M!Shrink
<1>8. pt' = [pt EXCEPT ![<<p, "proc">>] = u]
  BY <1>6, <1>7
<1>9. DOMAIN u = {"root", "tables", "leaf"} /\ u.leaf = M!Without(t.leaf, gone)
  BY <1>6
<1>. HIDE DEF u
<1>10. Maps(u, M!Pages(newsz), trapframe[p])
  BY <1>3, <1>4, <1>9, MapsLess
<1>11. /\ DOMAIN pt' = M!Tables /\ \A x \in M!Tables : DOMAIN pt'[x] = {"root", "tables", "leaf"}
       /\ pt'[<<p, "proc">>] = u
       /\ \A r \in Tasks : r # p => pt'[<<r, "proc">>] = pt[<<r, "proc">>] /\ pt'[<<r, "exec">>] = pt[<<r, "exec">>]
  BY <1>1, <1>8, <1>9, OwnTable
<1>12. sz' \in [Tasks -> Nat] /\ sz'[p] = newsz /\ \A r \in Tasks : r # p => sz'[r] = sz[r]
  BY <1>1, <1>2, <1>7 DEF ShapeInv
<1>. HIDE DEF newsz
<1>13. ShapeInv'
  BY <1>1, <1>7, <1>11, <1>12 DEF ShapeInv
<1>14. RowsOf(p) /\ Reach(p, p) /\ Acts(p) /\ Others(p)
  BY <1>1, <1>7, <1>11, <1>12 DEF RowsOf, Reach, Acts, Others
<1>15. ~ InCall(p)' /\ mpc'[p] = "user"
  BY <1>1, <1>7 DEF InCall, InLoop
<1>16. SizeInv(p)'
  BY <1>1, <1>7, <1>10, <1>11, <1>12 DEF SizeInv, Own
<1>17. RowInv(p)'
  BY <1>15, <1>16, IdleRow
<1>. QED BY <1>13, <1>14, <1>15, <1>17, StepKeeps

LEMMA UserinitKeeps ==
  ASSUME M!VmAssumption, VmIInv, NEW p \in Tasks, M!userinit(p)
  PROVE  VmIInv'
<1>. DEFINE c == M!Call("userinit", p, "proc")
<1>1. ShapeInv /\ RowInv(p) /\ mpc[p] = "boot" /\ mstate[p] = "UNUSED" /\ ~ InCall(p)
  BY DEF VmIInv, BootInv, M!userinit
<1>2. /\ mstate' = [mstate EXCEPT ![p] = "USED"] /\ M!GoTo(p, "kalloc")
      /\ M!SetJob(p, [c EXCEPT !.stage = "trapframe", !.end = PGSIZE])
      /\ UNCHANGED <<sz, trapframe, pt>>
  BY DEF M!userinit
<1>. HIDE DEF c
<1>3. /\ DOMAIN c = JobFields /\ c.op = "userinit" /\ c.q = p /\ c.which = "proc"
      /\ c.from = 0 /\ c.va = 0 /\ c.size = 0 /\ c.segs = <<>>
  BY DEF c, M!Call, JobFields
<1>4. /\ mpc'[p] = "kalloc" /\ Others(p) /\ DOMAIN job' = Tasks /\ mpc' \in [Tasks -> M!PCs]
      /\ job'[p] = [c EXCEPT !.stage = "trapframe", !.end = PGSIZE]
  BY <1>1, <1>2, Moves DEF Others, M!PCs
<1>5. /\ DOMAIN job'[p] = JobFields /\ job'[p].op = "userinit" /\ job'[p].q = p /\ job'[p].which = "proc"
      /\ job'[p].from = 0 /\ job'[p].va = 0 /\ job'[p].size = 0 /\ job'[p].segs = <<>>
      /\ job'[p].stage = "trapframe" /\ job'[p].end = PGSIZE
  BY <1>3, <1>4 DEF JobFields
<1>6. /\ mstate' \in [Tasks -> {"UNUSED", "USED", "RUNNABLE", "ZOMBIE"}] /\ mstate'[p] = "USED"
      /\ \A r \in Tasks : r # p => mstate'[r] = mstate[r]
  BY <1>1, <1>2 DEF ShapeInv
<1>7. ShapeInv'
  BY <1>1, <1>2, <1>4, <1>6 DEF ShapeInv
<1>8. RowsOf(p) /\ Reach(p, p) /\ Acts(p)
  BY <1>1, <1>2, <1>6 DEF RowsOf, Reach, Acts
<1>9. JobInv(p)'
  <2>1. <<>> \in Segments /\ PGSIZE \in Nat
    BY Consts DEF Segments
  <2>. QED BY <1>4, <1>5, <1>6, <2>1 DEF JobInv, InCall, InLoop, New
<1>10. TableInv(p)'
  BY <1>4, <1>5 DEF TableInv, InCall, InLoop
<1>11. LoadInv(p)' /\ OnlyFull(p)'
  BY <1>4, <1>5 DEF LoadInv, OnlyFull
<1>12. SizeInv(p)'
  BY <1>1, <1>2, <1>6 DEF RowInv, SizeInv
<1>. QED BY <1>1, <1>4, <1>5, <1>7, <1>8, <1>9, <1>10, <1>11, <1>12, StepKeeps DEF RowInv

LEMMA ForkKeeps ==
  ASSUME M!VmAssumption, VmIInv, NEW p \in Tasks, NEW q \in Tasks, M!fork(p, q)
  PROVE  VmIInv'
<1>. DEFINE c == M!Call("fork", q, "proc")
<1>1. /\ ShapeInv /\ RowInv(p) /\ RowInv(q) /\ mpc[p] = "user" /\ mstate[p] = "RUNNABLE" /\ ~ InCall(p)
      /\ mstate[q] = "UNUSED"
  BY DEF VmIInv, M!fork, InCall, InLoop
<1>2. /\ mstate' = [mstate EXCEPT ![q] = "USED"] /\ M!GoTo(p, "kalloc")
      /\ M!SetJob(p, [c EXCEPT !.stage = "trapframe", !.end = sz[p]])
      /\ UNCHANGED <<sz, trapframe, pt>>
  BY DEF M!fork
<1>. HIDE DEF c
<1>3. /\ DOMAIN c = JobFields /\ c.op = "fork" /\ c.q = q /\ c.which = "proc"
      /\ c.from = 0 /\ c.va = 0 /\ c.size = 0 /\ c.segs = <<>>
  BY DEF c, M!Call, JobFields
<1>4. /\ mpc'[p] = "kalloc" /\ Others(p) /\ DOMAIN job' = Tasks /\ mpc' \in [Tasks -> M!PCs]
      /\ job'[p] = [c EXCEPT !.stage = "trapframe", !.end = sz[p]]
  BY <1>1, <1>2, Moves DEF Others, M!PCs
<1>5. /\ DOMAIN job'[p] = JobFields /\ job'[p].op = "fork" /\ job'[p].q = q /\ job'[p].which = "proc"
      /\ job'[p].from = 0 /\ job'[p].va = 0 /\ job'[p].size = 0 /\ job'[p].segs = <<>>
      /\ job'[p].stage = "trapframe" /\ job'[p].end = sz[p]
  BY <1>3, <1>4 DEF JobFields
<1>6. /\ mstate' \in [Tasks -> {"UNUSED", "USED", "RUNNABLE", "ZOMBIE"}] /\ mstate'[q] = "USED"
      /\ \A r \in Tasks : r # q => mstate'[r] = mstate[r]
  BY <1>1, <1>2 DEF ShapeInv
<1>7. ShapeInv' /\ sz[p] \in Nat
  BY <1>1, <1>2, <1>4, <1>6 DEF ShapeInv
<1>8. RowsOf(q) /\ Reach(p, q) /\ Acts(p)
  BY <1>1, <1>2, <1>6 DEF RowsOf, Reach, Acts
<1>9. JobInv(p)'
  <2>1. <<>> \in Segments /\ mstate'[p] = "RUNNABLE"
    BY <1>1, <1>6 DEF Segments
  <2>. QED BY <1>2, <1>4, <1>5, <1>6, <1>7, <2>1 DEF JobInv, InCall, InLoop, New
<1>10. TableInv(p)'
  BY <1>4, <1>5 DEF TableInv, InCall, InLoop
<1>11. LoadInv(p)' /\ OnlyFull(p)'
  BY <1>4, <1>5 DEF LoadInv, OnlyFull
<1>12. SizeInv(p)'
  <2>1. Maps(pt[Own(p)], M!Pages(sz[p]), trapframe[p])
    BY <1>1 DEF RowInv, SizeInv
  <2>2. mstate'[p] = "RUNNABLE"
    BY <1>1, <1>6
  <2>. QED BY <1>2, <2>1, <2>2 DEF SizeInv, Own
<1>13. SizeInv(q)'
  BY <1>1, <1>2, <1>6 DEF RowInv, SizeInv
<1>. QED BY <1>1, <1>4, <1>5, <1>7, <1>8, <1>9, <1>10, <1>11, <1>12, <1>13, StepKeeps DEF RowInv

\* What a process that builds another one knows.
LEMMA BuilderRow ==
  ASSUME NEW p \in Tasks, RowInv(p), InCall(p), New(p)
  PROVE  /\ job[p].q \in Tasks /\ job[p].which = "proc" /\ mstate[job[p].q] = "USED" /\ job[p].from = 0
         /\ M!Target(p) = Own(job[p].q) /\ job[p].end \in Nat /\ job[p].va \in Int
         /\ job[p].q = p \/ (job[p].q # p /\ mstate[p] = "RUNNABLE" /\ job[p].op = "fork")
<1>1. /\ job[p].q \in Tasks /\ job[p].which = "proc" /\ mstate[job[p].q] = "USED" /\ job[p].from = 0
      /\ job[p].end \in Nat /\ job[p].va \in Int
      /\ job[p].op = "userinit" => job[p].q = p
      /\ job[p].op = "fork" => mstate[p] = "RUNNABLE"
  BY DEF RowInv, JobInv
<1>. QED BY <1>1 DEF M!Target, Own, New

LEMMA BornKeeps ==
  ASSUME VmIInv, NEW p \in Tasks, M!Born(p)
  PROVE  VmIInv'
<1>1. ShapeInv /\ RowInv(p) /\ mpc[p] = "mapped" /\ InCall(p) /\ New(p)
  BY DEF VmIInv, M!Born, InCall, InLoop, New
<1>0. PICK q \in Tasks : q = job[p].q
  BY <1>1, BuilderRow
<1>2. /\ q \in Tasks /\ mstate[q] = "USED" /\ M!Target(p) = Own(q) /\ job[p].end \in Nat
      /\ q = p \/ (q # p /\ mstate[p] = "RUNNABLE" /\ job[p].op = "fork")
  BY <1>0, <1>1, BuilderRow
<1>3. Maps(pt[Own(q)], M!Pages(job[p].end), trapframe[q])
  BY <1>0, <1>1, <1>2 DEF RowInv, TableInv
<1>4. /\ sz' = [sz EXCEPT ![q] = job[p].end] /\ mstate' = [mstate EXCEPT ![q] = "RUNNABLE"]
      /\ M!Return(p) /\ UNCHANGED <<trapframe, pt>>
  BY <1>0 DEF M!Born
<1>5. mpc'[p] = "user" /\ ~ InCall(p)' /\ Others(p) /\ DOMAIN job' = Tasks /\ mpc' \in [Tasks -> M!PCs]
  BY <1>1, <1>4, Returns
<1>6. sz' \in [Tasks -> Nat] /\ sz'[q] = job[p].end /\ \A r \in Tasks : r # q => sz'[r] = sz[r]
  BY <1>1, <1>2, <1>4 DEF ShapeInv
<1>7. /\ mstate' \in [Tasks -> {"UNUSED", "USED", "RUNNABLE", "ZOMBIE"}] /\ mstate'[q] = "RUNNABLE"
      /\ \A r \in Tasks : r # q => mstate'[r] = mstate[r]
  BY <1>1, <1>2, <1>4 DEF ShapeInv
<1>8. ShapeInv'
  BY <1>1, <1>4, <1>5, <1>6, <1>7 DEF ShapeInv
<1>9. RowsOf(q) /\ Reach(p, q) /\ Acts(p)
  BY <1>0, <1>1, <1>4, <1>6, <1>7 DEF RowsOf, Reach, Acts
<1>10. SizeInv(q)'
  BY <1>3, <1>4, <1>6, <1>7 DEF SizeInv, Own
<1>11. SizeInv(p)'
  <2>1. CASE q = p
    BY <1>10, <2>1
  <2>2. CASE q # p /\ mstate[p] = "RUNNABLE" /\ job[p].op = "fork"
    <3>1. Maps(pt[Own(p)], M!Pages(sz[p]), trapframe[p])
      BY <1>1, <2>2 DEF RowInv, SizeInv
    <3>2. sz'[p] = sz[p] /\ mstate'[p] = "RUNNABLE"
      BY <1>6, <1>7, <2>2
    <3>. QED BY <1>4, <3>1, <3>2 DEF SizeInv, Own
  <2>. QED BY <1>2, <2>1, <2>2
<1>12. RowInv(p)'
  BY <1>5, <1>11, IdleRow
<1>. QED BY <1>2, <1>5, <1>8, <1>9, <1>10, <1>12, StepKeeps

LEMMA ForkFailsKeeps ==
  ASSUME M!VmAssumption, VmIInv, NEW p \in Tasks, M!ForkFails(p)
  PROVE  VmIInv'
<1>1. /\ ShapeInv /\ RowInv(p) /\ mpc[p] = "failed" /\ InCall(p) /\ InLoop(p) /\ New(p)
      /\ job[p].op = "fork"
  BY DEF VmIInv, M!ForkFails, InCall, InLoop, New
<1>0. PICK q \in Tasks : q = job[p].q
  BY <1>1, BuilderRow
<1>2. /\ q \in Tasks /\ mstate[q] = "USED" /\ M!Target(p) = Own(q) /\ job[p].from = 0 /\ job[p].va \in Int
      /\ mstate[p] = "RUNNABLE" /\ q # p
  <2>1. mstate[p] = "RUNNABLE"
    BY <1>1 DEF RowInv, JobInv
  <2>. QED BY <1>0, <1>1, <2>1, BuilderRow
<1>3. job[p].stage = "page" => M!CanFree(M!Undone(p), sz[q])
  <2>. SUFFICES ASSUME job[p].stage = "page" PROVE M!CanFree(M!Undone(p), sz[q])
    OBVIOUS
  <2>1. Maps(pt[M!Target(p)], job[p].va, trapframe[q]) /\ job[p].from <= job[p].va
    BY <1>0, <1>1 DEF RowInv, TableInv
  <2>2. DOMAIN pt[M!Target(p)] = {"root", "tables", "leaf"}
    BY <1>1, <1>2 DEF ShapeInv, M!Tables, Own
  <2>3. job[p].from \in Nat
    BY <1>2
  <2>4. Maps(M!Undone(p), job[p].from, trapframe[q])
    BY <1>2, <2>1, <2>2, <2>3, UndoneMaps
  <2>5. sz[q] = 0
    BY <1>2 DEF VmIInv, RowInv, SizeInv
  <2>6. M!Pages(sz[q]) = 0
    BY <2>5, PagesNat
  <2>7. Maps(M!Undone(p), M!Pages(sz[q]), trapframe[q])
    BY <1>2, <2>4, <2>6
  <2>. QED BY <2>7, MapsFree
<1>4. M!ClearProc(q) /\ M!Return(p)
  BY <1>0, <1>3 DEF M!ForkFails
<1>5. mpc'[p] = "user" /\ ~ InCall(p)' /\ Others(p) /\ DOMAIN job' = Tasks /\ mpc' \in [Tasks -> M!PCs]
  BY <1>1, <1>4, Returns
<1>6. RowsOf(q) /\ SizeInv(q)' /\ Reach(p, q) /\ Acts(p)
  BY <1>0, <1>1, <1>2, <1>4, Cleared DEF Reach, Acts
<1>7. ShapeInv'
  BY <1>1, <1>2, <1>4, <1>5, Cleared DEF ShapeInv
<1>8. SizeInv(p)'
  <2>1. Maps(pt[Own(p)], M!Pages(sz[p]), trapframe[p])
    BY <1>1, <1>2 DEF RowInv, SizeInv
  <2>2. /\ mstate'[p] = mstate[p] /\ sz'[p] = sz[p] /\ trapframe'[p] = trapframe[p] /\ pt'[Own(p)] = pt[Own(p)]
    BY <1>2, <1>6 DEF RowsOf, Own
  <2>. QED BY <1>2, <2>1, <2>2 DEF SizeInv, Own
<1>9. RowInv(p)'
  BY <1>5, <1>8, IdleRow
<1>. QED BY <1>2, <1>5, <1>6, <1>7, <1>9, StepKeeps

-----------------------------------------------------------------------------
(* Building a table.                                                       *)

\* The step gives the table T other contents, and no other.
Rebuilt(T, t) ==
    /\ DOMAIN pt' = M!Tables /\ pt'[T] = t
    /\ \A u \in M!Tables : u # T => pt'[u] = pt[u]

LEMMA Rebuilds ==
  ASSUME ShapeInv, NEW T \in M!Tables, NEW t, pt' = [pt EXCEPT ![T] = t]
  PROVE  Rebuilt(T, t)
BY DEF ShapeInv, Rebuilt

LEMMA BuildKeeps ==
  ASSUME VmIInv, NEW p \in Tasks, InLoop(p), NEW t, DOMAIN t = {"root", "tables", "leaf"},
         Rebuilt(M!Target(p), t), UNCHANGED <<mstate, sz, trapframe>>,
         Others(p), DOMAIN job' = Tasks, mpc' \in [Tasks -> M!PCs], InCall(p)',
         job'[p].op = job[p].op, job'[p].q = job[p].q, JobInv(p)', TableInv(p)', LoadInv(p)'
  PROVE  VmIInv'
<1>1. ShapeInv /\ RowInv(p) /\ InCall(p) /\ mpc[p] # "panic"
  BY DEF VmIInv, InCall, InLoop
<1>2. PICK s \in Tasks : s = job[p].q
  BY <1>1 DEF RowInv, JobInv
<1>3. /\ New(p) => job[p].which = "proc" /\ mstate[s] = "USED"
      /\ job[p].op = "userinit" => s = p
      /\ job[p].op = "fork" => mstate[p] = "RUNNABLE"
      /\ job[p].op = "sbrk" => s = p /\ job[p].which = "proc" /\ mstate[p] = "RUNNABLE"
      /\ job[p].op = "exec" => s = p /\ job[p].which = "exec" /\ mstate[p] = "RUNNABLE"
      /\ job[p].op \in {"userinit", "fork", "sbrk", "exec"}
  BY <1>1, <1>2 DEF RowInv, JobInv
<1>4. M!Target(p) = <<s, job[p].which>> /\ job[p].which \in {"proc", "exec"}
  BY <1>2, <1>3 DEF M!Target, New
<1>5. M!Target(p) \in M!Tables /\ \A r \in Tasks : <<r, "proc">> \in M!Tables /\ <<r, "exec">> \in M!Tables
  BY <1>4 DEF M!Tables
<1>6. /\ DOMAIN pt' = M!Tables /\ pt'[M!Target(p)] = t /\ \A u \in M!Tables : u # M!Target(p) => pt'[u] = pt[u]
  BY DEF Rebuilt
<1>7. ShapeInv'
  <2>1. \A u \in M!Tables : DOMAIN pt'[u] = {"root", "tables", "leaf"}
    BY <1>1, <1>6 DEF ShapeInv
  <2>. QED BY <1>1, <1>6, <2>1 DEF ShapeInv
<1>8. RowsOf(s) /\ Reach(p, s) /\ Acts(p)
  <2>1. \A r \in Tasks : r # s => pt'[<<r, "proc">>] = pt[<<r, "proc">>] /\ pt'[<<r, "exec">>] = pt[<<r, "exec">>]
    BY <1>4, <1>5, <1>6
  <2>2. s = p \/ New(p)
    BY <1>3 DEF New
  <2>. QED BY <1>1, <1>2, <2>1, <2>2 DEF RowsOf, Reach, Acts
<1>9. s # p => SizeInv(s)'
  <2>1. s # p => New(p)
    BY <1>3 DEF New
  <2>2. SizeInv(s)
    BY DEF VmIInv, RowInv
  <2>. QED BY <1>3, <2>1, <2>2 DEF SizeInv
<1>10. SizeInv(p)'
  <2>1. SizeInv(p)
    BY <1>1 DEF RowInv
  <2>2. CASE job[p].op = "userinit"
    BY <1>3, <2>1, <2>2 DEF SizeInv, New
  <2>3. CASE job[p].op = "sbrk"
    BY <1>3, <2>1, <2>3 DEF SizeInv
  <2>4. CASE job[p].op \in {"fork", "exec"}
    <3>1. Maps(pt[Own(p)], M!Pages(sz[p]), trapframe[p])
      BY <1>1, <1>3, <2>1, <2>4 DEF SizeInv
    <3>2. Own(p) # M!Target(p)
      BY <1>3, <1>4, <2>4 DEF Own, New
    <3>3. pt'[Own(p)] = pt[Own(p)]
      BY <1>5, <1>6, <3>2 DEF Own
    <3>. QED BY <1>3, <2>4, <3>1, <3>3 DEF SizeInv, Own
  <2>. QED BY <1>3, <2>2, <2>3, <2>4
<1>11. OnlyFull(p)' /\ mpc'[p] # "boot"
  BY DEF OnlyFull, InCall, InLoop
<1>12. New(p)' => New(p)
  BY DEF New
<1>. QED BY <1>1, <1>7, <1>8, <1>9, <1>10, <1>11, <1>12, StepKeeps DEF RowInv

LEMMA AllocTrapframeKeeps ==
  ASSUME VmIInv, NEW p \in Tasks, M!AllocTrapframe(p)
  PROVE  VmIInv'
<1>1. ShapeInv /\ RowInv(p) /\ mpc[p] = "kalloc" /\ job[p].stage = "trapframe" /\ InCall(p) /\ InLoop(p)
  BY DEF VmIInv, M!AllocTrapframe, InCall, InLoop
<1>2. New(p) /\ DOMAIN job[p] = JobFields
  BY <1>1 DEF RowInv, JobInv, New
<1>3. PICK q \in Tasks : /\ q = job[p].q /\ mstate[q] = "USED"
                         /\ q = p \/ (q # p /\ mstate[p] = "RUNNABLE" /\ job[p].op = "fork")
  BY <1>1, <1>2, BuilderRow
<1>4. /\ trapframe' = [trapframe EXCEPT ![q] = M!Page] /\ UNCHANGED <<mstate, sz, pt, mpc>>
      /\ M!SetJob(p, [job[p] EXCEPT !.stage = "root"])
  BY <1>3 DEF M!AllocTrapframe
<1>5. /\ Others(p) /\ DOMAIN job' = Tasks /\ job'[p] = [job[p] EXCEPT !.stage = "root"]
      /\ mpc'[p] = "kalloc"
  BY <1>1, <1>4, Moves DEF Others
<1>6. Changed(p, {"stage"}) /\ job'[p].stage = "root"
  BY <1>2, <1>5 DEF Changed, JobFields
<1>7. DOMAIN trapframe' = Tasks /\ \A r \in Tasks : r # q => trapframe'[r] = trapframe[r]
  BY <1>1, <1>4 DEF ShapeInv
<1>8. ShapeInv'
  BY <1>1, <1>4, <1>5, <1>7 DEF ShapeInv
<1>9. RowsOf(q) /\ Reach(p, q) /\ Acts(p)
  BY <1>1, <1>2, <1>3, <1>4, <1>7 DEF RowsOf, Reach, Acts
<1>10. SizeInv(q)'
  BY <1>3, <1>4 DEF VmIInv, RowInv, SizeInv
<1>11. SizeInv(p)'
  <2>1. CASE q = p
    BY <1>10, <2>1
  <2>2. CASE q # p /\ mstate[p] = "RUNNABLE" /\ job[p].op = "fork"
    <3>1. Maps(pt[Own(p)], M!Pages(sz[p]), trapframe[p])
      BY <1>1, <2>2 DEF RowInv, SizeInv
    <3>2. trapframe'[p] = trapframe[p]
      BY <1>7, <2>2
    <3>. QED BY <1>4, <2>2, <3>1, <3>2 DEF SizeInv, Own
  <2>. QED BY <1>3, <2>1, <2>2
<1>12. JobInv(p)'
  BY <1>1, <1>2, <1>4, <1>5, <1>6 DEF RowInv, JobInv, InCall, InLoop, New, Changed, JobFields
<1>13. TableInv(p)'
  BY <1>5, <1>6 DEF TableInv, InCall, InLoop
<1>14. LoadInv(p)' /\ OnlyFull(p)'
  BY <1>5, <1>6 DEF LoadInv, OnlyFull
<1>15. New(p)' => New(p) /\ job'[p].q = job[p].q
  BY <1>2, <1>6 DEF Changed, JobFields
<1>. QED BY <1>1, <1>5, <1>8, <1>9, <1>10, <1>11, <1>12, <1>13, <1>14, <1>15, StepKeeps DEF RowInv

LEMMA UvmcreateKeeps ==
  ASSUME M!VmAssumption, VmIInv, NEW p \in Tasks, M!uvmcreate(p)
  PROVE  VmIInv'
<1>. DEFINE t == [M!NoTable EXCEPT !.root = M!Page]
<1>1. ShapeInv /\ RowInv(p) /\ mpc[p] = "kalloc" /\ job[p].stage = "root" /\ InCall(p) /\ InLoop(p)
  BY DEF VmIInv, M!uvmcreate, InCall, InLoop
<1>2. /\ pt' = [pt EXCEPT ![M!Target(p)] = t] /\ UNCHANGED <<mstate, sz, trapframe>>
      /\ M!SetJob(p, [job[p] EXCEPT !.stage = "trampoline", !.va = M!TRAMPOLINE]) /\ M!GoTo(p, "map")
  BY DEF M!uvmcreate, M!procVars
<1>3. DOMAIN t = {"root", "tables", "leaf"} /\ DOMAIN t.leaf = {}
  BY NoTableFields
<1>. HIDE DEF t
<1>4. /\ Others(p) /\ DOMAIN job' = Tasks /\ mpc'[p] = "map" /\ mpc' \in [Tasks -> M!PCs]
      /\ job'[p] = [job[p] EXCEPT !.stage = "trampoline", !.va = M!TRAMPOLINE]
  BY <1>1, <1>2, Moves DEF Others, M!PCs
<1>5. DOMAIN job[p] = JobFields
  BY <1>1 DEF RowInv, JobInv
<1>6. Changed(p, {"stage", "va"}) /\ job'[p].stage = "trampoline" /\ job'[p].va = M!TRAMPOLINE
  BY <1>4, <1>5 DEF Changed, JobFields
<1>7. InCall(p)' /\ job'[p].op = job[p].op /\ job'[p].q = job[p].q /\ job'[p].which = job[p].which
  BY <1>4, <1>6 DEF InCall, InLoop, Changed, JobFields
<1>8. job[p].q \in Tasks /\ job[p].which \in {"proc", "exec"}
  BY <1>1 DEF RowInv, JobInv, New
<1>9. Rebuilt(M!Target(p), t) /\ pt'[M!Target(p)] = t /\ M!Target(p)' = M!Target(p)
  <2>1. M!Target(p) \in M!Tables /\ M!Target(p)' = M!Target(p)
    BY <1>7, <1>8 DEF M!Target, M!Tables
  <2>2. Rebuilt(M!Target(p), t)
    BY <1>1, <1>2, <2>1, Rebuilds
  <2>. QED BY <2>1, <2>2 DEF Rebuilt
<1>10. JobInv(p)'
  <2>1. M!TRAMPOLINE \in Int
    BY Consts
  <2>. QED BY <1>1, <1>2, <1>4, <1>5, <1>6, <2>1 DEF RowInv, JobInv, InCall, InLoop, New, Changed, JobFields
<1>11. TableInv(p)'
  BY <1>3, <1>4, <1>6, <1>9 DEF TableInv, InCall, InLoop
<1>12. LoadInv(p)'
  BY <1>6 DEF LoadInv
<1>. QED BY <1>1, <1>2, <1>3, <1>4, <1>7, <1>9, <1>10, <1>11, <1>12, BuildKeeps

\* Whose table it is
LEMMA TargetTable ==
  ASSUME VmIInv, NEW p \in Tasks, InCall(p)
  PROVE  /\ job[p].q \in Tasks /\ job[p].which \in {"proc", "exec"} /\ M!Target(p) \in M!Tables
         /\ DOMAIN pt = M!Tables /\ DOMAIN pt[M!Target(p)] = {"root", "tables", "leaf"}
         /\ DOMAIN job[p] = JobFields
<1>1. RowInv(p) /\ ShapeInv
  BY DEF VmIInv
<1>2. job[p].q \in Tasks /\ job[p].which \in {"proc", "exec"} /\ DOMAIN job[p] = JobFields
  BY <1>1 DEF RowInv, JobInv, New
<1>3. M!Target(p) \in M!Tables
  BY <1>2 DEF M!Target, M!Tables
<1>. QED BY <1>1, <1>2, <1>3 DEF ShapeInv

LEMMA WalkKeeps ==
  ASSUME VmIInv, NEW p \in Tasks, M!walk(p)
  PROVE  VmIInv'
<1>1. ShapeInv /\ RowInv(p) /\ mpc[p] = "map" /\ InCall(p) /\ InLoop(p)
  BY DEF VmIInv, M!walk, InCall, InLoop
<1>2. UNCHANGED <<mstate, sz, trapframe, job>>
  BY DEF M!walk, M!procVars
<1>3. \/ \E n, x : pt' = [pt EXCEPT ![M!Target(p)].tables = M!Extend(@, n, x)] /\ UNCHANGED mpc
      \/ M!GoTo(p, "failed") /\ UNCHANGED pt
  BY DEF M!walk
<1>4. PICK T \in M!Tables : /\ T = M!Target(p) /\ DOMAIN pt = M!Tables
                            /\ DOMAIN pt[T] = {"root", "tables", "leaf"}
  BY <1>1, TargetTable
<1>5. PICK t : /\ Rebuilt(T, t) /\ DOMAIN t = {"root", "tables", "leaf"} /\ t.leaf = pt[T].leaf
  <2>1. CASE UNCHANGED pt
    <3>1. Rebuilt(T, pt[T])
      BY <1>4, <2>1 DEF Rebuilt
    <3>. QED BY <1>4, <3>1
  <2>2. ASSUME NEW n, NEW x, pt' = [pt EXCEPT ![T].tables = M!Extend(@, n, x)]
        PROVE  \E t : /\ Rebuilt(T, t) /\ DOMAIN t = {"root", "tables", "leaf"}
                      /\ t.leaf = pt[T].leaf
    <3>. DEFINE u == [pt[T] EXCEPT !.tables = M!Extend(@, n, x)]
    <3>1. pt' = [pt EXCEPT ![T] = u]
      BY <1>4, <2>2
    <3>2. DOMAIN u = {"root", "tables", "leaf"} /\ u.leaf = pt[T].leaf
      BY <1>4
    <3>. HIDE DEF u
    <3>. QED BY <1>1, <3>1, <3>2, Rebuilds
  <2>. QED BY <1>3, <1>4, <2>1, <2>2
<1>6. PICK l \in {"map", "failed"} : mpc'[p] = l /\ mpc' \in [Tasks -> M!PCs] /\ Others(p)
  <2>1. CASE UNCHANGED mpc
    BY <1>1, <1>2, <2>1 DEF Others, ShapeInv
  <2>2. CASE M!GoTo(p, "failed")
    BY <1>1, <1>2, <2>2, Moves DEF Others, M!PCs
  <2>. QED BY <1>3, <2>1, <2>2
<1>7. InCall(p)' /\ job'[p] = job[p] /\ DOMAIN job' = Tasks
  BY <1>1, <1>2, <1>6 DEF InCall, InLoop, ShapeInv
<1>8. pt'[T] = t /\ M!Target(p)' = T
  BY <1>2, <1>4, <1>5 DEF M!Target, Rebuilt
<1>9. JobInv(p)'
  BY <1>1, <1>2, <1>6 DEF RowInv, JobInv, InCall, InLoop, New
<1>10. TableInv(p)'
  BY <1>1, <1>2, <1>4, <1>5, <1>6, <1>8 DEF RowInv, TableInv, InCall, InLoop, Maps
<1>11. LoadInv(p)'
  BY <1>1, <1>2, <1>4, <1>5, <1>6, <1>8 DEF RowInv, LoadInv, InCall, InLoop
<1>. QED BY <1>1, <1>2, <1>4, <1>5, <1>6, <1>7, <1>9, <1>10, <1>11, BuildKeeps

\* A page can be mapped, unless the program has grown up to the trapframe.
LEMMA RemapOnlyFull ==
  ASSUME M!VmAssumption, VmIInv, NEW p \in Tasks, mpc[p] = "map",
         job[p].va \in DOMAIN pt[M!Target(p)].leaf
  PROVE  job[p].va \in Top
<1>1. RowInv(p) /\ InCall(p) /\ InLoop(p)
  BY DEF VmIInv, InCall, InLoop
<1>2. /\ job[p].stage \in {"trapframe", "root", "trampoline", "trapframe_va", "page"} /\ job[p].va \in Int
  BY <1>1 DEF RowInv, JobInv
<1>3. CASE job[p].stage \in {"trapframe", "root"}
  BY <1>1, <1>3 DEF RowInv, TableInv
<1>4. CASE job[p].stage = "trampoline"
  BY <1>1, <1>4 DEF RowInv, TableInv
<1>5. CASE job[p].stage = "trapframe_va"
  BY <1>1, <1>5, Consts DEF RowInv, TableInv
<1>6. CASE job[p].stage = "page"
  <2>1. Maps(pt[M!Target(p)], job[p].va, trapframe[job[p].q])
    BY <1>1, <1>6 DEF RowInv, TableInv
  <2>2. job[p].va \notin 0..job[p].va - 1
    BY <1>2
  <2>. QED BY <2>1, <2>2 DEF Maps
<1>. QED BY <1>2, <1>3, <1>4, <1>5, <1>6

LEMMA MappagesKeeps ==
  ASSUME M!VmAssumption, VmIInv, NEW p \in Tasks, M!mappages(p)
  PROVE  VmIInv'
<1>1. ShapeInv /\ RowInv(p) /\ mpc[p] = "map" /\ InCall(p) /\ InLoop(p)
  BY DEF VmIInv, M!mappages, InCall, InLoop
<1>2. PICK T \in M!Tables : /\ T = M!Target(p) /\ DOMAIN pt = M!Tables
                            /\ DOMAIN pt[T] = {"root", "tables", "leaf"}
  BY <1>1, TargetTable
<1>3. CASE job[p].va \in DOMAIN pt[T].leaf /\ M!Panics(p)
  <2>1. job[p].va \in Top
    BY <1>1, <1>2, <1>3, RemapOnlyFull
  <2>2. Acts(p)
    BY <1>1 DEF Acts
  <2>. QED BY <1>3, <2>1, <2>2, PanicKeeps
<1>4. CASE job[p].va \notin DOMAIN pt[T].leaf
  <2>1. /\ pt' = [pt EXCEPT ![T].leaf = M!Extend(@, job[p].va, M!Pte(p))]
        /\ UNCHANGED <<mstate, sz, trapframe>>
    BY <1>2, <1>4 DEF M!mappages, M!procVars
  <2>2. \/ /\ job[p].stage = "trampoline"
           /\ M!SetJob(p, [job[p] EXCEPT !.stage = "trapframe_va", !.va = M!TRAPFRAME])
           /\ UNCHANGED mpc
        \/ /\ job[p].stage = "trapframe_va" /\ job[p].op # "exec"
           /\ M!Loop(p, [job[p] EXCEPT !.stage = "page", !.va = 0])
        \/ /\ job[p].stage = "trapframe_va" /\ job[p].op = "exec"
           /\ M!SetJob(p, [job[p] EXCEPT !.stage = "page"])
           /\ M!GoTo(p, "segment")
        \/ /\ job[p].stage = "page"
           /\ M!Loop(p, [job[p] EXCEPT !.va = @ + 1, !.mem = 0])
    BY <1>2, <1>4 DEF M!mappages
  <2>3. PICK t : /\ pt' = [pt EXCEPT ![T] = t] /\ DOMAIN t = {"root", "tables", "leaf"}
                 /\ t.leaf = M!Extend(pt[T].leaf, job[p].va, M!Pte(p))
    <3>. DEFINE u == [pt[T] EXCEPT !.leaf = M!Extend(@, job[p].va, M!Pte(p))]
    <3>1. pt' = [pt EXCEPT ![T] = u]
      BY <1>2, <2>1
    <3>2. DOMAIN u = {"root", "tables", "leaf"} /\ u.leaf = M!Extend(pt[T].leaf, job[p].va, M!Pte(p))
      BY <1>2
    <3>. QED BY <3>1, <3>2
  <2>4. pt'[T] = t /\ DOMAIN t.leaf = DOMAIN pt[T].leaf \cup {job[p].va} /\ t.leaf[job[p].va] = M!Pte(p)
        /\ \A z \in DOMAIN pt[T].leaf : t.leaf[z] = pt[T].leaf[z]
    <3>1. \A z \in DOMAIN pt[T].leaf : z # job[p].va
      BY <1>4
    <3>. QED BY <1>2, <2>3, <3>1 DEF M!Extend
  <2>5. PICK q \in Tasks : q = job[p].q /\ DOMAIN job[p] = JobFields /\ job[p].which \in {"proc", "exec"}
    BY <1>1, TargetTable
  <2>6. /\ job[p].va \in Int /\ job[p].from \in Nat /\ job[p].end \in Nat /\ job[p].size \in Nat
        /\ job[p].op \in {"userinit", "fork", "sbrk", "exec"}
    BY <1>1 DEF RowInv, JobInv
  \* After a step to job j of which only the fields of F are new.
  <2>7. ASSUME Changed(p, {"stage", "va", "mem"}), Others(p), DOMAIN job' = Tasks,
               mpc' \in [Tasks -> M!PCs], InCall(p)', JobInv(p)', TableInv(p)', LoadInv(p)'
        PROVE  VmIInv'
    <3>1. job'[p].op = job[p].op /\ job'[p].q = job[p].q
      BY <2>7 DEF Changed, JobFields
    <3>2. Rebuilt(T, t)
      BY <1>1, <2>3, Rebuilds
    <3>. QED BY <1>1, <1>2, <2>1, <2>3, <2>7, <3>1, <3>2, BuildKeeps
  <2>8. ASSUME Changed(p, {"stage", "va", "mem"}) PROVE M!Target(p)' = T /\ job'[p].q = q
    BY <1>2, <2>5, <2>8 DEF M!Target, Changed, JobFields
  <2>9. CASE /\ job[p].stage = "trampoline"
             /\ M!SetJob(p, [job[p] EXCEPT !.stage = "trapframe_va", !.va = M!TRAPFRAME])
             /\ UNCHANGED mpc
    <3>1. /\ Others(p) /\ DOMAIN job' = Tasks /\ mpc'[p] = "map" /\ mpc' \in [Tasks -> M!PCs]
          /\ job'[p] = [job[p] EXCEPT !.stage = "trapframe_va", !.va = M!TRAPFRAME]
      BY <1>1, <2>9, Moves DEF Others, ShapeInv
    <3>2. Changed(p, {"stage", "va", "mem"}) /\ job'[p].stage = "trapframe_va" /\ job'[p].va = M!TRAPFRAME
      BY <2>5, <3>1 DEF Changed, JobFields
    <3>3. DOMAIN t.leaf = {M!TRAMPOLINE}
      BY <1>1, <1>2, <2>4, <2>9 DEF RowInv, TableInv
    <3>4. M!TRAPFRAME \in Int
      BY Consts
    <3>5. JobInv(p)'
      BY <1>1, <2>1, <2>5, <2>9, <3>1, <3>2, <3>4 DEF RowInv, JobInv, InCall, InLoop, New, Changed, JobFields
    <3>6. TableInv(p)'
      BY <2>4, <2>8, <3>1, <3>2, <3>3 DEF TableInv, InCall, InLoop
    <3>7. LoadInv(p)' /\ InCall(p)'
      BY <3>1, <3>2 DEF LoadInv, InCall, InLoop
    <3>. QED BY <2>7, <3>1, <3>2, <3>5, <3>6, <3>7
  <2>10. ASSUME job[p].stage = "trapframe_va"
         PROVE  Maps(t, 0, trapframe[q])
    <3>1. DOMAIN pt[T].leaf = {M!TRAMPOLINE} /\ job[p].va = M!TRAPFRAME
      BY <1>1, <1>2, <2>10 DEF RowInv, TableInv
    <3>2. M!Pte(p).pa = trapframe[q]
      BY <2>5, <2>10 DEF M!Pte
    <3>3. 0..0 - 1 = {}
      OBVIOUS
    <3>. QED BY <2>4, <3>1, <3>2, <3>3 DEF Maps, Top
  <2>11. CASE /\ job[p].stage = "trapframe_va" /\ job[p].op # "exec"
              /\ M!Loop(p, [job[p] EXCEPT !.stage = "page", !.va = 0])
    <3>. DEFINE j == [job[p] EXCEPT !.stage = "page", !.va = 0]
    <3>1. DOMAIN j = JobFields /\ j.stage = "page" /\ j.va = 0 /\ j.end = job[p].end
      BY <2>5 DEF JobFields
    <3>2. \A f \in JobFields \ {"stage", "va", "mem"} : j[f] = job[p][f]
      BY <2>5 DEF JobFields
    <3>. HIDE DEF j
    <3>3. /\ job'[p] = j /\ DOMAIN job' = Tasks /\ Others(p) /\ mpc' \in [Tasks -> M!PCs]
          /\ j.va * PGSIZE < j.end => mpc'[p] = "kalloc"
          /\ ~ (j.va * PGSIZE < j.end) => mpc'[p] = "mapped"
      BY <1>1, <2>11, LoopMoves DEF j
    <3>4. Changed(p, {"stage", "va", "mem"})
      BY <2>5, <3>1, <3>2, <3>3 DEF Changed
    <3>5. job[p].op \in {"userinit", "fork"} /\ job[p].from = 0
      BY <1>1, <2>6, <2>11 DEF RowInv, JobInv, New
    <3>6. /\ job'[p].va = 0 /\ job'[p].end = job[p].end /\ job'[p].from = 0 /\ job'[p].stage = "page"
          /\ t = (pt[M!Target(p)])' /\ trapframe[q] = trapframe'[job'[p].q]
      BY <2>1, <2>4, <2>5, <2>8, <3>1, <3>2, <3>3, <3>4, <3>5 DEF JobFields
    <3>7. 0 <= M!Pages(job[p].end)
      BY <2>6, PagesNat
    <3>8. TableInv(p)'
      <4>1. PICK end \in Nat : end = job[p].end
        BY <2>6
      <4>2. /\ 0 * PGSIZE < end => mpc'[p] = "kalloc"
            /\ ~ (0 * PGSIZE < end) => mpc'[p] = "mapped"
        BY <3>1, <3>3, <4>1
      <4>. QED BY <2>10, <2>11, <3>6, <3>7, <4>1, <4>2, LoopTable
    <3>9. mpc'[p] \in {"kalloc", "mapped"}
      BY <3>3
    <3>10. JobInv(p)'
      BY <1>1, <2>1, <2>5, <3>1, <3>3, <3>4, <3>5, <3>9 DEF RowInv, JobInv, InCall, InLoop, New, Changed, JobFields
    <3>11. LoadInv(p)' /\ InCall(p)'
      BY <3>4, <3>5, <3>9 DEF LoadInv, InCall, InLoop, Changed, JobFields
    <3>. QED BY <2>7, <3>3, <3>4, <3>8, <3>10, <3>11
  <2>12. CASE /\ job[p].stage = "trapframe_va" /\ job[p].op = "exec"
              /\ M!SetJob(p, [job[p] EXCEPT !.stage = "page"])
              /\ M!GoTo(p, "segment")
    <3>1. /\ Others(p) /\ DOMAIN job' = Tasks /\ mpc'[p] = "segment" /\ mpc' \in [Tasks -> M!PCs]
          /\ job'[p] = [job[p] EXCEPT !.stage = "page"]
      BY <1>1, <2>12, Moves DEF Others, M!PCs
    <3>2. Changed(p, {"stage", "va", "mem"}) /\ job'[p].stage = "page" /\ job'[p].va = job[p].va
      BY <2>5, <3>1 DEF Changed, JobFields
    <3>3. /\ job[p].size = 0 /\ job[p].stack # TRUE /\ q = p /\ job[p].which = "exec" /\ mstate[p] = "RUNNABLE"
          /\ job[p].segs \in Segments
      BY <1>1, <2>5, <2>12 DEF RowInv, JobInv
    <3>4. JobInv(p)'
      <4>1. /\ DOMAIN job'[p] = JobFields /\ job'[p].q = p /\ job'[p].which = "exec" /\ job'[p].op = "exec"
            /\ job'[p].stage = "page" /\ job'[p].from \in Nat /\ job'[p].va \in Int
            /\ job'[p].end \in Nat /\ job'[p].size \in Nat /\ job'[p].segs \in Segments
            /\ job'[p].stack # TRUE /\ mstate'[p] = "RUNNABLE"
        BY <2>1, <2>5, <2>6, <2>12, <3>2, <3>3 DEF Changed, JobFields
      <4>. QED BY <3>1, <4>1 DEF JobInv, InCall, InLoop, New
    <3>5. TableInv(p)'
      <4>1. M!Pages(job'[p].size) = 0 /\ job'[p].op = "exec"
        BY <2>12, <3>2, <3>3, PagesNat DEF Changed, JobFields
      <4>2. Maps(t, M!Pages(job'[p].size), trapframe[q])
        BY <2>10, <2>12, <4>1
      <4>. QED BY <2>1, <2>4, <2>8, <3>1, <3>2, <4>1, <4>2 DEF TableInv, InCall, InLoop
    <3>6. LoadInv(p)' /\ InCall(p)'
      <4>1. DOMAIN t.leaf \ Top = {}
        <5>1. Maps(t, 0, trapframe[q])
          BY <2>10, <2>12
        <5>. QED BY <5>1 DEF Maps
      <4>. QED BY <2>4, <2>8, <3>1, <3>2, <4>1 DEF LoadInv, InCall, InLoop
    <3>. QED BY <2>7, <3>1, <3>2, <3>4, <3>5, <3>6
  <2>13. CASE /\ job[p].stage = "page"
              /\ M!Loop(p, [job[p] EXCEPT !.va = @ + 1, !.mem = 0])
    <3>. DEFINE j == [job[p] EXCEPT !.va = @ + 1, !.mem = 0]
    <3>1. /\ DOMAIN j = JobFields /\ j.va = job[p].va + 1
          /\ \A f \in JobFields \ {"va", "mem"} : j[f] = job[p][f]
      BY <2>5 DEF JobFields
    <3>2. j.end = job[p].end /\ j.from = job[p].from /\ j.stage = "page"
      BY <2>13, <3>1 DEF JobFields
    <3>. HIDE DEF j
    <3>3. /\ job'[p] = j /\ DOMAIN job' = Tasks /\ Others(p) /\ mpc' \in [Tasks -> M!PCs]
          /\ j.va * PGSIZE < j.end => mpc'[p] = "kalloc"
          /\ ~ (j.va * PGSIZE < j.end) => mpc'[p] = "mapped"
      BY <1>1, <2>13, LoopMoves DEF j
    <3>4. Changed(p, {"va", "mem"}) /\ Changed(p, {"stage", "va", "mem"})
      BY <2>5, <3>1, <3>3 DEF Changed
    <3>5. /\ Maps(pt[T], job[p].va, trapframe[q]) /\ job[p].from <= job[p].va
          /\ job[p].va * PGSIZE < job[p].end
      BY <1>1, <1>2, <2>5, <2>13 DEF RowInv, TableInv
    <3>6. PICK va \in Nat : va = job[p].va
      BY <2>6, <3>5
    <3>7. PICK n \in Nat : n = va + 1
      BY <3>6
    <3>8. Maps(t, n, trapframe[q])
      BY <1>4, <2>3, <3>5, <3>6, <3>7, MapsMore
    <3>9. PICK end \in Nat : end = job[p].end
      BY <2>6
    <3>10. n <= M!Pages(end)
      BY <3>5, <3>6, <3>7, <3>9, LoopPages
    <3>11. PICK from \in Nat : from = job[p].from /\ from <= n
      BY <2>6, <3>5, <3>6, <3>7
    <3>12. /\ job'[p].va = n /\ job'[p].end = end /\ job'[p].from = from /\ job'[p].stage = "page"
           /\ t = (pt[M!Target(p)])' /\ trapframe[q] = trapframe'[job'[p].q]
      BY <2>1, <2>4, <2>8, <3>1, <3>2, <3>3, <3>4, <3>6, <3>7, <3>9, <3>11
    <3>13. /\ n * PGSIZE < end => mpc'[p] = "kalloc"
           /\ ~ (n * PGSIZE < end) => mpc'[p] = "mapped"
      BY <3>3, <3>12
    <3>14. TableInv(p)'
      BY <3>8, <3>10, <3>11, <3>12, <3>13, LoopTable
    <3>15. mpc'[p] \in {"kalloc", "mapped"}
      BY <3>13
    <3>16. JobInv(p)'
      BY <1>1, <2>1, <2>5, <2>13, <3>4, <3>12, <3>15 DEF RowInv, JobInv, InCall, InLoop, New, Changed, JobFields
    <3>17. LoadInv(p)'
      <4>. SUFFICES ASSUME job'[p].op = "exec", ~ job'[p].stack
                    PROVE  /\ \A v \in DOMAIN pt'[M!Target(p)'].leaf \ Top : pt'[M!Target(p)'].leaf[v].u = TRUE
                           /\ job'[p].segs # <<>> /\ Head(job'[p].segs).end <= job'[p].end
        BY DEF LoadInv
      <4>1. job[p].op = "exec" /\ ~ job[p].stack /\ job'[p].segs = job[p].segs /\ job'[p].end = job[p].end
        BY <3>4 DEF Changed, JobFields
      <4>2. /\ \A v \in DOMAIN pt[T].leaf \ Top : pt[T].leaf[v].u = TRUE
            /\ job[p].segs # <<>> /\ Head(job[p].segs).end <= job[p].end
        BY <1>1, <1>2, <2>13, <4>1 DEF RowInv, LoadInv
      <4>3. M!Pte(p).u = TRUE
        BY <2>13, <4>1 DEF M!Pte
      <4>4. \A v \in DOMAIN t.leaf \ Top : t.leaf[v].u = TRUE
        BY <2>4, <4>2, <4>3
      <4>. QED BY <2>4, <2>8, <3>4, <4>1, <4>2, <4>4
    <3>18. InCall(p)'
      BY <3>15 DEF InCall, InLoop
    <3>. QED BY <2>7, <3>3, <3>4, <3>14, <3>16, <3>17, <3>18
  <2>. QED BY <2>2, <2>9, <2>11, <2>12, <2>13
<1>. QED BY <1>2, <1>3, <1>4 DEF M!mappages

-----------------------------------------------------------------------------
(* All steps.                                                              *)

LEMMA VmInit ==
  ASSUME M!VmAssumption, M!Init
  PROVE  VmIInv
<1>1. /\ mstate = [p \in Tasks |-> "UNUSED"] /\ sz = [p \in Tasks |-> 0] /\ trapframe = [p \in Tasks |-> 0]
      /\ pt = [t \in M!Tables |-> M!NoTable]
      /\ mpc = [p \in Tasks |-> IF p = InitTask THEN "boot" ELSE "user"]
      /\ job = [p \in Tasks |-> M!NoJob]
  BY DEF M!Init
<1>2. \A p \in Tasks : mpc[p] \in {"boot", "user"} /\ (mpc[p] = "boot" => p = InitTask)
  BY <1>1
<1>3. ShapeInv
  <2>1. mpc \in [Tasks -> M!PCs]
    BY <1>1 DEF M!PCs
  <2>. QED BY <1>1, <2>1, NoTableFields DEF ShapeInv
<1>4. \A p \in Tasks : ~ InCall(p)
  BY <1>2 DEF InCall, InLoop
<1>5. BuilderInv /\ BootInv
  BY <1>1, <1>2, <1>4 DEF BuilderInv, BootInv
<1>6. ASSUME NEW p \in Tasks PROVE RowInv(p)
  <2>1. JobInv(p) /\ TableInv(p) /\ LoadInv(p)
    BY <1>4 DEF JobInv, TableInv, LoadInv
  <2>2. SizeInv(p)
    BY <1>1 DEF SizeInv
  <2>3. OnlyFull(p)
    BY <1>2 DEF OnlyFull
  <2>. QED BY <2>1, <2>2, <2>3 DEF RowInv
<1>. QED BY <1>3, <1>5, <1>6 DEF VmIInv

LEMMA VmSame ==
  ASSUME VmIInv, UNCHANGED <<mstate, sz, trapframe, pt, mpc, job>>
  PROVE  VmIInv'
<1>1. ShapeInv'
  BY DEF VmIInv, ShapeInv
<1>2. BuilderInv'
  BY DEF VmIInv, BuilderInv, InCall, InLoop, New
<1>3. BootInv'
  BY DEF VmIInv, BootInv, InCall, InLoop
<1>4. ASSUME NEW p \in Tasks PROVE RowInv(p)'
  <2>1. RowInv(p)
    BY DEF VmIInv
  <2>. QED BY <2>1, RowSame
<1>. QED BY <1>1, <1>2, <1>3, <1>4 DEF VmIInv

LEMMA VmNext ==
  ASSUME M!VmAssumption, VmIInv, [M!Next]_(M!vars)
  PROVE  VmIInv'
<1>1. CASE UNCHANGED M!vars
  BY <1>1, VmSame DEF M!vars, M!procVars
<1>2. CASE M!Bootmem
  BY <1>2, VmSame DEF M!Bootmem, M!procVars
<1>3. ASSUME NEW p \in Tasks, M!Step(p) PROVE VmIInv'
  <2>1. M!AllocTrapframe(p) \/ M!uvmcreate(p) \/ M!AllocPage(p) \/ M!KallocFails(p) \/ M!walk(p)
        \/ M!mappages(p) => VmIInv'
    BY AllocTrapframeKeeps, UvmcreateKeeps, AllocPageKeeps, KallocFailsKeeps, WalkKeeps, MappagesKeeps
  <2>2. M!userinit(p) \/ M!Born(p) \/ M!ForkFails(p) \/ M!exit(p)
        \/ (\E q \in Tasks : M!fork(p, q) \/ M!wait(p, q)) => VmIInv'
    BY UserinitKeeps, BornKeeps, ForkFailsKeeps, ExitKeeps, ForkKeeps, WaitKeeps
  <2>3. M!Grown(p) \/ M!GrowFails(p) \/ (\E n \in Grows : M!Grow(p, n) \/ M!Shrink(p, n)) => VmIInv'
    BY GrownKeeps, GrowFailsKeeps, GrowKeeps, ShrinkKeeps
  <2>4. M!FetchArg(p) \/ M!ArgsBad(p) \/ M!StartExec(p) \/ (\E g \in Programs : M!sys_exec(p, g)) => VmIInv'
    BY FetchArgKeeps, ArgsBadKeeps, StartExecKeeps, SysExecKeeps
  <2>5. M!Segment(p) \/ M!loadseg(p) \/ M!SegmentBad(p) \/ M!StackPages(p) \/ M!UserStack(p)
        \/ M!Commit(p) \/ M!ExecBad(p) => VmIInv'
    BY SegmentKeeps, LoadsegKeeps, SegmentBadKeeps, StackPagesKeeps, UserStackKeeps, CommitKeeps, ExecBadKeeps
  <2>. QED BY <1>3, <2>1, <2>2, <2>3, <2>4, <2>5 DEF M!Step
<1>. QED BY <1>1, <1>2, <1>3 DEF M!Next

\* VmIInv holds in every state, for any number of processes and pages, whichever
\* allocation fails.
THEOREM VmInductive ==
  ASSUME M!VmAssumption
  PROVE  M!Spec => []VmIInv
<1>1. M!Init => VmIInv
  BY VmInit
<1>2. VmIInv /\ [M!Next]_(M!vars) => VmIInv'
  BY VmNext
<1>. QED BY <1>1, <1>2, PTL DEF M!Spec

\* p->sz and the page table agree whenever a process is in user mode, after any call
\* of userinit(), fork(), sbrk() or exec(), and after every way in which one fails;
\* and the page below the trampoline is the process's own trapframe.
THEOREM VmSizeExact ==
  ASSUME M!VmAssumption
  PROVE  M!Spec => []M!SizeExact
<1>1. VmIInv => M!SizeExact
  <2>. SUFFICES ASSUME VmIInv, NEW p \in Tasks, mstate[p] \in {"RUNNABLE", "ZOMBIE"}, mpc[p] = "user"
                PROVE  /\ M!CanFree(pt[<<p, "proc">>], sz[p])
                       /\ pt[<<p, "proc">>].leaf[M!TRAPFRAME].pa = trapframe[p]
    BY DEF M!SizeExact
  <2>1. SizeInv(p) /\ ~ InCall(p)
    BY DEF VmIInv, RowInv, InCall, InLoop
  <2>2. Maps(pt[<<p, "proc">>], M!Pages(sz[p]), trapframe[p])
    BY <2>1 DEF SizeInv, Own
  <2>. QED BY <2>2, MapsFree
<1>. QED BY <1>1, VmInductive, PTL

\* A process that panics was mapping the page of the trapframe or the trampoline.
OnlyFullPanics == \A p \in Tasks : mpc[p] = "panic" => job[p].va \in Top

\* Of the panics of kernel/vm.c one is left: mappages() of a program that has grown
\* up to its trapframe.  uvmunmap() always finds what it unmaps, uvmcopy() what it
\* copies and loadseg() what it loads into, freewalk() finds no leaf, and no other
\* page is mapped twice, whichever allocation of the call fails.
THEOREM VmOnlyFullPanics ==
  ASSUME M!VmAssumption
  PROVE  M!Spec => []OnlyFullPanics
<1>1. VmIInv => OnlyFullPanics
  BY DEF VmIInv, RowInv, OnlyFull, OnlyFullPanics
<1>. QED BY <1>1, VmInductive, PTL

-----------------------------------------------------------------------------
(* A process keeps its memory.                                             *)

Image(r) ==
    mstate[r] = "RUNNABLE" /\ mstate'[r] = "RUNNABLE" /\ mpc[r] # "commit" =>
        /\ pt'[<<r, "proc">>].root = pt[<<r, "proc">>].root
        /\ \A v \in DOMAIN pt[<<r, "proc">>].leaf :
              v < M!Pages(sz[r]) /\ v < M!Pages(sz'[r]) =>
                  /\ v \in DOMAIN pt'[<<r, "proc">>].leaf
                  /\ pt'[<<r, "proc">>].leaf[v] = pt[<<r, "proc">>].leaf[v]

Images == \A r \in Tasks : Image(r)

LEMMA ImageSame ==
  ASSUME NEW r \in Tasks, pt'[<<r, "proc">>] = pt[<<r, "proc">>]
  PROVE  Image(r)
BY DEF Image

LEMMA ImagesSame ==
  ASSUME UNCHANGED pt
  PROVE  Images
BY ImageSame DEF Images

\* The call of p gives its table other contents: nobody else sees it, and p itself
\* only in sbrk().
LEMMA ImageBuilt ==
  ASSUME VmIInv, NEW p \in Tasks, InCall(p), NEW t, Rebuilt(M!Target(p), t),
         job[p].op = "sbrk" =>
             /\ t.root = pt[M!Target(p)].root
             /\ \A v \in DOMAIN pt[M!Target(p)].leaf : v < M!Pages(sz[p]) =>
                   v \in DOMAIN t.leaf /\ t.leaf[v] = pt[M!Target(p)].leaf[v]
  PROVE  Images
<1>1. RowInv(p)
  BY DEF VmIInv
<1>2. ASSUME NEW r \in Tasks PROVE Image(r)
  <2>1. CASE <<r, "proc">> # M!Target(p)
    <3>1. pt'[<<r, "proc">>] = pt[<<r, "proc">>]
      BY <2>1 DEF Rebuilt, M!Tables
    <3>. QED BY <3>1, ImageSame
  <2>2. CASE <<r, "proc">> = M!Target(p) /\ mstate[r] = "RUNNABLE"
    <3>1. job[p].q = r /\ job[p].which = "proc"
      BY <2>2 DEF M!Target
    <3>2. job[p].op = "sbrk" /\ r = p
      BY <1>1, <2>2, <3>1 DEF RowInv, JobInv, New
    <3>3. pt'[<<r, "proc">>] = t
      BY <2>2 DEF Rebuilt
    <3>. QED BY <2>2, <3>2, <3>3 DEF Image
  <2>3. CASE mstate[r] # "RUNNABLE"
    BY <2>3 DEF Image
  <2>. QED BY <2>1, <2>2, <2>3
<1>. QED BY <1>2 DEF Images

\* freeproc() of a process that is not RUNNABLE
LEMMA ImageCleared ==
  ASSUME ShapeInv, NEW s \in Tasks, mstate[s] # "RUNNABLE", M!ClearProc(s)
  PROVE  Images
<1>1. RowsOf(s)
  BY Cleared
<1>2. ASSUME NEW r \in Tasks PROVE Image(r)
  <2>1. CASE r # s
    BY <1>1, <2>1, ImageSame DEF RowsOf
  <2>2. CASE r = s
    BY <2>2 DEF Image
  <2>. QED BY <2>1, <2>2
<1>. QED BY <1>2 DEF Images

LEMMA ImageUvmcreate ==
  ASSUME VmIInv, NEW p \in Tasks, M!uvmcreate(p)
  PROVE  Images
<1>. DEFINE t == [M!NoTable EXCEPT !.root = M!Page]
<1>1. ShapeInv /\ RowInv(p) /\ InCall(p) /\ job[p].stage = "root" /\ pt' = [pt EXCEPT ![M!Target(p)] = t]
  BY DEF VmIInv, M!uvmcreate, InCall, InLoop
<1>2. M!Target(p) \in M!Tables
  BY <1>1, TargetTable
<1>. HIDE DEF t
<1>3. Rebuilt(M!Target(p), t)
  BY <1>1, <1>2, Rebuilds
<1>4. job[p].op # "sbrk"
  BY <1>1 DEF RowInv, JobInv
<1>. QED BY <1>1, <1>3, <1>4, ImageBuilt

LEMMA ImageWalk ==
  ASSUME VmIInv, NEW p \in Tasks, M!walk(p)
  PROVE  Images
<1>1. ShapeInv /\ InCall(p)
  BY DEF VmIInv, M!walk, InCall, InLoop
<1>2. \/ \E n, x : pt' = [pt EXCEPT ![M!Target(p)].tables = M!Extend(@, n, x)]
      \/ UNCHANGED pt
  BY DEF M!walk
<1>3. PICK T \in M!Tables : /\ T = M!Target(p) /\ DOMAIN pt = M!Tables
                            /\ DOMAIN pt[T] = {"root", "tables", "leaf"}
  BY <1>1, TargetTable
<1>4. ASSUME NEW n, NEW x, pt' = [pt EXCEPT ![T].tables = M!Extend(@, n, x)]
      PROVE  Images
  <2>. DEFINE u == [pt[T] EXCEPT !.tables = M!Extend(@, n, x)]
  <2>1. pt' = [pt EXCEPT ![T] = u]
    BY <1>3, <1>4
  <2>2. u.leaf = pt[T].leaf /\ u.root = pt[T].root
    BY <1>3
  <2>. HIDE DEF u
  <2>3. Rebuilt(T, u)
    BY <1>1, <2>1, Rebuilds
  <2>. QED BY <1>1, <1>3, <2>2, <2>3, ImageBuilt
<1>. QED BY <1>2, <1>3, <1>4, ImagesSame

LEMMA ImageMappages ==
  ASSUME VmIInv, NEW p \in Tasks, M!mappages(p)
  PROVE  Images
<1>1. ShapeInv /\ InCall(p)
  BY DEF VmIInv, M!mappages, InCall, InLoop
<1>2. PICK T \in M!Tables : /\ T = M!Target(p) /\ DOMAIN pt = M!Tables
                            /\ DOMAIN pt[T] = {"root", "tables", "leaf"}
  BY <1>1, TargetTable
<1>3. CASE M!Panics(p)
  BY <1>3, ImagesSame DEF M!Panics
<1>4. CASE /\ job[p].va \notin DOMAIN pt[T].leaf
           /\ pt' = [pt EXCEPT ![T].leaf = M!Extend(@, job[p].va, M!Pte(p))]
  <2>. DEFINE u == [pt[T] EXCEPT !.leaf = M!Extend(@, job[p].va, M!Pte(p))]
  <2>1. pt' = [pt EXCEPT ![T] = u]
    BY <1>2, <1>4
  <2>2. u.leaf = M!Extend(pt[T].leaf, job[p].va, M!Pte(p)) /\ u.root = pt[T].root
    BY <1>2
  <2>. HIDE DEF u
  <2>3. \A v \in DOMAIN pt[T].leaf : v \in DOMAIN u.leaf /\ u.leaf[v] = pt[T].leaf[v]
    <3>1. \A v \in DOMAIN pt[T].leaf : v # job[p].va
      BY <1>4
    <3>. QED BY <2>2, <3>1 DEF M!Extend
  <2>4. Rebuilt(T, u)
    BY <1>1, <2>1, Rebuilds
  <2>. QED BY <1>1, <1>2, <2>2, <2>3, <2>4, ImageBuilt
<1>. QED BY <1>2, <1>3, <1>4 DEF M!mappages

LEMMA ImageGrowFails ==
  ASSUME VmIInv, NEW p \in Tasks, M!GrowFails(p)
  PROVE  Images
<1>1. ShapeInv /\ RowInv(p) /\ InCall(p) /\ job[p].op = "sbrk" /\ pt' = [pt EXCEPT ![M!Target(p)] = M!Undone(p)]
  BY DEF VmIInv, M!GrowFails, InCall, InLoop
<1>2. PICK T \in M!Tables : /\ T = M!Target(p) /\ DOMAIN pt = M!Tables
                            /\ DOMAIN pt[T] = {"root", "tables", "leaf"}
  BY <1>1, TargetTable
<1>3. job[p].from = M!Pages(sz[p])
  BY <1>1 DEF RowInv, JobInv
<1>4. M!Undone(p).root = pt[T].root /\ M!Undone(p).leaf = M!Without(pt[T].leaf, job[p].from..job[p].va - 1)
  BY <1>2 DEF M!Undone, M!Mapped
<1>5. \A v \in DOMAIN pt[T].leaf : v < M!Pages(sz[p]) =>
          v \in DOMAIN M!Undone(p).leaf /\ M!Undone(p).leaf[v] = pt[T].leaf[v]
  <2>. SUFFICES ASSUME NEW v \in DOMAIN pt[T].leaf, v < M!Pages(sz[p])
                PROVE  v \in DOMAIN M!Undone(p).leaf /\ M!Undone(p).leaf[v] = pt[T].leaf[v]
    OBVIOUS
  <2>1. v \notin job[p].from..job[p].va - 1
    <3>1. job[p].from \in Nat /\ job[p].va \in Int
      BY <1>1 DEF RowInv, JobInv
    <3>. QED BY <1>3, <3>1
  <2>. QED BY <1>4, <2>1 DEF M!Without
<1>6. Rebuilt(T, M!Undone(p))
  BY <1>1, <1>2, Rebuilds
<1>. QED BY <1>1, <1>2, <1>4, <1>5, <1>6, ImageBuilt

LEMMA ImageShrink ==
  ASSUME M!VmAssumption, VmIInv, NEW p \in Tasks, NEW n \in Grows, M!Shrink(p, n)
  PROVE  Images
<1>. DEFINE T == <<p, "proc">>
            newsz == sz[p] + n
            gone == M!Pages(newsz)..M!Pages(sz[p]) - 1
            u == [pt[T] EXCEPT !.leaf = M!Without(@, gone)]
<1>1. ShapeInv /\ newsz \in Nat /\ sz[p] \in Nat
  BY Consts DEF VmIInv, M!Shrink, ShapeInv
<1>2. T \in M!Tables /\ DOMAIN pt = M!Tables /\ DOMAIN pt[T] = {"root", "tables", "leaf"}
  BY <1>1 DEF ShapeInv, M!Tables
<1>3. CASE M!Panics(p)
  BY <1>3, ImagesSame DEF M!Panics
<1>4. CASE pt' = [pt EXCEPT ![T].leaf = M!Without(@, gone)] /\ sz' = [sz EXCEPT ![p] = newsz]
  <2>1. pt' = [pt EXCEPT ![T] = u]
    BY <1>2, <1>4
  <2>2. u.leaf = M!Without(pt[T].leaf, gone) /\ u.root = pt[T].root
    BY <1>2
  <2>3. sz'[p] = newsz
    BY <1>1, <1>4 DEF ShapeInv
  <2>. HIDE DEF u
  <2>4. Rebuilt(T, u)
    BY <1>1, <1>2, <2>1, Rebuilds
  <2>5. ASSUME NEW r \in Tasks PROVE Image(r)
    <3>1. CASE r # p
      <4>1. pt'[<<r, "proc">>] = pt[<<r, "proc">>]
        BY <2>4, <3>1 DEF Rebuilt, M!Tables
      <4>. QED BY <4>1, ImageSame
    <3>2. CASE r = p
      <4>1. pt'[T] = u
        BY <2>4 DEF Rebuilt
      <4>2. ASSUME NEW v \in DOMAIN pt[T].leaf, v < M!Pages(newsz)
            PROVE  v \in DOMAIN u.leaf /\ u.leaf[v] = pt[T].leaf[v]
        <5>1. M!Pages(newsz) \in Int /\ M!Pages(sz[p]) \in Int
          BY <1>1, PagesNat
        <5>2. v \notin gone
          BY <4>2, <5>1
        <5>. QED BY <2>2, <5>2 DEF M!Without
      <4>. QED BY <2>2, <2>3, <3>2, <4>1, <4>2 DEF Image
    <3>. QED BY <3>1, <3>2
  <2>. QED BY <2>5 DEF Images
<1>. QED BY <1>3, <1>4 DEF M!Shrink

LEMMA ImageExec ==
  ASSUME VmIInv, NEW p \in Tasks, M!UserStack(p) \/ M!Commit(p) \/ M!ExecBad(p)
  PROVE  Images
<1>1. ShapeInv /\ RowInv(p) /\ InCall(p)
  BY DEF VmIInv, M!UserStack, M!Commit, M!ExecBad, InCall, InLoop
<1>2. job[p].op = "exec"
  BY <1>1 DEF RowInv, TableInv, M!UserStack, M!Commit, M!ExecBad
<1>3. M!Target(p) = <<p, "exec">>
  BY <1>1, <1>2 DEF RowInv, JobInv, M!Target
<1>4. DOMAIN pt = M!Tables /\ \A r \in Tasks : <<r, "proc">> \in M!Tables /\ <<r, "proc">> # <<p, "exec">>
  BY <1>1 DEF ShapeInv, M!Tables
<1>5. CASE M!UserStack(p)
  <2>1. \E i : pt' = [pt EXCEPT ![<<p, "exec">>].leaf[i].u = FALSE]
    BY <1>3, <1>5 DEF M!UserStack
  <2>2. \A r \in Tasks : pt'[<<r, "proc">>] = pt[<<r, "proc">>]
    BY <1>4, <2>1
  <2>. QED BY <2>2, ImageSame DEF Images
<1>6. CASE M!ExecBad(p)
  <2>1. UNCHANGED pt \/ pt' = [pt EXCEPT ![<<p, "exec">>] = M!NoTable]
    BY <1>3, <1>6 DEF M!ExecBad, M!Panics
  <2>2. \A r \in Tasks : pt'[<<r, "proc">>] = pt[<<r, "proc">>]
    BY <1>4, <2>1
  <2>. QED BY <2>2, ImageSame DEF Images
<1>7. CASE M!Commit(p)
  <2>1. \/ UNCHANGED pt
        \/ pt' = [pt EXCEPT ![<<p, "proc">>] = pt[<<p, "exec">>], ![<<p, "exec">>] = M!NoTable]
    BY <1>7 DEF M!Commit, M!Panics
  <2>2. \A r \in Tasks : r # p => pt'[<<r, "proc">>] = pt[<<r, "proc">>]
    BY <1>4, <2>1
  <2>3. Image(p)
    BY <1>7 DEF Image, M!Commit
  <2>4. \A r \in Tasks : Image(r)
    BY <2>2, <2>3, ImageSame
  <2>. QED BY <2>4 DEF Images
<1>. QED BY <1>5, <1>6, <1>7

LEMMA ImageNext ==
  ASSUME M!VmAssumption, VmIInv, [M!Next]_(M!vars)
  PROVE  Images
<1>1. CASE UNCHANGED M!vars
  BY <1>1, ImagesSame DEF M!vars
<1>2. CASE M!Bootmem
  BY <1>2, ImagesSame DEF M!Bootmem
<1>3. ASSUME NEW p \in Tasks, M!Step(p) PROVE Images
  <2>1. M!uvmcreate(p) \/ M!walk(p) \/ M!mappages(p) \/ M!GrowFails(p)
        \/ M!UserStack(p) \/ M!Commit(p) \/ M!ExecBad(p) \/ (\E n \in Grows : M!Shrink(p, n)) => Images
    BY ImageUvmcreate, ImageWalk, ImageMappages, ImageGrowFails, ImageShrink, ImageExec
  <2>2. ASSUME M!ForkFails(p) PROVE Images
    <3>1. ShapeInv /\ RowInv(p) /\ InCall(p) /\ New(p)
      BY <2>2 DEF VmIInv, M!ForkFails, InCall, InLoop, New
    <3>2. job[p].q \in Tasks /\ mstate[job[p].q] = "USED"
      BY <3>1, BuilderRow
    <3>3. CASE M!Panics(p)
      BY <3>3, ImagesSame DEF M!Panics
    <3>4. CASE M!ClearProc(job[p].q)
      BY <3>1, <3>2, <3>4, ImageCleared
    <3>. QED BY <2>2, <3>3, <3>4 DEF M!ForkFails
  <2>3. ASSUME NEW q \in Tasks, M!wait(p, q) PROVE Images
    <3>1. ShapeInv /\ mstate[q] = "ZOMBIE"
      BY <2>3 DEF VmIInv, M!wait
    <3>2. CASE M!Panics(p)
      BY <3>2, ImagesSame DEF M!Panics
    <3>3. CASE M!ClearProc(q)
      BY <3>1, <3>3, ImageCleared
    <3>. QED BY <2>3, <3>2, <3>3 DEF M!wait
  <2>4. M!AllocTrapframe(p) \/ M!AllocPage(p) \/ M!KallocFails(p) => UNCHANGED pt
    BY DEF M!AllocTrapframe, M!AllocPage, M!KallocFails, M!Panics
  <2>5. M!userinit(p) \/ M!Born(p) \/ M!exit(p) \/ M!Grown(p) \/ (\E q \in Tasks : M!fork(p, q))
        \/ (\E n \in Grows : M!Grow(p, n)) => UNCHANGED pt
    BY DEF M!userinit, M!Born, M!exit, M!Grown, M!fork, M!Grow
  <2>6. M!FetchArg(p) \/ M!ArgsBad(p) \/ M!StartExec(p) \/ (\E g \in Programs : M!sys_exec(p, g))
        \/ M!Segment(p) \/ M!loadseg(p) \/ M!SegmentBad(p) \/ M!StackPages(p) => UNCHANGED pt
    BY DEF M!FetchArg, M!ArgsBad, M!StartExec, M!sys_exec, M!Segment, M!loadseg, M!SegmentBad,
           M!StackPages, M!Panics
  <2>. QED BY <1>3, <2>1, <2>2, <2>3, <2>4, <2>5, <2>6, ImagesSame DEF M!Step
<1>. QED BY <1>1, <1>2, <1>3 DEF M!Next

\* A process keeps its memory: the pages below p->sz stay mapped to what they were,
\* whatever other processes do and however its own sbrk() or exec() fails, until its
\* exec() commits.  For any number of processes and pages, and any sizes.
THEOREM VmImageStays ==
  ASSUME M!VmAssumption
  PROVE  M!Spec => ImageStays
<1>1. VmIInv /\ [M!Next]_(M!vars) => [Images]_(M!vars)
  BY ImageNext
<1>2. Images => \A p \in Tasks :
          LET old == pt[<<p, "proc">>]
              new == pt'[<<p, "proc">>]
          IN  mstate[p] = "RUNNABLE" /\ mstate'[p] = "RUNNABLE" /\ mpc[p] # "commit" =>
                  /\ new.root = old.root
                  /\ \A v \in DOMAIN old.leaf :
                        v < M!Pages(sz[p]) /\ v < M!Pages(sz'[p]) =>
                            v \in DOMAIN new.leaf /\ new.leaf[v] = old.leaf[v]
  BY DEF Images, Image
<1>. QED BY <1>1, <1>2, VmInductive, PTL DEF M!Spec, M!ImageStays, ImageStays
=============================================================================
