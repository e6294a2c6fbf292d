----------------------------- MODULE TrapsProofs -----------------------------
(***************************************************************************)
(* Proofs about Traps, for any number of processes and harts, programs of  *)
(* any length and sleeps of any length: no trap reaches the wrong handler, *)
(* and the programs do not notice the interrupts.                          *)
(*                                                                         *)
(* TrapsInv is not inductive: which registers a hart has depends on where  *)
(* its code is, and on what the process it takes over left in its context  *)
(* and on its kernel stack.  IInv says which place goes with what.         *)
(***************************************************************************)
EXTENDS Traps, SequenceTheorems, TLAPS

\* Places where a trap may find a process in the kernel, and the ones with interrupts off
Calm == {"forkret", "usertrapret", "after", "afterTick", "syscall", "wake"}
Locked == {"lock", "relock", "sleeploop", "sleep"}
Places == Calm \union Locked \union {"user", "userret", "kret", "scheduler"}

Spot == Places \X Nat
Registers ==
    [sepc : Spot \union {At("none")}, spie : BOOLEAN, sie : BOOLEAN, stvec : {"kernelvec", "uservec"},
     tp : Harts \union {None}, intena : BOOLEAN]
Locals == [sepc : Spot, spie : BOOLEAN]

TypeOK ==
    /\ pc \in [Harts -> Spot]
    /\ csr \in [Harts -> Registers]
    /\ run \in [Harts -> Procs \union {None}]
    /\ state \in [Procs -> {"RUNNABLE", "RUNNING", "SLEEPING", "ZOMBIE"}]
    /\ frame \in [Procs -> [epc : Nat, kernel_hartid : Harts \union {None}]]
    /\ stack \in [Procs \union Harts -> Seq(Locals)]
    /\ ctx \in [Procs -> [at : Calm \union {"kret", "dead", "none"}, intena : BOOLEAN]]
    /\ tickslock \in Harts \union {None}

\* What lies on a kernel stack: nothing, or under "kret" the locals of one kerneltrap(),
\* which came in at one of the given places
Pushed(s, place, from) ==
    IF place = "kret" THEN Len(s) = 1 /\ s[1].sepc \in {At(x) : x \in from} ELSE s = <<>>

\* A hart and its registers
HartInv(h) ==
    /\ pc[h][1] # "user" => pc[h] = At(pc[h][1])
    /\ csr[h].stvec = IF pc[h][1] \in {"user", "userret"} THEN "uservec" ELSE "kernelvec"
    /\ pc[h][1] # "user" => csr[h].tp = h
    /\ pc[h][1] \in Locked \union {"kret", "userret"} => csr[h].sie = FALSE
    /\ (tickslock = h <=> pc[h][1] \in {"sleeploop", "sleep"})

\* A hart without a process is in its scheduler, or in a trap from there.
IdleInv(h) ==
    run[h] = None =>
        /\ pc[h][1] \in {"scheduler", "kret"}
        /\ Pushed(stack[h], pc[h][1], {"scheduler"})

\* A hart with a process
BusyInv(h) ==
    run[h] # None =>
        /\ pc[h][1] # "scheduler"
        /\ state[run[h]] = "RUNNING"
        /\ Pushed(stack[run[h]], pc[h][1], Calm)
        /\ stack[h] = <<>>
        /\ pc[h][1] = "user" => frame[run[h]].kernel_hartid = h

\* A process that no hart runs
Away(p) == \A h \in Harts : run[h] # p

AwayInv(p) ==
    Away(p) =>
        /\ state[p] # "RUNNING"
        /\ state[p] = "RUNNABLE" => ctx[p].at \in {"forkret", "usertrapret", "kret", "wake"}
        /\ state[p] = "SLEEPING" => ctx[p].at = "wake"
        /\ state[p] = "ZOMBIE" => ctx[p].at = "dead"
        /\ ctx[p].at = "kret" => ctx[p].intena = FALSE
        /\ Pushed(stack[p], ctx[p].at, Calm)

Alone == \A h, g \in Harts : h # g /\ run[h] # None => run[g] # run[h]

\* The inductive invariant
IInv ==
    /\ TypeOK
    /\ panicked = FALSE
    /\ \A h \in Harts : HartInv(h) /\ IdleInv(h) /\ BusyInv(h)
    /\ \A p \in Procs : AwayInv(p)
    /\ Alone

-----------------------------------------------------------------------------
(* A step of a hart that keeps its process                                 *)

\* What the step may do outside the hart: wake sleepers, take or leave tickslock
Elsewhere(h) ==
    /\ \A g \in Harts \ {h} : pc'[g] = pc[g] /\ csr'[g] = csr[g]
    /\ \A q \in Procs : q # run[h] => frame'[q] = frame[q] /\ ctx'[q] = ctx[q]
    /\ \A t \in Procs \union Harts : t # Stack(h) => stack'[t] = stack[t]
    /\ \A q \in Procs : q # run[h] => state'[q] = state[q] \/ (state[q] = "SLEEPING" /\ state'[q] = "RUNNABLE")
    /\ tickslock' = tickslock \/ (tickslock \in {h, None} /\ tickslock' \in {h, None})

\* Stay: a step of a hart that keeps its process preserves the invariant if it does for
\* this hart; the other harts and the processes that wait do not see it.
LEMMA Stay ==
    ASSUME IInv, NEW h \in Harts, TypeOK', panicked' = FALSE, run' = run,
           Elsewhere(h), HartInv(h)', IdleInv(h)', BusyInv(h)'
    PROVE  IInv'
<1>1. ASSUME NEW g \in Harts, g # h PROVE HartInv(g)' /\ IdleInv(g)' /\ BusyInv(g)'
  <2>1. HartInv(g) /\ IdleInv(g) /\ BusyInv(g)
    BY DEF IInv
  <2>2. pc'[g] = pc[g] /\ csr'[g] = csr[g]
    BY <1>1 DEF Elsewhere
  <2>3. HartInv(g)'
    BY <2>1, <2>2, <1>1, TrapsAssumption DEF HartInv, Elsewhere
  <2>4. run[g] \in Procs \union {None} /\ run[h] \in Procs \union {None}
    BY DEF IInv, TypeOK
  <2>5. stack'[g] = stack[g]
    BY <2>4, <1>1, TrapsAssumption DEF Elsewhere, Stack
  <2>6. IdleInv(g)'
    BY <2>1, <2>2, <2>5 DEF IdleInv
  <2>7. ASSUME run[g] # None PROVE BusyInv(g)'
    <3>1. run[g] # run[h] /\ run[g] \in Procs /\ run[g] # h
      BY <2>4, <2>7, <1>1, TrapsAssumption DEF IInv, Alone
    <3>2. stack'[run[g]] = stack[run[g]] /\ frame'[run[g]] = frame[run[g]]
      BY <3>1 DEF Elsewhere, Stack
    <3>3. state'[run[g]] = state[run[g]]
      BY <3>1, <2>1, <2>7 DEF Elsewhere, BusyInv
    <3> QED BY <3>2, <3>3, <2>1, <2>2, <2>5, <2>7 DEF BusyInv
  <2> QED BY <2>3, <2>6, <2>7 DEF BusyInv
<1>2. ASSUME NEW p \in Procs PROVE AwayInv(p)'
  <2>1. SUFFICES ASSUME Away(p) PROVE AwayInv(p)'
    BY DEF AwayInv, Away
  <2>2. AwayInv(p)
    BY DEF IInv
  <2>3. p # Stack(h) /\ p \in Procs \union Harts
    BY <2>1, TrapsAssumption DEF Away, Stack
  <2>4. stack'[p] = stack[p]
    BY <2>3 DEF Elsewhere
  <2>5. /\ state'[p] = state[p] \/ (state[p] = "SLEEPING" /\ state'[p] = "RUNNABLE")
        /\ ctx'[p] = ctx[p]
    BY <2>1 DEF Elsewhere, Away
  <2> QED BY <2>1, <2>2, <2>4, <2>5 DEF AwayInv, Away
<1>3. Alone'
  BY DEF IInv, Alone
<1> QED BY <1>1, <1>2, <1>3 DEF IInv

\* Leave: a step that gives the hart back to its scheduler preserves the invariant if
\* it leaves the process as a process that waits must be.
LEMMA Leave ==
    ASSUME IInv, NEW h \in Harts, NEW p \in Procs, run[h] = p, TypeOK', panicked' = FALSE,
           run' = [run EXCEPT ![h] = None], Elsewhere(h),
           pc'[h] = At("scheduler"), csr'[h].stvec = "kernelvec", csr'[h].tp = h, tickslock' # h,
           AwayInv(p)'
    PROVE  IInv'
<1>1. p # h /\ p # None /\ run'[h] = None /\ \A g \in Harts : g # h => run'[g] = run[g]
  BY TrapsAssumption DEF IInv, TypeOK
<1>2. ASSUME NEW g \in Harts, g # h PROVE HartInv(g)' /\ IdleInv(g)' /\ BusyInv(g)'
  <2>1. HartInv(g) /\ IdleInv(g) /\ BusyInv(g)
    BY DEF IInv
  <2>2. pc'[g] = pc[g] /\ csr'[g] = csr[g] /\ run'[g] = run[g]
    BY <1>1, <1>2 DEF Elsewhere
  <2>3. HartInv(g)'
    BY <2>1, <2>2, <1>2, TrapsAssumption DEF HartInv, Elsewhere
  <2>4. run[g] \in Procs \union {None}
    BY DEF IInv, TypeOK
  <2>5. stack'[g] = stack[g]
    BY <1>1, <1>2, TrapsAssumption DEF Elsewhere, Stack
  <2>6. IdleInv(g)'
    BY <2>1, <2>2, <2>5 DEF IdleInv
  <2>7. ASSUME run[g] # None PROVE BusyInv(g)'
    <3>1. run[g] # p /\ run[g] \in Procs
      BY <2>4, <2>7, <1>2 DEF IInv, Alone
    <3>2. stack'[run[g]] = stack[run[g]] /\ frame'[run[g]] = frame[run[g]]
      BY <3>1, <1>1 DEF Elsewhere, Stack
    <3>3. state'[run[g]] = state[run[g]]
      BY <3>1, <2>1, <2>7 DEF Elsewhere, BusyInv
    <3> QED BY <3>2, <3>3, <2>1, <2>2, <2>5, <2>7 DEF BusyInv
  <2> QED BY <2>2, <2>3, <2>6, <2>7 DEF BusyInv
<1>3. HartInv(h)'
  BY DEF HartInv, At, Locked
<1>4. IdleInv(h)' /\ BusyInv(h)'
  <2>1. stack'[h] = stack[h] /\ stack[h] = <<>>
    BY <1>1 DEF Elsewhere, Stack, IInv, BusyInv
  <2> QED BY <1>1, <2>1 DEF IdleInv, BusyInv, Pushed, At
<1>5. ASSUME NEW q \in Procs, q # p PROVE AwayInv(q)'
  <2>1. SUFFICES ASSUME Away(q)' PROVE AwayInv(q)'
    BY DEF AwayInv
  <2>2. AwayInv(q) /\ Away(q)
    BY <1>1, <1>5, <2>1 DEF IInv, Away
  <2>4. stack'[q] = stack[q]
    BY <1>1, <1>5 DEF Elsewhere, Stack
  <2>5. /\ state'[q] = state[q] \/ (state[q] = "SLEEPING" /\ state'[q] = "RUNNABLE")
        /\ ctx'[q] = ctx[q]
    BY <1>5 DEF Elsewhere
  <2> QED BY <2>2, <2>4, <2>5 DEF AwayInv
<1>6. Alone'
  BY <1>1 DEF IInv, Alone
<1>7. \A q \in Procs : AwayInv(q)'
  BY <1>5
<1>8. \A g \in Harts : HartInv(g)' /\ IdleInv(g)' /\ BusyInv(g)'
  BY <1>2, <1>3, <1>4
<1> QED BY <1>6, <1>7, <1>8 DEF IInv

\* Enter: swtch() to a process that is RUNNABLE.  What its context and its kernel stack
\* hold is what the place in its context needs.
LEMMA Enter ==
    ASSUME IInv, NEW h \in Harts, NEW p \in Procs, Run(h, p)
    PROVE  IInv'
<1>1. /\ run[h] = None /\ pc[h] = At("scheduler") /\ stack[h] = <<>>
      /\ csr[h] \in Registers /\ csr[h].tp = h /\ csr[h].stvec = "kernelvec" /\ tickslock # h
  BY DEF IInv, TypeOK, HartInv, IdleInv, BusyInv, Pushed, At, Run
<1>2. Away(p) /\ AwayInv(p) /\ state[p] = "RUNNABLE"
  BY TrapsAssumption DEF IInv, BusyInv, Away, TypeOK, Run
<1>3. /\ ctx[p].at \in {"forkret", "usertrapret", "kret", "wake"} /\ ctx[p].intena \in BOOLEAN
      /\ Pushed(stack[p], ctx[p].at, Calm)
      /\ ctx[p].at = "kret" => ctx[p].intena = FALSE
  BY <1>2 DEF AwayInv, IInv, TypeOK
<1>4. Intena(h, p) \in BOOLEAN /\ (ctx[p].at = "kret" => Intena(h, p) = FALSE)
  BY <1>1, <1>3 DEF Intena, Registers
<1>5. /\ pc' = [pc EXCEPT ![h] = At(ctx[p].at)]
      /\ csr' = [csr EXCEPT ![h] = [csr[h] EXCEPT !.sie = Intena(h, p)]]
      /\ run' = [run EXCEPT ![h] = p]
      /\ state' = [state EXCEPT ![p] = "RUNNING"]
      /\ ctx' = [ctx EXCEPT ![p] = [at |-> "none", intena |-> FALSE]]
      /\ frame' = frame /\ stack' = stack /\ tickslock' = tickslock /\ panicked' = panicked
  BY DEF Run, Set, Swtch, Goto
<1>6. /\ pc'[h] = At(ctx[p].at) /\ run'[h] = p /\ state'[p] = "RUNNING"
      /\ \A g \in Harts : g # h => pc'[g] = pc[g] /\ csr'[g] = csr[g] /\ run'[g] = run[g]
      /\ \A q \in Procs : q # p => state'[q] = state[q] /\ ctx'[q] = ctx[q]
  BY <1>5 DEF IInv, TypeOK
<1>7. /\ csr'[h] \in Registers /\ csr'[h].stvec = "kernelvec" /\ csr'[h].tp = h
      /\ csr'[h].sie = Intena(h, p)
  <2>1. csr'[h] = [csr[h] EXCEPT !.sie = Intena(h, p)]
    BY <1>5 DEF IInv, TypeOK
  <2> QED BY <2>1, <1>1, <1>4 DEF Registers
<1>8. TypeOK'
  <2>1. At(ctx[p].at) \in Spot
    BY <1>3 DEF At, Spot, Places, Calm
  <2>2. pc' \in [Harts -> Spot] /\ run' \in [Harts -> Procs \union {None}]
    BY <2>1, <1>5 DEF IInv, TypeOK
  <2>3. csr' \in [Harts -> Registers]
    BY <1>5, <1>6, <1>7 DEF IInv, TypeOK
  <2>4. state' \in [Procs -> {"RUNNABLE", "RUNNING", "SLEEPING", "ZOMBIE"}]
    BY <1>5 DEF IInv, TypeOK
  <2>5. ctx' \in [Procs -> [at : Calm \union {"kret", "dead", "none"}, intena : BOOLEAN]]
    BY <1>5 DEF IInv, TypeOK
  <2> QED BY <2>2, <2>3, <2>4, <2>5, <1>5 DEF IInv, TypeOK
<1>9. HartInv(h)'
  BY <1>1, <1>3, <1>4, <1>5, <1>6, <1>7 DEF HartInv, At, Locked
<1>10. IdleInv(h)' /\ BusyInv(h)'
  BY <1>1, <1>3, <1>5, <1>6, TrapsAssumption DEF IdleInv, BusyInv, At
<1>11. ASSUME NEW g \in Harts, g # h PROVE HartInv(g)' /\ IdleInv(g)' /\ BusyInv(g)'
  <2>1. HartInv(g) /\ IdleInv(g) /\ BusyInv(g) /\ run[g] # p
    BY <1>2 DEF IInv, Away
  <2>2. HartInv(g)' /\ IdleInv(g)'
    BY <2>1, <1>5, <1>6, <1>11 DEF HartInv, IdleInv
  <2>3. run[g] # None => state'[run[g]] = state[run[g]]
    BY <2>1, <1>6 DEF IInv, TypeOK
  <2> QED BY <2>1, <2>2, <2>3, <1>5, <1>6, <1>11 DEF BusyInv
<1>12. ASSUME NEW q \in Procs PROVE AwayInv(q)'
  <2>1. SUFFICES ASSUME Away(q)' PROVE AwayInv(q)'
    BY DEF AwayInv
  <2>2. q # p
    BY <1>6, <2>1 DEF Away
  <2>3. Away(q)
    BY <1>1, <1>6, <2>1, TrapsAssumption DEF Away
  <2> QED BY <1>5, <1>6, <2>2, <2>3 DEF IInv, AwayInv
<1>13. Alone'
  BY <1>1, <1>2, <1>6 DEF IInv, Alone, Away
<1>14. \A g \in Harts : HartInv(g)' /\ IdleInv(g)' /\ BusyInv(g)'
  BY <1>9, <1>10, <1>11
<1> QED BY <1>5, <1>8, <1>12, <1>13, <1>14 DEF IInv

-----------------------------------------------------------------------------
(* The steps of a process in the kernel                                    *)

Frames == [epc : Nat, kernel_hartid : Harts \union {None}]
States == {"RUNNABLE", "RUNNING", "SLEEPING", "ZOMBIE"}

\* Advance: the hart goes on to another place of the kernel's code for its process,
\* and no kerneltrap() begins or ends.
LEMMA Advance ==
    ASSUME IInv, NEW h \in Harts, run[h] # None, pc[h][1] # "kret",
           NEW x \in Calm \union Locked \union {"userret"}, NEW R \in Registers,
           pc' = [pc EXCEPT ![h] = At(x)], csr' = [csr EXCEPT ![h] = R],
           run' = run, ctx' = ctx, stack' = stack, panicked' = FALSE,
           R.tp = h, R.stvec = IF x = "userret" THEN "uservec" ELSE "kernelvec",
           x \in Locked \union {"userret"} => R.sie = FALSE,
           frame' \in [Procs -> Frames], \A q \in Procs : q # run[h] => frame'[q] = frame[q],
           state' \in [Procs -> States],
           \A q \in Procs : state'[q] = state[q] \/ (state[q] = "SLEEPING" /\ state'[q] = "RUNNABLE"),
           tickslock' \in Harts \union {None},
           tickslock' = tickslock \/ (tickslock \in {h, None} /\ tickslock' \in {h, None}),
           tickslock' = h <=> x \in {"sleeploop", "sleep"}
    PROVE  IInv' /\ Elsewhere(h)
<1>1. run[h] \in Procs /\ HartInv(h) /\ BusyInv(h)
  BY DEF IInv, TypeOK
<1>2. pc'[h] = At(x) /\ csr'[h] = R /\ At(x)[1] = x /\ At(x) \in Spot
  BY DEF IInv, TypeOK, At, Spot, Places
<1>3. TypeOK'
  BY <1>2 DEF IInv, TypeOK, Frames, States
<1>4. Elsewhere(h)
  BY DEF Elsewhere, IInv, TypeOK
<1>5. x \notin {"user", "kret", "scheduler"}
  BY DEF Calm, Locked
<1>6. HartInv(h)'
  BY <1>2, <1>5 DEF HartInv
<1>7. state'[run[h]] = "RUNNING"
  BY <1>1 DEF BusyInv
<1>8. IdleInv(h)' /\ BusyInv(h)'
  BY <1>1, <1>2, <1>5, <1>7 DEF IdleInv, BusyInv, Pushed
<1> QED BY <1>3, <1>4, <1>6, <1>8, Stay

\* Kernel code that is not in an interrupt finds its hart in tp and its process with it.
Settled(h) ==
    /\ run[h] # None /\ run[h] \in Procs /\ this_proc(h) = run[h] /\ ~InUser(h)
    /\ csr[h] \in Registers /\ csr[h].tp = h /\ csr[h].sie \in BOOLEAN /\ csr[h].intena \in BOOLEAN
    /\ pc[h] = At(pc[h][1]) /\ state[run[h]] = "RUNNING" /\ stack[run[h]] = <<>> /\ stack[h] = <<>>
    /\ frame \in [Procs -> Frames] /\ state \in [Procs -> States] /\ tickslock \in Harts \union {None}
    /\ panicked = FALSE
    /\ (tickslock = h <=> pc[h][1] \in {"sleeploop", "sleep"})
    /\ csr[h].stvec = IF pc[h][1] = "userret" THEN "uservec" ELSE "kernelvec"

LEMMA InKernel ==
    ASSUME IInv, NEW h \in Harts, pc[h][1] \notin {"user", "kret", "scheduler"}
    PROVE  Settled(h)
<1>1. HartInv(h) /\ IdleInv(h) /\ BusyInv(h) /\ TypeOK /\ panicked = FALSE
  BY DEF IInv
<1>2. run[h] # None /\ run[h] \in Procs
  BY <1>1 DEF IdleInv, TypeOK
<1>3. csr[h] \in Registers
  BY <1>1 DEF TypeOK
<1>4. stack[run[h]] = <<>> /\ stack[h] = <<>> /\ state[run[h]] = "RUNNING"
  BY <1>1, <1>2 DEF BusyInv, Pushed
<1> QED BY <1>1, <1>2, <1>3, <1>4 DEF Settled, HartInv, TypeOK, Frames, States, this_proc, InUser, Registers

\* pop_off() and push_off()
LEMMA Flag ==
    ASSUME NEW r \in Registers, NEW b \in BOOLEAN
    PROVE  /\ [r EXCEPT !.sie = b] \in Registers
           /\ [r EXCEPT !.sie = b].sie = b
           /\ [r EXCEPT !.sie = b].tp = r.tp
           /\ [r EXCEPT !.sie = b].stvec = r.stvec
BY DEF Registers

LEMMA Flags ==
    ASSUME NEW r \in Registers, NEW b \in BOOLEAN, NEW c \in BOOLEAN
    PROVE  /\ [r EXCEPT !.sie = b, !.intena = c] \in Registers
           /\ [r EXCEPT !.sie = b, !.intena = c].sie = b
           /\ [r EXCEPT !.sie = b, !.intena = c].tp = r.tp
           /\ [r EXCEPT !.sie = b, !.intena = c].stvec = r.stvec
BY DEF Registers

LEMMA SysSleepStep ==
    ASSUME IInv, NEW h \in Harts, NEW n, SysSleep(h, n)
    PROVE  IInv' /\ Elsewhere(h)
<1>1. pc[h][1] = "syscall"
  BY DEF SysSleep, At
<1>2. Settled(h)
  BY <1>1, InKernel
<1> DEFINE R == [csr[h] EXCEPT !.sie = FALSE, !.intena = csr[h].sie]
<1>3. R \in Registers /\ R.tp = h /\ R.stvec = "kernelvec" /\ R.sie = FALSE
  BY <1>1, <1>2, Flags DEF Settled
<1> HIDE DEF R
<1>4. pc' = [pc EXCEPT ![h] = At("lock")] /\ csr' = [csr EXCEPT ![h] = R]
  BY DEF SysSleep, PushOff, Goto, Set, R
<1>5. "lock" \in Calm \union Locked \union {"userret"}
  BY DEF Locked
<1> QED BY <1>1, <1>2, <1>3, <1>4, <1>5, Advance DEF SysSleep, Settled

LEMMA WakeStep ==
    ASSUME IInv, NEW h \in Harts, Wake(h)
    PROVE  IInv' /\ Elsewhere(h)
<1>1. pc[h][1] = "wake"
  BY DEF Wake, At
<1>2. Settled(h)
  BY <1>1, InKernel
<1> DEFINE R == [csr[h] EXCEPT !.sie = FALSE, !.intena = csr[h].sie]
<1>3. R \in Registers /\ R.tp = h /\ R.stvec = "kernelvec" /\ R.sie = FALSE
  BY <1>1, <1>2, Flags DEF Settled
<1> HIDE DEF R
<1>4. pc' = [pc EXCEPT ![h] = At("relock")] /\ csr' = [csr EXCEPT ![h] = R]
  BY DEF Wake, PushOff, Goto, Set, R
<1>5. "relock" \in Calm \union Locked \union {"userret"}
  BY DEF Locked
<1> QED BY <1>1, <1>2, <1>3, <1>4, <1>5, Advance DEF Wake, Settled

\* The hart keeps its registers.
LEMMA LockStep ==
    ASSUME IInv, NEW h \in Harts, Lock(h)
    PROVE  IInv' /\ Elsewhere(h)
<1>1. pc[h][1] \in {"lock", "relock"}
  BY DEF Lock
<1>2. Settled(h) /\ HartInv(h)
  BY <1>1, InKernel DEF IInv
<1>3. csr' = [csr EXCEPT ![h] = csr[h]] /\ csr[h].sie = FALSE
  BY <1>1, <1>2 DEF Lock, IInv, TypeOK, HartInv, Locked
<1>4. pc' = [pc EXCEPT ![h] = At("sleeploop")]
  BY DEF Lock, Goto
<1>5. "sleeploop" \in Calm \union Locked \union {"userret"}
  BY DEF Locked
<1> QED BY <1>1, <1>2, <1>3, <1>4, <1>5, Advance DEF Lock, Settled

LEMMA SleepLoopStep ==
    ASSUME IInv, NEW h \in Harts, SleepLoop(h)
    PROVE  IInv' /\ Elsewhere(h)
<1>1. pc[h][1] = "sleeploop"
  BY DEF SleepLoop, At
<1>2. Settled(h) /\ HartInv(h)
  BY <1>1, InKernel DEF IInv
<1>3. csr = [csr EXCEPT ![h] = csr[h]] /\ csr[h].sie = FALSE /\ tickslock = h
  BY <1>1, <1>2 DEF IInv, TypeOK, HartInv, Locked
<1>4. "sleep" \in Calm \union Locked \union {"userret"} /\ "after" \in Calm \union Locked \union {"userret"}
      /\ "after" \notin Locked \union {"userret"}
  BY DEF Locked, Calm
<1>5. run' = run /\ state' = state /\ frame' = frame /\ stack' = stack /\ ctx' = ctx /\ panicked' = panicked
  BY DEF SleepLoop
<1>6. CASE pc' = [pc EXCEPT ![h] = At("sleep")] /\ csr' = csr /\ tickslock' = tickslock
  BY <1>1, <1>2, <1>3, <1>4, <1>5, <1>6, Advance DEF Settled
<1>7. CASE /\ pc' = [pc EXCEPT ![h] = At("after")] /\ tickslock' = None
           /\ csr' = [csr EXCEPT ![h] = [csr[h] EXCEPT !.sie = csr[h].intena]]
  <2> DEFINE R == [csr[h] EXCEPT !.sie = csr[h].intena]
  <2>1. R \in Registers /\ R.tp = h /\ R.stvec = "kernelvec"
    BY <1>1, <1>2, Flag DEF Settled
  <2>2. csr' = [csr EXCEPT ![h] = R] /\ None # h
    BY <1>7, TrapsAssumption
  <2> HIDE DEF R
  <2> QED BY <1>1, <1>2, <1>3, <1>4, <1>5, <1>7, <2>1, <2>2, Advance DEF Settled
<1> QED BY <1>6, <1>7 DEF SleepLoop, Goto, Set

LEMMA SysKillStep ==
    ASSUME IInv, NEW h \in Harts, NEW p \in Procs, SysKill(h, p)
    PROVE  IInv' /\ Elsewhere(h)
<1>1. pc[h][1] = "syscall"
  BY DEF SysKill, At
<1>2. Settled(h) /\ "after" \in Calm /\ "after" \notin Locked \union {"userret"}
  BY <1>1, InKernel DEF Calm, Locked
<1>3. csr' = [csr EXCEPT ![h] = csr[h]]
  BY DEF SysKill, IInv, TypeOK
<1>4. pc' = [pc EXCEPT ![h] = At("after")]
  BY DEF SysKill, Goto
<1>5. /\ state' \in [Procs -> States]
      /\ \A q \in Procs : state'[q] = state[q] \/ (state[q] = "SLEEPING" /\ state'[q] = "RUNNABLE")
  BY <1>2 DEF SysKill, Settled, States
<1> QED BY <1>1, <1>2, <1>3, <1>4, <1>5, Advance DEF SysKill, Settled

LEMMA SysOtherStep ==
    ASSUME IInv, NEW h \in Harts, SysOther(h)
    PROVE  IInv' /\ Elsewhere(h)
<1>1. pc[h][1] = "syscall"
  BY DEF SysOther, At
<1>2. Settled(h) /\ "after" \in Calm /\ "after" \notin Locked \union {"userret"}
  BY <1>1, InKernel DEF Calm, Locked
<1>3. csr' = [csr EXCEPT ![h] = csr[h]]
  BY DEF SysOther, IInv, TypeOK
<1>4. pc' = [pc EXCEPT ![h] = At("after")]
  BY DEF SysOther, Goto
<1> QED BY <1>1, <1>2, <1>3, <1>4, Advance DEF SysOther, Settled

\* usertrapret(), after any of the calls that end in it
LEMMA UsertrapretStep ==
    ASSUME IInv, NEW h \in Harts,
           pc[h][1] \in {"after", "afterTick", "forkret", "usertrapret"}, Usertrapret(h),
           UNCHANGED <<run, state, frame, stack, ctx, tickslock, panicked>>
    PROVE  IInv' /\ Elsewhere(h)
<1>1. Settled(h)
  BY InKernel
<1> DEFINE R == [csr[h] EXCEPT !.sie = FALSE, !.stvec = "uservec"]
<1>2. R \in Registers /\ R.tp = h /\ R.stvec = "uservec" /\ R.sie = FALSE
  BY <1>1 DEF Settled, Registers
<1> HIDE DEF R
<1>3. pc' = [pc EXCEPT ![h] = At("userret")] /\ csr' = [csr EXCEPT ![h] = R]
  BY DEF Usertrapret, Goto, Set, R
<1> QED BY <1>1, <1>2, <1>3, Advance DEF Settled

-----------------------------------------------------------------------------
(* The steps that end in sched()                                           *)

LEMMA SchedRegisters ==
    ASSUME NEW r \in Registers, NEW i \in BOOLEAN
    PROVE  /\ [Quiet(r) EXCEPT !.sie = i, !.intena = FALSE] \in Registers
           /\ [Quiet(r) EXCEPT !.sie = i, !.intena = FALSE].tp = r.tp
           /\ [Quiet(r) EXCEPT !.sie = i, !.intena = FALSE].stvec = r.stvec
BY DEF Registers, Quiet, At

LEMMA SchedStep ==
    ASSUME IInv, NEW h \in Harts, NEW p \in Procs, run[h] = p,
           NEW regs \in Registers, regs.tp = h, regs.stvec = "kernelvec",
           NEW now \in [Procs -> States],
           \A q \in Procs : now[q] = state[q] \/ (state[q] = "SLEEPING" /\ now[q] = "RUNNABLE"),
           NEW st \in States, NEW at \in {"usertrapret", "kret", "wake", "dead"}, NEW i \in BOOLEAN,
           \/ st = "ZOMBIE" /\ at = "dead"
           \/ st = "RUNNABLE" /\ at \in {"usertrapret", "kret"}
           \/ st = "SLEEPING" /\ at = "wake",
           at = "kret" => i = FALSE,
           SchedOut(h, p, regs, now, st, at, i), panicked' = FALSE,
           frame' \in [Procs -> Frames], \A q \in Procs : q # p => frame'[q] = frame[q],
           stack' \in [Procs \union Harts -> Seq(Locals)],
           \A t \in Procs \union Harts : t # p => stack'[t] = stack[t],
           Pushed(stack'[p], at, Calm),
           tickslock' \in Harts \union {None}, tickslock' # h,
           tickslock' = tickslock \/ (tickslock \in {h, None} /\ tickslock' \in {h, None})
    PROVE  IInv' /\ Elsewhere(h)
<1> DEFINE R == [Quiet(regs) EXCEPT !.sie = i, !.intena = FALSE]
<1>1. R \in Registers /\ R.tp = h /\ R.stvec = "kernelvec"
  BY SchedRegisters
<1>2. /\ state' = [now EXCEPT ![p] = st]
      /\ ctx' = [ctx EXCEPT ![p] = [at |-> at, intena |-> i]]
      /\ run' = [run EXCEPT ![h] = None]
      /\ csr' = [csr EXCEPT ![h] = R]
      /\ pc' = [pc EXCEPT ![h] = At("scheduler")]
  BY DEF SchedOut, Set, Goto
<1> HIDE DEF R
<1>3. At("scheduler") \in Spot
  BY DEF At, Spot, Places
<1>4. TypeOK'
  <2>1. state' \in [Procs -> States] /\ run' \in [Harts -> Procs \union {None}]
    BY <1>2 DEF IInv, TypeOK
  <2>2. pc' \in [Harts -> Spot] /\ csr' \in [Harts -> Registers]
    BY <1>1, <1>2, <1>3 DEF IInv, TypeOK
  <2>3. ctx' \in [Procs -> [at : Calm \union {"kret", "dead", "none"}, intena : BOOLEAN]]
    BY <1>2 DEF IInv, TypeOK, Calm
  <2> QED BY <2>1, <2>2, <2>3 DEF TypeOK, States, Frames
<1>5. Elsewhere(h)
  <2>1. \A g \in Harts \ {h} : pc'[g] = pc[g] /\ csr'[g] = csr[g]
    BY <1>2 DEF IInv, TypeOK
  <2>2. \A q \in Procs : q # run[h] => ctx'[q] = ctx[q] /\ state'[q] = now[q]
    BY <1>2 DEF IInv, TypeOK
  <2>3. Stack(h) = p
    BY TrapsAssumption DEF Stack
  <2> QED BY <2>1, <2>2, <2>3 DEF Elsewhere
<1>6. pc'[h] = At("scheduler") /\ csr'[h] = R
  BY <1>2 DEF IInv, TypeOK
<1>7. AwayInv(p)'
  <2>1. state'[p] = st /\ ctx'[p] = [at |-> at, intena |-> i]
    BY <1>2 DEF IInv, TypeOK
  <2> QED BY <2>1 DEF AwayInv
<1> QED BY <1>1, <1>2, <1>4, <1>5, <1>6, <1>7, Leave

LEMMA SleepStep ==
    ASSUME IInv, NEW h \in Harts, Sleep(h)
    PROVE  IInv' /\ Elsewhere(h)
<1>1. pc[h][1] = "sleep"
  BY DEF Sleep, At
<1>2. Settled(h) /\ stack \in [Procs \union Harts -> Seq(Locals)]
  BY <1>1, InKernel DEF IInv, TypeOK
<1>3. PICK p \in Procs : p = run[h]
  BY <1>2 DEF Settled
<1>4. Pushed(stack[p], "wake", Calm) /\ None # h /\ "SLEEPING" \in States
  BY <1>2, <1>3, TrapsAssumption DEF Pushed, Settled, States
<1> DEFINE r == csr[h]  i == csr[h].intena
<1>5. SchedOut(h, p, r, state, "SLEEPING", "wake", i)
  BY <1>2, <1>3 DEF Sleep, Settled
<1>6. /\ r \in Registers /\ r.tp = h /\ r.stvec = "kernelvec" /\ i \in BOOLEAN
      /\ state \in [Procs -> States] /\ frame' \in [Procs -> Frames] /\ panicked' = FALSE
      /\ tickslock = h /\ tickslock' = None /\ frame' = frame /\ stack' = stack
  BY <1>1, <1>2 DEF Settled, Sleep
<1> HIDE DEF r, i
<1> QED BY <1>2, <1>3, <1>4, <1>5, <1>6, SchedStep

LEMMA UsertrapEndStep ==
    ASSUME IInv, NEW h \in Harts, UsertrapEnd(h)
    PROVE  IInv' /\ Elsewhere(h)
<1>1. pc[h][1] \in {"after", "afterTick"}
  BY DEF UsertrapEnd
<1>2. Settled(h) /\ stack \in [Procs \union Harts -> Seq(Locals)]
  BY <1>1, InKernel DEF IInv, TypeOK
<1>3. UNCHANGED <<frame, stack, tickslock, panicked>>
  BY DEF UsertrapEnd
<1>4. PICK p \in Procs : p = run[h]
  BY <1>2 DEF Settled
<1>5. /\ "ZOMBIE" \in States /\ "RUNNABLE" \in States
      /\ Pushed(stack[p], "dead", Calm) /\ Pushed(stack[p], "usertrapret", Calm)
  BY <1>2, <1>4 DEF States, Pushed, Settled
<1> DEFINE r == csr[h]  i == csr[h].sie
<1>6. /\ r \in Registers /\ r.tp = h /\ r.stvec = "kernelvec" /\ i \in BOOLEAN
      /\ state \in [Procs -> States] /\ frame' \in [Procs -> Frames] /\ panicked' = FALSE
      /\ tickslock' \in Harts \union {None} /\ tickslock' # h
      /\ stack' \in [Procs \union Harts -> Seq(Locals)]
  BY <1>1, <1>2, <1>3 DEF Settled
<1>7. CASE SchedOut(h, p, r, state, "ZOMBIE", "dead", i)
  <2> HIDE DEF r, i
  <2> QED BY <1>3, <1>4, <1>5, <1>6, <1>7, SchedStep
<1>8. CASE SchedOut(h, p, r, state, "RUNNABLE", "usertrapret", i)
  <2> HIDE DEF r, i
  <2> QED BY <1>3, <1>4, <1>5, <1>6, <1>8, SchedStep
<1>9. CASE Usertrapret(h) /\ UNCHANGED <<run, state, ctx>>
  BY <1>1, <1>3, <1>9, UsertrapretStep
<1>10. this_proc(h) = p
  BY <1>2, <1>4 DEF Settled
<1> QED BY <1>7, <1>8, <1>9, <1>10 DEF UsertrapEnd

-----------------------------------------------------------------------------
(* The steps of a hart in user mode                                        *)

\* A program runs with its own tp; the trapframe knows the hart.
Program(h) ==
    /\ run[h] # None /\ run[h] \in Procs /\ csr[h] \in Registers /\ csr[h].stvec = "uservec"
    /\ pc[h] = User(pc[h][2]) /\ pc[h][2] \in Nat /\ stack[run[h]] = <<>> /\ stack[h] = <<>>
    /\ state[run[h]] = "RUNNING" /\ frame[run[h]].kernel_hartid = h
    /\ frame \in [Procs -> Frames] /\ state \in [Procs -> States]
    /\ stack \in [Procs \union Harts -> Seq(Locals)]
    /\ tickslock \in Harts \union {None} /\ tickslock # h /\ panicked = FALSE

LEMMA InProgram ==
    ASSUME IInv, NEW h \in Harts, pc[h][1] = "user"
    PROVE  Program(h)
<1>1. HartInv(h) /\ IdleInv(h) /\ BusyInv(h) /\ TypeOK /\ panicked = FALSE
  BY DEF IInv
<1>2. run[h] # None /\ run[h] \in Procs
  BY <1>1 DEF IdleInv, TypeOK
<1>3. csr[h] \in Registers /\ csr[h].stvec = "uservec" /\ tickslock # h
  BY <1>1 DEF TypeOK, HartInv
<1>4. /\ stack[run[h]] = <<>> /\ stack[h] = <<>> /\ state[run[h]] = "RUNNING"
      /\ frame[run[h]].kernel_hartid = h
  BY <1>1, <1>2 DEF BusyInv, Pushed
<1>5. pc[h] = User(pc[h][2]) /\ pc[h][2] \in Nat
  BY <1>1 DEF TypeOK, Spot, User
<1> QED BY <1>1, <1>2, <1>3, <1>4, <1>5 DEF Program, TypeOK, Frames, States

\* The hart number in the trapframe gives the kernel its hart back.
LEMMA UservecRegisters ==
    ASSUME NEW h \in Harts, Program(h)
    PROVE  /\ Uservec(h) \in Registers /\ Uservec(h).tp = h /\ Uservec(h).stvec = "kernelvec"
           /\ Uservec(h).sie = FALSE /\ run[Uservec(h).tp] = run[h]
BY DEF Program, Uservec, Registers

\* The instruction after the last is the first one again.
LEMMA NextInstruction ==
    ASSUME NEW a \in Nat, NEW m \in Nat \ {0}
    PROVE  (a + 1) % m \in Nat
OBVIOUS

\* Instr: in user mode before and after
LEMMA InstrStep ==
    ASSUME IInv, NEW h \in Harts, Instr(h)
    PROVE  IInv' /\ Elsewhere(h)
<1>1. pc[h][1] = "user" /\ Program(h) /\ HartInv(h) /\ IdleInv(h) /\ BusyInv(h) /\ TypeOK
  BY InProgram DEF Instr, InUser, IInv
<1>2. PICK n \in Nat : pc' = [pc EXCEPT ![h] = User(n)]
  <2>1. UserPcs[run[h]] \in Nat \ {0}
    BY <1>1, TrapsAssumption DEF Program
  <2>2. (pc[h][2] + 1) % UserPcs[run[h]] \in Nat
    BY <1>1, <2>1, NextInstruction DEF Program
  <2> QED BY <2>2, <1>1 DEF Instr, TypeOK
<1>3. User(n) \in Spot /\ User(n)[1] = "user" /\ pc'[h] = User(n)
  BY <1>1, <1>2 DEF User, Spot, Places, TypeOK
<1>4. UNCHANGED <<csr, run, state, frame, stack, ctx, tickslock, panicked>>
  BY DEF Instr
<1>5. TypeOK'
  BY <1>1, <1>2, <1>3, <1>4 DEF TypeOK
<1>6. Elsewhere(h)
  BY <1>1, <1>2, <1>4 DEF Elsewhere, TypeOK
<1>7. HartInv(h)' /\ IdleInv(h)' /\ BusyInv(h)'
  BY <1>1, <1>3, <1>4 DEF HartInv, IdleInv, BusyInv, Pushed, Locked
<1> QED BY <1>4, <1>5, <1>6, <1>7, Stay DEF IInv

\* A trap from user mode, up to the place in usertrap() where the hart goes on
LEMMA UsertrapStep ==
    ASSUME IInv, NEW h \in Harts, pc[h][1] = "user",
           NEW x \in {"syscall", "after", "afterTick"}, NEW b \in BOOLEAN,
           NEW n \in Nat, SaveFrame(h, n), IntoUsertrap(h),
           Set(h, [Uservec(h) EXCEPT !.sie = b]), Goto(h, x), run' = run, ctx' = ctx,
           state' \in [Procs -> States],
           \A q \in Procs : state'[q] = state[q] \/ (state[q] = "SLEEPING" /\ state'[q] = "RUNNABLE")
    PROVE  IInv' /\ Elsewhere(h)
<1>1. Program(h)
  BY InProgram
<1> DEFINE R == [Uservec(h) EXCEPT !.sie = b]
<1>2. R \in Registers /\ R.tp = h /\ R.stvec = "kernelvec"
  <2>1. PICK r \in Registers : r = Uservec(h)
    BY <1>1, UservecRegisters
  <2>2. r.tp = h /\ r.stvec = "kernelvec"
    BY <1>1, <2>1, UservecRegisters
  <2> QED BY <2>1, <2>2, Flag
<1>3. csr' = [csr EXCEPT ![h] = R] /\ pc' = [pc EXCEPT ![h] = At(x)]
  BY DEF Set, Goto
<1> HIDE DEF R
<1>4. [epc |-> n, kernel_hartid |-> None] \in Frames
  BY DEF Frames
<1>5. frame' \in [Procs -> Frames] /\ \A q \in Procs : q # run[h] => frame'[q] = frame[q]
  BY <1>1, <1>4 DEF Program, SaveFrame
<1>6. panicked' = FALSE /\ stack' = stack /\ tickslock' = tickslock
  BY DEF IntoUsertrap, InUser
<1>7. x \in Calm /\ x \notin Locked \union {"userret"} /\ x \notin {"sleeploop", "sleep"}
  BY DEF Calm, Locked
<1> QED BY <1>1, <1>2, <1>3, <1>5, <1>6, <1>7, Advance DEF Program

\* wakeup(&ticks) makes sleepers runnable and does nothing else.
LEMMA WakeupStates ==
    ASSUME state \in [Procs -> States], NEW h \in Harts
    PROVE  /\ Wakeup(h) \in [Procs -> States]
           /\ \A q \in Procs : Wakeup(h)[q] = state[q] \/ (state[q] = "SLEEPING" /\ Wakeup(h)[q] = "RUNNABLE")
BY DEF Wakeup, States

LEMMA UservecOff ==
    ASSUME NEW h \in Harts, Program(h)
    PROVE  Uservec(h) = [Uservec(h) EXCEPT !.sie = FALSE]
<1>1. PICK r \in Registers : r = Uservec(h)
  BY UservecRegisters
<1>2. r.sie = FALSE
  BY <1>1, UservecRegisters
<1>3. r = [r EXCEPT !.sie = FALSE]
  BY <1>2 DEF Registers
<1> QED BY <1>1, <1>3

LEMMA EcallStep ==
    ASSUME IInv, NEW h \in Harts, Ecall(h)
    PROVE  IInv' /\ Elsewhere(h)
<1>1. pc[h][1] = "user" /\ Program(h) /\ IntoUsertrap(h)
  BY InProgram DEF Ecall, InUser
<1>2. PICK p \in Procs : p = run[h]
  BY <1>1 DEF Program
<1>3. run[Uservec(h).tp] = p
  BY <1>1, <1>2, UservecRegisters
<1>4. panicked' = FALSE /\ stack' = stack /\ tickslock' = tickslock
  BY <1>1 DEF IntoUsertrap, InUser
<1>5. CASE p \in killed
  <2>1. PICK r \in Registers : r = Uservec(h)
    BY <1>1, UservecRegisters
  <2>2. r.tp = h /\ r.stvec = "kernelvec"
    BY <1>1, <2>1, UservecRegisters
  <2>3. SchedOut(h, p, r, state, "ZOMBIE", "dead", FALSE) /\ SaveFrame(h, pc[h][2])
    BY <1>3, <1>5, <2>1 DEF Ecall
  <2>4. [epc |-> pc[h][2], kernel_hartid |-> None] \in Frames
    BY <1>1 DEF Frames, Program
  <2>5. frame' \in [Procs -> Frames] /\ \A q \in Procs : q # p => frame'[q] = frame[q]
    BY <1>1, <1>2, <2>3, <2>4 DEF Program, SaveFrame
  <2>6. Pushed(stack[p], "dead", Calm) /\ "ZOMBIE" \in States
    BY <1>1, <1>2 DEF Pushed, Program, States
  <2> QED BY <1>1, <1>2, <1>4, <2>2, <2>3, <2>5, <2>6, SchedStep DEF Program
<1>6. CASE p \notin killed
  <2>1. (pc[h][2] + 1) % UserPcs[p] \in Nat
    <3>1. UserPcs[p] \in Nat \ {0}
      BY TrapsAssumption
    <3>2. pc[h][2] \in Nat
      BY <1>1 DEF Program
    <3> QED BY <3>1, <3>2, NextInstruction
  <2>2. /\ SaveFrame(h, (pc[h][2] + 1) % UserPcs[p]) /\ Set(h, [Uservec(h) EXCEPT !.sie = TRUE])
        /\ Goto(h, "syscall") /\ UNCHANGED <<run, state, ctx>>
    BY <1>3, <1>6 DEF Ecall
  <2> QED BY <1>1, <2>1, <2>2, UsertrapStep DEF Program
<1> QED BY <1>5, <1>6

LEMMA FaultStep ==
    ASSUME IInv, NEW h \in Harts, Fault(h)
    PROVE  IInv' /\ Elsewhere(h)
<1>1. pc[h][1] = "user" /\ Program(h) /\ IntoUsertrap(h)
  BY InProgram DEF Fault, InUser
<1>2. /\ SaveFrame(h, pc[h][2]) /\ Set(h, [Uservec(h) EXCEPT !.sie = FALSE]) /\ Goto(h, "after")
      /\ UNCHANGED <<run, state, ctx>>
  BY <1>1, UservecOff DEF Fault
<1> QED BY <1>1, <1>2, UsertrapStep DEF Program

\* A trap that uservec takes comes from user mode: in usertrapret() interrupts are off.
LEMMA FromUser ==
    ASSUME IInv, NEW h \in Harts, Open(h), csr[h].stvec = "uservec"
    PROVE  pc[h][1] = "user"
<1>1. HartInv(h)
  BY DEF IInv
<1> QED BY <1>1 DEF HartInv, Open, InUser

LEMMA UserDeviceStep ==
    ASSUME IInv, NEW h \in Harts, UserDevice(h)
    PROVE  IInv' /\ Elsewhere(h)
<1>1. pc[h][1] = "user"
  BY FromUser DEF UserDevice, UserIntr, IntoUsertrap, Device
<1>2. Program(h) /\ IntoUsertrap(h)
  BY <1>1, InProgram DEF UserDevice, UserIntr
<1>3. /\ SaveFrame(h, pc[h][2]) /\ Set(h, [Uservec(h) EXCEPT !.sie = FALSE]) /\ Goto(h, "after")
      /\ UNCHANGED <<run, state, ctx>>
  BY <1>2, UservecOff DEF UserDevice, UserIntr, Device
<1> QED BY <1>1, <1>2, <1>3, UsertrapStep DEF Program

LEMMA UserTimerStep ==
    ASSUME IInv, NEW h \in Harts, UserTimer(h)
    PROVE  IInv' /\ Elsewhere(h)
<1>1. pc[h][1] = "user"
  BY FromUser DEF UserTimer, UserIntr, IntoUsertrap, Timer
<1>2. Program(h) /\ IntoUsertrap(h)
  BY <1>1, InProgram DEF UserTimer, UserIntr
<1>3. /\ SaveFrame(h, pc[h][2]) /\ Set(h, [Uservec(h) EXCEPT !.sie = FALSE]) /\ Goto(h, "afterTick")
      /\ run' = run /\ ctx' = ctx /\ state' = Wakeup(h)
  BY <1>2, UservecOff DEF UserTimer, UserIntr
<1>4. /\ state' \in [Procs -> States]
      /\ \A q \in Procs : state'[q] = state[q] \/ (state[q] = "SLEEPING" /\ state'[q] = "RUNNABLE")
  BY <1>2, <1>3, WakeupStates DEF Program
<1> QED BY <1>1, <1>2, <1>3, <1>4, UsertrapStep DEF Program

LEMMA BackToUserStep ==
    ASSUME IInv, NEW h \in Harts, BackToUser(h)
    PROVE  IInv' /\ Elsewhere(h)
BY UsertrapretStep DEF BackToUser

\* Userret: the trapframe gets the number of the hart that will take the next trap.
LEMMA UserretStep ==
    ASSUME IInv, NEW h \in Harts, Userret(h)
    PROVE  IInv' /\ Elsewhere(h)
<1>1. pc[h] = At("userret") /\ pc[h][1] = "userret"
  BY DEF Userret, At
<1>2. Settled(h) /\ TypeOK
  BY <1>1, InKernel DEF IInv
<1>3. PICK p \in Procs : p = run[h]
  BY <1>2 DEF Settled
<1>4. PICK n \in Nat : n = frame[p].epc
  BY <1>2 DEF Settled, Frames
<1> DEFINE R == [Quiet(csr[h]) EXCEPT !.sie = TRUE, !.tp = None]
<1>5. R \in Registers /\ R.stvec = "uservec"
  BY <1>1, <1>2 DEF Settled, Registers, Quiet, At
<1>6. /\ csr' = [csr EXCEPT ![h] = R] /\ pc' = [pc EXCEPT ![h] = User(n)]
      /\ frame' = [frame EXCEPT ![p] = [epc |-> 0, kernel_hartid |-> h]]
      /\ UNCHANGED <<run, state, stack, ctx, tickslock, panicked>>
  BY <1>2, <1>3, <1>4 DEF Userret, Set, PutFrame, Settled
<1> HIDE DEF R
<1>7. User(n) \in Spot /\ User(n)[1] = "user" /\ [epc |-> 0, kernel_hartid |-> h] \in Frames
  BY DEF User, Spot, Places, Frames
<1>8. pc'[h] = User(n) /\ csr'[h] = R /\ frame'[p] = [epc |-> 0, kernel_hartid |-> h]
  BY <1>2, <1>6 DEF TypeOK
<1>9. TypeOK'
  <2>1. pc' \in [Harts -> Spot] /\ csr' \in [Harts -> Registers]
    BY <1>2, <1>5, <1>6, <1>7 DEF TypeOK
  <2>2. frame' \in [Procs -> Frames]
    BY <1>2, <1>6, <1>7 DEF Settled
  <2> QED BY <1>2, <1>6, <2>1, <2>2 DEF TypeOK, Frames
<1>10. Elsewhere(h)
  BY <1>2, <1>3, <1>6 DEF Elsewhere, TypeOK
<1>11. HartInv(h)' /\ IdleInv(h)' /\ BusyInv(h)'
  BY <1>1, <1>2, <1>3, <1>5, <1>6, <1>7, <1>8 DEF HartInv, IdleInv, BusyInv, Pushed, Settled, Locked
<1> QED BY <1>2, <1>6, <1>9, <1>10, <1>11, Stay DEF Settled

-----------------------------------------------------------------------------
(* kerneltrap()                                                            *)

LEMMA SchedLoopStep ==
    ASSUME IInv, NEW h \in Harts, SchedLoop(h)
    PROVE  IInv' /\ Elsewhere(h)
<1>1. pc[h] = At("scheduler") /\ pc[h][1] = "scheduler" /\ TypeOK /\ HartInv(h) /\ IdleInv(h) /\ BusyInv(h)
  BY DEF SchedLoop, IInv, At
<1> DEFINE R == [csr[h] EXCEPT !.sie = TRUE]
<1>2. R \in Registers /\ R.tp = h /\ R.stvec = "kernelvec"
  BY <1>1, Flag DEF HartInv, TypeOK
<1>3. csr' = [csr EXCEPT ![h] = R] /\ UNCHANGED <<pc, run, state, frame, stack, ctx, tickslock, panicked>>
  BY DEF SchedLoop, Set
<1> HIDE DEF R
<1>4. csr'[h] = R /\ csr' \in [Harts -> Registers]
  BY <1>1, <1>2, <1>3 DEF TypeOK
<1>5. TypeOK' /\ Elsewhere(h)
  BY <1>1, <1>3, <1>4 DEF TypeOK, Elsewhere
<1>6. HartInv(h)' /\ IdleInv(h)' /\ BusyInv(h)'
  BY <1>1, <1>2, <1>3, <1>4 DEF HartInv, IdleInv, BusyInv, Locked
<1> QED BY <1>3, <1>5, <1>6, Stay DEF IInv

\* Interruptible: a trap that kernelvec takes comes where nothing lies on the stack yet.
Interruptible(h) ==
    /\ pc[h] = At(pc[h][1]) /\ pc[h] \in Spot /\ csr[h] \in Registers /\ csr[h].tp = h
    /\ run[h] = None => pc[h][1] = "scheduler"
    /\ run[h] # None => pc[h][1] \in Calm /\ run[h] \in Procs /\ state[run[h]] = "RUNNING"
    /\ Stack(h) \in Procs \union Harts /\ stack[Stack(h)] = <<>> /\ stack[h] = <<>>
    /\ tickslock # h /\ ~InUser(h) /\ TypeOK

LEMMA FromKernel ==
    ASSUME IInv, NEW h \in Harts, Open(h), csr[h].stvec = "kernelvec"
    PROVE  Interruptible(h)
<1>1. HartInv(h) /\ IdleInv(h) /\ BusyInv(h) /\ TypeOK /\ pc[h] \in Spot /\ csr[h] \in Registers
  BY DEF IInv, TypeOK
<1>2. pc[h][1] \in Places /\ pc[h][1] \notin {"user", "userret", "kret"} \union Locked
  BY <1>1 DEF HartInv, Open, InUser, Spot
<1>3. run[h] = None => pc[h][1] = "scheduler" /\ stack[h] = <<>>
  BY <1>1, <1>2 DEF IdleInv, Pushed
<1>4. run[h] # None => /\ pc[h][1] \in Calm /\ state[run[h]] = "RUNNING"
                       /\ stack[run[h]] = <<>> /\ stack[h] = <<>>
  BY <1>1, <1>2 DEF BusyInv, Pushed, Places
<1>5. run[h] \in Procs \union {None}
  BY <1>1 DEF TypeOK
<1> QED BY <1>1, <1>2, <1>3, <1>4, <1>5 DEF Interruptible, HartInv, Stack, InUser, Locked

\* What kerneltrap() finds: its registers, and its locals on the stack
LEMMA KernelvecRegisters ==
    ASSUME NEW h \in Harts, Interruptible(h)
    PROVE  /\ Kernelvec(h) \in Registers /\ Kernelvec(h).tp = h
           /\ Kernelvec(h).stvec = csr[h].stvec /\ Kernelvec(h).sie = FALSE
           /\ [sepc |-> pc[h], spie |-> csr[h].sie] \in Locals
BY DEF Interruptible, Kernelvec, Registers, Locals

LEMMA KernelPush ==
    ASSUME IInv, NEW h \in Harts, Interruptible(h), KernelIntr(h)
    PROVE  /\ stack' \in [Procs \union Harts -> Seq(Locals)] /\ panicked' = FALSE
           /\ frame' = frame /\ tickslock' = tickslock
           /\ \A t \in Procs \union Harts : t # Stack(h) => stack'[t] = stack[t]
           /\ Len(stack'[Stack(h)]) = 1
           /\ stack'[Stack(h)][1].sepc = pc[h]
<1> DEFINE e == [sepc |-> pc[h], spie |-> csr[h].sie]
<1>1. e \in Locals /\ e.sepc = pc[h]
  BY KernelvecRegisters
<1>2. stack' = [stack EXCEPT ![Stack(h)] = Append(stack[Stack(h)], e)]
  BY DEF KernelIntr
<1> HIDE DEF e
<1>3. Append(stack[Stack(h)], e) \in Seq(Locals) /\ Append(stack[Stack(h)], e) = <<e>>
  BY <1>1 DEF Interruptible
<1>4. stack'[Stack(h)] = <<e>> /\ stack' \in [Procs \union Harts -> Seq(Locals)]
  BY <1>2, <1>3 DEF Interruptible, TypeOK
<1>5. \A t \in Procs \union Harts : t # Stack(h) => stack'[t] = stack[t]
  BY <1>2 DEF Interruptible, TypeOK
<1>6. panicked' = FALSE /\ frame' = frame /\ tickslock' = tickslock
  BY DEF KernelIntr, Interruptible
<1> QED BY <1>1, <1>4, <1>5, <1>6

\* An interrupt that does not end in yield()
LEMMA KerneltrapStep ==
    ASSUME IInv, NEW h \in Harts, Interruptible(h), csr[h].stvec = "kernelvec",
           KernelIntr(h), Set(h, Kernelvec(h)), Goto(h, "kret"), run' = run, ctx' = ctx,
           state' \in [Procs -> States],
           \A q \in Procs : state'[q] = state[q] \/ (state[q] = "SLEEPING" /\ state'[q] = "RUNNABLE")
    PROVE  IInv' /\ Elsewhere(h)
<1>1. PICK R \in Registers : R = Kernelvec(h)
  BY KernelvecRegisters
<1>2. R.tp = h /\ R.stvec = "kernelvec" /\ R.sie = FALSE
  BY <1>1, KernelvecRegisters
<1>3. csr' = [csr EXCEPT ![h] = R] /\ pc' = [pc EXCEPT ![h] = At("kret")]
  BY <1>1 DEF Set, Goto
<1>4. At("kret") \in Spot /\ At("kret")[1] = "kret"
  BY DEF At, Spot, Places
<1>5. pc'[h] = At("kret") /\ csr'[h] = R /\ pc' \in [Harts -> Spot] /\ csr' \in [Harts -> Registers]
  BY <1>3, <1>4 DEF Interruptible, TypeOK
<1>6. TypeOK'
  BY <1>5, KernelPush DEF Interruptible, TypeOK, States
<1>7. Elsewhere(h)
  BY <1>3, KernelPush DEF Elsewhere, Interruptible, TypeOK
<1>8. HartInv(h)'
  <2>1. tickslock' # h
    BY KernelPush DEF Interruptible
  <2> QED BY <1>2, <1>4, <1>5, <2>1 DEF HartInv
<1>9. Pushed(stack'[Stack(h)], "kret", {pc[h][1]})
  <2>1. Len(stack'[Stack(h)]) = 1 /\ stack'[Stack(h)][1].sepc = pc[h]
    BY KernelPush
  <2>2. pc[h] \in {At(x) : x \in {pc[h][1]}}
    BY DEF Interruptible
  <2> QED BY <2>1, <2>2 DEF Pushed
<1>10. IdleInv(h)'
  BY <1>4, <1>5, <1>9 DEF IdleInv, Interruptible, Pushed, Stack
<1>11. BusyInv(h)'
  <2>1. SUFFICES ASSUME run[h] # None PROVE BusyInv(h)'
    BY DEF BusyInv
  <2>2. Stack(h) = run[h] /\ stack'[h] = <<>>
    <3>1. Stack(h) = run[h] /\ run[h] # h /\ stack[h] = <<>>
      BY <2>1, TrapsAssumption DEF Stack, Interruptible
    <3>2. \A t \in Procs \union Harts : t # Stack(h) => stack'[t] = stack[t]
      BY KernelPush
    <3> QED BY <3>1, <3>2
  <2>3. state'[run[h]] = "RUNNING"
    BY <2>1 DEF Interruptible
  <2> QED BY <1>4, <1>5, <1>9, <2>1, <2>2, <2>3 DEF BusyInv, Interruptible, Pushed
<1> QED BY <1>6, <1>7, <1>8, <1>10, <1>11, KernelPush, Stay

LEMMA KernelDeviceStep ==
    ASSUME IInv, NEW h \in Harts, KernelDevice(h)
    PROVE  IInv' /\ Elsewhere(h)
<1>1. Interruptible(h) /\ csr[h].stvec = "kernelvec"
  BY FromKernel DEF KernelDevice, KernelIntr, Device
<1>2. state' = state /\ state \in [Procs -> States]
  BY <1>1 DEF KernelDevice, Device, Interruptible, TypeOK, States
<1> QED BY <1>1, <1>2, KerneltrapStep DEF KernelDevice

LEMMA KernelTimerStep ==
    ASSUME IInv, NEW h \in Harts, KernelTimer(h)
    PROVE  IInv' /\ Elsewhere(h)
<1>1. Interruptible(h) /\ csr[h].stvec = "kernelvec" /\ KernelIntr(h)
  BY FromKernel DEF KernelTimer, KernelIntr, Timer
<1>2. this_proc(h) = run[h]
  BY <1>1 DEF this_proc, Interruptible
<1>3. /\ Wakeup(h) \in [Procs -> States]
      /\ \A q \in Procs : Wakeup(h)[q] = state[q] \/ (state[q] = "SLEEPING" /\ Wakeup(h)[q] = "RUNNABLE")
  BY <1>1, WakeupStates DEF Interruptible, TypeOK, States
<1>4. CASE run[h] = None
  <2>1. Set(h, Kernelvec(h)) /\ state' = Wakeup(h) /\ Goto(h, "kret") /\ run' = run /\ ctx' = ctx
    BY <1>2, <1>4 DEF KernelTimer
  <2> QED BY <1>1, <1>3, <2>1, KerneltrapStep
<1>5. CASE run[h] # None
  <2>1. PICK p \in Procs : p = run[h]
    BY <1>1, <1>5 DEF Interruptible
  <2>2. PICK r \in Registers : r = Kernelvec(h)
    BY <1>1, KernelvecRegisters
  <2>3. r.tp = h /\ r.stvec = "kernelvec"
    BY <1>1, <2>2, KernelvecRegisters
  <2>4. PICK now \in [Procs -> States] : now = Wakeup(h)
    BY <1>3
  <2>5. SchedOut(h, p, r, now, "RUNNABLE", "kret", FALSE)
    BY <1>1, <1>2, <1>5, <2>1, <2>2, <2>4 DEF KernelTimer, Interruptible
  <2>6. Stack(h) = p
    BY <1>5, <2>1 DEF Stack
  <2>7. /\ stack' \in [Procs \union Harts -> Seq(Locals)] /\ panicked' = FALSE
        /\ frame' = frame /\ tickslock' = tickslock
        /\ \A t \in Procs \union Harts : t # p => stack'[t] = stack[t]
    BY <1>1, <2>6, KernelPush
  <2>8. Pushed(stack'[p], "kret", Calm)
    <3>1. Len(stack'[p]) = 1 /\ stack'[p][1].sepc = pc[h]
      BY <1>1, <2>6, KernelPush
    <3>2. pc[h] \in {At(x) : x \in Calm}
      BY <1>1, <1>5 DEF Interruptible
    <3> QED BY <3>1, <3>2 DEF Pushed
  <2>9. frame \in [Procs -> Frames] /\ "RUNNABLE" \in States /\ tickslock \in Harts \union {None} /\ tickslock # h
    BY <1>1 DEF Interruptible, TypeOK, Frames, States
  <2>10. \A q \in Procs : now[q] = state[q] \/ (state[q] = "SLEEPING" /\ now[q] = "RUNNABLE")
    BY <1>3, <2>4
  <2> QED BY <2>1, <2>3, <2>5, <2>7, <2>8, <2>9, <2>10, SchedStep
<1> QED BY <1>4, <1>5

\* The end of kerneltrap(): the locals lead back to where the trap came in.
LEMMA KerneltrapEndStep ==
    ASSUME IInv, NEW h \in Harts, KerneltrapEnd(h)
    PROVE  IInv' /\ Elsewhere(h)
<1>1. pc[h] = At("kret") /\ pc[h][1] = "kret"
  BY DEF KerneltrapEnd, At
<1>2. HartInv(h) /\ IdleInv(h) /\ BusyInv(h) /\ TypeOK /\ panicked = FALSE
  BY DEF IInv
<1>3. run[h] \in Procs \union {None} /\ csr[h] \in Registers /\ Stack(h) \in Procs \union Harts
  BY <1>2 DEF TypeOK, Stack
<1> DEFINE from == IF run[h] = None THEN {"scheduler"} ELSE Calm
           s == stack[Stack(h)]
<1>4. s \in Seq(Locals) /\ Len(s) = 1 /\ s[1].sepc \in {At(x) : x \in from}
  BY <1>1, <1>2, <1>3 DEF IdleInv, BusyInv, Pushed, Stack, TypeOK
<1>5. Last(s) = s[1] /\ Front(s) = <<>> /\ s[1] \in Locals
  BY <1>4 DEF Last, Front
<1>6. PICK x \in from : s[1].sepc = At(x)
  BY <1>4
<1>7. PICK b \in BOOLEAN : b = s[1].spie
  BY <1>5 DEF Locals
<1> DEFINE R == [Quiet(csr[h]) EXCEPT !.sie = b]
<1>8. R \in Registers /\ R.tp = h /\ R.stvec = "kernelvec"
  BY <1>1, <1>2, <1>3 DEF HartInv, Registers, Quiet, At
<1>9. /\ pc' = [pc EXCEPT ![h] = At(x)] /\ csr' = [csr EXCEPT ![h] = R]
      /\ stack' = [stack EXCEPT ![Stack(h)] = <<>>]
      /\ UNCHANGED <<run, state, frame, ctx, tickslock, panicked>>
  BY <1>5, <1>6, <1>7 DEF KerneltrapEnd, Saved, Set
<1> HIDE DEF R, s
<1>10. x \in Calm \union {"scheduler"} /\ At(x)[1] = x /\ At(x) \in Spot
  BY DEF At, Spot, Places
<1> HIDE DEF from
<1>11. /\ pc'[h] = At(x) /\ csr'[h] = R /\ stack'[Stack(h)] = <<>>
       /\ \A t \in Procs \union Harts : t # Stack(h) => stack'[t] = stack[t]
  BY <1>2, <1>3, <1>9 DEF TypeOK
<1>12. TypeOK'
  <2>1. <<>> \in Seq(Locals)
    OBVIOUS
  <2>2. pc' \in [Harts -> Spot] /\ csr' \in [Harts -> Registers]
    BY <1>2, <1>8, <1>9, <1>10 DEF TypeOK
  <2>3. stack' \in [Procs \union Harts -> Seq(Locals)]
    BY <1>2, <1>3, <1>9, <2>1 DEF TypeOK
  <2> QED BY <1>2, <1>9, <2>2, <2>3 DEF TypeOK
<1>13. Elsewhere(h)
  BY <1>2, <1>9, <1>11 DEF Elsewhere, TypeOK
<1>14. x \notin {"user", "userret", "kret", "sleeploop", "sleep"} \union Locked
  BY <1>10 DEF Calm, Locked
<1>15. HartInv(h)'
  BY <1>1, <1>2, <1>8, <1>9, <1>10, <1>11, <1>14 DEF HartInv
<1>16. IdleInv(h)' /\ BusyInv(h)'
  <2>1. CASE run[h] = None
    BY <1>9, <1>10, <1>11, <1>14, <2>1 DEF IdleInv, BusyInv, Pushed, Stack, from
  <2>2. CASE run[h] # None
    <3>1. run[h] \in Procs /\ run[h] # h /\ h \in Procs \union Harts /\ Stack(h) = run[h]
      BY <1>3, <2>2, TrapsAssumption DEF Stack
    <3>2. stack'[h] = stack[h] /\ stack[h] = <<>> /\ state[run[h]] = "RUNNING"
      BY <1>2, <1>11, <2>2, <3>1 DEF BusyInv
    <3>3. x # "scheduler"
      BY <2>2 DEF from, Calm
    <3> QED BY <1>9, <1>10, <1>11, <1>14, <2>2, <3>1, <3>2, <3>3 DEF IdleInv, BusyInv, Pushed
  <2> QED BY <2>1, <2>2
<1> QED BY <1>2, <1>9, <1>12, <1>13, <1>15, <1>16, Stay

-----------------------------------------------------------------------------
(* TrapsInv                                                                *)

LEMMA TrapsInit == ASSUME Init PROVE IInv
<1> DEFINE R(h) == [sepc |-> At("none"), spie |-> FALSE, sie |-> TRUE, stvec |-> "kernelvec",
                    tp |-> h, intena |-> FALSE]
<1>1. ASSUME NEW h \in Harts PROVE R(h) \in Registers /\ R(h).stvec = "kernelvec" /\ R(h).tp = h
  BY DEF Registers
<1>2. csr = [h \in Harts |-> R(h)]
  BY DEF Init
<1> HIDE DEF R
<1>3. csr \in [Harts -> Registers] /\ \A h \in Harts : csr[h].stvec = "kernelvec" /\ csr[h].tp = h
  BY <1>1, <1>2
<1>4. At("scheduler") \in Spot /\ At("scheduler")[1] = "scheduler"
  BY DEF At, Spot, Places
<1>5. TypeOK
  <2>1. pc \in [Harts -> Spot] /\ run \in [Harts -> Procs \union {None}] /\ tickslock \in Harts \union {None}
    BY <1>4 DEF Init
  <2>2. state \in [Procs -> {"RUNNABLE", "RUNNING", "SLEEPING", "ZOMBIE"}]
    BY DEF Init
  <2>3. frame \in [Procs -> [epc : Nat, kernel_hartid : Harts \union {None}]]
    BY DEF Init
  <2>4. stack \in [Procs \union Harts -> Seq(Locals)]
    <3>1. <<>> \in Seq(Locals)
      OBVIOUS
    <3> QED BY <3>1 DEF Init
  <2>5. ctx \in [Procs -> [at : Calm \union {"kret", "dead", "none"}, intena : BOOLEAN]]
    BY DEF Init, Calm
  <2> QED BY <1>3, <2>1, <2>2, <2>3, <2>4, <2>5 DEF TypeOK
<1>6. ASSUME NEW h \in Harts PROVE HartInv(h) /\ IdleInv(h) /\ BusyInv(h)
  BY <1>3, <1>4, TrapsAssumption DEF Init, HartInv, IdleInv, BusyInv, Pushed, Locked
<1>7. ASSUME NEW p \in Procs PROVE AwayInv(p)
  BY DEF Init, AwayInv, Pushed
<1> QED BY <1>5, <1>6, <1>7 DEF IInv, Init, Alone

LEMMA TrapsNext == ASSUME IInv, [Next]_vars PROVE IInv'
<1>1. CASE UNCHANGED vars
  BY <1>1 DEF vars, IInv, TypeOK, HartInv, IdleInv, BusyInv, AwayInv, Away, Alone
<1>2. CASE Next
  <2>1. PICK h \in Harts :
            \/ ThreadStep(h) \/ TrapStep(h)
            \/ Instr(h) \/ Ecall(h) \/ Fault(h) \/ Interrupted(h) \/ Ticked(h)
            \/ \E p \in Procs : Run(h, p)
    BY <1>2 DEF Next
  <2>2. CASE ThreadStep(h)
    BY <2>2, UsertrapEndStep, BackToUserStep, WakeStep, LockStep, SysOtherStep, SysSleepStep, SysKillStep
       DEF ThreadStep
  <2>3. CASE TrapStep(h)
    BY <2>3, UserretStep, KerneltrapEndStep, SleepLoopStep, SleepStep, SchedLoopStep DEF TrapStep
  <2>4. CASE Instr(h) \/ Ecall(h) \/ Fault(h)
    BY <2>4, InstrStep, EcallStep, FaultStep
  <2>5. CASE Interrupted(h) \/ Ticked(h)
    BY <2>5, UserDeviceStep, KernelDeviceStep, UserTimerStep, KernelTimerStep DEF Interrupted, Ticked
  <2>6. CASE \E p \in Procs : Run(h, p)
    BY <2>6, Enter
  <2> QED BY <2>1, <2>2, <2>3, <2>4, <2>5, <2>6
<1> QED BY <1>1, <1>2

\* IInv is an invariant of the trap code.
THEOREM TrapsInductive == Spec => []IInv
<1>1. Init => IInv
  BY TrapsInit
<1>2. IInv /\ [Next]_vars => IInv'
  BY TrapsNext
<1> QED BY <1>1, <1>2, PTL DEF Spec

LEMMA TrapsMeaning == ASSUME IInv PROVE TrapsInv
<1>1. ASSUME NEW h \in Harts
      PROVE  /\ Open(h) => csr[h].stvec = IF InUser(h) THEN "uservec" ELSE "kernelvec"
             /\ InUser(h) \/ csr[h].tp = h
             /\ run[h] # None => state[run[h]] = "RUNNING"
             /\ run[h] = None \/ \A g \in Harts \ {h} : run[g] # run[h]
             /\ Len(stack[Stack(h)]) = (IF pc[h] = At("kret") THEN 1 ELSE 0)
             /\ pc[h] = At("kret") => ~csr[h].sie
  <2>1. HartInv(h) /\ IdleInv(h) /\ BusyInv(h)
    BY DEF IInv
  <2>2. Open(h) => csr[h].stvec = IF InUser(h) THEN "uservec" ELSE "kernelvec"
    BY <2>1 DEF HartInv, Open, InUser
  <2>3. InUser(h) \/ csr[h].tp = h
    BY <2>1 DEF HartInv, InUser
  <2>4. run[h] # None => state[run[h]] = "RUNNING"
    BY <2>1 DEF BusyInv
  <2>5. run[h] = None \/ \A g \in Harts \ {h} : run[g] # run[h]
    BY DEF IInv, Alone
  <2>6. pc[h] = At("kret") <=> pc[h][1] = "kret"
    BY <2>1 DEF HartInv, At
  <2>7. Len(stack[Stack(h)]) = (IF pc[h] = At("kret") THEN 1 ELSE 0)
    BY <2>1, <2>6 DEF IdleInv, BusyInv, Pushed, Stack
  <2>8. pc[h] = At("kret") => ~csr[h].sie
    BY <2>1, <2>6 DEF HartInv
  <2> QED BY <2>2, <2>3, <2>4, <2>5, <2>7, <2>8
<1>2. tickslock # None => ~Open(tickslock)
  <2>1. SUFFICES ASSUME tickslock # None PROVE ~Open(tickslock)
    OBVIOUS
  <2>2. PICK h \in Harts : h = tickslock
    BY <2>1 DEF IInv, TypeOK
  <2>3. HartInv(h)
    BY DEF IInv
  <2> QED BY <2>2, <2>3 DEF HartInv, Open, InUser, Locked
<1> QED BY <1>1, <1>2 DEF TrapsInv, IInv

\* TrapsSafe: for any number of processes and harts, every trap that may come reaches
\* the handler for the mode the hart is in, kernel code finds its own hart and its own
\* process, no process runs on two harts, at most one kerneltrap() lies on a kernel
\* stack, and a hart that has tickslock takes no interrupt.
THEOREM TrapsSafe == Spec => []TrapsInv
<1>1. IInv => TrapsInv
  BY TrapsMeaning
<1> QED BY <1>1, TrapsInductive, PTL

-----------------------------------------------------------------------------
(* The programs do not notice: Spec implements Threads                     *)

\* The instruction of the program of p to execute next
Upc(p) == IF Place(p)[1] = "user" THEN Place(p)[2] ELSE frame[p].epc

\* Place looks under a trap: the place a hart or a context has, or the one in the locals
Under(spot, s) == IF spot[1] = "kret" THEN s[1].sepc ELSE spot

RunningPlaces ==
    \A h \in Harts, p \in Procs :
        run[h] = p => Place(p) = Under(pc[h], stack[p])

AwayPlaces ==
    \A p \in Procs : Away(p) => Place(p) = Under(At(ctx[p].at), stack[p])

LEMMA PlaceOfRunning == IInv => RunningPlaces
<1> SUFFICES ASSUME IInv, NEW h \in Harts, NEW p \in Procs, run[h] = p
             PROVE  Place(p) = Under(pc[h], stack[p])
  BY DEF RunningPlaces
<1>1. {x \in Harts : run[x] = p} = {h}
  BY TrapsAssumption DEF IInv, Alone
<1>2. (CHOOSE x \in {h} : TRUE) = h
  OBVIOUS
<1>3. pc[h][1] = "kret" => Len(stack[p]) = 1
  BY TrapsAssumption DEF IInv, BusyInv, Pushed
<1>4. pc[h][1] = "kret" => Last(stack[p]) = stack[p][1]
  BY <1>3 DEF Last
<1> QED BY <1>1, <1>2, <1>4 DEF Place, Under

LEMMA PlaceOfAway == IInv => AwayPlaces
<1> SUFFICES ASSUME IInv, NEW p \in Procs, Away(p)
             PROVE  Place(p) = Under(At(ctx[p].at), stack[p])
  BY DEF AwayPlaces
<1>1. {x \in Harts : run[x] = p} = {}
  BY DEF Away
<1>2. ctx[p].at = "kret" => Len(stack[p]) = 1
  BY DEF IInv, AwayInv, Pushed
<1>3. ctx[p].at = "kret" => Last(stack[p]) = stack[p][1]
  BY <1>2 DEF Last
<1> QED BY <1>1, <1>3 DEF Place, Under, At

\* The same in the next state
LEMMA PlacesNext == (IInv => RunningPlaces /\ AwayPlaces)'
<1>1. IInv => RunningPlaces /\ AwayPlaces
  BY PlaceOfRunning, PlaceOfAway
<1> QED BY <1>1, PTL

\* Nothing happens to the program of q.
Still(q) == Stage(q)' = Stage(q) /\ Upc(q)' = Upc(q)

LEMMA SamePlace ==
    ASSUME NEW q \in Procs, Place(q)' = Place(q), frame'[q] = frame[q],
           state'[q] = "ZOMBIE" <=> state[q] = "ZOMBIE"
    PROVE  Still(q)
BY DEF Still, Stage, Upc

LEMMA Unmoved ==
    ASSUME IInv, IInv', NEW q \in Procs, stack'[q] = stack[q], frame'[q] = frame[q], ctx'[q] = ctx[q],
           state'[q] = "ZOMBIE" <=> state[q] = "ZOMBIE",
           \A g \in Harts : run[g] = q => run'[g] = q /\ pc'[g] = pc[g],
           \A g \in Harts : run'[g] = q => run[g] = q
    PROVE  Still(q)
<1>1. CASE Away(q)
  <2>1. Away(q)'
    BY <1>1 DEF Away
  <2>2. Place(q) = Under(At(ctx[q].at), stack[q])
    BY <1>1, PlaceOfAway DEF AwayPlaces
  <2>3. Place(q)' = Under(At(ctx'[q].at), stack'[q])
    BY <2>1, PlacesNext DEF AwayPlaces
  <2> QED BY <2>2, <2>3, SamePlace
<1>2. CASE ~Away(q)
  <2>1. PICK g \in Harts : run[g] = q
    BY <1>2 DEF Away
  <2>2. Place(q) = Under(pc[g], stack[q])
    BY <2>1, PlaceOfRunning DEF RunningPlaces
  <2>3. Place(q)' = Under(pc'[g], stack'[q])
    BY <2>1, PlacesNext DEF RunningPlaces
  <2> QED BY <2>1, <2>2, <2>3, SamePlace
<1> QED BY <1>1, <1>2

LEMMA Others ==
    ASSUME IInv, IInv', NEW h \in Harts, Elsewhere(h), NEW q \in Procs, q # run[h],
           \A g \in Harts : g # h => run'[g] = run[g], run'[h] \in {run[h], None}
    PROVE  Still(q)
<1>1. q # Stack(h) /\ q \in Procs \union Harts /\ q # None
  BY TrapsAssumption DEF Stack
<1>2. stack'[q] = stack[q] /\ frame'[q] = frame[q] /\ ctx'[q] = ctx[q]
  BY <1>1 DEF Elsewhere
<1>3. state'[q] = "ZOMBIE" <=> state[q] = "ZOMBIE"
  BY DEF Elsewhere
<1>4. \A g \in Harts : run[g] = q => run'[g] = q /\ pc'[g] = pc[g]
  BY DEF Elsewhere
<1>5. \A g \in Harts : run'[g] = q => run[g] = q
  BY <1>1
<1> QED BY <1>2, <1>3, <1>4, <1>5, Unmoved

\* The steps of Threads, in terms of Stage and Upc
Stages == [q \in Procs |-> Stage(q)]
Upcs == [q \in Procs |-> Upc(q)]

LEMMA OneMoves ==
    ASSUME NEW p \in Procs, \A q \in Procs : q # p => Still(q)
    PROVE  /\ Stages' = [Stages EXCEPT ![p] = Stage(p)']
           /\ Upcs' = [Upcs EXCEPT ![p] = Upc(p)']
           /\ Stages[p] = Stage(p) /\ Upcs[p] = Upc(p)
           /\ Upc(p)' = Upc(p) => Upcs' = Upcs
           /\ Stage(p)' = Stage(p) => Stages' = Stages
BY DEF Stages, Upcs, Still

LEMMA Stutters ==
    ASSUME \A q \in Procs : Still(q), killed' = killed
    PROVE  UNCHANGED Thread!vars
<1>1. Stages' = Stages /\ Upcs' = Upcs
  BY DEF Stages, Upcs, Still
<1> QED BY <1>1 DEF Thread!vars, Stages, Upcs, Upc

LEMMA AbstractInstr ==
    ASSUME NEW p \in Procs, \A q \in Procs : q # p => Still(q), killed' = killed,
           Stage(p) = "user", Stage(p)' = "user", Upc(p)' = (Upc(p) + 1) % UserPcs[p]
    PROVE  Thread!Next
<1>1. Stages' = Stages /\ Upcs' = [Upcs EXCEPT ![p] = (Upcs[p] + 1) % UserPcs[p]] /\ Stages[p] = "user"
  BY OneMoves
<1>2. Thread!Instr(p)
  BY <1>1 DEF Thread!Instr, Thread!Advance, Stages, Upcs, Upc
<1> QED BY <1>2 DEF Thread!Next

LEMMA AbstractEcall ==
    ASSUME NEW p \in Procs, \A q \in Procs : q # p => Still(q), killed' = killed,
           Stage(p) = "user", Stage(p)' = "syscall", Upc(p)' = (Upc(p) + 1) % UserPcs[p]
    PROVE  Thread!Next
<1>1. /\ Stages' = [Stages EXCEPT ![p] = "syscall"] /\ Stages[p] = "user"
      /\ Upcs' = [Upcs EXCEPT ![p] = (Upcs[p] + 1) % UserPcs[p]]
  BY OneMoves
<1>2. Thread!Ecall(p)
  BY <1>1 DEF Thread!Ecall, Thread!Go, Thread!Advance, Stages, Upcs, Upc
<1> QED BY <1>2 DEF Thread!Next

LEMMA AbstractWait ==
    ASSUME NEW p \in Procs, \A q \in Procs : q # p => Still(q), killed' = killed,
           Stage(p) = "syscall", Stage(p)' = "wait", Upc(p)' = Upc(p)
    PROVE  Thread!Next
<1>1. Stages' = [Stages EXCEPT ![p] = "wait"] /\ Stages[p] = "syscall" /\ Upcs' = Upcs
  BY OneMoves
<1>2. Thread!Wait(p)
  BY <1>1 DEF Thread!Wait, Thread!Go, Stages, Upcs, Upc
<1> QED BY <1>2 DEF Thread!Next

LEMMA AbstractReturn ==
    ASSUME NEW p \in Procs, \A q \in Procs : q # p => Still(q),
           Stage(p)' = "user", Upc(p)' = Upc(p),
           \/ Stage(p) = "syscall" /\ \E q \in Procs : killed' \in {killed, killed \union {q}}
           \/ Stage(p) = "wait" /\ killed' = killed
    PROVE  Thread!Next
<1>1. Stages' = [Stages EXCEPT ![p] = "user"] /\ Stages[p] = Stage(p) /\ Upcs' = Upcs
  BY OneMoves
<1>2. Thread!Return(p)
  BY <1>1 DEF Thread!Return, Thread!Go, Stages, Upcs, Upc
<1> QED BY <1>2 DEF Thread!Next

LEMMA AbstractFault ==
    ASSUME NEW p \in Procs, \A q \in Procs : q # p => Still(q), killed' = killed \union {p},
           Stage(p) = "user", Stage(p)' = "user", Upc(p)' = Upc(p)
    PROVE  Thread!Next
<1>1. Stages' = Stages /\ Stages[p] = "user" /\ Upcs' = Upcs
  BY OneMoves
<1>2. Thread!Fault(p)
  BY <1>1 DEF Thread!Fault, Stages, Upcs, Upc
<1> QED BY <1>2 DEF Thread!Next

LEMMA AbstractExit ==
    ASSUME NEW p \in Procs, \A q \in Procs : q # p => Still(q), killed' = killed, p \in killed,
           Stage(p) = "user", Stage(p)' = "dead", Upc(p)' = Upc(p)
    PROVE  Thread!Next
<1>1. Stages' = [Stages EXCEPT ![p] = "dead"] /\ Stages[p] = "user" /\ Upcs' = Upcs
  BY OneMoves
<1>2. Thread!Exit(p)
  BY <1>1 DEF Thread!Exit, Thread!Go, Stages, Upcs, Upc
<1> QED BY <1>2 DEF Thread!Next

\* Where the program of the hart's process is before and after a step of the hart, and
\* the other programs are where they were
LEMMA Kept ==
    ASSUME IInv, IInv', NEW h \in Harts, NEW p \in Procs, run[h] = p, run' = run, Elsewhere(h)
    PROVE  /\ \A q \in Procs : q # p => Still(q)
           /\ Place(p) = Under(pc[h], stack[p]) /\ Place(p)' = Under(pc'[h], stack'[p])
           /\ state[p] = "RUNNING" /\ state'[p] = "RUNNING"
<1>1. \A q \in Procs : q # p => Still(q)
  BY Others
<1>2. Place(p) = Under(pc[h], stack[p])
  BY PlaceOfRunning DEF RunningPlaces
<1>3. Place(p)' = Under(pc'[h], stack'[p])
  BY PlacesNext DEF RunningPlaces
<1>4. state[p] = "RUNNING" /\ state'[p] = "RUNNING"
  <2>1. BusyInv(h) /\ BusyInv(h)'
    BY DEF IInv
  <2> QED BY <2>1, TrapsAssumption DEF BusyInv
<1> QED BY <1>1, <1>2, <1>3, <1>4

LEMMA Left ==
    ASSUME IInv, IInv', NEW h \in Harts, NEW p \in Procs, run[h] = p,
           run' = [run EXCEPT ![h] = None], Elsewhere(h)
    PROVE  /\ \A q \in Procs : q # p => Still(q)
           /\ Place(p) = Under(pc[h], stack[p]) /\ Place(p)' = Under(At(ctx'[p].at), stack'[p])
           /\ state[p] = "RUNNING"
<1>1. run'[h] = None /\ \A g \in Harts : g # h => run'[g] = run[g]
  BY DEF IInv, TypeOK
<1>2. \A q \in Procs : q # p => Still(q)
  BY <1>1, Others
<1>3. Place(p) = Under(pc[h], stack[p])
  BY PlaceOfRunning DEF RunningPlaces
<1>4. Away(p)'
  BY <1>1, TrapsAssumption DEF Away, IInv, Alone
<1>5. Place(p)' = Under(At(ctx'[p].at), stack'[p])
  BY <1>4, PlacesNext DEF AwayPlaces
<1>6. state[p] = "RUNNING"
  BY TrapsAssumption DEF BusyInv, IInv
<1> QED BY <1>2, <1>3, <1>5, <1>6

LEMMA NoOne ==
    ASSUME IInv, IInv', NEW h \in Harts, run[h] = None, run' = run, Elsewhere(h)
    PROVE  \A q \in Procs : Still(q)
BY Others, TrapsAssumption

\* Every step of the trap code is a step of Threads or none.
Allowed == Thread!Next \/ UNCHANGED Thread!vars

WaitPlaces == {"lock", "relock", "sleeploop", "sleep", "wake"}
UserPlaces == {"user", "after", "afterTick", "usertrapret", "forkret", "userret"}

\* A step from one kernel place to another of the same kind
LEMMA SameStage ==
    ASSUME IInv, IInv', NEW h \in Harts, NEW p \in Procs, run[h] = p, run' = run, Elsewhere(h),
           killed' = killed, frame'[p].epc = frame[p].epc,
           pc[h][1] # "user", pc'[h][1] # "user",
           \/ pc[h][1] \in WaitPlaces /\ pc'[h][1] \in WaitPlaces
           \/ pc[h][1] \in UserPlaces /\ pc'[h][1] \in UserPlaces
    PROVE  Allowed
<1>1. /\ \A q \in Procs : q # p => Still(q)
      /\ Place(p) = Under(pc[h], stack[p]) /\ Place(p)' = Under(pc'[h], stack'[p])
      /\ state[p] = "RUNNING" /\ state'[p] = "RUNNING"
  BY Kept
<1>2. Place(p) = pc[h] /\ Place(p)' = pc'[h]
  BY <1>1 DEF Under, WaitPlaces, UserPlaces
<1>3. Upc(p)' = Upc(p)
  BY <1>2 DEF Upc
<1>4. Stage(p)' = Stage(p)
  BY <1>1, <1>2 DEF Stage, WaitPlaces, UserPlaces
<1>5. \A q \in Procs : Still(q)
  BY <1>1, <1>3, <1>4 DEF Still
<1> QED BY <1>5, Stutters DEF Allowed

LEMMA WakeAllowed == ASSUME IInv, NEW h \in Harts, Wake(h) PROVE Allowed
<1>1. pc[h][1] = "wake" /\ pc'[h] = At("relock")
  BY DEF Wake, PushOff, Goto, At, IInv, TypeOK
<1>2. IInv' /\ Elsewhere(h) /\ Settled(h)
  BY <1>1, WakeStep, InKernel
<1>3. PICK p \in Procs : p = run[h]
  BY <1>2 DEF Settled
<1> QED BY <1>1, <1>2, <1>3, SameStage DEF Wake, At, WaitPlaces

LEMMA LockAllowed == ASSUME IInv, NEW h \in Harts, Lock(h) PROVE Allowed
<1>1. pc[h][1] \in {"lock", "relock"} /\ pc'[h] = At("sleeploop")
  BY DEF Lock, Goto, IInv, TypeOK
<1>2. IInv' /\ Elsewhere(h) /\ Settled(h)
  BY <1>1, LockStep, InKernel
<1>3. PICK p \in Procs : p = run[h]
  BY <1>2 DEF Settled
<1> QED BY <1>1, <1>2, <1>3, SameStage DEF Lock, At, WaitPlaces

LEMMA BackToUserAllowed == ASSUME IInv, NEW h \in Harts, BackToUser(h) PROVE Allowed
<1>1. pc[h][1] \in {"forkret", "usertrapret"} /\ pc'[h] = At("userret")
  BY DEF BackToUser, Usertrapret, Goto, IInv, TypeOK
<1>2. IInv' /\ Elsewhere(h) /\ Settled(h)
  BY <1>1, BackToUserStep, InKernel
<1>3. PICK p \in Procs : p = run[h]
  BY <1>2 DEF Settled
<1> QED BY <1>1, <1>2, <1>3, SameStage DEF BackToUser, At, UserPlaces

LEMMA SysSleepAllowed == ASSUME IInv, NEW h \in Harts, NEW n, SysSleep(h, n) PROVE Allowed
<1>1. pc[h][1] = "syscall" /\ pc'[h] = At("lock") /\ pc'[h][1] = "lock"
  BY DEF SysSleep, PushOff, Goto, At, IInv, TypeOK
<1>2. IInv' /\ Elsewhere(h) /\ Settled(h)
  BY <1>1, SysSleepStep, InKernel
<1>3. PICK p \in Procs : p = run[h]
  BY <1>2 DEF Settled
<1>4. run' = run /\ frame' = frame /\ killed' = killed
  BY DEF SysSleep
<1>5. /\ \A q \in Procs : q # p => Still(q)
      /\ Place(p) = Under(pc[h], stack[p]) /\ Place(p)' = Under(pc'[h], stack'[p])
      /\ state[p] = "RUNNING" /\ state'[p] = "RUNNING"
  BY <1>2, <1>3, <1>4, Kept
<1>6. Place(p) = pc[h] /\ Place(p)' = pc'[h]
  BY <1>1, <1>5 DEF Under
<1>7. Stage(p) = "syscall" /\ Stage(p)' = "wait" /\ Upc(p)' = Upc(p)
  BY <1>1, <1>4, <1>5, <1>6 DEF Stage, Upc
<1> QED BY <1>4, <1>5, <1>7, AbstractWait DEF Allowed

\* The end of a system call: sleep()'s loop, kill() and the others
LEMMA ReturnAllowed ==
    ASSUME IInv, IInv', NEW h \in Harts, Elsewhere(h), run' = run, frame' = frame,
           pc[h][1] \in {"syscall", "sleeploop"}, pc'[h] = At("after"),
           \/ pc[h][1] = "syscall" /\ \E q \in Procs : killed' \in {killed, killed \union {q}}
           \/ killed' = killed
    PROVE  Allowed
<1>1. Settled(h) /\ pc'[h][1] = "after"
  BY InKernel DEF At
<1>2. PICK p \in Procs : p = run[h]
  BY <1>1 DEF Settled
<1>3. /\ \A q \in Procs : q # p => Still(q)
      /\ Place(p) = Under(pc[h], stack[p]) /\ Place(p)' = Under(pc'[h], stack'[p])
      /\ state[p] = "RUNNING" /\ state'[p] = "RUNNING"
  BY <1>2, Kept
<1>4. Place(p) = pc[h] /\ Place(p)' = pc'[h]
  BY <1>1, <1>3 DEF Under
<1>5. Stage(p)' = "user" /\ Upc(p)' = Upc(p)
  BY <1>1, <1>3, <1>4 DEF Stage, Upc
<1>6. Stage(p) = IF pc[h][1] = "syscall" THEN "syscall" ELSE "wait"
  BY <1>3, <1>4 DEF Stage
<1>7. \/ Stage(p) = "syscall" /\ \E q \in Procs : killed' \in {killed, killed \union {q}}
      \/ Stage(p) = "wait" /\ killed' = killed
  BY <1>6
<1> QED BY <1>3, <1>5, <1>7, AbstractReturn DEF Allowed

LEMMA SysKillAllowed == ASSUME IInv, NEW h \in Harts, NEW p \in Procs, SysKill(h, p) PROVE Allowed
<1>1. pc[h][1] = "syscall" /\ pc'[h] = At("after")
  BY DEF SysKill, Goto, At, IInv, TypeOK
<1>2. IInv' /\ Elsewhere(h)
  BY SysKillStep
<1> QED BY <1>1, <1>2, ReturnAllowed DEF SysKill

LEMMA SysOtherAllowed == ASSUME IInv, NEW h \in Harts, SysOther(h) PROVE Allowed
<1>1. pc[h][1] = "syscall" /\ pc'[h] = At("after")
  BY DEF SysOther, Goto, At, IInv, TypeOK
<1>2. IInv' /\ Elsewhere(h)
  BY SysOtherStep
<1> QED BY <1>1, <1>2, ReturnAllowed DEF SysOther

LEMMA SleepLoopAllowed == ASSUME IInv, NEW h \in Harts, SleepLoop(h) PROVE Allowed
<1>1. pc[h][1] = "sleeploop" /\ pc'[h] \in {At("sleep"), At("after")}
  BY DEF SleepLoop, Goto, At, IInv, TypeOK
<1>2. IInv' /\ Elsewhere(h) /\ Settled(h)
  BY <1>1, SleepLoopStep, InKernel
<1>3. PICK p \in Procs : p = run[h]
  BY <1>2 DEF Settled
<1>4. run' = run /\ frame' = frame /\ killed' = killed
  BY DEF SleepLoop
<1>5. CASE pc'[h] = At("sleep")
  BY <1>1, <1>2, <1>3, <1>4, <1>5, SameStage DEF At, WaitPlaces
<1>6. CASE pc'[h] = At("after")
  BY <1>1, <1>2, <1>4, <1>6, ReturnAllowed
<1> QED BY <1>1, <1>5, <1>6

\* sched() in sleep(): the program waits before and after it.
LEMMA SleepAllowed == ASSUME IInv, NEW h \in Harts, Sleep(h) PROVE Allowed
<1>1. pc[h][1] = "sleep"
  BY DEF Sleep, At
<1>2. IInv' /\ Elsewhere(h) /\ Settled(h)
  BY <1>1, SleepStep, InKernel
<1>3. PICK p \in Procs : p = run[h]
  BY <1>2 DEF Settled
<1>4. /\ run' = [run EXCEPT ![h] = None] /\ frame' = frame /\ killed' = killed
      /\ ctx'[p].at = "wake" /\ state'[p] = "SLEEPING"
  BY <1>2, <1>3 DEF Sleep, SchedOut, Settled, IInv, TypeOK
<1>5. /\ \A q \in Procs : q # p => Still(q)
      /\ Place(p) = Under(pc[h], stack[p]) /\ Place(p)' = Under(At(ctx'[p].at), stack'[p])
      /\ state[p] = "RUNNING"
  BY <1>2, <1>3, <1>4, Left
<1>6. Place(p) = pc[h] /\ Place(p)' = At("wake") /\ Place(p)'[1] = "wake"
  BY <1>1, <1>4, <1>5 DEF Under, At
<1>7. Still(p)
  BY <1>1, <1>4, <1>5, <1>6 DEF Still, Stage, Upc
<1> QED BY <1>4, <1>5, <1>7, Stutters DEF Allowed

LEMMA UsertrapEndAllowed == ASSUME IInv, NEW h \in Harts, UsertrapEnd(h) PROVE Allowed
<1>1. pc[h][1] \in {"after", "afterTick"}
  BY DEF UsertrapEnd
<1>2. IInv' /\ Elsewhere(h) /\ Settled(h)
  BY <1>1, UsertrapEndStep, InKernel
<1>3. PICK p \in Procs : p = run[h]
  BY <1>2 DEF Settled
<1>4. this_proc(h) = p /\ frame' = frame /\ killed' = killed
  BY <1>2, <1>3 DEF Settled, UsertrapEnd
<1>5. CASE p \in killed
  <2>1. run' = [run EXCEPT ![h] = None] /\ ctx'[p].at = "dead" /\ state'[p] = "ZOMBIE"
    BY <1>2, <1>3, <1>4, <1>5 DEF UsertrapEnd, SchedOut, Settled, IInv, TypeOK
  <2>2. /\ \A q \in Procs : q # p => Still(q)
        /\ Place(p) = Under(pc[h], stack[p]) /\ Place(p)' = Under(At(ctx'[p].at), stack'[p])
        /\ state[p] = "RUNNING"
    BY <1>2, <1>3, <2>1, Left
  <2>3. Place(p) = pc[h] /\ Place(p)'[1] = "dead"
    BY <1>1, <2>1, <2>2 DEF Under, At
  <2>4. Stage(p) = "user" /\ Stage(p)' = "dead" /\ Upc(p)' = Upc(p)
    BY <1>1, <1>4, <2>1, <2>2, <2>3 DEF Stage, Upc
  <2> QED BY <1>4, <1>5, <2>2, <2>4, AbstractExit DEF Allowed
<1>6. CASE p \notin killed /\ pc[h] = At("afterTick")
  <2>1. run' = [run EXCEPT ![h] = None] /\ ctx'[p].at = "usertrapret" /\ state'[p] = "RUNNABLE"
    BY <1>2, <1>3, <1>4, <1>6 DEF UsertrapEnd, SchedOut, Settled, IInv, TypeOK
  <2>2. /\ \A q \in Procs : q # p => Still(q)
        /\ Place(p) = Under(pc[h], stack[p]) /\ Place(p)' = Under(At(ctx'[p].at), stack'[p])
        /\ state[p] = "RUNNING"
    BY <1>2, <1>3, <2>1, Left
  <2>3. Place(p) = pc[h] /\ Place(p)'[1] = "usertrapret"
    BY <1>1, <2>1, <2>2 DEF Under, At
  <2>4. Still(p)
    BY <1>1, <1>4, <2>1, <2>2, <2>3 DEF Still, Stage, Upc
  <2> QED BY <1>4, <2>2, <2>4, Stutters DEF Allowed
<1>7. CASE p \notin killed /\ pc[h] # At("afterTick")
  <2>1. Usertrapret(h) /\ run' = run
    BY <1>4, <1>7 DEF UsertrapEnd
  <2>2. pc'[h] = At("userret")
    BY <2>1 DEF Usertrapret, Goto, IInv, TypeOK
  <2> QED BY <1>1, <1>2, <1>3, <1>4, <2>1, <2>2, SameStage DEF At, UserPlaces
<1> QED BY <1>5, <1>6, <1>7

LEMMA InstrAllowed == ASSUME IInv, NEW h \in Harts, Instr(h) PROVE Allowed
<1>1. pc[h][1] = "user" /\ Program(h) /\ IInv' /\ Elsewhere(h)
  BY InProgram, InstrStep DEF Instr, InUser
<1>2. PICK p \in Procs : p = run[h]
  BY <1>1 DEF Program
<1>3. run' = run /\ killed' = killed
  BY DEF Instr
<1>4. pc'[h][1] = "user" /\ pc'[h][2] = (pc[h][2] + 1) % UserPcs[p]
  BY <1>2 DEF Instr, User, IInv, TypeOK
<1>5. /\ \A q \in Procs : q # p => Still(q)
      /\ Place(p) = Under(pc[h], stack[p]) /\ Place(p)' = Under(pc'[h], stack'[p])
      /\ state[p] = "RUNNING" /\ state'[p] = "RUNNING"
  BY <1>1, <1>2, <1>3, Kept
<1>6. Place(p) = pc[h] /\ Place(p)' = pc'[h]
  BY <1>1, <1>4, <1>5 DEF Under
<1>7. Stage(p) = "user" /\ Stage(p)' = "user"
  BY <1>1, <1>4, <1>5, <1>6 DEF Stage
<1>8. Upc(p) = pc[h][2] /\ Upc(p)' = pc'[h][2]
  BY <1>1, <1>4, <1>6 DEF Upc
<1> QED BY <1>3, <1>4, <1>5, <1>7, <1>8, AbstractInstr DEF Allowed

\* The trapframe takes the program counter over.
LEMMA SavedFrame ==
    ASSUME NEW h \in Harts, Program(h), NEW n, SaveFrame(h, n)
    PROVE  frame'[run[h]].epc = n
BY DEF Program, SaveFrame

LEMMA EcallAllowed == ASSUME IInv, NEW h \in Harts, Ecall(h) PROVE Allowed
<1>1. pc[h][1] = "user" /\ Program(h) /\ IInv' /\ Elsewhere(h)
  BY InProgram, EcallStep DEF Ecall, InUser
<1>2. PICK p \in Procs : p = run[h]
  BY <1>1 DEF Program
<1>3. killed' = killed /\ run[Uservec(h).tp] = p
  BY <1>1, <1>2, UservecRegisters DEF Ecall
<1>4. CASE p \in killed
  <2>1. SaveFrame(h, pc[h][2]) /\ SchedOut(h, p, Uservec(h), state, "ZOMBIE", "dead", FALSE)
    BY <1>3, <1>4 DEF Ecall
  <2>2. run' = [run EXCEPT ![h] = None] /\ ctx'[p].at = "dead" /\ state'[p] = "ZOMBIE"
    BY <2>1 DEF SchedOut, IInv, TypeOK
  <2>3. frame'[p].epc = pc[h][2]
    BY <1>1, <1>2, <2>1, SavedFrame
  <2>4. /\ \A q \in Procs : q # p => Still(q)
        /\ Place(p) = Under(pc[h], stack[p]) /\ Place(p)' = Under(At(ctx'[p].at), stack'[p])
        /\ state[p] = "RUNNING"
    BY <1>1, <1>2, <2>2, Left
  <2>5. Place(p) = pc[h] /\ Place(p)'[1] = "dead"
    BY <1>1, <2>2, <2>4 DEF Under, At
  <2>6. Stage(p) = "user" /\ Stage(p)' = "dead" /\ Upc(p)' = Upc(p)
    BY <1>1, <2>2, <2>3, <2>4, <2>5 DEF Stage, Upc
  <2> QED BY <1>3, <1>4, <2>4, <2>6, AbstractExit DEF Allowed
<1>5. CASE p \notin killed
  <2>1. /\ SaveFrame(h, (pc[h][2] + 1) % UserPcs[p]) /\ Goto(h, "syscall") /\ run' = run
    BY <1>3, <1>5 DEF Ecall
  <2>2. pc'[h][1] = "syscall"
    BY <2>1 DEF Goto, At, IInv, TypeOK
  <2>3. frame'[p].epc = (pc[h][2] + 1) % UserPcs[p]
    BY <1>1, <1>2, <2>1, SavedFrame
  <2>4. /\ \A q \in Procs : q # p => Still(q)
        /\ Place(p) = Under(pc[h], stack[p]) /\ Place(p)' = Under(pc'[h], stack'[p])
        /\ state[p] = "RUNNING" /\ state'[p] = "RUNNING"
    BY <1>1, <1>2, <2>1, Kept
  <2>5. Place(p) = pc[h] /\ Place(p)' = pc'[h]
    BY <1>1, <2>2, <2>4 DEF Under
  <2>6. Stage(p) = "user" /\ Stage(p)' = "syscall"
    BY <1>1, <2>2, <2>4, <2>5 DEF Stage
  <2>7. Upc(p) = pc[h][2] /\ Upc(p)' = frame'[p].epc
    BY <1>1, <2>2, <2>5 DEF Upc
  <2> QED BY <1>3, <2>3, <2>4, <2>6, <2>7, AbstractEcall DEF Allowed
<1> QED BY <1>4, <1>5

\* A trap from user mode that the program does not notice: the trapframe has its place.
LEMMA TrapKeepsPlace ==
    ASSUME IInv, IInv', NEW h \in Harts, Elsewhere(h), pc[h][1] = "user", NEW p \in Procs, p = run[h],
           SaveFrame(h, pc[h][2]), pc'[h][1] \in {"after", "afterTick"}, run' = run
    PROVE  /\ \A q \in Procs : Still(q)
           /\ Stage(p) = "user" /\ Stage(p)' = "user" /\ Upc(p)' = Upc(p)
<1>1. /\ \A q \in Procs : q # p => Still(q)
      /\ Place(p) = Under(pc[h], stack[p]) /\ Place(p)' = Under(pc'[h], stack'[p])
      /\ state[p] = "RUNNING" /\ state'[p] = "RUNNING"
  BY Kept
<1>2. Place(p) = pc[h] /\ Place(p)' = pc'[h]
  BY <1>1 DEF Under
<1>3. frame'[p].epc = pc[h][2]
  BY InProgram, SavedFrame
<1>4. Stage(p) = "user" /\ Stage(p)' = "user"
  BY <1>1, <1>2 DEF Stage
<1>5. Upc(p)' = Upc(p)
  BY <1>2, <1>3 DEF Upc
<1> QED BY <1>1, <1>4, <1>5 DEF Still

LEMMA FaultAllowed == ASSUME IInv, NEW h \in Harts, Fault(h) PROVE Allowed
<1>1. pc[h][1] = "user" /\ Program(h) /\ IInv' /\ Elsewhere(h)
  BY InProgram, FaultStep DEF Fault, InUser
<1>2. PICK p \in Procs : p = run[h]
  BY <1>1 DEF Program
<1>3. killed' = killed \union {p} /\ SaveFrame(h, pc[h][2]) /\ run' = run
  BY <1>1, <1>2, UservecRegisters DEF Fault
<1>4. pc'[h][1] = "after"
  BY DEF Fault, Goto, At, IInv, TypeOK
<1>5. (\A q \in Procs : Still(q)) /\ Stage(p) = "user" /\ Stage(p)' = "user" /\ Upc(p)' = Upc(p)
  BY <1>1, <1>2, <1>3, <1>4, TrapKeepsPlace
<1> QED BY <1>3, <1>5, AbstractFault DEF Allowed

LEMMA UserInterruptAllowed ==
    ASSUME IInv, NEW h \in Harts, UserDevice(h) \/ UserTimer(h) PROVE Allowed
<1>1. pc[h][1] = "user"
  BY FromUser DEF UserDevice, UserTimer, UserIntr, IntoUsertrap, Device, Timer
<1>2. IInv' /\ Elsewhere(h) /\ Program(h)
  BY <1>1, InProgram, UserDeviceStep, UserTimerStep
<1>3. PICK p \in Procs : p = run[h]
  BY <1>2 DEF Program
<1>4. killed' = killed /\ SaveFrame(h, pc[h][2]) /\ run' = run
  BY DEF UserDevice, UserTimer, UserIntr
<1>5. pc'[h][1] \in {"after", "afterTick"}
  BY DEF UserDevice, UserTimer, Goto, At, IInv, TypeOK
<1>6. \A q \in Procs : Still(q)
  BY <1>1, <1>2, <1>3, <1>4, <1>5, TrapKeepsPlace
<1> QED BY <1>4, <1>6, Stutters DEF Allowed

\* userret gives the program counter back.
LEMMA UserretAllowed == ASSUME IInv, NEW h \in Harts, Userret(h) PROVE Allowed
<1>1. pc[h][1] = "userret"
  BY DEF Userret, At
<1>2. Settled(h) /\ IInv' /\ Elsewhere(h)
  BY <1>1, InKernel, UserretStep
<1>3. PICK p \in Procs : p = run[h]
  BY <1>2 DEF Settled
<1>4. run' = run /\ killed' = killed /\ this_proc(h) = p
  BY <1>2, <1>3 DEF Userret, Settled
<1>5. pc'[h] = User(frame[p].epc)
  BY <1>4 DEF Userret, IInv, TypeOK
<1>6. pc'[h][1] = "user" /\ pc'[h][2] = frame[p].epc
  BY <1>5 DEF User
<1>7. /\ \A q \in Procs : q # p => Still(q)
      /\ Place(p) = Under(pc[h], stack[p]) /\ Place(p)' = Under(pc'[h], stack'[p])
      /\ state[p] = "RUNNING" /\ state'[p] = "RUNNING"
  BY <1>2, <1>3, <1>4, Kept
<1>8. Place(p) = pc[h] /\ Place(p)' = pc'[h]
  BY <1>1, <1>6, <1>7 DEF Under
<1>9. Stage(p)' = Stage(p)
  BY <1>1, <1>6, <1>7, <1>8 DEF Stage
<1>10. Upc(p)' = Upc(p)
  BY <1>1, <1>6, <1>8 DEF Upc
<1> QED BY <1>4, <1>7, <1>9, <1>10, Stutters DEF Allowed, Still

\* An interrupt in the kernel: the locals of kerneltrap() have the place.
LEMMA KernelDeviceAllowed == ASSUME IInv, NEW h \in Harts, KernelDevice(h) PROVE Allowed
<1>1. Interruptible(h) /\ KernelIntr(h) /\ IInv' /\ Elsewhere(h)
  BY FromKernel, KernelDeviceStep DEF KernelDevice, KernelIntr, Device
<1>2. run' = run /\ killed' = killed
  BY DEF KernelDevice, KernelIntr
<1>3. CASE run[h] = None
  BY <1>1, <1>2, <1>3, NoOne, Stutters DEF Allowed
<1>4. CASE run[h] # None
  <2>1. PICK p \in Procs : p = run[h]
    BY <1>1, <1>4 DEF Interruptible
  <2>2. pc'[h][1] = "kret" /\ pc[h][1] # "kret"
    BY <1>1, <1>4 DEF KernelDevice, Goto, At, IInv, TypeOK, Interruptible, Calm
  <2>3. /\ \A q \in Procs : q # p => Still(q)
        /\ Place(p) = Under(pc[h], stack[p]) /\ Place(p)' = Under(pc'[h], stack'[p])
        /\ state[p] = "RUNNING" /\ state'[p] = "RUNNING"
    BY <1>1, <1>2, <2>1, Kept
  <2>4. stack'[p][1].sepc = pc[h] /\ frame' = frame
    BY <1>1, <1>4, <2>1, KernelPush DEF Stack
  <2>5. Place(p)' = Place(p)
    BY <2>2, <2>3, <2>4 DEF Under
  <2>6. Still(p)
    BY <2>3, <2>4, <2>5, SamePlace
  <2> QED BY <1>2, <2>3, <2>6, Stutters DEF Allowed
<1> QED BY <1>3, <1>4

LEMMA KernelTimerAllowed == ASSUME IInv, NEW h \in Harts, KernelTimer(h) PROVE Allowed
<1>1. Interruptible(h) /\ KernelIntr(h) /\ IInv' /\ Elsewhere(h)
  BY FromKernel, KernelTimerStep DEF KernelTimer, KernelIntr, Timer
<1>2. killed' = killed /\ this_proc(h) = run[h]
  BY <1>1 DEF KernelIntr, this_proc, Interruptible
<1>3. CASE run[h] = None
  <2>1. run' = run
    BY <1>2, <1>3 DEF KernelTimer
  <2> QED BY <1>1, <1>2, <1>3, <2>1, NoOne, Stutters DEF Allowed
<1>4. CASE run[h] # None
  <2>1. PICK p \in Procs : p = run[h]
    BY <1>1, <1>4 DEF Interruptible
  <2>2. SchedOut(h, p, Kernelvec(h), Wakeup(h), "RUNNABLE", "kret", FALSE)
    BY <1>1, <1>2, <1>4, <2>1 DEF KernelTimer, Interruptible
  <2>3. run' = [run EXCEPT ![h] = None] /\ ctx'[p].at = "kret"
    BY <2>2 DEF SchedOut, IInv, TypeOK
  <2>4. state'[p] = "RUNNABLE"
    <3>1. Wakeup(h) \in [Procs -> States]
      BY WakeupStates DEF IInv, TypeOK, States
    <3> QED BY <2>2, <3>1 DEF SchedOut
  <2>5. /\ \A q \in Procs : q # p => Still(q)
        /\ Place(p) = Under(pc[h], stack[p]) /\ Place(p)' = Under(At(ctx'[p].at), stack'[p])
        /\ state[p] = "RUNNING"
    BY <1>1, <2>1, <2>3, Left
  <2>6. stack'[p][1].sepc = pc[h] /\ frame' = frame
    BY <1>1, <1>4, <2>1, KernelPush DEF Stack
  <2>7. pc[h][1] # "kret" /\ At(ctx'[p].at)[1] = "kret"
    BY <1>1, <1>4, <2>3 DEF At, Interruptible, Calm
  <2>8. Place(p)' = Place(p)
    BY <2>5, <2>6, <2>7 DEF Under
  <2>9. Still(p)
    BY <2>4, <2>5, <2>6, <2>8, SamePlace
  <2> QED BY <1>2, <2>5, <2>9, Stutters DEF Allowed
<1> QED BY <1>3, <1>4

LEMMA KerneltrapEndAllowed == ASSUME IInv, NEW h \in Harts, KerneltrapEnd(h) PROVE Allowed
<1>1. pc[h][1] = "kret" /\ run' = run /\ killed' = killed /\ frame' = frame
  BY DEF KerneltrapEnd, At
<1>2. IInv' /\ Elsewhere(h) /\ BusyInv(h) /\ TypeOK
  BY KerneltrapEndStep DEF IInv
<1>3. CASE run[h] = None
  BY <1>1, <1>2, <1>3, NoOne, Stutters DEF Allowed
<1>4. CASE run[h] # None
  <2>1. PICK p \in Procs : p = run[h]
    BY <1>2, <1>4 DEF TypeOK
  <2>2. Len(stack[p]) = 1 /\ stack[p][1].sepc \in {At(x) : x \in Calm}
    BY <1>1, <1>2, <1>4, <2>1 DEF BusyInv, Pushed
  <2>3. Stack(h) = p /\ Last(stack[p]) = stack[p][1]
    BY <1>4, <2>1, <2>2 DEF Stack, Last
  <2>4. pc'[h] = stack[p][1].sepc
    BY <1>2, <2>3 DEF KerneltrapEnd, Saved, TypeOK
  <2>5. pc'[h][1] # "kret"
    BY <2>2, <2>4 DEF At, Calm
  <2>6. /\ \A q \in Procs : q # p => Still(q)
        /\ Place(p) = Under(pc[h], stack[p]) /\ Place(p)' = Under(pc'[h], stack'[p])
        /\ state[p] = "RUNNING" /\ state'[p] = "RUNNING"
    BY <1>1, <1>2, <2>1, Kept
  <2>7. Place(p)' = Place(p)
    BY <1>1, <2>4, <2>5, <2>6 DEF Under
  <2>8. Still(p)
    BY <1>1, <2>6, <2>7, SamePlace
  <2> QED BY <1>1, <2>6, <2>8, Stutters DEF Allowed
<1> QED BY <1>3, <1>4

LEMMA SchedLoopAllowed == ASSUME IInv, NEW h \in Harts, SchedLoop(h) PROVE Allowed
<1>1. IInv' /\ Elsewhere(h) /\ run' = run /\ killed' = killed
  BY SchedLoopStep DEF SchedLoop
<1>2. run[h] = None
  BY DEF SchedLoop, At, IInv, BusyInv
<1> QED BY <1>1, <1>2, NoOne, Stutters DEF Allowed

\* A process that goes on, on whatever hart, goes on where it was.
LEMMA RunAllowed == ASSUME IInv, NEW h \in Harts, NEW p \in Procs, Run(h, p) PROVE Allowed
<1>1. IInv' /\ TypeOK
  BY Enter DEF IInv
<1>2. /\ pc' = [pc EXCEPT ![h] = At(ctx[p].at)]
      /\ run' = [run EXCEPT ![h] = p]
      /\ state' = [state EXCEPT ![p] = "RUNNING"]
      /\ ctx' = [ctx EXCEPT ![p] = [at |-> "none", intena |-> FALSE]]
      /\ frame' = frame /\ stack' = stack /\ killed' = killed /\ state[p] = "RUNNABLE"
  BY DEF Run, Swtch, Goto
<1>3. run[h] = None /\ Away(p)
  <2>1. pc[h][1] = "scheduler" /\ BusyInv(h)
    BY DEF Run, At, IInv
  <2>2. \A g \in Harts : run[g] # p
    BY <1>2, TrapsAssumption DEF IInv, BusyInv
  <2> QED BY <2>1, <2>2 DEF BusyInv, Away
<1>4. /\ run'[h] = p /\ pc'[h] = At(ctx[p].at) /\ state'[p] = "RUNNING"
      /\ \A g \in Harts : g # h => run'[g] = run[g] /\ pc'[g] = pc[g]
      /\ \A q \in Procs : q # p => state'[q] = state[q] /\ ctx'[q] = ctx[q]
  BY <1>1, <1>2 DEF TypeOK
<1>5. ASSUME NEW q \in Procs, q # p PROVE Still(q)
  <2>1. \A g \in Harts : run[g] = q => run'[g] = q /\ pc'[g] = pc[g]
    BY <1>3, <1>4, TrapsAssumption
  <2>2. \A g \in Harts : run'[g] = q => run[g] = q
    BY <1>4, <1>5
  <2> QED BY <1>1, <1>2, <1>4, <1>5, <2>1, <2>2, Unmoved
<1>6. Place(p) = Under(At(ctx[p].at), stack[p])
  BY <1>3, PlaceOfAway DEF AwayPlaces
<1>7. Place(p)' = Under(pc'[h], stack'[p])
  BY <1>1, <1>4, PlacesNext DEF RunningPlaces
<1>8. Still(p)
  BY <1>2, <1>4, <1>6, <1>7, SamePlace
<1> QED BY <1>2, <1>5, <1>8, Stutters DEF Allowed

LEMMA InitAllowed == ASSUME Init PROVE Thread!Init
<1>1. IInv
  BY TrapsInit
<1>2. ASSUME NEW p \in Procs PROVE Stage(p) = "user" /\ Upc(p) = 0
  <2>1. Away(p) /\ ctx[p].at = "forkret" /\ frame[p].epc = 0 /\ state[p] = "RUNNABLE"
    BY TrapsAssumption DEF Init, Away
  <2>2. Place(p) = Under(At("forkret"), stack[p])
    BY <1>1, <2>1, PlaceOfAway DEF AwayPlaces
  <2>3. Place(p)[1] = "forkret"
    BY <2>2 DEF Under, At
  <2> QED BY <2>1, <2>3 DEF Stage, Upc
<1> QED BY <1>2 DEF Thread!Init, Init, Upc

\* TrapsRefine: for any number of processes and harts, interrupts in programs and in
\* system calls, time slices and moves between harts are steps that the programs do not
\* notice: trap.c with the vectors implements Threads.
THEOREM TrapsRefine == Spec => RefinesThreads
<1>1. Init => Thread!Init
  BY InitAllowed
<1>2. IInv /\ [Next]_vars => [Thread!Next]_(Thread!vars)
  <2> SUFFICES ASSUME IInv, [Next]_vars PROVE Allowed
    BY DEF Allowed
  <2>1. CASE UNCHANGED vars
    BY <2>1 DEF vars, Allowed, Thread!vars, Stage, Place
  <2>2. CASE Next
    <3>1. PICK h \in Harts :
              \/ ThreadStep(h) \/ TrapStep(h)
              \/ Instr(h) \/ Ecall(h) \/ Fault(h) \/ Interrupted(h) \/ Ticked(h)
              \/ \E p \in Procs : Run(h, p)
      BY <2>2 DEF Next
    <3>2. CASE ThreadStep(h)
      BY <3>2, UsertrapEndAllowed, BackToUserAllowed, WakeAllowed, LockAllowed, SysOtherAllowed,
         SysSleepAllowed, SysKillAllowed DEF ThreadStep
    <3>3. CASE TrapStep(h)
      BY <3>3, UserretAllowed, KerneltrapEndAllowed, SleepLoopAllowed, SleepAllowed, SchedLoopAllowed
         DEF TrapStep
    <3>4. CASE Instr(h) \/ Ecall(h) \/ Fault(h)
      BY <3>4, InstrAllowed, EcallAllowed, FaultAllowed
    <3>5. CASE Interrupted(h) \/ Ticked(h)
      BY <3>5, UserInterruptAllowed, KernelDeviceAllowed, KernelTimerAllowed DEF Interrupted, Ticked
    <3>6. CASE \E p \in Procs : Run(h, p)
      BY <3>6, RunAllowed
    <3> QED BY <3>1, <3>2, <3>3, <3>4, <3>5, <3>6
  <2> QED BY <2>1, <2>2
<1> QED BY <1>1, <1>2, TrapsInductive, PTL DEF Spec, RefinesThreads, Thread!Spec
=============================================================================
