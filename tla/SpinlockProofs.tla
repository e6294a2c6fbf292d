--------------------------- MODULE SpinlockProofs ---------------------------
(***************************************************************************)
(* TLAPS proofs about Spinlock, for any set of CPUs, any number of locks   *)
(* and any nesting of push_off().                                          *)
(*                                                                         *)
(* The safety properties are not inductive by themselves.  What makes them *)
(* so is the bookkeeping of interrupts: noff counts exactly the locks held *)
(* and the push_off()s in force (CountInv), interrupts are on only when    *)
(* that count is zero (SieInv), so the context that is not executing owns  *)
(* nothing (QuietInv), and intena remembers what the outermost push_off()  *)
(* saw (WantInv).  LockInv and TargetInv tie lk->locked and lk->cpu to the *)
(* contexts that own the lock.                                             *)
(***************************************************************************)
EXTENDS Spinlock, FiniteSetTheorems, TLAPS

T(c) == <<c, "thread">>
H(c) == <<c, "handler">>

Acquiring == {"intr_off", "count", "check_locked", "check_cpu", "spin",
              "set_cpu"}
Pushed    == {"check_locked", "check_cpu", "spin", "set_cpu", "pop"}

\* What noff must count for context x.
Depth(x) == Cardinality(held[x]) + bare[x] + (IF pc[x] \in Pushed THEN 1 ELSE 0)

LockInv ==
    /\ \A x \in Ctx : \A k \in Locks : Owns(x, k) => locked[k]
    /\ \A x \in Ctx : \A k \in held[x] :
          lcpu[k] = IF pc[x] = "unlock" /\ target[x] = k THEN NoCpu ELSE x[1]
    /\ \A k \in Locks : lcpu[k] # NoCpu =>
          \E x \in Ctx : k \in held[x] /\ x[1] = lcpu[k]

TargetInv ==
    \A x \in Ctx :
        /\ pc[x] \in {"check_locked", "check_cpu", "spin", "set_cpu"} =>
              target[x] \in Locks
        /\ pc[x] \in Acquiring => target[x] \notin held[x]
        /\ pc[x] = "unlock" => target[x] \in held[x]
        /\ pc[x] \in {"intr_off", "count"} /\ target[x] = NoLock =>
              bare[x] < MaxBare

QuietInv ==
    \A c \in Cpus :
        /\ active[c] = "thread" =>
              pc[H(c)] = "run" /\ held[H(c)] = {} /\ bare[H(c)] = 0
        /\ active[c] = "handler" =>
              /\ pc[T(c)] \in {"run", "intr_off"}
              /\ held[T(c)] = {} /\ bare[T(c)] = 0
              /\ want[c]
              /\ pc[T(c)] = "intr_off" => old[T(c)]

SieInv ==
    \A c \in Cpus : sie[c] =>
        /\ active[c] = "thread"
        /\ pc[T(c)] \in {"run", "intr_off"}
        /\ held[T(c)] = {} /\ bare[T(c)] = 0

CountInv == \A c \in Cpus : noff[c] = Depth(T(c)) + Depth(H(c))

WantInv ==
    \A c \in Cpus :
        /\ active[c] = "thread" =>
              /\ noff[c] = 0 /\ pc[T(c)] \in {"run", "intr_off"} =>
                    sie[c] = want[c]
              /\ noff[c] = 0 /\ pc[T(c)] \in {"intr_off", "count"} =>
                    old[T(c)] = want[c]
              /\ noff[c] > 0 => intena[c] = want[c]
        /\ active[c] = "handler" =>
              /\ pc[H(c)] \in {"intr_off", "count"} => ~ old[H(c)]
              /\ noff[c] > 0 => ~ intena[c]

IInv == /\ TypeOK /\ NoPanic /\ MutualExclusion
        /\ LockInv /\ TargetInv /\ QuietInv /\ SieInv /\ CountInv /\ WantInv

-----------------------------------------------------------------------------
(* Facts about contexts and about sets of locks.                           *)

\* Contexts are the pairs T(c) and H(c), all different.
LEMMA CtxFacts ==
    /\ \A x \in Ctx : x[1] \in Cpus /\ x[2] \in Levels
    /\ \A x \in Ctx : x[2] = "thread"  => x = T(x[1])
    /\ \A x \in Ctx : x[2] = "handler" => x = H(x[1])
    /\ \A c \in Cpus : T(c) \in Ctx /\ H(c) \in Ctx
    /\ \A c \in Cpus : T(c)[1] = c /\ T(c)[2] = "thread"
    /\ \A c \in Cpus : H(c)[1] = c /\ H(c)[2] = "handler"
  BY DEF Ctx, Levels, T, H

\* What Cardinality says of a set of locks.
LEMMA LockSets ==
    ASSUME NEW S \in SUBSET Locks
    PROVE  /\ Cardinality(S) \in Nat
           /\ Cardinality(S) = 0 <=> S = {}
           /\ \A k \in Locks : k \notin S =>
                 Cardinality(S \cup {k}) = Cardinality(S) + 1
           /\ \A k \in S : Cardinality(S \ {k}) = Cardinality(S) - 1
<1>1. IsFiniteSet(Locks)
  BY LocksAssumption, FS_Interval DEF Locks
<1>2. IsFiniteSet(S)
  BY <1>1, FS_Subset
<1>. QED
  BY <1>2, FS_CardinalityType, FS_EmptySet, FS_AddElement, FS_RemoveElement

\* The depth of a context is a count, and is zero only when nothing is held.
LEMMA DepthFacts ==
    ASSUME TypeOK, NEW x \in Ctx
    PROVE  /\ Depth(x) \in Nat
           /\ Depth(x) = 0 <=>
                 held[x] = {} /\ bare[x] = 0 /\ pc[x] \notin Pushed
           /\ pc[x] \in Pushed /\ Depth(x) = 1 => held[x] = {} /\ bare[x] = 0
<1>1. held[x] \in SUBSET Locks /\ bare[x] \in Nat
  BY BareAssumption DEF TypeOK
<1>. QED
  BY <1>1, LockSets DEF Depth

\* noff follows the depth of the context that moves.
LEMMA StepCount ==
    ASSUME TypeOK, TypeOK', CountInv, NEW x \in Ctx,
           noff'[x[1]] = noff[x[1]] + (Depth(x)' - Depth(x)),
           \A d \in Cpus : d # x[1] => noff'[d] = noff[d],
           \A y \in Ctx : y # x => Depth(y)' = Depth(y)
    PROVE  CountInv'
<1>. SUFFICES ASSUME NEW c \in Cpus
             PROVE  noff'[c] = Depth(T(c))' + Depth(H(c))'
  BY DEF CountInv
<1>0. T(c) \in Ctx /\ H(c) \in Ctx /\ T(c) # H(c) /\ T(c)[1] = c /\ H(c)[1] = c
  BY CtxFacts
<1>1. noff[c] = Depth(T(c)) + Depth(H(c)) /\ noff[c] \in Int
  BY DEF CountInv, TypeOK
<1>2. /\ Depth(T(c)) \in Nat /\ Depth(T(c))' \in Nat
      /\ Depth(H(c)) \in Nat /\ Depth(H(c))' \in Nat
  <2>1. Depth(T(c)) \in Nat /\ Depth(H(c)) \in Nat
    BY <1>0, DepthFacts
  <2>2. \A y \in Ctx : Depth(y)' \in Nat
    <3>1. ASSUME NEW y \in Ctx PROVE Depth(y)' \in Nat
      <4>1. held'[y] \in SUBSET Locks /\ bare'[y] \in Nat
        BY BareAssumption DEF TypeOK
      <4>. QED BY <4>1, LockSets DEF Depth
    <3>. QED BY <3>1
  <2>. QED BY <1>0, <2>1, <2>2
<1>3. CASE x[1] = c
  <2>1. noff'[c] = noff[c] + (Depth(x)' - Depth(x))
    BY <1>3 DEF TypeOK
  <2>2. x = T(c) \/ x = H(c)
    BY <1>3, CtxFacts DEF Levels
  <2>3. CASE x = T(c)
    <3>1. Depth(H(c))' = Depth(H(c)) BY <2>3, <1>0
    <3>. QED BY <3>1, <2>1, <2>2, <2>3, <1>1, <1>2
  <2>4. CASE x = H(c)
    <3>1. Depth(T(c))' = Depth(T(c)) BY <2>4, <1>0
    <3>. QED BY <3>1, <2>1, <2>2, <2>4, <1>1, <1>2
  <2>. QED BY <2>2, <2>3, <2>4
<1>4. CASE x[1] # c
  <2>1. noff'[c] = noff[c]
    BY <1>4 DEF TypeOK
  <2>2. x # T(c) /\ x # H(c)
    BY <1>4, <1>0
  <2>3. Depth(T(c))' = Depth(T(c)) /\ Depth(H(c))' = Depth(H(c))
    BY <2>2, <1>0
  <2>. QED BY <2>1, <2>3, <1>1
<1>. QED BY <1>3, <1>4

\* The count of a CPU is the depth of the context it executes: the other one
\* is quiet.
LEMMA ActiveDepth ==
    ASSUME IInv, NEW x \in Ctx, active[x[1]] = x[2]
    PROVE  noff[x[1]] = Depth(x)
<1>. USE CtxFacts
<1>1. TypeOK /\ x[1] \in Cpus
  BY DEF IInv
<1>2. noff[x[1]] = Depth(T(x[1])) + Depth(H(x[1]))
  BY <1>1 DEF IInv, CountInv
<1>3. Depth(T(x[1])) \in Nat /\ Depth(H(x[1])) \in Nat
  BY <1>1, DepthFacts
<1>4. CASE x[2] = "thread"
  <2>1. Depth(H(x[1])) = 0
    BY <1>1, <1>4, DepthFacts DEF IInv, QuietInv, Pushed
  <2>. QED BY <1>2, <1>3, <1>4, <2>1
<1>5. CASE x[2] = "handler"
  <2>1. Depth(T(x[1])) = 0
    BY <1>1, <1>5, DepthFacts DEF IInv, QuietInv, Pushed
  <2>. QED BY <1>2, <1>3, <1>5, <2>1
<1>. QED BY <1>4, <1>5 DEF Levels

-----------------------------------------------------------------------------
(* The inductive step, one lemma per action.                               *)

LEMMA PushOffReadStep ==
    ASSUME IInv, NEW x \in Ctx, NEW k \in Locks \cup {NoLock}, k \notin held[x],
           k = NoLock => bare[x] < MaxBare, PushOffRead(x, k)
    PROVE  IInv'
<1>. USE CtxFacts DEF At, GoTo, PushOffRead, lockVars, cpuVars, ctxVars
<1>. DEFINE c == x[1]
<1>0. c \in Cpus /\ active[c] = x[2] /\ (x = T(c) \/ x = H(c))
  BY DEF Levels
<1>t. TypeOK
  BY DEF IInv
<1>1. TypeOK'
  BY <1>t, BareAssumption DEF IInv, TypeOK, PCs, TargetInv, NoCpu, NoLock
<1>2. NoPanic'
  BY <1>t DEF IInv, TypeOK, NoPanic, PCs
<1>3. MutualExclusion'
  BY <1>t DEF IInv, TypeOK, MutualExclusion, Owns, LockInv, TargetInv
<1>4. LockInv'
  BY <1>t DEF IInv, TypeOK, MutualExclusion, Owns, LockInv, TargetInv
<1>5. TargetInv'
  BY <1>t, LocksAssumption DEF IInv, TypeOK, TargetInv, Acquiring, Locks, NoLock
<1>6. QuietInv'
  BY <1>t DEF IInv, TypeOK, QuietInv, WantInv, SieInv
<1>7. SieInv'
  BY <1>t, <1>0 DEF IInv, TypeOK, SieInv, QuietInv
<1>8. CountInv'
  <2>1. \A y \in Ctx : y # x => Depth(y)' = Depth(y)
    BY <1>t DEF TypeOK, Depth
  <2>2. Depth(x)' = Depth(x)
    <3>1. held[x] \in SUBSET Locks /\ bare[x] \in Nat
      BY <1>t, BareAssumption DEF TypeOK
    <3>2. Cardinality(held[x]) \in Nat
      BY <3>1, LockSets
    <3>. QED
      BY <1>t, <3>1, <3>2 DEF TypeOK, Depth, Pushed
  <2>3. Depth(x) \in Nat /\ CountInv
    BY <1>t, DepthFacts DEF IInv
  <2>4. noff'[c] = noff[c] + (Depth(x)' - Depth(x))
    BY <1>t, <1>0, <2>2, <2>3 DEF TypeOK
  <2>5. \A d \in Cpus : d # c => noff'[d] = noff[d]
    BY <1>t DEF TypeOK
  <2>. QED BY <1>t, <1>1, <2>1, <2>3, <2>4, <2>5, StepCount
<1>9. WantInv'
  BY <1>t, <1>0 DEF IInv, TypeOK, WantInv, QuietInv, SieInv
<1>. QED BY <1>1, <1>2, <1>3, <1>4, <1>5, <1>6, <1>7, <1>8, <1>9 DEF IInv

LEMMA IntrOffStep ==
    ASSUME IInv, NEW x \in Ctx, IntrOff(x)
    PROVE  IInv'
<1>. USE CtxFacts
<1>. DEFINE c == x[1]
<1>0. c \in Cpus /\ active[c] = x[2] /\ (x = T(c) \/ x = H(c))
  BY DEF Levels, At, IntrOff
<1>t. TypeOK
  BY DEF IInv
<1>u. /\ pc[x] = "intr_off" /\ pc'[x] = "count" /\ ~ sie'[c]
      /\ \A y \in Ctx : y # x => pc'[y] = pc[y]
      /\ \A d \in Cpus : d # c => sie'[d] = sie[d]
      /\ UNCHANGED <<locked, lcpu, noff, intena, active, target, old, held,
                     bare, want>>
  BY <1>0, <1>t DEF TypeOK, IntrOff, At, GoTo, lockVars
<1>1. TypeOK'
  BY <1>t DEF TypeOK, PCs, IntrOff, GoTo, At, lockVars
<1>2. NoPanic'
  BY <1>t, <1>u DEF IInv, TypeOK, NoPanic, PCs
<1>3. MutualExclusion'
  BY <1>t, <1>u DEF IInv, TypeOK, MutualExclusion, Owns, LockInv, TargetInv
<1>4. LockInv'
  BY <1>t, <1>u DEF IInv, TypeOK, MutualExclusion, Owns, LockInv, TargetInv
<1>5. TargetInv'
  BY <1>t, LocksAssumption, <1>u DEF IInv, TypeOK, TargetInv, Acquiring, Locks, NoLock
<1>6. QuietInv'
  BY <1>t, <1>0, <1>u DEF IInv, QuietInv
<1>7. SieInv'
  BY <1>t, <1>0, <1>u DEF IInv, TypeOK, SieInv, QuietInv
<1>8. CountInv'
  <2>1. \A y \in Ctx : y # x => Depth(y)' = Depth(y)
    BY <1>t, <1>u DEF TypeOK, Depth
  <2>2. Depth(x)' = Depth(x)
    <3>1. held[x] \in SUBSET Locks /\ bare[x] \in Nat
      BY <1>t, BareAssumption DEF TypeOK
    <3>2. Cardinality(held[x]) \in Nat
      BY <3>1, LockSets
    <3>. QED
      BY <1>t, <1>u, <3>1, <3>2 DEF TypeOK, Depth, Pushed
  <2>3. Depth(x) \in Nat /\ CountInv
    BY <1>t, DepthFacts DEF IInv
  <2>4. noff'[c] = noff[c] + (Depth(x)' - Depth(x))
    BY <1>t, <1>u, <1>0, <2>2, <2>3 DEF TypeOK
  <2>5. \A d \in Cpus : d # c => noff'[d] = noff[d]
    BY <1>t, <1>u DEF TypeOK
  <2>. QED BY <1>t, <1>1, <2>1, <2>3, <2>4, <2>5, StepCount
<1>9. WantInv'
  <2>. SUFFICES ASSUME NEW d \in Cpus PROVE WantInv!(d)'
    BY DEF WantInv
  <2>1. CASE d # c
    BY <1>t, <1>0, <2>1, <1>u DEF IInv, TypeOK, WantInv
  <2>2. CASE d = c /\ x = T(c)
    BY <1>t, <1>0, <2>2, <1>u DEF IInv, TypeOK, WantInv, QuietInv, SieInv
  <2>3. CASE d = c /\ x = H(c)
    BY <1>t, <1>0, <2>3, <1>u DEF IInv, TypeOK, WantInv, QuietInv, SieInv
  <2>. QED BY <1>0, <2>1, <2>2, <2>3
<1>. QED BY <1>1, <1>2, <1>3, <1>4, <1>5, <1>6, <1>7, <1>8, <1>9 DEF IInv

LEMMA CountStep ==
    ASSUME IInv, NEW x \in Ctx, Count(x)
    PROVE  IInv'
<1>. USE CtxFacts
<1>. DEFINE c == x[1]
<1>0. c \in Cpus /\ active[c] = x[2] /\ (x = T(c) \/ x = H(c))
  BY DEF Levels, At, Count
<1>t. TypeOK
  BY DEF IInv
<1>g. noff[c] \in Nat
  BY <1>t, <1>0, DepthFacts, ActiveDepth
<1>u. /\ pc[x] = "count" /\ ~ old'[x]
      /\ target[x] = NoLock => pc'[x] = "run" /\ bare'[x] = bare[x] + 1
      /\ target[x] # NoLock => pc'[x] = "check_locked" /\ bare'[x] = bare[x]
      /\ noff'[c] = noff[c] + 1
      /\ noff[c] = 0 => intena'[c] = old[x]
      /\ noff[c] # 0 => intena'[c] = intena[c]
      /\ \A y \in Ctx : y # x =>
            pc'[y] = pc[y] /\ bare'[y] = bare[y] /\ old'[y] = old[y]
      /\ \A d \in Cpus : d # c => noff'[d] = noff[d] /\ intena'[d] = intena[d]
      /\ UNCHANGED <<locked, lcpu, sie, active, target, held, want>>
  BY <1>0, <1>t DEF TypeOK, Count, At, GoTo, lockVars
<1>1. TypeOK'
  <2>1. target[x] = NoLock => bare[x] \in Nat /\ bare[x] + 1 <= MaxBare
    BY <1>t, BareAssumption DEF IInv, TypeOK, TargetInv, Count, At
  <2>2. /\ noff' \in [Cpus -> Nat] /\ intena' \in [Cpus -> BOOLEAN]
        /\ old' \in [Ctx -> BOOLEAN]
    BY <1>t DEF TypeOK, Count
  <2>3. pc' \in [Ctx -> PCs] /\ bare' \in [Ctx -> 0..MaxBare]
    <3>1. CASE target[x] = NoLock
      <4>1. bare[x] + 1 \in 0..MaxBare
        BY <2>1, <3>1, BareAssumption
      <4>2. bare' = [bare EXCEPT ![x] = bare[x] + 1]
        BY <3>1 DEF Count
      <4>3. pc' = [pc EXCEPT ![x] = "run"]
        BY <3>1 DEF Count, GoTo
      <4>. QED BY <1>t, <4>1, <4>2, <4>3 DEF TypeOK, PCs
    <3>2. CASE target[x] # NoLock
      BY <1>t, <3>2 DEF TypeOK, Count, GoTo, PCs
    <3>. QED BY <3>1, <3>2
  <2>. QED BY <1>t, <2>2, <2>3, <1>u DEF TypeOK
<1>2. NoPanic'
  BY <1>t, <1>u DEF IInv, TypeOK, NoPanic, PCs
<1>3. MutualExclusion'
  BY <1>t, <1>u DEF IInv, TypeOK, MutualExclusion, Owns, LockInv, TargetInv
<1>4. LockInv'
  BY <1>t, <1>u DEF IInv, TypeOK, MutualExclusion, Owns, LockInv, TargetInv
<1>5. TargetInv'
  BY <1>t, LocksAssumption, <1>u DEF IInv, TypeOK, TargetInv, Acquiring, Locks, NoLock
<1>6. QuietInv'
  BY <1>t, <1>u DEF IInv, TypeOK, QuietInv, WantInv, SieInv
<1>7. SieInv'
  <2>1. ~ sie[c]
    BY <1>0, <1>u DEF IInv, SieInv
  <2>. SUFFICES ASSUME NEW d \in Cpus, sie'[d] PROVE SieInv!(d)'
    BY DEF SieInv
  <2>2. d # c /\ T(d) # x
    BY <1>0, <1>u, <2>1
  <2>. QED BY <1>u, <2>2 DEF IInv, SieInv
<1>8. CountInv'
  <2>1. \A y \in Ctx : y # x => Depth(y)' = Depth(y)
    BY <1>t, <1>u DEF TypeOK, Depth
  <2>2. Depth(x)' = Depth(x) + 1
    <3>1. held[x] \in SUBSET Locks /\ bare[x] \in Nat
      BY <1>t, BareAssumption DEF TypeOK
    <3>2. Cardinality(held[x]) \in Nat
      BY <3>1, LockSets
    <3>. QED
      BY <1>t, <1>u, <3>1, <3>2 DEF TypeOK, Depth, Pushed
  <2>3. Depth(x) \in Nat /\ CountInv
    BY <1>t, DepthFacts DEF IInv
  <2>4. noff'[c] = noff[c] + (Depth(x)' - Depth(x))
    BY <1>t, <1>u, <1>0, <2>2, <2>3 DEF TypeOK
  <2>5. \A d \in Cpus : d # c => noff'[d] = noff[d]
    BY <1>t, <1>u DEF TypeOK
  <2>. QED BY <1>t, <1>1, <2>1, <2>3, <2>4, <2>5, StepCount
<1>9. WantInv'
  <2>. SUFFICES ASSUME NEW d \in Cpus PROVE WantInv!(d)'
    BY DEF WantInv
  <2>1. CASE d # c
    BY <1>t, <1>0, <2>1, <1>g, <1>u DEF IInv, TypeOK, WantInv
  <2>2. CASE d = c /\ x = T(c)
    BY <1>t, <1>0, <2>2, <1>g, <1>u DEF IInv, TypeOK, WantInv, QuietInv, SieInv
  <2>3. CASE d = c /\ x = H(c)
    BY <1>t, <1>0, <2>3, <1>g, <1>u DEF IInv, TypeOK, WantInv, QuietInv, SieInv
  <2>. QED BY <1>0, <2>1, <2>2, <2>3
<1>. QED BY <1>1, <1>2, <1>3, <1>4, <1>5, <1>6, <1>7, <1>8, <1>9 DEF IInv

LEMMA HoldingReadLockedStep ==
    ASSUME IInv, NEW x \in Ctx, HoldingReadLocked(x)
    PROVE  IInv'
<1>. USE CtxFacts DEF At, GoTo, HoldingReadLocked, lockVars, cpuVars, ctxVars
<1>. DEFINE c == x[1]
<1>0. c \in Cpus /\ active[c] = x[2] /\ (x = T(c) \/ x = H(c))
  BY DEF Levels
<1>t. TypeOK
  BY DEF IInv
<1>1. TypeOK'
  BY <1>t, BareAssumption DEF IInv, TypeOK, PCs, TargetInv, NoCpu, NoLock
<1>2. NoPanic'
  BY <1>t DEF IInv, TypeOK, NoPanic, PCs
<1>3. MutualExclusion'
  BY <1>t DEF IInv, TypeOK, MutualExclusion, Owns, LockInv, TargetInv
<1>4. LockInv'
  BY <1>t DEF IInv, TypeOK, MutualExclusion, Owns, LockInv, TargetInv
<1>5. TargetInv'
  BY <1>t, LocksAssumption DEF IInv, TypeOK, TargetInv, Acquiring, Locks, NoLock
<1>6. QuietInv'
  BY <1>t DEF IInv, TypeOK, QuietInv, WantInv, SieInv
<1>7. SieInv'
  BY <1>t, <1>0 DEF IInv, TypeOK, SieInv, QuietInv
<1>8. CountInv'
  <2>1. \A y \in Ctx : y # x => Depth(y)' = Depth(y)
    BY <1>t DEF TypeOK, Depth
  <2>2. Depth(x)' = Depth(x)
    <3>1. held[x] \in SUBSET Locks /\ bare[x] \in Nat
      BY <1>t, BareAssumption DEF TypeOK
    <3>2. Cardinality(held[x]) \in Nat
      BY <3>1, LockSets
    <3>. QED
      BY <1>t, <3>1, <3>2 DEF TypeOK, Depth, Pushed
  <2>3. Depth(x) \in Nat /\ CountInv
    BY <1>t, DepthFacts DEF IInv
  <2>4. noff'[c] = noff[c] + (Depth(x)' - Depth(x))
    BY <1>t, <1>0, <2>2, <2>3 DEF TypeOK
  <2>5. \A d \in Cpus : d # c => noff'[d] = noff[d]
    BY <1>t DEF TypeOK
  <2>. QED BY <1>t, <1>1, <2>1, <2>3, <2>4, <2>5, StepCount
<1>9. WantInv'
  BY <1>t, <1>0 DEF IInv, TypeOK, WantInv, QuietInv, SieInv
<1>. QED BY <1>1, <1>2, <1>3, <1>4, <1>5, <1>6, <1>7, <1>8, <1>9 DEF IInv

LEMMA HoldingReadCpuStep ==
    ASSUME IInv, NEW x \in Ctx, HoldingReadCpu(x)
    PROVE  IInv'
<1>. USE CtxFacts DEF At, GoTo, HoldingReadCpu, lockVars, cpuVars, ctxVars
<1>. DEFINE c == x[1]
<1>0. c \in Cpus /\ active[c] = x[2] /\ (x = T(c) \/ x = H(c))
  BY DEF Levels
<1>t. TypeOK
  BY DEF IInv
<1>g. lcpu[target[x]] # x[1]
  <2>. SUFFICES ASSUME lcpu[target[x]] = x[1] PROVE FALSE
    OBVIOUS
  <2>1. target[x] \in Locks /\ target[x] \notin held[x]
    BY DEF IInv, TargetInv, Acquiring
  <2>2. PICK y \in Ctx : target[x] \in held[y] /\ y[1] = x[1]
    BY <2>1, <1>0, CpusAssumption DEF IInv, LockInv, NoCpu
  <2>3. y # x /\ held[y] = {}
    BY <2>1, <2>2, <1>0 DEF IInv, QuietInv, Levels
  <2>. QED BY <2>2, <2>3
<1>1. TypeOK'
  BY <1>t, BareAssumption, <1>g DEF IInv, TypeOK, PCs, TargetInv, NoCpu, NoLock
<1>2. NoPanic'
  BY <1>t, <1>g DEF IInv, TypeOK, NoPanic, PCs
<1>3. MutualExclusion'
  BY <1>t, <1>g DEF IInv, TypeOK, MutualExclusion, Owns, LockInv, TargetInv
<1>4. LockInv'
  BY <1>t, <1>g DEF IInv, TypeOK, MutualExclusion, Owns, LockInv, TargetInv
<1>5. TargetInv'
  BY <1>t, LocksAssumption, <1>g DEF IInv, TypeOK, TargetInv, Acquiring, Locks, NoLock
<1>6. QuietInv'
  BY <1>t, <1>g DEF IInv, TypeOK, QuietInv, WantInv, SieInv
<1>7. SieInv'
  BY <1>t, <1>0, <1>g DEF IInv, TypeOK, SieInv, QuietInv
<1>8. CountInv'
  <2>1. \A y \in Ctx : y # x => Depth(y)' = Depth(y)
    BY <1>t, <1>g DEF TypeOK, Depth
  <2>2. Depth(x)' = Depth(x)
    <3>1. held[x] \in SUBSET Locks /\ bare[x] \in Nat
      BY <1>t, BareAssumption DEF TypeOK
    <3>2. Cardinality(held[x]) \in Nat
      BY <3>1, LockSets
    <3>. QED
      BY <1>t, <1>g, <3>1, <3>2 DEF TypeOK, Depth, Pushed
  <2>3. Depth(x) \in Nat /\ CountInv
    BY <1>t, DepthFacts DEF IInv
  <2>4. noff'[c] = noff[c] + (Depth(x)' - Depth(x))
    BY <1>t, <1>g, <1>0, <2>2, <2>3 DEF TypeOK
  <2>5. \A d \in Cpus : d # c => noff'[d] = noff[d]
    BY <1>t, <1>g DEF TypeOK
  <2>. QED BY <1>t, <1>1, <2>1, <2>3, <2>4, <2>5, StepCount
<1>9. WantInv'
  BY <1>t, <1>0 DEF IInv, TypeOK, WantInv, QuietInv, SieInv
<1>. QED BY <1>1, <1>2, <1>3, <1>4, <1>5, <1>6, <1>7, <1>8, <1>9 DEF IInv

LEMMA TestAndSetStep ==
    ASSUME IInv, NEW x \in Ctx, TestAndSet(x)
    PROVE  IInv'
<1>. USE CtxFacts DEF At, GoTo, TestAndSet, lockVars, cpuVars, ctxVars
<1>. DEFINE c == x[1]
<1>0. c \in Cpus /\ active[c] = x[2] /\ (x = T(c) \/ x = H(c))
  BY DEF Levels
<1>t. TypeOK
  BY DEF IInv
<1>1. TypeOK'
  BY <1>t, BareAssumption DEF IInv, TypeOK, PCs, TargetInv, NoCpu, NoLock
<1>2. NoPanic'
  BY <1>t DEF IInv, TypeOK, NoPanic, PCs
<1>3. MutualExclusion'
  BY <1>t DEF IInv, TypeOK, MutualExclusion, Owns, LockInv, TargetInv
<1>4. LockInv'
  BY <1>t DEF IInv, TypeOK, MutualExclusion, Owns, LockInv, TargetInv
<1>5. TargetInv'
  BY <1>t, LocksAssumption DEF IInv, TypeOK, TargetInv, Acquiring, Locks, NoLock
<1>6. QuietInv'
  BY <1>t DEF IInv, TypeOK, QuietInv, WantInv, SieInv
<1>7. SieInv'
  BY <1>t, <1>0 DEF IInv, TypeOK, SieInv, QuietInv
<1>8. CountInv'
  <2>1. \A y \in Ctx : y # x => Depth(y)' = Depth(y)
    BY <1>t DEF TypeOK, Depth
  <2>2. Depth(x)' = Depth(x)
    <3>1. held[x] \in SUBSET Locks /\ bare[x] \in Nat
      BY <1>t, BareAssumption DEF TypeOK
    <3>2. Cardinality(held[x]) \in Nat
      BY <3>1, LockSets
    <3>. QED
      BY <1>t, <3>1, <3>2 DEF TypeOK, Depth, Pushed
  <2>3. Depth(x) \in Nat /\ CountInv
    BY <1>t, DepthFacts DEF IInv
  <2>4. noff'[c] = noff[c] + (Depth(x)' - Depth(x))
    BY <1>t, <1>0, <2>2, <2>3 DEF TypeOK
  <2>5. \A d \in Cpus : d # c => noff'[d] = noff[d]
    BY <1>t DEF TypeOK
  <2>. QED BY <1>t, <1>1, <2>1, <2>3, <2>4, <2>5, StepCount
<1>9. WantInv'
  BY <1>t, <1>0 DEF IInv, TypeOK, WantInv, QuietInv, SieInv
<1>. QED BY <1>1, <1>2, <1>3, <1>4, <1>5, <1>6, <1>7, <1>8, <1>9 DEF IInv

LEMMA SetCpuStep ==
    ASSUME IInv, NEW x \in Ctx, SetCpu(x)
    PROVE  IInv'
<1>. USE CtxFacts DEF At, GoTo, SetCpu, lockVars, cpuVars, ctxVars
<1>. DEFINE c == x[1]
<1>0. c \in Cpus /\ active[c] = x[2] /\ (x = T(c) \/ x = H(c))
  BY DEF Levels
<1>t. TypeOK
  BY DEF IInv
<1>g. noff[c] \in Nat /\ noff[c] > 0
  BY <1>t, <1>0, DepthFacts, ActiveDepth DEF Pushed
<1>1. TypeOK'
  BY <1>t, BareAssumption DEF IInv, TypeOK, PCs, TargetInv, NoCpu, NoLock
<1>2. NoPanic'
  BY <1>t DEF IInv, TypeOK, NoPanic, PCs
<1>3. MutualExclusion'
  BY <1>t DEF IInv, TypeOK, MutualExclusion, Owns, LockInv, TargetInv
<1>4. LockInv'
  BY <1>t DEF IInv, TypeOK, MutualExclusion, Owns, LockInv, TargetInv
<1>5. TargetInv'
  BY <1>t, LocksAssumption DEF IInv, TypeOK, TargetInv, Acquiring, Locks, NoLock
<1>6. QuietInv'
  BY <1>t DEF IInv, TypeOK, QuietInv, WantInv, SieInv
<1>7. SieInv'
  BY <1>t, <1>0 DEF IInv, TypeOK, SieInv, QuietInv
<1>8. CountInv'
  <2>1. \A y \in Ctx : y # x => Depth(y)' = Depth(y)
    BY <1>t DEF TypeOK, Depth
  <2>2. Depth(x)' = Depth(x)
    <3>1. held[x] \in SUBSET Locks /\ bare[x] \in Nat
      BY <1>t, BareAssumption DEF TypeOK
    <3>2. Cardinality(held[x]) \in Nat
      BY <3>1, LockSets
    <3>3. /\ held'[x] = held[x] \cup {target[x]}
          /\ bare'[x] = bare[x] /\ pc[x] = "set_cpu" /\ pc'[x] = "run"
      BY <1>t DEF TypeOK
    <3>4. target[x] \in Locks /\ target[x] \notin held[x]
      BY DEF IInv, TargetInv, Acquiring
    <3>5. Cardinality(held'[x]) = Cardinality(held[x]) + 1
      BY <3>1, <3>3, <3>4, LockSets
    <3>. QED
      BY <3>1, <3>2, <3>3, <3>5 DEF Depth, Pushed
  <2>3. Depth(x) \in Nat /\ CountInv
    BY <1>t, DepthFacts DEF IInv
  <2>4. noff'[c] = noff[c] + (Depth(x)' - Depth(x))
    BY <1>t, <1>0, <2>2, <2>3 DEF TypeOK
  <2>5. \A d \in Cpus : d # c => noff'[d] = noff[d]
    BY <1>t DEF TypeOK
  <2>. QED BY <1>t, <1>1, <2>1, <2>3, <2>4, <2>5, StepCount
<1>9. WantInv'
  <2>. SUFFICES ASSUME NEW d \in Cpus PROVE WantInv!(d)'
    BY DEF WantInv
  <2>1. CASE d # c
    BY <1>t, <1>0, <2>1, <1>g DEF IInv, TypeOK, WantInv
  <2>2. CASE d = c /\ x = T(c)
    BY <1>t, <1>0, <2>2, <1>g DEF IInv, TypeOK, WantInv, QuietInv, SieInv
  <2>3. CASE d = c /\ x = H(c)
    BY <1>t, <1>0, <2>3, <1>g DEF IInv, TypeOK, WantInv, QuietInv, SieInv
  <2>. QED BY <1>0, <2>1, <2>2, <2>3
<1>. QED BY <1>1, <1>2, <1>3, <1>4, <1>5, <1>6, <1>7, <1>8, <1>9 DEF IInv

LEMMA ReleaseStep ==
    ASSUME IInv, NEW x \in Ctx, NEW k \in Locks, Release(x, k)
    PROVE  IInv'
<1>. USE CtxFacts DEF At, GoTo, Release, lockVars, cpuVars, ctxVars
<1>. DEFINE c == x[1]
<1>0. c \in Cpus /\ active[c] = x[2] /\ (x = T(c) \/ x = H(c))
  BY DEF Levels
<1>t. TypeOK
  BY DEF IInv
<1>g. locked[k] /\ lcpu[k] = x[1]
  BY <1>t DEF IInv, LockInv, Owns
<1>1. TypeOK'
  BY <1>t, BareAssumption, <1>g DEF IInv, TypeOK, PCs, TargetInv, NoCpu, NoLock
<1>2. NoPanic'
  BY <1>t, <1>g DEF IInv, TypeOK, NoPanic, PCs
<1>3. MutualExclusion'
  BY <1>t, <1>g DEF IInv, TypeOK, MutualExclusion, Owns, LockInv, TargetInv
<1>4. LockInv'
  <2>1. \A y \in Ctx : k \in held[y] => y = x
    BY DEF IInv, MutualExclusion, Owns
  <2>2. (\A y \in Ctx : \A j \in Locks : Owns(y, j) => locked[j])'
    BY <1>t, <1>g DEF IInv, TypeOK, LockInv, Owns
  <2>3. (\A y \in Ctx : \A j \in held[y] :
          lcpu[j] = IF pc[y] = "unlock" /\ target[y] = j THEN NoCpu ELSE y[1])'
    BY <1>t, <1>g, <2>1 DEF IInv, TypeOK, LockInv
  <2>4. (\A j \in Locks : lcpu[j] # NoCpu =>
          \E y \in Ctx : j \in held[y] /\ y[1] = lcpu[j])'
    BY <1>t, <1>g DEF IInv, TypeOK, LockInv, NoCpu
  <2>. QED BY <2>2, <2>3, <2>4 DEF LockInv
<1>5. TargetInv'
  BY <1>t, LocksAssumption, <1>g DEF IInv, TypeOK, TargetInv, Acquiring, Locks, NoLock
<1>6. QuietInv'
  BY <1>t, <1>g DEF IInv, TypeOK, QuietInv, WantInv, SieInv
<1>7. SieInv'
  BY <1>t, <1>0, <1>g DEF IInv, TypeOK, SieInv, QuietInv
<1>8. CountInv'
  <2>1. \A y \in Ctx : y # x => Depth(y)' = Depth(y)
    BY <1>t, <1>g DEF TypeOK, Depth
  <2>2. Depth(x)' = Depth(x)
    <3>1. held[x] \in SUBSET Locks /\ bare[x] \in Nat
      BY <1>t, BareAssumption DEF TypeOK
    <3>2. Cardinality(held[x]) \in Nat
      BY <3>1, LockSets
    <3>. QED
      BY <1>t, <1>g, <3>1, <3>2 DEF TypeOK, Depth, Pushed
  <2>3. Depth(x) \in Nat /\ CountInv
    BY <1>t, DepthFacts DEF IInv
  <2>4. noff'[c] = noff[c] + (Depth(x)' - Depth(x))
    BY <1>t, <1>g, <1>0, <2>2, <2>3 DEF TypeOK
  <2>5. \A d \in Cpus : d # c => noff'[d] = noff[d]
    BY <1>t, <1>g DEF TypeOK
  <2>. QED BY <1>t, <1>1, <2>1, <2>3, <2>4, <2>5, StepCount
<1>9. WantInv'
  BY <1>t, <1>0 DEF IInv, TypeOK, WantInv, QuietInv, SieInv
<1>. QED BY <1>1, <1>2, <1>3, <1>4, <1>5, <1>6, <1>7, <1>8, <1>9 DEF IInv

LEMMA UnlockStep ==
    ASSUME IInv, NEW x \in Ctx, Unlock(x)
    PROVE  IInv'
<1>. USE CtxFacts DEF At, GoTo, Unlock, lockVars, cpuVars, ctxVars
<1>. DEFINE c == x[1]
<1>0. c \in Cpus /\ active[c] = x[2] /\ (x = T(c) \/ x = H(c))
  BY DEF Levels
<1>t. TypeOK
  BY DEF IInv
<1>1. TypeOK'
  BY <1>t, BareAssumption DEF IInv, TypeOK, PCs, TargetInv, NoCpu, NoLock
<1>2. NoPanic'
  BY <1>t DEF IInv, TypeOK, NoPanic, PCs
<1>3. MutualExclusion'
  BY <1>t DEF IInv, TypeOK, MutualExclusion, Owns, LockInv, TargetInv
<1>4. LockInv'
  BY <1>t DEF IInv, TypeOK, MutualExclusion, Owns, LockInv, TargetInv
<1>5. TargetInv'
  BY <1>t, LocksAssumption DEF IInv, TypeOK, TargetInv, Acquiring, Locks, NoLock
<1>6. QuietInv'
  BY <1>t DEF IInv, TypeOK, QuietInv, WantInv, SieInv
<1>7. SieInv'
  BY <1>t, <1>0 DEF IInv, TypeOK, SieInv, QuietInv
<1>8. CountInv'
  <2>1. \A y \in Ctx : y # x => Depth(y)' = Depth(y)
    BY <1>t DEF TypeOK, Depth
  <2>2. Depth(x)' = Depth(x)
    <3>1. held[x] \in SUBSET Locks /\ bare[x] \in Nat
      BY <1>t, BareAssumption DEF TypeOK
    <3>2. Cardinality(held[x]) \in Nat
      BY <3>1, LockSets
    <3>3. /\ held'[x] = held[x] \ {target[x]}
          /\ bare'[x] = bare[x] /\ pc[x] = "unlock" /\ pc'[x] = "pop"
      BY <1>t DEF TypeOK
    <3>4. Cardinality(held'[x]) = Cardinality(held[x]) - 1
      BY <3>1, <3>3, LockSets DEF IInv, TargetInv
    <3>. QED
      BY <3>1, <3>2, <3>3, <3>4 DEF Depth, Pushed
  <2>3. Depth(x) \in Nat /\ CountInv
    BY <1>t, DepthFacts DEF IInv
  <2>4. noff'[c] = noff[c] + (Depth(x)' - Depth(x))
    BY <1>t, <1>0, <2>2, <2>3 DEF TypeOK
  <2>5. \A d \in Cpus : d # c => noff'[d] = noff[d]
    BY <1>t DEF TypeOK
  <2>. QED BY <1>t, <1>1, <2>1, <2>3, <2>4, <2>5, StepCount
<1>9. WantInv'
  BY <1>t, <1>0 DEF IInv, TypeOK, WantInv, QuietInv, SieInv
<1>. QED BY <1>1, <1>2, <1>3, <1>4, <1>5, <1>6, <1>7, <1>8, <1>9 DEF IInv

LEMMA PopOffStep ==
    ASSUME IInv, NEW x \in Ctx, PopOff(x)
    PROVE  IInv'
<1>. USE CtxFacts DEF At, GoTo, PopOff, lockVars, cpuVars, ctxVars
<1>. DEFINE c == x[1]
<1>0. c \in Cpus /\ active[c] = x[2] /\ (x = T(c) \/ x = H(c))
  BY DEF Levels
<1>t. TypeOK
  BY DEF IInv
<1>1. TypeOK'
  BY <1>t, BareAssumption DEF IInv, TypeOK, PCs, TargetInv, NoCpu, NoLock
<1>2. NoPanic'
  BY <1>t DEF IInv, TypeOK, NoPanic, PCs
<1>3. MutualExclusion'
  BY <1>t DEF IInv, TypeOK, MutualExclusion, Owns, LockInv, TargetInv
<1>4. LockInv'
  BY <1>t DEF IInv, TypeOK, MutualExclusion, Owns, LockInv, TargetInv
<1>5. TargetInv'
  BY <1>t, LocksAssumption DEF IInv, TypeOK, TargetInv, Acquiring, Locks, NoLock
<1>6. QuietInv'
  BY <1>t DEF IInv, TypeOK, QuietInv, WantInv, SieInv
<1>7. SieInv'
  BY <1>t, <1>0 DEF IInv, TypeOK, SieInv, QuietInv
<1>8. CountInv'
  <2>1. \A y \in Ctx : y # x => Depth(y)' = Depth(y)
    BY <1>t DEF TypeOK, Depth
  <2>2. Depth(x)' = Depth(x)
    <3>1. held[x] \in SUBSET Locks /\ bare[x] \in Nat
      BY <1>t, BareAssumption DEF TypeOK
    <3>2. Cardinality(held[x]) \in Nat
      BY <3>1, LockSets
    <3>. QED
      BY <1>t, <3>1, <3>2 DEF TypeOK, Depth, Pushed
  <2>3. Depth(x) \in Nat /\ CountInv
    BY <1>t, DepthFacts DEF IInv
  <2>4. noff'[c] = noff[c] + (Depth(x)' - Depth(x))
    BY <1>t, <1>0, <2>2, <2>3 DEF TypeOK
  <2>5. \A d \in Cpus : d # c => noff'[d] = noff[d]
    BY <1>t DEF TypeOK
  <2>. QED BY <1>t, <1>1, <2>1, <2>3, <2>4, <2>5, StepCount
<1>9. WantInv'
  BY <1>t, <1>0 DEF IInv, TypeOK, WantInv, QuietInv, SieInv
<1>. QED BY <1>1, <1>2, <1>3, <1>4, <1>5, <1>6, <1>7, <1>8, <1>9 DEF IInv

LEMMA PopStep ==
    ASSUME IInv, NEW x \in Ctx, Pop(x)
    PROVE  IInv'
<1>. USE CtxFacts
<1>. DEFINE c == x[1]
<1>0. c \in Cpus /\ active[c] = x[2] /\ (x = T(c) \/ x = H(c))
  BY DEF Levels, At, Pop
<1>t. TypeOK
  BY DEF IInv
<1>d. Depth(x) \in Nat /\ Depth(x) # 0 /\ noff[c] = Depth(x)
  BY <1>t, <1>0, DepthFacts, ActiveDepth DEF Pushed, Pop, At
<1>g. ~ sie[c] /\ noff[c] \in Nat /\ noff[c] >= 1
  <2>1. ~ sie[c]
    BY <1>0 DEF IInv, SieInv, QuietInv, Pop, At
  <2>. QED BY <1>d, <2>1
<1>h. /\ noff' = [noff EXCEPT ![c] = @ - 1]
      /\ sie' = [sie EXCEPT ![c] = noff[c] = 1 /\ intena[c]]
      /\ GoTo(x, "run")
  BY <1>g, <1>d DEF Pop
<1>i. noff[c] = 1 => held[x] = {} /\ bare[x] = 0
  BY <1>t, <1>d, DepthFacts DEF Pushed, Pop, At
<1>u. /\ pc[x] = "pop" /\ pc'[x] = "run" /\ noff'[c] = noff[c] - 1
      /\ sie'[c] <=> noff[c] = 1 /\ intena[c]
      /\ \A y \in Ctx : y # x => pc'[y] = pc[y]
      /\ \A d \in Cpus : d # c => noff'[d] = noff[d] /\ sie'[d] = sie[d]
      /\ UNCHANGED <<locked, lcpu, intena, active, target, old, held, bare,
                     want>>
  BY <1>0, <1>t, <1>h DEF TypeOK, Pop, At, GoTo, lockVars
<1>1. TypeOK'
  BY <1>t, <1>g, <1>h DEF TypeOK, PCs, Pop, GoTo, lockVars
<1>2. NoPanic'
  BY <1>t, <1>u DEF IInv, TypeOK, NoPanic, PCs
<1>3. MutualExclusion'
  BY <1>t, <1>u DEF IInv, TypeOK, MutualExclusion, Owns, LockInv, TargetInv
<1>4. LockInv'
  BY <1>t, <1>u DEF IInv, TypeOK, MutualExclusion, Owns, LockInv, TargetInv
<1>5. TargetInv'
  BY <1>t, LocksAssumption, <1>u DEF IInv, TypeOK, TargetInv, Acquiring, Locks, NoLock
<1>6. QuietInv'
  BY <1>t, <1>u DEF IInv, TypeOK, QuietInv, WantInv, SieInv
<1>7. SieInv'
  <2>. SUFFICES ASSUME NEW d \in Cpus, sie'[d] PROVE SieInv!(d)'
    BY DEF SieInv
  <2>1. CASE d # c
    <3>1. T(d) # x
      BY <2>1
    <3>. QED BY <1>u, <2>1, <3>1 DEF IInv, SieInv
  <2>2. CASE d = c
    <3>1. noff[c] = 1 /\ intena[c]
      BY <1>u, <2>2
    <3>2. x = T(c)
      BY <1>0, <1>g, <3>1 DEF IInv, WantInv
    <3>. QED BY <1>0, <1>u, <1>i, <2>2, <3>1, <3>2
  <2>. QED BY <2>1, <2>2
<1>8. CountInv'
  <2>1. \A y \in Ctx : y # x => Depth(y)' = Depth(y)
    BY <1>t, <1>u DEF TypeOK, Depth
  <2>2. Depth(x)' = Depth(x) - 1
    <3>1. held[x] \in SUBSET Locks /\ bare[x] \in Nat
      BY <1>t, BareAssumption DEF TypeOK
    <3>2. Cardinality(held[x]) \in Nat
      BY <3>1, LockSets
    <3>. QED
      BY <1>t, <1>u, <3>1, <3>2 DEF TypeOK, Depth, Pushed
  <2>3. Depth(x) \in Nat /\ CountInv
    BY <1>t, DepthFacts DEF IInv
  <2>4. noff'[c] = noff[c] + (Depth(x)' - Depth(x))
    BY <1>t, <1>u, <1>0, <2>2, <2>3 DEF TypeOK
  <2>5. \A d \in Cpus : d # c => noff'[d] = noff[d]
    BY <1>t, <1>u DEF TypeOK
  <2>. QED BY <1>t, <1>1, <2>1, <2>3, <2>4, <2>5, StepCount
<1>9. WantInv'
  <2>. SUFFICES ASSUME NEW d \in Cpus PROVE WantInv!(d)'
    BY DEF WantInv
  <2>1. CASE d # c
    BY <1>t, <1>0, <2>1, <1>g, <1>u, <1>d, <1>i DEF IInv, TypeOK, WantInv
  <2>2. CASE d = c /\ x = T(c)
    <3>1. active[c] = "thread" /\ intena[c] = want[c]
      BY <1>0, <1>g, <2>2 DEF IInv, WantInv
    <3>2. noff'[c] = 0 <=> noff[c] = 1
      BY <1>g, <1>u
    <3>3. noff[c] = 1 => sie'[c] = want[c]
      BY <1>t, <1>1, <1>0, <1>u, <3>1 DEF TypeOK
    <3>. QED BY <1>0, <1>u, <2>2, <3>1, <3>2, <3>3
  <2>3. CASE d = c /\ x = H(c)
    BY <1>t, <1>0, <2>3, <1>g, <1>u, <1>d, <1>i DEF IInv, TypeOK, WantInv, QuietInv, SieInv
  <2>. QED BY <1>0, <2>1, <2>2, <2>3
<1>. QED BY <1>1, <1>2, <1>3, <1>4, <1>5, <1>6, <1>7, <1>8, <1>9 DEF IInv

-----------------------------------------------------------------------------
(* The steps of a CPU as a whole, and the theorems.                        *)

LEMMA CpuStepLemma ==
    ASSUME IInv, NEW c \in Cpus, CpuStep(c)
    PROVE  IInv'
<1>. USE CtxFacts
<1>t. TypeOK
  BY DEF IInv
<1>1. ASSUME Interrupt(c) PROVE IInv'
  <2>. USE <1>1, <1>t DEF Interrupt, lockVars, ctxVars
  <2>1. TypeOK'
    BY DEF TypeOK, Levels
  <2>2. NoPanic' /\ MutualExclusion' /\ LockInv' /\ TargetInv'
    BY DEF IInv, NoPanic, MutualExclusion, LockInv, TargetInv, Owns
  <2>3. CountInv'
    BY DEF IInv, CountInv, Depth
  <2>4. noff[c] = 0
    <3>1. Depth(T(c)) = 0
      BY DepthFacts DEF IInv, SieInv, Pushed
    <3>. QED BY <3>1, ActiveDepth
  <2>5. QuietInv'
    <3>1. want[c] /\ (pc[T(c)] = "intr_off" => old[T(c)])
      BY <2>4 DEF IInv, SieInv, WantInv, TypeOK
    <3>. QED BY <3>1 DEF IInv, TypeOK, QuietInv, SieInv
  <2>6. SieInv'
    BY DEF IInv, TypeOK, SieInv
  <2>7. WantInv'
    BY <2>4 DEF IInv, TypeOK, WantInv, QuietInv
  <2>. QED BY <2>1, <2>2, <2>3, <2>5, <2>6, <2>7 DEF IInv
<1>2. ASSUME InterruptReturn(c) PROVE IInv'
  <2>. USE <1>2, <1>t DEF InterruptReturn, At, lockVars, ctxVars
  <2>0. /\ active[c] = "handler" /\ pc[H(c)] = "run"
        /\ held[H(c)] = {} /\ bare[H(c)] = 0
    BY DEF H
  <2>1. TypeOK'
    BY DEF TypeOK, Levels
  <2>2. NoPanic' /\ MutualExclusion' /\ LockInv' /\ TargetInv'
    BY DEF IInv, NoPanic, MutualExclusion, LockInv, TargetInv, Owns
  <2>3. CountInv'
    BY DEF IInv, CountInv, Depth
  <2>4. noff[c] = 0
    <3>1. Depth(H(c)) = 0
      BY <2>0, DepthFacts DEF Pushed
    <3>. QED BY <2>0, <3>1, ActiveDepth
  <2>5. QuietInv'
    BY <2>0 DEF IInv, TypeOK, QuietInv
  <2>6. SieInv'
    BY <2>0 DEF IInv, TypeOK, SieInv, QuietInv
  <2>7. WantInv'
    <3>1. /\ want[c] /\ pc[T(c)] \in {"run", "intr_off"}
          /\ pc[T(c)] = "intr_off" => old[T(c)]
      BY <2>0 DEF IInv, QuietInv
    <3>2. /\ sie'[c] /\ active'[c] = "thread" /\ UNCHANGED <<noff, intena, pc, old, want>>
          /\ \A d \in Cpus : d # c => sie'[d] = sie[d] /\ active'[d] = active[d]
      BY DEF TypeOK
    <3>3. want[c] \in BOOLEAN /\ sie'[c] \in BOOLEAN /\ old[T(c)] \in BOOLEAN
      BY <2>1 DEF TypeOK
    <3>4. ASSUME NEW d \in Cpus PROVE WantInv!(d)'
      <4>1. CASE d = c
        <5>1. want'[c] = TRUE /\ sie'[c] = TRUE /\ noff'[c] = 0
          BY <2>4, <3>1, <3>2, <3>3
        <5>2. pc'[T(c)] \in {"intr_off", "count"} => old'[T(c)] = TRUE
          BY <3>1, <3>2, <3>3
        <5>3. active'[c] = "thread" /\ ~ (noff'[c] > 0)
          BY <3>2, <5>1
        <5>4. "thread" # "handler"
          OBVIOUS
        <5>. QED BY ONLY <4>1, <5>1, <5>2, <5>3, <5>4, Zenon
      <4>2. CASE d # c
        BY <4>2, <3>2 DEF IInv, WantInv
      <4>. QED BY <4>1, <4>2
    <3>. QED BY <3>4 DEF WantInv
  <2>. QED BY <2>1, <2>2, <2>3, <2>5, <2>6, <2>7 DEF IInv
<1>3. ASSUME NEW on \in BOOLEAN, SetIntr(c, on) PROVE IInv'
  <2>. USE <1>3, <1>t DEF SetIntr, At, lockVars, ctxVars
  <2>0. /\ active[c] = "thread" /\ pc[T(c)] = "run"
        /\ held[T(c)] = {} /\ bare[T(c)] = 0
    BY DEF T
  <2>1. TypeOK'
    BY DEF TypeOK
  <2>2. NoPanic' /\ MutualExclusion' /\ LockInv' /\ TargetInv'
    BY DEF IInv, NoPanic, MutualExclusion, LockInv, TargetInv, Owns
  <2>3. CountInv'
    BY DEF IInv, CountInv, Depth
  <2>4. noff[c] = 0
    <3>1. Depth(T(c)) = 0
      BY <2>0, DepthFacts DEF Pushed
    <3>. QED BY <2>0, <3>1, ActiveDepth
  <2>5. QuietInv'
    BY <2>0 DEF IInv, TypeOK, QuietInv
  <2>6. SieInv'
    BY <2>0 DEF IInv, TypeOK, SieInv
  <2>7. WantInv'
    BY <2>0, <2>4 DEF IInv, TypeOK, WantInv
  <2>. QED BY <2>1, <2>2, <2>3, <2>5, <2>6, <2>7 DEF IInv
<1>. QED BY <1>1, <1>2, <1>3 DEF CpuStep

\* The initial state, and every step, keep the inductive invariant.
LEMMA InitIInv == Init => IInv
<1>. SUFFICES ASSUME Init PROVE IInv
  OBVIOUS
<1>. USE CtxFacts DEF Init
<1>1. TypeOK
  BY BareAssumption DEF TypeOK, PCs, Levels
<1>2. NoPanic /\ MutualExclusion /\ LockInv /\ TargetInv
  BY DEF NoPanic, MutualExclusion, LockInv, TargetInv, Owns, Acquiring
<1>3. QuietInv /\ SieInv
  BY DEF QuietInv, SieInv
<1>4. CountInv
  <2>1. \A x \in Ctx : Depth(x) = 0
    BY <1>1, DepthFacts DEF Pushed
  <2>. QED BY <2>1 DEF CountInv
<1>5. WantInv
  BY DEF WantInv
<1>. QED BY <1>1, <1>2, <1>3, <1>4, <1>5 DEF IInv

LEMMA NextIInv == IInv /\ [Next]_vars => IInv'
<1>. SUFFICES ASSUME IInv, [Next]_vars PROVE IInv'
  OBVIOUS
<1>1. ASSUME NEW x \in Ctx, CtxStep(x) PROVE IInv'
  <2>1. ASSUME NEW k \in Locks, Acquire(x, k) PROVE IInv'
    <3>1. k \notin held[x] /\ k # NoLock
      BY <2>1, LocksAssumption DEF Acquire, Locks, NoLock
    <3>. QED BY <2>1, <3>1, PushOffReadStep DEF Acquire
  <2>2. ASSUME PushOff(x) PROVE IInv'
    <3>1. NoLock \notin held[x]
      BY LocksAssumption DEF IInv, TypeOK, Locks, NoLock
    <3>. QED BY <2>2, <3>1, PushOffReadStep DEF PushOff
  <2>. QED
    BY <1>1, <2>1, <2>2, IntrOffStep, CountStep, HoldingReadLockedStep,
       HoldingReadCpuStep, TestAndSetStep, SetCpuStep, ReleaseStep, UnlockStep,
       PopOffStep, PopStep DEF CtxStep
<1>2. ASSUME NEW c \in Cpus, CpuStep(c) PROVE IInv'
  BY <1>2, CpuStepLemma
<1>3. CASE UNCHANGED vars
  <2>. USE <1>3 DEF vars, lockVars, cpuVars, ctxVars
  <2>1. TypeOK' /\ NoPanic' /\ MutualExclusion'
    BY DEF IInv, TypeOK, NoPanic, MutualExclusion, Owns
  <2>2. LockInv' /\ TargetInv'
    BY DEF IInv, LockInv, TargetInv, Owns
  <2>3. QuietInv' /\ SieInv' /\ CountInv' /\ WantInv'
    BY DEF IInv, QuietInv, SieInv, CountInv, WantInv, Depth
  <2>. QED BY <2>1, <2>2, <2>3 DEF IInv
<1>. QED BY <1>1, <1>2, <1>3 DEF Next

\* Every reachable state of any number of CPUs and locks satisfies the
\* inductive invariant.
THEOREM SpinlockInductive == Spec => []IInv
  BY InitIInv, NextIInv, PTL DEF Spec

\* The variables of spinlock.c keep their types.
THEOREM SpinlockTypeOK == Spec => []TypeOK
  BY SpinlockInductive, PTL DEF IInv

\* acquire()/release() give mutual exclusion for any number of CPUs, threads
\* and handlers.
THEOREM SpinlockMutualExclusion == Spec => []MutualExclusion
<1>1. IInv => MutualExclusion
  BY DEF IInv
<1>. QED BY <1>1, SpinlockInductive, PTL

\* No panic of spinlock.c is ever reached by lock-ordered clients.
THEOREM SpinlockNoPanic == Spec => []NoPanic
<1>1. IInv => NoPanic
  BY DEF IInv
<1>. QED BY <1>1, SpinlockInductive, PTL

\* A handler never runs on top of a thread that owns a lock.
THEOREM SpinlockNoSelfDeadlock == Spec => []NoSelfDeadlock
<1>1. IInv => NoSelfDeadlock
  BY CtxFacts DEF IInv, QuietInv, NoSelfDeadlock, Owns, T
<1>. QED BY <1>1, SpinlockInductive, PTL

\* A thread that has undone its push_off()s has its interrupt flag back.
THEOREM SpinlockIntrRestored == Spec => []IntrRestored
<1>1. ASSUME IInv, NEW c \in Cpus, At(T(c), "run"), held[T(c)] = {}, bare[T(c)] = 0
      PROVE  sie[c] = want[c]
  <2>1. TypeOK /\ active[c] = "thread" /\ pc[T(c)] = "run"
    BY <1>1, CtxFacts DEF IInv, At
  <2>2. Depth(T(c)) = 0
    BY <1>1, <2>1, CtxFacts, DepthFacts DEF Pushed
  <2>3. noff[c] = 0
    BY <1>1, <2>1, <2>2, CtxFacts, ActiveDepth
  <2>. QED BY <1>1, <2>1, <2>3 DEF IInv, WantInv
<1>2. IInv => IntrRestored
  BY <1>1 DEF IntrRestored, T
<1>. QED BY <1>2, SpinlockInductive, PTL
=============================================================================
