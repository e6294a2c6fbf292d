------------------------------ MODULE LogProofs ------------------------------
(***************************************************************************)
(* TLAPS proofs about Log, for any number of operations and blocks and any *)
(* size of the log: its safety invariants, and that it implements TxDisk.  *)
(*                                                                         *)
(* The argument.  outstanding counts the operations that have begun        *)
(* (CountInv), so the one that brings it to 0 commits alone, and nobody is *)
(* inside while it does (CommitInv).  Until then a block that is logged is *)
(* pinned, hence cached, and every other buffer is a copy of the disk      *)
(* (PinInv, CacheInv).  That makes what commit() writes to the log         *)
(* the current contents, and the disk under the log on disk the same       *)
(* before and after each block that is installed (TailInv).                *)
(***************************************************************************)
EXTENDS Log, FiniteSetTheorems, TLAPS

CommitPCs == {"commit", "write_log", "install", "done"}
Inside == {o \in Ops : pc[o] \in {"in", "panic"}}
Installing == \E o \in Ops : pc[o] = "install"
Inj(s) == \A i, j \in 1..Len(s) : s[i] = s[j] => i = j

\* log.outstanding counts the operations between begin_op() and end_op().
CountInv == IsFiniteSet(Inside) /\ outstanding = Cardinality(Inside)

\* One operation commits, with log.committing set and nobody inside.
CommitInv ==
    /\ \A o, x \in Ops : pc[o] \in CommitPCs /\ pc[x] \in CommitPCs => o = x
    /\ \A o \in Ops : pc[o] \in CommitPCs => committing
    /\ committing => Inside = {}

\* The header in memory and on disk; what is logged belongs to somebody who is
\* inside, or is committed.
HeaderInv ==
    /\ Inj(lh) /\ Inj(hdr) /\ Len(lh) <= LOGSIZE /\ Len(hdr) <= LOGSIZE
    /\ mode = "up" => hdr = IF Installing THEN lh ELSE <<>>
    /\ mode = "install" => lh = hdr
    /\ mode = "up" /\ lh # <<>> /\ ~ committing => Inside # {}
    /\ \A o \in Ops : pc[o] = "done" => lh = <<>>

\* Nothing runs before recovery is over.
DownInv ==
    mode # "up" =>
        /\ \A o \in Ops : pc[o] = "idle"
        /\ \A b \in Blocks : pins[b] = 0
        /\ outstanding = 0 /\ ~ committing

\* How far write_log() and install_trans() have come.
TailInv ==
    /\ (mode = "install" \/ \E o \in Ops : pc[o] \in {"write_log", "install"})
          => tail \in 1..Len(lh) + 1
    /\ (\E o \in Ops : pc[o] = "write_log")
          => \A i \in 1..Len(lh) : i < tail => logd[i] = cache[lh[i]]
    /\ (mode = "install" \/ Installing)
          => \A i \in 1..Len(lh) : i < tail => home[lh[i]] = logd[i]
    /\ Installing => \A i \in 1..Len(lh) : i >= tail => cache[lh[i]] = logd[i]

\* A logged block is pinned until it is installed.
PinInv ==
    mode = "up" =>
        \A b \in Blocks :
            pins[b] = IF \E i \in 1..Len(lh) : lh[i] = b /\ (Installing => i >= tail) THEN 1 ELSE 0

\* A pinned block is cached; any other buffer is a copy of the disk.
CacheInv ==
    \A b \in Blocks :
        /\ pins[b] = 0 => cache[b] \in {NotCached, home[b]}
        /\ pins[b] # 0 => cache[b] # NotCached

IInv == TypeOK /\ CountInv /\ CommitInv /\ HeaderInv /\ DownInv /\ TailInv /\ PinInv /\ CacheInv

-----------------------------------------------------------------------------
(* Sequences and sets                                                      *)

\* Slot() is the inverse of an injective header.
LEMMA SlotOf ==
  ASSUME NEW s \in Seq(Blocks), Inj(s), NEW i \in 1..Len(s)
  PROVE  Slot(s, s[i]) = i
<1>1. Slot(s, s[i]) \in 1..Len(s) /\ s[Slot(s, s[i])] = s[i]
  BY DEF Slot
<1>. QED BY <1>1 DEF Inj

\* A new block keeps the header injective.
LEMMA AppendInj ==
  ASSUME NEW s \in Seq(Blocks), Inj(s), NEW b \in Blocks, ~ Logged(s, b)
  PROVE  /\ Append(s, b) \in Seq(Blocks) /\ Inj(Append(s, b))
         /\ Len(Append(s, b)) = Len(s) + 1
         /\ Append(s, b)[Len(s) + 1] = b
         /\ \A i \in 1..Len(s) : Append(s, b)[i] = s[i]
  BY DEF Inj, Logged

\* What changes where operations are changes who is inside accordingly.
LEMMA SameInside ==
  ASSUME CountInv, Inside' = Inside, UNCHANGED outstanding
  PROVE  CountInv'
  BY DEF CountInv

-----------------------------------------------------------------------------
(* Init                                                                    *)

LEMMA InitKeeps == Init => IInv
<1>. SUFFICES ASSUME Init PROVE IInv
  OBVIOUS
<1>. USE LogAssumption DEF Init
<1>1. TypeOK
  <2>1. committing \in BOOLEAN
    BY Zenon
  <2>2. hdr \in Seq(Blocks) /\ lh \in Seq(Blocks)
    OBVIOUS
  <2>3. home \in [Blocks -> Vals] /\ logd \in [1..LOGSIZE -> Vals]
    OBVIOUS
  <2>4. /\ cache \in [Blocks -> Vals \cup {NotCached}] /\ pins \in [Blocks -> Nat]
        /\ pc \in [Ops -> PCs] /\ wrote \in [Ops -> SUBSET Blocks]
    BY DEF PCs
  <2>. QED BY <2>1, <2>2, <2>3, <2>4 DEF TypeOK
<1>2. CountInv
  <2>1. Inside = {}
    BY DEF Inside
  <2>. QED BY <2>1, FS_EmptySet DEF CountInv
<1>3. CommitInv /\ DownInv /\ PinInv /\ CacheInv
  BY DEF CommitInv, CommitPCs, DownInv, PinInv, CacheInv
<1>4. HeaderInv
  BY DEF HeaderInv, Inj
<1>5. TailInv
  BY DEF TailInv, Installing
<1>. QED BY <1>1, <1>2, <1>3, <1>4, <1>5 DEF IInv

-----------------------------------------------------------------------------
(* The buffer cache                                                        *)

LEMMA LoadKeeps ==
  ASSUME IInv, NEW b \in Blocks, Load(b)
  PROVE  IInv'
<1>. USE DEF IInv, Load, diskVars, opVars
<1>1. TypeOK'
  BY DEF TypeOK
<1>2. CountInv' /\ CommitInv' /\ HeaderInv' /\ DownInv'
  BY DEF CountInv, CommitInv, HeaderInv, DownInv, Inside, Installing
<1>3. TailInv'
  <2>1. \A i \in 1..Len(lh) : (Installing => i >= tail) => lh[i] \in Blocks /\ pins[lh[i]] = 1
    BY DEF PinInv, TypeOK
  <2>2. \A i \in 1..Len(lh) : (Installing => i >= tail) => cache'[lh[i]] = cache[lh[i]]
    BY <2>1 DEF CacheInv, TypeOK
  <2>3. Installing' = Installing
    BY DEF Installing
  <2>4. \A o \in Ops : pc[o] = "write_log" => ~ Installing
    BY DEF Installing, CommitInv, CommitPCs
  <2>. QED BY <2>2, <2>3, <2>4 DEF TailInv
<1>4. PinInv' /\ CacheInv'
  BY LogAssumption DEF PinInv, CacheInv, Installing, TypeOK
<1>. QED BY <1>1, <1>2, <1>3, <1>4

LEMMA EvictKeeps ==
  ASSUME IInv, NEW b \in Blocks, Evict(b)
  PROVE  IInv'
<1>. USE DEF IInv, Evict, diskVars, opVars
<1>1. TypeOK'
  BY DEF TypeOK
<1>2. CountInv' /\ CommitInv' /\ HeaderInv' /\ DownInv'
  BY DEF CountInv, CommitInv, HeaderInv, DownInv, Inside, Installing
<1>3. TailInv'
  <2>1. \A i \in 1..Len(lh) : (Installing => i >= tail) => lh[i] \in Blocks /\ pins[lh[i]] = 1
    BY DEF PinInv, TypeOK
  <2>2. \A i \in 1..Len(lh) : (Installing => i >= tail) => cache'[lh[i]] = cache[lh[i]]
    BY <2>1 DEF CacheInv, TypeOK
  <2>3. Installing' = Installing
    BY DEF Installing
  <2>4. \A o \in Ops : pc[o] = "write_log" => ~ Installing
    BY DEF Installing, CommitInv, CommitPCs
  <2>. QED BY <2>2, <2>3, <2>4 DEF TailInv
<1>4. PinInv' /\ CacheInv'
  BY DEF PinInv, CacheInv, Installing, TypeOK
<1>. QED BY <1>1, <1>2, <1>3, <1>4

-----------------------------------------------------------------------------
(* Operations                                                              *)

LEMMA BeginOpKeeps ==
  ASSUME IInv, NEW o \in Ops, BeginOp(o)
  PROVE  IInv'
<1>. USE DEF IInv, BeginOp, GoTo, diskVars, memVars
<1>1. TypeOK'
  <2>1. CASE MustWait
    BY <2>1 DEF TypeOK, PCs
  <2>2. CASE ~ MustWait
    <3>1. outstanding' = outstanding + 1 /\ pc' = [pc EXCEPT ![o] = "in"]
      BY <2>2
    <3>2. outstanding' \in Nat
      BY <3>1 DEF TypeOK
    <3>3. pc' \in [Ops -> PCs]
      BY <3>1 DEF TypeOK, PCs
    <3>. QED BY <3>2, <3>3 DEF TypeOK
  <2>. QED BY <2>1, <2>2
<1>2. CountInv'
  <2>1. CASE MustWait
    <3>1. Inside' = Inside
      BY <2>1 DEF Inside, TypeOK
    <3>. QED BY <2>1, <3>1, SameInside
  <2>2. CASE ~ MustWait
    <3>1. Inside' = Inside \cup {o} /\ o \notin Inside
      BY <2>2 DEF Inside, TypeOK
    <3>2. outstanding' = outstanding + 1
      BY <2>2
    <3>. QED BY <3>1, <3>2, FS_AddElement DEF CountInv
  <2>. QED BY <2>1, <2>2
<1>3. CommitInv'
  BY DEF CommitInv, CommitPCs, MustWait, Inside, TypeOK
<1>4. \A x \in Ops : pc'[x] \in CommitPCs <=> pc[x] \in CommitPCs /\ pc'[x] = pc[x]
  BY DEF CommitPCs, TypeOK
<1>5. Installing' = Installing
  BY DEF Installing, TypeOK
<1>6. Inside # {} => Inside' # {}
  BY DEF Inside, TypeOK
<1>7. HeaderInv' /\ DownInv'
  BY <1>4, <1>5, <1>6 DEF HeaderInv, DownInv, CommitPCs
<1>8. TailInv'
  BY <1>5 DEF TailInv, TypeOK
<1>9. PinInv' /\ CacheInv'
  BY <1>5 DEF PinInv, CacheInv
<1>. QED BY <1>1, <1>2, <1>3, <1>7, <1>8, <1>9

LEMMA WriteKeeps ==
  ASSUME IInv, NEW o \in Ops, NEW b \in Blocks, NEW v \in Vals, Write(o, b, v)
  PROVE  IInv'
<1>. USE DEF IInv, Write, GoTo, diskVars
<1>0. /\ Inside' = Inside /\ o \in Inside
      /\ ~ committing /\ Installing' = Installing /\ ~ Installing
      /\ \A x \in Ops : pc[x] \notin CommitPCs /\ pc'[x] \notin CommitPCs
  BY DEF Inside, Installing, CommitInv, CommitPCs, TypeOK
<1>1. CountInv' /\ CommitInv'
  BY <1>0, SameInside DEF CommitInv
<1>2. CASE Len(lh) >= LOGSIZE \/ Len(lh) >= NLog - 1 \/ outstanding < 1
  <2>1. TypeOK'
    BY <1>2 DEF TypeOK, PCs
  <2>2. HeaderInv' /\ DownInv' /\ TailInv' /\ PinInv' /\ CacheInv'
    BY <1>0, <1>2 DEF HeaderInv, DownInv, TailInv, PinInv, CacheInv, CommitPCs
  <2>. QED BY <1>1, <2>1, <2>2
<1>3. CASE ~ (Len(lh) >= LOGSIZE \/ Len(lh) >= NLog - 1 \/ outstanding < 1)
  <2>. USE <1>3
  <2>0. wrote' \in [Ops -> SUBSET Blocks]
    <3>1. wrote[o] \cup {b} \in SUBSET Blocks
      BY DEF TypeOK
    <3>2. wrote' = [wrote EXCEPT ![o] = wrote[o] \cup {b}]
      OBVIOUS
    <3>. QED BY <3>1, <3>2 DEF TypeOK
  <2>1. CASE Logged(lh, b)
    <3>1. UNCHANGED <<lh, pins>> /\ cache' = [cache EXCEPT ![b] = v]
      BY <2>1 DEF LogWrite
    <3>2. TypeOK'
      <4>1. cache' \in [Blocks -> Vals \cup {NotCached}]
        BY <3>1 DEF TypeOK
      <4>. QED BY <2>0, <3>1, <4>1 DEF TypeOK
    <3>3. HeaderInv' /\ DownInv' /\ TailInv' /\ PinInv'
      BY <1>0, <3>1 DEF HeaderInv, DownInv, TailInv, PinInv, CommitPCs
    <3>4. pins[b] # 0
      BY <1>0, <2>1 DEF PinInv, Logged
    <3>5. CacheInv'
      BY <3>1, <3>4, LogAssumption DEF CacheInv, TypeOK
    <3>. QED BY <1>1, <3>2, <3>3, <3>5
  <2>2. CASE ~ Logged(lh, b)
    <3>1. /\ lh' = Append(lh, b) /\ pins' = [pins EXCEPT ![b] = @ + 1]
          /\ cache' = [cache EXCEPT ![b] = v]
      BY <2>2 DEF LogWrite
    <3>2. /\ lh' \in Seq(Blocks) /\ Inj(lh') /\ Len(lh') = Len(lh) + 1
          /\ lh'[Len(lh) + 1] = b /\ \A i \in 1..Len(lh) : lh'[i] = lh[i]
      BY <2>2, <3>1, AppendInj DEF TypeOK, HeaderInv
    <3>3. TypeOK'
      <4>1. cache' \in [Blocks -> Vals \cup {NotCached}]
        BY <3>1 DEF TypeOK
      <4>2. pins' \in [Blocks -> Nat]
        BY <3>1 DEF TypeOK
      <4>. QED BY <2>0, <3>2, <4>1, <4>2 DEF TypeOK
    <3>4. HeaderInv' /\ DownInv'
      <4>1. Len(lh') <= LOGSIZE
        BY <3>2, LogAssumption DEF TypeOK
      <4>2. hdr = <<>>
        BY <1>0 DEF HeaderInv
      <4>. QED BY <1>0, <3>2, <4>1, <4>2 DEF HeaderInv, DownInv, CommitPCs
    <3>5. TailInv'
      BY <1>0, <3>1 DEF TailInv, CommitPCs
    <3>6. \A c \in Blocks : Logged(lh', c) <=> c = b \/ Logged(lh, c)
      <4>1. Len(lh) \in Nat
        BY DEF TypeOK
      <4>. QED BY <3>2, <4>1 DEF Logged
    <3>7. pins[b] = 0
      BY <1>0, <2>2 DEF PinInv, Logged
    <3>8. PinInv'
      <4>1. \A c \in Blocks : pins[c] = IF Logged(lh, c) THEN 1 ELSE 0
        BY <1>0 DEF PinInv, Logged
      <4>2. \A c \in Blocks : pins'[c] = IF Logged(lh', c) THEN 1 ELSE 0
        BY <3>1, <3>6, <3>7, <4>1 DEF TypeOK
      <4>. QED BY <1>0, <4>2 DEF PinInv, Logged
    <3>9. CacheInv'
      BY <3>1, <3>7, LogAssumption DEF CacheInv, TypeOK
    <3>. QED BY <1>1, <3>3, <3>4, <3>5, <3>8, <3>9
  <2>. QED BY <2>1, <2>2
<1>. QED BY <1>2, <1>3

\* Where operations that do not go on from end_op() are, after its wakeup(&log)
LEMMA WakeupKeeps ==
  ASSUME TypeOK, NEW o \in Ops, WakeupAnd(o, "idle")
  PROVE  /\ pc' \in [Ops -> PCs] /\ pc'[o] = "idle"
         /\ \A x \in Ops \ {o} : \/ pc'[x] = pc[x]
                                 \/ pc[x] = "asleep" /\ pc'[x] = "begin"
  BY DEF WakeupAnd, TypeOK, PCs

LEMMA EndOpKeeps ==
  ASSUME IInv, NEW o \in Ops, EndOp(o)
  PROVE  IInv'
<1>. USE DEF IInv, EndOp, diskVars, memVars
<1>1. /\ o \in Inside /\ ~ committing /\ ~ Installing
      /\ \A x \in Ops : pc[x] \notin CommitPCs
  BY DEF Inside, CommitInv, CommitPCs, Installing
<1>2. \/ outstanding = 1 /\ committing' = TRUE /\ GoTo(o, "commit")
      \/ outstanding # 1 /\ UNCHANGED committing /\ WakeupAnd(o, "idle")
  BY <1>1
<1>3. /\ pc' \in [Ops -> PCs]
      /\ pc'[o] = IF outstanding = 1 THEN "commit" ELSE "idle"
      /\ \A x \in Ops \ {o} : \/ pc'[x] = pc[x]
                              \/ pc[x] = "asleep" /\ pc'[x] = "begin"
  <2>1. CASE GoTo(o, "commit") /\ outstanding = 1
    BY <2>1 DEF GoTo, TypeOK, PCs
  <2>2. CASE WakeupAnd(o, "idle") /\ outstanding # 1
    BY <2>2, WakeupKeeps
  <2>. QED BY <1>2, <2>1, <2>2
<1>4. Inside' = Inside \ {o}
  BY <1>3 DEF Inside
<1>5. CountInv' /\ outstanding >= 1
  <2>1. Cardinality(Inside') = Cardinality(Inside) - 1 /\ IsFiniteSet(Inside')
    BY <1>1, <1>4, FS_RemoveElement DEF CountInv
  <2>2. Cardinality(Inside') \in Nat
    BY <2>1, FS_CardinalityType
  <2>. QED BY <2>1, <2>2 DEF CountInv, TypeOK
<1>6. outstanding = 1 => Inside' = {}
  BY <1>5, FS_EmptySet DEF CountInv
<1>7. outstanding # 1 => Inside' # {}
  BY <1>5, FS_EmptySet DEF CountInv
<1>8. TypeOK'
  <2>1. committing' \in BOOLEAN
    BY <1>2, Zenon DEF TypeOK
  <2>2. outstanding' \in Nat
    BY <1>5 DEF TypeOK
  <2>3. wrote' \in [Ops -> SUBSET Blocks]
    BY DEF TypeOK
  <2>. QED BY <1>3, <2>1, <2>2, <2>3 DEF TypeOK
<1>9. CommitInv'
  BY <1>1, <1>2, <1>3, <1>6 DEF CommitInv, CommitPCs
<1>10. ~ Installing' /\ \A x \in Ops : pc'[x] \notin {"write_log", "install", "done"}
  BY <1>1, <1>3 DEF Installing, CommitPCs
<1>11. HeaderInv' /\ DownInv'
  BY <1>1, <1>2, <1>7, <1>10 DEF HeaderInv, DownInv
<1>12. TailInv' /\ PinInv' /\ CacheInv'
  BY <1>1, <1>10 DEF TailInv, PinInv, CacheInv
<1>. QED BY <1>5, <1>8, <1>9, <1>11, <1>12

LEMMA EndCommitKeeps ==
  ASSUME IInv, NEW o \in Ops, EndCommit(o)
  PROVE  IInv'
<1>. USE DEF IInv, EndCommit, diskVars, memVars
<1>1. /\ pc' \in [Ops -> PCs] /\ pc'[o] = "idle"
      /\ \A x \in Ops \ {o} : \/ pc'[x] = pc[x]
                              \/ pc[x] = "asleep" /\ pc'[x] = "begin"
  BY WakeupKeeps
<1>2. Inside' = Inside /\ lh = <<>>
  BY <1>1 DEF Inside, HeaderInv
<1>3. \A x \in Ops : pc'[x] \notin CommitPCs
  BY <1>1 DEF CommitInv, CommitPCs
<1>4. ~ Installing' /\ ~ Installing
  BY <1>3 DEF Installing, CommitInv, CommitPCs
<1>5. TypeOK'
  <2>1. committing' \in BOOLEAN
    BY Zenon
  <2>. QED BY <1>1, <2>1 DEF TypeOK
<1>6. CountInv' /\ CommitInv'
  BY <1>2, <1>3, SameInside DEF CommitInv
<1>7. HeaderInv' /\ DownInv'
  BY <1>2, <1>3, <1>4 DEF HeaderInv, DownInv, CommitPCs
<1>8. TailInv' /\ PinInv' /\ CacheInv'
  BY <1>3, <1>4 DEF TailInv, PinInv, CacheInv, CommitPCs
<1>. QED BY <1>5, <1>6, <1>7, <1>8

-----------------------------------------------------------------------------
(* commit()                                                                *)

\* A step of the committer changes nobody's place but its own.
LEMMA CommitterOnly ==
  ASSUME IInv, NEW o \in Ops, pc[o] \in CommitPCs, NEW l \in CommitPCs, GoTo(o, l),
         UNCHANGED <<outstanding, committing>>
  PROVE  /\ pc' \in [Ops -> PCs] /\ pc'[o] = l
         /\ \A x \in Ops \ {o} : pc'[x] = pc[x] /\ pc'[x] \notin CommitPCs
         /\ CountInv' /\ CommitInv'
         /\ Inside' = {}
<1>. USE DEF IInv, GoTo
<1>1. pc' \in [Ops -> PCs] /\ pc'[o] = l
  BY DEF TypeOK, PCs, CommitPCs
<1>2. \A x \in Ops \ {o} : pc'[x] = pc[x] /\ pc'[x] \notin CommitPCs
  BY DEF CommitInv, TypeOK
<1>3. Inside' = Inside
  BY <1>1, <1>2 DEF Inside, CommitPCs
<1>4. CountInv'
  BY <1>3, SameInside
<1>5. CommitInv' /\ Inside' = {}
  BY <1>1, <1>2, <1>3 DEF CommitInv
<1>. QED BY <1>1, <1>2, <1>4, <1>5

LEMMA CommitStartKeeps ==
  ASSUME IInv, NEW o \in Ops, CommitStart(o)
  PROVE  IInv'
<1>. USE DEF IInv, CommitStart, diskVars, memVars
<1>. DEFINE l == IF lh = <<>> THEN "done" ELSE "write_log"
<1>1. /\ pc' \in [Ops -> PCs] /\ pc'[o] = l
      /\ \A x \in Ops \ {o} : pc'[x] = pc[x] /\ pc'[x] \notin CommitPCs
      /\ CountInv' /\ CommitInv'
  <2>1. l \in CommitPCs /\ pc[o] \in CommitPCs
    BY DEF CommitPCs
  <2>. QED BY <2>1, CommitterOnly
<1>2. ~ Installing' /\ ~ Installing
  BY <1>1 DEF Installing, CommitPCs, CommitInv
<1>3. TypeOK'
  BY <1>1 DEF TypeOK
<1>4. HeaderInv' /\ DownInv'
  BY <1>1, <1>2 DEF HeaderInv, DownInv, CommitPCs, CommitInv
<1>5. TailInv'
  BY <1>1, <1>2 DEF TailInv, CommitPCs, TypeOK, DownInv
<1>6. PinInv' /\ CacheInv'
  BY <1>2 DEF PinInv, CacheInv
<1>. QED BY <1>1, <1>3, <1>4, <1>5, <1>6

LEMMA WriteLogKeeps ==
  ASSUME IInv, NEW o \in Ops, WriteLog(o)
  PROVE  IInv'
<1>. USE DEF IInv, WriteLog, diskVars, memVars, opVars
<1>1. ~ Installing /\ ~ Installing'
  BY DEF Installing, CommitInv, CommitPCs
<1>2. tail \in 1..Len(lh) /\ tail \in 1..LOGSIZE /\ lh[tail] \in Blocks
  BY LogAssumption DEF TypeOK, HeaderInv, TailInv
<1>3. pins[lh[tail]] = 1 /\ cache[lh[tail]] # NotCached
  BY <1>1, <1>2 DEF PinInv, CacheInv
<1>4. logd' = [logd EXCEPT ![tail] = cache[lh[tail]]] /\ cache[lh[tail]] \in Vals
  BY <1>2, <1>3 DEF Bread, TypeOK
<1>5. TypeOK'
  BY <1>2, <1>4 DEF TypeOK
<1>6. CountInv' /\ CommitInv' /\ HeaderInv' /\ DownInv'
  BY DEF CountInv, CommitInv, HeaderInv, DownInv, Inside, Installing
<1>7. TailInv'
  BY <1>1, <1>2, <1>4, LogAssumption DEF TailInv, TypeOK, HeaderInv
<1>8. PinInv' /\ CacheInv'
  BY <1>1 DEF PinInv, CacheInv
<1>. QED BY <1>5, <1>6, <1>7, <1>8

LEMMA WriteHeadKeeps ==
  ASSUME IInv, NEW o \in Ops, WriteHead(o)
  PROVE  IInv'
<1>. USE DEF IInv, WriteHead, diskVars, memVars
<1>1. /\ pc' \in [Ops -> PCs] /\ pc'[o] = "install"
      /\ \A x \in Ops \ {o} : pc'[x] = pc[x] /\ pc'[x] \notin CommitPCs
      /\ CountInv' /\ CommitInv'
  <2>1. "install" \in CommitPCs /\ pc[o] \in CommitPCs
    BY DEF CommitPCs
  <2>. QED BY <2>1, CommitterOnly
<1>2. Installing' /\ ~ Installing
  BY <1>1 DEF Installing, CommitPCs, CommitInv
<1>3. TypeOK'
  BY <1>1 DEF TypeOK
<1>4. HeaderInv' /\ DownInv'
  BY <1>1, <1>2 DEF HeaderInv, DownInv, CommitPCs, CommitInv
<1>5. \A i \in 1..Len(lh) : logd[i] = cache[lh[i]]
  BY DEF TailInv, TypeOK
<1>6. TailInv'
  BY <1>1, <1>2, <1>5 DEF TailInv, CommitPCs, TypeOK
<1>7. PinInv' /\ CacheInv'
  BY <1>2 DEF PinInv, CacheInv, TypeOK
<1>. QED BY <1>1, <1>3, <1>4, <1>6, <1>7

\* What an iteration of install_trans() does to the disk and the cache
LEMMA InstallBlockTypes ==
  ASSUME IInv, mode = "install" \/ Installing, tail <= Len(lh), InstallBlock(tail)
  PROVE  /\ tail \in 1..Len(lh) /\ tail \in 1..LOGSIZE /\ lh[tail] \in Blocks /\ logd[tail] \in Vals
         /\ home' \in [Blocks -> Vals] /\ cache' \in [Blocks -> Vals \cup {NotCached}]
         /\ home'[lh[tail]] = logd[tail] /\ cache'[lh[tail]] = logd[tail]
         /\ \A b \in Blocks \ {lh[tail]} : home'[b] = home[b] /\ cache'[b] = cache[b]
         /\ \A i \in 1..Len(lh) : i # tail => lh[i] \in Blocks \ {lh[tail]}
<1>. USE DEF IInv
<1>1. tail \in 1..Len(lh) /\ tail \in 1..LOGSIZE /\ lh[tail] \in Blocks
  BY LogAssumption DEF TypeOK, HeaderInv, TailInv, Installing
<1>2. logd[tail] \in Vals
  BY <1>1 DEF TypeOK
<1>3. \A i \in 1..Len(lh) : i # tail => lh[i] \in Blocks \ {lh[tail]}
  BY <1>1 DEF HeaderInv, Inj, TypeOK
<1>. QED BY <1>1, <1>2, <1>3 DEF InstallBlock, TypeOK

LEMMA InstallKeeps ==
  ASSUME IInv, NEW o \in Ops, Install(o)
  PROVE  IInv'
<1>. USE DEF IInv, Install, opVars
<1>1. Installing /\ Installing'
  BY DEF Installing
<1>2. /\ tail \in 1..Len(lh) /\ lh[tail] \in Blocks /\ logd[tail] \in Vals
      /\ home' \in [Blocks -> Vals] /\ cache' \in [Blocks -> Vals \cup {NotCached}]
      /\ home'[lh[tail]] = logd[tail] /\ cache'[lh[tail]] = logd[tail]
      /\ \A b \in Blocks \ {lh[tail]} : home'[b] = home[b] /\ cache'[b] = cache[b]
      /\ \A i \in 1..Len(lh) : i # tail => lh[i] \in Blocks \ {lh[tail]}
  BY <1>1, InstallBlockTypes
<1>3. pins[lh[tail]] = 1
  BY <1>1, <1>2 DEF PinInv, TypeOK
<1>4. /\ pins' \in [Blocks -> Nat] /\ pins'[lh[tail]] = 0
      /\ \A b \in Blocks \ {lh[tail]} : pins'[b] = pins[b]
  BY <1>2, <1>3 DEF TypeOK
<1>5. TypeOK'
  BY <1>2, <1>4 DEF TypeOK
<1>6. CountInv' /\ CommitInv' /\ HeaderInv' /\ DownInv'
  BY DEF CountInv, CommitInv, HeaderInv, DownInv, Inside, Installing
<1>7. TailInv'
  <2>1. \A x \in Ops : pc[x] # "write_log"
    BY DEF CommitInv, CommitPCs
  <2>2. tail' \in 1..Len(lh) + 1
    BY <1>2 DEF TypeOK
  <2>3. \A i \in 1..Len(lh) : i < tail' => home'[lh[i]] = logd[i]
    BY <1>1, <1>2 DEF TailInv, TypeOK
  <2>4. \A i \in 1..Len(lh) : i >= tail' => cache'[lh[i]] = logd[i]
    BY <1>1, <1>2 DEF TailInv, TypeOK
  <2>. QED BY <2>1, <2>2, <2>3, <2>4 DEF TailInv
<1>8. PinInv'
  <2>1. ASSUME NEW b \in Blocks \ {lh[tail]}
        PROVE  (\E i \in 1..Len(lh) : lh[i] = b /\ i >= tail')
                  <=> (\E i \in 1..Len(lh) : lh[i] = b /\ i >= tail)
    BY <1>2, <2>1 DEF TypeOK
  <2>2. ~ \E i \in 1..Len(lh) : lh[i] = lh[tail] /\ i >= tail'
    BY <1>2 DEF TypeOK
  <2>. QED BY <1>1, <1>2, <1>4, <2>1, <2>2 DEF PinInv
<1>9. CacheInv'
  BY <1>2, <1>4 DEF CacheInv
<1>. QED BY <1>5, <1>6, <1>7, <1>8, <1>9

LEMMA EraseKeeps ==
  ASSUME IInv, NEW o \in Ops, Erase(o)
  PROVE  IInv'
<1>. USE DEF IInv, Erase
<1>1. /\ pc' \in [Ops -> PCs] /\ pc'[o] = "done"
      /\ \A x \in Ops \ {o} : pc'[x] = pc[x] /\ pc'[x] \notin CommitPCs
      /\ CountInv' /\ CommitInv'
  <2>1. "done" \in CommitPCs /\ pc[o] \in CommitPCs
    BY DEF CommitPCs
  <2>. QED BY <2>1, CommitterOnly
<1>2. ~ Installing' /\ Installing
  BY <1>1 DEF Installing, CommitPCs
<1>3. TypeOK'
  BY <1>1 DEF TypeOK
<1>4. HeaderInv' /\ DownInv'
  BY <1>1, <1>2, LogAssumption DEF HeaderInv, DownInv, Inj
<1>5. TailInv'
  BY <1>1, <1>2 DEF TailInv, CommitPCs, DownInv
<1>6. PinInv' /\ CacheInv'
  BY <1>2 DEF PinInv, CacheInv, TypeOK
<1>. QED BY <1>1, <1>3, <1>4, <1>5, <1>6

-----------------------------------------------------------------------------
(* Crash and recovery                                                      *)

LEMMA CrashKeeps ==
  ASSUME IInv, Crash
  PROVE  IInv'
<1>. USE DEF IInv, Crash, diskVars
<1>1. TypeOK'
  <2>1. committing' \in BOOLEAN
    BY Zenon
  <2>2. /\ cache' \in [Blocks -> Vals \cup {NotCached}] /\ pins' \in [Blocks -> Nat]
        /\ pc' \in [Ops -> PCs] /\ wrote' \in [Ops -> SUBSET Blocks]
    BY DEF PCs
  <2>. QED BY <2>1, <2>2 DEF TypeOK
<1>2. CountInv' /\ CommitInv'
  <2>1. Inside' = {}
    BY DEF Inside
  <2>. QED BY <2>1, FS_EmptySet DEF CountInv, CommitInv, CommitPCs
<1>3. HeaderInv' /\ DownInv'
  BY LogAssumption DEF HeaderInv, DownInv, Inj
<1>4. TailInv' /\ PinInv' /\ CacheInv'
  BY DEF TailInv, PinInv, CacheInv, Installing
<1>. QED BY <1>1, <1>2, <1>3, <1>4

LEMMA ReadHeadKeeps ==
  ASSUME IInv, ReadHead
  PROVE  IInv'
<1>. USE DEF IInv, ReadHead, diskVars, opVars
<1>1. TypeOK'
  BY DEF TypeOK
<1>2. ~ Installing /\ ~ Installing'
  BY DEF DownInv, Installing
<1>3. CountInv' /\ CommitInv'
  BY DEF CountInv, CommitInv, Inside
<1>4. HeaderInv' /\ DownInv'
  BY <1>2 DEF HeaderInv, DownInv
<1>5. TailInv'
  BY <1>2 DEF TailInv, TypeOK, DownInv
<1>6. PinInv' /\ CacheInv'
  BY DEF PinInv, CacheInv
<1>. QED BY <1>1, <1>3, <1>4, <1>5, <1>6

LEMMA RecoverInstallKeeps ==
  ASSUME IInv, RecoverInstall
  PROVE  IInv'
<1>. USE DEF IInv, RecoverInstall, opVars
<1>1. ~ Installing /\ ~ Installing' /\ \A x \in Ops : pc[x] = "idle"
  BY DEF DownInv, Installing
<1>2. /\ tail \in 1..Len(lh) /\ lh[tail] \in Blocks /\ logd[tail] \in Vals
      /\ home' \in [Blocks -> Vals] /\ cache' \in [Blocks -> Vals \cup {NotCached}]
      /\ home'[lh[tail]] = logd[tail] /\ cache'[lh[tail]] = logd[tail]
      /\ \A b \in Blocks \ {lh[tail]} : home'[b] = home[b] /\ cache'[b] = cache[b]
      /\ \A i \in 1..Len(lh) : i # tail => lh[i] \in Blocks \ {lh[tail]}
  BY InstallBlockTypes
<1>3. TypeOK'
  BY <1>2 DEF TypeOK
<1>4. CountInv' /\ CommitInv' /\ HeaderInv' /\ DownInv'
  BY <1>1 DEF CountInv, CommitInv, HeaderInv, DownInv, Inside
<1>5. TailInv'
  <2>1. tail' \in 1..Len(lh) + 1
    BY <1>2 DEF TypeOK
  <2>2. \A i \in 1..Len(lh) : i < tail' => home'[lh[i]] = logd[i]
    BY <1>2 DEF TailInv, TypeOK
  <2>. QED BY <1>1, <2>1, <2>2 DEF TailInv
<1>6. PinInv' /\ CacheInv'
  BY <1>2 DEF PinInv, CacheInv, DownInv
<1>. QED BY <1>3, <1>4, <1>5, <1>6

LEMMA RecoverDoneKeeps ==
  ASSUME IInv, RecoverDone
  PROVE  IInv'
<1>. USE DEF IInv, RecoverDone, opVars
<1>1. ~ Installing /\ ~ Installing' /\ \A x \in Ops : pc[x] = "idle"
  BY DEF DownInv, Installing
<1>2. TypeOK'
  BY DEF TypeOK
<1>3. CountInv' /\ CommitInv'
  BY DEF CountInv, CommitInv, Inside
<1>4. HeaderInv' /\ DownInv'
  BY <1>1, LogAssumption DEF HeaderInv, DownInv, Inj
<1>5. TailInv' /\ PinInv' /\ CacheInv'
  BY <1>1 DEF TailInv, PinInv, CacheInv, DownInv
<1>. QED BY <1>2, <1>3, <1>4, <1>5

-----------------------------------------------------------------------------
(* The invariant                                                           *)

LEMMA NextKeeps == IInv /\ [Next]_vars => IInv'
<1>. SUFFICES ASSUME IInv, [Next]_vars PROVE IInv'
  OBVIOUS
<1>1. ASSUME NEW o \in Ops, OpStep(o) PROVE IInv'
  BY <1>1, BeginOpKeeps, EndOpKeeps, WriteKeeps DEF OpStep
<1>2. ASSUME NEW o \in Ops, CommitStep(o) PROVE IInv'
  BY <1>2, CommitStartKeeps, WriteLogKeeps, WriteHeadKeeps, InstallKeeps, EraseKeeps,
     EndCommitKeeps DEF CommitStep
<1>3. ASSUME NEW b \in Blocks, Load(b) \/ Evict(b) PROVE IInv'
  BY <1>3, LoadKeeps, EvictKeeps
<1>4. CASE Recover
  BY <1>4, ReadHeadKeeps, RecoverInstallKeeps, RecoverDoneKeeps DEF Recover
<1>5. CASE Crash
  BY <1>5, CrashKeeps
<1>6. CASE UNCHANGED vars
  <2>. USE <1>6 DEF vars, diskVars, memVars, opVars
  <2>1. TypeOK' /\ CountInv' /\ CommitInv' /\ HeaderInv' /\ DownInv'
    BY DEF IInv, TypeOK, CountInv, CommitInv, HeaderInv, DownInv, Inside, Installing
  <2>2. TailInv' /\ PinInv' /\ CacheInv'
    BY DEF IInv, TailInv, PinInv, CacheInv, Installing
  <2>. QED BY <2>1, <2>2 DEF IInv
<1>. QED BY <1>1, <1>2, <1>3, <1>4, <1>5, <1>6 DEF Next

\* The inductive invariant holds in every reachable state.
THEOREM LogInductive == Spec => []IInv
  BY InitKeeps, NextKeeps, PTL DEF Spec

\* What log.c keeps in memory and on disk has its type.
THEOREM LogTypeOK == Spec => []TypeOK
  BY LogInductive, PTL DEF IInv

\* Whatever commits, crashes and evictions happen, the cache holds on to exactly
\* the logged blocks that are not installed yet: bpin() in log_write() and bunpin()
\* in install_trans() balance.
THEOREM LogPinsExact == Spec => []PinsExact
<1>1. IInv => PinsExact
  <2>. SUFFICES ASSUME IInv, mode = "up", NEW b \in Blocks
                PROVE  pins[b] = IF /\ Logged(lh, b)
                                    /\ (\A o \in Ops : pc[o] # "install") \/ Slot(lh, b) >= tail
                                 THEN 1 ELSE 0
    BY DEF PinsExact
  <2>1. ASSUME NEW i \in 1..Len(lh), lh[i] = b PROVE Slot(lh, b) = i
    BY <2>1, SlotOf DEF IInv, TypeOK, HeaderInv
  <2>2. Installing <=> ~ \A o \in Ops : pc[o] # "install"
    BY DEF Installing
  <2>. QED BY <2>1, <2>2 DEF IInv, PinInv, Logged
<1>. QED BY <1>1, LogInductive, PTL

\* When the disk's log is not in use, a crash would leave the home blocks.
LEMMA DurableIsHome ==
  ASSUME TypeOK, hdr = <<>>
  PROVE  Durable = home
  BY DEF Durable, Logged, TypeOK

\* The durable contents of logged and of other blocks
LEMMA DurableOf ==
  ASSUME IInv, NEW b \in Blocks
  PROVE  /\ \A i \in 1..Len(hdr) : hdr[i] = b => Durable[b] = logd[i]
         /\ ~ Logged(hdr, b) => Durable[b] = home[b]
<1>1. ASSUME NEW i \in 1..Len(hdr), hdr[i] = b PROVE Slot(hdr, b) = i
  BY <1>1, SlotOf DEF IInv, TypeOK, HeaderInv
<1>. QED BY <1>1 DEF Durable, Logged

\* end_op() of the last operation returns only when everything is on disk.
THEOREM LogSynchronous == Spec => []Synchronous
<1>1. IInv => Synchronous
  <2>. SUFFICES ASSUME IInv, mode = "up", outstanding = 0, ~ committing
                PROVE  Durable = Current
    BY DEF Synchronous
  <2>1. Inside = {}
    BY FS_EmptySet DEF IInv, CountInv
  <2>2. lh = <<>> /\ ~ Installing
    BY <2>1 DEF IInv, HeaderInv, CommitInv, CommitPCs, Installing
  <2>3. Durable = home
    BY <2>2, DurableIsHome DEF IInv, HeaderInv
  <2>4. \A b \in Blocks : Bread(b) = home[b]
    BY <2>2 DEF IInv, PinInv, CacheInv, Bread
  <2>. QED BY <2>3, <2>4 DEF Current, IInv, TypeOK
<1>. QED BY <1>1, LogInductive, PTL

-----------------------------------------------------------------------------
(* The refinement of TxDisk                                                *)

Active == {o \in Ops : pc[o] = "in"}

\* A step that touches neither the disk nor the mode leaves the durable version.
LEMMA SameDurable ==
  ASSUME UNCHANGED diskVars
  PROVE  Durable' = Durable
  BY DEF Durable, Logged, Slot, diskVars

\* While the machine runs, the file system reads the cache, or the disk.
LEMMA SameCurrent ==
  ASSUME mode = "up", mode' = "up", \A b \in Blocks : Bread(b)' = Bread(b)
  PROVE  Current' = Current
  BY DEF Current

LEMMA Stutters ==
  ASSUME Durable' = Durable, Current' = Current, Active' = Active
  PROVE  UNCHANGED Abs!vars
  BY DEF Abs!vars, Active

\* A buffer holds what the disk holds, or what was logged since.
LEMMA BufferStutters ==
  ASSUME IInv, NEW b \in Blocks, Load(b) \/ Evict(b)
  PROVE  UNCHANGED Abs!vars
<1>. USE DEF IInv, Load, Evict, diskVars, opVars
<1>1. Durable' = Durable /\ Active' = Active
  BY SameDurable DEF Active
<1>2. \A c \in Blocks : Bread(c)' = Bread(c)
  BY LogAssumption DEF Bread, CacheInv, TypeOK
<1>. QED BY <1>1, <1>2, SameCurrent, Stutters

LEMMA BeginOpImplements ==
  ASSUME IInv, NEW o \in Ops, BeginOp(o)
  PROVE  Abs!Begin(o) \/ UNCHANGED Abs!vars
<1>. USE DEF IInv, BeginOp, diskVars, memVars, GoTo
<1>1. Durable' = Durable
  BY SameDurable
<1>2. Current' = Current
  BY SameCurrent DEF Bread
<1>3. CASE MustWait
  <2>1. Active' = Active
    BY <1>3 DEF Active, TypeOK
  <2>. QED BY <1>1, <1>2, <2>1, Stutters
<1>4. CASE ~ MustWait
  <2>1. Active' = Active \cup {o} /\ o \notin Active
    BY <1>4 DEF Active, TypeOK
  <2>. QED BY <1>1, <1>2, <2>1 DEF Abs!Begin, Active
<1>. QED BY <1>3, <1>4

LEMMA WriteImplements ==
  ASSUME IInv, NEW o \in Ops, NEW b \in Blocks, NEW v \in Vals, Write(o, b, v)
  PROVE  Abs!Write(o, b, v) \/ Abs!End(o)
<1>. USE DEF IInv, Write, diskVars, GoTo
<1>1. Durable' = Durable
  BY SameDurable
<1>2. CASE Len(lh) >= LOGSIZE \/ Len(lh) >= NLog - 1 \/ outstanding < 1
  <2>1. Current' = Current
    BY <1>2, SameCurrent DEF Bread
  <2>2. Active' = Active \ {o} /\ o \in Active
    BY <1>2 DEF Active, TypeOK
  <2>. QED BY <1>1, <2>1, <2>2 DEF Abs!End, Active
<1>3. CASE ~ (Len(lh) >= LOGSIZE \/ Len(lh) >= NLog - 1 \/ outstanding < 1)
  <2>1. cache' = [cache EXCEPT ![b] = v]
    BY <1>3
  <2>2. Bread(b)' = v /\ \A c \in Blocks \ {b} : Bread(c)' = Bread(c)
    BY <2>1, LogAssumption DEF Bread, TypeOK
  <2>3. Current' = [Current EXCEPT ![b] = v]
    BY <2>2 DEF Current
  <2>4. Active' = Active /\ o \in Active
    BY <1>3 DEF Active
  <2>. QED BY <1>1, <2>3, <2>4 DEF Abs!Write, Active
<1>. QED BY <1>2, <1>3

LEMMA EndOpImplements ==
  ASSUME IInv, NEW o \in Ops, EndOp(o)
  PROVE  Abs!End(o)
<1>. USE DEF IInv, EndOp, diskVars, memVars
<1>1. Durable' = Durable
  BY SameDurable
<1>2. Current' = Current
  BY SameCurrent DEF Bread
<1>3. Active' = Active \ {o} /\ o \in Active
  BY DEF Active, TypeOK, GoTo, WakeupAnd
<1>. QED BY <1>1, <1>2, <1>3 DEF Abs!End, Active

\* Until the header is written, and after the end of commit(), nothing changes.
LEMMA CommitStutters ==
  ASSUME IInv, NEW o \in Ops, CommitStart(o) \/ WriteLog(o) \/ EndCommit(o)
  PROVE  UNCHANGED Abs!vars
<1>. USE DEF IInv, CommitStart, WriteLog, EndCommit, diskVars, memVars, opVars
<1>1. hdr = <<>> /\ hdr' = hdr /\ home' = home
  BY DEF HeaderInv, Installing, CommitInv, CommitPCs
<1>2. Durable' = Durable
  BY <1>1 DEF Durable, Logged
<1>3. Current' = Current
  BY SameCurrent DEF Bread
<1>4. Active' = Active
  BY DEF Active, TypeOK, GoTo, WakeupAnd
<1>. QED BY <1>2, <1>3, <1>4, Stutters

\* write_head() makes everything durable at once, with no operation under way.
LEMMA WriteHeadImplements ==
  ASSUME IInv, NEW o \in Ops, WriteHead(o)
  PROVE  Abs!Commit
<1>. USE DEF IInv, WriteHead, diskVars, memVars
<1>1. Active = {} /\ Active' = {} /\ ~ Installing
  BY DEF Active, Inside, CommitInv, CommitPCs, Installing, TypeOK, GoTo
<1>2. Current' = Current
  BY SameCurrent DEF Bread
<1>3. ASSUME NEW b \in Blocks PROVE Durable'[b] = Bread(b)
  <2>1. CASE Logged(lh, b)
    <3>1. PICK i \in 1..Len(lh) : lh[i] = b
      BY <2>1 DEF Logged
    <3>2. Slot(lh, b) = i
      BY <3>1, SlotOf DEF TypeOK, HeaderInv
    <3>3. logd[i] = cache[b] /\ pins[b] = 1 /\ cache[b] # NotCached
      BY <1>1, <3>1 DEF TailInv, PinInv, CacheInv, TypeOK
    <3>. QED BY <2>1, <3>2, <3>3 DEF Durable, Bread, Logged, Slot
  <2>2. CASE ~ Logged(lh, b)
    BY <1>1, <2>2 DEF Durable, Bread, Logged, PinInv, CacheInv
  <2>. QED BY <2>1, <2>2
<1>4. Durable' = Current
  BY <1>3 DEF Current, Durable
<1>. QED BY <1>1, <1>2, <1>4 DEF Abs!Commit, Active

\* Installing a block of the log on disk does not change what a crash would leave.
LEMMA InstallBlockDurable ==
  ASSUME IInv, mode = "install" \/ Installing, hdr = lh, tail <= Len(lh), InstallBlock(tail),
         UNCHANGED <<logd, hdr>>
  PROVE  Durable' = Durable
<1>1. lh[tail] \in Blocks /\ tail \in 1..Len(lh) /\ \A b \in Blocks \ {lh[tail]} : home'[b] = home[b]
  BY InstallBlockTypes
<1>2. \A b \in Blocks : ~ Logged(hdr, b) => home'[b] = home[b]
  BY <1>1 DEF Logged
<1>. QED BY <1>2 DEF Durable, Logged, Slot

LEMMA InstallStutters ==
  ASSUME IInv, NEW o \in Ops, Install(o)
  PROVE  UNCHANGED Abs!vars
<1>. USE DEF IInv, Install, opVars
<1>1. Installing /\ hdr = lh
  BY DEF Installing, HeaderInv
<1>2. Durable' = Durable
  BY <1>1, InstallBlockDurable
<1>3. /\ tail \in 1..Len(lh) /\ lh[tail] \in Blocks /\ logd[tail] \in Vals
      /\ cache'[lh[tail]] = logd[tail]
      /\ \A b \in Blocks \ {lh[tail]} : home'[b] = home[b] /\ cache'[b] = cache[b]
  BY <1>1, InstallBlockTypes
<1>4. cache[lh[tail]] = logd[tail]
  <2>1. \A i \in 1..Len(lh) : i >= tail => cache[lh[i]] = logd[i]
    BY <1>1 DEF TailInv
  <2>2. tail >= tail
    BY DEF TypeOK
  <2>. QED BY <1>3, <2>1, <2>2
<1>5. \A b \in Blocks : Bread(b)' = Bread(b)
  BY <1>3, <1>4, LogAssumption DEF Bread
<1>6. Active' = Active
  BY DEF Active
<1>. QED BY <1>2, <1>5, <1>6, SameCurrent, Stutters

\* Once every block is installed, the log on disk is not needed any more.
LEMMA InstalledIsDurable ==
  ASSUME IInv, mode = "install" \/ Installing, hdr = lh, tail > Len(lh)
  PROVE  Durable = home
<1>1. ASSUME NEW b \in Blocks PROVE Durable[b] = home[b]
  <2>1. CASE Logged(hdr, b)
    <3>1. PICK i \in 1..Len(hdr) : hdr[i] = b
      BY <2>1 DEF Logged
    <3>2. Durable[b] = logd[i]
      BY <3>1, DurableOf
    <3>3. home[b] = logd[i]
      BY <3>1 DEF IInv, TailInv, TypeOK
    <3>. QED BY <3>2, <3>3
  <2>2. CASE ~ Logged(hdr, b)
    BY <2>2, DurableOf
  <2>. QED BY <2>1, <2>2
<1>. QED BY <1>1 DEF Durable, IInv, TypeOK

LEMMA EraseStutters ==
  ASSUME IInv, NEW o \in Ops, Erase(o)
  PROVE  UNCHANGED Abs!vars
<1>. USE DEF IInv, Erase
<1>1. Durable = home
  BY InstalledIsDurable DEF Installing, HeaderInv
<1>2. Durable' = home'
  BY DEF Durable, Logged, TypeOK
<1>3. Current' = Current
  BY SameCurrent DEF Bread
<1>4. Active' = Active
  BY DEF Active, TypeOK, GoTo
<1>. QED BY <1>1, <1>2, <1>3, <1>4, Stutters

\* A crash loses what is not committed; recovery, which may crash too, loses
\* nothing.
LEMMA CrashImplements ==
  ASSUME IInv, Crash
  PROVE  Abs!Crash
<1>1. Durable' = Durable
  BY SameDurable DEF Crash
<1>2. Current' = Durable' /\ Active' = {}
  BY DEF Crash, Current, Active
<1>. QED BY <1>1, <1>2 DEF Abs!Crash, Active

LEMMA RecoverStutters ==
  ASSUME IInv, Recover
  PROVE  UNCHANGED Abs!vars
<1>. USE DEF IInv, opVars, diskVars
<1>1. CASE ReadHead
  <2>1. Durable' = Durable
    BY <1>1, SameDurable DEF ReadHead
  <2>2. Current' = Current /\ Active' = Active
    BY <1>1, <2>1 DEF ReadHead, Current, Active
  <2>. QED BY <2>1, <2>2, Stutters
<1>2. CASE RecoverInstall
  <2>1. Durable' = Durable
    BY <1>2, InstallBlockDurable DEF RecoverInstall, HeaderInv
  <2>2. Current' = Current /\ Active' = Active
    BY <1>2, <2>1 DEF RecoverInstall, Current, Active
  <2>. QED BY <2>1, <2>2, Stutters
<1>3. CASE RecoverDone
  <2>1. Durable = home
    BY <1>3, InstalledIsDurable DEF RecoverDone, HeaderInv
  <2>2. Durable' = home'
    BY <1>3 DEF RecoverDone, Durable, Logged, TypeOK
  <2>3. \A b \in Blocks : Bread(b)' = home[b]
    BY <1>3 DEF RecoverDone, Bread, CacheInv, DownInv
  <2>4. Current = Durable /\ Current' = home
    BY <1>3, <2>3 DEF RecoverDone, Current, TypeOK
  <2>5. Active' = Active
    BY <1>3 DEF RecoverDone, Active
  <2>. QED BY <1>3, <2>1, <2>2, <2>4, <2>5, Stutters DEF RecoverDone
<1>. QED BY <1>1, <1>2, <1>3 DEF Recover

\* Whatever is written, committed, installed, crashed and recovered, and in
\* whatever order, log.c behaves as TxDisk: the durable version of the disk changes
\* in one step, to the current one, and only when no operation is under way.
THEOREM LogRefines == Spec => RefinesTxDisk
<1>1. Init => Abs!Init
  <2>. SUFFICES ASSUME Init PROVE Abs!Init
    OBVIOUS
  <2>1. Durable = [b \in Blocks |-> InitVal]
    BY DEF Init, Durable, Logged
  <2>2. Current = Durable /\ Active = {}
    BY DEF Init, Current, Active
  <2>. QED BY <2>1, <2>2 DEF Abs!Init, Active
<1>2. IInv /\ [Next]_vars => [Abs!Next]_(Abs!vars)
  <2>. SUFFICES ASSUME IInv, [Next]_vars PROVE Abs!Next \/ UNCHANGED Abs!vars
    OBVIOUS
  <2>1. ASSUME NEW o \in Ops, OpStep(o) PROVE Abs!Next \/ UNCHANGED Abs!vars
    BY <2>1, BeginOpImplements, EndOpImplements, WriteImplements DEF OpStep, Abs!Next
  <2>2. ASSUME NEW o \in Ops, CommitStep(o) PROVE Abs!Next \/ UNCHANGED Abs!vars
    BY <2>2, CommitStutters, WriteHeadImplements, InstallStutters, EraseStutters
    DEF CommitStep, Abs!Next
  <2>3. CASE UNCHANGED vars
    <3>1. Durable' = Durable
      BY <2>3, SameDurable DEF vars
    <3>2. Current' = Current /\ Active' = Active
      BY <2>3, <3>1 DEF vars, diskVars, memVars, opVars, Current, Bread, Active
    <3>. QED BY <3>1, <3>2, Stutters
  <2>. QED BY <2>1, <2>2, <2>3, BufferStutters, RecoverStutters, CrashImplements DEF Next, Abs!Next
<1>. QED BY <1>1, <1>2, LogInductive, PTL DEF Spec, RefinesTxDisk, Abs!Spec

-----------------------------------------------------------------------------
(* The space that begin_op() reserves.  An operation that has logged k       *)
(* blocks is still entitled to MAXOPBLOCKS - k more: the set Reserve has one *)
(* element for each of them, so that no sum over the operations is needed.   *)

Reserve == {r \in Active \X (1..MAXOPBLOCKS) : r[2] > Cardinality(wrote[r[1]])}

SpaceInv ==
    /\ NoPanic
    /\ \A o \in Ops : /\ IsFiniteSet(wrote[o])
                      /\ pc[o] # "in" => wrote[o] = {}
                      /\ Cardinality(wrote[o]) <= OpBlocks
                      /\ \A b \in wrote[o] : Logged(lh, b)
    /\ IsFiniteSet(Reserve) /\ Len(lh) + Cardinality(Reserve) <= LOGSIZE

LEMMA ReserveBound ==
  ASSUME NEW A, IsFiniteSet(A), NEW R \in SUBSET (A \X (1..MAXOPBLOCKS))
  PROVE  IsFiniteSet(R) /\ Cardinality(R) <= Cardinality(A) * MAXOPBLOCKS
<1>1. IsFiniteSet(1..MAXOPBLOCKS) /\ Cardinality(1..MAXOPBLOCKS) = MAXOPBLOCKS
  BY FS_Interval, LogAssumption
<1>2. /\ IsFiniteSet(A \X (1..MAXOPBLOCKS))
      /\ Cardinality(A \X (1..MAXOPBLOCKS)) = Cardinality(A) * MAXOPBLOCKS
  BY <1>1, FS_Product
<1>. QED BY <1>2, FS_Subset

\* Who is in Reserve
LEMMA InReserve ==
  ASSUME NEW o \in Active, NEW k \in 1..MAXOPBLOCKS
  PROVE  <<o, k>> \in Reserve <=> k > Cardinality(wrote[o])
  BY DEF Reserve

\* A step that leaves alone what operations have logged
LEMMA SpaceKept ==
  ASSUME SpaceInv, Active' = Active, NoPanic', UNCHANGED <<lh, wrote>>
  PROVE  SpaceInv'
<1>1. Reserve' = Reserve
  BY DEF Reserve
<1>2. \A o \in Ops : pc'[o] = "in" <=> pc[o] = "in"
  BY DEF Active
<1>. QED BY <1>1, <1>2 DEF SpaceInv, Logged

\* A step after which nobody is inside
LEMMA SpaceEmpty ==
  ASSUME Active' = {}, NoPanic', \A o \in Ops : wrote'[o] = {}, Len(lh') \in 0..LOGSIZE
  PROVE  SpaceInv'
<1>1. Reserve' = {}
  BY DEF Reserve
<1>2. IsFiniteSet({}) /\ Cardinality({}) = 0
  BY FS_EmptySet
<1>3. Len(lh') + 0 <= LOGSIZE /\ 0 <= OpBlocks
  BY LogAssumption
<1>4. IsFiniteSet(Reserve') /\ Len(lh') + Cardinality(Reserve') <= LOGSIZE
  BY <1>1, <1>2, <1>3
<1>5. ASSUME NEW o \in Ops
      PROVE  /\ IsFiniteSet(wrote'[o]) /\ Cardinality(wrote'[o]) <= OpBlocks
             /\ pc'[o] # "in" => wrote'[o] = {}
             /\ \A b \in wrote'[o] : Logged(lh', b)
  <2>1. wrote'[o] = {}
    OBVIOUS
  <2>. QED BY <1>2, <1>3, <2>1
<1>. QED BY <1>4, <1>5 DEF SpaceInv

LEMMA BeginOpSpace ==
  ASSUME IInv, SpaceInv, NEW o \in Ops, BeginOp(o)
  PROVE  SpaceInv'
<1>. USE DEF IInv, BeginOp, diskVars, memVars, GoTo
<1>1. NoPanic'
  BY DEF SpaceInv, NoPanic, TypeOK
<1>2. CASE MustWait
  <2>1. Active' = Active
    BY <1>2 DEF Active, TypeOK
  <2>. QED BY <1>1, <2>1, SpaceKept
<1>3. CASE ~ MustWait
  <2>1. Active' = Active \cup {o} /\ o \notin Active /\ Active = Inside
    BY <1>3 DEF Active, Inside, TypeOK, SpaceInv, NoPanic
  <2>2. IsFiniteSet(Active') /\ Cardinality(Active') = outstanding + 1
    BY <2>1, FS_AddElement DEF CountInv
  <2>3. Reserve' \in SUBSET (Active' \X (1..MAXOPBLOCKS))
    BY DEF Reserve
  <2>4. IsFiniteSet(Reserve') /\ Cardinality(Reserve') <= (outstanding + 1) * MAXOPBLOCKS
    BY <2>2, <2>3, ReserveBound
  <2>5. Len(lh) + (outstanding + 1) * MAXOPBLOCKS <= LOGSIZE
    BY <1>3, LogAssumption DEF MustWait, TypeOK
  <2>6. Cardinality(Reserve') \in Nat /\ (outstanding + 1) * MAXOPBLOCKS \in Nat /\ Len(lh) \in Nat
    BY <2>4, FS_CardinalityType, LogAssumption DEF TypeOK
  <2>7. Len(lh) + Cardinality(Reserve') <= LOGSIZE
    BY <2>4, <2>5, <2>6, LogAssumption
  <2>8. \A x \in Ops : pc'[x] # "in" => pc[x] # "in"
    BY <1>3 DEF TypeOK
  <2>. QED BY <1>1, <2>4, <2>7, <2>8 DEF SpaceInv, Logged
<1>. QED BY <1>2, <1>3

\* The room begin_op() asked for is there when log_write() needs it.
LEMMA WriteSpace ==
  ASSUME OpBlocks < MAXOPBLOCKS,
         IInv, SpaceInv, NEW o \in Ops, NEW b \in Blocks, NEW v \in Vals, Write(o, b, v)
  PROVE  SpaceInv'
<1>. USE DEF IInv, Write, diskVars, GoTo
<1>. DEFINE n == Cardinality(wrote[o])
<1>1. o \in Active /\ n \in Nat /\ n <= OpBlocks /\ Len(lh) \in Nat
  BY FS_CardinalityType DEF Active, SpaceInv, TypeOK
<1>2. IsFiniteSet(Reserve) /\ Cardinality(Reserve) \in Nat
  BY FS_CardinalityType DEF SpaceInv
<1>3. <<o, MAXOPBLOCKS>> \in Reserve
  BY <1>1, InReserve, LogAssumption
<1>4. Cardinality(Reserve) # 0
  BY <1>2, <1>3, FS_EmptySet
<1>5. outstanding # 0
  <2>1. o \in Inside
    BY DEF Inside
  <2>. QED BY <2>1, FS_EmptySet DEF CountInv
<1>6. ~ (Len(lh) >= LOGSIZE \/ Len(lh) >= NLog - 1 \/ outstanding < 1)
  <2>1. Len(lh) < LOGSIZE
    BY <1>1, <1>2, <1>4, LogAssumption DEF SpaceInv
  <2>. QED BY <1>1, <1>5, <2>1, LogAssumption DEF TypeOK
<1>7. UNCHANGED pc /\ LogWrite(b) /\ wrote' = [wrote EXCEPT ![o] = @ \cup {b}]
  BY <1>6
<1>8. Active' = Active /\ NoPanic'
  BY <1>7 DEF Active, SpaceInv, NoPanic
<1>9. CASE b \in wrote[o]
  <2>1. UNCHANGED lh
    BY <1>7, <1>9 DEF SpaceInv, LogWrite
  <2>2. wrote[o] \cup {b} = wrote[o]
    BY <1>9
  <2>3. wrote' = wrote
    BY <1>7, <2>2 DEF TypeOK
  <2>. QED BY <1>8, <2>1, <2>3, SpaceKept
<1>10. CASE b \notin wrote[o]
  <2>1. /\ wrote'[o] = wrote[o] \cup {b}
        /\ \A x \in Ops \ {o} : wrote'[x] = wrote[x]
    BY <1>7 DEF TypeOK
  <2>2. IsFiniteSet(wrote'[o]) /\ Cardinality(wrote'[o]) = n + 1 /\ n + 1 <= OpBlocks
    <3>1. IsFiniteSet(wrote[o])
      BY DEF SpaceInv
    <3>2. IsFiniteSet(wrote[o] \cup {b}) /\ Cardinality(wrote[o] \cup {b}) = n + 1
      BY <1>10, <3>1, FS_AddElement
    <3>. QED BY <2>1, <3>2
  <2>3. <<o, n + 1>> \in Reserve
    BY <1>1, <2>2, InReserve, LogAssumption
  <2>4. Reserve' = Reserve \ {<<o, n + 1>>}
    <3>1. ASSUME NEW x \in Active, NEW k \in 1..MAXOPBLOCKS
          PROVE  k > Cardinality(wrote'[x]) <=> k > Cardinality(wrote[x]) /\ <<x, k>> # <<o, n + 1>>
      <4>1. CASE x = o
        BY <1>1, <2>2, <4>1
      <4>2. CASE x # o
        BY <2>1, <4>2 DEF Active
      <4>. QED BY <4>1, <4>2
    <3>2. \A r \in Active \X (1..MAXOPBLOCKS) : r = <<r[1], r[2]>> /\ r[1] \in Active /\ r[2] \in 1..MAXOPBLOCKS
      OBVIOUS
    <3>3. ASSUME NEW r \in Active \X (1..MAXOPBLOCKS)
          PROVE  r[2] > Cardinality(wrote'[r[1]]) <=> r[2] > Cardinality(wrote[r[1]]) /\ r # <<o, n + 1>>
      <4>1. r = <<r[1], r[2]>> /\ r[1] \in Active /\ r[2] \in 1..MAXOPBLOCKS
        BY <3>2
      <4>. QED BY <3>1, <4>1
    <3>4. Reserve' = {r \in Active \X (1..MAXOPBLOCKS) : r[2] > Cardinality(wrote'[r[1]])}
      BY <1>8 DEF Reserve
    <3>. QED BY <3>3, <3>4 DEF Reserve
  <2>5. IsFiniteSet(Reserve') /\ Cardinality(Reserve') = Cardinality(Reserve) - 1
    BY <1>2, <2>3, <2>4, FS_RemoveElement
  <2>6. Len(lh') <= Len(lh) + 1 /\ Len(lh') \in Nat
    BY <1>7, <1>1, AppendInj DEF LogWrite, TypeOK, HeaderInv
  <2>7. Len(lh') + Cardinality(Reserve') <= LOGSIZE
    BY <1>1, <1>2, <2>5, <2>6, LogAssumption DEF SpaceInv
  <2>8. Logged(lh', b) /\ \A c \in Blocks : Logged(lh, c) => Logged(lh', c)
    <3>1. CASE Logged(lh, b)
      BY <1>7, <3>1 DEF LogWrite, Logged
    <3>2. CASE ~ Logged(lh, b)
      <4>1. /\ Len(lh') = Len(lh) + 1 /\ lh'[Len(lh) + 1] = b
            /\ \A i \in 1..Len(lh) : lh'[i] = lh[i]
        <5>1. lh' = Append(lh, b)
          BY <1>7, <3>2 DEF LogWrite
        <5>. QED BY <3>2, <5>1, AppendInj DEF TypeOK, HeaderInv
      <4>. QED BY <1>1, <4>1 DEF Logged
    <3>. QED BY <3>1, <3>2
  <2>9. ASSUME NEW x \in Ops
        PROVE  /\ IsFiniteSet(wrote'[x]) /\ Cardinality(wrote'[x]) <= OpBlocks
               /\ pc'[x] # "in" => wrote'[x] = {}
               /\ \A c \in wrote'[x] : Logged(lh', c)
    <3>1. CASE x = o
      BY <1>7, <2>1, <2>2, <2>8, <3>1 DEF SpaceInv, TypeOK
    <3>2. CASE x # o
      BY <1>7, <2>1, <2>8, <3>2 DEF SpaceInv, TypeOK
    <3>. QED BY <3>1, <3>2
  <2>. QED BY <1>8, <2>5, <2>7, <2>9 DEF SpaceInv
<1>. QED BY <1>9, <1>10

LEMMA EndOpSpace ==
  ASSUME IInv, SpaceInv, NEW o \in Ops, EndOp(o)
  PROVE  SpaceInv'
<1>. USE DEF IInv, EndOp, diskVars, memVars
<1>1. ~ committing
  BY DEF Inside, CommitInv
<1>2. NoPanic' /\ \A x \in Ops : pc'[x] = "in" <=> pc[x] = "in" /\ x # o
  BY <1>1 DEF SpaceInv, NoPanic, TypeOK, GoTo, WakeupAnd
<1>3. wrote'[o] = {} /\ \A x \in Ops \ {o} : wrote'[x] = wrote[x]
  BY DEF TypeOK
<1>4. Reserve' \subseteq Reserve
  <2>1. \A x \in Active' : x \in Active /\ wrote'[x] = wrote[x]
    BY <1>2, <1>3 DEF Active
  <2>. QED BY <2>1 DEF Reserve
<1>5. IsFiniteSet(Reserve') /\ Cardinality(Reserve') <= Cardinality(Reserve)
  BY <1>4, FS_Subset DEF SpaceInv
<1>6. Len(lh) + Cardinality(Reserve') <= LOGSIZE
  <2>1. Cardinality(Reserve') \in Nat /\ Cardinality(Reserve) \in Nat /\ Len(lh) \in Nat
    BY <1>5, FS_CardinalityType DEF SpaceInv, TypeOK
  <2>. QED BY <1>5, <2>1, LogAssumption DEF SpaceInv
<1>7. ASSUME NEW x \in Ops
      PROVE  /\ IsFiniteSet(wrote'[x]) /\ Cardinality(wrote'[x]) <= OpBlocks
             /\ pc'[x] # "in" => wrote'[x] = {}
             /\ \A c \in wrote'[x] : Logged(lh', c)
  <2>1. CASE x = o
    BY <1>3, <2>1, FS_EmptySet, LogAssumption
  <2>2. CASE x # o
    BY <1>2, <1>3, <2>2 DEF SpaceInv, Logged
  <2>. QED BY <2>1, <2>2
<1>. QED BY <1>2, <1>5, <1>6, <1>7 DEF SpaceInv

\* Only the operations that have begun matter, so a commit and what follows a
\* crash leave the reservations alone.
LEMMA CommitSpace ==
  ASSUME IInv, IInv', SpaceInv, NEW o \in Ops, CommitStep(o)
  PROVE  SpaceInv'
<1>. USE DEF IInv, CommitStep, CommitStart, WriteLog, WriteHead, Install, Erase, EndCommit,
             memVars, opVars
<1>1. NoPanic'
  BY DEF SpaceInv, NoPanic, TypeOK, GoTo, WakeupAnd
<1>2. Active' = {} /\ Active = {}
  BY DEF CommitInv, CommitPCs, Active, Inside, TypeOK, GoTo, WakeupAnd
<1>3. \A x \in Ops : wrote'[x] = {}
  BY <1>2 DEF SpaceInv, Active
<1>4. Len(lh') \in 0..LOGSIZE
  BY LogAssumption DEF TypeOK, HeaderInv
<1>. QED BY <1>1, <1>2, <1>3, <1>4, SpaceEmpty

LEMMA CrashSpace ==
  ASSUME IInv, IInv', SpaceInv, Recover \/ Crash
  PROVE  SpaceInv'
<1>. USE DEF IInv, Recover, ReadHead, RecoverInstall, RecoverDone, Crash, opVars
<1>1. \A x \in Ops : pc'[x] = "idle"
  BY DEF DownInv
<1>2. NoPanic' /\ Active' = {}
  BY <1>1 DEF NoPanic, Active
<1>3. \A x \in Ops : wrote'[x] = {}
  BY DEF SpaceInv, DownInv
<1>4. Len(lh') \in 0..LOGSIZE
  BY LogAssumption DEF TypeOK, HeaderInv
<1>. QED BY <1>2, <1>3, <1>4, SpaceEmpty

\* Neither log_write() nor end_op() panics, for any number of operations and any
\* size of the log, as long as no operation logs as many blocks as begin_op()
\* reserves for it; with the other invariants this is LogInv.
THEOREM LogSafe ==
  ASSUME OpBlocks < MAXOPBLOCKS
  PROVE  Spec => []LogInv
<1>1. Init => SpaceInv
  <2>. SUFFICES ASSUME Init PROVE SpaceInv
    OBVIOUS
  <2>1. NoPanic /\ Active = {} /\ \A o \in Ops : wrote[o] = {}
    BY DEF Init, NoPanic, Active
  <2>2. Reserve = {}
    BY <2>1 DEF Reserve
  <2>. QED BY <2>1, <2>2, FS_EmptySet, LogAssumption DEF SpaceInv, Init
<1>2. IInv /\ IInv' /\ SpaceInv /\ [Next]_vars => SpaceInv'
  <2>. SUFFICES ASSUME IInv, IInv', SpaceInv, [Next]_vars PROVE SpaceInv'
    OBVIOUS
  <2>1. ASSUME NEW o \in Ops, OpStep(o) PROVE SpaceInv'
    BY <2>1, BeginOpSpace, EndOpSpace, WriteSpace DEF OpStep
  <2>2. CASE \E b \in Blocks : Load(b) \/ Evict(b)
    <3>1. Active' = Active /\ NoPanic' /\ UNCHANGED <<lh, wrote>>
      BY <2>2 DEF Load, Evict, opVars, Active, NoPanic, SpaceInv
    <3>. QED BY <3>1, SpaceKept
  <2>3. CASE UNCHANGED vars
    <3>1. Active' = Active /\ NoPanic' /\ UNCHANGED <<lh, wrote>>
      BY <2>3 DEF vars, memVars, opVars, Active, NoPanic, SpaceInv
    <3>. QED BY <3>1, SpaceKept
  <2>. QED BY <2>1, <2>2, <2>3, CommitSpace, CrashSpace DEF Next
<1>3. Spec => []SpaceInv
  BY <1>1, <1>2, LogInductive, PTL DEF Spec
<1>4. TypeOK /\ SpaceInv /\ PinsExact /\ Synchronous => LogInv
  BY DEF SpaceInv, LogInv
<1>. QED BY <1>3, <1>4, LogTypeOK, LogPinsExact, LogSynchronous, PTL
=============================================================================
