----------------------------- MODULE PipeProofs -----------------------------
(***************************************************************************)
(* TLAPS proofs about Pipe, for any number of processes, any size of the   *)
(* ring and any counter width that is a multiple of it: its safety         *)
(* invariant, and that it implements Fifo.                                 *)
(*                                                                         *)
(* The argument.  Whoever is past acquire(&pi->lock) is the holder of      *)
(* pi->lock (LockInv), and a process in a call has the end that it uses    *)
(* open, so that the flags say who may still come (EndInv).  What a        *)
(* process saw before it goes to sleep is still so when it sleeps          *)
(* (SleepInv).  The number of bytes in the ring never exceeds its size     *)
(* (RingInv), hence nwrite - nread tells full from empty although both     *)
(* wrap.                                                                   *)
(*                                                                         *)
(* The second part is about File, the descriptors through which processes  *)
(* use a pipe, and the third about Names, the files that have one.         *)
(***************************************************************************)
EXTENDS Pipe, FileSystem, RingArithmetic, SequenceTheorems, FiniteSetTheorems, WellFoundedInduction

HoldPCs == {"write_loop", "write_full", "read_wait", "read_empty", "read_loop"}
Used == (nwrite - nread) % CntMod

LockInv == \A p \in Procs : lock = p <=> pc[p] \in HoldPCs

EndInv ==
    /\ readopen <=> rd # {}
    /\ writeopen <=> wr # {}
    /\ freed => ~ readopen /\ ~ writeopen
    /\ \A p \in Procs : /\ pc[p] \in WritePCs => p \in wr
                        /\ pc[p] \in ReadPCs => p \in rd

RingInv == Used <= PIPESIZE

SleepInv ==
    /\ \A p \in Procs : pc[p] = "write_full" =>
          Full /\ readopen /\ \A q \in Procs : pc[q] # "read_asleep"
    /\ \A p \in Procs : pc[p] = "read_empty" => Empty /\ writeopen

IInv == TypeOK /\ LockInv /\ EndInv /\ RingInv /\ SleepInv /\ WriterNotStuck /\ ReaderNotStuck

-----------------------------------------------------------------------------
(* The ring                                                                *)

LEMMA Sizes == CntMod \in Nat \ {0} /\ PIPESIZE \in 1..CntMod - 1 /\ MaxN \in Nat
  BY PipeAssumption

\* The counters tell full from empty.
LEMMA UsedFacts ==
  ASSUME NEW w \in 0..CntMod - 1, NEW n \in 0..CntMod - 1
  PROVE  /\ (w - n) % CntMod \in 0..CntMod - 1
         /\ n = w <=> (w - n) % CntMod = 0
         /\ w = (n + PIPESIZE) % CntMod <=> (w - n) % CntMod = PIPESIZE
<1>1. CntMod \in Nat \ {0} /\ PIPESIZE \in 0..CntMod
  BY PipeAssumption
<1>2. (w - n) % CntMod = IF w >= n THEN w - n ELSE w - n + CntMod
  BY <1>1, RingDistance
<1>3. (n + PIPESIZE) % CntMod = IF n + PIPESIZE < CntMod THEN n + PIPESIZE ELSE n + PIPESIZE - CntMod
  BY <1>1, RingStep
<1>4. PIPESIZE \in 1..CntMod - 1
  BY PipeAssumption
<1>5. \A u, f \in Int : /\ u = (IF w >= n THEN w - n ELSE w - n + CntMod)
                        /\ f = (IF n + PIPESIZE < CntMod THEN n + PIPESIZE
                                ELSE n + PIPESIZE - CntMod)
                        => /\ u \in 0..CntMod - 1
                           /\ n = w <=> u = 0
                           /\ w = f <=> u = PIPESIZE
  BY <1>1, <1>4
<1>. QED BY <1>1, <1>2, <1>3, <1>5

-----------------------------------------------------------------------------
(* Init, and steps that touch neither the ring nor the ends                *)

LEMMA InitKeeps == Init => IInv
<1>. SUFFICES ASSUME Init PROVE IInv
  OBVIOUS
<1>. USE PipeAssumption DEF Init
<1>1. TypeOK
  <2>1. {readopen, writeopen, freed} \subseteq BOOLEAN /\ killed \in [Procs -> BOOLEAN]
    BY Zenon
  <2>2. /\ {nread, nwrite} \subseteq 0..CntMod - 1 /\ left \in [Procs -> 0..MaxN]
        /\ pc \in [Procs -> PCs] /\ lock \in Procs \cup {Nobody}
    BY DEF PCs
  <2>. QED BY <2>1, <2>2 DEF TypeOK
<1>2. LockInv /\ EndInv /\ SleepInv /\ WriterNotStuck /\ ReaderNotStuck
  BY DEF LockInv, HoldPCs, EndInv, WritePCs, ReadPCs, SleepInv, WriterNotStuck, ReaderNotStuck
<1>3. RingInv
  BY UsedFacts DEF RingInv, Used
<1>. QED BY <1>1, <1>2, <1>3 DEF IInv

\* RingInv depends on the ring alone.
LEMMA SameRing ==
  ASSUME UNCHANGED ringVars
  PROVE  (RingInv => RingInv') /\ Empty' = Empty /\ Full' = Full
  BY DEF ringVars, RingInv, Used, Empty, Full

LEMMA LockKeeps ==
  ASSUME IInv, NEW p \in Procs, Lock(p)
  PROVE  IInv'
<1>. USE DEF IInv, Lock, GoTo, endVars
<1>1. RingInv' /\ Empty' = Empty /\ Full' = Full
  BY SameRing
<1>2. /\ pc'[p] = IF pc[p] = "write" THEN "write_loop" ELSE "read_wait"
      /\ pc' \in [Procs -> PCs]
      /\ \A q \in Procs \ {p} : pc'[q] = pc[q]
  BY DEF TypeOK, PCs, WritePCs, ReadPCs
<1>3. TypeOK'
  BY <1>2 DEF TypeOK, ringVars
<1>4. LockInv'
  BY <1>2, PipeAssumption DEF LockInv, HoldPCs
<1>5. EndInv'
  BY <1>2 DEF EndInv, WritePCs, ReadPCs
<1>6. SleepInv' /\ WriterNotStuck' /\ ReaderNotStuck'
  BY <1>1, <1>2, PipeAssumption DEF SleepInv, WriterNotStuck, ReaderNotStuck
<1>. QED BY <1>1, <1>3, <1>4, <1>5, <1>6

LEMMA CallKeeps ==
  ASSUME IInv, NEW p \in Procs, NEW m \in 1..MaxN, CallWrite(p, m) \/ CallRead(p, m)
  PROVE  IInv'
<1>. USE DEF IInv, CallWrite, CallRead, GoTo, endVars
<1>1. RingInv' /\ Empty' = Empty /\ Full' = Full
  BY SameRing
<1>2. /\ pc'[p] \in {"write", "read"} /\ pc' \in [Procs -> PCs]
      /\ pc'[p] = "write" => p \in wr
      /\ pc'[p] = "read" => p \in rd
      /\ \A q \in Procs \ {p} : pc'[q] = pc[q]
  BY DEF TypeOK, PCs, WritePCs, ReadPCs
<1>3. TypeOK'
  <2>1. left' \in [Procs -> 0..MaxN]
    BY Sizes DEF TypeOK
  <2>. QED BY <1>2, <2>1 DEF TypeOK, ringVars
<1>4. LockInv'
  BY <1>2 DEF LockInv, HoldPCs
<1>5. EndInv'
  BY <1>2 DEF EndInv, WritePCs, ReadPCs
<1>6. SleepInv' /\ WriterNotStuck' /\ ReaderNotStuck'
  BY <1>1, <1>2 DEF SleepInv, WriterNotStuck, ReaderNotStuck, WritePCs
<1>. QED BY <1>1, <1>3, <1>4, <1>5, <1>6

-----------------------------------------------------------------------------
(* pipewrite()                                                             *)

\* A call that gives up has nobody to wake: its readers are gone, or it was
\* killed.
LEMMA WriteFailsKeeps ==
  ASSUME IInv, NEW p \in Procs, WriteFails(p)
  PROVE  IInv'
<1>. USE DEF IInv, WriteFails, GoTo, endVars
<1>1. RingInv' /\ Empty' = Empty /\ Full' = Full
  BY SameRing
<1>2. pc'[p] = "idle" /\ pc' \in [Procs -> PCs] /\ \A q \in Procs \ {p} : pc'[q] = pc[q]
  BY DEF TypeOK, PCs
<1>3. TypeOK'
  <2>1. left' \in [Procs -> 0..MaxN]
    BY Sizes DEF TypeOK
  <2>. QED BY <1>2, <2>1 DEF TypeOK, ringVars
<1>4. LockInv' /\ lock = p
  BY <1>2, PipeAssumption DEF LockInv, HoldPCs
<1>5. EndInv'
  BY <1>2 DEF EndInv, WritePCs, ReadPCs
<1>6. SleepInv' /\ WriterNotStuck'
  BY <1>1, <1>2, <1>4 DEF SleepInv, WriterNotStuck
<1>7. ReaderNotStuck'
  <2>1. CASE killed[p]
    BY <2>1 DEF ReaderNotStuck
  <2>2. CASE ~ readopen
    BY <1>2, <2>2 DEF ReaderNotStuck, EndInv, ReadPCs
  <2>. QED BY <2>1, <2>2
<1>. QED BY <1>1, <1>3, <1>4, <1>5, <1>6, <1>7

LEMMA WakeReadersKeeps ==
  ASSUME TypeOK, NEW p \in Procs, NEW label \in PCs, WakeReaders(p, label)
  PROVE  /\ pc' \in [Procs -> PCs] /\ pc'[p] = label
         /\ \A q \in Procs \ {p} : pc'[q] = IF pc[q] = "read_asleep" THEN "read" ELSE pc[q]
  BY DEF WakeReaders, TypeOK, PCs, ReadPCs

LEMMA WakeWritersKeeps ==
  ASSUME TypeOK, NEW p \in Procs, NEW label \in PCs, WakeWriters(p, label)
  PROVE  /\ pc' \in [Procs -> PCs] /\ pc'[p] = label
         /\ \A q \in Procs \ {p} : pc'[q] = IF pc[q] = "write_asleep" THEN "write" ELSE pc[q]
  BY DEF WakeWriters, TypeOK, PCs, WritePCs

LEMMA WriteFullKeeps ==
  ASSUME IInv, NEW p \in Procs, WriteFull(p)
  PROVE  IInv'
<1>. USE DEF IInv, WriteFull, endVars
<1>1. RingInv' /\ Empty' = Empty /\ Full' = Full
  BY SameRing
<1>2. /\ pc' \in [Procs -> PCs] /\ pc'[p] = "write_full"
      /\ \A q \in Procs \ {p} : pc'[q] = IF pc[q] = "read_asleep" THEN "read" ELSE pc[q]
  BY WakeReadersKeeps DEF PCs, WritePCs
<1>3. TypeOK'
  BY <1>2 DEF TypeOK, ringVars
<1>4. LockInv'
  BY <1>2 DEF LockInv, HoldPCs
<1>5. EndInv'
  BY <1>2 DEF EndInv, WritePCs, ReadPCs
<1>6. SleepInv' /\ WriterNotStuck' /\ ReaderNotStuck'
  BY <1>1, <1>2 DEF SleepInv, WriterNotStuck, ReaderNotStuck
<1>. QED BY <1>1, <1>3, <1>4, <1>5, <1>6

LEMMA WriteSleepKeeps ==
  ASSUME IInv, NEW p \in Procs, WriteSleep(p)
  PROVE  IInv'
<1>. USE DEF IInv, WriteSleep, GoTo, endVars
<1>1. RingInv' /\ Empty' = Empty /\ Full' = Full
  BY SameRing
<1>2. pc'[p] = "write_asleep" /\ pc' \in [Procs -> PCs] /\ \A q \in Procs \ {p} : pc'[q] = pc[q]
  BY DEF TypeOK, PCs, WritePCs
<1>3. TypeOK'
  BY <1>2 DEF TypeOK, ringVars
<1>4. LockInv' /\ lock = p
  BY <1>2, PipeAssumption DEF LockInv, HoldPCs
<1>5. EndInv'
  BY <1>2 DEF EndInv, WritePCs, ReadPCs
<1>6. SleepInv' /\ WriterNotStuck' /\ ReaderNotStuck'
  BY <1>1, <1>2, <1>4 DEF SleepInv, WriterNotStuck, ReaderNotStuck
<1>. QED BY <1>1, <1>3, <1>4, <1>5, <1>6

\* What a byte that comes, or goes, does to the counters
LEMMA ByteComes ==
  ASSUME TypeOK, RingInv, ~ Full, nwrite' = (nwrite + 1) % CntMod, UNCHANGED nread
  PROVE  Used' = Used + 1 /\ Used \in 0..PIPESIZE - 1 /\ nwrite' \in 0..CntMod - 1
<1>1. nwrite \in 0..CntMod - 1 /\ nread \in 0..CntMod - 1
  BY DEF TypeOK
<1>2. Used # PIPESIZE /\ Used \in 0..CntMod - 1
  BY <1>1, UsedFacts DEF Used, Full
<1>3. Used \in 0..PIPESIZE - 1 /\ Used # CntMod - 1
  BY <1>2, Sizes DEF RingInv
<1>4. (((nwrite + 1) % CntMod) - nread) % CntMod = Used + 1
  BY <1>1, <1>3, RingMoves, Sizes DEF Used
<1>5. (nwrite + 1) % CntMod \in 0..CntMod - 1
  BY <1>1, RingStep, Sizes
<1>6. Used' = (((nwrite + 1) % CntMod) - nread) % CntMod
  BY DEF Used
<1>. QED BY <1>3, <1>4, <1>5, <1>6

LEMMA ByteGoes ==
  ASSUME TypeOK, RingInv, ~ Empty, nread' = (nread + 1) % CntMod, UNCHANGED nwrite
  PROVE  Used' = Used - 1 /\ Used \in 1..PIPESIZE /\ nread' \in 0..CntMod - 1
<1>1. nwrite \in 0..CntMod - 1 /\ nread \in 0..CntMod - 1
  BY DEF TypeOK
<1>2. Used # 0 /\ Used \in 0..CntMod - 1
  BY <1>1, UsedFacts DEF Used, Empty
<1>3. Used \in 1..PIPESIZE
  BY <1>2, Sizes DEF RingInv
<1>4. (nwrite - ((nread + 1) % CntMod)) % CntMod = Used - 1
  BY <1>1, <1>2, RingMoves, Sizes DEF Used
<1>5. (nread + 1) % CntMod \in 0..CntMod - 1
  BY <1>1, RingStep, Sizes
<1>6. Used' = (nwrite - ((nread + 1) % CntMod)) % CntMod
  BY DEF Used
<1>. QED BY <1>3, <1>4, <1>5, <1>6

LEMMA WriteByteKeeps ==
  ASSUME IInv, NEW p \in Procs, NEW ch \in Bytes, WriteByte(p, ch)
  PROVE  IInv'
<1>. USE DEF IInv
<1>1. Used' = Used + 1 /\ Used \in 0..PIPESIZE - 1 /\ nwrite' \in 0..CntMod - 1
  BY ByteComes DEF WriteByte
<1>2. RingInv'
  BY <1>1, Sizes DEF RingInv
<1>3. TypeOK'
  <2>1. nwrite \in Int
    BY Sizes DEF TypeOK
  <2>2. nwrite % PIPESIZE \in 0..PIPESIZE - 1
    BY <2>1, DivMod, Sizes
  <2>3. data' \in [0..PIPESIZE - 1 -> Bytes]
    BY <2>2 DEF TypeOK, WriteByte
  <2>4. left[p] - 1 \in 0..MaxN
    BY Sizes DEF TypeOK, WriteByte
  <2>5. left' \in [Procs -> 0..MaxN]
    BY <2>4 DEF TypeOK, WriteByte
  <2>. QED BY <1>1, <2>3, <2>5 DEF TypeOK, WriteByte, endVars
<1>. USE DEF WriteByte, endVars
<1>4. LockInv' /\ EndInv' /\ lock = p
  BY DEF LockInv, HoldPCs, EndInv
<1>5. SleepInv'
  BY <1>4 DEF SleepInv, LockInv, HoldPCs
<1>6. WriterNotStuck' /\ ReaderNotStuck'
  BY <1>4 DEF WriterNotStuck, ReaderNotStuck, LockInv, HoldPCs, WritePCs
<1>. QED BY <1>2, <1>3, <1>4, <1>5, <1>6

LEMMA WriteDoneKeeps ==
  ASSUME IInv, NEW p \in Procs, WriteDone(p)
  PROVE  IInv'
<1>. USE DEF IInv, WriteDone, endVars
<1>1. RingInv' /\ Empty' = Empty /\ Full' = Full
  BY SameRing
<1>2. /\ pc' \in [Procs -> PCs] /\ pc'[p] = "idle"
      /\ \A q \in Procs \ {p} : pc'[q] = IF pc[q] = "read_asleep" THEN "read" ELSE pc[q]
  BY WakeReadersKeeps DEF PCs
<1>3. TypeOK'
  <2>1. left' \in [Procs -> 0..MaxN]
    BY Sizes DEF TypeOK
  <2>. QED BY <1>2, <2>1 DEF TypeOK, ringVars
<1>4. LockInv' /\ lock = p
  BY <1>2, PipeAssumption DEF LockInv, HoldPCs
<1>5. EndInv'
  BY <1>2 DEF EndInv, WritePCs, ReadPCs
<1>6. SleepInv' /\ WriterNotStuck' /\ ReaderNotStuck'
  BY <1>1, <1>2, <1>4 DEF SleepInv, WriterNotStuck, ReaderNotStuck
<1>. QED BY <1>1, <1>3, <1>4, <1>5, <1>6

-----------------------------------------------------------------------------
(* piperead()                                                              *)

LEMMA ReadWaitKeeps ==
  ASSUME IInv, NEW p \in Procs, ReadWait(p)
  PROVE  IInv'
<1>. USE DEF IInv, ReadWait, GoTo, endVars
<1>1. RingInv' /\ Empty' = Empty /\ Full' = Full
  BY SameRing
<1>2. /\ pc'[p] \in {"idle", "read_empty", "read_loop"} /\ pc' \in [Procs -> PCs]
      /\ pc'[p] = "idle" => lock' = Nobody
      /\ pc'[p] # "idle" => UNCHANGED lock
      /\ pc'[p] = "read_empty" => Empty /\ writeopen
      /\ \A q \in Procs \ {p} : pc'[q] = pc[q]
  BY DEF TypeOK, PCs, ReadPCs
<1>3. TypeOK'
  <2>1. left' \in [Procs -> 0..MaxN]
    BY Sizes DEF TypeOK
  <2>. QED BY <1>2, <2>1 DEF TypeOK, ringVars
<1>4. LockInv' /\ lock = p
  BY <1>2, PipeAssumption DEF LockInv, HoldPCs
<1>5. EndInv'
  BY <1>2 DEF EndInv, WritePCs, ReadPCs
<1>6. SleepInv' /\ WriterNotStuck' /\ ReaderNotStuck'
  BY <1>1, <1>2, <1>4 DEF SleepInv, WriterNotStuck, ReaderNotStuck, WritePCs
<1>. QED BY <1>1, <1>3, <1>4, <1>5, <1>6

LEMMA ReadSleepKeeps ==
  ASSUME IInv, NEW p \in Procs, ReadSleep(p)
  PROVE  IInv'
<1>. USE DEF IInv, ReadSleep, GoTo, endVars
<1>1. RingInv' /\ Empty' = Empty /\ Full' = Full
  BY SameRing
<1>2. pc'[p] = "read_asleep" /\ pc' \in [Procs -> PCs] /\ \A q \in Procs \ {p} : pc'[q] = pc[q]
  BY DEF TypeOK, PCs, ReadPCs
<1>3. TypeOK'
  BY <1>2 DEF TypeOK, ringVars
<1>4. LockInv' /\ lock = p
  BY <1>2, PipeAssumption DEF LockInv, HoldPCs
<1>5. EndInv'
  BY <1>2 DEF EndInv, WritePCs, ReadPCs
<1>6. \A q \in Procs : pc[q] # "write_full"
  BY <1>4 DEF LockInv, HoldPCs
<1>7. SleepInv' /\ WriterNotStuck' /\ ReaderNotStuck'
  BY <1>1, <1>2, <1>4, <1>6 DEF SleepInv, WriterNotStuck, ReaderNotStuck, WritePCs
<1>. QED BY <1>1, <1>3, <1>4, <1>5, <1>7

LEMMA ReadByteKeeps ==
  ASSUME IInv, NEW p \in Procs, NEW copied \in BOOLEAN, ReadByte(p, copied)
  PROVE  IInv'
<1>. USE DEF IInv
<1>3. Used' = Used - 1 /\ Used \in 1..PIPESIZE /\ nread' \in 0..CntMod - 1
  BY ByteGoes DEF ReadByte
<1>4. RingInv'
  BY <1>3, Sizes DEF RingInv
<1>. USE DEF ReadByte, endVars
<1>5. TypeOK'
  <2>1. left' \in [Procs -> 0..MaxN]
    BY Sizes DEF TypeOK
  <2>. QED BY <1>3, <2>1 DEF TypeOK
<1>6. LockInv' /\ EndInv' /\ lock = p
  BY DEF LockInv, HoldPCs, EndInv
<1>7. SleepInv'
  BY <1>6 DEF SleepInv, LockInv, HoldPCs
<1>8. WriterNotStuck'
  BY <1>6 DEF WriterNotStuck
<1>9. ReaderNotStuck'
  BY <1>6 DEF ReaderNotStuck, WritePCs
<1>. QED BY <1>4, <1>5, <1>6, <1>7, <1>8, <1>9

LEMMA ReadDoneKeeps ==
  ASSUME IInv, NEW p \in Procs, ReadDone(p)
  PROVE  IInv'
<1>. USE DEF IInv, ReadDone, endVars
<1>1. RingInv' /\ Empty' = Empty /\ Full' = Full
  BY SameRing
<1>2. /\ pc' \in [Procs -> PCs] /\ pc'[p] = "idle"
      /\ \A q \in Procs \ {p} : pc'[q] = IF pc[q] = "write_asleep" THEN "write" ELSE pc[q]
  BY WakeWritersKeeps DEF PCs
<1>3. TypeOK'
  <2>1. left' \in [Procs -> 0..MaxN]
    BY Sizes DEF TypeOK
  <2>. QED BY <1>2, <2>1 DEF TypeOK, ringVars
<1>4. LockInv' /\ lock = p
  BY <1>2, PipeAssumption DEF LockInv, HoldPCs
<1>5. EndInv'
  BY <1>2 DEF EndInv, WritePCs, ReadPCs
<1>6. SleepInv' /\ WriterNotStuck' /\ ReaderNotStuck'
  BY <1>1, <1>2, <1>4 DEF SleepInv, WriterNotStuck, ReaderNotStuck, WritePCs
<1>. QED BY <1>1, <1>3, <1>4, <1>5, <1>6

-----------------------------------------------------------------------------
(* Ends of the pipe                                                        *)

LEMMA ForkKeeps ==
  ASSUME IInv, NEW p \in Procs, NEW q \in Procs, Fork(p, q)
  PROVE  IInv'
<1>. USE DEF IInv, Fork
<1>1. RingInv' /\ Empty' = Empty /\ Full' = Full
  BY SameRing
<1>2. TypeOK'
  <2>1. rd' \in SUBSET Procs /\ wr' \in SUBSET Procs
    BY DEF TypeOK
  <2>. QED BY <2>1 DEF TypeOK, ringVars
<1>3. LockInv' /\ SleepInv' /\ WriterNotStuck' /\ ReaderNotStuck'
  BY <1>1 DEF LockInv, SleepInv, WriterNotStuck, ReaderNotStuck
<1>4. EndInv'
  BY DEF EndInv
<1>. QED BY <1>1, <1>2, <1>3, <1>4

\* The last write end is closed with the lock free: nobody is between a look at
\* the flags and its sleep().
LEMMA CloseWriteKeeps ==
  ASSUME IInv, NEW p \in Procs, NEW label \in {"idle", "exited"}, CloseWrite(p, label),
         pc[p] \in {"idle", "exited"}, UNCHANGED <<ringVars, lock, left, killed>>
  PROVE  IInv'
<1>. USE DEF IInv, CloseWrite
<1>1. RingInv' /\ Empty' = Empty /\ Full' = Full
  BY SameRing
<1>2. CASE wr = {p}
  <2>1. /\ pc' \in [Procs -> PCs] /\ pc'[p] = label
        /\ \A q \in Procs \ {p} : pc'[q] = IF pc[q] = "read_asleep" THEN "read" ELSE pc[q]
    BY <1>2, WakeReadersKeeps DEF PCs
  <2>2. wr' = {} /\ lock = Nobody /\ writeopen' = FALSE /\ freed' = (freed \/ ~ readopen)
    BY <1>2
  <2>3. TypeOK'
    <3>1. {readopen, writeopen', freed'} \subseteq BOOLEAN
      BY <2>2, Zenon DEF TypeOK
    <3>. QED BY <2>1, <2>2, <3>1 DEF TypeOK, ringVars
  <2>4. LockInv'
    BY <2>1 DEF LockInv, HoldPCs
  <2>5. \A q \in Procs : pc[q] \notin HoldPCs
    BY <2>2, PipeAssumption DEF LockInv
  <2>6. EndInv'
    BY <1>2, <2>1, <2>2 DEF EndInv, WritePCs, ReadPCs
  <2>7. SleepInv' /\ WriterNotStuck' /\ ReaderNotStuck'
    BY <1>1, <2>1, <2>2, <2>5 DEF SleepInv, WriterNotStuck, ReaderNotStuck, HoldPCs
  <2>. QED BY <1>1, <2>3, <2>4, <2>6, <2>7
<1>3. CASE wr # {p}
  <2>1. pc' \in [Procs -> PCs] /\ pc'[p] = label /\ \A q \in Procs \ {p} : pc'[q] = pc[q]
    BY <1>3 DEF GoTo, TypeOK, PCs
  <2>2. wr' = wr \ {p} /\ UNCHANGED <<writeopen, freed>>
    BY <1>3
  <2>3. TypeOK'
    BY <2>1, <2>2 DEF TypeOK, ringVars
  <2>4. LockInv'
    BY <2>1 DEF LockInv, HoldPCs
  <2>5. EndInv'
    BY <1>3, <2>1, <2>2 DEF EndInv, WritePCs, ReadPCs
  <2>6. SleepInv' /\ WriterNotStuck' /\ ReaderNotStuck'
    BY <1>1, <2>1, <2>2 DEF SleepInv, WriterNotStuck, ReaderNotStuck, WritePCs
  <2>. QED BY <1>1, <2>3, <2>4, <2>5, <2>6
<1>. QED BY <1>2, <1>3

LEMMA CloseReadKeeps ==
  ASSUME IInv, NEW p \in Procs, NEW label \in {"idle", "exited"}, CloseRead(p, label),
         pc[p] \in {"idle", "exited"}, UNCHANGED <<ringVars, lock, left, killed>>
  PROVE  IInv'
<1>. USE DEF IInv, CloseRead
<1>1. RingInv' /\ Empty' = Empty /\ Full' = Full
  BY SameRing
<1>2. CASE rd = {p}
  <2>1. /\ pc' \in [Procs -> PCs] /\ pc'[p] = label
        /\ \A q \in Procs \ {p} : pc'[q] = IF pc[q] = "write_asleep" THEN "write" ELSE pc[q]
    BY <1>2, WakeWritersKeeps DEF PCs
  <2>2. rd' = {} /\ lock = Nobody /\ readopen' = FALSE /\ freed' = (freed \/ ~ writeopen)
    BY <1>2
  <2>3. TypeOK'
    <3>1. {readopen', writeopen, freed'} \subseteq BOOLEAN
      BY <2>2, Zenon DEF TypeOK
    <3>. QED BY <2>1, <2>2, <3>1 DEF TypeOK, ringVars
  <2>4. LockInv'
    BY <2>1 DEF LockInv, HoldPCs
  <2>5. \A q \in Procs : pc[q] \notin HoldPCs
    BY <2>2, PipeAssumption DEF LockInv
  <2>6. EndInv'
    BY <1>2, <2>1, <2>2 DEF EndInv, WritePCs, ReadPCs
  <2>7. SleepInv' /\ WriterNotStuck' /\ ReaderNotStuck'
    BY <1>1, <2>1, <2>2, <2>5 DEF SleepInv, WriterNotStuck, ReaderNotStuck, HoldPCs, WritePCs
  <2>. QED BY <1>1, <2>3, <2>4, <2>6, <2>7
<1>3. CASE rd # {p}
  <2>1. pc' \in [Procs -> PCs] /\ pc'[p] = label /\ \A q \in Procs \ {p} : pc'[q] = pc[q]
    BY <1>3 DEF GoTo, TypeOK, PCs
  <2>2. rd' = rd \ {p} /\ UNCHANGED <<readopen, freed>>
    BY <1>3
  <2>3. TypeOK'
    BY <2>1, <2>2 DEF TypeOK, ringVars
  <2>4. LockInv'
    BY <2>1 DEF LockInv, HoldPCs
  <2>5. EndInv'
    BY <1>3, <2>1, <2>2 DEF EndInv, WritePCs, ReadPCs
  <2>6. SleepInv' /\ WriterNotStuck' /\ ReaderNotStuck'
    BY <1>1, <2>1, <2>2 DEF SleepInv, WriterNotStuck, ReaderNotStuck, WritePCs
  <2>. QED BY <1>1, <2>3, <2>4, <2>5, <2>6
<1>. QED BY <1>2, <1>3

LEMMA KillKeeps ==
  ASSUME IInv, NEW p \in Procs, Kill(p)
  PROVE  IInv'
<1>. USE DEF IInv, Kill, endVars
<1>1. RingInv' /\ Empty' = Empty /\ Full' = Full
  BY SameRing
<1>2. /\ pc'[p] = IF pc[p] = "write_asleep" THEN "write"
                  ELSE IF pc[p] = "read_asleep" THEN "read" ELSE pc[p]
      /\ pc' \in [Procs -> PCs]
      /\ \A q \in Procs \ {p} : pc'[q] = pc[q]
  BY DEF TypeOK, PCs, WritePCs, ReadPCs
<1>3. TypeOK'
  <2>1. killed' \in [Procs -> BOOLEAN]
    BY DEF TypeOK
  <2>. QED BY <1>2, <2>1 DEF TypeOK, ringVars
<1>4. LockInv'
  BY <1>2 DEF LockInv, HoldPCs
<1>5. EndInv'
  BY <1>2 DEF EndInv, WritePCs, ReadPCs
<1>6. SleepInv' /\ WriterNotStuck'
  BY <1>1, <1>2 DEF SleepInv, WriterNotStuck
<1>7. ReaderNotStuck'
  BY DEF ReaderNotStuck, TypeOK
<1>. QED BY <1>1, <1>3, <1>4, <1>5, <1>6, <1>7

-----------------------------------------------------------------------------
(* The invariant                                                           *)

LEMMA NextKeeps == IInv /\ [Next]_vars => IInv'
<1>. SUFFICES ASSUME IInv, [Next]_vars PROVE IInv'
  OBVIOUS
<1>1. ASSUME NEW p \in Procs, Advance(p) PROVE IInv'
  BY <1>1, WriteFailsKeeps, WriteFullKeeps, WriteSleepKeeps, WriteDoneKeeps, WriteByteKeeps,
     ReadWaitKeeps, ReadSleepKeeps, ReadDoneKeeps, ReadByteKeeps DEF Advance
<1>2. ASSUME NEW p \in Procs, Close(p) \/ Exit(p) PROVE IInv'
  BY <1>2, CloseWriteKeeps, CloseReadKeeps DEF Close, Exit
<1>3. CASE UNCHANGED vars
  <2>. USE <1>3 DEF vars, endVars
  <2>1. RingInv' /\ Empty' = Empty /\ Full' = Full
    BY SameRing DEF IInv
  <2>. QED BY <2>1 DEF IInv, TypeOK, LockInv, EndInv, SleepInv, WriterNotStuck, ReaderNotStuck, ringVars
<1>. QED BY <1>1, <1>2, <1>3, CallKeeps, LockKeeps, ForkKeeps, KillKeeps DEF Next

\* The inductive invariant holds in every reachable state.
THEOREM PipeInductive == Spec => []IInv
  BY InitKeeps, NextKeeps, PTL DEF Spec

\* The page of a pipe is freed only when no process has an end of it or is inside
\* piperead() or pipewrite(), and no wakeup that a sleeper needs is lost.
THEOREM PipeSafe == Spec => []PipeInv
<1>1. IInv => FreedOnlyUnused
  BY DEF IInv, TypeOK, EndInv, FreedOnlyUnused, PCs
<1>2. IInv => PipeInv
  BY <1>1 DEF IInv, PipeInv
<1>. QED BY <1>2, PipeInductive, PTL

-----------------------------------------------------------------------------
(* The refinement of Fifo                                                  *)

\* The place of the k-th byte of the ring
Place(k) == (nread + k - 1) % PIPESIZE

\* The counters wrap after a whole number of turns around the ring.
LEMMA WholeTurns == \A x \in Int : (x + CntMod) % PIPESIZE = x % PIPESIZE
<1>1. PIPESIZE \in Nat \ {0} /\ CntMod \in Int /\ CntMod % PIPESIZE = 0
  BY PipeAssumption
<1>. QED BY <1>1, ModWhole

LEMMA AppendIs ==
  ASSUME NEW s \in Seq(Bytes), NEW ch \in Bytes, NEW n \in Nat, Len(s) = n
  PROVE  Append(s, ch) = [k \in 1..n + 1 |-> IF k = n + 1 THEN ch ELSE s[k]]
<1>. DEFINE t == Append(s, ch)
<1>1. t \in Seq(Bytes) /\ Len(t) = n + 1
  OBVIOUS
<1>2. \A k \in 1..n + 1 : t[k] = IF k = n + 1 THEN ch ELSE s[k]
  OBVIOUS
<1>3. t \in [1..n + 1 -> Bytes]
  BY <1>1, LenProperties
<1>. HIDE DEF t
<1>. QED BY <1>2, <1>3 DEF t

LEMMA TailIs ==
  ASSUME NEW s \in Seq(Bytes), NEW n \in Nat \ {0}, Len(s) = n
  PROVE  Tail(s) = [k \in 1..n - 1 |-> s[k + 1]]
<1>. DEFINE t == Tail(s)
<1>1. t \in Seq(Bytes) /\ Len(t) = n - 1
  OBVIOUS
<1>2. \A k \in 1..n - 1 : t[k] = s[k + 1]
  OBVIOUS
<1>3. t \in [1..n - 1 -> Bytes]
  BY <1>1, LenProperties
<1>. HIDE DEF t
<1>. QED BY <1>2, <1>3 DEF t

LEMMA ContentsType ==
  ASSUME IInv
  PROVE  /\ Used \in 0..PIPESIZE
         /\ \A k \in Int : Place(k) \in 0..PIPESIZE - 1
         /\ Contents \in Seq(Bytes) /\ Len(Contents) = Used
         /\ \A k \in 1..Used : Contents[k] = data[Place(k)]
<1>1. nwrite \in 0..CntMod - 1 /\ nread \in 0..CntMod - 1
  BY DEF IInv, TypeOK
<1>2. Used \in 0..PIPESIZE
  BY <1>1, UsedFacts, Sizes DEF IInv, RingInv, Used
<1>3. ASSUME NEW k \in Int PROVE Place(k) \in 0..PIPESIZE - 1
  <2>1. nread + k - 1 \in Int
    BY <1>1, Sizes
  <2>2. \A x \in Int : x % PIPESIZE \in 0..PIPESIZE - 1
    BY DivMod, Sizes
  <2>. QED BY <2>1, <2>2 DEF Place
<1>4. Contents = [k \in 1..Used |-> data[Place(k)]]
  BY DEF Contents, Used, Place
<1>. HIDE DEF Used, Place
<1>5. \A k \in 1..Used : data[Place(k)] \in Bytes
  <2>1. \A k \in 1..Used : k \in Int
    BY <1>2, Sizes
  <2>2. \A k \in 0..PIPESIZE - 1 : data[k] \in Bytes
    BY DEF IInv, TypeOK
  <2>. QED BY <1>3, <2>1, <2>2
<1>. QED BY <1>2, <1>3, <1>4, <1>5

\* The next byte goes behind the last one.
LEMMA WriteIndex ==
  ASSUME IInv, ~ Full
  PROVE  /\ Place(Used + 1) = nwrite % PIPESIZE
         /\ \A k \in 1..Used : Place(k) # nwrite % PIPESIZE
<1>1. nwrite \in 0..CntMod - 1 /\ nread \in 0..CntMod - 1 /\ CntMod \in Int /\ CntMod % PIPESIZE = 0
  BY PipeAssumption DEF IInv, TypeOK
<1>2. Used = IF nwrite >= nread THEN nwrite - nread ELSE nwrite - nread + CntMod
  BY <1>1, RingDistance, Sizes DEF Used
<1>3. Used \in 0..PIPESIZE /\ Used # PIPESIZE
  BY <1>1, ContentsType, UsedFacts DEF Used, Full
<1>4. Place(Used + 1) = nwrite % PIPESIZE
  <2>1. CASE nwrite >= nread
    <3>1. nread + (Used + 1) - 1 = nwrite
      BY <1>1, <1>2, <2>1, Sizes
    <3>. QED BY <3>1 DEF Place
  <2>2. CASE ~ (nwrite >= nread)
    <3>1. nread + (Used + 1) - 1 = nwrite + CntMod
      BY <1>1, <1>2, <2>2, Sizes
    <3>2. (nwrite + CntMod) % PIPESIZE = nwrite % PIPESIZE
      BY <1>1, WholeTurns
    <3>. QED BY <3>1, <3>2 DEF Place
  <2>. QED BY <2>1, <2>2
<1>5. ASSUME NEW k \in 1..Used PROVE Place(k) # Place(Used + 1)
  <2>. DEFINE x == nread + k - 1
              y == nread + (Used + 1) - 1
  <2>1. x \in Int /\ y \in Int /\ y - x \in 1..PIPESIZE - 1
    BY <1>1, <1>3, Sizes
  <2>2. x % PIPESIZE # y % PIPESIZE
    BY <2>1, ModDiffers, Sizes
  <2>. QED BY <2>2 DEF Place
<1>. QED BY <1>4, <1>5

LEMMA WriteByteImplements ==
  ASSUME IInv, IInv', NEW p \in Procs, NEW ch \in Bytes, WriteByte(p, ch)
  PROVE  Abs!Put(ch)
<1>1. /\ Used \in 0..PIPESIZE /\ \A k \in Int : Place(k) \in 0..PIPESIZE - 1
      /\ Contents \in Seq(Bytes) /\ Len(Contents) = Used
      /\ \A k \in 1..Used : Contents[k] = data[Place(k)]
  BY ContentsType
<1>2. Used' = Used + 1 /\ Used \in 0..PIPESIZE - 1
  BY ByteComes DEF WriteByte, IInv
<1>3. /\ Place(Used + 1) = nwrite % PIPESIZE
      /\ \A k \in 1..Used : Place(k) # nwrite % PIPESIZE
  BY WriteIndex DEF WriteByte
<1>4. data'[Place(Used + 1)] = ch /\ \A k \in 1..Used : data'[Place(k)] = data[Place(k)]
  <2>1. data' = [data EXCEPT ![nwrite % PIPESIZE] = ch] /\ DOMAIN data = 0..PIPESIZE - 1
    BY DEF WriteByte, IInv, TypeOK
  <2>2. Used + 1 \in Int /\ \A k \in 1..Used : k \in Int
    BY <1>1, Sizes
  <2>. HIDE DEF Place, Used
  <2>3. nwrite % PIPESIZE \in 0..PIPESIZE - 1
    BY <1>1, <1>3, <2>2
  <2>4. data'[nwrite % PIPESIZE] = ch
    BY <2>1, <2>3
  <2>5. \A j \in 0..PIPESIZE - 1 : j # nwrite % PIPESIZE => data'[j] = data[j]
    BY <2>1
  <2>. QED BY <1>1, <1>3, <2>2, <2>4, <2>5
<1>5. Contents' = [k \in 1..Used + 1 |-> data'[Place(k)]]
  <2>1. Place(1)' = Place(1) /\ \A k \in 1..Used + 1 : Place(k)' = Place(k)
    BY DEF WriteByte, Place
  <2>2. Contents' = [k \in 1..Used' |-> data'[(nread' + k - 1) % PIPESIZE]]
    BY DEF Contents, Used
  <2>. QED BY <1>2, <2>2 DEF WriteByte, Place
<1>. HIDE DEF Place, Used, Contents
<1>6. Contents' = Append(Contents, ch)
  <2>1. Append(Contents, ch) = [k \in 1..Used + 1 |-> IF k = Used + 1 THEN ch ELSE Contents[k]]
    <3>1. Used \in Nat
      BY <1>1, Sizes
    <3>. QED BY <1>1, <3>1, AppendIs
  <2>2. ASSUME NEW k \in 1..Used + 1
        PROVE  data'[Place(k)] = IF k = Used + 1 THEN ch ELSE Contents[k]
    <3>1. k = Used + 1 \/ k \in 1..Used
      BY <1>1, Sizes
    <3>2. Used + 1 \notin 1..Used
      BY <1>1, Sizes
    <3>. QED BY <1>1, <1>4, <3>1, <3>2
  <2>. QED BY <1>5, <2>1, <2>2
<1>7. Len(Contents) < PIPESIZE
  BY <1>1, <1>2, Sizes
<1>. QED BY <1>6, <1>7 DEF Abs!Put

LEMMA ReadByteImplements ==
  ASSUME IInv, NEW p \in Procs, NEW copied \in BOOLEAN, ReadByte(p, copied)
  PROVE  Abs!Get
<1>1. /\ Used \in 0..PIPESIZE
      /\ Contents \in Seq(Bytes) /\ Len(Contents) = Used
      /\ \A k \in 1..Used : Contents[k] = data[Place(k)]
  BY ContentsType
<1>2. Used' = Used - 1 /\ Used \in 1..PIPESIZE
  BY ByteGoes DEF ReadByte, IInv
<1>3. nread \in 0..CntMod - 1 /\ CntMod \in Int /\ -CntMod \in Int /\ CntMod % PIPESIZE = 0
  BY PipeAssumption DEF IInv, TypeOK
<1>4. ASSUME NEW k \in Int PROVE (((nread + 1) % CntMod) + k - 1) % PIPESIZE = Place(k + 1)
  <2>1. (nread + 1) % CntMod = IF nread + 1 < CntMod THEN nread + 1 ELSE nread + 1 - CntMod
    BY <1>3, RingStep, Sizes
  <2>2. CASE nread + 1 < CntMod
    <3>1. ((nread + 1) % CntMod) + k - 1 = nread + (k + 1) - 1
      BY <1>3, <2>1, <2>2
    <3>. QED BY <3>1 DEF Place
  <2>3. CASE ~ (nread + 1 < CntMod)
    <3>. DEFINE x == ((nread + 1) % CntMod) + k - 1
    <3>1. x \in Int /\ x + CntMod = nread + (k + 1) - 1
      BY <1>3, <2>1, <2>3
    <3>2. (x + CntMod) % PIPESIZE = x % PIPESIZE
      BY <3>1, WholeTurns
    <3>. QED BY <3>1, <3>2 DEF Place
  <2>. QED BY <2>2, <2>3
<1>5. Contents' = [k \in 1..Used - 1 |-> data[Place(k + 1)]]
  <2>1. Contents' = [k \in 1..Used' |-> data'[(nread' + k - 1) % PIPESIZE]]
    BY DEF Contents, Used
  <2>2. nread' = (nread + 1) % CntMod /\ UNCHANGED data
    BY DEF ReadByte
  <2>3. \A k \in 1..Used - 1 : (nread' + k - 1) % PIPESIZE = Place(k + 1)
    BY <1>2, <1>4, <2>2
  <2>. HIDE DEF Used, Place
  <2>. QED BY <1>2, <2>1, <2>2, <2>3
<1>. HIDE DEF Place, Used, Contents
<1>6. Contents' = Tail(Contents)
  <2>1. Tail(Contents) = [k \in 1..Used - 1 |-> Contents[k + 1]]
    BY <1>1, <1>2, TailIs
  <2>2. \A k \in 1..Used - 1 : Contents[k + 1] = data[Place(k + 1)]
    BY <1>1, <1>2
  <2>. QED BY <1>5, <2>1, <2>2
<1>7. Contents # <<>>
  BY <1>1, <1>2
<1>. QED BY <1>6, <1>7 DEF Abs!Get

\* A pipe is a FIFO of at most PIPESIZE bytes, for any ring size and any counter
\* width that is a multiple of it: no byte is lost, repeated or overtaken, although
\* nread and nwrite wrap independently of each other, and readers and writers
\* interleave, sleep, are killed and close their ends in any order.
THEOREM PipeRefines == Spec => RefinesFifo
<1>1. Init => Abs!Init
  <2>. SUFFICES ASSUME Init PROVE Abs!Init
    OBVIOUS
  <2>1. (nwrite - nread) % CntMod = 0
    BY UsedFacts, Sizes DEF Init
  <2>. QED BY <2>1 DEF Abs!Init, Contents
<1>2. IInv /\ IInv' /\ [Next]_vars => [Abs!Next]_Contents
  <2>. SUFFICES ASSUME IInv, IInv', [Next]_vars PROVE Abs!Next \/ UNCHANGED Contents
    OBVIOUS
  <2>1. ASSUME UNCHANGED ringVars PROVE UNCHANGED Contents
    BY <2>1 DEF Contents, ringVars
  <2>2. ASSUME NEW p \in Procs, Advance(p) PROVE Abs!Next \/ UNCHANGED ringVars
    BY <2>2, WriteByteImplements, ReadByteImplements
    DEF Advance, WriteFails, WriteFull, WriteSleep, WriteDone, ReadWait, ReadSleep, ReadDone, Abs!Next
  <2>3. CASE UNCHANGED vars
    BY <2>1, <2>3 DEF vars
  <2>. QED BY <2>1, <2>2, <2>3 DEF Next, CallWrite, CallRead, Lock, Fork, Close, Exit, Kill
<1>. QED BY <1>1, <1>2, PipeInductive, PTL DEF Spec, RefinesFifo, Abs!Spec

-----------------------------------------------------------------------------
(***************************************************************************)
(* Open files.  The proof of File, for any number of processes, files,     *)
(* descriptors and pipes.                                                  *)
(*                                                                         *)
(* The argument.  What refers to files are places: descriptors and the     *)
(* local variables of system calls.  Every step takes a place, gives one   *)
(* up or moves a reference from one to another, and the count of the file  *)
(* changes with the number of its places (RefExact is a cardinality).      *)
(* Hence a file whose count is 1 has one holder, and whoever closes it is  *)
(* that holder: nobody loses a file that another one has in its hands      *)
(* (NewInv), and a file that fork() has still to copy stays (ForkInv).     *)
(* The ends of pipes go from the file that stands for them to the close    *)
(* that drops them, and never to two of them (EndsInv).                    *)
(***************************************************************************)
\* A file that is free has no type, and one that is a pipe has a page.
FreeInv ==
    /\ \A f \in F!Files : fref[f] = 0 => ftype[f] = "FD_NONE"
    /\ \A f \in F!Files : ftype[f] = "FD_PIPE" => pipe[f] \in Pipes

\* How many files a system call has in its local variables, and that only a
\* close has something to drop.
HandInv ==
    /\ \A p \in FileProcs :
          /\ Len(hand[p]) <= 2
          /\ fpc[p] \in {"unused", "idle", "open", "fork", "exit"} => hand[p] = <<>>
          /\ fpc[p] \in {"open_fd", "pipe1"} => Len(hand[p]) = 1
          /\ fpc[p] \in {"pipe_page", "pipe_fds"} => Len(hand[p]) = 2
    /\ \A p \in FileProcs : fpc[p] \notin {"closing", "exit"} => ff[p] = F!Nothing

\* A file that a system call is about to give a type is its own.
NewInv ==
    /\ \A p \in FileProcs : \A k \in 1..Len(hand[p]) :
          fpc[p] \in {"open_fd", "pipe1", "pipe_page"} =>
             fref[hand[p][k]] = 1 /\ ftype[hand[p][k]] = "FD_NONE"
    /\ \A p \in FileProcs : \A k \in 1..Len(hand[p]) :
          fpc[p] = "pipe_fds" => ftype[hand[p][k]] = "FD_PIPE"

\* A child of a fork() under way has no other descriptors than its parent, and a
\* process that is not one, and does not run, has none.
ForkInv ==
    /\ \A p \in FileProcs : fpc[p] = "fork" =>
          /\ child[p] \in FileProcs /\ fpc[child[p]] = "unused"
          /\ \A fd \in F!Fds : ofile[child[p]][fd] \in {NoFile, ofile[p][fd]}
    /\ \A p \in FileProcs : fpc[p] # "fork" => child[p] = NoProc
    /\ \A p, r \in FileProcs : child[p] = child[r] => p = r \/ child[p] = NoProc
    /\ \A q \in FileProcs :
          fpc[q] = "unused" /\ (\A r \in FileProcs : child[r] # q)
             => \A fd \in F!Fds : ofile[q][fd] = NoFile

\* The end of a pipe that file f stands for, and the one that p has to drop
FileEnd(f) == <<pipe[f], writable[f]>>
DropEnd(p) == <<ff[p].pipe, ff[p].writable>>
PipeFiles == {f \in F!Files : ftype[f] = "FD_PIPE"}
Droppers == {p \in FileProcs : ff[p].type = "FD_PIPE"}

\* An end that is open has one owner: a file, or a close.
EndsInv ==
    /\ \A f \in PipeFiles : FileEnd(f) \in ends
    /\ \A p \in Droppers : DropEnd(p) \in ends
    /\ \A f, g \in PipeFiles : FileEnd(f) = FileEnd(g) => f = g
    /\ \A p, q \in Droppers : DropEnd(p) = DropEnd(q) => p = q
    /\ \A f \in PipeFiles, p \in Droppers : FileEnd(f) # DropEnd(p)
    /\ \A e \in ends : (\E f \in PipeFiles : FileEnd(f) = e) \/ (\E p \in Droppers : DropEnd(p) = e)
    /\ kpages = {e[1] : e \in ends}

FileIInv ==
    /\ F!TypeOK /\ F!RefExact /\ F!UsableHasType /\ F!InodeRefsExact
    /\ FreeInv /\ HandInv /\ NewInv /\ ForkInv /\ EndsInv

-----------------------------------------------------------------------------
LEMMA LeastNatural ==
  ASSUME NEW T \in SUBSET Nat, T # {}
  PROVE  \E m \in T : \A k \in T : m <= k
<1>1. PICK x \in T : \A y \in T : ~ (<<y, x>> \in OpToRel(<, Nat))
  BY NatLessThanWellFounded, WFMin
<1>2. \A y \in T : ~ (y < x)
  BY <1>1 DEF OpToRel
<1>. QED BY <1>2

-----------------------------------------------------------------------------
(* Places, and how many of them refer to a file                            *)

FilePlaces == FileProcs \X (F!Fds \cup {NOFILE + 1, NOFILE + 2})
Fillings == [FilePlaces -> F!Files \cup {NoFile}]
PlacesOf(s, f) == {h \in FilePlaces : s[h] = f}
PutAt(s, h, x) == [s EXCEPT ![h] = x]
More(r, f) == [r EXCEPT ![f] = @ + 1]
Less(r, f) == [r EXCEPT ![f] = @ - 1]
Counts(r, s) == \A f \in F!Files : r[f] = Cardinality(PlacesOf(s, f))

\* What the descriptors of and the local variables hd fill the places with
InHand(t, k) == IF k <= Len(t) THEN t[k] ELSE NoFile
Filled(of, hd) ==
    [h \in FilePlaces |-> IF h[2] \in F!Fds THEN of[h[1]][h[2]] ELSE InHand(hd[h[1]], h[2] - NOFILE)]

LEMMA SameCount == \A S : F!Cardinality(S) = Cardinality(S)
  BY DEF F!Cardinality, Cardinality

LEMMA FewFiles ==
  ASSUME F!FileAssumption
  PROVE  /\ IsFiniteSet(F!Files) /\ IsFiniteSet(FileProcs) /\ IsFiniteSet(FilePlaces)
         /\ NoFile \notin F!Files /\ NFILE \in Nat /\ NOFILE \in Nat
<1>1. NFILE \in Nat /\ NOFILE \in Nat /\ NoFile \notin F!Files
  BY DEF F!FileAssumption
<1>2. IsFiniteSet(FileProcs)
  BY DEF F!FileAssumption, F!IsFiniteSet, IsFiniteSet
<1>3. IsFiniteSet(F!Files)
  BY <1>1, FS_Interval DEF F!Files
<1>4. IsFiniteSet(F!Fds)
  BY <1>1, FS_Interval, 0 \in Int, NOFILE - 1 \in Int DEF F!Fds
<1>5. IsFiniteSet({NOFILE + 1, NOFILE + 2})
  <2>1. IsFiniteSet({}) /\ IsFiniteSet({} \cup {NOFILE + 1}) /\ IsFiniteSet(({} \cup {NOFILE + 1}) \cup {NOFILE + 2})
    BY FS_EmptySet, FS_AddElement
  <2>2. ({} \cup {NOFILE + 1}) \cup {NOFILE + 2} = {NOFILE + 1, NOFILE + 2}
    OBVIOUS
  <2>. QED BY <2>1, <2>2
<1>6. IsFiniteSet(F!Fds \cup {NOFILE + 1, NOFILE + 2})
  BY <1>4, <1>5, FS_Union
<1>7. IsFiniteSet(FilePlaces)
  BY <1>2, <1>6, FS_Product DEF FilePlaces
<1>. QED BY <1>1, <1>2, <1>3, <1>7

LEMMA FewPlaces ==
  ASSUME F!FileAssumption, NEW s, NEW f
  PROVE  IsFiniteSet(PlacesOf(s, f)) /\ Cardinality(PlacesOf(s, f)) \in Nat
<1>1. PlacesOf(s, f) \in SUBSET FilePlaces
  BY DEF PlacesOf
<1>. QED BY <1>1, FewFiles, FS_Subset, FS_CardinalityType

\* A place that was empty is taken,
LEMMA CountTake ==
  ASSUME F!FileAssumption, NEW s \in Fillings, NEW r \in [F!Files -> Nat], Counts(r, s),
         NEW h \in FilePlaces, s[h] = NoFile, NEW f \in F!Files
  PROVE  PutAt(s, h, f) \in Fillings /\ Counts(More(r, f), PutAt(s, h, f))
<1>. DEFINE t == [s EXCEPT ![h] = f]
<1>1. t \in Fillings
  BY DEF Fillings
<1>2. ASSUME NEW g \in F!Files, g # f PROVE PlacesOf(t, g) = PlacesOf(s, g)
  BY <1>2, FewFiles DEF PlacesOf, Fillings
<1>3. PlacesOf(t, f) = PlacesOf(s, f) \cup {h} /\ h \notin PlacesOf(s, f)
  BY FewFiles DEF PlacesOf, Fillings
<1>4. Cardinality(PlacesOf(t, f)) = Cardinality(PlacesOf(s, f)) + 1
  BY <1>3, FewPlaces, FS_AddElement
<1>. HIDE DEF t
<1>5. Counts([r EXCEPT ![f] = @ + 1], t)
  BY <1>2, <1>4 DEF Counts
<1>. QED BY <1>1, <1>5 DEF t, PutAt, More

\* ... or one that refers to f is given up,
LEMMA CountGive ==
  ASSUME F!FileAssumption, NEW s \in Fillings, NEW r \in [F!Files -> Nat], Counts(r, s),
         NEW h \in FilePlaces, NEW f \in F!Files, s[h] = f
  PROVE  /\ r[f] >= 1
         /\ PutAt(s, h, NoFile) \in Fillings /\ Counts(Less(r, f), PutAt(s, h, NoFile))
<1>. DEFINE t == [s EXCEPT ![h] = NoFile]
<1>1. t \in Fillings
  BY DEF Fillings
<1>2. ASSUME NEW g \in F!Files, g # f PROVE PlacesOf(t, g) = PlacesOf(s, g)
  BY <1>2, FewFiles DEF PlacesOf, Fillings
<1>3. PlacesOf(t, f) = PlacesOf(s, f) \ {h} /\ h \in PlacesOf(s, f)
  BY FewFiles DEF PlacesOf, Fillings
<1>4. Cardinality(PlacesOf(t, f)) = Cardinality(PlacesOf(s, f)) - 1
  BY <1>3, FewPlaces, FS_RemoveElement
<1>5. Cardinality(PlacesOf(t, f)) \in Nat /\ Cardinality(PlacesOf(s, f)) \in Nat
  BY FewPlaces
<1>. HIDE DEF t
<1>6. Counts([r EXCEPT ![f] = @ - 1], t)
  BY <1>2, <1>4 DEF Counts
<1>7. r[f] >= 1
  BY <1>4, <1>5 DEF Counts
<1>. QED BY <1>1, <1>6, <1>7 DEF t, PutAt, Less

\* ... or what it refers to moves to another place.
LEMMA CountMove ==
  ASSUME F!FileAssumption, NEW s \in Fillings, NEW r \in [F!Files -> Nat], Counts(r, s),
         NEW h \in FilePlaces, NEW k \in FilePlaces, NEW f \in F!Files, s[h] = f, s[k] = NoFile
  PROVE  /\ PutAt(PutAt(s, h, NoFile), k, f) \in Fillings
         /\ Counts(r, PutAt(PutAt(s, h, NoFile), k, f))
<1>. DEFINE t == PutAt(s, h, NoFile)  q == Less(r, f)
<1>1. r[f] >= 1 /\ t \in Fillings /\ Counts(q, t)
  BY CountGive
<1>2. q \in [F!Files -> Nat] /\ More(q, f) = r
  <2>1. r[f] \in Nat /\ r[f] - 1 \in Nat /\ (r[f] - 1) + 1 = r[f]
    BY <1>1
  <2>2. q \in [F!Files -> Nat] /\ q[f] = r[f] - 1 /\ \A g \in F!Files \ {f} : q[g] = r[g]
    BY <2>1 DEF Less
  <2>. HIDE DEF q
  <2>3. ASSUME NEW g \in F!Files PROVE More(q, f)[g] = r[g]
    BY <2>1, <2>2 DEF More
  <2>. QED BY <2>2, <2>3 DEF More
<1>3. t[k] = NoFile
  BY DEF Fillings, PutAt
<1>. HIDE DEF t, q
<1>4. PutAt(t, k, f) \in Fillings /\ Counts(More(q, f), PutAt(t, k, f))
  BY <1>1, <1>2, <1>3, CountTake
<1>. QED BY <1>2, <1>4 DEF t

\* A count of 1 is one place, and a count of 0 is none.
LEMMA CountSole ==
  ASSUME F!FileAssumption, NEW s \in Fillings, NEW r \in [F!Files -> Nat], Counts(r, s),
         NEW h \in FilePlaces, NEW f \in F!Files, s[h] = f
  PROVE  r[f] >= 1 /\ \A k \in FilePlaces : s[k] = f /\ r[f] = 1 => k = h
<1>1. r[f] >= 1
  BY CountGive
<1>2. ASSUME NEW k \in FilePlaces, s[k] = f, r[f] = 1, k # h PROVE FALSE
  <2>. DEFINE t == PutAt(s, h, NoFile)  q == Less(r, f)
  <2>1. t \in Fillings /\ Counts(q, t)
    BY CountGive
  <2>2. q \in [F!Files -> Nat] /\ q[f] = 0
    BY <1>2 DEF Less
  <2>3. t[k] = f
    BY <1>2 DEF Fillings, PutAt
  <2>. HIDE DEF t, q
  <2>4. q[f] >= 1
    BY <2>1, <2>2, <2>3, CountGive
  <2>. QED BY <2>2, <2>4
<1>. QED BY <1>1, <1>2

\* RefExact is about these counts.
LEMMA HoldersArePlaces ==
  ASSUME F!FileAssumption, NEW of, NEW hd, NEW f \in F!Files
  PROVE  PlacesOf(Filled(of, hd), f)
            = {h \in FileProcs \X F!Fds : of[h[1]][h[2]] = f}
              \cup {h \in FileProcs \X {NOFILE + 1, NOFILE + 2} :
                       h[2] - NOFILE <= Len(hd[h[1]]) /\ hd[h[1]][h[2] - NOFILE] = f}
<1>1. NOFILE \in Nat /\ NoFile # f /\ NOFILE + 1 \notin F!Fds /\ NOFILE + 2 \notin F!Fds
  BY FewFiles DEF F!Fds
<1>. DEFINE A == {h \in FileProcs \X F!Fds : of[h[1]][h[2]] = f}
            B == {h \in FileProcs \X {NOFILE + 1, NOFILE + 2} :
                    h[2] - NOFILE <= Len(hd[h[1]]) /\ hd[h[1]][h[2] - NOFILE] = f}
<1>2. \A h : h \in PlacesOf(Filled(of, hd), f) <=> h \in A \/ h \in B
  BY <1>1 DEF PlacesOf, Filled, FilePlaces, InHand
<1>. HIDE DEF A, B
<1>3. PlacesOf(Filled(of, hd), f) = A \cup B
  BY <1>2
<1>. QED BY <1>3 DEF A, B

LEMMA RefCounts ==
  ASSUME F!FileAssumption
  PROVE  F!RefExact <=> Counts(fref, Filled(ofile, hand))
<1>1. \A f \in F!Files : PlacesOf(Filled(ofile, hand), f) = F!Holders(f)
  BY HoldersArePlaces DEF F!Holders
<1>. QED BY <1>1, SameCount DEF F!RefExact, Counts

LEMMA RefCountsNext ==
  ASSUME F!FileAssumption
  PROVE  F!RefExact' <=> Counts(fref', Filled(ofile', hand'))
<1>1. \A f \in F!Files : PlacesOf(Filled(ofile', hand'), f) = F!Holders(f)'
  BY HoldersArePlaces DEF F!Holders, F!Files
<1>. QED BY <1>1, SameCount DEF F!RefExact, Counts, F!Files

-----------------------------------------------------------------------------
(* How the steps change the places                                         *)

\* The first free file, or descriptor, is one.
LEMMA LowestIn ==
  ASSUME NEW T \in SUBSET Nat, T # {}
  PROVE  F!Lowest(T) \in T
<1>1. \E m \in T : \A k \in T : m <= k
  BY LeastNatural
<1>. QED BY <1>1 DEF F!Lowest

LEMMA LowestFree ==
  ASSUME F!FileAssumption, NEW p \in FileProcs
  PROVE  /\ F!FreeFiles # {} => F!Lowest(F!FreeFiles) \in F!Files /\ fref[F!Lowest(F!FreeFiles)] = 0
         /\ F!FreeFds(p) # {} => /\ F!Lowest(F!FreeFds(p)) \in F!Fds
                                 /\ ofile[p][F!Lowest(F!FreeFds(p))] = NoFile
<1>1. F!FreeFiles \in SUBSET Nat /\ F!FreeFds(p) \in SUBSET Nat
  BY FewFiles DEF F!FreeFiles, F!FreeFds, F!Files, F!Fds
<1>2. F!FreeFiles # {} => F!Lowest(F!FreeFiles) \in F!FreeFiles
  BY <1>1, LowestIn
<1>3. F!FreeFds(p) # {} => F!Lowest(F!FreeFds(p)) \in F!FreeFds(p)
  BY <1>1, LowestIn
<1>. QED BY <1>2, <1>3 DEF F!FreeFiles, F!FreeFds

LEMMA FilledIs ==
  ASSUME F!FileAssumption, F!TypeOK, HandInv
  PROVE  /\ Filled(ofile, hand) \in Fillings
         /\ \A p \in FileProcs, fd \in F!Fds :
               <<p, fd>> \in FilePlaces /\ Filled(ofile, hand)[<<p, fd>>] = ofile[p][fd]
         /\ \A p \in FileProcs :
               /\ <<p, NOFILE + 1>> \in FilePlaces /\ <<p, NOFILE + 2>> \in FilePlaces
               /\ Filled(ofile, hand)[<<p, NOFILE + 1>>] = InHand(hand[p], 1)
               /\ Filled(ofile, hand)[<<p, NOFILE + 2>>] = InHand(hand[p], 2)
<1>1. NOFILE \in Nat /\ NOFILE + 1 \notin F!Fds /\ NOFILE + 2 \notin F!Fds
  BY FewFiles DEF F!Fds
<1>2. ASSUME NEW p \in FileProcs, NEW k \in {1, 2} PROVE InHand(hand[p], k) \in F!Files \cup {NoFile}
  <2>1. hand[p] \in Seq(F!Files)
    BY DEF F!TypeOK
  <2>2. k <= Len(hand[p]) => hand[p][k] \in F!Files
    BY <2>1
  <2>. QED BY <2>2 DEF InHand
<1>3. ASSUME NEW h \in FilePlaces PROVE Filled(ofile, hand)[h] \in F!Files \cup {NoFile}
  <2>1. h[1] \in FileProcs /\ h[2] \in F!Fds \cup {NOFILE + 1, NOFILE + 2}
    BY DEF FilePlaces
  <2>2. CASE h[2] \in F!Fds
    BY <2>1, <2>2 DEF Filled, F!TypeOK
  <2>3. CASE h[2] \notin F!Fds
    <3>1. h[2] - NOFILE \in {1, 2}
      BY <2>1, <2>3, <1>1
    <3>2. Filled(ofile, hand)[h] = InHand(hand[h[1]], h[2] - NOFILE)
      BY <2>1, <2>3 DEF Filled
    <3>. QED BY <2>1, <3>1, <3>2, <1>2
  <2>. QED BY <2>2, <2>3
<1>4. Filled(ofile, hand) \in Fillings
  BY <1>3 DEF Fillings, Filled
<1>5. ASSUME NEW p \in FileProcs, NEW fd \in F!Fds
      PROVE  <<p, fd>> \in FilePlaces /\ Filled(ofile, hand)[<<p, fd>>] = ofile[p][fd]
  BY DEF FilePlaces, Filled
<1>6. ASSUME NEW p \in FileProcs
      PROVE  /\ <<p, NOFILE + 1>> \in FilePlaces /\ <<p, NOFILE + 2>> \in FilePlaces
             /\ Filled(ofile, hand)[<<p, NOFILE + 1>>] = InHand(hand[p], 1)
             /\ Filled(ofile, hand)[<<p, NOFILE + 2>>] = InHand(hand[p], 2)
  <2>1. <<p, NOFILE + 1>> \in FilePlaces /\ <<p, NOFILE + 2>> \in FilePlaces
    BY DEF FilePlaces
  <2>2. (NOFILE + 1) - NOFILE = 1 /\ (NOFILE + 2) - NOFILE = 2
    BY <1>1
  <2>. QED BY <2>1, <2>2, <1>1 DEF Filled
<1>. QED BY <1>4, <1>5, <1>6

PutFd(of, p, k, x) == [of EXCEPT ![p][k] = x]

LEMMA FilledFd ==
  ASSUME F!FileAssumption, NEW of \in [FileProcs -> [F!Fds -> F!Files \cup {NoFile}]], NEW hd,
         NEW p \in FileProcs, NEW k \in F!Fds, NEW x
  PROVE  Filled(PutFd(of, p, k, x), hd) = PutAt(Filled(of, hd), <<p, k>>, x)
<1>. DEFINE of2 == [of EXCEPT ![p][k] = x]
<1>1. ASSUME NEW h \in FilePlaces PROVE Filled(of2, hd)[h] = [Filled(of, hd) EXCEPT ![<<p, k>>] = x][h]
  <2>1. PICK q \in FileProcs, j \in F!Fds \cup {NOFILE + 1, NOFILE + 2} : h = <<q, j>>
    BY DEF FilePlaces
  <2>2. CASE j \in F!Fds
    <3>1. of2[q][j] = IF q = p /\ j = k THEN x ELSE of[q][j]
      BY <2>2
    <3>. HIDE DEF of2
    <3>. QED BY <2>1, <2>2, <3>1 DEF Filled, FilePlaces
  <2>3. CASE j \notin F!Fds
    <3>. HIDE DEF of2
    <3>. QED BY <2>1, <2>3 DEF Filled, FilePlaces
  <2>. QED BY <2>2, <2>3
<1>. HIDE DEF of2
<1>2. Filled(of2, hd) = [Filled(of, hd) EXCEPT ![<<p, k>>] = x]
  BY <1>1 DEF Filled
<1>. QED BY <1>2 DEF of2, PutFd, PutAt

LEMMA FilledHand ==
  ASSUME F!FileAssumption, NEW of, NEW hd \in [FileProcs -> Seq(F!Files)],
         NEW p \in FileProcs, NEW t
  PROVE  Filled(of, PutAt(hd, p, t))
            = PutAt(PutAt(Filled(of, hd), <<p, NOFILE + 1>>, InHand(t, 1)), <<p, NOFILE + 2>>, InHand(t, 2))
<1>. DEFINE hd2 == [hd EXCEPT ![p] = t]
            s == [Filled(of, hd) EXCEPT ![<<p, NOFILE + 1>>] = InHand(t, 1),
                                        ![<<p, NOFILE + 2>>] = InHand(t, 2)]
<1>0. NOFILE \in Nat /\ NOFILE + 1 \notin F!Fds /\ NOFILE + 2 \notin F!Fds
  BY FewFiles DEF F!Fds
<1>1. ASSUME NEW h \in FilePlaces PROVE Filled(of, hd2)[h] = s[h]
  <2>1. PICK q \in FileProcs, j \in F!Fds \cup {NOFILE + 1, NOFILE + 2} : h = <<q, j>>
    BY DEF FilePlaces
  <2>2. hd2[q] = IF q = p THEN t ELSE hd[q]
    OBVIOUS
  <2>3. (NOFILE + 1) - NOFILE = 1 /\ (NOFILE + 2) - NOFILE = 2
    BY <1>0
  <2>. HIDE DEF hd2
  <2>4. CASE j \in F!Fds
    BY <2>1, <2>4, <1>0 DEF Filled, FilePlaces
  <2>5. CASE j \notin F!Fds
    <3>1. Filled(of, hd2)[h] = InHand(hd2[q], j - NOFILE) /\ Filled(of, hd)[h] = InHand(hd[q], j - NOFILE)
      BY <2>1, <2>5 DEF Filled, FilePlaces
    <3>2. j = NOFILE + 1 \/ j = NOFILE + 2
      BY <2>5
    <3>3. NOFILE + 1 # NOFILE + 2
      BY <1>0
    <3>4. DOMAIN Filled(of, hd) = FilePlaces
      BY DEF Filled
    <3>5. CASE q # p
      <4>1. s[h] = Filled(of, hd)[h]
        BY <2>1, <3>4, <3>5
      <4>. QED BY <4>1, <3>1, <2>2, <3>5
    <3>6. CASE q = p /\ j = NOFILE + 1
      <4>1. s[h] = InHand(t, 1)
        BY <2>1, <3>4, <3>6, <3>3
      <4>. QED BY <4>1, <3>1, <2>2, <2>3, <3>6
    <3>7. CASE q = p /\ j = NOFILE + 2
      <4>1. s[h] = InHand(t, 2)
        BY <2>1, <3>4, <3>7, <3>3
      <4>. QED BY <4>1, <3>1, <2>2, <2>3, <3>7
    <3>. QED BY <3>2, <3>5, <3>6, <3>7
  <2>. QED BY <2>4, <2>5
<1>. HIDE DEF hd2
<1>2. Filled(of, hd2) = s
  BY <1>1 DEF Filled
<1>. QED BY <1>2 DEF hd2, PutAt

-----------------------------------------------------------------------------
(* RefExact                                                                *)

\* What the steps have to start from
LEMMA FileFacts ==
  ASSUME F!FileAssumption, FileIInv
  PROVE  /\ F!TypeOK /\ HandInv
         /\ Counts(fref, Filled(ofile, hand)) /\ Filled(ofile, hand) \in Fillings
         /\ fref \in [F!Files -> Nat] /\ hand \in [FileProcs -> Seq(F!Files)]
         /\ ofile \in [FileProcs -> [F!Fds -> F!Files \cup {NoFile}]]
  BY RefCounts, FilledIs DEF FileIInv, F!TypeOK

\* Who refers to a file has it counted, alone if the count is 1.
LEMMA HolderCounted ==
  ASSUME F!FileAssumption, FileIInv, NEW p \in FileProcs
  PROVE  /\ \A fd \in F!Fds : ofile[p][fd] # NoFile =>
               /\ ofile[p][fd] \in F!Files /\ fref[ofile[p][fd]] >= 1
               /\ fref[ofile[p][fd]] = 1 =>
                     /\ \A q \in FileProcs, k \in F!Fds :
                           ofile[q][k] = ofile[p][fd] => q = p /\ k = fd
                     /\ \A q \in FileProcs, k \in {1, 2} : InHand(hand[q], k) # ofile[p][fd]
         /\ \A k \in {1, 2} : k <= Len(hand[p]) =>
               /\ hand[p][k] \in F!Files /\ fref[hand[p][k]] >= 1
               /\ fref[hand[p][k]] = 1 =>
                     /\ \A q \in FileProcs, fd \in F!Fds : ofile[q][fd] # hand[p][k]
                     /\ \A q \in FileProcs, j \in {1, 2} :
                           InHand(hand[q], j) = hand[p][k] => q = p /\ j = k
<1>0. NOFILE \in Nat /\ NOFILE + 1 \notin F!Fds /\ NOFILE + 2 \notin F!Fds /\ NOFILE + 1 # NOFILE + 2
  BY FewFiles DEF F!Fds
<1>. DEFINE s == Filled(ofile, hand)
<1>1. /\ s \in Fillings /\ Counts(fref, s) /\ fref \in [F!Files -> Nat]
      /\ hand \in [FileProcs -> Seq(F!Files)] /\ ofile \in [FileProcs -> [F!Fds -> F!Files \cup {NoFile}]]
  BY FileFacts
<1>2. /\ \A q \in FileProcs, k \in F!Fds : <<q, k>> \in FilePlaces /\ s[<<q, k>>] = ofile[q][k]
      /\ \A q \in FileProcs, k \in {1, 2} : <<q, NOFILE + k>> \in FilePlaces /\ s[<<q, NOFILE + k>>] = InHand(hand[q], k)
  BY FileFacts, FilledIs
<1>. HIDE DEF s
<1>3. ASSUME NEW h \in FilePlaces, s[h] \in F!Files
      PROVE  fref[s[h]] >= 1 /\ \A k \in FilePlaces : s[k] = s[h] /\ fref[s[h]] = 1 => k = h
  BY <1>1, <1>3, CountSole
<1>4. \A k \in {1, 2} : NOFILE + k \notin F!Fds /\ \A j \in {1, 2} : NOFILE + k = NOFILE + j => k = j
  BY <1>0
<1>5. ASSUME NEW fd \in F!Fds, ofile[p][fd] # NoFile
      PROVE  /\ ofile[p][fd] \in F!Files /\ fref[ofile[p][fd]] >= 1
             /\ fref[ofile[p][fd]] = 1 =>
                     /\ \A q \in FileProcs, k \in F!Fds :
                           ofile[q][k] = ofile[p][fd] => q = p /\ k = fd
                     /\ \A q \in FileProcs, k \in {1, 2} : InHand(hand[q], k) # ofile[p][fd]
  <2>1. <<p, fd>> \in FilePlaces /\ s[<<p, fd>>] = ofile[p][fd] /\ s[<<p, fd>>] \in F!Files
    BY <1>1, <1>2, <1>5
  <2>2. /\ fref[ofile[p][fd]] >= 1
        /\ \A k \in FilePlaces : s[k] = ofile[p][fd] /\ fref[ofile[p][fd]] = 1 => k = <<p, fd>>
    BY <2>1, <1>3
  <2>3. ASSUME fref[ofile[p][fd]] = 1, NEW q \in FileProcs, NEW k \in F!Fds, ofile[q][k] = ofile[p][fd]
        PROVE  q = p /\ k = fd
    <3>1. PICK h \in FilePlaces : h = <<q, k>> /\ s[h] = ofile[q][k]
      BY <1>2
    <3>2. <<q, k>> = <<p, fd>>
      BY <2>2, <2>3, <3>1
    <3>. QED BY <3>2
  <2>4. ASSUME fref[ofile[p][fd]] = 1, NEW q \in FileProcs, NEW k \in {1, 2}, InHand(hand[q], k) = ofile[p][fd]
        PROVE  FALSE
    <3>1. PICK h \in FilePlaces : h = <<q, NOFILE + k>> /\ s[h] = InHand(hand[q], k)
      BY <1>2
    <3>2. <<q, NOFILE + k>> = <<p, fd>>
      BY <2>2, <2>4, <3>1
    <3>. QED BY <3>2, <1>4
  <2>. QED BY <2>1, <2>2, <2>3, <2>4
<1>6. ASSUME NEW k \in {1, 2}, k <= Len(hand[p])
      PROVE  /\ hand[p][k] \in F!Files /\ fref[hand[p][k]] >= 1
             /\ fref[hand[p][k]] = 1 =>
                     /\ \A q \in FileProcs, fd \in F!Fds : ofile[q][fd] # hand[p][k]
                     /\ \A q \in FileProcs, j \in {1, 2} :
                           InHand(hand[q], j) = hand[p][k] => q = p /\ j = k
  <2>0. hand[p] \in Seq(F!Files) /\ k \in 1..Len(hand[p])
    BY <1>1, <1>6
  <2>1. hand[p][k] \in F!Files /\ InHand(hand[p], k) = hand[p][k]
    BY <2>0, <1>6 DEF InHand
  <2>2. <<p, NOFILE + k>> \in FilePlaces /\ s[<<p, NOFILE + k>>] = hand[p][k]
    BY <1>2, <2>1
  <2>3. /\ fref[hand[p][k]] >= 1
        /\ \A h \in FilePlaces : s[h] = hand[p][k] /\ fref[hand[p][k]] = 1 => h = <<p, NOFILE + k>>
    BY <2>1, <2>2, <1>3
  <2>4. ASSUME fref[hand[p][k]] = 1, NEW q \in FileProcs, NEW fd \in F!Fds, ofile[q][fd] = hand[p][k]
        PROVE  FALSE
    <3>1. PICK h \in FilePlaces : h = <<q, fd>> /\ s[h] = ofile[q][fd]
      BY <1>2
    <3>2. <<q, fd>> = <<p, NOFILE + k>>
      BY <2>3, <2>4, <3>1
    <3>. QED BY <3>2, <1>4
  <2>5. ASSUME fref[hand[p][k]] = 1, NEW q \in FileProcs, NEW j \in {1, 2}, InHand(hand[q], j) = hand[p][k]
        PROVE  q = p /\ j = k
    <3>1. PICK h \in FilePlaces : h = <<q, NOFILE + j>> /\ s[h] = InHand(hand[q], j)
      BY <1>2
    <3>2. <<q, NOFILE + j>> = <<p, NOFILE + k>>
      BY <2>3, <2>5, <3>1
    <3>. QED BY <3>2, <1>4
  <2>. QED BY <2>1, <2>3, <2>4, <2>5
<1>. QED BY <1>5, <1>6

\* A file that is free is in no place.
LEMMA FreeUnheld ==
  ASSUME F!FileAssumption, FileIInv, NEW f \in F!Files, fref[f] = 0, NEW p \in FileProcs
  PROVE  (\A fd \in F!Fds : ofile[p][fd] # f) /\ (\A k \in {1, 2} : InHand(hand[p], k) # f)
<1>1. \A fd \in F!Fds : ofile[p][fd] # f
  BY HolderCounted, FewFiles
<1>2. \A k \in {1, 2} : InHand(hand[p], k) # f
  BY HolderCounted, FewFiles DEF InHand
<1>. QED BY <1>1, <1>2

LEMMA RefStays ==
  ASSUME F!FileAssumption, FileIInv, UNCHANGED <<fref, ofile, hand>>
  PROVE  F!RefExact'
  BY FileFacts, RefCountsNext

\* filedup() for a descriptor that was free
LEMMA RefDup ==
  ASSUME F!FileAssumption, FileIInv, NEW q \in FileProcs, NEW k \in F!Fds, ofile[q][k] = NoFile,
         NEW f \in F!Files, fref' = [fref EXCEPT ![f] = @ + 1],
         ofile' = [ofile EXCEPT ![q][k] = f], UNCHANGED hand
  PROVE  F!RefExact'
<1>1. Filled(ofile', hand') = PutAt(Filled(ofile, hand), <<q, k>>, f)
  <2>1. ofile' = PutFd(ofile, q, k, f) /\ hand' = hand
    BY DEF PutFd
  <2>2. Filled(PutFd(ofile, q, k, f), hand) = PutAt(Filled(ofile, hand), <<q, k>>, f)
    <3>1. ofile \in [FileProcs -> [F!Fds -> F!Files \cup {NoFile}]]
      BY FileFacts
    <3>. QED BY <3>1, FilledFd
  <2>. QED BY <2>1, <2>2
<1>2. <<q, k>> \in FilePlaces /\ Filled(ofile, hand)[<<q, k>>] = NoFile
  BY FileFacts, FilledIs
<1>3. fref' = More(fref, f)
  BY DEF More
<1>4. Counts(More(fref, f), PutAt(Filled(ofile, hand), <<q, k>>, f))
  BY <1>2, FileFacts, CountTake
<1>. QED BY <1>1, <1>3, <1>4, RefCountsNext

\* fileclose() of a descriptor
LEMMA RefCloseFd ==
  ASSUME F!FileAssumption, FileIInv, NEW q \in FileProcs, NEW k \in F!Fds, ofile[q][k] # NoFile,
         fref' = [fref EXCEPT ![ofile[q][k]] = @ - 1],
         ofile' = [ofile EXCEPT ![q][k] = NoFile], UNCHANGED hand
  PROVE  F!RefExact'
<1>1. Filled(ofile', hand') = PutAt(Filled(ofile, hand), <<q, k>>, NoFile)
  <2>1. ofile' = PutFd(ofile, q, k, NoFile) /\ hand' = hand
    BY DEF PutFd
  <2>2. Filled(PutFd(ofile, q, k, NoFile), hand) = PutAt(Filled(ofile, hand), <<q, k>>, NoFile)
    <3>1. ofile \in [FileProcs -> [F!Fds -> F!Files \cup {NoFile}]]
      BY FileFacts
    <3>. QED BY <3>1, FilledFd
  <2>. QED BY <2>1, <2>2
<1>2. <<q, k>> \in FilePlaces /\ Filled(ofile, hand)[<<q, k>>] = ofile[q][k]
  BY FileFacts, FilledIs
<1>3. ofile[q][k] \in F!Files
  BY HolderCounted
<1>4. fref' = Less(fref, ofile[q][k])
  BY DEF Less
<1>5. Counts(Less(fref, ofile[q][k]), PutAt(Filled(ofile, hand), <<q, k>>, NoFile))
  BY <1>2, <1>3, FileFacts, CountGive
<1>. QED BY <1>1, <1>4, <1>5, RefCountsNext

\* filealloc()
LEMMA RefAlloc ==
  ASSUME F!FileAssumption, FileIInv, NEW p \in FileProcs, Len(hand[p]) <= 1,
         F!FreeFiles # {}, F!filealloc(p), UNCHANGED ofile
  PROVE  F!RefExact'
<1>. DEFINE n == Len(hand[p]) + 1
<1>1. PICK f \in F!Files : f = F!Lowest(F!FreeFiles) /\ fref[f] = 0
  BY LowestFree
<1>2. fref' = More(fref, f) /\ hand' = PutAt(hand, p, Append(hand[p], f))
  <2>1. fref' = [fref EXCEPT ![f] = 1] /\ hand' = [hand EXCEPT ![p] = Append(hand[p], f)]
    BY <1>1, FileFacts DEF F!filealloc
  <2>. QED BY <2>1, <1>1, FileFacts DEF More, PutAt
<1>3. hand[p] \in Seq(F!Files) /\ Len(hand[p]) \in {0, 1}
  <2>1. hand[p] \in Seq(F!Files)
    BY FileFacts
  <2>2. Len(hand[p]) \in Nat
    BY <2>1
  <2>3. \A m \in Nat : m <= 1 => m \in {0, 1}
    OBVIOUS
  <2>. QED BY <2>1, <2>2, <2>3
<1>4. Len(Append(hand[p], f)) = n /\ Append(hand[p], f)[n] = f /\ (n = 2 => Append(hand[p], f)[1] = hand[p][1])
  BY <1>3
<1>5. n = 1 => /\ InHand(Append(hand[p], f), 1) = f /\ InHand(Append(hand[p], f), 2) = NoFile
               /\ InHand(hand[p], 1) = NoFile /\ InHand(hand[p], 2) = NoFile
  BY <1>3, <1>4 DEF InHand
<1>6. n = 2 => /\ InHand(Append(hand[p], f), 1) = hand[p][1] /\ InHand(Append(hand[p], f), 2) = f
               /\ InHand(hand[p], 1) = hand[p][1] /\ InHand(hand[p], 2) = NoFile
  BY <1>3, <1>4 DEF InHand
<1>7. /\ <<p, NOFILE + 1>> \in FilePlaces /\ <<p, NOFILE + 2>> \in FilePlaces
      /\ Filled(ofile, hand)[<<p, NOFILE + 1>>] = InHand(hand[p], 1)
      /\ Filled(ofile, hand)[<<p, NOFILE + 2>>] = InHand(hand[p], 2)
  BY FileFacts, FilledIs
<1>8. Filled(ofile', hand') = PutAt(PutAt(Filled(ofile, hand), <<p, NOFILE + 1>>, InHand(Append(hand[p], f), 1)),
                                  <<p, NOFILE + 2>>, InHand(Append(hand[p], f), 2))
  BY <1>2, FileFacts, FilledHand
<1>9. PICK s \in Fillings : s = Filled(ofile, hand) /\ Counts(fref, s)
  BY FileFacts
<1>10. NOFILE + 1 # NOFILE + 2
  BY FewFiles
<1>. HIDE DEF n
<1>11. CASE n = 1
  <2>1. s[<<p, NOFILE + 1>>] = NoFile /\ s[<<p, NOFILE + 2>>] = NoFile
    BY <1>5, <1>7, <1>9, <1>11
  <2>2. Filled(ofile', hand') = PutAt(PutAt(s, <<p, NOFILE + 1>>, f), <<p, NOFILE + 2>>, NoFile)
    BY <1>5, <1>8, <1>9, <1>11
  <2>3. PutAt(PutAt(s, <<p, NOFILE + 1>>, f), <<p, NOFILE + 2>>, NoFile) = PutAt(s, <<p, NOFILE + 1>>, f)
    <3>1. PICK a \in FilePlaces, b \in FilePlaces : a = <<p, NOFILE + 1>> /\ b = <<p, NOFILE + 2>>
      BY <1>7
    <3>2. a # b /\ s[b] = NoFile
      BY <2>1, <3>1, <1>10
    <3>. QED BY <3>1, <3>2 DEF Fillings, PutAt
  <2>4. Counts(More(fref, f), PutAt(s, <<p, NOFILE + 1>>, f))
    BY <2>1, <1>7, <1>9, FileFacts, CountTake
  <2>. QED BY <2>2, <2>3, <2>4, <1>2, RefCountsNext
<1>12. CASE n = 2
  <2>1. s[<<p, NOFILE + 1>>] = hand[p][1] /\ s[<<p, NOFILE + 2>>] = NoFile
    BY <1>6, <1>7, <1>9, <1>12
  <2>2. Filled(ofile', hand') = PutAt(PutAt(s, <<p, NOFILE + 1>>, hand[p][1]), <<p, NOFILE + 2>>, f)
    BY <1>6, <1>8, <1>9, <1>12
  <2>3. PutAt(s, <<p, NOFILE + 1>>, hand[p][1]) = s
    BY <2>1, <1>7 DEF Fillings, PutAt
  <2>4. Counts(More(fref, f), PutAt(s, <<p, NOFILE + 2>>, f))
    BY <2>1, <1>7, <1>9, FileFacts, CountTake
  <2>. QED BY <2>2, <2>3, <2>4, <1>2, RefCountsNext
<1>. QED BY <1>3, <1>11, <1>12 DEF n

\* The places of the local variables of p, and one place after another
Local(p, k) == <<p, NOFILE + k>>

LEMMA Puts ==
  ASSUME F!FileAssumption, NEW s \in Fillings, NEW h \in FilePlaces, NEW k \in FilePlaces, h # k,
         NEW x \in F!Files \cup {NoFile}, NEW y \in F!Files \cup {NoFile}
  PROVE  /\ PutAt(s, h, x) \in Fillings
         /\ PutAt(PutAt(s, h, x), k, y) = PutAt(PutAt(s, k, y), h, x)
         /\ s[h] = x => PutAt(s, h, x) = s
<1>1. PutAt(s, h, x) \in Fillings
  BY DEF Fillings, PutAt
<1>2. PutAt(PutAt(s, h, x), k, y) = PutAt(PutAt(s, k, y), h, x)
  BY DEF Fillings, PutAt
<1>3. s[h] = x => PutAt(s, h, x) = s
  BY DEF Fillings, PutAt
<1>. QED BY <1>1, <1>2, <1>3

LEMMA LocalPlaces ==
  ASSUME F!FileAssumption, FileIInv, NEW p \in FileProcs
  PROVE  /\ Local(p, 1) \in FilePlaces /\ Local(p, 2) \in FilePlaces /\ Local(p, 1) # Local(p, 2)
         /\ Filled(ofile, hand)[Local(p, 1)] = InHand(hand[p], 1)
         /\ Filled(ofile, hand)[Local(p, 2)] = InHand(hand[p], 2)
         /\ \A fd \in F!Fds : /\ <<p, fd>> \in FilePlaces /\ <<p, fd>> # Local(p, 1) /\ <<p, fd>> # Local(p, 2)
                              /\ Filled(ofile, hand)[<<p, fd>>] = ofile[p][fd]
<1>1. NOFILE + 1 # NOFILE + 2 /\ NOFILE + 1 \notin F!Fds /\ NOFILE + 2 \notin F!Fds
  BY FewFiles DEF F!Fds
<1>. QED BY <1>1, FileFacts, FilledIs DEF Local

\* What p has in its local variables is replaced by t.
LEMMA HandPut ==
  ASSUME F!FileAssumption, FileIInv, NEW p \in FileProcs, NEW of, NEW t
  PROVE  Filled(of, PutAt(hand, p, t)) = PutAt(PutAt(Filled(of, hand), Local(p, 1), InHand(t, 1)), Local(p, 2), InHand(t, 2))
<1>1. hand \in [FileProcs -> Seq(F!Files)]
  BY FileFacts
<1>. QED BY <1>1, FilledHand DEF Local

LEMMA FdPut ==
  ASSUME F!FileAssumption, FileIInv, NEW p \in FileProcs, NEW k \in F!Fds, NEW x
  PROVE  Filled(PutFd(ofile, p, k, x), hand) = PutAt(Filled(ofile, hand), <<p, k>>, x)
<1>1. ofile \in [FileProcs -> [F!Fds -> F!Files \cup {NoFile}]]
  BY FileFacts
<1>. QED BY <1>1, FilledFd

\* A sequence that is empty, has one element, or two
LEMMA SmallSeq ==
  ASSUME NEW S, NEW t \in Seq(S), Len(t) <= 2
  PROVE  /\ Len(t) \in 0..2
         /\ Len(t) = 0 => t = <<>>
         /\ Len(t) = 1 => t # <<>> /\ t[1] \in S /\ Head(t) = t[1] /\ Tail(t) = <<>>
         /\ Len(t) = 2 => /\ t # <<>> /\ t[1] \in S /\ t[2] \in S
                         /\ Head(t) = t[1] /\ Tail(t) = <<t[2]>>
<1>1. Len(t) \in 0..2
  <2>1. Len(t) \in Nat
    OBVIOUS
  <2>2. \A m \in Nat : m <= 2 => m \in 0..2
    OBVIOUS
  <2>. QED BY <2>1, <2>2
<1>2. Len(t) = 0 => t = <<>>
  BY EmptySeq
<1>3. ASSUME Len(t) >= 1
      PROVE  /\ t # <<>> /\ t[1] \in S /\ Head(t) = t[1]
             /\ Tail(t) \in Seq(S) /\ Len(Tail(t)) = Len(t) - 1
  <2>1. t # <<>>
    BY <1>3
  <2>2. t[1] \in S /\ Head(t) = t[1]
    BY <1>1, <1>3, <2>1
  <2>. QED BY <2>1, <2>2, HeadTailProperties
<1>4. ASSUME Len(t) = 1 PROVE Tail(t) = <<>>
  <2>1. Tail(t) \in Seq(S) /\ Len(Tail(t)) = 0
    BY <1>3, <1>4
  <2>. QED BY <2>1, EmptySeq
<1>5. ASSUME Len(t) = 2 PROVE t[2] \in S /\ Tail(t) = <<t[2]>>
  <2>1. t[2] \in S /\ Tail(t) \in Seq(S) /\ Len(Tail(t)) = 1 /\ t # <<>>
    BY <1>3, <1>5
  <2>2. PICK x \in S : x = t[2]
    BY <2>1
  <2>3. PICK u \in Seq(S) : u = Tail(t) /\ Len(u) = 1 /\ \A i \in 1..Len(u) : u[i] = t[i + 1]
    BY <2>1, HeadTailProperties
  <2>4. u[1] = x
    <3>1. Len(u) = 1 /\ \A i \in 1..Len(u) : u[i] = t[i + 1]
      BY <2>3, Zenon
    <3>2. 1 \in 1..Len(u) /\ 1 + 1 = 2
      BY <3>1
    <3>3. u[1] = t[1 + 1]
      BY <3>1, <3>2, Zenon
    <3>. QED BY <3>2, <3>3, <2>2
  <2>5. PICK v \in Seq(S) : v = <<x>> /\ Len(v) = 1 /\ v[1] = x
    <3>1. <<x>> \in Seq(S) /\ Len(<<x>>) = 1 /\ <<x>>[1] = x
      OBVIOUS
    <3>. QED BY <3>1
  <2>6. \A i \in 1..Len(u) : i = 1
    BY <2>3
  <2>7. u = v
    BY <2>3, <2>4, <2>5, <2>6, SeqEqual
  <2>8. Tail(t) = <<x>>
    BY <2>3, <2>5, <2>7
  <2>9. Tail(t) = <<t[2]>>
    BY ONLY <2>2, <2>8, Zenon
  <2>. QED BY <2>1, <2>9, Zenon
<1>6. (Len(t) = 1 => Len(t) >= 1) /\ (Len(t) = 2 => Len(t) >= 1)
  OBVIOUS
<1>7. Len(t) = 1 => t # <<>> /\ t[1] \in S /\ Head(t) = t[1] /\ Tail(t) = <<>>
  BY <1>3, <1>4, <1>6, Zenon
<1>8. Len(t) = 2 => t # <<>> /\ t[1] \in S /\ t[2] \in S /\ Head(t) = t[1] /\ Tail(t) = <<t[2]>>
  BY <1>3, <1>5, <1>6, Zenon
<1>. QED BY <1>1, <1>2, <1>7, <1>8, Zenon

LEMMA Hands ==
  ASSUME F!FileAssumption, FileIInv, NEW p \in FileProcs
  PROVE  /\ hand[p] \in Seq(F!Files) /\ Len(hand[p]) \in 0..2
         /\ Len(hand[p]) = 0 => hand[p] = <<>> /\ InHand(hand[p], 1) = NoFile /\ InHand(hand[p], 2) = NoFile
         /\ Len(hand[p]) = 1 => /\ hand[p][1] \in F!Files /\ Head(hand[p]) = hand[p][1] /\ Tail(hand[p]) = <<>>
                                /\ InHand(hand[p], 1) = hand[p][1] /\ InHand(hand[p], 2) = NoFile
         /\ Len(hand[p]) = 2 => /\ hand[p][1] \in F!Files /\ hand[p][2] \in F!Files
                                /\ Head(hand[p]) = hand[p][1] /\ Tail(hand[p]) = <<hand[p][2]>>
                                /\ InHand(hand[p], 1) = hand[p][1] /\ InHand(hand[p], 2) = hand[p][2]
<1>1. hand[p] \in Seq(F!Files) /\ Len(hand[p]) <= 2
  BY FileFacts DEF HandInv
<1>2. PICK t \in Seq(F!Files) : t = hand[p]
  BY <1>1
<1>3. /\ Len(t) \in 0..2
      /\ Len(t) = 0 => t = <<>>
      /\ Len(t) = 1 => t # <<>> /\ t[1] \in F!Files /\ Head(t) = t[1] /\ Tail(t) = <<>>
      /\ Len(t) = 2 => /\ t # <<>> /\ t[1] \in F!Files /\ t[2] \in F!Files
                      /\ Head(t) = t[1] /\ Tail(t) = <<t[2]>>
  BY <1>1, <1>2, SmallSeq
<1>4. /\ Len(t) = 0 => InHand(t, 1) = NoFile /\ InHand(t, 2) = NoFile
      /\ Len(t) = 1 => InHand(t, 1) = t[1] /\ InHand(t, 2) = NoFile
      /\ Len(t) = 2 => InHand(t, 1) = t[1] /\ InHand(t, 2) = t[2]
  BY DEF InHand
<1>. QED BY <1>1, <1>2, <1>3, <1>4

\* A descriptor, or two, is closed into the hands; one is opened from them.
LEMMA RefSysClose ==
  ASSUME F!FileAssumption, FileIInv, NEW p \in FileProcs, NEW fd \in F!Fds, F!sys_close(p, fd)
  PROVE  F!RefExact'
<1>1. PICK f \in F!Files : f = ofile[p][fd]
  BY HolderCounted DEF F!sys_close
<1>2. ofile' = PutFd(ofile, p, fd, NoFile) /\ hand' = PutAt(hand, p, <<f>>) /\ fref' = fref
  BY <1>1 DEF F!sys_close, PutFd, PutAt, F!file
<1>3. hand[p] = <<>>
  BY DEF F!sys_close, FileIInv, HandInv
<1>4. InHand(<<f>>, 1) = f /\ InHand(<<f>>, 2) = NoFile /\ InHand(hand[p], 1) = NoFile /\ InHand(hand[p], 2) = NoFile
  BY <1>3 DEF InHand
<1>5. PICK s \in Fillings : s = Filled(ofile, hand) /\ Counts(fref, s) /\ fref \in [F!Files -> Nat]
  BY FileFacts
<1>6. PICK a \in FilePlaces, b \in FilePlaces, d \in FilePlaces :
         /\ a = Local(p, 1) /\ b = Local(p, 2) /\ d = <<p, fd>> /\ a # b /\ a # d /\ b # d
         /\ s[a] = NoFile /\ s[b] = NoFile /\ s[d] = f
  <2>1. /\ Local(p, 1) \in FilePlaces /\ Local(p, 2) \in FilePlaces /\ Local(p, 1) # Local(p, 2)
        /\ s[Local(p, 1)] = NoFile /\ s[Local(p, 2)] = NoFile
    BY <1>4, <1>5, LocalPlaces
  <2>2. <<p, fd>> \in FilePlaces /\ <<p, fd>> # Local(p, 1) /\ <<p, fd>> # Local(p, 2) /\ s[<<p, fd>>] = f
    BY <1>1, <1>5, LocalPlaces
  <2>. QED BY <2>1, <2>2
<1>7. Filled(ofile', hand') = PutAt(PutAt(Filled(PutFd(ofile, p, fd, NoFile), hand), a, f), b, NoFile)
  BY <1>2, <1>4, <1>6, HandPut
<1>8. Filled(PutFd(ofile, p, fd, NoFile), hand) = PutAt(s, d, NoFile)
  BY <1>5, <1>6, FdPut
<1>9. PutAt(PutAt(s, d, NoFile), a, f) \in Fillings /\ Counts(fref, PutAt(PutAt(s, d, NoFile), a, f))
  BY <1>5, <1>6, CountMove
<1>10. PutAt(PutAt(s, d, NoFile), a, f)[b] = NoFile
  BY <1>6 DEF Fillings, PutAt
<1>11. PutAt(PutAt(PutAt(s, d, NoFile), a, f), b, NoFile) = PutAt(PutAt(s, d, NoFile), a, f)
  BY <1>6, <1>9, <1>10, Puts
<1>. QED BY <1>2, <1>7, <1>8, <1>9, <1>11, RefCountsNext

LEMMA RefOpenFd ==
  ASSUME F!FileAssumption, FileIInv, NEW p \in FileProcs, F!OpenFd(p)
  PROVE  F!RefExact'
<1>1. Len(hand[p]) = 1
  BY DEF F!OpenFd, FileIInv, HandInv
<1>2. PICK f \in F!Files : f = Head(hand[p]) /\ f = hand[p][1] /\ InHand(hand[p], 1) = f /\ InHand(hand[p], 2) = NoFile
  BY <1>1, Hands
<1>3. hand' = PutAt(hand, p, <<>>) /\ InHand(<<>>, 1) = NoFile /\ InHand(<<>>, 2) = NoFile
  BY DEF F!OpenFd, PutAt, InHand
<1>4. PICK s \in Fillings : s = Filled(ofile, hand) /\ Counts(fref, s) /\ fref \in [F!Files -> Nat]
  BY FileFacts
<1>5. PICK a \in FilePlaces, b \in FilePlaces :
         /\ a = Local(p, 1) /\ b = Local(p, 2) /\ a # b /\ s[a] = f /\ s[b] = NoFile
  BY <1>2, <1>4, LocalPlaces
<1>6. Filled(ofile', hand') = PutAt(PutAt(Filled(ofile', hand), a, NoFile), b, NoFile)
  BY <1>3, <1>5, HandPut
<1>7. CASE F!FreeFds(p) # {}
  <2>1. PICK k \in F!Fds : k = F!Lowest(F!FreeFds(p)) /\ ofile[p][k] = NoFile
    BY <1>7, LowestFree
  <2>2. ofile' = PutFd(ofile, p, k, f) /\ fref' = fref
    BY <2>1, <1>2, <1>7 DEF F!OpenFd, PutFd
  <2>3. PICK d \in FilePlaces : d = <<p, k>> /\ d # a /\ d # b /\ s[d] = NoFile
    BY <2>1, <1>4, <1>5, LocalPlaces
  <2>4. Filled(ofile', hand) = PutAt(s, d, f)
    BY <2>2, <2>3, <1>4, FdPut
  <2>5. PutAt(PutAt(s, a, NoFile), d, f) \in Fillings /\ Counts(fref, PutAt(PutAt(s, a, NoFile), d, f))
    BY <2>3, <1>4, <1>5, CountMove
  <2>6. PutAt(PutAt(s, d, f), a, NoFile) = PutAt(PutAt(s, a, NoFile), d, f)
    BY <2>3, Puts
  <2>7. PutAt(PutAt(s, a, NoFile), d, f)[b] = NoFile
    BY <2>3, <1>5 DEF Fillings, PutAt
  <2>8. PutAt(PutAt(PutAt(s, a, NoFile), d, f), b, NoFile) = PutAt(PutAt(s, a, NoFile), d, f)
    BY <2>3, <2>5, <2>7, Puts
  <2>. QED BY <1>6, <2>2, <2>4, <2>5, <2>6, <2>8, RefCountsNext
<1>8. CASE F!FreeFds(p) = {}
  <2>1. ofile' = ofile /\ fref' = Less(fref, f)
    BY <1>2, <1>8 DEF F!OpenFd, F!fileclose, Less
  <2>2. PutAt(s, a, NoFile) \in Fillings /\ Counts(Less(fref, f), PutAt(s, a, NoFile))
    BY <1>4, <1>5, CountGive
  <2>3. PutAt(s, a, NoFile)[b] = NoFile
    BY <1>5 DEF Fillings, PutAt
  <2>4. PutAt(PutAt(s, a, NoFile), b, NoFile) = PutAt(s, a, NoFile)
    BY <1>5, <2>2, <2>3, Puts
  <2>. QED BY <1>4, <1>6, <2>1, <2>2, <2>4, RefCountsNext
<1>. QED BY <1>7, <1>8

LEMMA RefCloseNext ==
  ASSUME F!FileAssumption, FileIInv, NEW p \in FileProcs, F!CloseNext(p)
  PROVE  F!RefExact'
<1>1. CASE hand[p] = <<>>
  BY <1>1, RefStays DEF F!CloseNext, F!file
<1>2. CASE hand[p] # <<>>
  <2>1. /\ fref' = Less(fref, Head(hand[p])) /\ hand' = PutAt(hand, p, Tail(hand[p])) /\ ofile' = ofile
    BY <1>2 DEF F!CloseNext, F!fileclose, Less, PutAt
  <2>2. Len(hand[p]) = 1 \/ Len(hand[p]) = 2
    BY <1>2, Hands
  <2>3. PICK f \in F!Files : f = Head(hand[p]) /\ f = hand[p][1] /\ InHand(hand[p], 1) = f
    BY <2>2, Hands
  <2>4. PICK s \in Fillings : s = Filled(ofile, hand) /\ Counts(fref, s) /\ fref \in [F!Files -> Nat]
    BY FileFacts
  <2>5. PICK a \in FilePlaces, b \in FilePlaces :
           /\ a = Local(p, 1) /\ b = Local(p, 2) /\ a # b /\ s[a] = f /\ s[b] = InHand(hand[p], 2)
    BY <2>3, <2>4, LocalPlaces
  <2>6. Filled(ofile', hand') = PutAt(PutAt(s, a, InHand(Tail(hand[p]), 1)), b, InHand(Tail(hand[p]), 2))
    BY <2>1, <2>4, <2>5, HandPut
  <2>7. fref[f] >= 1 /\ PutAt(s, a, NoFile) \in Fillings /\ Counts(Less(fref, f), PutAt(s, a, NoFile))
    BY <2>4, <2>5, CountGive
  <2>8. CASE Len(hand[p]) = 1
    <3>1. InHand(Tail(hand[p]), 1) = NoFile /\ InHand(Tail(hand[p]), 2) = NoFile /\ s[b] = NoFile
      BY <2>5, <2>8, Hands DEF InHand
    <3>2. PutAt(s, a, NoFile)[b] = NoFile
      BY <2>5, <3>1 DEF Fillings, PutAt
    <3>3. PutAt(PutAt(s, a, NoFile), b, NoFile) = PutAt(s, a, NoFile)
      BY <2>5, <2>7, <3>2, Puts
    <3>. QED BY <2>1, <2>3, <2>6, <2>7, <3>1, <3>3, RefCountsNext
  <2>9. CASE Len(hand[p]) = 2
    <3>1. PICK g \in F!Files : g = hand[p][2] /\ Tail(hand[p]) = <<g>> /\ InHand(hand[p], 2) = g
      BY <2>9, Hands
    <3>2. InHand(<<g>>, 1) = g /\ InHand(<<g>>, 2) = NoFile
      BY DEF InHand
    <3>3. PICK t \in Fillings : t = PutAt(s, a, NoFile) /\ t[a] = NoFile /\ t[b] = g
      BY <2>5, <2>7, <3>1 DEF Fillings, PutAt
    <3>4. Less(fref, f) \in [F!Files -> Nat]
      BY <2>4, <2>7 DEF Less
    <3>5. Counts(Less(fref, f), PutAt(PutAt(t, b, NoFile), a, g))
      BY <2>7, <2>5, <3>3, <3>4, CountMove
    <3>6. PutAt(PutAt(t, b, NoFile), a, g) = PutAt(PutAt(s, a, g), b, NoFile)
      BY <2>5, <3>3 DEF Fillings, PutAt
    <3>. QED BY <2>1, <2>3, <2>6, <3>1, <3>2, <3>5, <3>6, RefCountsNext
  <2>. QED BY <2>2, <2>8, <2>9
<1>. QED BY <1>1, <1>2

\* sys_pipe() finds two descriptors.
LEMMA TwoFds ==
  ASSUME F!FileAssumption, NEW p \in FileProcs, F!Cardinality(F!FreeFds(p)) >= 2
  PROVE  LET k == F!Lowest(F!FreeFds(p))  j == F!Lowest(F!FreeFds(p) \ {k})
         IN  k \in F!FreeFds(p) /\ j \in F!FreeFds(p) /\ j # k
<1>. DEFINE S == F!FreeFds(p)  k == F!Lowest(S)
<1>1. S \in SUBSET Nat /\ S \in SUBSET F!Fds /\ IsFiniteSet(F!Fds)
  <2>1. NOFILE \in Nat
    BY FewFiles
  <2>2. IsFiniteSet(F!Fds)
    BY <2>1, FS_Interval, 0 \in Int, NOFILE - 1 \in Int DEF F!Fds
  <2>. QED BY <2>1, <2>2 DEF F!FreeFds, F!Fds
<1>2. IsFiniteSet(S) /\ Cardinality(S) >= 2
  BY <1>1, FS_Subset, SameCount
<1>3. S # {}
  BY <1>2, FS_EmptySet
<1>. HIDE DEF S
<1>4. k \in S
  BY <1>1, <1>3, LowestIn
<1>. HIDE DEF k
<1>5. IsFiniteSet(S \ {k}) /\ Cardinality(S \ {k}) = Cardinality(S) - 1
  BY <1>2, <1>4, FS_RemoveElement
<1>6. S \ {k} # {}
  <2>1. Cardinality(S \ {k}) # 0
    BY <1>2, <1>5
  <2>. QED BY <1>5, <2>1, FS_EmptySet
<1>7. F!Lowest(S \ {k}) \in S \ {k}
  BY <1>1, <1>6, LowestIn
<1>. QED BY <1>4, <1>7 DEF S, k

LEMMA RefPipeFds ==
  ASSUME F!FileAssumption, FileIInv, NEW p \in FileProcs, F!PipeFds(p)
  PROVE  F!RefExact'
<1>1. CASE UNCHANGED <<ofile, hand>>
  BY <1>1, RefStays DEF F!PipeFds, F!file
<1>2. CASE ~ UNCHANGED <<ofile, hand>>
  <2>1. Len(hand[p]) = 2 /\ F!Cardinality(F!FreeFds(p)) >= 2 /\ hand' = [hand EXCEPT ![p] = <<>>]
    BY <1>2 DEF F!PipeFds, FileIInv, HandInv
  <2>2. PICK k \in F!Fds, j \in F!Fds :
           /\ k = F!Lowest(F!FreeFds(p)) /\ j = F!Lowest(F!FreeFds(p) \ {k}) /\ j # k
           /\ ofile[p][k] = NoFile /\ ofile[p][j] = NoFile
    BY <2>1, TwoFds DEF F!FreeFds
  <2>3. PICK f \in F!Files, g \in F!Files :
           f = hand[p][1] /\ g = hand[p][2] /\ InHand(hand[p], 1) = f /\ InHand(hand[p], 2) = g
    BY <2>1, Hands
  <2>4. fref' = fref /\ ofile' = [ofile EXCEPT ![p][k] = f, ![p][j] = g]
    BY <1>2, <2>2, <2>3 DEF F!PipeFds, F!file
  <2>5. PICK of \in [FileProcs -> [F!Fds -> F!Files \cup {NoFile}]] : of = PutFd(ofile, p, k, f)
    BY FileFacts DEF PutFd
  <2>6. ofile' = PutFd(of, p, j, g) /\ hand' = PutAt(hand, p, <<>>)
    BY <2>1, <2>4, <2>5 DEF PutFd, PutAt
  <2>7. PICK s \in Fillings : s = Filled(ofile, hand) /\ Counts(fref, s) /\ fref \in [F!Files -> Nat]
    BY FileFacts
  <2>8. PICK a \in FilePlaces, b \in FilePlaces :
           /\ a = Local(p, 1) /\ b = Local(p, 2) /\ a # b /\ s[a] = f /\ s[b] = g
    BY <2>3, <2>7, LocalPlaces
  <2>9. PICK d \in FilePlaces, e \in FilePlaces :
           /\ d = <<p, k>> /\ e = <<p, j>> /\ d # a /\ d # b /\ e # a /\ e # b /\ d # e
           /\ s[d] = NoFile /\ s[e] = NoFile
    <3>1. /\ <<p, k>> \in FilePlaces /\ <<p, k>> # a /\ <<p, k>> # b /\ s[<<p, k>>] = NoFile
          /\ <<p, j>> \in FilePlaces /\ <<p, j>> # a /\ <<p, j>> # b /\ s[<<p, j>>] = NoFile
      BY <2>2, <2>7, <2>8, LocalPlaces
    <3>2. <<p, k>> # <<p, j>>
      BY <2>2
    <3>. QED BY <3>1, <3>2
  <2>10. InHand(<<>>, 1) = NoFile /\ InHand(<<>>, 2) = NoFile
    BY DEF InHand
  <2>11. Filled(ofile', hand') = PutAt(PutAt(Filled(ofile', hand), a, NoFile), b, NoFile)
    BY <2>6, <2>8, <2>10, HandPut
  <2>12. Filled(ofile', hand) = PutAt(Filled(of, hand), e, g)
    BY <2>6, <2>9, FilledFd
  <2>13. Filled(of, hand) = PutAt(s, d, f)
    BY <2>5, <2>7, <2>9, FdPut
  <2>14. PICK t \in Fillings : t = PutAt(PutAt(s, a, NoFile), d, f) /\ Counts(fref, t)
    BY <2>7, <2>8, <2>9, CountMove
  <2>15. t[b] = g /\ t[e] = NoFile
    BY <2>8, <2>9, <2>14 DEF Fillings, PutAt
  <2>16. Counts(fref, PutAt(PutAt(t, b, NoFile), e, g))
    BY <2>7, <2>14, <2>15, CountMove
  <2>17. PutAt(PutAt(t, b, NoFile), e, g) = PutAt(PutAt(PutAt(PutAt(s, d, f), e, g), a, NoFile), b, NoFile)
    BY <2>8, <2>9, <2>14 DEF Fillings, PutAt
  <2>. QED BY <2>4, <2>11, <2>12, <2>13, <2>16, <2>17, RefCountsNext
<1>. QED BY <1>1, <1>2

-----------------------------------------------------------------------------
(* What the steps leave of the other invariants                            *)

\* The types of struct file
FileTypes ==
    /\ fref \in [F!Files -> Nat]
    /\ ftype \in [F!Files -> {"FD_NONE", "FD_PIPE", "FD_INODE"}]
    /\ writable \in [F!Files -> BOOLEAN]
    /\ pipe \in [F!Files -> Pipes \cup {NoPipe}]

\* The step is p's: the other processes have what they had.
OnlyBy(p) ==
    \A q \in FileProcs \ {p} :
        fpc'[q] = fpc[q] /\ hand'[q] = hand[q] /\ ff'[q] = ff[q] /\ ofile'[q] = ofile[q]

\* A file whose last reference goes is left in no place.
Left(f) ==
    \A q \in FileProcs : /\ \A k \in F!Fds : ofile'[q][k] # f
                         /\ \A k \in 1..Len(hand'[q]) : hand'[q][k] # f

Ops == {F!Nothing, F!Inode} \cup [type : {"FD_PIPE"}, pipe : Pipes, writable : BOOLEAN]

LEMMA InHands ==
  ASSUME F!FileAssumption, FileIInv, NEW p \in FileProcs, NEW k \in 1..Len(hand[p])
  PROVE  k \in {1, 2} /\ InHand(hand[p], k) = hand[p][k] /\ hand[p][k] \in F!Files
<1>1. Len(hand[p]) \in 0..2 /\ hand[p] \in Seq(F!Files)
  BY Hands
<1>2. k \in {1, 2}
  <2>1. PICK n \in 0..2 : n = Len(hand[p])
    BY <1>1
  <2>2. k \in 1..n
    BY <2>1
  <2>. QED BY <2>2
<1>. QED BY <1>1, <1>2, Hands DEF InHand

\* fileclose()
LEMMA FileClosed ==
  ASSUME F!FileAssumption, FileIInv, NEW p \in FileProcs, NEW f \in F!Files,
         NEW op \in {F!Nothing, F!Inode}, F!fileclose(p, f, op),
         fref[f] >= 1, fref[f] = 1 => Left(f), OnlyBy(p), fpc'[p] \in {"closing", "exit"},
         \A k \in F!Fds : ofile'[p][k] \in {ofile[p][k], NoFile}
  PROVE  /\ FileTypes' /\ ff' \in [FileProcs -> Ops]
         /\ F!UsableHasType' /\ FreeInv' /\ NewInv'
<1>0. F!TypeOK /\ FreeInv /\ NewInv /\ F!UsableHasType
  BY DEF FileIInv
<1>1. /\ fref' = [fref EXCEPT ![f] = @ - 1]
      /\ ftype' = [ftype EXCEPT ![f] = IF fref[f] = 1 THEN "FD_NONE" ELSE @]
      /\ pipe' = [pipe EXCEPT ![f] = IF fref[f] = 1 THEN NoPipe ELSE @]
  BY DEF F!fileclose
<1>2. /\ fref \in [F!Files -> Nat] /\ ftype \in [F!Files -> {"FD_NONE", "FD_PIPE", "FD_INODE"}]
      /\ pipe \in [F!Files -> Pipes \cup {NoPipe}] /\ writable \in [F!Files -> BOOLEAN]
      /\ ff \in [FileProcs -> Ops]
  BY <1>0 DEF F!TypeOK, Ops
<1>3. fref' \in [F!Files -> Nat]
  BY <1>1, <1>2
<1>4. /\ ftype' \in [F!Files -> {"FD_NONE", "FD_PIPE", "FD_INODE"}]
      /\ pipe' \in [F!Files -> Pipes \cup {NoPipe}]
  BY <1>1, <1>2
<1>5. writable' \in [F!Files -> BOOLEAN]
  <2>1. writable' = [writable EXCEPT ![f] = fref[f] > 1 /\ @]
    BY DEF F!fileclose
  <2>. QED BY <2>1, <1>2
<1>6. ff' \in [FileProcs -> Ops]
  <2>1. F!StandsFor(f, ftype[f]) \in Ops
    <3>1. CASE ftype[f] = "FD_NONE"
      BY <3>1 DEF F!StandsFor, Ops
    <3>2. CASE ftype[f] = "FD_INODE"
      BY <3>2 DEF F!StandsFor, Ops
    <3>3. CASE ftype[f] = "FD_PIPE"
      <4>1. F!StandsFor(f, ftype[f]) = [type |-> "FD_PIPE", pipe |-> pipe[f], writable |-> writable[f]]
        BY <3>3 DEF F!StandsFor
      <4>2. pipe[f] \in Pipes /\ writable[f] \in BOOLEAN
        BY <3>3, <1>0, <1>2 DEF FreeInv
      <4>. QED BY <4>1, <4>2 DEF Ops
    <3>. QED BY <3>1, <3>2, <3>3, <1>2
  <2>2. PICK x \in Ops : ff' = [ff EXCEPT ![p] = x]
    <3>1. op \in Ops /\ F!Nothing \in Ops
      BY DEF Ops
    <3>. QED BY <2>1, <3>1 DEF F!fileclose
  <2>. QED BY <2>2, <1>2
<1>7. \A g \in F!Files : g # f \/ fref[f] # 1 => ftype'[g] = ftype[g] /\ (fref[g] > 0 => fref'[g] > 0) /\ pipe'[g] = pipe[g]
  BY <1>1, <1>2
<1>8. F!UsableHasType'
  <2>1. ASSUME NEW q \in FileProcs, NEW k \in F!Fds, ofile'[q][k] # NoFile
        PROVE  fref'[ofile'[q][k]] > 0 /\ ftype'[ofile'[q][k]] # "FD_NONE"
    <3>1. ofile'[q][k] = ofile[q][k]
      BY <2>1 DEF OnlyBy
    <3>2. ofile[q][k] \in F!Files /\ fref[ofile[q][k]] > 0 /\ ftype[ofile[q][k]] # "FD_NONE"
      BY <2>1, <3>1, <1>0 DEF F!TypeOK, F!UsableHasType
    <3>3. ofile[q][k] # f \/ fref[f] # 1
      BY <3>1 DEF Left
    <3>. QED BY <3>1, <3>2, <3>3, <1>7
  <2>. QED BY <2>1 DEF F!UsableHasType, F!Fds
<1>9. FreeInv'
  <2>1. ASSUME NEW g \in F!Files
        PROVE  (fref'[g] = 0 => ftype'[g] = "FD_NONE") /\ (ftype'[g] = "FD_PIPE" => pipe'[g] \in Pipes)
    BY <1>0, <1>1, <1>2 DEF FreeInv
  <2>. QED BY <2>1 DEF FreeInv, F!Files
<1>10. NewInv'
  <2>1. ASSUME NEW q \in FileProcs, NEW k \in 1..Len(hand'[q]),
               fpc'[q] \in {"open_fd", "pipe1", "pipe_page", "pipe_fds"}
        PROVE  /\ fpc'[q] # "pipe_fds" => fref'[hand'[q][k]] = 1 /\ ftype'[hand'[q][k]] = "FD_NONE"
               /\ fpc'[q] = "pipe_fds" => ftype'[hand'[q][k]] = "FD_PIPE"
    <3>1. q # p /\ fpc'[q] = fpc[q] /\ hand'[q] = hand[q]
      BY <2>1 DEF OnlyBy
    <3>2. /\ fpc[q] # "pipe_fds" => fref[hand[q][k]] = 1 /\ ftype[hand[q][k]] = "FD_NONE"
          /\ fpc[q] = "pipe_fds" => ftype[hand[q][k]] = "FD_PIPE"
      BY <2>1, <3>1, <1>0 DEF NewInv
    <3>3. hand[q][k] \in F!Files
      BY <2>1, <3>1, InHands
    <3>4. hand[q][k] # f \/ fref[f] # 1
      BY <2>1, <3>1 DEF Left
    <3>5. fpc[q] # "pipe_fds" => hand[q][k] # f
      BY <3>2, <3>4
    <3>. QED BY <3>1, <3>2, <3>3, <3>4, <3>5, <1>1, <1>2, <1>7
  <2>. QED BY <2>1 DEF NewInv
<1>. QED BY <1>3, <1>4, <1>5, <1>6, <1>8, <1>9, <1>10 DEF FileTypes, F!Files

\* filealloc()
LEMMA FileAlloced ==
  ASSUME F!FileAssumption, FileIInv, NEW p \in FileProcs, F!FreeFiles # {}, F!filealloc(p),
         OnlyBy(p), UNCHANGED ofile,
         \/ Len(hand[p]) = 0 /\ fpc'[p] \in {"open_fd", "pipe1"}
         \/ Len(hand[p]) = 1 /\ fpc[p] = "pipe1" /\ fpc'[p] = "pipe_page"
  PROVE  /\ FileTypes' /\ hand' \in [FileProcs -> Seq(F!Files)] /\ Len(hand'[p]) = Len(hand[p]) + 1
         /\ F!UsableHasType' /\ FreeInv' /\ NewInv'
         /\ F!RefExact'
<1>0. F!TypeOK /\ FreeInv /\ NewInv /\ F!UsableHasType
  BY DEF FileIInv
<1>1. PICK f \in F!Files : f = F!Lowest(F!FreeFiles) /\ fref[f] = 0
  BY LowestFree
<1>2. /\ fref' = [fref EXCEPT ![f] = 1] /\ hand' = [hand EXCEPT ![p] = Append(@, f)]
      /\ ftype' = ftype /\ writable' = writable /\ pipe' = pipe
  BY <1>1 DEF F!filealloc
<1>3. FileTypes /\ hand \in [FileProcs -> Seq(F!Files)]
  BY <1>0 DEF F!TypeOK, FileTypes
<1>4. FileTypes'
  BY <1>2, <1>3 DEF FileTypes, F!Files
<1>5. hand' \in [FileProcs -> Seq(F!Files)] /\ Len(hand'[p]) = Len(hand[p]) + 1 /\ hand'[p] = Append(hand[p], f)
  BY <1>2, <1>3
<1>6. \A g \in F!Files : fref'[g] = IF g = f THEN 1 ELSE fref[g]
  BY <1>2, <1>3 DEF FileTypes
<1>7. ftype[f] = "FD_NONE"
  BY <1>0, <1>1 DEF FreeInv
<1>8. F!UsableHasType'
  <2>1. ASSUME NEW q \in FileProcs, NEW k \in F!Fds, ofile[q][k] # NoFile
        PROVE  fref'[ofile[q][k]] > 0 /\ ftype[ofile[q][k]] # "FD_NONE"
    <3>1. ofile[q][k] \in F!Files /\ fref[ofile[q][k]] > 0 /\ ftype[ofile[q][k]] # "FD_NONE"
      BY <2>1, <1>0 DEF F!TypeOK, F!UsableHasType
    <3>. QED BY <3>1, <1>6
  <2>. QED BY <2>1, <1>2 DEF F!UsableHasType, F!Fds
<1>9. FreeInv'
  BY <1>0, <1>2, <1>6, <1>7 DEF FreeInv, F!Files
<1>10. NewInv'
  <2>1. ASSUME NEW q \in FileProcs, NEW k \in 1..Len(hand[q])
        PROVE  hand[q][k] \in F!Files /\ fref'[hand[q][k]] = fref[hand[q][k]]
    <3>1. k \in {1, 2} /\ InHand(hand[q], k) = hand[q][k] /\ hand[q][k] \in F!Files
      BY <2>1, InHands
    <3>2. hand[q][k] # f
      BY <3>1, <1>1, FreeUnheld
    <3>. QED BY <3>1, <3>2, <1>6
  <2>2. ASSUME NEW q \in FileProcs, NEW k \in 1..Len(hand'[q]),
               fpc'[q] \in {"open_fd", "pipe1", "pipe_page", "pipe_fds"}
        PROVE  /\ fpc'[q] # "pipe_fds" => fref'[hand'[q][k]] = 1 /\ ftype'[hand'[q][k]] = "FD_NONE"
               /\ fpc'[q] = "pipe_fds" => ftype'[hand'[q][k]] = "FD_PIPE"
    <3>1. CASE q # p
      <4>1. fpc'[q] = fpc[q] /\ hand'[q] = hand[q]
        BY <3>1 DEF OnlyBy
      <4>. QED BY <4>1, <2>1, <2>2, <1>0, <1>2 DEF NewInv
    <3>2. CASE q = p
      <4>1. fpc'[p] # "pipe_fds"
        OBVIOUS
      <4>2. hand[p] \in Seq(F!Files) /\ Len(hand[p]) \in Nat
        BY <1>3
      <4>3. CASE k = Len(hand[p]) + 1
        <5>1. hand'[p][k] = f
          BY <1>5, <4>2, <4>3
        <5>. QED BY <3>2, <4>1, <5>1, <1>2, <1>6, <1>7
      <4>4. CASE k # Len(hand[p]) + 1
        <5>1. k \in 1..Len(hand[p]) /\ hand'[p][k] = hand[p][k]
          BY <3>2, <2>2, <1>5, <4>2, <4>4
        <5>2. fpc[p] = "pipe1"
          BY <5>1
        <5>3. fref[hand[p][k]] = 1 /\ ftype[hand[p][k]] = "FD_NONE"
          BY <5>1, <5>2, <1>0 DEF NewInv
        <5>. QED BY <3>2, <4>1, <5>1, <5>3, <2>1, <1>2
      <4>. QED BY <4>3, <4>4
    <3>. QED BY <3>1, <3>2
  <2>. QED BY <2>2 DEF NewInv
<1>11. F!RefExact'
  <2>1. Len(hand[p]) <= 1
    <3>1. Len(hand[p]) = 0 \/ Len(hand[p]) = 1
      BY Zenon
    <3>2. \A m : m = 0 \/ m = 1 => m <= 1
      OBVIOUS
    <3>. QED BY <3>1, <3>2, Zenon
  <2>. QED BY <2>1, RefAlloc
<1>. QED BY <1>4, <1>5, <1>8, <1>9, <1>10, <1>11

\* fork() under way is not disturbed by a process that runs.
LEMMA ForkStays ==
  ASSUME F!FileAssumption, FileIInv, NEW p \in FileProcs, UNCHANGED child, OnlyBy(p),
         fpc[p] \notin {"unused", "fork"}, fpc'[p] \notin {"unused", "fork"}
  PROVE  ForkInv'
<1>1. ForkInv
  BY DEF FileIInv
<1>2. \A q \in FileProcs : /\ fpc[q] = "fork" <=> fpc'[q] = "fork"
                           /\ fpc[q] = "unused" <=> fpc'[q] = "unused"
                           /\ fpc[q] \in {"fork", "unused"} => ofile'[q] = ofile[q]
  BY DEF OnlyBy
<1>3. ASSUME NEW q \in FileProcs, fpc'[q] = "fork"
      PROVE  /\ child[q] \in FileProcs /\ fpc'[child[q]] = "unused"
             /\ \A fd \in F!Fds : ofile'[child[q]][fd] \in {NoFile, ofile'[q][fd]}
  <2>1. /\ fpc[q] = "fork" /\ child[q] \in FileProcs /\ fpc[child[q]] = "unused"
        /\ \A fd \in F!Fds : ofile[child[q]][fd] \in {NoFile, ofile[q][fd]}
    BY <1>1, <1>2, <1>3 DEF ForkInv
  <2>2. ofile'[q] = ofile[q] /\ ofile'[child[q]] = ofile[child[q]] /\ fpc'[child[q]] = "unused"
    BY <2>1, <1>2
  <2>. QED BY <2>1, <2>2
<1>4. \A q \in FileProcs : fpc'[q] # "fork" => child[q] = NoProc
  BY <1>1, <1>2 DEF ForkInv
<1>5. \A q, r \in FileProcs : child[q] = child[r] => q = r \/ child[q] = NoProc
  BY <1>1 DEF ForkInv
<1>6. ASSUME NEW q \in FileProcs, fpc'[q] = "unused", \A r \in FileProcs : child[r] # q
      PROVE  \A fd \in F!Fds : ofile'[q][fd] = NoFile
  <2>1. fpc[q] = "unused" /\ ofile'[q] = ofile[q]
    BY <1>2, <1>6
  <2>. QED BY <2>1, <1>1, <1>6 DEF ForkInv
<1>. QED BY <1>3, <1>4, <1>5, <1>6 DEF ForkInv, F!Fds

-----------------------------------------------------------------------------
(* The references to inodes                                                *)

Running == {p \in FileProcs : fpc[p] # "unused"}
InodeFiles == {f \in F!Files : fref[f] > 0 /\ ftype[f] = "FD_INODE"}
Opening == {p \in FileProcs : fpc[p] \in {"open", "open_fd"}}
InodeDrops == {p \in FileProcs : ff[p].type = "FD_INODE"}
In(x, S) == IF x \in S THEN 1 ELSE 0

LEMMA OneChanged ==
  ASSUME NEW S, NEW T, IsFiniteSet(S), IsFiniteSet(T), NEW x, \A y : y # x => (y \in S <=> y \in T)
  PROVE  Cardinality(T) = Cardinality(S) + In(x, T) - In(x, S)
<1>1. Cardinality(S) \in Nat /\ Cardinality(T) \in Nat
  BY FS_CardinalityType
<1>2. CASE x \in S /\ x \in T
  <2>1. S = T
    BY <1>2
  <2>. QED BY <1>1, <1>2, <2>1 DEF In
<1>3. CASE x \notin S /\ x \notin T
  <2>1. S = T
    BY <1>3
  <2>. QED BY <1>1, <1>3, <2>1 DEF In
<1>4. CASE x \in S /\ x \notin T
  <2>1. T = S \ {x}
    BY <1>4
  <2>2. Cardinality(T) = Cardinality(S) - 1
    BY <1>4, <2>1, FS_RemoveElement
  <2>. QED BY <1>1, <1>4, <2>2 DEF In
<1>5. CASE x \notin S /\ x \in T
  <2>1. T = S \cup {x}
    BY <1>5
  <2>2. Cardinality(T) = Cardinality(S) + 1
    BY <1>5, <2>1, FS_AddElement
  <2>. QED BY <1>1, <1>5, <2>2 DEF In
<1>. QED BY <1>2, <1>3, <1>4, <1>5

LEMMA InodeSets ==
  ASSUME F!FileAssumption
  PROVE  /\ IsFiniteSet(Running) /\ IsFiniteSet(InodeFiles) /\ IsFiniteSet(Opening) /\ IsFiniteSet(InodeDrops)
         /\ IsFiniteSet(Running') /\ IsFiniteSet(InodeFiles') /\ IsFiniteSet(Opening') /\ IsFiniteSet(InodeDrops')
<1>1. /\ Running \in SUBSET FileProcs /\ Opening \in SUBSET FileProcs /\ InodeDrops \in SUBSET FileProcs
      /\ Running' \in SUBSET FileProcs /\ Opening' \in SUBSET FileProcs /\ InodeDrops' \in SUBSET FileProcs
  BY DEF Running, Opening, InodeDrops
<1>2. InodeFiles \in SUBSET F!Files /\ InodeFiles' \in SUBSET F!Files
  BY DEF InodeFiles, F!Files
<1>. QED BY <1>1, <1>2, FewFiles, FS_Subset

LEMMA InodeCounts ==
  /\ F!InodeRefsExact <=> iref = Cardinality(Running) + Cardinality(InodeFiles) + Cardinality(Opening) + Cardinality(InodeDrops)
  /\ F!InodeRefsExact' <=> iref' = Cardinality(Running') + Cardinality(InodeFiles') + Cardinality(Opening') + Cardinality(InodeDrops')
<1>1. F!InodeRefsExact <=> iref = Cardinality(Running) + Cardinality(InodeFiles) + Cardinality(Opening) + Cardinality(InodeDrops)
  BY SameCount DEF F!InodeRefsExact, Running, InodeFiles, Opening, InodeDrops
<1>2. F!InodeRefsExact' <=> iref' = Cardinality(Running') + Cardinality(InodeFiles') + Cardinality(Opening') + Cardinality(InodeDrops')
  BY SameCount DEF F!InodeRefsExact, Running, InodeFiles, Opening, InodeDrops, F!Files
<1>. QED BY <1>1, <1>2

\* One process at most starts or ends, one file at most is given a type or loses
\* it, and one system call at most takes or drops a reference.
LEMMA InodeStep ==
  ASSUME F!FileAssumption, FileIInv, NEW r, NEW p, NEW f,
         \A q \in FileProcs : q # r => (fpc[q] = "unused" <=> fpc'[q] = "unused"),
         \A q \in FileProcs : q # p => (q \in Opening <=> q \in Opening') /\ ff'[q] = ff[q],
         \A g \in F!Files : g # f => (g \in InodeFiles <=> g \in InodeFiles'),
         iref' = iref + (In(r, Running') - In(r, Running)) + (In(f, InodeFiles') - In(f, InodeFiles))
                      + (In(p, Opening') - In(p, Opening)) + (In(p, InodeDrops') - In(p, InodeDrops))
  PROVE  F!InodeRefsExact' /\ iref' \in Nat
<1>1. Cardinality(Running') = Cardinality(Running) + In(r, Running') - In(r, Running)
  <2>1. \A q : q # r => (q \in Running <=> q \in Running')
    BY DEF Running
  <2>. QED BY <2>1, InodeSets, OneChanged
<1>2. Cardinality(InodeFiles') = Cardinality(InodeFiles) + In(f, InodeFiles') - In(f, InodeFiles)
  <2>1. \A g : g # f => (g \in InodeFiles <=> g \in InodeFiles')
    BY DEF InodeFiles, F!Files
  <2>. QED BY <2>1, InodeSets, OneChanged
<1>3. Cardinality(Opening') = Cardinality(Opening) + In(p, Opening') - In(p, Opening)
  <2>1. \A q : q # p => (q \in Opening <=> q \in Opening')
    BY DEF Opening
  <2>. QED BY <2>1, InodeSets, OneChanged
<1>4. Cardinality(InodeDrops') = Cardinality(InodeDrops) + In(p, InodeDrops') - In(p, InodeDrops)
  <2>1. \A q : q # p => (q \in InodeDrops <=> q \in InodeDrops')
    BY DEF InodeDrops
  <2>. QED BY <2>1, InodeSets, OneChanged
<1>5. /\ Cardinality(Running) \in Nat /\ Cardinality(InodeFiles) \in Nat
      /\ Cardinality(Opening) \in Nat /\ Cardinality(InodeDrops) \in Nat
      /\ Cardinality(Running') \in Nat /\ Cardinality(InodeFiles') \in Nat
      /\ Cardinality(Opening') \in Nat /\ Cardinality(InodeDrops') \in Nat
  BY InodeSets, FS_CardinalityType
<1>6. iref = Cardinality(Running) + Cardinality(InodeFiles) + Cardinality(Opening) + Cardinality(InodeDrops)
  BY InodeCounts DEF FileIInv
<1>7. /\ In(r, Running) \in Int /\ In(f, InodeFiles) \in Int /\ In(p, Opening) \in Int /\ In(p, InodeDrops) \in Int
      /\ In(r, Running') \in Int /\ In(f, InodeFiles') \in Int /\ In(p, Opening') \in Int /\ In(p, InodeDrops') \in Int
  BY DEF In
<1>8. iref' = Cardinality(Running') + Cardinality(InodeFiles') + Cardinality(Opening') + Cardinality(InodeDrops')
  BY <1>1, <1>2, <1>3, <1>4, <1>5, <1>6, <1>7
<1>. QED BY <1>5, <1>8, InodeCounts

LEMMA InodeSame ==
  ASSUME F!FileAssumption, FileIInv, UNCHANGED iref,
         \A q \in FileProcs : /\ fpc[q] = "unused" <=> fpc'[q] = "unused"
                              /\ fpc[q] \in {"open", "open_fd"} <=> fpc'[q] \in {"open", "open_fd"}
                              /\ ff[q].type = "FD_INODE" <=> ff'[q].type = "FD_INODE",
         \A g \in F!Files : (g \in InodeFiles <=> g \in InodeFiles')
  PROVE  F!InodeRefsExact' /\ iref' \in Nat
<1>1. Running' = Running /\ Opening' = Opening /\ InodeDrops' = InodeDrops
  BY DEF Running, Opening, InodeDrops
<1>2. InodeFiles' = InodeFiles
  <2>1. \A g : g \in InodeFiles <=> g \in InodeFiles'
    BY DEF InodeFiles, F!Files
  <2>. QED BY <2>1
<1>. QED BY <1>1, <1>2, InodeCounts DEF FileIInv, F!TypeOK

-----------------------------------------------------------------------------
(* The ends of pipes                                                       *)

LEMMA EndsSame ==
  ASSUME F!FileAssumption, FileIInv, UNCHANGED <<ends, kpages>>,
         \A f \in F!Files : (f \in PipeFiles <=> f \in PipeFiles') /\ (f \in PipeFiles => FileEnd(f)' = FileEnd(f)),
         \A p \in FileProcs : (p \in Droppers <=> p \in Droppers') /\ (p \in Droppers => DropEnd(p)' = DropEnd(p))
  PROVE  EndsInv'
<1>1. PipeFiles' = PipeFiles
  <2>1. \A f : f \in PipeFiles <=> f \in PipeFiles'
    BY DEF PipeFiles, F!Files
  <2>. QED BY <2>1
<1>2. Droppers' = Droppers
  <2>1. \A p : p \in Droppers <=> p \in Droppers'
    BY DEF Droppers
  <2>. QED BY <2>1
<1>3. PipeFiles \subseteq F!Files /\ Droppers \subseteq FileProcs
  BY DEF PipeFiles, Droppers
<1>4. \A f \in PipeFiles : FileEnd(f)' = FileEnd(f)
  BY <1>3
<1>5. \A p \in Droppers : DropEnd(p)' = DropEnd(p)
  BY <1>3
<1>6. EndsInv
  BY DEF FileIInv
<1>. QED BY <1>1, <1>2, <1>4, <1>5, <1>6 DEF EndsInv

\* The last close of a file moves its end to the closer.
LEMMA EndsMove ==
  ASSUME F!FileAssumption, FileIInv, UNCHANGED <<ends, kpages>>,
         NEW f \in PipeFiles, NEW p \in FileProcs \ Droppers,
         PipeFiles' = PipeFiles \ {f}, Droppers' = Droppers \cup {p},
         \A g \in PipeFiles \ {f} : FileEnd(g)' = FileEnd(g),
         \A q \in Droppers : DropEnd(q)' = DropEnd(q), DropEnd(p)' = FileEnd(f)
  PROVE  EndsInv'
<1>1. EndsInv
  BY DEF FileIInv
<1>2. \A g \in PipeFiles' : g \in PipeFiles /\ g # f /\ FileEnd(g)' = FileEnd(g)
  OBVIOUS
<1>3. \A q \in Droppers' : \/ q \in Droppers /\ q # p /\ DropEnd(q)' = DropEnd(q)
                           \/ q = p /\ DropEnd(q)' = FileEnd(f)
  OBVIOUS
<1>4. \A g \in PipeFiles' : FileEnd(g)' \in ends'
  BY <1>1, <1>2 DEF EndsInv
<1>5. \A q \in Droppers' : DropEnd(q)' \in ends'
  BY <1>1, <1>3 DEF EndsInv
<1>6. \A g, h \in PipeFiles' : FileEnd(g)' = FileEnd(h)' => g = h
  BY <1>1, <1>2 DEF EndsInv
<1>7. \A q, r \in Droppers' : DropEnd(q)' = DropEnd(r)' => q = r
  BY <1>1, <1>3 DEF EndsInv
<1>8. \A g \in PipeFiles', q \in Droppers' : FileEnd(g)' # DropEnd(q)'
  BY <1>1, <1>2, <1>3 DEF EndsInv
<1>9. ASSUME NEW e \in ends'
      PROVE  (\E g \in PipeFiles' : FileEnd(g)' = e) \/ (\E q \in Droppers' : DropEnd(q)' = e)
  <2>1. CASE e = FileEnd(f)
    <3>1. p \in Droppers' /\ DropEnd(p)' = e
      BY <2>1
    <3>. QED BY <3>1
  <2>2. CASE e # FileEnd(f)
    BY <2>2, <1>1 DEF EndsInv
  <2>. QED BY <2>1, <2>2
<1>10. kpages' = {e[1] : e \in ends'}
  BY <1>1 DEF EndsInv
<1>. QED BY <1>4, <1>5, <1>6, <1>7, <1>8, <1>9, <1>10 DEF EndsInv

\* pipeclose() drops an end, and the page with the second one.
LEMMA EndsDrop ==
  ASSUME F!FileAssumption, FileIInv, NEW p \in Droppers, F!Drop(p)
  PROVE  EndsInv' /\ kpages' \subseteq Pipes /\ ends' \subseteq Pipes \X BOOLEAN
<1>1. EndsInv /\ kpages \subseteq Pipes /\ ends \subseteq Pipes \X BOOLEAN /\ p \in FileProcs
  BY DEF FileIInv, F!TypeOK, Droppers
<1>2. ff \in [FileProcs -> Ops] /\ ff[p].type = "FD_PIPE"
  BY DEF FileIInv, F!TypeOK, Droppers, Ops
<1>3. PICK pi \in Pipes, w \in BOOLEAN : ff[p].pipe = pi /\ ff[p].writable = w
  BY <1>1, <1>2 DEF Ops, F!Nothing, F!Inode
<1>4. DropEnd(p) = <<pi, w>>
  BY <1>3 DEF DropEnd
<1>5. /\ ends' = ends \ {<<pi, w>>}
      /\ kpages' = IF <<pi, ~ w>> \in ends THEN kpages ELSE kpages \ {pi}
      /\ ff' = [ff EXCEPT ![p] = F!Nothing] /\ UNCHANGED <<ftype, pipe, writable>>
  BY <1>2, <1>3 DEF F!Drop, F!file
<1>6. PipeFiles' = PipeFiles /\ \A g : FileEnd(g)' = FileEnd(g)
  BY <1>5 DEF PipeFiles, F!Files, FileEnd
<1>7. Droppers' = Droppers \ {p} /\ \A q \in Droppers' : DropEnd(q)' = DropEnd(q)
  <2>1. \A q \in FileProcs : ff'[q] = IF q = p THEN F!Nothing ELSE ff[q]
    BY <1>2, <1>5
  <2>2. F!Nothing.type # "FD_PIPE"
    BY DEF F!Nothing
  <2>3. \A q : q \in Droppers' <=> q \in Droppers \ {p}
    BY <2>1, <2>2 DEF Droppers
  <2>4. \A q \in Droppers \ {p} : ff'[q] = ff[q]
    BY <2>1 DEF Droppers
  <2>. QED BY <2>3, <2>4 DEF DropEnd
<1>8. \A e \in ends' : e \in ends /\ e # DropEnd(p)
  BY <1>4, <1>5
<1>9. \A e \in ends : e # DropEnd(p) => e \in ends'
  BY <1>4, <1>5
<1>10. \A g \in PipeFiles' : FileEnd(g)' \in ends'
  BY <1>1, <1>6, <1>9 DEF EndsInv
<1>11. \A q \in Droppers' : DropEnd(q)' \in ends'
  BY <1>1, <1>7, <1>9 DEF EndsInv
<1>12. \A g, h \in PipeFiles' : FileEnd(g)' = FileEnd(h)' => g = h
  BY <1>1, <1>6 DEF EndsInv
<1>13. \A q, r \in Droppers' : DropEnd(q)' = DropEnd(r)' => q = r
  BY <1>1, <1>7 DEF EndsInv
<1>14. \A g \in PipeFiles', q \in Droppers' : FileEnd(g)' # DropEnd(q)'
  BY <1>1, <1>6, <1>7 DEF EndsInv
<1>15. ASSUME NEW e \in ends'
       PROVE  (\E g \in PipeFiles' : FileEnd(g)' = e) \/ (\E q \in Droppers' : DropEnd(q)' = e)
  BY <1>1, <1>6, <1>7, <1>8 DEF EndsInv
<1>16. kpages' = {e[1] : e \in ends'}
  <2>1. kpages = {e[1] : e \in ends}
    BY <1>1 DEF EndsInv
  <2>2. \A e \in ends : e[1] = pi => e = <<pi, w>> \/ e = <<pi, ~ w>>
    <3>1. ASSUME NEW e \in ends, e[1] = pi PROVE e = <<pi, w>> \/ e = <<pi, ~ w>>
      <4>1. PICK b \in BOOLEAN : e = <<pi, b>>
        BY <1>1, <3>1
      <4>2. b = w \/ b = ~ w
        BY Zenon
      <4>. QED BY <4>1, <4>2
    <3>. QED BY <3>1
  <2>3. <<pi, w>> \in ends
    BY <1>1, <1>4 DEF EndsInv
  <2>4. <<pi, ~ w>> # <<pi, w>>
    BY Zenon
  <2>5. CASE <<pi, ~ w>> \in ends
    <3>1. <<pi, ~ w>> \in ends'
      BY <1>5, <2>4, <2>5
    <3>2. \A x : x \in kpages <=> \E e \in ends' : x = e[1]
      <4>1. ASSUME NEW e \in ends PROVE \E d \in ends' : e[1] = d[1]
        <5>1. CASE e = <<pi, w>>
          <6>1. e[1] = <<pi, ~ w>>[1]
            BY <5>1
          <6>. QED BY <3>1, <6>1
        <5>2. CASE e # <<pi, w>>
          BY <1>5, <5>2
        <5>. QED BY <5>1, <5>2
      <4>. QED BY <2>1, <4>1, <1>5
    <3>. QED BY <1>5, <2>5, <3>2
  <2>6. CASE <<pi, ~ w>> \notin ends
    <3>1. \A e \in ends : e[1] = pi <=> e = <<pi, w>>
      BY <2>2, <2>6
    <3>2. \A x : x \in kpages \ {pi} <=> \E e \in ends' : x = e[1]
      BY <2>1, <3>1, <1>5
    <3>. QED BY <1>5, <2>6, <3>2
  <2>. QED BY <2>5, <2>6
<1>17. EndsInv'
  BY <1>10, <1>11, <1>12, <1>13, <1>14, <1>15, <1>16 DEF EndsInv
<1>. QED BY <1>1, <1>5, <1>17

\* pipealloc() gives both ends of a new page to two files.
LEMMA EndsNew ==
  ASSUME F!FileAssumption, FileIInv, NEW pi \in Pipes \ kpages,
         NEW f \in F!Files, NEW g \in F!Files, f # g, f \notin PipeFiles, g \notin PipeFiles,
         kpages' = kpages \cup {pi}, ends' = ends \cup {<<pi, FALSE>>, <<pi, TRUE>>},
         ftype' = [ftype EXCEPT ![f] = "FD_PIPE", ![g] = "FD_PIPE"],
         writable' = [writable EXCEPT ![f] = FALSE, ![g] = TRUE],
         pipe' = [pipe EXCEPT ![f] = pi, ![g] = pi], UNCHANGED ff
  PROVE  EndsInv' /\ kpages' \subseteq Pipes /\ ends' \subseteq Pipes \X BOOLEAN
<1>1. EndsInv /\ kpages \subseteq Pipes /\ ends \subseteq Pipes \X BOOLEAN /\ FileTypes
  BY DEF FileIInv, F!TypeOK, FileTypes
<1>2. kpages' \subseteq Pipes /\ ends' \subseteq Pipes \X BOOLEAN
  <2>1. <<pi, FALSE>> \in Pipes \X BOOLEAN /\ <<pi, TRUE>> \in Pipes \X BOOLEAN
    OBVIOUS
  <2>2. ends' \subseteq Pipes \X BOOLEAN
    BY <1>1, <2>1, Zenon
  <2>. QED BY <1>1, <2>2
<1>3. \A q : q \in Droppers' <=> q \in Droppers
  BY DEF Droppers
<1>4. \A q : DropEnd(q)' = DropEnd(q)
  BY DEF DropEnd
<1>5. \A h \in F!Files : ftype'[h] = IF h = f \/ h = g THEN "FD_PIPE" ELSE ftype[h]
  BY <1>1 DEF FileTypes
<1>6. \A h : h \in PipeFiles' <=> h \in PipeFiles \/ h = f \/ h = g
  BY <1>5 DEF PipeFiles, F!Files
<1>7. FileEnd(f)' = <<pi, FALSE>> /\ FileEnd(g)' = <<pi, TRUE>>
  <2>1. pipe'[f] = pi /\ pipe'[g] = pi
    BY <1>1 DEF FileTypes
  <2>2. writable'[f] = FALSE /\ writable'[g] = TRUE
    BY <1>1, Zenon DEF FileTypes
  <2>. QED BY <2>1, <2>2, Zenon DEF FileEnd
<1>8. ASSUME NEW h \in PipeFiles PROVE FileEnd(h)' = FileEnd(h)
  <2>1. h \in F!Files /\ h # f /\ h # g
    BY DEF PipeFiles
  <2>2. pipe'[h] = pipe[h]
    BY <1>1, <2>1 DEF FileTypes
  <2>3. writable'[h] = writable[h]
    BY <1>1, <2>1, Zenon DEF FileTypes
  <2>. QED BY <2>2, <2>3, Zenon DEF FileEnd
<1>9. \A e \in ends : e # <<pi, FALSE>> /\ e # <<pi, TRUE>> /\ e[1] # pi
  <2>1. kpages = {e[1] : e \in ends}
    BY <1>1 DEF EndsInv
  <2>2. \A e \in ends : e[1] # pi
    BY <2>1
  <2>3. <<pi, FALSE>>[1] = pi /\ <<pi, TRUE>>[1] = pi
    OBVIOUS
  <2>. QED BY <2>2, <2>3, Zenon
<1>10. <<pi, FALSE>> # <<pi, TRUE>> /\ <<pi, FALSE>> \in ends' /\ <<pi, TRUE>> \in ends' /\ \A e \in ends : e \in ends'
  OBVIOUS
<1>11. \A h \in PipeFiles : FileEnd(h)' \in ends
  BY <1>1, <1>8 DEF EndsInv
<1>12. \A q \in Droppers' : DropEnd(q)' \in ends
  BY <1>1, <1>3, <1>4 DEF EndsInv
<1>13. \A h \in PipeFiles' : FileEnd(h)' \in ends'
  BY <1>6, <1>7, <1>10, <1>11
<1>14. \A q \in Droppers' : DropEnd(q)' \in ends'
  BY <1>10, <1>12
<1>15. \A h, k \in PipeFiles' : FileEnd(h)' = FileEnd(k)' => h = k
  <2>1. ASSUME NEW h \in PipeFiles', NEW k \in PipeFiles', FileEnd(h)' = FileEnd(k)' PROVE h = k
    <3>1. CASE h \in PipeFiles /\ k \in PipeFiles
      BY <2>1, <3>1, <1>1, <1>8 DEF EndsInv
    <3>2. CASE h \in PipeFiles /\ k \in {f, g}
      BY <2>1, <3>2, <1>7, <1>9, <1>11
    <3>3. CASE h \in {f, g} /\ k \in PipeFiles
      BY <2>1, <3>3, <1>7, <1>9, <1>11
    <3>4. CASE h \in {f, g} /\ k \in {f, g}
      <4>1. FileEnd(f)' # FileEnd(g)'
        BY <1>7, <1>10, Zenon
      <4>2. CASE h = f /\ k = g
        BY <2>1, <4>1, <4>2
      <4>3. CASE h = g /\ k = f
        BY <2>1, <4>1, <4>3
      <4>. QED BY <3>4, <4>2, <4>3
    <3>. QED BY <3>1, <3>2, <3>3, <3>4, <1>6
  <2>. QED BY <2>1
<1>16. \A q, r \in Droppers' : DropEnd(q)' = DropEnd(r)' => q = r
  BY <1>1, <1>3, <1>4 DEF EndsInv
<1>17. \A h \in PipeFiles', q \in Droppers' : FileEnd(h)' # DropEnd(q)'
  <2>1. ASSUME NEW h \in PipeFiles', NEW q \in Droppers' PROVE FileEnd(h)' # DropEnd(q)'
    <3>1. CASE h \in PipeFiles
      BY <3>1, <1>1, <1>3, <1>4, <1>8 DEF EndsInv
    <3>2. CASE h \in {f, g}
      BY <3>2, <1>7, <1>9, <1>12
    <3>. QED BY <3>1, <3>2, <1>6
  <2>. QED BY <2>1
<1>18. ASSUME NEW e \in ends'
       PROVE  (\E h \in PipeFiles' : FileEnd(h)' = e) \/ (\E q \in Droppers' : DropEnd(q)' = e)
  <2>1. CASE e \in ends
    <3>1. (\E h \in PipeFiles : FileEnd(h) = e) \/ (\E q \in Droppers : DropEnd(q) = e)
      BY <2>1, <1>1 DEF EndsInv
    <3>. QED BY <3>1, <1>3, <1>4, <1>6, <1>8
  <2>2. CASE e = <<pi, FALSE>>
    BY <2>2, <1>6, <1>7
  <2>3. CASE e = <<pi, TRUE>>
    BY <2>3, <1>6, <1>7
  <2>. QED BY <2>1, <2>2, <2>3
<1>19. kpages' = {e[1] : e \in ends'}
  <2>1. kpages = {e[1] : e \in ends}
    BY <1>1 DEF EndsInv
  <2>2. <<pi, FALSE>>[1] = pi /\ <<pi, TRUE>>[1] = pi
    OBVIOUS
  <2>3. \A x : x \in kpages' <=> \E e \in ends' : x = e[1]
    BY <2>1, <2>2
  <2>. QED BY <2>3
<1>20. EndsInv'
  BY <1>13, <1>14, <1>15, <1>16, <1>17, <1>18, <1>19 DEF EndsInv
<1>. QED BY <1>2, <1>20

-----------------------------------------------------------------------------
(* Each step keeps the invariant                                           *)

ProcTypes ==
    /\ ofile \in [FileProcs -> [F!Fds -> F!Files \cup {NoFile}]]
    /\ fpc \in [FileProcs -> {"unused", "idle", "closing", "open", "open_fd", "pipe1",
                              "pipe_page", "pipe_fds", "fork", "exit"}]
    /\ hand \in [FileProcs -> Seq(F!Files)]
    /\ child \in [FileProcs -> FileProcs \cup {NoProc}]
PipeTypes == kpages \subseteq Pipes /\ ends \subseteq Pipes \X BOOLEAN

\* HandInv for one process
HandAt(label, h, d) ==
    /\ Len(h) <= 2
    /\ label \in {"unused", "idle", "open", "fork", "exit"} => h = <<>>
    /\ label \in {"open_fd", "pipe1"} => Len(h) = 1
    /\ label \in {"pipe_page", "pipe_fds"} => Len(h) = 2
    /\ label \notin {"closing", "exit"} => d = F!Nothing

LEMMA FileStart ==
  ASSUME FileIInv
  PROVE  /\ F!TypeOK /\ F!RefExact /\ F!UsableHasType /\ F!InodeRefsExact
         /\ FreeInv /\ HandInv /\ NewInv /\ ForkInv /\ EndsInv
         /\ FileTypes /\ ff \in [FileProcs -> Ops] /\ ProcTypes /\ PipeTypes /\ iref \in Nat
         /\ \A p \in FileProcs : HandAt(fpc[p], hand[p], ff[p])
<1>1. \A p \in FileProcs : HandAt(fpc[p], hand[p], ff[p])
  BY DEF FileIInv, HandInv, HandAt
<1>2. FileTypes /\ ff \in [FileProcs -> Ops] /\ ProcTypes /\ PipeTypes /\ iref \in Nat
  BY DEF FileIInv, F!TypeOK, FileTypes, Ops, ProcTypes, PipeTypes
<1>. QED BY <1>1, <1>2 DEF FileIInv

LEMMA FileEndOfStep ==
  ASSUME FileTypes', ff' \in [FileProcs -> Ops], ProcTypes', PipeTypes', iref' \in Nat,
         F!RefExact', F!UsableHasType', F!InodeRefsExact',
         FreeInv', HandInv', NewInv', ForkInv', EndsInv'
  PROVE  FileIInv'
<1>1. F!TypeOK'
  BY DEF F!TypeOK, FileTypes, ProcTypes, PipeTypes, Ops, F!Files, F!Fds, F!Nothing, F!Inode
<1>. QED BY <1>1 DEF FileIInv

LEMMA HandBy ==
  ASSUME FileIInv, NEW p \in FileProcs, OnlyBy(p), HandAt(fpc'[p], hand'[p], ff'[p])
  PROVE  HandInv'
<1>1. \A q \in FileProcs : HandAt(fpc'[q], hand'[q], ff'[q])
  BY FileStart DEF OnlyBy
<1>. QED BY <1>1 DEF HandInv, HandAt, F!Nothing

\* The files stay as they are, and no descriptor is added.
LEMMA FilesStay ==
  ASSUME F!FileAssumption, FileIInv, UNCHANGED <<fref, ftype, writable, pipe>>
  PROVE  /\ FileTypes' /\ FreeInv'
         /\ UNCHANGED ofile => F!UsableHasType'
         /\ UNCHANGED <<ff, kpages, ends>> => EndsInv'
         /\ \A f : f \in InodeFiles <=> f \in InodeFiles'
<1>1. FileTypes' /\ FreeInv'
  BY FileStart DEF FileTypes, FreeInv, F!Files
<1>2. UNCHANGED ofile => F!UsableHasType'
  BY FileStart DEF F!UsableHasType, F!Fds
<1>3. UNCHANGED <<ff, kpages, ends>> => EndsInv'
  <2>1. \A f : (f \in PipeFiles <=> f \in PipeFiles') /\ FileEnd(f)' = FileEnd(f)
    BY DEF PipeFiles, FileEnd, F!Files
  <2>2. UNCHANGED ff => \A p : (p \in Droppers <=> p \in Droppers') /\ DropEnd(p)' = DropEnd(p)
    BY DEF Droppers, DropEnd
  <2>. QED BY <2>1, <2>2, EndsSame
<1>4. \A f : f \in InodeFiles <=> f \in InodeFiles'
  BY DEF InodeFiles, F!Files
<1>. QED BY <1>1, <1>2, <1>3, <1>4

LEMMA NewStays ==
  ASSUME FileIInv, NEW p \in FileProcs, OnlyBy(p), UNCHANGED <<fref, ftype>>,
         fpc'[p] \notin {"open_fd", "pipe1", "pipe_page", "pipe_fds"}
  PROVE  NewInv'
<1>1. NewInv
  BY DEF FileIInv
<1>2. ASSUME NEW q \in FileProcs, NEW k \in 1..Len(hand'[q]),
             fpc'[q] \in {"open_fd", "pipe1", "pipe_page", "pipe_fds"}
      PROVE  /\ fpc'[q] # "pipe_fds" => fref'[hand'[q][k]] = 1 /\ ftype'[hand'[q][k]] = "FD_NONE"
             /\ fpc'[q] = "pipe_fds" => ftype'[hand'[q][k]] = "FD_PIPE"
  <2>1. q # p /\ fpc'[q] = fpc[q] /\ hand'[q] = hand[q]
    BY <1>2 DEF OnlyBy
  <2>. QED BY <2>1, <1>1, <1>2 DEF NewInv
<1>. QED BY <1>2 DEF NewInv

\* filedup() for a descriptor k of q that was free
LEMMA FileDuped ==
  ASSUME F!FileAssumption, FileIInv, NEW p \in FileProcs, NEW fd \in F!Fds, ofile[p][fd] # NoFile,
         NEW q \in FileProcs, NEW k \in F!Fds, ofile[q][k] = NoFile,
         F!filedup(ofile[p][fd]), ofile' = [ofile EXCEPT ![q][k] = ofile[p][fd]],
         UNCHANGED <<fpc, hand, ff, kpages, ends, iref>>
  PROVE  /\ FileTypes' /\ ofile' \in [FileProcs -> [F!Fds -> F!Files \cup {NoFile}]]
         /\ F!RefExact' /\ F!UsableHasType' /\ F!InodeRefsExact'
         /\ FreeInv' /\ NewInv' /\ EndsInv' /\ iref' \in Nat
<1>1. PICK f \in F!Files : f = ofile[p][fd] /\ fref[f] > 0 /\ ftype[f] # "FD_NONE"
  BY FileStart DEF ProcTypes, F!UsableHasType
<1>2. /\ fref' = [fref EXCEPT ![f] = @ + 1] /\ ofile' = [ofile EXCEPT ![q][k] = f]
      /\ UNCHANGED <<ftype, writable, pipe>>
  BY <1>1 DEF F!filedup
<1>3. FileTypes /\ ofile \in [FileProcs -> [F!Fds -> F!Files \cup {NoFile}]]
  BY FileStart DEF ProcTypes
<1>4. FileTypes'
  BY <1>2, <1>3 DEF FileTypes, F!Files
<1>5. ofile' \in [FileProcs -> [F!Fds -> F!Files \cup {NoFile}]]
  BY <1>2, <1>3
<1>6. F!RefExact'
  BY <1>1, <1>2, RefDup
<1>7. \A g \in F!Files : fref'[g] = IF g = f THEN fref[f] + 1 ELSE fref[g]
  BY <1>2, <1>3 DEF FileTypes
<1>8. \A g \in F!Files : fref[g] \in Nat
  BY <1>3 DEF FileTypes
<1>9. F!UsableHasType'
  <2>1. ASSUME NEW r \in FileProcs, NEW j \in F!Fds, ofile'[r][j] # NoFile
        PROVE  fref'[ofile'[r][j]] > 0 /\ ftype'[ofile'[r][j]] # "FD_NONE"
    <3>1. CASE r = q /\ j = k
      <4>1. ofile'[r][j] = f
        BY <3>1, <1>2, <1>3
      <4>. QED BY <4>1, <1>1, <1>2, <1>7, <1>8
    <3>2. CASE ~ (r = q /\ j = k)
      <4>1. ofile'[r][j] = ofile[r][j]
        BY <3>2, <1>2, <1>3
      <4>2. ofile[r][j] \in F!Files /\ fref[ofile[r][j]] > 0 /\ ftype[ofile[r][j]] # "FD_NONE"
        BY <2>1, <4>1, FileStart DEF ProcTypes, F!UsableHasType
      <4>. QED BY <4>1, <4>2, <1>2, <1>7, <1>8
    <3>. QED BY <3>1, <3>2
  <2>. QED BY <2>1 DEF F!UsableHasType, F!Fds
<1>10. FreeInv'
  <2>1. FreeInv
    BY FileStart
  <2>. QED BY <2>1, <1>1, <1>2, <1>7, <1>8 DEF FreeInv, F!Files
<1>11. NewInv'
  <2>1. ASSUME NEW r \in FileProcs, NEW j \in 1..Len(hand[r]),
               fpc[r] \in {"open_fd", "pipe1", "pipe_page", "pipe_fds"}
        PROVE  /\ fpc[r] # "pipe_fds" => fref'[hand[r][j]] = 1 /\ ftype[hand[r][j]] = "FD_NONE"
               /\ fpc[r] = "pipe_fds" => ftype[hand[r][j]] = "FD_PIPE"
    <3>1. hand[r][j] \in F!Files
      BY <2>1, InHands
    <3>2. /\ fpc[r] # "pipe_fds" => fref[hand[r][j]] = 1 /\ ftype[hand[r][j]] = "FD_NONE"
          /\ fpc[r] = "pipe_fds" => ftype[hand[r][j]] = "FD_PIPE"
      BY <2>1, FileStart DEF NewInv
    <3>. QED BY <3>1, <3>2, <1>1, <1>7
  <2>. QED BY <2>1, <1>2 DEF NewInv
<1>12. EndsInv'
  <2>1. \A g : (g \in PipeFiles <=> g \in PipeFiles') /\ FileEnd(g)' = FileEnd(g)
    BY <1>2 DEF PipeFiles, FileEnd, F!Files
  <2>2. \A r : (r \in Droppers <=> r \in Droppers') /\ DropEnd(r)' = DropEnd(r)
    BY DEF Droppers, DropEnd
  <2>. QED BY <2>1, <2>2, EndsSame
<1>13. F!InodeRefsExact' /\ iref' \in Nat
  <2>1. \A g \in F!Files : g \in InodeFiles <=> g \in InodeFiles'
    BY <1>1, <1>2, <1>7, <1>8 DEF InodeFiles, F!Files
  <2>. QED BY <2>1, InodeSame
<1>. QED BY <1>4, <1>5, <1>6, <1>9, <1>10, <1>11, <1>12, <1>13

\* fileclose() of f by p, which had nothing to drop: what f stood for is p's now.
LEMMA CloseObjects ==
  ASSUME F!FileAssumption, FileIInv, NEW p \in FileProcs, NEW f \in F!Files,
         NEW op \in {F!Nothing, F!Inode}, F!fileclose(p, f, op), ff[p] = F!Nothing,
         fref[f] >= 1, op = F!Inode => ftype[f] = "FD_NONE", UNCHANGED <<ends, kpages>>
  PROVE  /\ EndsInv'
         /\ \A g \in F!Files : g # f => (g \in InodeFiles <=> g \in InodeFiles')
         /\ (In(f, InodeFiles') - In(f, InodeFiles)) + (In(p, InodeDrops') - In(p, InodeDrops))
               = IF op = F!Inode THEN 1 ELSE 0
         /\ \A q \in FileProcs : q # p => ff'[q] = ff[q]
<1>. DEFINE x == IF op # F!Nothing THEN op
                 ELSE IF fref[f] = 1 THEN F!StandsFor(f, ftype[f]) ELSE F!Nothing
<1>1. /\ fref' = [fref EXCEPT ![f] = @ - 1]
      /\ ftype' = [ftype EXCEPT ![f] = IF fref[f] = 1 THEN "FD_NONE" ELSE @]
      /\ pipe' = [pipe EXCEPT ![f] = IF fref[f] = 1 THEN NoPipe ELSE @]
      /\ writable' = [writable EXCEPT ![f] = fref[f] > 1 /\ @]
      /\ ff' = [ff EXCEPT ![p] = x]
  BY DEF F!fileclose
<1>2. FileTypes /\ ff \in [FileProcs -> Ops]
  BY FileStart
<1>3. ff'[p] = x /\ \A q \in FileProcs : q # p => ff'[q] = ff[q]
  BY <1>1, <1>2
<1>. HIDE DEF x
<1>4. F!Nothing.type = "FD_NONE" /\ F!Inode.type = "FD_INODE" /\ F!Nothing # F!Inode
  BY DEF F!Nothing, F!Inode
<1>5. fref[f] \in Nat /\ ftype[f] \in {"FD_NONE", "FD_PIPE", "FD_INODE"}
  BY <1>2 DEF FileTypes
<1>6. \A g \in F!Files : g # f => fref'[g] = fref[g] /\ ftype'[g] = ftype[g] /\ pipe'[g] = pipe[g]
  BY <1>1, <1>2 DEF FileTypes
<1>7. \A g \in F!Files : g # f => writable'[g] = writable[g]
  BY <1>1, <1>2, Zenon DEF FileTypes
<1>8. /\ fref'[f] = fref[f] - 1
      /\ ftype'[f] = (IF fref[f] = 1 THEN "FD_NONE" ELSE ftype[f])
      /\ pipe'[f] = (IF fref[f] = 1 THEN NoPipe ELSE pipe[f])
  BY <1>1, <1>2 DEF FileTypes
<1>9. fref[f] # 1 => writable'[f] = writable[f]
  <2>1. fref[f] # 1 => fref[f] > 1
    BY <1>5
  <2>2. writable'[f] = (fref[f] > 1 /\ writable[f]) /\ writable[f] \in BOOLEAN
    BY <1>1, <1>2, Zenon DEF FileTypes
  <2>. QED BY <2>1, <2>2, Zenon
<1>10. \A g \in F!Files : g # f => (g \in InodeFiles <=> g \in InodeFiles')
  BY <1>6 DEF InodeFiles, F!Files
<1>11. \A g : g # f => (g \in PipeFiles <=> g \in PipeFiles') /\ (g \in PipeFiles => FileEnd(g)' = FileEnd(g))
  <2>1. \A g : g # f => (g \in PipeFiles <=> g \in PipeFiles')
    BY <1>6 DEF PipeFiles, F!Files
  <2>2. ASSUME NEW g \in PipeFiles, g # f PROVE FileEnd(g)' = FileEnd(g)
    <3>1. pipe'[g] = pipe[g] /\ writable'[g] = writable[g]
      BY <2>2, <1>6, <1>7, Zenon DEF PipeFiles
    <3>. QED BY <3>1, Zenon DEF FileEnd
  <2>. QED BY <2>1, <2>2
<1>12. \A q : q # p => (q \in Droppers <=> q \in Droppers') /\ (q \in Droppers => DropEnd(q)' = DropEnd(q))
  BY <1>3 DEF Droppers, DropEnd
<1>13. p \notin Droppers /\ p \notin InodeDrops
  BY <1>4 DEF Droppers, InodeDrops
<1>14. CASE x = F!Nothing /\ op = F!Nothing /\ (fref[f] # 1 \/ ftype[f] = "FD_NONE")
  <2>1. (f \in PipeFiles <=> f \in PipeFiles') /\ (f \in InodeFiles <=> f \in InodeFiles')
    BY <1>5, <1>8, <1>14 DEF PipeFiles, InodeFiles, F!Files
  <2>2. f \in PipeFiles => FileEnd(f)' = FileEnd(f)
    <3>1. f \in PipeFiles => fref[f] # 1
      BY <1>14 DEF PipeFiles
    <3>2. fref[f] # 1 => pipe'[f] = pipe[f] /\ writable'[f] = writable[f]
      BY <1>8, <1>9
    <3>. QED BY <3>1, <3>2, Zenon DEF FileEnd
  <2>3. p \notin Droppers' /\ p \notin InodeDrops'
    BY <1>3, <1>4, <1>14 DEF Droppers, InodeDrops
  <2>4. EndsInv'
    BY <2>1, <2>2, <2>3, <1>11, <1>12, <1>13, EndsSame
  <2>5. (In(f, InodeFiles') - In(f, InodeFiles)) + (In(p, InodeDrops') - In(p, InodeDrops)) = 0
    BY <2>1, <2>3, <1>13 DEF In
  <2>. QED BY <2>4, <2>5, <1>3, <1>4, <1>10, <1>14
<1>15. CASE x = F!Inode /\ (IF op = F!Inode THEN ftype[f] = "FD_NONE" ELSE fref[f] = 1 /\ ftype[f] = "FD_INODE")
  <2>1. f \notin PipeFiles /\ f \notin PipeFiles'
    BY <1>8, <1>15 DEF PipeFiles, F!Files
  <2>2. p \notin Droppers' /\ p \in InodeDrops'
    BY <1>3, <1>4, <1>15 DEF Droppers, InodeDrops
  <2>3. f \notin InodeFiles' /\ (f \in InodeFiles <=> op # F!Inode)
    BY <1>5, <1>8, <1>15 DEF InodeFiles, F!Files
  <2>4. EndsInv'
    BY <2>1, <2>2, <1>11, <1>12, <1>13, EndsSame
  <2>5. (In(f, InodeFiles') - In(f, InodeFiles)) + (In(p, InodeDrops') - In(p, InodeDrops))
           = IF op = F!Inode THEN 1 ELSE 0
    BY <2>2, <2>3, <1>13 DEF In
  <2>. QED BY <2>4, <2>5, <1>3, <1>10
<1>16. CASE x = F!StandsFor(f, "FD_PIPE") /\ op = F!Nothing /\ fref[f] = 1 /\ ftype[f] = "FD_PIPE"
  <2>1. x = [type |-> "FD_PIPE", pipe |-> pipe[f], writable |-> writable[f]]
    BY <1>16 DEF F!StandsFor
  <2>2. x.type = "FD_PIPE" /\ <<x.pipe, x.writable>> = <<pipe[f], writable[f]>>
    BY <2>1
  <2>3. p \in Droppers' /\ p \notin InodeDrops' /\ DropEnd(p)' = FileEnd(f)
    BY <1>3, <2>2 DEF Droppers, InodeDrops, DropEnd, FileEnd
  <2>4. f \in PipeFiles /\ f \notin PipeFiles' /\ f \notin InodeFiles /\ f \notin InodeFiles'
    BY <1>8, <1>16 DEF PipeFiles, InodeFiles, F!Files
  <2>5. PipeFiles' = PipeFiles \ {f}
    <3>1. \A g : g \in PipeFiles' <=> g \in PipeFiles \ {f}
      BY <2>4, <1>11
    <3>. QED BY <3>1
  <2>6. Droppers' = Droppers \cup {p}
    <3>1. \A q : q \in Droppers' <=> q \in Droppers \cup {p}
      BY <2>3, <1>12
    <3>. QED BY <3>1
  <2>7. EndsInv'
    BY <2>3, <2>4, <2>5, <2>6, <1>11, <1>12, <1>13, EndsMove
  <2>8. (In(f, InodeFiles') - In(f, InodeFiles)) + (In(p, InodeDrops') - In(p, InodeDrops)) = 0
    BY <2>3, <2>4, <1>13 DEF In
  <2>. QED BY <2>7, <2>8, <1>3, <1>4, <1>10, <1>16
<1>17. \/ x = F!Nothing /\ op = F!Nothing /\ (fref[f] # 1 \/ ftype[f] = "FD_NONE")
       \/ x = F!Inode /\ (IF op = F!Inode THEN ftype[f] = "FD_NONE" ELSE fref[f] = 1 /\ ftype[f] = "FD_INODE")
       \/ x = F!StandsFor(f, "FD_PIPE") /\ op = F!Nothing /\ fref[f] = 1 /\ ftype[f] = "FD_PIPE"
  <2>1. F!StandsFor(f, "FD_NONE") = F!Nothing /\ F!StandsFor(f, "FD_INODE") = F!Inode
    BY DEF F!StandsFor
  <2>. QED BY <2>1, <1>4, <1>5 DEF x
<1>. QED BY <1>14, <1>15, <1>16, <1>17

LEMMA StepDrop ==
  ASSUME F!FileAssumption, FileIInv, NEW p \in FileProcs, F!Drop(p)
  PROVE  FileIInv'
<1>1. /\ ff' = [ff EXCEPT ![p] = F!Nothing] /\ ff[p].type # "FD_NONE"
      /\ UNCHANGED <<fref, ftype, writable, pipe, ofile, fpc, hand, child>>
  BY DEF F!Drop, F!file
<1>2. ff \in [FileProcs -> Ops] /\ F!Nothing \in Ops
  BY FileStart DEF Ops
<1>3. ff' \in [FileProcs -> Ops] /\ ff'[p] = F!Nothing /\ \A q \in FileProcs : q # p => ff'[q] = ff[q]
  BY <1>1, <1>2
<1>4. FileTypes' /\ FreeInv' /\ F!UsableHasType' /\ \A f : f \in InodeFiles <=> f \in InodeFiles'
  BY <1>1, FilesStay
<1>5. F!RefExact'
  BY <1>1, RefStays
<1>6. ProcTypes' /\ ForkInv' /\ NewInv'
  <2>1. ProcTypes'
    BY <1>1, FileStart DEF ProcTypes, F!Fds, F!Files
  <2>2. ForkInv'
    BY <1>1, FileStart DEF F!Fds, ForkInv
  <2>3. NewInv'
    BY <1>1, FileStart DEF NewInv
  <2>. QED BY <2>1, <2>2, <2>3
<1>7. HandInv'
  BY <1>1, <1>3, FileStart DEF HandInv, F!Nothing
<1>8. PipeTypes' /\ EndsInv' /\ F!InodeRefsExact' /\ iref' \in Nat
  <2>1. CASE ff[p].type = "FD_PIPE"
    <3>1. PipeTypes' /\ EndsInv'
      BY <2>1, EndsDrop DEF Droppers, PipeTypes
    <3>2. UNCHANGED iref
      BY <2>1 DEF F!Drop
    <3>3. \A q \in FileProcs : ff[q].type = "FD_INODE" <=> ff'[q].type = "FD_INODE"
      BY <1>3, <2>1 DEF F!Nothing
    <3>4. F!InodeRefsExact' /\ iref' \in Nat
      BY <1>1, <1>4, <3>2, <3>3, InodeSame
    <3>. QED BY <3>1, <3>4
  <2>2. CASE ff[p].type # "FD_PIPE"
    <3>1. iref' = iref - 1 /\ UNCHANGED <<kpages, ends>>
      BY <2>2 DEF F!Drop
    <3>2. ff[p].type = "FD_INODE"
      BY <1>1, <1>2, <2>2 DEF Ops, F!Nothing, F!Inode
    <3>3. PipeTypes'
      BY <3>1, FileStart DEF PipeTypes
    <3>4. EndsInv'
      <4>1. \A f : (f \in PipeFiles <=> f \in PipeFiles') /\ FileEnd(f)' = FileEnd(f)
        BY <1>1 DEF PipeFiles, FileEnd, F!Files
      <4>2. F!Nothing.type # "FD_PIPE"
        BY DEF F!Nothing
      <4>3. \A q \in FileProcs : (q \in Droppers <=> q \in Droppers') /\ (q \in Droppers => DropEnd(q)' = DropEnd(q))
        BY <1>3, <2>2, <4>2 DEF Droppers, DropEnd
      <4>. QED BY <4>1, <4>3, <3>1, EndsSame
    <3>5. p \in InodeDrops /\ p \notin InodeDrops'
      BY <1>3, <3>2 DEF InodeDrops, F!Nothing
    <3>6. Running' = Running /\ Opening' = Opening /\ InodeFiles' = InodeFiles
      BY <1>1 DEF Running, Opening, InodeFiles, F!Files
    <3>7. iref' = iref + (In(p, Running') - In(p, Running)) + (In(p, InodeFiles') - In(p, InodeFiles))
                       + (In(p, Opening') - In(p, Opening)) + (In(p, InodeDrops') - In(p, InodeDrops))
      BY <3>1, <3>5, <3>6, FileStart DEF In
    <3>8. F!InodeRefsExact' /\ iref' \in Nat
      BY <1>1, <1>3, <3>6, <3>7, InodeStep
    <3>. QED BY <3>3, <3>4, <3>8
  <2>. QED BY <2>1, <2>2
<1>. QED BY <1>3, <1>4, <1>5, <1>6, <1>7, <1>8, FileEndOfStep

LEMMA StepCloseNext ==
  ASSUME F!FileAssumption, FileIInv, NEW p \in FileProcs, F!CloseNext(p)
  PROVE  FileIInv'
<1>1. fpc[p] = "closing" /\ ff[p] = F!Nothing /\ UNCHANGED <<ofile, child, kpages, ends, iref>>
  BY DEF F!CloseNext, F!objects
<1>2. F!RefExact'
  BY RefCloseNext
<1>3. PipeTypes'
  BY <1>1, FileStart DEF PipeTypes
<1>4. CASE hand[p] = <<>>
  <2>1. fpc' = [fpc EXCEPT ![p] = "idle"] /\ UNCHANGED <<fref, ftype, writable, pipe, hand, ff>>
    BY <1>4 DEF F!CloseNext, F!GoTo, F!file
  <2>2. ProcTypes
    BY FileStart
  <2>3. ProcTypes' /\ fpc'[p] = "idle" /\ OnlyBy(p)
    BY <1>1, <2>1, <2>2 DEF ProcTypes, OnlyBy, F!Files, F!Fds
  <2>4. HandInv'
    <3>1. HandAt(fpc'[p], hand'[p], ff'[p])
      BY <1>1, <1>4, <2>1, <2>3, EmptySeq DEF HandAt
    <3>. QED BY <3>1, <2>3, HandBy
  <2>5. ForkInv'
    BY <1>1, <2>3, ForkStays
  <2>6. NewInv'
    BY <2>1, <2>3, NewStays
  <2>7. /\ FileTypes' /\ FreeInv' /\ F!UsableHasType' /\ EndsInv'
        /\ \A f : f \in InodeFiles <=> f \in InodeFiles'
    BY <1>1, <2>1, FilesStay
  <2>8. F!InodeRefsExact' /\ iref' \in Nat
    <3>1. \A q \in FileProcs : q # p => fpc'[q] = fpc[q]
      BY <2>3 DEF OnlyBy
    <3>. QED BY <1>1, <2>1, <2>3, <2>7, <3>1, InodeSame
  <2>. QED BY <1>2, <1>3, <2>1, <2>3, <2>4, <2>5, <2>6, <2>7, <2>8, FileStart, FileEndOfStep
<1>5. CASE hand[p] # <<>>
  <2>1. F!fileclose(p, Head(hand[p]), F!Nothing) /\ hand' = [hand EXCEPT ![p] = Tail(hand[p])] /\ UNCHANGED fpc
    BY <1>5 DEF F!CloseNext
  <2>2. Len(hand[p]) = 1 \/ Len(hand[p]) = 2
    BY <1>5, Hands
  <2>3. PICK f \in F!Files : f = Head(hand[p]) /\ f = hand[p][1] /\ InHand(hand[p], 1) = f
    BY <2>2, Hands
  <2>4. ProcTypes /\ ff \in [FileProcs -> Ops]
    BY FileStart
  <2>5. PICK t \in Seq(F!Files) : /\ t = Tail(hand[p]) /\ Len(t) \in {0, 1}
                                  /\ \A k \in 1..Len(t) : t[k] = InHand(hand[p], 2)
    <3>1. CASE Len(hand[p]) = 1
      <4>1. PICK t \in Seq(F!Files) : t = <<>> /\ Len(t) = 0
        BY EmptySeq
      <4>2. \A k \in 1..Len(t) : t[k] = InHand(hand[p], 2)
        BY <4>1
      <4>3. t = Tail(hand[p])
        BY <3>1, <4>1, Hands
      <4>. QED BY <4>1, <4>2, <4>3
    <3>2. CASE Len(hand[p]) = 2
      <4>1. PICK g \in F!Files : Tail(hand[p]) = <<g>> /\ InHand(hand[p], 2) = g
        BY <3>2, Hands
      <4>2. PICK t \in Seq(F!Files) : t = <<g>> /\ Len(t) = 1 /\ t[1] = g
        <5>1. <<g>> \in Seq(F!Files) /\ Len(<<g>>) = 1 /\ <<g>>[1] = g
          OBVIOUS
        <5>. QED BY <5>1
      <4>3. \A k \in 1..Len(t) : t[k] = g
        BY <4>2
      <4>. QED BY <4>1, <4>2, <4>3
    <3>. QED BY <2>2, <3>1, <3>2
  <2>6. hand' \in [FileProcs -> Seq(F!Files)] /\ hand'[p] = t /\ \A q \in FileProcs : q # p => hand'[q] = hand[q]
    BY <2>1, <2>4, <2>5 DEF ProcTypes
  <2>7. ProcTypes'
    BY <1>1, <2>1, <2>4, <2>6 DEF ProcTypes, F!Files, F!Fds
  <2>8. /\ EndsInv'
        /\ \A g \in F!Files : g # f => (g \in InodeFiles <=> g \in InodeFiles')
        /\ (In(f, InodeFiles') - In(f, InodeFiles)) + (In(p, InodeDrops') - In(p, InodeDrops)) = 0
        /\ \A q \in FileProcs : q # p => ff'[q] = ff[q]
        /\ fref[f] >= 1
    <3>0. \A m : m = 1 \/ m = 2 => 1 <= m
      OBVIOUS
    <3>1. 1 \in {1, 2} /\ 1 <= Len(hand[p])
      BY <2>2, <3>0, Zenon
    <3>2. fref[f] >= 1
      BY <2>3, <3>1, HolderCounted
    <3>3. F!Nothing # F!Inode
      BY DEF F!Nothing, F!Inode
    <3>. QED BY <1>1, <2>1, <2>3, <3>2, <3>3, CloseObjects
  <2>9. OnlyBy(p)
    BY <1>1, <2>1, <2>6, <2>8 DEF OnlyBy
  <2>10. fref[f] = 1 => Left(f)
    <3>. SUFFICES ASSUME fref[f] = 1 PROVE Left(f)
      OBVIOUS
    <3>0. \A m : m = 1 \/ m = 2 => 1 <= m
      OBVIOUS
    <3>1. 1 \in {1, 2} /\ 1 <= Len(hand[p])
      BY <2>2, <3>0, Zenon
    <3>2. /\ \A q \in FileProcs, fd \in F!Fds : ofile[q][fd] # f
          /\ \A q \in FileProcs, j \in {1, 2} : InHand(hand[q], j) = f => q = p /\ j = 1
      BY <2>3, <3>1, HolderCounted
    <3>3. ASSUME NEW q \in FileProcs, NEW k \in 1..Len(hand'[q]) PROVE hand'[q][k] # f
      <4>1. CASE q = p
        <5>1. hand'[q][k] = InHand(hand[p], 2)
          BY <3>3, <4>1, <2>5, <2>6
        <5>2. InHand(hand[p], 2) # f
          BY <3>2
        <5>. QED BY <5>1, <5>2
      <4>2. CASE q # p
        <5>1. hand'[q][k] = hand[q][k] /\ k \in 1..Len(hand[q])
          BY <3>3, <4>2, <2>6
        <5>2. k \in {1, 2} /\ InHand(hand[q], k) = hand[q][k]
          BY <5>1, InHands
        <5>. QED BY <4>2, <5>1, <5>2, <3>2
      <4>. QED BY <4>1, <4>2
    <3>. QED BY <1>1, <3>2, <3>3 DEF Left
  <2>11. /\ FileTypes' /\ ff' \in [FileProcs -> Ops]
         /\ F!UsableHasType' /\ FreeInv' /\ NewInv'
    <3>1. fpc'[p] \in {"closing", "exit"}
      BY <1>1, <2>1
    <3>2. \A k \in F!Fds : ofile'[p][k] \in {ofile[p][k], NoFile}
      BY <1>1
    <3>. QED BY <2>1, <2>3, <2>8, <2>9, <2>10, <3>1, <3>2, FileClosed
  <2>12. HandInv'
    <3>1. Len(hand'[p]) <= 2
      BY <2>5, <2>6
    <3>2. HandAt(fpc'[p], hand'[p], ff'[p])
      BY <1>1, <2>1, <3>1 DEF HandAt
    <3>. QED BY <2>9, <3>2, HandBy
  <2>13. ForkInv'
    BY <1>1, <2>1, <2>9, ForkStays
  <2>14. F!InodeRefsExact' /\ iref' \in Nat
    <3>1. Running' = Running /\ Opening' = Opening
      BY <2>1 DEF Running, Opening
    <3>2. In(p, Running) \in Int /\ In(p, Opening) \in Int /\ In(f, InodeFiles) \in Int /\ In(f, InodeFiles') \in Int
          /\ In(p, InodeDrops) \in Int /\ In(p, InodeDrops') \in Int
      BY DEF In
    <3>3. iref' = iref + (In(p, Running') - In(p, Running)) + (In(f, InodeFiles') - In(f, InodeFiles))
                       + (In(p, Opening') - In(p, Opening)) + (In(p, InodeDrops') - In(p, InodeDrops))
      BY <1>1, <2>8, <3>1, <3>2, FileStart
    <3>. QED BY <2>1, <2>8, <3>1, <3>3, InodeStep
  <2>. QED BY <1>2, <1>3, <2>7, <2>8, <2>11, <2>12, <2>13, <2>14, FileEndOfStep
<1>. QED BY <1>4, <1>5

\* A step that only moves p from one place in the code to another, neither of
\* them in open() or fork()
LEMMA StepMove ==
  ASSUME F!FileAssumption, FileIInv, NEW p \in FileProcs, NEW l, fpc' = [fpc EXCEPT ![p] = l],
         l \in {"closing", "exit"}, l = "exit" => fpc[p] = "idle",
         fpc[p] \notin {"unused", "fork", "open", "open_fd"},
         UNCHANGED <<fref, ftype, writable, pipe, ofile, hand, ff, child, kpages, ends, iref>>
  PROVE  FileIInv'
<1>1. ProcTypes
  BY FileStart
<1>2. ProcTypes' /\ fpc'[p] = l /\ OnlyBy(p)
  BY <1>1 DEF ProcTypes, OnlyBy, F!Files, F!Fds
<1>3. HandInv'
  <2>1. HandAt(fpc[p], hand[p], ff[p])
    BY FileStart
  <2>2. HandAt(fpc'[p], hand'[p], ff'[p])
    BY <1>2, <2>1 DEF HandAt
  <2>. QED BY <1>2, <2>2, HandBy
<1>4. ForkInv'
  BY <1>2, ForkStays
<1>5. NewInv'
  BY <1>2, NewStays
<1>6. /\ FileTypes' /\ FreeInv' /\ F!UsableHasType' /\ EndsInv'
      /\ \A f : f \in InodeFiles <=> f \in InodeFiles'
  BY FilesStay
<1>7. F!InodeRefsExact' /\ iref' \in Nat
  <2>1. \A q \in FileProcs : q # p => fpc'[q] = fpc[q]
    BY <1>2 DEF OnlyBy
  <2>. QED BY <1>2, <1>6, <2>1, InodeSame
<1>8. F!RefExact' /\ PipeTypes'
  BY RefStays, FileStart DEF PipeTypes
<1>. QED BY <1>2, <1>3, <1>4, <1>5, <1>6, <1>7, <1>8, FileStart, FileEndOfStep

\* filealloc() in a system call
LEMMA StepAlloc ==
  ASSUME F!FileAssumption, FileIInv, NEW p \in FileProcs, NEW l, F!FreeFiles # {}, F!filealloc(p),
         fpc' = [fpc EXCEPT ![p] = l],
         \/ fpc[p] = "open" /\ l = "open_fd"
         \/ fpc[p] = "idle" /\ l = "pipe1"
         \/ fpc[p] = "pipe1" /\ l = "pipe_page",
         UNCHANGED <<ofile, ff, child, kpages, ends, iref>>
  PROVE  FileIInv'
<1>1. ProcTypes
  BY FileStart
<1>2. fpc'[p] = l /\ hand' = [hand EXCEPT ![p] = Append(@, F!Lowest(F!FreeFiles))]
  BY <1>1 DEF ProcTypes, F!filealloc
<1>3. OnlyBy(p)
  BY <1>1, <1>2 DEF ProcTypes, OnlyBy
<1>4. HandAt(fpc[p], hand[p], ff[p])
  BY FileStart
<1>5. /\ fpc[p] \in {"open", "idle"} => Len(hand[p]) = 0
      /\ fpc[p] = "pipe1" => Len(hand[p]) = 1
  BY <1>4, EmptySeq DEF HandAt
<1>6. /\ FileTypes' /\ hand' \in [FileProcs -> Seq(F!Files)] /\ Len(hand'[p]) = Len(hand[p]) + 1
      /\ F!UsableHasType' /\ FreeInv' /\ NewInv' /\ F!RefExact'
  BY <1>2, <1>3, <1>5, FileAlloced
<1>7. ProcTypes'
  BY <1>1, <1>6 DEF ProcTypes, F!Files, F!Fds
<1>8. HandInv'
  <2>1. ff[p] = F!Nothing
    BY <1>4 DEF HandAt
  <2>2. (l \in {"open_fd", "pipe1"} => Len(hand'[p]) = 1) /\ (l = "pipe_page" => Len(hand'[p]) = 2)
    <3>0. PICK n, m : n = Len(hand[p]) /\ m = Len(hand'[p]) /\ m = n + 1
      BY <1>6
    <3>1. l \in {"open_fd", "pipe1"} => n = 0
      BY <1>5, <3>0
    <3>2. l = "pipe_page" => n = 1
      BY <1>5, <3>0
    <3>3. \A a, b : b = a + 1 => (a = 0 => b = 1) /\ (a = 1 => b = 2)
      OBVIOUS
    <3>. QED BY <3>0, <3>1, <3>2, <3>3, Zenon
  <2>3. HandAt(fpc'[p], hand'[p], ff'[p])
    <3>1. PICK m : m = Len(hand'[p])
      OBVIOUS
    <3>2. l \in {"open_fd", "pipe1", "pipe_page"} /\ ff'[p] = F!Nothing
      BY <2>1
    <3>3. m <= 2
      <4>1. \A a : a = 1 \/ a = 2 => a <= 2
        OBVIOUS
      <4>2. m = 1 \/ m = 2
        BY <2>2, <3>1, <3>2
      <4>. QED BY <4>1, <4>2, Zenon
    <3>. QED BY <1>2, <2>2, <3>1, <3>2, <3>3 DEF HandAt
  <2>. QED BY <1>3, <2>3, HandBy
<1>9. ForkInv'
  BY <1>2, <1>3, ForkStays
<1>10. \A g : (g \in PipeFiles <=> g \in PipeFiles') /\ FileEnd(g)' = FileEnd(g)
  BY DEF PipeFiles, FileEnd, F!Files, F!filealloc
<1>11. EndsInv'
  <2>1. \A r : (r \in Droppers <=> r \in Droppers') /\ DropEnd(r)' = DropEnd(r)
    BY DEF Droppers, DropEnd
  <2>. QED BY <1>10, <2>1, EndsSame
<1>12. F!InodeRefsExact' /\ iref' \in Nat
  <2>1. PICK f \in F!Files : f = F!Lowest(F!FreeFiles) /\ fref[f] = 0
    BY LowestFree
  <2>2. ftype' = ftype /\ fref' = [fref EXCEPT ![f] = 1] /\ ftype[f] = "FD_NONE"
    BY <2>1, FileStart DEF F!filealloc, FreeInv
  <2>3. \A g \in F!Files : g \in InodeFiles <=> g \in InodeFiles'
    BY <2>2, FileStart DEF InodeFiles, FileTypes, F!Files
  <2>4. \A q \in FileProcs : q # p => fpc'[q] = fpc[q]
    BY <1>3 DEF OnlyBy
  <2>. QED BY <1>2, <2>3, <2>4, InodeSame
<1>13. PipeTypes'
  BY FileStart DEF PipeTypes
<1>. QED BY <1>6, <1>7, <1>8, <1>9, <1>11, <1>12, <1>13, FileStart, FileEndOfStep

LEMMA StepOpen ==
  ASSUME F!FileAssumption, FileIInv, NEW p \in FileProcs, F!sys_open(p) \/ F!OpenAlloc(p)
  PROVE  FileIInv'
<1>1. ProcTypes /\ ff \in [FileProcs -> Ops] /\ F!Inode \in Ops /\ iref \in Nat
  BY FileStart DEF Ops
<1>2. CASE F!OpenAlloc(p) /\ F!FreeFiles # {}
  BY <1>2, StepAlloc DEF F!OpenAlloc, F!GoTo, F!objects
<1>3. CASE F!sys_open(p) \/ (F!OpenAlloc(p) /\ F!FreeFiles = {})
  <2>1. UNCHANGED <<fref, ftype, writable, pipe, ofile, hand, child, kpages, ends>>
    BY <1>3 DEF F!sys_open, F!OpenAlloc, F!file, F!objects
  <2>2. \/ fpc[p] = "idle" /\ fpc' = [fpc EXCEPT ![p] = "open"] /\ ff' = ff /\ iref' = iref + 1
        \/ fpc[p] = "open" /\ fpc' = [fpc EXCEPT ![p] = "closing"] /\ ff' = [ff EXCEPT ![p] = F!Inode] /\ iref' = iref
    BY <1>3 DEF F!sys_open, F!OpenAlloc, F!GoTo, F!objects
  <2>3. /\ fpc'[p] \in {"open", "closing"} /\ (fpc'[p] = "open" <=> fpc[p] = "idle")
        /\ ff' \in [FileProcs -> Ops]
    BY <1>1, <2>2 DEF ProcTypes
  <2>4. OnlyBy(p) /\ ProcTypes'
    <3>1. ProcTypes'
      BY <1>1, <2>1, <2>2 DEF ProcTypes, F!Files, F!Fds
    <3>2. \A q \in FileProcs : q # p => fpc'[q] = fpc[q] /\ ff'[q] = ff[q]
      BY <1>1, <2>2 DEF ProcTypes
    <3>. QED BY <2>1, <3>1, <3>2 DEF OnlyBy
  <2>5. HandAt(fpc[p], hand[p], ff[p]) /\ ff[p] = F!Nothing /\ hand[p] = <<>>
    BY <2>2, FileStart DEF HandAt
  <2>6. HandInv'
    <3>1. HandAt(fpc'[p], hand'[p], ff'[p])
      BY <2>1, <2>2, <2>3, <2>5, EmptySeq DEF HandAt
    <3>. QED BY <2>4, <3>1, HandBy
  <2>7. ForkInv'
    BY <2>1, <2>2, <2>3, <2>4, ForkStays
  <2>8. NewInv'
    BY <2>1, <2>3, <2>4, NewStays
  <2>9. /\ FileTypes' /\ FreeInv' /\ F!UsableHasType' /\ F!RefExact'
        /\ \A f : f \in InodeFiles <=> f \in InodeFiles'
    BY <2>1, FilesStay, RefStays
  <2>10. F!Nothing.type = "FD_NONE" /\ F!Inode.type = "FD_INODE"
    BY DEF F!Nothing, F!Inode
  <2>11. EndsInv'
    <3>1. \A f : (f \in PipeFiles <=> f \in PipeFiles') /\ FileEnd(f)' = FileEnd(f)
      BY <2>1 DEF PipeFiles, FileEnd, F!Files
    <3>2. \A q \in FileProcs : (q \in Droppers <=> q \in Droppers') /\ (q \in Droppers => DropEnd(q)' = DropEnd(q))
      BY <1>1, <2>2, <2>5, <2>10 DEF Droppers, DropEnd
    <3>. QED BY <2>1, <3>1, <3>2, EndsSame
  <2>12. F!InodeRefsExact' /\ iref' \in Nat
    <3>1. InodeFiles' = InodeFiles
      BY <2>9
    <3>2. Running' = Running
      <4>1. \A q \in FileProcs : fpc[q] # "unused" <=> fpc'[q] # "unused"
        BY <2>2, <2>3, <2>4 DEF OnlyBy
      <4>. QED BY <4>1 DEF Running
    <3>3. \/ p \notin Opening /\ p \in Opening' /\ p \notin InodeDrops /\ p \notin InodeDrops' /\ iref' = iref + 1
          \/ p \in Opening /\ p \notin Opening' /\ p \notin InodeDrops /\ p \in InodeDrops' /\ iref' = iref
      BY <1>1, <2>2, <2>5, <2>10 DEF Opening, InodeDrops, ProcTypes
    <3>4. iref' = iref + (In(p, Running') - In(p, Running)) + (In(p, InodeFiles') - In(p, InodeFiles))
                       + (In(p, Opening') - In(p, Opening)) + (In(p, InodeDrops') - In(p, InodeDrops))
      BY <1>1, <3>1, <3>2, <3>3 DEF In
    <3>5. \A q \in FileProcs : q # p => /\ fpc[q] = "unused" <=> fpc'[q] = "unused"
                                        /\ q \in Opening <=> q \in Opening'
                                        /\ ff'[q] = ff[q]
      BY <2>4 DEF OnlyBy, Opening
    <3>. QED BY <3>1, <3>4, <3>5, InodeStep
  <2>13. PipeTypes'
    BY <2>1, FileStart DEF PipeTypes
  <2>. QED BY <2>3, <2>4, <2>6, <2>7, <2>8, <2>9, <2>11, <2>12, <2>13, FileEndOfStep
<1>. QED BY <1>2, <1>3

LEMMA StepOpenFd ==
  ASSUME F!FileAssumption, FileIInv, NEW p \in FileProcs, F!OpenFd(p)
  PROVE  FileIInv'
<1>1. /\ fpc[p] = "open_fd" /\ hand' = [hand EXCEPT ![p] = <<>>]
      /\ UNCHANGED <<child, kpages, ends, iref>>
  BY DEF F!OpenFd, F!objects
<1>2. ProcTypes /\ FileTypes /\ ff \in [FileProcs -> Ops] /\ HandAt(fpc[p], hand[p], ff[p]) /\ iref \in Nat
  BY FileStart
<1>3. Len(hand[p]) = 1 /\ ff[p] = F!Nothing
  BY <1>1, <1>2 DEF HandAt
<1>4. PICK f \in F!Files : f = Head(hand[p]) /\ f = hand[p][1] /\ InHand(hand[p], 1) = f
  BY <1>3, Hands
<1>5. 1 \in 1..Len(hand[p]) /\ 1 \in {1, 2} /\ 1 <= Len(hand[p])
  BY <1>3
<1>6. fref[f] = 1 /\ ftype[f] = "FD_NONE"
  BY <1>1, <1>4, <1>5, FileStart DEF NewInv
<1>7. /\ \A q \in FileProcs, fd \in F!Fds : ofile[q][fd] # f
      /\ \A q \in FileProcs, j \in {1, 2} : InHand(hand[q], j) = f => q = p
  BY <1>4, <1>5, <1>6, HolderCounted
<1>8. \A q \in FileProcs : q # p => \A k \in 1..Len(hand[q]) : hand[q][k] # f
  BY <1>7, InHands
<1>9. F!RefExact'
  BY RefOpenFd
<1>10. PipeTypes'
  BY <1>1, FileStart DEF PipeTypes
<1>11. hand' \in [FileProcs -> Seq(F!Files)] /\ hand'[p] = <<>> /\ Len(<<>>) = 0 /\ \A q \in FileProcs : q # p => hand'[q] = hand[q]
  BY <1>1, <1>2, EmptySeq DEF ProcTypes
<1>12. p \in Opening /\ p \notin InodeDrops /\ f \notin InodeFiles
  BY <1>1, <1>3, <1>6 DEF Opening, InodeDrops, InodeFiles, F!Nothing
<1>13. CASE F!FreeFds(p) # {}
  <2>1. PICK k \in F!Fds : k = F!Lowest(F!FreeFds(p)) /\ ofile[p][k] = NoFile
    BY <1>13, LowestFree
  <2>2. /\ ofile' = [ofile EXCEPT ![p][k] = f] /\ ftype' = [ftype EXCEPT ![f] = "FD_INODE"]
        /\ fpc' = [fpc EXCEPT ![p] = "idle"] /\ UNCHANGED <<fref, writable, pipe, ff>>
    BY <1>4, <1>13, <2>1 DEF F!OpenFd, F!GoTo
  <2>3. FileTypes' /\ ftype'[f] = "FD_INODE" /\ \A g \in F!Files : g # f => ftype'[g] = ftype[g]
    BY <1>2, <2>2 DEF FileTypes, F!Files
  <2>4. ofile' \in [FileProcs -> [F!Fds -> F!Files \cup {NoFile}]]
    BY <1>2, <2>2 DEF ProcTypes
  <2>5. ProcTypes' /\ fpc'[p] = "idle" /\ OnlyBy(p)
    <3>1. fpc'[p] = "idle" /\ \A q \in FileProcs : q # p => fpc'[q] = fpc[q] /\ ofile'[q] = ofile[q]
      BY <1>2, <2>2 DEF ProcTypes
    <3>2. ProcTypes'
      BY <1>1, <1>2, <1>11, <2>2, <2>4 DEF ProcTypes, F!Files, F!Fds
    <3>. QED BY <1>11, <2>2, <3>1, <3>2 DEF OnlyBy
  <2>6. F!UsableHasType'
    <3>1. ASSUME NEW q \in FileProcs, NEW j \in F!Fds, ofile'[q][j] # NoFile
          PROVE  fref'[ofile'[q][j]] > 0 /\ ftype'[ofile'[q][j]] # "FD_NONE"
      <4>1. CASE ofile'[q][j] = f
        BY <4>1, <1>6, <2>2, <2>3
      <4>2. CASE ofile'[q][j] # f
        <5>1. ofile'[q][j] = ofile[q][j]
          BY <4>2, <1>2, <2>2 DEF ProcTypes
        <5>2. ofile[q][j] \in F!Files /\ fref[ofile[q][j]] > 0 /\ ftype[ofile[q][j]] # "FD_NONE"
          BY <3>1, <5>1, FileStart DEF ProcTypes, F!UsableHasType
        <5>. QED BY <4>2, <5>1, <5>2, <2>2, <2>3
      <4>. QED BY <4>1, <4>2
    <3>. QED BY <3>1 DEF F!UsableHasType, F!Fds
  <2>7. FreeInv'
    <3>1. FreeInv
      BY FileStart
    <3>. QED BY <3>1, <1>6, <2>2, <2>3 DEF FreeInv, F!Files
  <2>8. NewInv'
    <3>1. ASSUME NEW q \in FileProcs, NEW j \in 1..Len(hand'[q]),
                 fpc'[q] \in {"open_fd", "pipe1", "pipe_page", "pipe_fds"}
          PROVE  /\ fpc'[q] # "pipe_fds" => fref'[hand'[q][j]] = 1 /\ ftype'[hand'[q][j]] = "FD_NONE"
                 /\ fpc'[q] = "pipe_fds" => ftype'[hand'[q][j]] = "FD_PIPE"
      <4>1. q # p /\ fpc'[q] = fpc[q] /\ hand'[q] = hand[q]
        BY <3>1, <2>5 DEF OnlyBy
      <4>2. /\ fpc[q] # "pipe_fds" => fref[hand[q][j]] = 1 /\ ftype[hand[q][j]] = "FD_NONE"
            /\ fpc[q] = "pipe_fds" => ftype[hand[q][j]] = "FD_PIPE"
        BY <3>1, <4>1, FileStart DEF NewInv
      <4>3. hand[q][j] \in F!Files /\ hand[q][j] # f
        BY <3>1, <4>1, <1>8, InHands
      <4>. QED BY <4>1, <4>2, <4>3, <2>2, <2>3
    <3>. QED BY <3>1 DEF NewInv
  <2>9. HandInv'
    <3>1. HandAt(fpc'[p], hand'[p], ff'[p])
      BY <1>3, <1>11, <2>2, <2>5 DEF HandAt
    <3>. QED BY <2>5, <3>1, HandBy
  <2>10. ForkInv'
    BY <1>1, <2>5, ForkStays
  <2>11. EndsInv'
    <3>1. \A g \in F!Files : g \in PipeFiles <=> g \in PipeFiles'
      BY <1>6, <2>3 DEF PipeFiles, F!Files
    <3>2. \A g : FileEnd(g)' = FileEnd(g)
      BY <2>2 DEF FileEnd
    <3>3. \A q : (q \in Droppers <=> q \in Droppers') /\ DropEnd(q)' = DropEnd(q)
      BY <2>2 DEF Droppers, DropEnd
    <3>. QED BY <1>1, <3>1, <3>2, <3>3, EndsSame
  <2>12. F!InodeRefsExact' /\ iref' \in Nat
    <3>1. f \in InodeFiles' /\ \A g \in F!Files : g # f => (g \in InodeFiles <=> g \in InodeFiles')
      BY <1>6, <2>2, <2>3 DEF InodeFiles, F!Files
    <3>2. p \notin Opening' /\ InodeDrops' = InodeDrops
      BY <2>2, <2>5 DEF Opening, InodeDrops
    <3>3. p \in Running /\ p \in Running'
      BY <1>1, <2>5 DEF Running
    <3>4. iref' = iref + (In(p, Running') - In(p, Running)) + (In(f, InodeFiles') - In(f, InodeFiles))
                       + (In(p, Opening') - In(p, Opening)) + (In(p, InodeDrops') - In(p, InodeDrops))
      BY <1>1, <1>2, <1>12, <3>1, <3>2, <3>3 DEF In
    <3>5. \A q \in FileProcs : q # p => /\ fpc[q] = "unused" <=> fpc'[q] = "unused"
                                        /\ q \in Opening <=> q \in Opening'
                                        /\ ff'[q] = ff[q]
      BY <2>5 DEF OnlyBy, Opening
    <3>. QED BY <3>1, <3>4, <3>5, InodeStep
  <2>. QED BY <1>2, <1>9, <1>10, <2>2, <2>3, <2>5, <2>6, <2>7, <2>8, <2>9, <2>10, <2>11, <2>12, FileEndOfStep
<1>14. CASE F!FreeFds(p) = {}
  <2>1. F!fileclose(p, f, F!Inode) /\ fpc' = [fpc EXCEPT ![p] = "closing"] /\ ofile' = ofile
    BY <1>4, <1>14 DEF F!OpenFd, F!GoTo
  <2>2. /\ EndsInv'
        /\ \A g \in F!Files : g # f => (g \in InodeFiles <=> g \in InodeFiles')
        /\ (In(f, InodeFiles') - In(f, InodeFiles)) + (In(p, InodeDrops') - In(p, InodeDrops)) = 1
        /\ \A q \in FileProcs : q # p => ff'[q] = ff[q]
    <3>1. fref[f] >= 1 /\ F!Inode \in {F!Nothing, F!Inode}
      BY <1>6
    <3>. QED BY <1>1, <1>3, <1>6, <2>1, <3>1, CloseObjects
  <2>3. ProcTypes' /\ fpc'[p] = "closing" /\ OnlyBy(p)
    <3>1. fpc'[p] = "closing" /\ \A q \in FileProcs : q # p => fpc'[q] = fpc[q]
      BY <1>2, <2>1 DEF ProcTypes
    <3>2. ProcTypes'
      BY <1>1, <1>2, <1>11, <2>1 DEF ProcTypes, F!Files, F!Fds
    <3>. QED BY <1>11, <2>1, <2>2, <3>1, <3>2 DEF OnlyBy
  <2>4. Left(f)
    <3>1. ASSUME NEW q \in FileProcs, NEW j \in 1..Len(hand'[q]) PROVE hand'[q][j] # f
      <4>1. q # p
        BY <1>11
      <4>. QED BY <4>1, <1>8, <1>11
    <3>. QED BY <1>7, <2>1, <3>1 DEF Left
  <2>5. /\ FileTypes' /\ ff' \in [FileProcs -> Ops]
        /\ F!UsableHasType' /\ FreeInv' /\ NewInv'
    <3>1. fref[f] >= 1 /\ F!Inode \in {F!Nothing, F!Inode} /\ \A k \in F!Fds : ofile'[p][k] \in {ofile[p][k], NoFile}
      BY <1>6, <2>1
    <3>. QED BY <2>1, <2>3, <2>4, <3>1, FileClosed
  <2>6. HandInv'
    <3>1. HandAt(fpc'[p], hand'[p], ff'[p])
      BY <1>11, <2>3 DEF HandAt
    <3>. QED BY <2>3, <3>1, HandBy
  <2>7. ForkInv'
    BY <1>1, <2>3, ForkStays
  <2>8. F!InodeRefsExact' /\ iref' \in Nat
    <3>1. p \notin Opening' /\ p \in Running /\ p \in Running'
      BY <1>1, <2>3 DEF Opening, Running
    <3>2. In(f, InodeFiles) \in Int /\ In(f, InodeFiles') \in Int /\ In(p, InodeDrops) \in Int /\ In(p, InodeDrops') \in Int
      BY DEF In
    <3>3. In(p, Running) = 1 /\ In(p, Running') = 1 /\ In(p, Opening) = 1 /\ In(p, Opening') = 0
      BY <1>12, <3>1 DEF In
    <3>4. iref' = iref + (In(p, Running') - In(p, Running)) + (In(f, InodeFiles') - In(f, InodeFiles))
                       + (In(p, Opening') - In(p, Opening)) + (In(p, InodeDrops') - In(p, InodeDrops))
      BY <1>1, <1>2, <2>2, <3>2, <3>3
    <3>5. \A q \in FileProcs : q # p => /\ fpc[q] = "unused" <=> fpc'[q] = "unused"
                                        /\ q \in Opening <=> q \in Opening'
                                        /\ ff'[q] = ff[q]
      BY <2>3 DEF OnlyBy, Opening
    <3>. QED BY <2>2, <3>4, <3>5, InodeStep
  <2>. QED BY <1>9, <1>10, <2>2, <2>3, <2>5, <2>6, <2>7, <2>8, FileEndOfStep
<1>. QED BY <1>13, <1>14

LEMMA StepPipePage ==
  ASSUME F!FileAssumption, FileIInv, NEW p \in FileProcs, F!PipePage(p)
  PROVE  FileIInv'
<1>1. fpc[p] = "pipe_page" /\ UNCHANGED <<ofile, hand, ff, child, iref>>
  BY DEF F!PipePage
<1>2. CASE Pipes = kpages /\ F!GoTo(p, "closing") /\ UNCHANGED <<F!file, kpages, ends>>
  BY <1>1, <1>2, StepMove DEF F!GoTo, F!file
<1>3. CASE \E pi \in Pipes \ kpages :
                /\ kpages' = kpages \cup {pi}
                /\ ends' = ends \cup {<<pi, FALSE>>, <<pi, TRUE>>}
                /\ ftype' = [ftype EXCEPT ![hand[p][1]] = "FD_PIPE", ![hand[p][2]] = "FD_PIPE"]
                /\ writable' = [writable EXCEPT ![hand[p][1]] = FALSE, ![hand[p][2]] = TRUE]
                /\ pipe' = [pipe EXCEPT ![hand[p][1]] = pi, ![hand[p][2]] = pi]
                /\ F!GoTo(p, "pipe_fds")
                /\ UNCHANGED fref
  <2>1. ProcTypes /\ FileTypes /\ HandAt(fpc[p], hand[p], ff[p]) /\ iref \in Nat
    BY FileStart
  <2>2. Len(hand[p]) = 2 /\ ff[p] = F!Nothing
    BY <1>1, <2>1 DEF HandAt
  <2>3. /\ 1 \in 1..Len(hand[p]) /\ 1 \in {1, 2} /\ 1 <= Len(hand[p])
        /\ 2 \in 1..Len(hand[p]) /\ 2 \in {1, 2} /\ 2 <= Len(hand[p])
    BY <2>2
  <2>4. PICK f \in F!Files, g \in F!Files :
           f = hand[p][1] /\ g = hand[p][2] /\ InHand(hand[p], 1) = f /\ InHand(hand[p], 2) = g
    BY <2>2, Hands
  <2>5. fref[f] = 1 /\ ftype[f] = "FD_NONE" /\ fref[g] = 1 /\ ftype[g] = "FD_NONE"
    BY <1>1, <2>3, <2>4, FileStart DEF NewInv
  <2>6. \A q \in FileProcs, j \in {1, 2} : /\ InHand(hand[q], j) = f => q = p /\ j = 1
                                           /\ InHand(hand[q], j) = g => q = p /\ j = 2
    BY <2>3, <2>4, <2>5, HolderCounted
  <2>7. f # g
    BY <2>3, <2>4, <2>6
  <2>8. PICK pi \in Pipes \ kpages :
                /\ kpages' = kpages \cup {pi}
                /\ ends' = ends \cup {<<pi, FALSE>>, <<pi, TRUE>>}
                /\ ftype' = [ftype EXCEPT ![f] = "FD_PIPE", ![g] = "FD_PIPE"]
                /\ writable' = [writable EXCEPT ![f] = FALSE, ![g] = TRUE]
                /\ pipe' = [pipe EXCEPT ![f] = pi, ![g] = pi]
                /\ fpc' = [fpc EXCEPT ![p] = "pipe_fds"]
                /\ fref' = fref
    BY <1>3, <2>4 DEF F!GoTo
  <2>9. EndsInv' /\ PipeTypes'
    <3>1. f \notin PipeFiles /\ g \notin PipeFiles
      BY <2>5 DEF PipeFiles
    <3>. QED BY <1>1, <2>7, <2>8, <3>1, EndsNew DEF PipeTypes
  <2>10. FileTypes'
    <3>1. ftype' \in [F!Files -> {"FD_NONE", "FD_PIPE", "FD_INODE"}] /\ fref' \in [F!Files -> Nat]
      BY <2>1, <2>8 DEF FileTypes
    <3>2. writable' \in [F!Files -> BOOLEAN]
      BY <2>1, <2>8 DEF FileTypes
    <3>3. pipe' \in [F!Files -> Pipes \cup {NoPipe}]
      BY <2>1, <2>8 DEF FileTypes
    <3>. QED BY <3>1, <3>2, <3>3 DEF FileTypes, F!Files
  <2>11. \A h \in F!Files : /\ ftype'[h] = (IF h = f \/ h = g THEN "FD_PIPE" ELSE ftype[h])
                            /\ pipe'[h] = (IF h = f \/ h = g THEN pi ELSE pipe[h])
    BY <2>1, <2>8 DEF FileTypes
  <2>11a. fref' = fref /\ pi \in Pipes
    BY <2>8
  <2>12. ProcTypes' /\ fpc'[p] = "pipe_fds" /\ OnlyBy(p)
    BY <1>1, <2>1, <2>8 DEF ProcTypes, OnlyBy, F!Files, F!Fds
  <2>13. FreeInv'
    <3>1. FreeInv
      BY FileStart
    <3>. QED BY <3>1, <2>5, <2>11, <2>11a DEF FreeInv, F!Files
  <2>14. F!UsableHasType'
    <3>1. ASSUME NEW q \in FileProcs, NEW j \in F!Fds, ofile[q][j] # NoFile
          PROVE  fref[ofile[q][j]] > 0 /\ ftype'[ofile[q][j]] # "FD_NONE"
      <4>1. ofile[q][j] \in F!Files /\ fref[ofile[q][j]] > 0 /\ ftype[ofile[q][j]] # "FD_NONE"
        BY <3>1, FileStart DEF ProcTypes, F!UsableHasType
      <4>. QED BY <4>1, <2>11
    <3>. QED BY <1>1, <2>8, <3>1 DEF F!UsableHasType, F!Fds
  <2>15. NewInv'
    <3>1. ASSUME NEW q \in FileProcs, NEW j \in 1..Len(hand[q]),
                 fpc'[q] \in {"open_fd", "pipe1", "pipe_page", "pipe_fds"}
          PROVE  /\ fpc'[q] # "pipe_fds" => fref[hand[q][j]] = 1 /\ ftype'[hand[q][j]] = "FD_NONE"
                 /\ fpc'[q] = "pipe_fds" => ftype'[hand[q][j]] = "FD_PIPE"
      <4>0. j \in {1, 2} /\ hand[q][j] \in F!Files /\ InHand(hand[q], j) = hand[q][j]
        BY <3>1, InHands
      <4>1. CASE q = p
        <5>1. hand[q][j] \in {f, g}
          BY <4>0, <4>1, <2>4
        <5>. QED BY <4>1, <5>1, <2>11, <2>12
      <4>2. CASE q # p
        <5>1. fpc'[q] = fpc[q] /\ hand[q][j] # f /\ hand[q][j] # g
          BY <4>0, <4>2, <2>6, <2>12 DEF OnlyBy
        <5>2. /\ fpc[q] # "pipe_fds" => fref[hand[q][j]] = 1 /\ ftype[hand[q][j]] = "FD_NONE"
              /\ fpc[q] = "pipe_fds" => ftype[hand[q][j]] = "FD_PIPE"
          BY <3>1, <5>1, FileStart DEF NewInv
        <5>. QED BY <4>0, <5>1, <5>2, <2>11
      <4>. QED BY <4>1, <4>2
    <3>. QED BY <1>1, <2>11a, <3>1 DEF NewInv
  <2>16. HandInv'
    <3>1. HandAt(fpc'[p], hand'[p], ff'[p])
      BY <1>1, <2>2, <2>12 DEF HandAt
    <3>. QED BY <2>12, <3>1, HandBy
  <2>17. ForkInv'
    BY <1>1, <2>12, ForkStays
  <2>18. F!InodeRefsExact' /\ iref' \in Nat
    <3>1. \A h \in F!Files : h \in InodeFiles <=> h \in InodeFiles'
      BY <2>5, <2>11, <2>11a DEF InodeFiles, F!Files
    <3>2. \A q \in FileProcs : q # p => fpc'[q] = fpc[q]
      BY <2>12 DEF OnlyBy
    <3>. QED BY <1>1, <2>12, <3>1, <3>2, InodeSame
  <2>19. F!RefExact'
    BY <1>1, <2>8, RefStays
  <2>. QED BY <1>1, <2>9, <2>10, <2>12, <2>13, <2>14, <2>15, <2>16, <2>17, <2>18, <2>19, FileStart, FileEndOfStep
<1>. QED BY <1>2, <1>3 DEF F!PipePage

LEMMA StepPipeFds ==
  ASSUME F!FileAssumption, FileIInv, NEW p \in FileProcs, F!PipeFds(p)
  PROVE  FileIInv'
<1>1. fpc[p] = "pipe_fds" /\ UNCHANGED <<fref, ftype, writable, pipe, ff, child, kpages, ends, iref>>
  BY DEF F!PipeFds, F!file, F!objects
<1>2. CASE F!GoTo(p, "closing") /\ UNCHANGED <<ofile, hand>>
  BY <1>1, <1>2, StepMove DEF F!GoTo
<1>3. CASE /\ F!Cardinality(F!FreeFds(p)) >= 2
           /\ LET fd0 == F!Lowest(F!FreeFds(p))  fd1 == F!Lowest(F!FreeFds(p) \ {fd0})
              IN ofile' = [ofile EXCEPT ![p][fd0] = hand[p][1], ![p][fd1] = hand[p][2]]
           /\ hand' = [hand EXCEPT ![p] = <<>>]
           /\ F!GoTo(p, "idle")
  <2>1. ProcTypes /\ FileTypes /\ HandAt(fpc[p], hand[p], ff[p]) /\ iref \in Nat
    BY FileStart
  <2>2. Len(hand[p]) = 2 /\ ff[p] = F!Nothing
    BY <1>1, <2>1 DEF HandAt
  <2>3. /\ 1 \in 1..Len(hand[p]) /\ 1 \in {1, 2} /\ 1 <= Len(hand[p])
        /\ 2 \in 1..Len(hand[p]) /\ 2 \in {1, 2} /\ 2 <= Len(hand[p])
    BY <2>2
  <2>4. PICK f \in F!Files, g \in F!Files : f = hand[p][1] /\ g = hand[p][2]
    BY <2>2, Hands
  <2>5. ftype[f] = "FD_PIPE" /\ ftype[g] = "FD_PIPE" /\ fref[f] >= 1 /\ fref[g] >= 1
    <3>1. ftype[f] = "FD_PIPE" /\ ftype[g] = "FD_PIPE"
      BY <1>1, <2>3, <2>4, FileStart DEF NewInv
    <3>. QED BY <2>3, <2>4, <3>1, HolderCounted
  <2>6. PICK k \in F!Fds, j \in F!Fds :
           /\ k = F!Lowest(F!FreeFds(p)) /\ j = F!Lowest(F!FreeFds(p) \ {k}) /\ j # k
           /\ ofile[p][k] = NoFile /\ ofile[p][j] = NoFile
    BY <1>3, TwoFds DEF F!FreeFds
  <2>7. ofile' = [ofile EXCEPT ![p][k] = f, ![p][j] = g] /\ fpc' = [fpc EXCEPT ![p] = "idle"]
    BY <1>3, <2>4, <2>6 DEF F!GoTo
  <2>8. ofile' \in [FileProcs -> [F!Fds -> F!Files \cup {NoFile}]]
    BY <2>1, <2>7 DEF ProcTypes
  <2>9. \A q \in FileProcs, i \in F!Fds :
           ofile'[q][i] = (IF q = p /\ i = j THEN g ELSE IF q = p /\ i = k THEN f ELSE ofile[q][i])
    BY <2>1, <2>7 DEF ProcTypes
  <2>10. \A q \in FileProcs : q # p => fpc'[q] = fpc[q] /\ hand'[q] = hand[q] /\ ofile'[q] = ofile[q]
    BY <1>3, <2>1, <2>7 DEF ProcTypes
  <2>11. hand' \in [FileProcs -> Seq(F!Files)] /\ hand'[p] = <<>> /\ Len(<<>>) = 0 /\ fpc'[p] = "idle"
    BY <1>3, <2>1, <2>7, EmptySeq DEF ProcTypes
  <2>12. ProcTypes'
    BY <1>1, <2>1, <2>7, <2>8, <2>11 DEF ProcTypes, F!Files, F!Fds
  <2>13. OnlyBy(p)
    BY <1>1, <2>10 DEF OnlyBy
  <2>14. F!UsableHasType'
    <3>1. ASSUME NEW q \in FileProcs, NEW i \in F!Fds, ofile'[q][i] # NoFile
          PROVE  fref[ofile'[q][i]] > 0 /\ ftype[ofile'[q][i]] # "FD_NONE"
      <4>1. fref[f] > 0 /\ fref[g] > 0
        <5>1. fref[f] \in Nat /\ fref[g] \in Nat
          BY <2>1 DEF FileTypes
        <5>. QED BY <2>5, <5>1
      <4>2. CASE ofile'[q][i] \in {f, g}
        BY <4>1, <4>2, <2>5
      <4>3. CASE ofile'[q][i] = ofile[q][i]
        BY <4>3, <3>1, FileStart DEF F!UsableHasType
      <4>. QED BY <4>2, <4>3, <2>9
    <3>. QED BY <1>1, <3>1 DEF F!UsableHasType, F!Fds
  <2>15. HandInv'
    <3>1. HandAt(fpc'[p], hand'[p], ff'[p])
      BY <1>1, <2>2, <2>11 DEF HandAt
    <3>. QED BY <2>13, <3>1, HandBy
  <2>16. ForkInv'
    BY <1>1, <2>11, <2>13, ForkStays
  <2>17. NewInv'
    BY <1>1, <2>11, <2>13, NewStays
  <2>18. /\ FileTypes' /\ FreeInv' /\ EndsInv'
         /\ \A h : h \in InodeFiles <=> h \in InodeFiles'
    BY <1>1, FilesStay
  <2>19. F!InodeRefsExact' /\ iref' \in Nat
    BY <1>1, <2>10, <2>11, <2>18, InodeSame
  <2>20. F!RefExact' /\ PipeTypes'
    BY <1>1, RefPipeFds, FileStart DEF PipeTypes
  <2>. QED BY <1>1, <2>12, <2>14, <2>15, <2>16, <2>17, <2>18, <2>19, <2>20, FileStart, FileEndOfStep
<1>. QED BY <1>2, <1>3 DEF F!PipeFds

LEMMA StepPipe ==
  ASSUME F!FileAssumption, FileIInv, NEW p \in FileProcs, F!sys_pipe(p) \/ F!PipeAlloc1(p)
  PROVE  FileIInv'
<1>1. CASE F!sys_pipe(p)
  BY <1>1, StepAlloc DEF F!sys_pipe, F!GoTo, F!objects
<1>2. CASE F!PipeAlloc1(p) /\ F!FreeFiles # {}
  BY <1>2, StepAlloc DEF F!PipeAlloc1, F!GoTo, F!objects
<1>3. CASE F!PipeAlloc1(p) /\ F!FreeFiles = {}
  BY <1>3, StepMove DEF F!PipeAlloc1, F!GoTo, F!objects, F!file
<1>. QED BY <1>1, <1>2, <1>3

LEMMA StepDup ==
  ASSUME F!FileAssumption, FileIInv, NEW p \in FileProcs, NEW fd \in F!Fds, F!sys_dup(p, fd)
  PROVE  FileIInv'
<1>1. /\ fpc[p] = "idle" /\ ofile[p][fd] # NoFile /\ F!FreeFds(p) # {}
      /\ F!filedup(ofile[p][fd]) /\ UNCHANGED <<fpc, hand, ff, child, kpages, ends, iref>>
  BY DEF F!sys_dup, F!objects
<1>2. PICK k \in F!Fds : k = F!Lowest(F!FreeFds(p)) /\ ofile[p][k] = NoFile
  BY <1>1, LowestFree
<1>3. ofile' = [ofile EXCEPT ![p][k] = ofile[p][fd]]
  BY <1>2 DEF F!sys_dup
<1>4. /\ FileTypes' /\ ofile' \in [FileProcs -> [F!Fds -> F!Files \cup {NoFile}]]
      /\ F!RefExact' /\ F!UsableHasType' /\ F!InodeRefsExact'
      /\ FreeInv' /\ NewInv' /\ EndsInv' /\ iref' \in Nat
  BY <1>1, <1>2, <1>3, FileDuped
<1>5. ProcTypes /\ HandInv
  BY FileStart
<1>6. ProcTypes' /\ HandInv' /\ PipeTypes'
  BY <1>1, <1>4, <1>5, FileStart DEF ProcTypes, HandInv, PipeTypes, F!Files, F!Fds, F!Nothing
<1>7. OnlyBy(p)
  BY <1>1, <1>3, <1>5 DEF OnlyBy, ProcTypes
<1>8. ForkInv'
  BY <1>1, <1>7, ForkStays
<1>. QED BY <1>1, <1>4, <1>6, <1>8, FileStart, FileEndOfStep

LEMMA StepClose ==
  ASSUME F!FileAssumption, FileIInv, NEW p \in FileProcs, NEW fd \in F!Fds, F!sys_close(p, fd)
  PROVE  FileIInv'
<1>1. /\ fpc[p] = "idle" /\ ofile[p][fd] # NoFile /\ ofile' = [ofile EXCEPT ![p][fd] = NoFile]
      /\ hand' = [hand EXCEPT ![p] = <<ofile[p][fd]>>] /\ fpc' = [fpc EXCEPT ![p] = "closing"]
      /\ UNCHANGED <<fref, ftype, writable, pipe, ff, child, kpages, ends, iref>>
  BY DEF F!sys_close, F!GoTo, F!file, F!objects
<1>2. ProcTypes /\ HandAt(fpc[p], hand[p], ff[p])
  BY FileStart
<1>3. PICK f \in F!Files : f = ofile[p][fd]
  BY <1>1, <1>2 DEF ProcTypes
<1>4. <<f>> \in Seq(F!Files) /\ Len(<<f>>) = 1
  OBVIOUS
<1>5. hand' \in [FileProcs -> Seq(F!Files)] /\ hand'[p] = <<f>> /\ fpc'[p] = "closing"
  BY <1>1, <1>2, <1>3, <1>4 DEF ProcTypes
<1>6. ofile' \in [FileProcs -> [F!Fds -> F!Files \cup {NoFile}]]
  BY <1>1, <1>2 DEF ProcTypes
<1>7. ProcTypes'
  BY <1>1, <1>2, <1>5, <1>6 DEF ProcTypes, F!Files, F!Fds
<1>8. \A q \in FileProcs : q # p => fpc'[q] = fpc[q] /\ hand'[q] = hand[q] /\ ofile'[q] = ofile[q]
  BY <1>1, <1>2 DEF ProcTypes
<1>9. OnlyBy(p)
  BY <1>1, <1>8 DEF OnlyBy
<1>10. F!UsableHasType'
  <2>1. \A q \in FileProcs, k \in F!Fds : ofile'[q][k] = ofile[q][k] \/ ofile'[q][k] = NoFile
    BY <1>1, <1>2 DEF ProcTypes
  <2>. QED BY <1>1, <2>1, FileStart DEF F!UsableHasType, F!Fds
<1>11. HandInv'
  <2>1. HandAt(fpc'[p], hand'[p], ff'[p])
    BY <1>4, <1>5 DEF HandAt
  <2>. QED BY <1>9, <2>1, HandBy
<1>12. ForkInv'
  BY <1>1, <1>5, <1>9, ForkStays
<1>13. NewInv'
  BY <1>1, <1>5, <1>9, NewStays
<1>14. /\ FileTypes' /\ FreeInv' /\ EndsInv'
       /\ \A h : h \in InodeFiles <=> h \in InodeFiles'
  BY <1>1, FilesStay
<1>15. F!InodeRefsExact' /\ iref' \in Nat
  BY <1>1, <1>5, <1>8, <1>14, InodeSame
<1>16. F!RefExact' /\ PipeTypes'
  BY <1>1, RefSysClose, FileStart DEF PipeTypes
<1>. QED BY <1>1, <1>7, <1>10, <1>11, <1>12, <1>13, <1>14, <1>15, <1>16, FileStart, FileEndOfStep

LEMMA StepFork ==
  ASSUME F!FileAssumption, FileIInv, NEW p \in FileProcs, NEW q \in FileProcs, F!Fork(p, q)
  PROVE  FileIInv'
<1>1. /\ fpc[p] = "idle" /\ fpc[q] = "unused" /\ \A r \in FileProcs : child[r] # q
      /\ child' = [child EXCEPT ![p] = q] /\ fpc' = [fpc EXCEPT ![p] = "fork"]
      /\ UNCHANGED <<fref, ftype, writable, pipe, ofile, hand, ff, kpages, ends, iref>>
  BY DEF F!Fork, F!GoTo, F!file, F!objects
<1>2. ProcTypes /\ HandAt(fpc[p], hand[p], ff[p])
  BY FileStart
<1>3. ProcTypes' /\ OnlyBy(p) /\ fpc'[p] = "fork" /\ child'[p] = q
  BY <1>1, <1>2 DEF ProcTypes, OnlyBy, F!Files, F!Fds
<1>4. HandInv'
  <2>1. HandAt(fpc'[p], hand'[p], ff'[p])
    BY <1>1, <1>2, <1>3 DEF HandAt
  <2>. QED BY <1>3, <2>1, HandBy
<1>5. NewInv'
  BY <1>1, <1>3, NewStays
<1>6. \A r \in FileProcs : r # p => fpc'[r] = fpc[r] /\ child'[r] = child[r]
  BY <1>1, <1>2 DEF ProcTypes
<1>7. ForkInv'
  <2>1. ForkInv
    BY FileStart
  <2>2. \A fd \in F!Fds : ofile[q][fd] = NoFile
    BY <1>1, <2>1 DEF ForkInv
  <2>3. ASSUME NEW r \in FileProcs, fpc'[r] = "fork"
        PROVE  /\ child'[r] \in FileProcs /\ fpc'[child'[r]] = "unused"
               /\ \A fd \in F!Fds : ofile[child'[r]][fd] \in {NoFile, ofile[r][fd]}
    <3>1. CASE r = p
      BY <3>1, <2>2, <1>1, <1>3, <1>6
    <3>2. CASE r # p
      <4>1. fpc[r] = "fork" /\ child'[r] = child[r]
        BY <2>3, <3>2, <1>6
      <4>2. /\ child[r] \in FileProcs /\ fpc[child[r]] = "unused"
            /\ \A fd \in F!Fds : ofile[child[r]][fd] \in {NoFile, ofile[r][fd]}
        BY <4>1, <2>1 DEF ForkInv
      <4>3. child[r] # p
        BY <4>2, <1>1
      <4>. QED BY <4>1, <4>2, <4>3, <1>6
    <3>. QED BY <3>1, <3>2
  <2>4. \A r \in FileProcs : fpc'[r] # "fork" => child'[r] = NoProc
    BY <2>1, <1>3, <1>6 DEF ForkInv
  <2>5. \A r, s \in FileProcs : child'[r] = child'[s] => r = s \/ child'[r] = NoProc
    BY <2>1, <1>1, <1>3, <1>6 DEF ForkInv
  <2>6. ASSUME NEW r \in FileProcs, fpc'[r] = "unused", \A s \in FileProcs : child'[s] # r
        PROVE  \A fd \in F!Fds : ofile[r][fd] = NoFile
    <3>1. r # p /\ fpc[r] = "unused"
      BY <2>6, <1>3, <1>6
    <3>2. \A s \in FileProcs : child[s] # r
      <4>1. child[p] = NoProc /\ NoProc # r
        BY <2>1, <1>1 DEF ForkInv, F!FileAssumption
      <4>. QED BY <4>1, <2>6, <1>6
    <3>. QED BY <3>1, <3>2, <2>1 DEF ForkInv
  <2>. QED BY <1>1, <2>3, <2>4, <2>5, <2>6 DEF ForkInv, F!Fds
<1>8. /\ FileTypes' /\ FreeInv' /\ F!UsableHasType' /\ EndsInv'
      /\ \A f : f \in InodeFiles <=> f \in InodeFiles'
  BY <1>1, FilesStay
<1>9. F!InodeRefsExact' /\ iref' \in Nat
  BY <1>1, <1>3, <1>6, <1>8, InodeSame
<1>10. F!RefExact' /\ PipeTypes'
  BY <1>1, RefStays, FileStart DEF PipeTypes
<1>. QED BY <1>1, <1>3, <1>4, <1>5, <1>7, <1>8, <1>9, <1>10, FileStart, FileEndOfStep

LEMMA StepForkDup ==
  ASSUME F!FileAssumption, FileIInv, NEW p \in FileProcs, F!ForkDup(p)
  PROVE  FileIInv'
<1>1. fpc[p] = "fork" /\ UNCHANGED <<hand, ff, kpages, ends>>
  BY DEF F!ForkDup
<1>2. ProcTypes /\ ForkInv /\ HandInv /\ iref \in Nat
  BY FileStart
<1>3. PICK q \in FileProcs : /\ q = child[p] /\ fpc[q] = "unused" /\ q # NoProc /\ q # p
                             /\ \A fd \in F!Fds : ofile[q][fd] \in {NoFile, ofile[p][fd]}
  BY <1>1, <1>2 DEF ForkInv, F!FileAssumption
<1>4. \A r \in FileProcs : child[r] = q => r = p
  BY <1>2, <1>3 DEF ForkInv
<1>5. PipeTypes' /\ hand' \in [FileProcs -> Seq(F!Files)] /\ ff' \in [FileProcs -> Ops]
  BY <1>1, FileStart DEF PipeTypes, ProcTypes
<1>. DEFINE todo == {fd \in F!Fds : ofile[p][fd] # ofile[q][fd]}
<1>6. CASE todo # {}
  <2>1. PICK k \in F!Fds : k = F!Lowest(todo) /\ ofile[p][k] # NoFile /\ ofile[q][k] = NoFile
    <3>1. todo \in SUBSET Nat
      BY FewFiles DEF F!Fds
    <3>2. F!Lowest(todo) \in todo
      BY <1>6, <3>1, LowestIn
    <3>. QED BY <3>2, <1>3
  <2>2. /\ F!filedup(ofile[p][k]) /\ ofile' = [ofile EXCEPT ![q][k] = ofile[p][k]]
        /\ UNCHANGED <<fpc, child, iref>>
    BY <1>3, <1>6, <2>1 DEF F!ForkDup
  <2>3. /\ FileTypes' /\ ofile' \in [FileProcs -> [F!Fds -> F!Files \cup {NoFile}]]
        /\ F!RefExact' /\ F!UsableHasType' /\ F!InodeRefsExact'
        /\ FreeInv' /\ NewInv' /\ EndsInv' /\ iref' \in Nat
    BY <1>1, <2>1, <2>2, FileDuped
  <2>4. ProcTypes' /\ HandInv'
    BY <1>1, <1>2, <2>2, <2>3 DEF ProcTypes, HandInv, F!Files, F!Fds, F!Nothing
  <2>5. ForkInv'
    <3>1. \A r \in FileProcs : r # q => ofile'[r] = ofile[r]
      BY <1>2, <2>2 DEF ProcTypes
    <3>2. \A fd \in F!Fds : ofile'[q][fd] = (IF fd = k THEN ofile[p][k] ELSE ofile[q][fd])
      BY <1>2, <2>2 DEF ProcTypes
    <3>3. ASSUME NEW r \in FileProcs, fpc[r] = "fork"
          PROVE  /\ child[r] \in FileProcs /\ fpc[child[r]] = "unused"
                 /\ \A fd \in F!Fds : ofile'[child[r]][fd] \in {NoFile, ofile'[r][fd]}
      <4>1. /\ child[r] \in FileProcs /\ fpc[child[r]] = "unused"
            /\ \A fd \in F!Fds : ofile[child[r]][fd] \in {NoFile, ofile[r][fd]}
        BY <3>3, <1>2 DEF ForkInv
      <4>2. r # q
        BY <3>3, <1>3
      <4>3. CASE r = p
        BY <4>2, <4>3, <3>1, <3>2, <1>3
      <4>4. CASE r # p
        <5>1. child[r] # q
          BY <4>4, <1>4
        <5>. QED BY <4>1, <4>2, <5>1, <3>1
      <4>. QED BY <4>1, <4>3, <4>4
    <3>4. ASSUME NEW r \in FileProcs, fpc[r] = "unused", \A s \in FileProcs : child[s] # r
          PROVE  \A fd \in F!Fds : ofile'[r][fd] = NoFile
      <4>1. r # q
        BY <3>4, <1>3
      <4>. QED BY <4>1, <3>1, <3>4, <1>2 DEF ForkInv
    <3>5. /\ \A r \in FileProcs : fpc[r] # "fork" => child[r] = NoProc
          /\ \A r, s \in FileProcs : child[r] = child[s] => r = s \/ child[r] = NoProc
      BY <1>2 DEF ForkInv
    <3>. QED BY <2>2, <3>3, <3>4, <3>5 DEF ForkInv, F!Fds
  <2>. QED BY <1>5, <2>3, <2>4, <2>5, FileEndOfStep
<1>7. CASE todo = {}
  <2>1. /\ iref' = iref + 1 /\ fpc' = [fpc EXCEPT ![p] = "idle", ![q] = "idle"]
        /\ child' = [child EXCEPT ![p] = NoProc] /\ UNCHANGED <<fref, ftype, writable, pipe, ofile>>
    BY <1>3, <1>7 DEF F!ForkDup, F!file
  <2>2. /\ fpc'[p] = "idle" /\ fpc'[q] = "idle" /\ child'[p] = NoProc
        /\ \A r \in FileProcs : (r # p /\ r # q => fpc'[r] = fpc[r]) /\ (r # p => child'[r] = child[r])
    BY <1>2, <2>1 DEF ProcTypes
  <2>3. ProcTypes'
    BY <1>1, <1>2, <2>1 DEF ProcTypes, F!Files, F!Fds
  <2>4. HandInv'
    <3>1. \A r \in FileProcs : HandAt(fpc[r], hand[r], ff[r])
      BY FileStart
    <3>2. \A r \in FileProcs : HandAt(fpc'[r], hand[r], ff[r])
      <4>1. HandAt(fpc[p], hand[p], ff[p]) => HandAt(fpc'[p], hand[p], ff[p])
        BY <1>1, <2>2 DEF HandAt
      <4>2. HandAt(fpc[q], hand[q], ff[q]) => HandAt(fpc'[q], hand[q], ff[q])
        BY <1>3, <2>2 DEF HandAt
      <4>. QED BY <3>1, <4>1, <4>2, <2>2
    <3>. QED BY <1>1, <3>2 DEF HandInv, HandAt, F!Nothing
  <2>5. NewInv'
    <3>1. \A r \in FileProcs : fpc'[r] \in {"open_fd", "pipe1", "pipe_page", "pipe_fds"} => fpc'[r] = fpc[r]
      BY <2>2
    <3>2. NewInv
      BY FileStart
    <3>3. ASSUME NEW r \in FileProcs, NEW j \in 1..Len(hand[r])
          PROVE  /\ fpc'[r] \in {"open_fd", "pipe1", "pipe_page"} =>
                       fref[hand[r][j]] = 1 /\ ftype[hand[r][j]] = "FD_NONE"
                 /\ fpc'[r] = "pipe_fds" => ftype[hand[r][j]] = "FD_PIPE"
      BY <3>1, <3>2 DEF NewInv
    <3>4. hand' = hand /\ fref' = fref /\ ftype' = ftype
      BY <1>1, <2>1
    <3>. QED BY <3>3, <3>4 DEF NewInv
  <2>6. ForkInv'
    <3>1. ASSUME NEW r \in FileProcs, fpc'[r] = "fork"
          PROVE  /\ child'[r] \in FileProcs /\ fpc'[child'[r]] = "unused"
                 /\ \A fd \in F!Fds : ofile[child'[r]][fd] \in {NoFile, ofile[r][fd]}
      <4>1. r # p /\ r # q /\ fpc[r] = "fork" /\ child'[r] = child[r]
        BY <3>1, <2>2
      <4>2. /\ child[r] \in FileProcs /\ fpc[child[r]] = "unused"
            /\ \A fd \in F!Fds : ofile[child[r]][fd] \in {NoFile, ofile[r][fd]}
        BY <4>1, <1>2 DEF ForkInv
      <4>3. child[r] # p /\ child[r] # q
        BY <4>1, <4>2, <1>1, <1>4
      <4>. QED BY <4>1, <4>2, <4>3, <2>2
    <3>2. \A r \in FileProcs : fpc'[r] # "fork" => child'[r] = NoProc
      <4>1. \A r \in FileProcs : r # p /\ fpc[r] = "fork" => fpc'[r] = "fork"
        BY <2>2, <1>3
      <4>. QED BY <4>1, <2>2, <1>2 DEF ForkInv
    <3>3. \A r, s \in FileProcs : child'[r] = child'[s] => r = s \/ child'[r] = NoProc
      BY <2>2, <1>2 DEF ForkInv
    <3>4. ASSUME NEW r \in FileProcs, fpc'[r] = "unused", \A s \in FileProcs : child'[s] # r
          PROVE  \A fd \in F!Fds : ofile[r][fd] = NoFile
      <4>1. r # p /\ r # q /\ fpc[r] = "unused"
        BY <3>4, <2>2
      <4>2. \A s \in FileProcs : child[s] # r
        BY <3>4, <4>1, <2>2, <1>3
      <4>. QED BY <4>1, <4>2, <1>2 DEF ForkInv
    <3>. QED BY <2>1, <3>1, <3>2, <3>3, <3>4 DEF ForkInv, F!Fds
  <2>7. /\ FileTypes' /\ FreeInv' /\ F!UsableHasType' /\ EndsInv'
        /\ \A f : f \in InodeFiles <=> f \in InodeFiles'
    BY <1>1, <2>1, FilesStay
  <2>8. F!InodeRefsExact' /\ iref' \in Nat
    <3>1. q \notin Running /\ q \in Running'
      BY <1>3, <2>2 DEF Running
    <3>2. Opening' = Opening
      <4>1. \A r \in FileProcs : fpc[r] \in {"open", "open_fd"} <=> fpc'[r] \in {"open", "open_fd"}
        BY <1>1, <1>3, <2>2
      <4>. QED BY <4>1 DEF Opening
    <3>3. InodeDrops' = InodeDrops /\ InodeFiles' = InodeFiles
      BY <1>1, <2>7 DEF InodeDrops
    <3>4. iref' = iref + (In(q, Running') - In(q, Running)) + (In(p, InodeFiles') - In(p, InodeFiles))
                       + (In(p, Opening') - In(p, Opening)) + (In(p, InodeDrops') - In(p, InodeDrops))
      BY <1>2, <2>1, <3>1, <3>2, <3>3 DEF In
    <3>5. \A r \in FileProcs : r # q => (fpc[r] = "unused" <=> fpc'[r] = "unused")
      BY <1>1, <2>2
    <3>. QED BY <1>1, <3>2, <3>3, <3>4, <3>5, InodeStep
  <2>9. F!RefExact'
    BY <1>1, <2>1, RefStays
  <2>. QED BY <1>5, <2>3, <2>4, <2>5, <2>6, <2>7, <2>8, <2>9, FileEndOfStep
<1>. QED BY <1>6, <1>7

LEMMA StepExitClose ==
  ASSUME F!FileAssumption, FileIInv, NEW p \in FileProcs, F!ExitClose(p)
  PROVE  FileIInv'
<1>1. fpc[p] = "exit" /\ ff[p] = F!Nothing /\ UNCHANGED <<hand, child, kpages, ends>>
  BY DEF F!ExitClose
<1>2. ProcTypes /\ HandAt(fpc[p], hand[p], ff[p]) /\ iref \in Nat /\ ForkInv
  BY FileStart
<1>3. hand[p] = <<>>
  BY <1>1, <1>2 DEF HandAt
<1>4. PipeTypes' /\ hand' \in [FileProcs -> Seq(F!Files)]
  BY <1>1, FileStart DEF PipeTypes, ProcTypes
<1>. DEFINE open == F!Fds \ F!FreeFds(p)
<1>5. CASE open # {}
  <2>1. PICK k \in F!Fds : k = F!Lowest(open) /\ ofile[p][k] # NoFile
    <3>1. open \in SUBSET Nat
      BY FewFiles DEF F!Fds
    <3>2. F!Lowest(open) \in open
      BY <1>5, <3>1, LowestIn
    <3>. QED BY <3>2 DEF F!FreeFds
  <2>2. PICK f \in F!Files : f = ofile[p][k] /\ fref[f] >= 1
    BY <2>1, HolderCounted
  <2>3. /\ F!fileclose(p, f, F!Nothing) /\ ofile' = [ofile EXCEPT ![p][k] = NoFile]
        /\ UNCHANGED <<fpc, iref>>
    BY <1>5, <2>1, <2>2 DEF F!ExitClose
  <2>4. /\ EndsInv'
        /\ \A g \in F!Files : g # f => (g \in InodeFiles <=> g \in InodeFiles')
        /\ (In(f, InodeFiles') - In(f, InodeFiles)) + (In(p, InodeDrops') - In(p, InodeDrops)) = 0
        /\ \A q \in FileProcs : q # p => ff'[q] = ff[q]
    <3>1. F!Nothing # F!Inode
      BY DEF F!Nothing, F!Inode
    <3>. QED BY <1>1, <2>2, <2>3, <3>1, CloseObjects
  <2>5. ofile' \in [FileProcs -> [F!Fds -> F!Files \cup {NoFile}]]
    BY <1>2, <2>3 DEF ProcTypes
  <2>6. /\ \A q \in FileProcs : q # p => ofile'[q] = ofile[q]
        /\ \A j \in F!Fds : ofile'[p][j] = (IF j = k THEN NoFile ELSE ofile[p][j])
    BY <1>2, <2>3 DEF ProcTypes
  <2>7. ProcTypes' /\ OnlyBy(p)
    BY <1>1, <1>2, <2>3, <2>4, <2>5, <2>6 DEF ProcTypes, OnlyBy, F!Files, F!Fds
  <2>8. fref[f] = 1 => Left(f)
    <3>. SUFFICES ASSUME fref[f] = 1 PROVE Left(f)
      OBVIOUS
    <3>1. /\ \A q \in FileProcs, j \in F!Fds : ofile[q][j] = f => q = p /\ j = k
          /\ \A q \in FileProcs, j \in {1, 2} : InHand(hand[q], j) # f
      <4>1. ofile[p][k] # NoFile /\ fref[ofile[p][k]] = 1
        BY <2>1, <2>2
      <4>2. /\ \A q \in FileProcs, j \in F!Fds : ofile[q][j] = ofile[p][k] => q = p /\ j = k
            /\ \A q \in FileProcs, j \in {1, 2} : InHand(hand[q], j) # ofile[p][k]
        BY <4>1, HolderCounted
      <4>. QED BY <2>2, <4>2
    <3>2. \A q \in FileProcs, j \in F!Fds : ofile'[q][j] # f
      BY <2>6, <3>1, FewFiles
    <3>3. \A q \in FileProcs : \A j \in 1..Len(hand[q]) : hand[q][j] # f
      BY <3>1, InHands
    <3>. QED BY <1>1, <3>2, <3>3 DEF Left
  <2>9. /\ FileTypes' /\ ff' \in [FileProcs -> Ops]
        /\ F!UsableHasType' /\ FreeInv' /\ NewInv'
    <3>1. fpc'[p] \in {"closing", "exit"} /\ \A j \in F!Fds : ofile'[p][j] \in {ofile[p][j], NoFile}
      BY <1>1, <2>3, <2>6
    <3>. QED BY <2>2, <2>3, <2>7, <2>8, <3>1, FileClosed
  <2>10. HandInv'
    <3>1. HandAt(fpc'[p], hand'[p], ff'[p])
      BY <1>1, <1>3, <2>3, EmptySeq DEF HandAt
    <3>. QED BY <2>7, <3>1, HandBy
  <2>11. ForkInv'
    BY <1>1, <2>3, <2>7, ForkStays
  <2>12. F!InodeRefsExact' /\ iref' \in Nat
    <3>1. Running' = Running /\ Opening' = Opening
      BY <2>3 DEF Running, Opening
    <3>2. /\ In(p, Running) \in Int /\ In(p, Opening) \in Int /\ In(f, InodeFiles) \in Int
          /\ In(f, InodeFiles') \in Int /\ In(p, InodeDrops) \in Int /\ In(p, InodeDrops') \in Int
      BY DEF In
    <3>3. iref' = iref + (In(p, Running') - In(p, Running)) + (In(f, InodeFiles') - In(f, InodeFiles))
                       + (In(p, Opening') - In(p, Opening)) + (In(p, InodeDrops') - In(p, InodeDrops))
      BY <1>2, <2>3, <2>4, <3>1, <3>2
    <3>. QED BY <2>3, <2>4, <3>1, <3>3, InodeStep
  <2>13. F!RefExact'
    <3>1. fref' = [fref EXCEPT ![ofile[p][k]] = @ - 1]
      BY <2>2, <2>3 DEF F!fileclose
    <3>. QED BY <1>1, <2>1, <2>3, <3>1, RefCloseFd
  <2>. QED BY <1>4, <2>4, <2>7, <2>9, <2>10, <2>11, <2>12, <2>13, FileEndOfStep
<1>6. CASE open = {}
  <2>1. /\ iref' = iref - 1 /\ fpc' = [fpc EXCEPT ![p] = "unused"]
        /\ UNCHANGED <<fref, ftype, writable, pipe, ofile, ff>>
    BY <1>6 DEF F!ExitClose, F!GoTo, F!file
  <2>2. \A fd \in F!Fds : ofile[p][fd] = NoFile
    BY <1>6 DEF F!FreeFds
  <2>3. ProcTypes' /\ OnlyBy(p) /\ fpc'[p] = "unused" /\ \A r \in FileProcs : r # p => fpc'[r] = fpc[r]
    BY <1>1, <1>2, <2>1 DEF ProcTypes, OnlyBy, F!Files, F!Fds
  <2>4. HandInv'
    <3>1. HandAt(fpc'[p], hand'[p], ff'[p])
      BY <1>1, <1>3, <2>1, <2>3, EmptySeq DEF HandAt
    <3>. QED BY <2>3, <3>1, HandBy
  <2>5. NewInv'
    BY <1>1, <2>1, <2>3, NewStays
  <2>6. ForkInv'
    <3>1. ASSUME NEW r \in FileProcs, fpc'[r] = "fork"
          PROVE  /\ child[r] \in FileProcs /\ fpc'[child[r]] = "unused"
                 /\ \A fd \in F!Fds : ofile[child[r]][fd] \in {NoFile, ofile[r][fd]}
      <4>1. fpc[r] = "fork"
        BY <3>1, <2>3
      <4>2. /\ child[r] \in FileProcs /\ fpc[child[r]] = "unused"
            /\ \A fd \in F!Fds : ofile[child[r]][fd] \in {NoFile, ofile[r][fd]}
        BY <4>1, <1>2 DEF ForkInv
      <4>. QED BY <4>2, <2>3
    <3>2. \A r \in FileProcs : fpc'[r] # "fork" => child[r] = NoProc
      BY <1>1, <1>2, <2>3 DEF ForkInv
    <3>3. ASSUME NEW r \in FileProcs, fpc'[r] = "unused", \A s \in FileProcs : child[s] # r
          PROVE  \A fd \in F!Fds : ofile[r][fd] = NoFile
      <4>1. CASE r = p
        BY <4>1, <2>2
      <4>2. CASE r # p
        BY <4>2, <3>3, <2>3, <1>2 DEF ForkInv
      <4>. QED BY <4>1, <4>2
    <3>4. \A r, s \in FileProcs : child[r] = child[s] => r = s \/ child[r] = NoProc
      BY <1>2 DEF ForkInv
    <3>. QED BY <1>1, <2>1, <3>1, <3>2, <3>3, <3>4 DEF ForkInv, F!Fds
  <2>7. /\ FileTypes' /\ FreeInv' /\ F!UsableHasType' /\ EndsInv'
        /\ \A f : f \in InodeFiles <=> f \in InodeFiles'
    BY <1>1, <2>1, FilesStay
  <2>8. F!InodeRefsExact' /\ iref' \in Nat
    <3>1. p \in Running /\ p \notin Running'
      BY <1>1, <2>3 DEF Running
    <3>2. Opening' = Opening
      <4>1. \A r \in FileProcs : fpc[r] \in {"open", "open_fd"} <=> fpc'[r] \in {"open", "open_fd"}
        BY <1>1, <2>3
      <4>. QED BY <4>1 DEF Opening
    <3>3. InodeDrops' = InodeDrops /\ InodeFiles' = InodeFiles
      BY <2>1, <2>7 DEF InodeDrops
    <3>4. iref' = iref + (In(p, Running') - In(p, Running)) + (In(p, InodeFiles') - In(p, InodeFiles))
                       + (In(p, Opening') - In(p, Opening)) + (In(p, InodeDrops') - In(p, InodeDrops))
      BY <1>2, <2>1, <3>1, <3>2, <3>3 DEF In
    <3>5. \A r \in FileProcs : r # p => (fpc[r] = "unused" <=> fpc'[r] = "unused")
      BY <2>3
    <3>. QED BY <2>1, <3>2, <3>3, <3>4, <3>5, InodeStep
  <2>9. F!RefExact'
    BY <1>1, <2>1, RefStays
  <2>. QED BY <1>4, <2>1, <2>3, <2>4, <2>5, <2>6, <2>7, <2>8, <2>9, FileStart, FileEndOfStep
<1>. QED BY <1>5, <1>6

LEMMA StepExit ==
  ASSUME F!FileAssumption, FileIInv, NEW p \in FileProcs, F!Exit(p)
  PROVE  FileIInv'
  BY StepMove DEF F!Exit, F!GoTo, F!file, F!objects

-----------------------------------------------------------------------------
(* The theorems about open files                                           *)

LEMMA FileInitKeeps ==
  ASSUME F!FileAssumption, F!Init
  PROVE  FileIInv
<1>1. /\ fref = [f \in F!Files |-> 0] /\ ftype = [f \in F!Files |-> "FD_NONE"]
      /\ writable = [f \in F!Files |-> FALSE] /\ pipe = [f \in F!Files |-> NoPipe]
      /\ ofile = [p \in FileProcs |-> [fd \in F!Fds |-> NoFile]]
      /\ fpc = [p \in FileProcs |-> IF p = InitProc THEN "idle" ELSE "unused"]
      /\ hand = [p \in FileProcs |-> <<>>] /\ ff = [p \in FileProcs |-> F!Nothing]
      /\ child = [p \in FileProcs |-> NoProc]
      /\ kpages = {} /\ ends = {} /\ iref = 1
  BY DEF F!Init
<1>2. <<>> \in Seq(F!Files) /\ Len(<<>>) = 0 /\ InitProc \in FileProcs /\ NoProc \notin FileProcs
  BY EmptySeq DEF F!FileAssumption
<1>3. F!TypeOK
  <2>1. fref \in [F!Files -> Nat] /\ iref \in Nat
    BY <1>1
  <2>2. writable \in [F!Files -> BOOLEAN]
    BY <1>1
  <2>3. ftype \in [F!Files -> {"FD_NONE", "FD_PIPE", "FD_INODE"}] /\ pipe \in [F!Files -> Pipes \cup {NoPipe}]
    BY <1>1
  <2>4. ofile \in [FileProcs -> [F!Fds -> F!Files \cup {NoFile}]] /\ hand \in [FileProcs -> Seq(F!Files)]
    BY <1>1, <1>2
  <2>5. /\ fpc \in [FileProcs -> {"unused", "idle", "closing", "open", "open_fd", "pipe1",
                                  "pipe_page", "pipe_fds", "fork", "exit"}]
        /\ child \in [FileProcs -> FileProcs \cup {NoProc}]
    BY <1>1
  <2>6. ff \in [FileProcs -> {F!Nothing, F!Inode} \cup [type : {"FD_PIPE"}, pipe : Pipes, writable : BOOLEAN]]
    BY <1>1
  <2>. QED BY <1>1, <2>1, <2>2, <2>3, <2>4, <2>5, <2>6 DEF F!TypeOK
<1>4. HandInv
  BY <1>1, <1>2 DEF HandInv
<1>5. FreeInv /\ NewInv /\ F!UsableHasType
  BY <1>1, <1>2 DEF FreeInv, NewInv, F!UsableHasType
<1>6. ForkInv
  BY <1>1, <1>2 DEF ForkInv
<1>7. EndsInv
  <2>1. PipeFiles = {} /\ Droppers = {}
    BY <1>1 DEF PipeFiles, Droppers, F!Nothing
  <2>. QED BY <1>1, <2>1 DEF EndsInv
<1>8. F!RefExact
  <2>1. ASSUME NEW f \in F!Files PROVE PlacesOf(Filled(ofile, hand), f) = {}
    <3>1. f # NoFile
      BY FewFiles
    <3>2. \A p \in FileProcs, k \in {NOFILE + 1, NOFILE + 2} : InHand(hand[p], k - NOFILE) = NoFile
      <4>1. NOFILE \in Nat
        BY FewFiles
      <4>2. \A k \in {NOFILE + 1, NOFILE + 2} : ~ (k - NOFILE <= 0)
        BY <4>1
      <4>. QED BY <1>1, <1>2, <4>2 DEF InHand
    <3>3. ASSUME NEW h \in FilePlaces PROVE Filled(ofile, hand)[h] = NoFile
      BY <1>1, <3>2 DEF Filled, FilePlaces
    <3>. QED BY <3>1, <3>3 DEF PlacesOf
  <2>2. Counts(fref, Filled(ofile, hand))
    BY <1>1, <2>1, FS_EmptySet DEF Counts
  <2>. QED BY <2>2, RefCounts
<1>9. F!InodeRefsExact
  <2>1. Running = {InitProc} /\ InodeFiles = {} /\ Opening = {} /\ InodeDrops = {}
    BY <1>1, <1>2 DEF Running, InodeFiles, Opening, InodeDrops, F!Nothing
  <2>2. Cardinality({InitProc}) = 1 /\ Cardinality({}) = 0
    BY FS_Singleton, FS_EmptySet
  <2>. QED BY <1>1, <2>1, <2>2, InodeCounts
<1>. QED BY <1>3, <1>4, <1>5, <1>6, <1>7, <1>8, <1>9 DEF FileIInv

LEMMA FileNextKeeps ==
  ASSUME F!FileAssumption, FileIInv, [F!Next]_F!vars
  PROVE  FileIInv'
<1>1. CASE UNCHANGED F!vars
  <2>1. UNCHANGED <<fref, ftype, writable, pipe, ofile, fpc, hand, ff, child, kpages, ends, iref>>
    BY <1>1 DEF F!vars, F!file, F!objects
  <2>2. /\ FileTypes' /\ FreeInv' /\ F!UsableHasType' /\ EndsInv' /\ F!RefExact'
        /\ \A f : f \in InodeFiles <=> f \in InodeFiles'
    BY <2>1, FilesStay, RefStays
  <2>3. F!InodeRefsExact' /\ iref' \in Nat
    BY <2>1, <2>2, InodeSame
  <2>4. ProcTypes' /\ PipeTypes' /\ ff' \in [FileProcs -> Ops]
    BY <2>1, FileStart DEF ProcTypes, PipeTypes, F!Files, F!Fds
  <2>5. HandInv' /\ NewInv' /\ ForkInv'
    BY <2>1, FileStart DEF HandInv, NewInv, ForkInv, F!Fds, F!Nothing
  <2>. QED BY <2>2, <2>3, <2>4, <2>5, FileEndOfStep
<1>2. CASE F!Next
  <2>1. PICK p \in FileProcs :
           \/ F!Advance(p)
           \/ \E fd \in F!Fds : F!sys_dup(p, fd) \/ F!sys_close(p, fd)
           \/ F!sys_open(p) \/ F!sys_pipe(p) \/ F!Exit(p)
           \/ \E q \in FileProcs : F!Fork(p, q)
    BY <1>2 DEF F!Next
  <2>2. CASE F!Drop(p)
    BY <2>2, StepDrop
  <2>3. CASE F!CloseNext(p)
    BY <2>3, StepCloseNext
  <2>4. CASE F!OpenAlloc(p) \/ F!sys_open(p)
    BY <2>4, StepOpen
  <2>5. CASE F!OpenFd(p)
    BY <2>5, StepOpenFd
  <2>6. CASE F!PipeAlloc1(p) \/ F!sys_pipe(p)
    BY <2>6, StepPipe
  <2>7. CASE F!PipePage(p)
    BY <2>7, StepPipePage
  <2>8. CASE F!PipeFds(p)
    BY <2>8, StepPipeFds
  <2>9. CASE F!ForkDup(p)
    BY <2>9, StepForkDup
  <2>10. CASE F!ExitClose(p)
    BY <2>10, StepExitClose
  <2>11. CASE \E fd \in F!Fds : F!sys_dup(p, fd)
    BY <2>11, StepDup
  <2>12. CASE \E fd \in F!Fds : F!sys_close(p, fd)
    BY <2>12, StepClose
  <2>13. CASE F!Exit(p)
    BY <2>13, StepExit
  <2>14. CASE \E q \in FileProcs : F!Fork(p, q)
    BY <2>14, StepFork
  <2>. QED BY <2>1, <2>2, <2>3, <2>4, <2>5, <2>6, <2>7, <2>8, <2>9, <2>10, <2>11, <2>12, <2>13, <2>14 DEF F!Advance
<1>. QED BY <1>1, <1>2

\* The inductive invariant of open files holds, for any number of processes,
\* files, descriptors and pipes.
THEOREM FilesInductive ==
  ASSUME F!FileAssumption
  PROVE  F!Spec => []FileIInv
<1>1. F!Init => FileIInv
  BY FileInitKeeps
<1>2. FileIInv /\ [F!Next]_F!vars => FileIInv'
  BY FileNextKeeps
<1>. QED BY <1>1, <1>2, PTL DEF F!Spec

\* What EndsInv says of owners is that there is one of each end that is open.
LEMMA OwnersCounted ==
  ASSUME F!FileAssumption, FileIInv
  PROVE  F!PipeEndsExact
<1>1. EndsInv /\ FreeInv /\ FileTypes
  BY FileStart
<1>2. ASSUME NEW pi \in Pipes, NEW w \in BOOLEAN
      PROVE  F!Cardinality(F!Owners(<<pi, w>>)) = IF <<pi, w>> \in ends THEN 1 ELSE 0
  <2>. DEFINE e == <<pi, w>>
              A == {f \in PipeFiles : FileEnd(f) = e}
              B == {p \in Droppers : DropEnd(p) = e}
  <2>1. F!Owners(e) = {"file"} \X A \cup {"close"} \X B
    <3>1. A = {f \in F!Files : fref[f] > 0 /\ ftype[f] = "FD_PIPE" /\ e = <<pipe[f], writable[f]>>}
      <4>1. \A f \in F!Files : ftype[f] = "FD_PIPE" => fref[f] > 0
        BY <1>1 DEF FreeInv, FileTypes
      <4>2. \A f : f \in A <=> f \in F!Files /\ ftype[f] = "FD_PIPE" /\ e = FileEnd(f)
        BY DEF PipeFiles
      <4>. QED BY <4>1, <4>2 DEF FileEnd
    <3>2. B = {p \in FileProcs : ff[p].type = "FD_PIPE" /\ e = <<ff[p].pipe, ff[p].writable>>}
      BY DEF Droppers, DropEnd
    <3>. HIDE DEF e, A, B
    <3>. QED BY <3>1, <3>2 DEF F!Owners
  <2>2. e \in ends => (\E f : A = {f} /\ B = {}) \/ (\E p : B = {p} /\ A = {})
    <3>. SUFFICES ASSUME e \in ends
                  PROVE  (\E f : A = {f} /\ B = {}) \/ (\E p : B = {p} /\ A = {})
      OBVIOUS
    <3>. HIDE DEF e
    <3>1. CASE \E f \in PipeFiles : FileEnd(f) = e
      <4>1. PICK f \in PipeFiles : FileEnd(f) = e
        BY <3>1
      <4>2. A = {f} /\ B = {}
        BY <1>1, <4>1 DEF EndsInv
      <4>. QED BY <4>2
    <3>2. CASE \E p \in Droppers : DropEnd(p) = e
      <4>1. PICK p \in Droppers : DropEnd(p) = e
        BY <3>2
      <4>2. B = {p} /\ A = {}
        BY <1>1, <4>1 DEF EndsInv
      <4>. QED BY <4>2
    <3>. QED BY <1>1, <3>1, <3>2 DEF EndsInv
  <2>3. e \notin ends => A = {} /\ B = {}
    BY <1>1 DEF EndsInv
  <2>. HIDE DEF e, A, B
  <2>4. \A x : Cardinality({x}) = 1 /\ Cardinality({}) = 0
    BY FS_Singleton, FS_EmptySet
  <2>5. e \in ends => \E x : F!Owners(e) = {x}
    <3>1. ASSUME NEW f, A = {f}, B = {} PROVE F!Owners(e) = {<<"file", f>>}
      BY <2>1, <3>1
    <3>2. ASSUME NEW p, B = {p}, A = {} PROVE F!Owners(e) = {<<"close", p>>}
      BY <2>1, <3>2
    <3>. QED BY <2>2, <3>1, <3>2
  <2>6. e \notin ends => F!Owners(e) = {}
    BY <2>1, <2>3
  <2>7. F!Cardinality(F!Owners(e)) = Cardinality(F!Owners(e))
    BY SameCount
  <2>8. F!Cardinality(F!Owners(e)) = IF e \in ends THEN 1 ELSE 0
    BY <2>4, <2>5, <2>6, <2>7
  <2>. QED BY <2>8 DEF e
<1>. QED BY <1>1, <1>2 DEF F!PipeEndsExact, EndsInv

\* FileInv of file.c and sysfile.c, for any number of processes, files,
\* descriptors and pipes: every count of ftable is the number of descriptors and
\* local variables that refer to the file, no descriptor refers to a file without
\* a type, and what a file stands for is given back once, with the last of them.
THEOREM FilesSafe ==
  ASSUME F!FileAssumption
  PROVE  F!Spec => []FileInv
<1>1. FileIInv => FileInv
  BY OwnersCounted DEF FileIInv, F!FileInv, FileInv
<1>. QED BY <1>1, FilesInductive, PTL
-----------------------------------------------------------------------------
(***************************************************************************)
(* The names of files, Names, for any number of processes, inodes and      *)
(* names and any system calls.                                             *)
(*                                                                         *)
(* The argument.  A count of the inode table is the number of processes    *)
(* that have the inode as current directory, as open file, in a local      *)
(* variable, or are in an iput() with it (UseInv); so an iput() that finds *)
(* a count of 1 has the only reference, and what somebody else has looked  *)
(* up under a lock (SureInv) stays.  An iput() that may still free has had *)
(* the inode locked or open, so that its entry is valid unless another     *)
(* iput() has just freed it (PutSure).  nlink is never less than the names *)
(* of an inode, its subdirectories and the calls that owe it a name or a   *)
(* decrement (LinkInv), so what is freed has no name.  Only a ".." may     *)
(* lead to an inode that was freed, and ilock() then panics: the invariant *)
(* holds until somebody panics, and nobody does if no path has a "..".     *)
(***************************************************************************)

\* Where a call has a reference in ip, or in dp; where it knows that the inode is
\* allocated; where it holds its lock; where a name is left of the path.
IpPCs == {"walk", "create_found", "create_put", "create_fail", "created", "unlink_ip", "unlink_put",
          "unlinked", "put_ip", "walk_to", "link_bad", "link_parent", "link_put_dp", "link_put"}
DpPCs == {"parent", "creat", "mkdir", "unlink", "create_put", "create_fail", "bad", "unlink_ip", "unlink_put",
          "walk_to", "link_parent", "link_put_dp"}
IpSure == IpPCs \ {"walk", "create_found", "unlink_ip"}
DpSure == DpPCs \ {"walk_to"}
IpLocked == {"create_put", "create_fail", "created", "unlink_put", "unlinked", "put_ip"}
DpLocked == DpPCs \ {"parent", "walk_to", "link_parent"}
LinkPCs == {"walk_to", "link_bad", "link_parent", "link_put_dp", "link_put"}
CreatePCs == {"creat", "mkdir", "create_found"}
LastPCs == {"parent", "creat", "mkdir", "unlink", "unlink_ip", "link_parent"}

\* Where ip has one link more than names: link() has counted it and not entered
\* it yet, or unlink() has cleared the entry and not counted it yet.
OwedPCs == {"walk_to", "link_parent", "link_bad", "unlink_put", "unlinked"}

Panicked == \E p \in NameProcs : npc[p] = "panic"

\* Whether paths have ".." in them
NoDotDot == \A c \in UNION Workloads : c.path \in Seq(FileNames) /\ (c.op = "link" => c.to \in Seq(FileNames))
Ups == IF NoDotDot THEN {} ELSE {".."}

-----------------------------------------------------------------------------
(* The invariant                                                           *)

InodeTypes ==
    /\ type \in [N!Inums -> {"free", "T_DIR", "T_FILE"}] /\ nlink \in [N!Inums -> Nat]
    /\ dent \in [N!Inums -> [FileNames -> N!Inums \cup {N!None}]]
    /\ dotdot \in [N!Inums -> N!Inums \cup {N!None}]
    /\ iuse \in [N!Inums -> Nat] /\ valid \in [N!Inums -> BOOLEAN]
    /\ ilock \in [N!Inums -> NameProcs \cup {NoHolder}]
    /\ calls \in Workloads

CallTypes ==
    /\ DOMAIN cwd = NameProcs /\ DOMAIN file = NameProcs /\ DOMAIN npc = NameProcs /\ DOMAIN call = NameProcs
    /\ DOMAIN path = NameProcs /\ DOMAIN ip = NameProcs /\ DOMAIN dp = NameProcs

\* The locals of p's call
CallType(p) ==
    /\ npc[p] \in IpPCs \cup DpPCs \cup {"idle"}
    /\ cwd[p] \in N!Inums /\ file[p] \in N!Inums \cup {N!None}
    /\ ip[p] \in N!Inums \cup {N!None} /\ dp[p] \in N!Inums \cup {N!None}
    /\ npc[p] \in IpPCs => ip[p] \in N!Inums
    /\ npc[p] \in DpPCs => dp[p] \in N!Inums
    /\ path[p] \in Seq(FileNames \cup Ups)
    /\ npc[p] \in LastPCs => Len(path[p]) = 1
    /\ call[p].op = "link" => call[p].to \in Seq(FileNames \cup Ups)
    /\ npc[p] = "parent" => call[p].op \in {"creat", "mkdir", "unlink"}
    /\ npc[p] \in CreatePCs => call[p].op \in {"creat", "mkdir"}
    /\ call[p].op \in {"open", "creat"} => file[p] = N!None

\* The entries of the table: a valid one is of an allocated inode, and what is free
\* has no links.
EntryOK(ty, nl, va) ==
    \A i \in N!Inums :
        /\ va[i] => ty[i] # "free"
        /\ ty[i] = "free" => nl[i] = 0

\* Only a directory has entries; it has a "..".
DirInv ==
    \A i \in N!Inums :
        /\ type[i] # "T_DIR" => dent[i] = N!NoNames
        /\ type[i] = "T_DIR" => dotdot[i] # N!None

\* The references that processes have, and those of process p outside iput()
Count(f, i) == Cardinality({p \in NameProcs : f[p] = i})
IpHeld == [p \in NameProcs |-> IF npc[p] \in IpPCs THEN ip[p] ELSE N!None]
DpHeld == [p \in NameProcs |-> IF npc[p] \in DpPCs THEN dp[p] ELSE N!None]
Total(i) == Count(cwd, i) + Count(file, i) + Count(IpHeld, i) + Count(DpHeld, i) + Count(put, i)
Mine(p, i) ==
    (IF cwd[p] = i THEN 1 ELSE 0) + (IF file[p] = i THEN 1 ELSE 0)
    + (IF npc[p] \in IpPCs /\ ip[p] = i THEN 1 ELSE 0) + (IF npc[p] \in DpPCs /\ dp[p] = i THEN 1 ELSE 0)

UseInv == \A i \in N!Inums : iuse[i] = Total(i)

\* The names of i, its subdirectories, and the calls that owe it one
NamesOf(i) == {x \in N!Inums \X FileNames : dent[x[1]][x[2]] = i}
Subdirs(i) == {n \in FileNames : dent[i][n] # N!None /\ type[dent[i][n]] = "T_DIR"}
Owed(i) == {p \in NameProcs : npc[p] \in OwedPCs /\ ip[p] = i}

LinkInv ==
    \A i \in N!Inums :
        nlink[i] >= (IF i = N!Root THEN 1 ELSE 0) + Cardinality(NamesOf(i)) + Cardinality(Subdirs(i))
                    + Cardinality(Owed(i))

\* What p has looked up under a lock and still refers to is allocated.
SureInv(p) ==
    /\ type[cwd[p]] # "free"
    /\ file[p] # N!None => type[file[p]] # "free"
    /\ npc[p] \in IpSure => type[ip[p]] # "free" /\ valid[ip[p]]
    /\ npc[p] \in DpSure => type[dp[p]] = "T_DIR" /\ valid[dp[p]]
    /\ npc[p] \in LinkPCs => type[ip[p]] # "T_DIR"
    /\ npc[p] \in IpPCs /\ NoDotDot => type[ip[p]] # "free"
    /\ npc[p] \in DpPCs /\ NoDotDot => type[dp[p]] # "free"

HoldInv(p) ==
    /\ npc[p] \in IpLocked => ilock[ip[p]] = p
    /\ npc[p] \in DpLocked => ilock[dp[p]] = p
    /\ npc[p] \in IpLocked \cap DpLocked => ip[p] # dp[p]
    /\ npc[p] = "unlink_ip" => path[p][1] \in FileNames /\ dent[dp[p]][path[p][1]] = ip[p]

\* Where iput() may still have to free, the entry is valid, so that it will: the
\* root's alone may never have been, and the root has a link.
PutType(p) ==
    /\ put[p] \in N!Inums \cup {N!None} /\ ifreed[p] \in BOOLEAN
    /\ ifreed[p] => put[p] # N!None
PutSure(p) ==
    /\ valid[cwd[p]] \/ cwd[p] = N!Root
    /\ file[p] # N!None => valid[file[p]]
    /\ put[p] # N!None /\ ~ ifreed[p] => valid[put[p]] \/ put[p] = N!Root
PutTypes == DOMAIN put = NameProcs /\ DOMAIN ifreed = NameProcs /\ \A p \in NameProcs : PutType(p)

InodesInv == InodeTypes /\ EntryOK(type, nlink, valid) /\ DirInv
CallInv(p) == CallType(p) /\ SureInv(p) /\ HoldInv(p)
PutsInv == PutTypes /\ \A p \in NameProcs : PutSure(p)
NamesGood == InodesInv /\ CallTypes /\ UseInv /\ LinkInv /\ PutsInv /\ \A p \in NameProcs : CallInv(p)

\* The variables that are functions of the processes
OnProcs(f) == f = [p \in NameProcs |-> f[p]]
Functions == OnProcs(npc) /\ OnProcs(cwd) /\ OnProcs(file) /\ OnProcs(ip) /\ OnProcs(dp) /\ OnProcs(put) /\ OnProcs(ifreed)

NamesIInv == Functions /\ (Panicked \/ NamesGood)
-----------------------------------------------------------------------------
(* Counting                                                                *)

LEMMA SameSize == \A S : N!Cardinality(S) = Cardinality(S)
  BY DEF N!Cardinality, Cardinality

LEMMA FewNames ==
  ASSUME N!NamesAssumption
  PROVE  /\ IsFiniteSet(NameProcs) /\ IsFiniteSet(FileNames) /\ IsFiniteSet(N!Inums \X FileNames)
         /\ NoHolder \notin NameProcs /\ ".." \notin FileNames
         /\ N!Root \in N!Inums /\ N!None \notin N!Inums
<1>1. NInodes \in Nat \ {0} /\ NoHolder \notin NameProcs /\ ".." \notin FileNames
  BY DEF N!NamesAssumption
<1>2. IsFiniteSet(NameProcs) /\ IsFiniteSet(FileNames)
  BY DEF N!NamesAssumption, N!IsFiniteSet, IsFiniteSet
<1>3. IsFiniteSet(N!Inums)
  BY <1>1, FS_Interval, 1 \in Int, NInodes \in Int DEF N!Inums
<1>4. IsFiniteSet(N!Inums \X FileNames)
  BY <1>2, <1>3, FS_Product
<1>. QED BY <1>1, <1>2, <1>4 DEF N!Inums, N!Root, N!None

Hit(x, i) == IF x = i THEN 1 ELSE 0

\* One process has another inode, or none.
But(f, g, p) == \A q \in NameProcs \ {p} : g[q] = f[q]

LEMMA CountOne ==
  ASSUME N!NamesAssumption, NEW f, NEW g, NEW p \in NameProcs, But(f, g, p), NEW i
  PROVE  /\ Count(g, i) = Count(f, i) + Hit(g[p], i) - Hit(f[p], i)
         /\ Count(f, i) \in Nat /\ Count(g, i) \in Nat
         /\ Count(f, i) >= Hit(f[p], i)
<1>. DEFINE S == {q \in NameProcs : f[q] = i}
            T == {q \in NameProcs : g[q] = i}
<1>1. S \in SUBSET NameProcs /\ T \in SUBSET NameProcs
  OBVIOUS
<1>2. IsFiniteSet(S) /\ IsFiniteSet(T)
  BY <1>1, FewNames, FS_Subset
<1>3. Cardinality(S) \in Nat /\ Cardinality(T) \in Nat
  BY <1>2, FS_CardinalityType
<1>4. \A y : y # p => (y \in S <=> y \in T)
  BY DEF But
<1>5. /\ In(p, S) = Hit(f[p], i)
      /\ In(p, T) = Hit(g[p], i)
  BY DEF In, Hit
<1>. HIDE DEF S, T
<1>6. Cardinality(T) = Cardinality(S) + In(p, T) - In(p, S)
  BY <1>2, <1>4, OneChanged
<1>7. p \in S => Cardinality(S) # 0
  BY <1>2, FS_EmptySet
<1>8. f[p] = i => p \in S
  BY DEF S
<1>9. Count(f, i) = Cardinality(S) /\ Count(g, i) = Cardinality(T)
  BY DEF Count, S, T
<1>10. Hit(f[p], i) \in {0, 1} /\ (f[p] # i => Hit(f[p], i) = 0) /\ Hit(g[p], i) \in {0, 1}
  BY DEF Hit
<1>. QED BY <1>3, <1>5, <1>6, <1>7, <1>8, <1>9, <1>10

\* Only p's call takes a step.
Alone(p) ==
    \A q \in NameProcs \ {p} :
        /\ cwd'[q] = cwd[q] /\ file'[q] = file[q] /\ npc'[q] = npc[q] /\ call'[q] = call[q]
        /\ path'[q] = path[q] /\ ip'[q] = ip[q] /\ dp'[q] = dp[q]
PutsAlone(p) == \A q \in NameProcs \ {p} : put'[q] = put[q] /\ ifreed'[q] = ifreed[q]

LEMMA TotalStep ==
  ASSUME N!NamesAssumption, NEW p \in NameProcs, Alone(p), PutsAlone(p), NEW i \in N!Inums
  PROVE  /\ Total(i)' = Total(i) + Mine(p, i)' - Mine(p, i) + Hit(put'[p], i) - Hit(put[p], i)
         /\ Total(i) \in Nat /\ Total(i)' \in Nat /\ Mine(p, i) \in Nat /\ Mine(p, i)' \in Nat
<1>0. i # N!None
  BY FewNames
<1>1. /\ Count(cwd', i) = Count(cwd, i) + Hit(cwd'[p], i) - Hit(cwd[p], i)
      /\ Count(cwd, i) \in Nat /\ Count(cwd', i) \in Nat
      /\ Count(cwd, i) >= Hit(cwd[p], i)
  <2>1. But(cwd, cwd', p)
    BY DEF Alone, But
  <2>. QED BY <2>1, CountOne
<1>2. /\ Count(file', i) = Count(file, i) + Hit(file'[p], i) - Hit(file[p], i)
      /\ Count(file, i) \in Nat /\ Count(file', i) \in Nat
      /\ Count(file, i) >= Hit(file[p], i)
  <2>1. But(file, file', p)
    BY DEF Alone, But
  <2>. QED BY <2>1, CountOne
<1>3. /\ Count(IpHeld', i) = Count(IpHeld, i) + Hit(IpHeld'[p], i) - Hit(IpHeld[p], i)
      /\ Count(IpHeld, i) \in Nat /\ Count(IpHeld', i) \in Nat
      /\ Count(IpHeld, i) >= Hit(IpHeld[p], i)
  <2>1. But(IpHeld, IpHeld', p)
    BY DEF Alone, But, IpHeld
  <2>. QED BY <2>1, CountOne
<1>4. /\ Count(DpHeld', i) = Count(DpHeld, i) + Hit(DpHeld'[p], i) - Hit(DpHeld[p], i)
      /\ Count(DpHeld, i) \in Nat /\ Count(DpHeld', i) \in Nat
      /\ Count(DpHeld, i) >= Hit(DpHeld[p], i)
  <2>1. But(DpHeld, DpHeld', p)
    BY DEF Alone, But, DpHeld
  <2>. QED BY <2>1, CountOne
<1>5. /\ (IpHeld[p] = i) <=> (npc[p] \in IpPCs /\ ip[p] = i)
      /\ (DpHeld[p] = i) <=> (npc[p] \in DpPCs /\ dp[p] = i)
      /\ (IpHeld'[p] = i) <=> (npc'[p] \in IpPCs /\ ip'[p] = i)
      /\ (DpHeld'[p] = i) <=> (npc'[p] \in DpPCs /\ dp'[p] = i)
  BY <1>0 DEF IpHeld, DpHeld
<1>6. Total(i) = Count(cwd, i) + Count(file, i) + Count(IpHeld, i) + Count(DpHeld, i) + Count(put, i)
  BY DEF Total
<1>7. Total(i)' = Count(cwd', i) + Count(file', i) + Count(IpHeld', i) + Count(DpHeld', i) + Count(put', i)
  BY DEF Total, Count
<1>8. Mine(p, i) = Hit(cwd[p], i) + Hit(file[p], i)
                   + Hit(IpHeld[p], i) + Hit(DpHeld[p], i)
  BY <1>5 DEF Mine, Hit
<1>9. Mine(p, i)' = Hit(cwd'[p], i) + Hit(file'[p], i)
                    + Hit(IpHeld'[p], i) + Hit(DpHeld'[p], i)
  BY <1>5 DEF Mine, Hit
<1>. HIDE DEF IpHeld, DpHeld, Total, Mine
<1>10. \A x : Hit(x, i) \in Nat
  BY DEF Hit
<1>11. /\ Count(put', i) = Count(put, i) + Hit(put'[p], i) - Hit(put[p], i)
       /\ Count(put, i) \in Nat /\ Count(put', i) \in Nat
  <2>1. But(put, put', p)
    BY DEF PutsAlone, But
  <2>. QED BY <2>1, CountOne
<1>. QED BY <1>1, <1>2, <1>3, <1>4, <1>6, <1>7, <1>8, <1>9, <1>10, <1>11

\* A process that has a reference is counted.
LEMMA HasOne ==
  ASSUME N!NamesAssumption, NEW q \in NameProcs, NEW i \in N!Inums
  PROVE  /\ Total(i) \in Nat /\ Mine(q, i) \in Nat /\ Hit(put[q], i) \in Nat
         /\ Total(i) >= Mine(q, i) + Hit(put[q], i)
<1>0. i # N!None
  BY FewNames
<1>1. \A f : Count(f, i) \in Nat /\ Count(f, i) >= Hit(f[q], i)
  <2>1. \A f : But(f, f, q)
    BY DEF But
  <2>. QED BY <2>1, CountOne
<1>2. /\ (IpHeld[q] = i) <=> (npc[q] \in IpPCs /\ ip[q] = i)
      /\ (DpHeld[q] = i) <=> (npc[q] \in DpPCs /\ dp[q] = i)
  BY <1>0 DEF IpHeld, DpHeld
<1>3. Mine(q, i) = Hit(cwd[q], i) + Hit(file[q], i)
                   + Hit(IpHeld[q], i) + Hit(DpHeld[q], i)
  BY <1>2 DEF Mine, Hit
<1>4. Total(i) = Count(cwd, i) + Count(file, i) + Count(IpHeld, i) + Count(DpHeld, i) + Count(put, i)
  BY DEF Total
<1>5. /\ Count(cwd, i) \in Nat /\ Count(cwd, i) >= Hit(cwd[q], i)
      /\ Count(file, i) \in Nat /\ Count(file, i) >= Hit(file[q], i)
      /\ Count(IpHeld, i) \in Nat /\ Count(IpHeld, i) >= Hit(IpHeld[q], i)
      /\ Count(DpHeld, i) \in Nat /\ Count(DpHeld, i) >= Hit(DpHeld[q], i)
      /\ Count(put, i) \in Nat /\ Count(put, i) >= Hit(put[q], i)
  BY <1>1
<1>. HIDE DEF IpHeld, DpHeld, Total, Mine
<1>6. \A x : Hit(x, i) \in Nat
  BY DEF Hit
<1>. QED BY <1>3, <1>4, <1>5, <1>6

LEMMA HasOneNext ==
  ASSUME N!NamesAssumption, NEW q \in NameProcs, NEW i \in N!Inums
  PROVE  /\ Total(i)' \in Nat /\ Mine(q, i)' \in Nat /\ Hit(put'[q], i) \in Nat
         /\ Total(i)' >= Mine(q, i)' + Hit(put'[q], i)
<1>0. i # N!None
  BY FewNames
<1>1. \A f : Count(f, i) \in Nat /\ Count(f, i) >= Hit(f[q], i)
  <2>1. \A f : But(f, f, q)
    BY DEF But
  <2>. QED BY <2>1, CountOne
<1>2. /\ (IpHeld'[q] = i) <=> (npc'[q] \in IpPCs /\ ip'[q] = i)
      /\ (DpHeld'[q] = i) <=> (npc'[q] \in DpPCs /\ dp'[q] = i)
  BY <1>0 DEF IpHeld, DpHeld
<1>3. Mine(q, i)' = Hit(cwd'[q], i) + Hit(file'[q], i) + Hit(IpHeld'[q], i) + Hit(DpHeld'[q], i)
  BY <1>2 DEF Mine, Hit
<1>4. Total(i)' = Count(cwd', i) + Count(file', i) + Count(IpHeld', i) + Count(DpHeld', i) + Count(put', i)
  BY DEF Total, Count
<1>5. /\ Count(cwd', i) \in Nat /\ Count(cwd', i) >= Hit(cwd'[q], i)
      /\ Count(file', i) \in Nat /\ Count(file', i) >= Hit(file'[q], i)
      /\ Count(IpHeld', i) \in Nat /\ Count(IpHeld', i) >= Hit(IpHeld'[q], i)
      /\ Count(DpHeld', i) \in Nat /\ Count(DpHeld', i) >= Hit(DpHeld'[q], i)
      /\ Count(put', i) \in Nat /\ Count(put', i) >= Hit(put'[q], i)
  BY <1>1
<1>. HIDE DEF IpHeld, DpHeld, Total, Mine
<1>6. \A x : Hit(x, i) \in Nat
  BY DEF Hit
<1>. QED BY <1>3, <1>4, <1>5, <1>6

\* Two processes that have references are both counted.
LEMMA TwoHave ==
  ASSUME N!NamesAssumption, NEW p \in NameProcs, NEW q \in NameProcs \ {p}, NEW i \in N!Inums, put[p] = i
  PROVE  Total(i) >= Mine(q, i) + Hit(put[q], i) + 1
<1>0. i # N!None
  BY FewNames
<1>1. \A f : Count(f, i) \in Nat /\ Count(f, i) >= Hit(f[q], i)
  <2>1. \A f : But(f, f, q)
    BY DEF But
  <2>. QED BY <2>1, CountOne
<1>2. Count(put, i) >= Hit(put[q], i) + 1
  <2>. DEFINE g == [r \in NameProcs |-> IF r = q THEN N!None ELSE put[r]]
  <2>1. But(put, g, q) /\ g[q] = N!None /\ g[p] = i
    BY DEF But
  <2>. HIDE DEF g
  <2>2. Count(g, i) = Count(put, i) + Hit(g[q], i) - Hit(put[q], i)
    BY <2>1, CountOne
  <2>3. Count(g, i) \in Nat /\ Count(g, i) >= Hit(g[p], i)
    <3>1. But(g, g, p)
      BY DEF But
    <3>. QED BY <3>1, CountOne
  <2>4. Hit(g[q], i) = 0 /\ Hit(g[p], i) = 1 /\ Hit(put[q], i) \in Nat
    BY <1>0, <2>1 DEF Hit
  <2>. QED BY <1>1, <2>2, <2>3, <2>4
<1>3. /\ (IpHeld[q] = i) <=> (npc[q] \in IpPCs /\ ip[q] = i)
      /\ (DpHeld[q] = i) <=> (npc[q] \in DpPCs /\ dp[q] = i)
  BY <1>0 DEF IpHeld, DpHeld
<1>4. Mine(q, i) = Hit(cwd[q], i) + Hit(file[q], i) + Hit(IpHeld[q], i) + Hit(DpHeld[q], i)
  BY <1>3 DEF Mine, Hit
<1>5. Total(i) = Count(cwd, i) + Count(file, i) + Count(IpHeld, i) + Count(DpHeld, i) + Count(put, i)
  BY DEF Total
<1>6. /\ Count(cwd, i) \in Nat /\ Count(cwd, i) >= Hit(cwd[q], i)
      /\ Count(file, i) \in Nat /\ Count(file, i) >= Hit(file[q], i)
      /\ Count(IpHeld, i) \in Nat /\ Count(IpHeld, i) >= Hit(IpHeld[q], i)
      /\ Count(DpHeld, i) \in Nat /\ Count(DpHeld, i) >= Hit(DpHeld[q], i)
      /\ Count(put, i) \in Nat
  BY <1>1
<1>7. \A x : Hit(x, i) \in Nat
  BY DEF Hit
<1>. HIDE DEF IpHeld, DpHeld, Total, Mine
<1>. QED BY <1>2, <1>4, <1>5, <1>6, <1>7

LEMMA FewLinks ==
  ASSUME N!NamesAssumption, NEW i
  PROVE  /\ IsFiniteSet(NamesOf(i)) /\ IsFiniteSet(Subdirs(i)) /\ IsFiniteSet(Owed(i))
         /\ IsFiniteSet(NamesOf(i)') /\ IsFiniteSet(Subdirs(i)') /\ IsFiniteSet(Owed(i)')
         /\ Cardinality(NamesOf(i)) \in Nat /\ Cardinality(Subdirs(i)) \in Nat /\ Cardinality(Owed(i)) \in Nat
         /\ Cardinality(NamesOf(i)') \in Nat /\ Cardinality(Subdirs(i)') \in Nat /\ Cardinality(Owed(i)') \in Nat
<1>1. /\ NamesOf(i) \in SUBSET (N!Inums \X FileNames) /\ NamesOf(i)' \in SUBSET (N!Inums \X FileNames)
      /\ Subdirs(i) \in SUBSET FileNames /\ Subdirs(i)' \in SUBSET FileNames
      /\ Owed(i) \in SUBSET NameProcs /\ Owed(i)' \in SUBSET NameProcs
  BY DEF NamesOf, Subdirs, Owed, N!Inums
<1>2. /\ IsFiniteSet(NamesOf(i)) /\ IsFiniteSet(Subdirs(i)) /\ IsFiniteSet(Owed(i))
      /\ IsFiniteSet(NamesOf(i)') /\ IsFiniteSet(Subdirs(i)') /\ IsFiniteSet(Owed(i)')
  BY <1>1, FewNames, FS_Subset
<1>. QED BY <1>2, FS_CardinalityType

Due(i) == (IF i = N!Root THEN 1 ELSE 0) + Cardinality(NamesOf(i)) + Cardinality(Subdirs(i)) + Cardinality(Owed(i))

\* Nothing is owed to an inode that was not before.
LEMMA DueShrinks ==
  ASSUME N!NamesAssumption, NEW i,
         NamesOf(i)' \subseteq NamesOf(i), Subdirs(i)' \subseteq Subdirs(i), Owed(i)' \subseteq Owed(i)
  PROVE  Due(i)' <= Due(i) /\ Due(i) \in Nat /\ Due(i)' \in Nat
<1>1. /\ Cardinality(NamesOf(i)') <= Cardinality(NamesOf(i))
      /\ Cardinality(Subdirs(i)') <= Cardinality(Subdirs(i))
      /\ Cardinality(Owed(i)') <= Cardinality(Owed(i))
  BY FewLinks, FS_Subset
<1>2. Due(i) = (IF i = N!Root THEN 1 ELSE 0) + Cardinality(NamesOf(i)) + Cardinality(Subdirs(i)) + Cardinality(Owed(i))
  BY DEF Due
<1>3. Due(i)' = (IF i = N!Root THEN 1 ELSE 0) + Cardinality(NamesOf(i)') + Cardinality(Subdirs(i)') + Cardinality(Owed(i)')
  BY DEF Due, N!Root
<1>. HIDE DEF NamesOf, Subdirs, Owed, Due
<1>. QED BY <1>1, <1>2, <1>3, FewLinks

\* One name, one entry of the directory and one call change.
LEMMA DueStep ==
  ASSUME N!NamesAssumption, NEW i, NEW x, NEW n, NEW p,
         \A y : y # x => (y \in NamesOf(i) <=> y \in NamesOf(i)'),
         \A y : y # n => (y \in Subdirs(i) <=> y \in Subdirs(i)'),
         \A y : y # p => (y \in Owed(i) <=> y \in Owed(i)')
  PROVE  /\ Due(i)' = Due(i) + In(x, NamesOf(i)') - In(x, NamesOf(i)) + In(n, Subdirs(i)') - In(n, Subdirs(i))
                     + In(p, Owed(i)') - In(p, Owed(i))
         /\ Due(i) \in Nat /\ Due(i)' \in Nat
<1>1. Cardinality(NamesOf(i)') = Cardinality(NamesOf(i)) + In(x, NamesOf(i)') - In(x, NamesOf(i))
  BY FewLinks, OneChanged
<1>2. Cardinality(Subdirs(i)') = Cardinality(Subdirs(i)) + In(n, Subdirs(i)') - In(n, Subdirs(i))
  BY FewLinks, OneChanged
<1>3. Cardinality(Owed(i)') = Cardinality(Owed(i)) + In(p, Owed(i)') - In(p, Owed(i))
  BY FewLinks, OneChanged
<1>4. Due(i) = (IF i = N!Root THEN 1 ELSE 0) + Cardinality(NamesOf(i)) + Cardinality(Subdirs(i)) + Cardinality(Owed(i))
  BY DEF Due
<1>5. Due(i)' = (IF i = N!Root THEN 1 ELSE 0) + Cardinality(NamesOf(i)') + Cardinality(Subdirs(i)') + Cardinality(Owed(i)')
  BY DEF Due, N!Root
<1>6. \A S, y : In(y, S) \in {0, 1}
  BY DEF In
<1>. HIDE DEF NamesOf, Subdirs, Owed, Due, In
<1>. QED BY <1>1, <1>2, <1>3, <1>4, <1>5, <1>6, FewLinks

\* What has a name, a subdirectory or a call that owes it one has a link.
LEMMA Linked ==
  ASSUME N!NamesAssumption, LinkInv, InodeTypes, NEW i \in N!Inums
  PROVE  /\ nlink[i] \in Nat /\ Due(i) \in Nat /\ nlink[i] >= Due(i)
         /\ nlink[i] = 0 => i # N!Root /\ NamesOf(i) = {} /\ Subdirs(i) = {} /\ Owed(i) = {}
<1>1. nlink[i] \in Nat
  BY DEF InodeTypes
<1>2. Due(i) = (IF i = N!Root THEN 1 ELSE 0) + Cardinality(NamesOf(i)) + Cardinality(Subdirs(i)) + Cardinality(Owed(i))
  BY DEF Due
<1>3. nlink[i] >= Due(i)
  BY DEF LinkInv, Due
<1>4. /\ Cardinality(NamesOf(i)) = 0 => NamesOf(i) = {}
      /\ Cardinality(Subdirs(i)) = 0 => Subdirs(i) = {}
      /\ Cardinality(Owed(i)) = 0 => Owed(i) = {}
  BY FewLinks, FS_EmptySet
<1>. HIDE DEF NamesOf, Subdirs, Owed, Due
<1>. QED BY <1>1, <1>2, <1>3, <1>4, FewLinks
-----------------------------------------------------------------------------
(* What a step of p leaves to the others                                   *)

\* An inode that is referred to before and after the step stays what it is; locks
\* of others stay; and a directory that somebody else has locked keeps its
\* entries.
Kept ==
    \A j \in N!Inums : iuse[j] > 0 /\ iuse'[j] > 0 =>
        (type[j] # "free" => type'[j] = type[j]) /\ (valid[j] => valid'[j])
LocksKept(p) == \A j \in N!Inums : ilock[j] \notin {NoHolder, p} => ilock'[j] = ilock[j]
EntriesKept(p) == \A j \in N!Inums : ilock[j] \notin {NoHolder, p} /\ iuse'[j] > 0 => dent'[j] = dent[j]

\* What q refers to stays what it is.
Refers(q, j) ==
    \/ cwd[q] = j \/ file[q] = j \/ put[q] = j
    \/ npc[q] \in IpPCs /\ ip[q] = j
    \/ npc[q] \in DpPCs /\ dp[q] = j
KeptFor(q) ==
    \A j \in N!Inums : Refers(q, j) => (type[j] # "free" => type'[j] = type[j]) /\ (valid[j] => valid'[j])

LEMMA Referred ==
  ASSUME N!NamesAssumption, UseInv, NEW q \in NameProcs
  PROVE  \A j \in N!Inums : Refers(q, j) => iuse[j] \in Nat /\ iuse[j] > 0
<1>1. ASSUME NEW j \in N!Inums, Refers(q, j)
      PROVE  Mine(q, j) + Hit(put[q], j) >= 1
  BY <1>1 DEF Refers, Mine, Hit
<1>2. \A j \in N!Inums : /\ iuse[j] = Total(j) /\ Total(j) \in Nat /\ Mine(q, j) \in Nat /\ Hit(put[q], j) \in Nat
                         /\ Total(j) >= Mine(q, j) + Hit(put[q], j)
  BY HasOne DEF UseInv
<1>. HIDE DEF Refers, Mine, Hit, Total
<1>. QED BY <1>1, <1>2

LEMMA ReferredNext ==
  ASSUME N!NamesAssumption, UseInv', NEW q \in NameProcs
  PROVE  \A j \in N!Inums : Refers(q, j)' => iuse'[j] \in Nat /\ iuse'[j] > 0
<1>1. ASSUME NEW j \in N!Inums, Refers(q, j)'
      PROVE  Mine(q, j)' + Hit(put'[q], j) >= 1
  BY <1>1 DEF Refers, Mine, Hit
<1>2. \A j \in N!Inums : iuse'[j] = Total(j)'
  BY DEF UseInv, N!Inums
<1>3. \A j \in N!Inums : /\ Total(j)' \in Nat /\ Mine(q, j)' \in Nat /\ Hit(put'[q], j) \in Nat
                         /\ Total(j)' >= Mine(q, j)' + Hit(put'[q], j)
  BY HasOneNext
<1>. HIDE DEF Refers, Mine, Hit, Total
<1>. QED BY <1>1, <1>2, <1>3

LEMMA KeptForOthers ==
  ASSUME N!NamesAssumption, NamesGood, NEW p \in NameProcs, Alone(p), PutsAlone(p), UseInv', Kept,
         NEW q \in NameProcs \ {p}
  PROVE  KeptFor(q)
<1>1. \A j : Refers(q, j) => Refers(q, j)'
  BY DEF Refers, Alone, PutsAlone
<1>2. \A j \in N!Inums : Refers(q, j) => iuse[j] > 0 /\ iuse'[j] > 0
  BY <1>1, Referred, ReferredNext DEF NamesGood
<1>. QED BY <1>2 DEF Kept, KeptFor

LEMMA OthersStay ==
  ASSUME N!NamesAssumption, NamesGood, NEW p \in NameProcs, Alone(p), PutsAlone(p), UseInv', LocksKept(p), EntriesKept(p),
         NEW q \in NameProcs \ {p}, KeptFor(q)
  PROVE  CallInv(q)' /\ PutSure(q)'
<1>0. CallType(q) /\ SureInv(q) /\ HoldInv(q) /\ UseInv /\ PutSure(q) /\ PutType(q)
  BY DEF NamesGood, CallInv, PutsInv, PutTypes
<1>1. /\ cwd'[q] = cwd[q] /\ file'[q] = file[q] /\ npc'[q] = npc[q] /\ call'[q] = call[q]
      /\ path'[q] = path[q] /\ ip'[q] = ip[q] /\ dp'[q] = dp[q] /\ put'[q] = put[q] /\ (ifreed'[q] <=> ifreed[q])
  BY DEF Alone, PutsAlone
<1>2. CallType(q)'
  BY <1>0, <1>1 DEF CallType, N!Inums, N!None, Ups, NoDotDot
<1>3. /\ cwd[q] \in N!Inums /\ (file[q] # N!None => file[q] \in N!Inums) /\ (put[q] # N!None => put[q] \in N!Inums)
      /\ (npc[q] \in IpPCs => ip[q] \in N!Inums) /\ (npc[q] \in DpPCs => dp[q] \in N!Inums)
  BY <1>0 DEF CallType, PutType
<1>4. /\ Refers(q, cwd[q]) /\ Refers(q, file[q]) /\ Refers(q, put[q])
      /\ npc[q] \in IpPCs => Refers(q, ip[q])
      /\ npc[q] \in DpPCs => Refers(q, dp[q])
  BY DEF Refers
<1>5. /\ type[cwd[q]] # "free" => type'[cwd[q]] = type[cwd[q]]
      /\ file[q] # N!None /\ type[file[q]] # "free" => type'[file[q]] = type[file[q]]
      /\ npc[q] \in IpPCs /\ type[ip[q]] # "free" => type'[ip[q]] = type[ip[q]]
      /\ npc[q] \in DpPCs /\ type[dp[q]] # "free" => type'[dp[q]] = type[dp[q]]
  BY <1>3, <1>4 DEF KeptFor
<1>6. /\ valid[cwd[q]] => valid'[cwd[q]]
      /\ file[q] # N!None /\ valid[file[q]] => valid'[file[q]]
      /\ put[q] # N!None /\ valid[put[q]] => valid'[put[q]]
      /\ npc[q] \in IpPCs /\ valid[ip[q]] => valid'[ip[q]]
      /\ npc[q] \in DpPCs /\ valid[dp[q]] => valid'[dp[q]]
  BY <1>3, <1>4 DEF KeptFor
<1>7. IpSure \subseteq IpPCs /\ DpSure \subseteq DpPCs /\ LinkPCs \subseteq IpSure /\ IpLocked \subseteq IpPCs
      /\ DpLocked \subseteq DpPCs /\ "unlink_ip" \in DpLocked
  BY DEF IpSure, DpSure, LinkPCs, IpPCs, DpPCs, IpLocked, DpLocked
<1>8. SureInv(q)'
  BY <1>0, <1>1, <1>5, <1>6, <1>7 DEF SureInv, N!None, NoDotDot
<1>9. HoldInv(q)'
  <2>1. q # NoHolder /\ q # p
    BY FewNames
  <2>2. npc[q] \in DpPCs => iuse'[dp[q]] > 0
    <3>1. \A j : Refers(q, j) => Refers(q, j)'
      BY <1>1 DEF Refers
    <3>2. \A j \in N!Inums : Refers(q, j) => iuse'[j] > 0
      BY <3>1, ReferredNext
    <3>. QED BY <1>3, <1>4, <3>2
  <2>3. /\ npc[q] \in IpLocked => ilock'[ip[q]] = q
        /\ npc[q] \in DpLocked => ilock'[dp[q]] = q /\ dent'[dp[q]] = dent[dp[q]]
    BY <1>0, <1>3, <1>7, <2>1, <2>2 DEF HoldInv, LocksKept, EntriesKept
  <2>. QED BY <1>0, <1>1, <1>7, <2>3 DEF HoldInv
<1>10. PutSure(q)'
  BY <1>0, <1>1, <1>6 DEF PutSure, N!None, N!Root
<1>. QED BY <1>2, <1>8, <1>9, <1>10 DEF CallInv

\* The invariant after a step of p, from what the step does to p and to the inodes.
LEMMA StepAll ==
  ASSUME N!NamesAssumption, NamesGood, NEW p \in NameProcs, Alone(p), PutsAlone(p), CallTypes', PutTypes', InodesInv',
         \A i \in N!Inums : iuse'[i] = iuse[i] + Mine(p, i)' - Mine(p, i) + Hit(put'[p], i) - Hit(put[p], i),
         LinkInv', LocksKept(p), EntriesKept(p),
         UseInv' => CallInv(p)' /\ PutSure(p)' /\ \A q \in NameProcs \ {p} : KeptFor(q)
  PROVE  NamesGood'
<1>1. UseInv'
  <2>1. \A i \in N!Inums : iuse[i] = Total(i)
    BY DEF NamesGood, UseInv
  <2>2. \A i \in N!Inums : iuse'[i] = Total(i)'
    BY <2>1, TotalStep
  <2>. QED BY <2>2 DEF UseInv, N!Inums
<1>2. \A q \in NameProcs \ {p} : CallInv(q)' /\ PutSure(q)'
  BY <1>1, OthersStay
<1>. QED BY <1>1, <1>2 DEF NamesGood, PutsInv

\* What p gets as current directory or open file is valid.
NewlyHeld(p) ==
    /\ cwd'[p] # cwd[p] => valid'[cwd'[p]]
    /\ file'[p] # file[p] /\ file'[p] # N!None => valid'[file'[p]]

LEMMA StillHeld ==
  ASSUME N!NamesAssumption, NamesGood, NEW p \in NameProcs, UseInv', Kept, NewlyHeld(p)
  PROVE  /\ valid'[cwd'[p]] \/ cwd'[p] = N!Root
         /\ file'[p] # N!None => valid'[file'[p]]
<1>0. UseInv /\ PutSure(p) /\ CallType(p)
  BY DEF NamesGood, PutsInv, CallInv
<1>1. /\ cwd[p] \in N!Inums /\ Refers(p, cwd[p])
      /\ file[p] # N!None => file[p] \in N!Inums /\ Refers(p, file[p])
      /\ cwd'[p] = cwd[p] => Refers(p, cwd[p])'
      /\ file'[p] = file[p] => Refers(p, file[p])'
  BY <1>0 DEF CallType, Refers
<1>2. cwd'[p] = cwd[p] /\ valid[cwd[p]] => valid'[cwd[p]]
  BY <1>0, <1>1, Referred, ReferredNext DEF Kept
<1>3. file'[p] = file[p] /\ file[p] # N!None /\ valid[file[p]] => valid'[file[p]]
  BY <1>0, <1>1, Referred, ReferredNext DEF Kept
<1>. QED BY <1>0, <1>2, <1>3 DEF NewlyHeld, PutSure

\* A step outside iput()
LEMMA StepGood ==
  ASSUME N!NamesAssumption, NamesGood, NEW p \in NameProcs, put[p] = N!None, UNCHANGED N!iputs,
         Alone(p), CallTypes', InodesInv',
         \A i \in N!Inums : iuse'[i] = iuse[i] + Mine(p, i)' - Mine(p, i),
         LinkInv', Kept, LocksKept(p), EntriesKept(p), NewlyHeld(p),
         UseInv' => CallInv(p)'
  PROVE  NamesGood'
<1>1. UNCHANGED <<put, ifreed>>
  BY DEF N!iputs
<1>2. PutsAlone(p) /\ PutTypes'
  BY <1>1 DEF NamesGood, PutsInv, PutTypes, PutType, PutsAlone, N!Inums, N!None
<1>3. \A i \in N!Inums : iuse'[i] = iuse[i] + Mine(p, i)' - Mine(p, i) + Hit(put'[p], i) - Hit(put[p], i)
  <2>1. \A i \in N!Inums : Hit(put'[p], i) = 0 /\ Hit(put[p], i) = 0
    BY <1>1, FewNames DEF Hit
  <2>2. \A i \in N!Inums : iuse[i] \in Nat /\ Mine(p, i) \in Nat /\ Mine(p, i)' \in Nat
    BY HasOne, HasOneNext DEF NamesGood, InodesInv, InodeTypes
  <2>. HIDE DEF Mine, Hit
  <2>. QED BY <2>1, <2>2
<1>4. ASSUME UseInv'
      PROVE  PutSure(p)' /\ \A q \in NameProcs \ {p} : KeptFor(q)
  <2>1. \A q \in NameProcs \ {p} : KeptFor(q)
    BY <1>2, <1>4, KeptForOthers
  <2>2. PutSure(p)'
    BY <1>1, <1>4, StillHeld DEF PutSure, N!None, N!Root
  <2>. QED BY <2>1, <2>2
<1>. QED BY <1>2, <1>3, <1>4, StepAll

\* A step that ends in the call of iput(i)
LEMMA StepPuts ==
  ASSUME N!NamesAssumption, NamesGood, NEW p \in NameProcs, put[p] = N!None, NEW i \in N!Inums, N!Iput(p, i),
         valid'[i] \/ i = N!Root, Alone(p), CallTypes', InodesInv',
         \A j \in N!Inums : iuse'[j] = iuse[j] + Mine(p, j)' - Mine(p, j) + (IF j = i THEN 1 ELSE 0),
         LinkInv', Kept, LocksKept(p), EntriesKept(p), NewlyHeld(p),
         UseInv' => CallInv(p)'
  PROVE  NamesGood'
<1>0. PutTypes /\ ~ ifreed[p]
  BY DEF NamesGood, PutsInv, PutTypes, PutType
<1>1. put' = [put EXCEPT ![p] = i] /\ ifreed' = ifreed
  BY DEF N!Iput
<1>2. put'[p] = i /\ ~ ifreed'[p]
  BY <1>0, <1>1 DEF PutTypes
<1>3. PutsAlone(p) /\ PutTypes'
  <2>1. PutsAlone(p)
    BY <1>0, <1>1 DEF PutTypes, PutsAlone
  <2>2. \A q \in NameProcs : PutType(q)'
    BY <1>0, <1>1 DEF PutTypes, PutType, N!Inums, N!None
  <2>. QED BY <1>0, <1>1, <2>1, <2>2 DEF PutTypes
<1>4. \A j \in N!Inums : iuse'[j] = iuse[j] + Mine(p, j)' - Mine(p, j) + Hit(put'[p], j) - Hit(put[p], j)
  <2>1. \A j \in N!Inums : Hit(put'[p], j) = (IF j = i THEN 1 ELSE 0) /\ Hit(put[p], j) = 0
    BY <1>2, FewNames DEF Hit
  <2>2. \A j \in N!Inums : iuse[j] \in Nat /\ Mine(p, j) \in Nat /\ Mine(p, j)' \in Nat
    BY HasOne, HasOneNext DEF NamesGood, InodesInv, InodeTypes
  <2>. HIDE DEF Mine, Hit
  <2>. QED BY <2>1, <2>2
<1>5. ASSUME UseInv'
      PROVE  PutSure(p)' /\ \A q \in NameProcs \ {p} : KeptFor(q)
  <2>1. \A q \in NameProcs \ {p} : KeptFor(q)
    BY <1>3, <1>5, KeptForOthers
  <2>2. PutSure(p)'
    BY <1>2, <1>5, StillHeld DEF PutSure, N!None, N!Root
  <2>. QED BY <2>1, <2>2
<1>. QED BY <1>3, <1>4, <1>5, StepAll
-----------------------------------------------------------------------------
(* iget() and ilock()                                                      *)

LEMMA GetOK ==
  ASSUME NEW r \in [N!Inums -> Nat], NEW v \in [N!Inums -> BOOLEAN], NEW i \in N!Inums, EntryOK(type, nlink, v)
  PROVE  /\ EntryOK(type, nlink, [v EXCEPT ![i] = @ /\ r[i] > 0])
         /\ [r EXCEPT ![i] = @ + 1] \in [N!Inums -> Nat]
         /\ [v EXCEPT ![i] = @ /\ r[i] > 0] \in [N!Inums -> BOOLEAN]
<1>. DEFINE v2 == [v EXCEPT ![i] = @ /\ r[i] > 0]
<1>1. v2 \in [N!Inums -> BOOLEAN] /\ [r EXCEPT ![i] = @ + 1] \in [N!Inums -> Nat]
  OBVIOUS
<1>2. \A j \in N!Inums : v2[j] => v[j]
  OBVIOUS
<1>. HIDE DEF v2
<1>3. EntryOK(type, nlink, v2)
  BY <1>2 DEF EntryOK
<1>. QED BY <1>1, <1>3 DEF v2

LEMMA LockOK ==
  ASSUME NEW v \in [N!Inums -> BOOLEAN], NEW i \in N!Inums,
         EntryOK(type, nlink, v), v[i] \/ type[i] # "free"
  PROVE  /\ EntryOK(type, nlink, [v EXCEPT ![i] = TRUE])
         /\ [v EXCEPT ![i] = TRUE] \in [N!Inums -> BOOLEAN]
         /\ type[i] # "free"
<1>. DEFINE v2 == [v EXCEPT ![i] = TRUE]
<1>1. v2 \in [N!Inums -> BOOLEAN]
  OBVIOUS
<1>2. \A j \in N!Inums : (v2[j] => v[j] \/ j = i) /\ (v[j] => v2[j])
  OBVIOUS
<1>. HIDE DEF v2
<1>3. EntryOK(type, nlink, v2)
  BY <1>2 DEF EntryOK
<1>4. type[i] # "free"
  BY DEF EntryOK
<1>. QED BY <1>1, <1>3, <1>4 DEF v2
-----------------------------------------------------------------------------
(* Steps that change no link                                               *)

\* Entries of directories only go, and no directory comes.
Shrinks ==
    /\ \A j \in N!Inums : \A n \in FileNames : dent'[j][n] \in {dent[j][n], N!None}
    /\ \A j \in N!Inums : type'[j] = "T_DIR" => type[j] = "T_DIR"

OwesNoMore(p) == npc'[p] \in OwedPCs => npc[p] \in OwedPCs /\ ip'[p] = ip[p]

LEMMA PlainLinks ==
  ASSUME N!NamesAssumption, NamesGood, NEW p \in NameProcs, Alone(p), nlink' = nlink, Shrinks, OwesNoMore(p)
  PROVE  LinkInv'
<1>1. LinkInv /\ InodeTypes
  BY DEF NamesGood, InodesInv
<1>2. ASSUME NEW i \in N!Inums
      PROVE  nlink'[i] >= Due(i)'
  <2>1. i # N!None
    BY FewNames
  <2>2. NamesOf(i)' \subseteq NamesOf(i)
    <3>1. \A j \in N!Inums : \A n \in FileNames : dent'[j][n] = i => dent[j][n] = i
      BY <2>1 DEF Shrinks
    <3>. QED BY <3>1 DEF NamesOf, N!Inums
  <2>3. Subdirs(i)' \subseteq Subdirs(i)
    <3>1. \A n \in FileNames : dent'[i][n] # N!None => dent'[i][n] = dent[i][n] /\ dent[i][n] \in N!Inums
      BY <1>1 DEF Shrinks, InodeTypes
    <3>2. \A n \in FileNames : dent'[i][n] # N!None /\ type'[dent'[i][n]] = "T_DIR"
                                  => dent[i][n] # N!None /\ type[dent[i][n]] = "T_DIR"
      BY <3>1 DEF Shrinks
    <3>. QED BY <3>2 DEF Subdirs, N!None
  <2>4. Owed(i)' \subseteq Owed(i)
    BY DEF Owed, OwesNoMore, Alone
  <2>5. Due(i)' <= Due(i) /\ Due(i) \in Nat /\ Due(i)' \in Nat
    BY <2>2, <2>3, <2>4, DueShrinks
  <2>6. nlink[i] \in Nat /\ nlink[i] >= Due(i)
    BY <1>1, Linked
  <2>. HIDE DEF Due
  <2>. QED BY <2>5, <2>6
<1>. QED BY <1>2 DEF LinkInv, Due, N!Inums, N!Root

\* A step that leaves the inodes as they are
Stays ==
    /\ UNCHANGED <<type, nlink, dent, dotdot, calls>>
    /\ iuse' \in [N!Inums -> Nat] /\ valid' \in [N!Inums -> BOOLEAN] /\ EntryOK(type, nlink, valid')
    /\ ilock' \in [N!Inums -> NameProcs \cup {NoHolder}]
    /\ \A j \in N!Inums : iuse[j] > 0 /\ valid[j] => valid'[j]

LEMMA StaysGood ==
  ASSUME N!NamesAssumption, NamesGood, NEW p \in NameProcs, Alone(p), Stays, OwesNoMore(p)
  PROVE  InodesInv' /\ Kept /\ EntriesKept(p) /\ LinkInv'
<1>1. InodeTypes /\ DirInv
  BY DEF NamesGood, InodesInv
<1>2. InodeTypes' /\ DirInv'
  BY <1>1 DEF Stays, InodeTypes, DirInv, N!Inums, N!None, N!NoNames
<1>3. EntryOK(type', nlink', valid')
  BY DEF Stays, EntryOK
<1>4. InodesInv'
  BY <1>2, <1>3 DEF InodesInv, EntryOK, N!Inums
<1>5. Kept /\ EntriesKept(p)
  BY DEF Stays, Kept, EntriesKept
<1>6. Shrinks
  BY DEF Stays, Shrinks
<1>7. LinkInv'
  BY <1>6, PlainLinks DEF Stays
<1>. QED BY <1>4, <1>5, <1>7

LEMMA StayStep ==
  ASSUME N!NamesAssumption, NamesGood, NEW p \in NameProcs, put[p] = N!None, UNCHANGED N!iputs,
         Alone(p), CallTypes', Stays,
         \A j \in N!Inums : iuse'[j] = iuse[j] + Mine(p, j)' - Mine(p, j),
         LocksKept(p), OwesNoMore(p), NewlyHeld(p),
         UseInv' => CallInv(p)'
  PROVE  NamesGood'
  BY StaysGood, StepGood

\* ... and ends in the call of iput(i)
LEMMA PutStep ==
  ASSUME N!NamesAssumption, NamesGood, NEW p \in NameProcs, put[p] = N!None, NEW i \in N!Inums, N!Iput(p, i),
         valid'[i] \/ i = N!Root, Alone(p), CallTypes', Stays,
         \A j \in N!Inums : iuse'[j] - (IF j = i THEN 1 ELSE 0) = iuse[j] + Mine(p, j)' - Mine(p, j),
         LocksKept(p), OwesNoMore(p), NewlyHeld(p),
         UseInv' => CallInv(p)'
  PROVE  NamesGood'
<1>1. \A j \in N!Inums : iuse'[j] = iuse[j] + Mine(p, j)' - Mine(p, j) + (IF j = i THEN 1 ELSE 0)
  <2>1. \A j \in N!Inums : iuse[j] \in Nat /\ Mine(p, j) \in Nat /\ Mine(p, j)' \in Nat
    BY HasOne, HasOneNext DEF NamesGood, InodesInv, InodeTypes
  <2>2. \A j \in N!Inums : iuse'[j] \in Nat
    BY DEF Stays
  <2>. HIDE DEF Mine
  <2>. QED BY <2>1, <2>2
<1>. QED BY <1>1, StaysGood, StepPuts

LEMMA GoodFacts ==
  ASSUME N!NamesAssumption, NamesGood, NEW p \in NameProcs
  PROVE  /\ InodeTypes /\ DirInv /\ EntryOK(type, nlink, valid) /\ CallTypes /\ UseInv /\ LinkInv
         /\ CallType(p) /\ SureInv(p) /\ HoldInv(p)
         /\ iuse \in [N!Inums -> Nat] /\ valid \in [N!Inums -> BOOLEAN]
         /\ ilock \in [N!Inums -> NameProcs \cup {NoHolder}]
         /\ iuse[cwd[p]] > 0
         /\ file[p] # N!None => iuse[file[p]] > 0
         /\ npc[p] \in IpPCs => iuse[ip[p]] > 0
         /\ npc[p] \in DpPCs => iuse[dp[p]] > 0
         /\ N!Root \in N!Inums /\ type[N!Root] # "free"
         /\ valid[cwd[p]] \/ cwd[p] = N!Root
         /\ file[p] # N!None => valid[file[p]]
<1>1. /\ InodeTypes /\ DirInv /\ EntryOK(type, nlink, valid) /\ CallTypes /\ UseInv /\ LinkInv
      /\ CallType(p) /\ SureInv(p) /\ HoldInv(p)
  BY DEF NamesGood, InodesInv, CallInv
<1>2. /\ iuse \in [N!Inums -> Nat] /\ valid \in [N!Inums -> BOOLEAN]
      /\ ilock \in [N!Inums -> NameProcs \cup {NoHolder}]
  BY <1>1 DEF InodeTypes
<1>3. N!Root \in N!Inums
  BY FewNames
<1>4. nlink[N!Root] # 0
  BY <1>1, <1>3, Linked
<1>5. type[N!Root] # "free"
  BY <1>1, <1>3, <1>4 DEF EntryOK
<1>6. /\ iuse[cwd[p]] > 0
      /\ file[p] # N!None => iuse[file[p]] > 0
      /\ npc[p] \in IpPCs => iuse[ip[p]] > 0
      /\ npc[p] \in DpPCs => iuse[dp[p]] > 0
  <2>1. \A j \in N!Inums : Refers(p, j) => iuse[j] > 0
    BY <1>1, Referred
  <2>. QED BY <1>1, <2>1 DEF CallType, Refers
<1>7. /\ valid[cwd[p]] \/ cwd[p] = N!Root
      /\ file[p] # N!None => valid[file[p]]
  BY DEF NamesGood, PutsInv, PutSure
<1>. QED BY <1>1, <1>2, <1>3, <1>5, <1>6, <1>7

\* What p refers to after a step that leaves the inodes as they are is sure.
SureThen(p) ==
    /\ type[cwd'[p]] # "free"
    /\ file'[p] # N!None => type[file'[p]] # "free"
    /\ npc'[p] \in IpSure => type[ip'[p]] # "free" /\ valid'[ip'[p]]
    /\ npc'[p] \in DpSure => type[dp'[p]] = "T_DIR" /\ valid'[dp'[p]]
    /\ npc'[p] \in LinkPCs => type[ip'[p]] # "T_DIR"
    /\ npc'[p] \in IpPCs /\ NoDotDot => type[ip'[p]] # "free"
    /\ npc'[p] \in DpPCs /\ NoDotDot => type[dp'[p]] # "free"

LEMMA SureNext ==
  ASSUME NEW p, UNCHANGED type, SureThen(p)
  PROVE  SureInv(p)'
  BY DEF SureInv, SureThen, N!None, NoDotDot

LEMMA StayStart ==
  ASSUME N!NamesAssumption, NamesGood, NEW p \in NameProcs, put[p] = N!None, NEW c \in calls, N!Start(p, c), UNCHANGED calls
  PROVE  NamesGood'
<1>. DEFINE i == IF c.abs THEN N!Root ELSE cwd[p]
<1>0. i \in N!Inums /\ type[i] # "free"
  BY GoodFacts DEF CallType, SureInv
<1>1. /\ npc[p] = "idle" /\ (c.op \in {"open", "creat"} => file[p] = N!None) /\ iuse' = N!Iget(i) /\ valid' = N!StillValid(i)
      /\ ip' = [ip EXCEPT ![p] = i] /\ call' = [call EXCEPT ![p] = c] /\ path' = [path EXCEPT ![p] = c.path]
      /\ npc' = [npc EXCEPT ![p] = "walk"]
      /\ UNCHANGED <<type, nlink, dent, dotdot, ilock, cwd, file, dp>> /\ UNCHANGED N!iputs
  BY DEF N!Start, N!GoTo, N!inode
<1>. HIDE DEF i
<1>2. CallTypes
  BY GoodFacts
<1>3. /\ npc'[p] = "walk" /\ ip'[p] = i /\ call'[p] = c /\ path'[p] = c.path /\ dp'[p] = dp[p]
      /\ cwd'[p] = cwd[p] /\ file'[p] = file[p]
  BY <1>1, <1>2 DEF CallTypes
<1>4. Alone(p) /\ CallTypes'
  BY <1>1, <1>2 DEF CallTypes, Alone
<1>5. /\ EntryOK(type, nlink, valid')
      /\ iuse' \in [N!Inums -> Nat] /\ valid' \in [N!Inums -> BOOLEAN]
  BY <1>0, <1>1, GoodFacts, GetOK DEF N!Iget, N!StillValid
<1>6. \A j \in N!Inums : iuse'[j] = iuse[j] + Mine(p, j)' - Mine(p, j)
  <2>1. \A j \in N!Inums : iuse[j] \in Nat /\ iuse'[j] = IF j = i THEN iuse[j] + 1 ELSE iuse[j]
    BY <1>0, <1>1, GoodFacts DEF N!Iget
  <2>. QED BY <1>1, <1>3, <2>1 DEF Mine, IpPCs, DpPCs
<1>7. \A j \in N!Inums : iuse[j] > 0 /\ valid[j] => valid'[j]
  BY <1>0, <1>1, GoodFacts DEF N!StillValid
<1>8. LocksKept(p) /\ OwesNoMore(p) /\ NewlyHeld(p) /\ Stays
  BY <1>1, <1>3, <1>5, <1>7, GoodFacts DEF LocksKept, OwesNoMore, OwedPCs, NewlyHeld, Stays
<1>9. ASSUME UseInv'
      PROVE  CallInv(p)'
  <2>1. /\ c \in UNION Workloads
        /\ c.path \in Seq(FileNames \cup Ups)
        /\ c.op = "link" => c.to \in Seq(FileNames \cup Ups)
    <3>1. c \in UNION Workloads
      BY GoodFacts DEF InodeTypes
    <3>2. c.path \in N!Paths /\ (c.op = "link" => c.to \in N!Paths)
      BY <3>1 DEF N!NamesAssumption
    <3>. QED BY <3>1, <3>2 DEF Ups, NoDotDot, N!Paths
  <2>2. CallType(p)
    BY GoodFacts
  <2>3. CallType(p)'
    BY <1>0, <1>1, <1>3, <2>1, <2>2 DEF CallType, IpPCs, DpPCs, LastPCs, CreatePCs, N!Inums, N!None, Ups, NoDotDot
  <2>4. SureThen(p)
    BY <1>0, <1>3, GoodFacts DEF SureThen, SureInv, IpSure, DpSure, LinkPCs, DpPCs
  <2>5. HoldInv(p)'
    BY <1>3 DEF HoldInv, IpLocked, DpLocked, DpPCs
  <2>. QED BY <1>1, <2>3, <2>4, <2>5, SureNext DEF CallInv
<1>. QED BY <1>1, <1>4, <1>6, <1>8, <1>9, StayStep
-----------------------------------------------------------------------------
(* Kinds of steps                                                          *)

LEMMA LockedOK ==
  ASSUME N!NamesAssumption, NamesGood, NEW i \in N!Inums, ~ N!NoType(i)
  PROVE  /\ N!Valid(i) \in [N!Inums -> BOOLEAN] /\ EntryOK(type, nlink, N!Valid(i))
         /\ \A j \in N!Inums : valid[j] => N!Valid(i)[j]
         /\ N!Valid(i)[i] /\ type[i] # "free"
<1>1. EntryOK(type, nlink, valid) /\ iuse \in [N!Inums -> Nat] /\ valid \in [N!Inums -> BOOLEAN]
  BY DEF NamesGood, InodesInv, InodeTypes
<1>2. valid[i] \/ type[i] # "free"
  BY DEF N!NoType
<1>3. \A j \in N!Inums : valid[j] => N!Valid(i)[j]
  BY <1>1 DEF N!Valid
<1>4. N!Valid(i)[i]
  BY <1>1 DEF N!Valid
<1>. QED BY <1>1, <1>2, <1>3, <1>4, LockOK DEF N!Valid

\* The call returns
LEMMA Returned ==
  ASSUME N!NamesAssumption, NamesGood, NEW p \in NameProcs, N!Return(p), UNCHANGED type,
         CallTypes', cwd'[p] \in N!Inums, file'[p] \in N!Inums \cup {N!None},
         type[cwd'[p]] # "free", file'[p] # N!None => type[file'[p]] # "free"
  PROVE  CallInv(p)'
<1>1. /\ npc'[p] = "idle" /\ call'[p] = N!NoCall /\ path'[p] = <<>> /\ ip'[p] = N!None /\ dp'[p] = N!None
  BY GoodFacts DEF N!Return, N!GoTo, CallTypes
<1>2. N!NoCall.op \notin {"link", "open", "creat"}
  BY DEF N!NoCall
<1>3. <<>> \in Seq(FileNames \cup Ups)
  OBVIOUS
<1>4. CallType(p)'
  BY <1>1, <1>2, <1>3 DEF CallType, IpPCs, DpPCs, LastPCs, CreatePCs, N!Inums, N!None, Ups, NoDotDot
<1>5. SureThen(p)
  BY <1>1 DEF SureThen, IpSure, DpSure, LinkPCs, IpPCs, DpPCs
<1>6. HoldInv(p)'
  BY <1>1 DEF HoldInv, IpLocked, DpLocked, DpPCs
<1>. QED BY <1>4, <1>5, <1>6, SureNext DEF CallInv

\* ilock() may have read inodes.
Reads == valid' \in [N!Inums -> BOOLEAN] /\ EntryOK(type, nlink, valid') /\ \A j \in N!Inums : valid[j] => valid'[j]

LEMMA ReadsStay ==
  ASSUME N!NamesAssumption, NamesGood, Reads, UNCHANGED <<type, nlink, dent, dotdot, iuse, calls>>,
         ilock' \in [N!Inums -> NameProcs \cup {NoHolder}]
  PROVE  Stays
  BY DEF Reads, Stays, NamesGood, InodesInv, InodeTypes

LEMMA ReadsNothing ==
  ASSUME N!NamesAssumption, NamesGood, UNCHANGED valid
  PROVE  Reads
  BY DEF Reads, NamesGood, InodesInv, InodeTypes

LEMMA ReadsOne ==
  ASSUME N!NamesAssumption, NamesGood, NEW i \in N!Inums, ~ N!NoType(i), valid' = N!Valid(i)
  PROVE  Reads /\ valid'[i] /\ type[i] # "free"
  BY LockedOK DEF Reads

LEMMA PutReturns ==
  ASSUME N!NamesAssumption, NamesGood, NEW p \in NameProcs, put[p] = N!None, NEW i \in N!Inums,
         \/ i = ip[p] /\ npc[p] \in IpPCs \ DpPCs
         \/ i = dp[p] /\ npc[p] \in DpPCs \ IpPCs,
         N!Iput(p, i), Reads, valid'[i], N!Return(p), UNCHANGED <<type, nlink, dent, dotdot, iuse, calls, cwd, file>>,
         ilock' \in [N!Inums -> NameProcs \cup {NoHolder}], LocksKept(p)
  PROVE  NamesGood'
<1>1. CallTypes /\ iuse \in [N!Inums -> Nat]
  BY GoodFacts
<1>2. /\ npc' = [npc EXCEPT ![p] = "idle"] /\ call' = [call EXCEPT ![p] = N!NoCall]
      /\ path' = [path EXCEPT ![p] = <<>>] /\ ip' = [ip EXCEPT ![p] = N!None] /\ dp' = [dp EXCEPT ![p] = N!None]
  BY DEF N!Return, N!GoTo
<1>3. npc'[p] = "idle" /\ cwd'[p] = cwd[p] /\ file'[p] = file[p]
  BY <1>1, <1>2 DEF CallTypes
<1>4. Alone(p) /\ CallTypes'
  BY <1>1, <1>2 DEF CallTypes, Alone
<1>5. \A j \in N!Inums : iuse'[j] - (IF j = i THEN 1 ELSE 0) = iuse[j] + Mine(p, j)' - Mine(p, j)
  <2>1. \A j \in N!Inums : iuse[j] \in Nat /\ iuse'[j] = iuse[j]
    BY <1>1
  <2>2. ASSUME NEW j \in N!Inums
        PROVE  Mine(p, j)' = (IF cwd[p] = j THEN 1 ELSE 0) + (IF file[p] = j THEN 1 ELSE 0)
    BY <1>3 DEF Mine, IpPCs, DpPCs
  <2>3. ASSUME NEW j \in N!Inums
        PROVE  Mine(p, j) = (IF cwd[p] = j THEN 1 ELSE 0) + (IF file[p] = j THEN 1 ELSE 0)
                            + (IF j = i THEN 1 ELSE 0)
    BY DEF Mine
  <2>. QED BY <2>1, <2>2, <2>3
<1>6. OwesNoMore(p) /\ NewlyHeld(p)
  BY <1>3 DEF OwesNoMore, OwedPCs, NewlyHeld
<1>7. CallInv(p)'
  BY <1>3, <1>4, GoodFacts, Returned DEF CallType, SureInv
<1>. QED BY <1>4, <1>5, <1>6, <1>7, ReadsStay, PutStep

\* The call goes on at l, with the same locals.
LEMMA GoesOn ==
  ASSUME N!NamesAssumption, NamesGood, NEW p \in NameProcs, NEW l,
         npc' = [npc EXCEPT ![p] = l], UNCHANGED <<cwd, file, call, path, ip, dp>>
  PROVE  /\ Alone(p) /\ CallTypes'
         /\ npc'[p] = l /\ cwd'[p] = cwd[p] /\ file'[p] = file[p] /\ call'[p] = call[p] /\ path'[p] = path[p]
         /\ ip'[p] = ip[p] /\ dp'[p] = dp[p]
  BY GoodFacts DEF CallTypes, Alone

Onwards(p, l) ==
    /\ l \in IpPCs \cup DpPCs /\ l # "parent"
    /\ l \in IpPCs => npc[p] \in IpPCs
    /\ l \in DpPCs => npc[p] \in DpPCs
    /\ l \in LastPCs => Len(path[p]) = 1
    /\ l \in CreatePCs => call[p].op \in {"creat", "mkdir"}
    /\ l \in OwedPCs => npc[p] \in OwedPCs

LEMMA WentOn ==
  ASSUME N!NamesAssumption, NamesGood, NEW p \in NameProcs, NEW l, Onwards(p, l),
         npc' = [npc EXCEPT ![p] = l], UNCHANGED <<type, cwd, file, call, path, ip, dp>>,
         \A j \in N!Inums : iuse[j] > 0 /\ valid[j] => valid'[j],
         l \in IpSure => npc[p] \in IpSure \/ (type[ip[p]] # "free" /\ valid'[ip[p]]),
         l \in DpSure => npc[p] \in DpSure \/ (type[dp[p]] = "T_DIR" /\ valid'[dp[p]]),
         l \in LinkPCs => npc[p] \in LinkPCs,
         HoldInv(p)'
  PROVE  CallInv(p)'
<1>1. CallType(p) /\ SureInv(p)
  BY GoodFacts
<1>2. /\ npc'[p] = l /\ cwd'[p] = cwd[p] /\ file'[p] = file[p] /\ call'[p] = call[p] /\ path'[p] = path[p]
      /\ ip'[p] = ip[p] /\ dp'[p] = dp[p]
  BY GoesOn
<1>3. CallType(p)'
  BY <1>1, <1>2 DEF CallType, Onwards, N!Inums, N!None, Ups, NoDotDot
<1>4. IpSure \subseteq IpPCs /\ DpSure \subseteq DpPCs
  BY DEF IpSure, DpSure
<1>5. /\ npc[p] \in IpSure => valid'[ip[p]]
      /\ npc[p] \in DpSure => valid'[dp[p]]
  <2>1. /\ npc[p] \in IpSure => iuse[ip[p]] > 0 /\ valid[ip[p]] /\ ip[p] \in N!Inums
        /\ npc[p] \in DpSure => iuse[dp[p]] > 0 /\ valid[dp[p]] /\ dp[p] \in N!Inums
    BY <1>1, <1>4, GoodFacts DEF SureInv, CallType
  <2>. QED BY <2>1
<1>6. SureThen(p)
  BY <1>1, <1>2, <1>5 DEF SureThen, SureInv, Onwards
<1>. QED BY <1>3, <1>6, SureNext DEF CallInv

\* The call goes on, and puts ip or dp.
LEMMA PutGoes ==
  ASSUME N!NamesAssumption, NamesGood, NEW p \in NameProcs, put[p] = N!None, NEW i \in N!Inums, NEW l, Onwards(p, l),
         \/ i = ip[p] /\ npc[p] \in IpPCs /\ l \notin IpPCs /\ (npc[p] \in DpPCs => l \in DpPCs)
         \/ i = dp[p] /\ npc[p] \in DpPCs /\ l \notin DpPCs /\ (npc[p] \in IpPCs => l \in IpPCs),
         l \in IpSure => npc[p] \in IpSure, l \in DpSure => npc[p] \in DpSure, l \in LinkPCs => npc[p] \in LinkPCs,
         N!Iput(p, i), Reads, valid'[i], npc' = [npc EXCEPT ![p] = l],
         UNCHANGED <<type, nlink, dent, dotdot, iuse, calls, cwd, file, call, path, ip, dp>>,
         ilock' \in [N!Inums -> NameProcs \cup {NoHolder}], LocksKept(p), HoldInv(p)'
  PROVE  NamesGood'
<1>1. CallTypes /\ iuse \in [N!Inums -> Nat]
  BY GoodFacts
<1>2. /\ Alone(p) /\ CallTypes'
      /\ npc'[p] = l /\ cwd'[p] = cwd[p] /\ file'[p] = file[p] /\ call'[p] = call[p] /\ path'[p] = path[p]
      /\ ip'[p] = ip[p] /\ dp'[p] = dp[p]
  BY GoesOn
<1>3. \A j \in N!Inums : iuse'[j] - (IF j = i THEN 1 ELSE 0) = iuse[j] + Mine(p, j)' - Mine(p, j)
  <2>1. \A j \in N!Inums : iuse[j] \in Nat /\ iuse'[j] = iuse[j]
    BY <1>1
  <2>2. ASSUME NEW j \in N!Inums
        PROVE  /\ Mine(p, j) = Mine(p, j)' + (IF j = i THEN 1 ELSE 0)
               /\ Mine(p, j) \in Nat /\ Mine(p, j)' \in Nat
    BY <1>2 DEF Mine, Onwards
  <2>. HIDE DEF Mine
  <2>. QED BY <2>1, <2>2
<1>4. OwesNoMore(p) /\ NewlyHeld(p)
  BY <1>2 DEF OwesNoMore, Onwards, NewlyHeld
<1>5. CallInv(p)'
  BY WentOn DEF Reads
<1>. QED BY <1>2, <1>3, <1>4, <1>5, ReadsStay, PutStep

\* The call goes on; ilock() may have read an inode.
LEMMA LockGoes ==
  ASSUME N!NamesAssumption, NamesGood, NEW p \in NameProcs, put[p] = N!None, NEW l, Onwards(p, l), Reads,
         npc[p] \in IpPCs => l \in IpPCs, npc[p] \in DpPCs => l \in DpPCs,
         l \in IpSure => npc[p] \in IpSure \/ (type[ip[p]] # "free" /\ valid'[ip[p]]),
         l \in DpSure => npc[p] \in DpSure \/ (type[dp[p]] = "T_DIR" /\ valid'[dp[p]]),
         l \in LinkPCs => npc[p] \in LinkPCs,
         npc' = [npc EXCEPT ![p] = l], UNCHANGED N!iputs,
         UNCHANGED <<type, nlink, dent, dotdot, iuse, calls, cwd, file, call, path, ip, dp>>,
         ilock' \in [N!Inums -> NameProcs \cup {NoHolder}], LocksKept(p), HoldInv(p)'
  PROVE  NamesGood'
<1>1. CallTypes /\ iuse \in [N!Inums -> Nat]
  BY GoodFacts
<1>2. /\ Alone(p) /\ CallTypes'
      /\ npc'[p] = l /\ cwd'[p] = cwd[p] /\ file'[p] = file[p] /\ call'[p] = call[p] /\ path'[p] = path[p]
      /\ ip'[p] = ip[p] /\ dp'[p] = dp[p]
  BY GoesOn
<1>3. \A j \in N!Inums : iuse'[j] = iuse[j] + Mine(p, j)' - Mine(p, j)
  <2>1. \A j \in N!Inums : iuse[j] \in Nat
    BY <1>1
  <2>2. ASSUME NEW j \in N!Inums
        PROVE  Mine(p, j) = Mine(p, j)' /\ Mine(p, j) \in Nat
    BY <1>2 DEF Mine, Onwards
  <2>. HIDE DEF Mine
  <2>. QED BY <2>1, <2>2
<1>4. OwesNoMore(p) /\ NewlyHeld(p)
  BY <1>2 DEF OwesNoMore, Onwards, NewlyHeld
<1>5. CallInv(p)'
  BY WentOn DEF Reads
<1>. QED BY <1>2, <1>3, <1>4, <1>5, ReadsStay, StayStep

\* open() returns with the file it has found or made.
LEMMA OpenReturns ==
  ASSUME N!NamesAssumption, NamesGood, NEW p \in NameProcs, put[p] = N!None, Reads, valid'[ip[p]],
         npc[p] \in IpPCs \ DpPCs, call[p].op \in {"open", "creat"}, type[ip[p]] # "free",
         file' = [file EXCEPT ![p] = ip[p]], N!Return(p), UNCHANGED N!iputs,
         UNCHANGED <<type, nlink, dent, dotdot, iuse, calls, cwd>>,
         ilock' \in [N!Inums -> NameProcs \cup {NoHolder}], LocksKept(p)
  PROVE  NamesGood'
<1>1. CallTypes /\ iuse \in [N!Inums -> Nat] /\ CallType(p)
  BY GoodFacts
<1>2. /\ npc' = [npc EXCEPT ![p] = "idle"] /\ call' = [call EXCEPT ![p] = N!NoCall]
      /\ path' = [path EXCEPT ![p] = <<>>] /\ ip' = [ip EXCEPT ![p] = N!None] /\ dp' = [dp EXCEPT ![p] = N!None]
  BY DEF N!Return, N!GoTo
<1>3. npc'[p] = "idle" /\ cwd'[p] = cwd[p] /\ file'[p] = ip[p] /\ file[p] = N!None /\ ip[p] \in N!Inums
  BY <1>1, <1>2 DEF CallTypes, CallType
<1>4. Alone(p) /\ CallTypes'
  BY <1>1, <1>2 DEF CallTypes, Alone
<1>5. \A j \in N!Inums : iuse'[j] = iuse[j] + Mine(p, j)' - Mine(p, j)
  <2>1. \A j \in N!Inums : iuse[j] \in Nat /\ j # N!None
    BY <1>1, FewNames
  <2>2. ASSUME NEW j \in N!Inums
        PROVE  Mine(p, j)' = (IF cwd[p] = j THEN 1 ELSE 0) + (IF ip[p] = j THEN 1 ELSE 0)
    BY <1>3 DEF Mine, IpPCs, DpPCs
  <2>3. ASSUME NEW j \in N!Inums
        PROVE  Mine(p, j) = (IF cwd[p] = j THEN 1 ELSE 0) + (IF ip[p] = j THEN 1 ELSE 0)
    BY <1>3, <2>1 DEF Mine
  <2>. QED BY <2>1, <2>2, <2>3
<1>6. OwesNoMore(p) /\ NewlyHeld(p)
  BY <1>3 DEF OwesNoMore, OwedPCs, NewlyHeld
<1>7. CallInv(p)'
  BY <1>3, <1>4, GoodFacts, Returned DEF CallType, SureInv
<1>. QED BY <1>4, <1>5, <1>6, <1>7, ReadsStay, StayStep

LEMMA LockSet ==
  ASSUME N!NamesAssumption, NamesGood, NEW p \in NameProcs, NEW j \in N!Inums, ilock[j] \in {NoHolder, p},
         NEW h \in {NoHolder, p}, ilock' = [ilock EXCEPT ![j] = h]
  PROVE  /\ ilock' \in [N!Inums -> NameProcs \cup {NoHolder}] /\ LocksKept(p)
         /\ ilock'[j] = h /\ \A k \in N!Inums \ {j} : ilock'[k] = ilock[k]
<1>1. ilock \in [N!Inums -> NameProcs \cup {NoHolder}]
  BY GoodFacts
<1>. QED BY <1>1 DEF LocksKept

LEMMA LocksStay ==
  ASSUME N!NamesAssumption, NamesGood, NEW p \in NameProcs, UNCHANGED ilock
  PROVE  ilock' \in [N!Inums -> NameProcs \cup {NoHolder}] /\ LocksKept(p)
  BY GoodFacts DEF LocksKept

-----------------------------------------------------------------------------
(* The actions that end in an iput()                                       *)

\* namex() gives up.
LEMMA WalkEnds ==
  ASSUME N!NamesAssumption, NamesGood, NEW p \in NameProcs, put[p] = N!None, npc[p] \in {"walk", "walk_to"},
         ~ N!NoType(N!Reached(p)), valid' = N!Valid(N!Reached(p)), N!Iput(p, N!Reached(p)),
         IF npc[p] = "walk_to" THEN N!GoTo(p, "link_bad") /\ UNCHANGED N!locals ELSE N!Return(p),
         UNCHANGED N!inode, UNCHANGED <<calls, iuse, ilock, cwd, file>>
  PROVE  NamesGood'
<1>. DEFINE i == N!Reached(p)
<1>1. i = (IF npc[p] = "walk_to" THEN dp[p] ELSE ip[p]) /\ i \in N!Inums
  BY GoodFacts DEF N!Reached, CallType, IpPCs, DpPCs
<1>2. N!Iput(p, i) /\ Reads /\ valid'[i] /\ UNCHANGED <<type, nlink, dent, dotdot>>
  BY <1>1, ReadsOne DEF N!inode
<1>. HIDE DEF i
<1>4. CASE npc[p] = "walk_to"
  <2>1. npc' = [npc EXCEPT ![p] = "link_bad"] /\ UNCHANGED <<call, path, ip, dp>>
    BY <1>4 DEF N!GoTo, N!locals
  <2>2. Onwards(p, "link_bad")
    BY <1>4 DEF Onwards, IpPCs, DpPCs, LastPCs, CreatePCs, OwedPCs
  <2>3. npc'[p] = "link_bad"
    BY <2>1, GoesOn
  <2>4. HoldInv(p)'
    BY <2>3 DEF HoldInv, IpLocked, DpLocked, DpPCs
  <2>5. /\ i = dp[p] /\ npc[p] \in DpPCs /\ "link_bad" \notin DpPCs /\ "link_bad" \in IpPCs
        /\ npc[p] \in IpSure /\ npc[p] \in LinkPCs /\ "link_bad" \notin DpSure
    BY <1>1, <1>4 DEF IpPCs, DpPCs, IpSure, DpSure, LinkPCs
  <2>. QED BY <1>1, <1>2, <2>1, <2>2, <2>4, <2>5, LocksStay, PutGoes
<1>5. CASE npc[p] = "walk"
  <2>1. i = ip[p] /\ npc[p] \in IpPCs \ DpPCs /\ N!Return(p)
    BY <1>1, <1>5 DEF IpPCs, DpPCs
  <2>. QED BY <1>1, <1>2, <2>1, LocksStay, PutReturns
<1>. QED BY <1>4, <1>5

\* A call puts ip, which it has just locked, and returns: open() that finds no file
\* or descriptor, chdir() and create() that do not want it, and link() of a
\* directory.
LEMMA FoundPut ==
  ASSUME N!NamesAssumption, NamesGood, NEW p \in NameProcs, put[p] = N!None, npc[p] \in IpPCs \ DpPCs,
         ~ N!NoType(ip[p]), valid' = N!Valid(ip[p]), N!Iput(p, ip[p]), N!Return(p),
         UNCHANGED N!inode, UNCHANGED <<calls, iuse, ilock, cwd, file>>
  PROVE  NamesGood'
<1>1. ip[p] \in N!Inums
  BY GoodFacts DEF CallType
<1>2. Reads /\ valid'[ip[p]] /\ UNCHANGED <<type, nlink, dent, dotdot>>
  BY <1>1, ReadsOne DEF N!inode
<1>. QED BY <1>1, <1>2, LocksStay, PutReturns

\* iput(ip) or iunlockput(ip), and return
LEMMA IpPut ==
  ASSUME N!NamesAssumption, NamesGood, NEW p \in NameProcs, put[p] = N!None, npc[p] \in IpSure \ DpPCs,
         \/ UNCHANGED ilock
         \/ npc[p] \in IpLocked /\ ilock' = [ilock EXCEPT ![ip[p]] = NoHolder],
         N!Iput(p, ip[p]), N!Return(p), UNCHANGED N!inode, UNCHANGED N!entry, UNCHANGED <<calls, cwd, file>>
  PROVE  NamesGood'
<1>1. ip[p] \in N!Inums /\ valid[ip[p]] /\ npc[p] \in IpPCs \ DpPCs
  BY GoodFacts DEF CallType, SureInv, IpSure
<1>2. Reads /\ valid'[ip[p]] /\ UNCHANGED <<type, nlink, dent, dotdot, iuse>>
  BY <1>1, ReadsNothing DEF N!inode, N!entry
<1>3. ilock' \in [N!Inums -> NameProcs \cup {NoHolder}] /\ LocksKept(p)
  <2>1. npc[p] \in IpLocked => ilock[ip[p]] = p
    BY GoodFacts DEF HoldInv
  <2>. QED BY <1>1, <2>1, LockSet, LocksStay
<1>. QED BY <1>1, <1>2, <1>3, PutReturns

\* iunlockput(dp), and return
LEMMA DpPut ==
  ASSUME N!NamesAssumption, NamesGood, NEW p \in NameProcs, put[p] = N!None, npc[p] \in DpLocked \ IpPCs,
         N!PutParent(p), N!Return(p), UNCHANGED N!inode, UNCHANGED N!entry, UNCHANGED <<calls, cwd, file>>
  PROVE  NamesGood'
<1>1. dp[p] \in N!Inums /\ npc[p] \in DpPCs \ IpPCs /\ valid[dp[p]]
  BY GoodFacts DEF CallType, DpLocked, SureInv, DpSure
<1>2. Reads /\ valid'[dp[p]] /\ UNCHANGED <<type, nlink, dent, dotdot, iuse>>
  BY <1>1, ReadsNothing DEF N!inode, N!entry
<1>3. N!Iput(p, dp[p]) /\ ilock' = [ilock EXCEPT ![dp[p]] = NoHolder]
  BY DEF N!PutParent
<1>4. ilock' \in [N!Inums -> NameProcs \cup {NoHolder}] /\ LocksKept(p)
  <2>1. ilock[dp[p]] = p
    BY GoodFacts DEF HoldInv
  <2>. QED BY <1>1, <1>3, <2>1, LockSet
<1>. QED BY <1>1, <1>2, <1>3, <1>4, PutReturns

\* iunlockput(dp), and on to l
LEMMA DpPutOn ==
  ASSUME N!NamesAssumption, NamesGood, NEW p \in NameProcs, put[p] = N!None, npc[p] \in DpLocked \cap IpSure,
         NEW l \in IpSure \ DpPCs, l \in IpLocked => npc[p] \in IpLocked,
         l \in LinkPCs => npc[p] \in LinkPCs, l \in OwedPCs => npc[p] \in OwedPCs,
         N!PutParent(p), N!GoTo(p, l), UNCHANGED N!inode, UNCHANGED N!entry, UNCHANGED <<calls, cwd, file>>,
         UNCHANGED N!locals
  PROVE  NamesGood'
<1>1. dp[p] \in N!Inums /\ npc[p] \in DpPCs /\ npc[p] \in IpPCs /\ ip[p] \in N!Inums /\ valid[dp[p]]
  BY GoodFacts DEF CallType, DpLocked, IpSure, SureInv, DpSure
<1>2. Reads /\ valid'[dp[p]] /\ UNCHANGED <<type, nlink, dent, dotdot, iuse>>
  BY <1>1, ReadsNothing DEF N!inode, N!entry
<1>3. N!Iput(p, dp[p]) /\ ilock' = [ilock EXCEPT ![dp[p]] = NoHolder]
  BY DEF N!PutParent
<1>4. /\ npc[p] \in IpLocked => ilock[ip[p]] = p /\ ip[p] # dp[p]
      /\ ilock[dp[p]] = p
  BY GoodFacts DEF HoldInv
<1>5. /\ ilock' \in [N!Inums -> NameProcs \cup {NoHolder}] /\ LocksKept(p)
      /\ \A k \in N!Inums \ {dp[p]} : ilock'[k] = ilock[k]
  BY <1>1, <1>3, <1>4, LockSet
<1>6. npc' = [npc EXCEPT ![p] = l] /\ UNCHANGED <<call, path, ip, dp>>
  BY DEF N!GoTo, N!locals
<1>7. npc'[p] = l /\ ip'[p] = ip[p] /\ dp'[p] = dp[p]
  BY <1>6, GoesOn
<1>8. HoldInv(p)'
  BY <1>1, <1>4, <1>5, <1>7 DEF HoldInv, DpLocked, DpPCs
<1>9. Onwards(p, l) /\ l \in IpPCs /\ l \notin DpSure
  BY <1>1 DEF Onwards, IpSure, IpPCs, DpPCs, DpSure, LastPCs, CreatePCs
<1>. QED BY <1>1, <1>2, <1>3, <1>5, <1>6, <1>8, <1>9, PutGoes

\* iput(ip), and on to the end of a call that failed
LEMMA IpPutBad ==
  ASSUME N!NamesAssumption, NamesGood, NEW p \in NameProcs, put[p] = N!None, npc[p] \in IpPCs \cap DpLocked,
         Reads, valid'[ip[p]],
         \/ UNCHANGED ilock
         \/ npc[p] \in IpLocked /\ ilock' = [ilock EXCEPT ![ip[p]] = NoHolder],
         N!Iput(p, ip[p]), N!GoTo(p, "bad"), UNCHANGED N!inode, UNCHANGED <<calls, iuse, cwd, file>>, UNCHANGED N!locals
  PROVE  NamesGood'
<1>1. dp[p] \in N!Inums /\ npc[p] \in DpPCs /\ npc[p] \in IpPCs /\ ip[p] \in N!Inums /\ npc[p] \in DpSure
  BY GoodFacts DEF CallType, DpLocked, DpSure
<1>2. /\ npc[p] \in IpLocked => ilock[ip[p]] = p /\ ip[p] # dp[p]
      /\ ilock[dp[p]] = p
  BY GoodFacts DEF HoldInv
<1>3. /\ ilock' \in [N!Inums -> NameProcs \cup {NoHolder}] /\ LocksKept(p)
      /\ ilock'[dp[p]] = p
  BY <1>1, <1>2, LockSet, LocksStay
<1>4. npc' = [npc EXCEPT ![p] = "bad"] /\ UNCHANGED <<call, path, ip, dp>>
  BY DEF N!GoTo, N!locals
<1>5. npc'[p] = "bad" /\ ip'[p] = ip[p] /\ dp'[p] = dp[p]
  BY <1>4, GoesOn
<1>6. HoldInv(p)'
  BY <1>3, <1>5 DEF HoldInv, IpLocked
<1>7. Onwards(p, "bad") /\ "bad" \notin IpPCs /\ "bad" \in DpPCs /\ "bad" \notin IpSure /\ "bad" \notin LinkPCs
  BY <1>1 DEF Onwards, IpSure, IpPCs, DpPCs, LastPCs, CreatePCs, LinkPCs, OwedPCs
<1>8. UNCHANGED <<type, nlink, dent, dotdot>>
  BY DEF N!inode
<1>. QED BY <1>1, <1>3, <1>4, <1>6, <1>7, <1>8, PutGoes
-----------------------------------------------------------------------------
(* Looking up                                                              *)

\* What has a name is allocated and has a link.
LEMMA Named ==
  ASSUME N!NamesAssumption, NamesGood, NEW p \in NameProcs, NEW d \in N!Inums, NEW n \in FileNames, dent[d][n] # N!None
  PROVE  dent[d][n] \in N!Inums /\ type[dent[d][n]] # "free" /\ nlink[dent[d][n]] # 0
<1>1. InodeTypes /\ LinkInv /\ EntryOK(type, nlink, valid)
  BY GoodFacts
<1>2. dent[d][n] \in N!Inums
  BY <1>1 DEF InodeTypes
<1>3. <<d, n>> \in NamesOf(dent[d][n])
  BY DEF NamesOf
<1>4. nlink[dent[d][n]] # 0
  BY <1>1, <1>2, <1>3, Linked
<1>. QED BY <1>1, <1>2, <1>4 DEF EntryOK

LEMMA LookedUp ==
  ASSUME N!NamesAssumption, NamesGood, NEW p \in NameProcs, NEW d \in N!Inums, NEW n \in FileNames \cup Ups,
         N!dirlookup(d, n) # N!None
  PROVE  N!dirlookup(d, n) \in N!Inums /\ (NoDotDot => type[N!dirlookup(d, n)] # "free")
<1>1. CASE n \in FileNames
  <2>1. N!dirlookup(d, n) = dent[d][n]
    BY <1>1, FewNames DEF N!dirlookup
  <2>. QED BY <1>1, <2>1, Named
<1>2. CASE n \notin FileNames
  <2>1. ~ NoDotDot /\ n = ".."
    BY <1>2 DEF Ups
  <2>. QED BY <2>1, GoodFacts DEF N!dirlookup, InodeTypes
<1>. QED BY <1>1, <1>2

\* One round of namex()
LEMMA WalkOn ==
  ASSUME N!NamesAssumption, NamesGood, NEW p \in NameProcs, put[p] = N!None, npc[p] \in {"walk", "walk_to"}, path[p] # <<>>,
         ~ N!NoType(N!Reached(p)), N!dirlookup(N!Reached(p), Head(path[p])) # N!None,
         N!Iput(p, N!Reached(p)), iuse' = N!Iget(N!dirlookup(N!Reached(p), Head(path[p]))),
         valid' = [N!Valid(N!Reached(p)) EXCEPT ![N!dirlookup(N!Reached(p), Head(path[p]))] =
                       @ /\ iuse[N!dirlookup(N!Reached(p), Head(path[p]))] > 0],
         IF npc[p] = "walk_to"
         THEN dp' = [dp EXCEPT ![p] = N!dirlookup(N!Reached(p), Head(path[p]))] /\ UNCHANGED ip
         ELSE ip' = [ip EXCEPT ![p] = N!dirlookup(N!Reached(p), Head(path[p]))] /\ UNCHANGED dp,
         path' = [path EXCEPT ![p] = Tail(@)],
         UNCHANGED <<type, nlink, dent, dotdot, calls, ilock, cwd, file, npc, call>>
  PROVE  NamesGood'
<1>. DEFINE i == N!Reached(p)
            k == N!dirlookup(N!Reached(p), Head(path[p]))
<1>0. CallTypes /\ CallType(p) /\ SureInv(p) /\ iuse \in [N!Inums -> Nat] /\ valid \in [N!Inums -> BOOLEAN]
  BY GoodFacts
<1>1. i = (IF npc[p] = "walk_to" THEN dp[p] ELSE ip[p]) /\ i \in N!Inums /\ iuse[i] > 0
  BY GoodFacts DEF N!Reached, CallType, IpPCs, DpPCs
<1>2. Head(path[p]) \in FileNames \cup Ups /\ Tail(path[p]) \in Seq(FileNames \cup Ups)
  BY <1>0 DEF CallType
<1>3. k \in N!Inums /\ (NoDotDot => type[k] # "free")
  BY <1>1, <1>2, LookedUp
<1>4. ~ N!NoType(i) /\ N!Iput(p, i) /\ iuse' = N!Iget(k) /\ valid' = [N!Valid(i) EXCEPT ![k] = @ /\ iuse[k] > 0]
  OBVIOUS
<1>5. /\ npc[p] = "walk_to" => dp' = [dp EXCEPT ![p] = k] /\ ip' = ip
      /\ npc[p] # "walk_to" => ip' = [ip EXCEPT ![p] = k] /\ dp' = dp
  OBVIOUS
<1>. HIDE DEF i, k
<1>6. /\ N!Valid(i) \in [N!Inums -> BOOLEAN] /\ EntryOK(type, nlink, N!Valid(i))
      /\ N!Valid(i)[i] /\ \A j \in N!Inums : valid[j] => N!Valid(i)[j]
  BY <1>1, <1>4, LockedOK
<1>7. /\ iuse' \in [N!Inums -> Nat] /\ valid' \in [N!Inums -> BOOLEAN] /\ EntryOK(type, nlink, valid')
  <2>. DEFINE v == N!Valid(i)
  <2>1. v \in [N!Inums -> BOOLEAN] /\ EntryOK(type, nlink, v)
    BY <1>6
  <2>2. iuse' = [iuse EXCEPT ![k] = @ + 1] /\ valid' = [v EXCEPT ![k] = @ /\ iuse[k] > 0]
    BY <1>4 DEF N!Iget
  <2>. HIDE DEF v
  <2>3. \A w \in [N!Inums -> BOOLEAN] : EntryOK(type, nlink, w) => EntryOK(type, nlink, [w EXCEPT ![k] = @ /\ iuse[k] > 0])
    BY <1>3 DEF EntryOK
  <2>4. EntryOK(type, nlink, valid')
    BY <2>1, <2>2, <2>3
  <2>5. iuse' \in [N!Inums -> Nat]
    BY <1>0, <1>3, <2>2
  <2>6. \A w \in [N!Inums -> BOOLEAN] : [w EXCEPT ![k] = @ /\ iuse[k] > 0] \in [N!Inums -> BOOLEAN]
    OBVIOUS
  <2>7. valid' \in [N!Inums -> BOOLEAN]
    BY <2>1, <2>2, <2>6
  <2>. QED BY <2>4, <2>5, <2>7
<1>8. /\ \A j \in N!Inums : iuse[j] > 0 /\ valid[j] => valid'[j]
      /\ valid'[i]
  BY <1>1, <1>3, <1>4, <1>6
<1>9. \A j \in N!Inums : iuse'[j] = IF j = k THEN iuse[j] + 1 ELSE iuse[j]
  BY <1>0, <1>3, <1>4 DEF N!Iget
<1>10. Stays
  BY <1>7, <1>8, LocksStay DEF Stays
<1>11. /\ npc'[p] = npc[p] /\ cwd'[p] = cwd[p] /\ file'[p] = file[p] /\ call'[p] = call[p]
       /\ path'[p] = Tail(path[p])
       /\ npc[p] = "walk_to" => dp'[p] = k /\ ip'[p] = ip[p]
       /\ npc[p] # "walk_to" => ip'[p] = k /\ dp'[p] = dp[p]
  BY <1>0, <1>5 DEF CallTypes
<1>12. Alone(p) /\ CallTypes'
  BY <1>0, <1>5 DEF CallTypes, Alone
<1>13. \A j \in N!Inums : iuse'[j] - (IF j = i THEN 1 ELSE 0) = iuse[j] + Mine(p, j)' - Mine(p, j)
  <2>1. \A j \in N!Inums : iuse[j] \in Nat
    BY <1>0
  <2>2. ASSUME NEW j \in N!Inums
        PROVE  /\ Mine(p, j) + (IF j = k THEN 1 ELSE 0) = Mine(p, j)' + (IF j = i THEN 1 ELSE 0)
               /\ Mine(p, j) \in Nat /\ Mine(p, j)' \in Nat
    BY <1>1, <1>11 DEF Mine, IpPCs, DpPCs
  <2>. HIDE DEF Mine
  <2>. QED BY <1>9, <2>1, <2>2
<1>14. OwesNoMore(p) /\ NewlyHeld(p)
  BY <1>11 DEF OwesNoMore, OwedPCs, NewlyHeld
<1>15. CallInv(p)'
  <2>1. CallType(p)'
    BY <1>0, <1>2, <1>3, <1>11 DEF CallType, IpPCs, DpPCs, LastPCs, CreatePCs, N!Inums, N!None, Ups, NoDotDot
  <2>2. npc[p] = "walk_to" => type[ip[p]] # "free" /\ valid[ip[p]] /\ type[ip[p]] # "T_DIR" /\ iuse[ip[p]] > 0
                              /\ ip[p] \in N!Inums
    BY <1>0, GoodFacts DEF SureInv, IpSure, IpPCs, LinkPCs, CallType
  <2>3. npc[p] = "walk_to" => valid'[ip[p]]
    BY <1>8, <2>2
  <2>4. SureThen(p)
    BY <1>0, <1>3, <1>11, <2>2, <2>3 DEF SureThen, SureInv, IpSure, DpSure, IpPCs, DpPCs, LinkPCs
  <2>5. HoldInv(p)'
    BY <1>11 DEF HoldInv, IpLocked, DpLocked, DpPCs
  <2>. QED BY <2>1, <2>4, <2>5, SureNext DEF CallInv
<1>. QED BY <1>1, <1>4, <1>8, <1>10, <1>12, <1>13, <1>14, <1>15, LocksStay, PutStep

\* nameiparent() has found the parent.
LEMMA ParentFound ==
  ASSUME N!NamesAssumption, NamesGood, NEW p \in NameProcs, put[p] = N!None, npc[p] \in {"walk", "walk_to"}, Len(path[p]) = 1,
         N!WantsParent(p), ~ N!NoType(N!Reached(p)), type[N!Reached(p)] = "T_DIR", valid' = N!Valid(N!Reached(p)),
         dp' = [dp EXCEPT ![p] = N!Reached(p)],
         N!GoTo(p, IF npc[p] = "walk_to" THEN "link_parent" ELSE "parent"),
         UNCHANGED <<type, nlink, dent, dotdot, calls, iuse, ilock, cwd, file, call, path, ip>>, UNCHANGED N!iputs
  PROVE  NamesGood'
<1>. DEFINE i == N!Reached(p)
            l == IF npc[p] = "walk_to" THEN "link_parent" ELSE "parent"
<1>0. CallTypes /\ CallType(p) /\ SureInv(p) /\ iuse \in [N!Inums -> Nat]
  BY GoodFacts
<1>1. i = (IF npc[p] = "walk_to" THEN dp[p] ELSE ip[p]) /\ i \in N!Inums
  BY <1>0 DEF N!Reached, CallType, IpPCs, DpPCs
<1>2. npc' = [npc EXCEPT ![p] = l]
  BY DEF N!GoTo
<1>3. ~ N!NoType(i) /\ type[i] = "T_DIR" /\ valid' = N!Valid(i) /\ dp' = [dp EXCEPT ![p] = i]
  OBVIOUS
<1>. HIDE DEF i
<1>4. Reads /\ valid'[i]
  BY <1>1, <1>3, ReadsOne
<1>5. /\ npc'[p] = l /\ cwd'[p] = cwd[p] /\ file'[p] = file[p] /\ call'[p] = call[p]
      /\ path'[p] = path[p] /\ dp'[p] = i /\ ip'[p] = ip[p]
  BY <1>0, <1>2, <1>3 DEF CallTypes
<1>6. Alone(p) /\ CallTypes'
  BY <1>0, <1>2, <1>3 DEF CallTypes, Alone
<1>7. \A j \in N!Inums : iuse'[j] = iuse[j] + Mine(p, j)' - Mine(p, j)
  <2>1. \A j \in N!Inums : iuse[j] \in Nat
    BY <1>0
  <2>2. ASSUME NEW j \in N!Inums
        PROVE  Mine(p, j) = Mine(p, j)' /\ Mine(p, j) \in Nat
    BY <1>1, <1>5 DEF Mine, IpPCs, DpPCs
  <2>. HIDE DEF Mine
  <2>. QED BY <2>1, <2>2
<1>8. OwesNoMore(p) /\ NewlyHeld(p)
  BY <1>5 DEF OwesNoMore, OwedPCs, NewlyHeld
<1>9. npc[p] = "walk" => call[p].op \in {"creat", "mkdir", "unlink"}
  BY DEF N!WantsParent
<1>10. CallInv(p)'
  <2>1. CallType(p)'
    BY <1>0, <1>1, <1>5, <1>9 DEF CallType, IpPCs, DpPCs, LastPCs, CreatePCs, N!Inums, N!None, Ups, NoDotDot
  <2>2. npc[p] = "walk_to" => type[ip[p]] # "free" /\ valid[ip[p]] /\ type[ip[p]] # "T_DIR" /\ ip[p] \in N!Inums
    BY <1>0 DEF SureInv, IpSure, IpPCs, LinkPCs, CallType
  <2>3. npc[p] = "walk_to" => valid'[ip[p]]
    BY <1>4, <2>2 DEF Reads
  <2>4. SureThen(p)
    BY <1>0, <1>3, <1>4, <1>5, <2>2, <2>3 DEF SureThen, SureInv, IpSure, DpSure, IpPCs, DpPCs, LinkPCs
  <2>5. HoldInv(p)'
    BY <1>5 DEF HoldInv, IpLocked, DpLocked, DpPCs
  <2>. QED BY <2>1, <2>4, <2>5, SureNext DEF CallInv
<1>. QED BY <1>4, <1>6, <1>7, <1>8, <1>10, LocksStay, ReadsStay, StayStep

\* create() and unlink() have the last name of the path.
LEMMA LastName ==
  ASSUME N!NamesAssumption, NamesGood, NEW p \in NameProcs, npc[p] \in LastPCs
  PROVE  N!Name(p) \in FileNames \cup Ups
<1>1. path[p] \in Seq(FileNames \cup Ups) /\ Len(path[p]) = 1
  BY GoodFacts DEF CallType
<1>. QED BY <1>1 DEF N!Name

LEMMA ExistsFound ==
  ASSUME N!NamesAssumption, NamesGood, NEW p \in NameProcs, put[p] = N!None, N!CreateExists(p), UNCHANGED calls
  PROVE  NamesGood'
<1>. DEFINE k == N!dirlookup(dp[p], N!Name(p))
<1>0. /\ CallTypes /\ CallType(p) /\ SureInv(p) /\ iuse \in [N!Inums -> Nat] /\ valid \in [N!Inums -> BOOLEAN]
      /\ EntryOK(type, nlink, valid)
  BY GoodFacts
<1>1. /\ npc[p] \in {"creat", "mkdir"} /\ k # N!None /\ N!PutParent(p) /\ ip' = [ip EXCEPT ![p] = k]
      /\ npc' = [npc EXCEPT ![p] = "create_found"]
      /\ iuse' = N!Iget(k) /\ valid' = N!StillValid(k)
      /\ UNCHANGED <<type, nlink, dent, dotdot, cwd, file, call, path, dp>>
  BY DEF N!CreateExists, N!GoTo, N!inode
<1>2. dp[p] \in N!Inums /\ valid[dp[p]] /\ iuse[dp[p]] > 0 /\ N!Name(p) \in FileNames \cup Ups /\ call[p].op \in {"creat", "mkdir"}
  BY <1>1, GoodFacts, LastName DEF CallType, DpPCs, DpSure, SureInv, LastPCs, CreatePCs
<1>3. k \in N!Inums /\ (NoDotDot => type[k] # "free")
  BY <1>1, <1>2, LookedUp
<1>4. N!Iput(p, dp[p]) /\ ilock' = [ilock EXCEPT ![dp[p]] = NoHolder]
  BY <1>1 DEF N!PutParent
<1>. HIDE DEF k
<1>5. iuse' \in [N!Inums -> Nat] /\ valid' \in [N!Inums -> BOOLEAN] /\ EntryOK(type, nlink, valid')
  BY <1>0, <1>1, <1>3, GetOK DEF N!Iget, N!StillValid
<1>6. \A j \in N!Inums : iuse[j] > 0 /\ valid[j] => valid'[j]
  BY <1>0, <1>1, <1>3 DEF N!StillValid
<1>7. \A j \in N!Inums : iuse'[j] = IF j = k THEN iuse[j] + 1 ELSE iuse[j]
  BY <1>0, <1>1, <1>3 DEF N!Iget
<1>8. valid'[dp[p]]
  BY <1>2, <1>6
<1>9. /\ npc'[p] = "create_found" /\ cwd'[p] = cwd[p] /\ file'[p] = file[p] /\ call'[p] = call[p]
      /\ path'[p] = path[p] /\ dp'[p] = dp[p] /\ ip'[p] = k
  BY <1>0, <1>1 DEF CallTypes
<1>10. Alone(p) /\ CallTypes'
  BY <1>0, <1>1 DEF CallTypes, Alone
<1>11. \A j \in N!Inums : iuse'[j] - (IF j = dp[p] THEN 1 ELSE 0) = iuse[j] + Mine(p, j)' - Mine(p, j)
  <2>1. \A j \in N!Inums : iuse[j] \in Nat
    BY <1>0
  <2>2. ASSUME NEW j \in N!Inums
        PROVE  /\ Mine(p, j) + (IF j = k THEN 1 ELSE 0) = Mine(p, j)' + (IF j = dp[p] THEN 1 ELSE 0)
               /\ Mine(p, j) \in Nat /\ Mine(p, j)' \in Nat
    BY <1>1, <1>9 DEF Mine, IpPCs, DpPCs
  <2>. HIDE DEF Mine
  <2>. QED BY <1>7, <2>1, <2>2
<1>12. OwesNoMore(p) /\ NewlyHeld(p)
  BY <1>9 DEF OwesNoMore, OwedPCs, NewlyHeld
<1>13. ilock' \in [N!Inums -> NameProcs \cup {NoHolder}] /\ LocksKept(p)
  <2>1. ilock[dp[p]] = p
    BY <1>1, GoodFacts DEF HoldInv, DpLocked, DpPCs
  <2>. QED BY <1>2, <1>4, <2>1, LockSet
<1>14. CallInv(p)'
  <2>1. CallType(p)'
    BY <1>0, <1>2, <1>3, <1>9 DEF CallType, IpPCs, DpPCs, LastPCs, CreatePCs, N!Inums, N!None, Ups, NoDotDot
  <2>2. SureThen(p)
    BY <1>0, <1>3, <1>9 DEF SureThen, SureInv, IpSure, DpSure, IpPCs, DpPCs, LinkPCs
  <2>3. HoldInv(p)'
    BY <1>9 DEF HoldInv, IpLocked, DpLocked, DpPCs
  <2>. QED BY <1>1, <2>1, <2>2, <2>3, SureNext DEF CallInv
<1>15. Stays
  BY <1>1, <1>5, <1>6, <1>13 DEF Stays
<1>. QED BY <1>2, <1>4, <1>8, <1>10, <1>11, <1>12, <1>13, <1>14, <1>15, PutStep

LEMMA UnlinkLooks ==
  ASSUME N!NamesAssumption, NamesGood, NEW p \in NameProcs, put[p] = N!None, N!UnlinkLookup(p), UNCHANGED calls
  PROVE  NamesGood'
<1>. DEFINE k == IF N!Name(p) = ".." THEN N!None ELSE N!dirlookup(dp[p], N!Name(p))
<1>0. /\ CallTypes /\ CallType(p) /\ SureInv(p) /\ iuse \in [N!Inums -> Nat] /\ valid \in [N!Inums -> BOOLEAN]
      /\ EntryOK(type, nlink, valid)
  BY GoodFacts
<1>1. /\ npc[p] = "unlink" /\ UNCHANGED N!iputs /\ UNCHANGED <<type, nlink, dent, dotdot, ilock, cwd, file, call, path, dp>>
      /\ IF k = N!None THEN npc' = [npc EXCEPT ![p] = "bad"] /\ UNCHANGED <<ip, iuse, valid>>
         ELSE /\ ip' = [ip EXCEPT ![p] = k] /\ iuse' = N!Iget(k) /\ valid' = N!StillValid(k)
              /\ npc' = [npc EXCEPT ![p] = "unlink_ip"]
  BY DEF N!UnlinkLookup, N!GoTo, N!inode, N!entry
<1>2. /\ dp[p] \in N!Inums /\ N!Name(p) \in FileNames \cup Ups /\ ilock[dp[p]] = p
      /\ type[dp[p]] = "T_DIR" /\ valid[dp[p]] /\ Len(path[p]) = 1
  BY <1>1, GoodFacts, LastName DEF CallType, DpPCs, LastPCs, HoldInv, DpLocked, SureInv, DpSure
<1>3. CASE k = N!None
  <2>1. npc' = [npc EXCEPT ![p] = "bad"] /\ UNCHANGED <<ip, iuse, valid>>
    BY <1>1, <1>3
  <2>2. Onwards(p, "bad")
    BY <1>1 DEF Onwards, IpPCs, DpPCs, LastPCs, CreatePCs, OwedPCs
  <2>3. npc'[p] = "bad" /\ dp'[p] = dp[p]
    BY <1>1, <2>1, GoesOn
  <2>4. HoldInv(p)'
    BY <1>1, <1>2, <2>3 DEF HoldInv, IpLocked
  <2>5. /\ npc[p] \notin IpPCs /\ "bad" \in DpPCs /\ "bad" \notin IpSure /\ "bad" \notin LinkPCs /\ npc[p] \in DpSure
    BY <1>1 DEF IpPCs, DpPCs, IpSure, DpSure, LinkPCs
  <2>6. Reads
    BY <2>1, ReadsNothing
  <2>. QED BY <1>1, <2>1, <2>2, <2>4, <2>5, <2>6, LocksStay, LockGoes
<1>4. CASE k # N!None
  <2>1. N!Name(p) \in FileNames /\ k = dent[dp[p]][N!Name(p)]
    BY <1>2, <1>4 DEF N!dirlookup, Ups
  <2>2. k \in N!Inums /\ type[k] # "free"
    BY <1>2, <1>4, <2>1, Named
  <2>3. /\ ip' = [ip EXCEPT ![p] = k] /\ iuse' = N!Iget(k) /\ valid' = N!StillValid(k)
        /\ npc' = [npc EXCEPT ![p] = "unlink_ip"]
    BY <1>1, <1>4
  <2>. HIDE DEF k
  <2>4. iuse' \in [N!Inums -> Nat] /\ valid' \in [N!Inums -> BOOLEAN] /\ EntryOK(type, nlink, valid')
    BY <1>0, <2>2, <2>3, GetOK DEF N!Iget, N!StillValid
  <2>5. \A j \in N!Inums : iuse[j] > 0 /\ valid[j] => valid'[j]
    BY <1>0, <2>2, <2>3 DEF N!StillValid
  <2>6. \A j \in N!Inums : iuse'[j] = IF j = k THEN iuse[j] + 1 ELSE iuse[j]
    BY <1>0, <2>2, <2>3 DEF N!Iget
  <2>7. /\ npc'[p] = "unlink_ip" /\ cwd'[p] = cwd[p] /\ file'[p] = file[p] /\ call'[p] = call[p]
        /\ path'[p] = path[p] /\ dp'[p] = dp[p] /\ ip'[p] = k
    BY <1>0, <1>1, <2>3 DEF CallTypes
  <2>8. Alone(p) /\ CallTypes'
    BY <1>0, <1>1, <2>3 DEF CallTypes, Alone
  <2>9. \A j \in N!Inums : iuse'[j] = iuse[j] + Mine(p, j)' - Mine(p, j)
    <3>1. \A j \in N!Inums : iuse[j] \in Nat
      BY <1>0
    <3>2. ASSUME NEW j \in N!Inums
          PROVE  /\ Mine(p, j) + (IF j = k THEN 1 ELSE 0) = Mine(p, j)'
                 /\ Mine(p, j) \in Nat /\ Mine(p, j)' \in Nat
      BY <1>1, <2>7 DEF Mine, IpPCs, DpPCs
    <3>. HIDE DEF Mine
    <3>. QED BY <2>6, <3>1, <3>2
  <2>10. OwesNoMore(p) /\ NewlyHeld(p)
    BY <2>7 DEF OwesNoMore, OwedPCs, NewlyHeld
  <2>11. CallInv(p)'
    <3>1. CallType(p)'
      BY <1>0, <1>2, <2>2, <2>7 DEF CallType, IpPCs, DpPCs, LastPCs, CreatePCs, N!Inums, N!None, Ups, NoDotDot
    <3>2. valid'[dp[p]]
      BY <1>1, <1>2, <2>5, GoodFacts DEF DpPCs
    <3>3. SureThen(p)
      BY <1>0, <1>2, <2>2, <2>7, <3>2 DEF SureThen, SureInv, IpSure, DpSure, IpPCs, DpPCs, LinkPCs
    <3>4. HoldInv(p)'
      BY <1>1, <1>2, <2>1, <2>7 DEF HoldInv, IpLocked, N!Name
    <3>. QED BY <1>1, <3>1, <3>3, <3>4, SureNext DEF CallInv
  <2>12. Stays
    BY <1>1, <2>4, <2>5, LocksStay DEF Stays
  <2>. QED BY <1>1, <2>8, <2>9, <2>10, <2>11, <2>12, LocksStay, StayStep
<1>. QED BY <1>3, <1>4
-----------------------------------------------------------------------------
(* close() and chdir()                                                     *)

LEMMA CloseGood ==
  ASSUME N!NamesAssumption, NamesGood, NEW p \in NameProcs, put[p] = N!None, N!sys_close(p), UNCHANGED calls
  PROVE  NamesGood'
<1>0. /\ CallTypes /\ CallType(p) /\ SureInv(p) /\ iuse \in [N!Inums -> Nat] /\ valid \in [N!Inums -> BOOLEAN]
      /\ EntryOK(type, nlink, valid)
  BY GoodFacts
<1>1. /\ npc[p] = "idle" /\ file[p] # N!None /\ N!Iput(p, file[p]) /\ file' = [file EXCEPT ![p] = N!None]
      /\ UNCHANGED <<type, nlink, dent, dotdot, iuse, valid, ilock, cwd, npc, call, path, ip, dp>>
  BY DEF N!sys_close, N!locals, N!inode, N!entry
<1>2. file[p] \in N!Inums /\ valid'[file[p]]
  BY <1>1, GoodFacts DEF CallType
<1>3. /\ npc'[p] = npc[p] /\ cwd'[p] = cwd[p] /\ file'[p] = N!None /\ call'[p] = call[p]
      /\ path'[p] = path[p] /\ dp'[p] = dp[p] /\ ip'[p] = ip[p]
  BY <1>0, <1>1 DEF CallTypes
<1>4. Alone(p) /\ CallTypes'
  BY <1>0, <1>1 DEF CallTypes, Alone
<1>5. \A j \in N!Inums : iuse'[j] - (IF j = file[p] THEN 1 ELSE 0) = iuse[j] + Mine(p, j)' - Mine(p, j)
  <2>1. \A j \in N!Inums : iuse[j] \in Nat /\ j # N!None
    BY <1>0, FewNames
  <2>2. ASSUME NEW j \in N!Inums
        PROVE  /\ Mine(p, j) = Mine(p, j)' + (IF j = file[p] THEN 1 ELSE 0)
               /\ Mine(p, j) \in Nat /\ Mine(p, j)' \in Nat
    BY <1>1, <1>3, <2>1 DEF Mine, IpPCs, DpPCs
  <2>. HIDE DEF Mine
  <2>. QED BY <1>1, <2>1, <2>2
<1>6. OwesNoMore(p) /\ NewlyHeld(p)
  BY <1>1, <1>3 DEF OwesNoMore, OwedPCs, NewlyHeld
<1>7. CallInv(p)'
  <2>1. CallType(p)'
    BY <1>0, <1>3 DEF CallType, N!Inums, N!None, Ups, NoDotDot
  <2>2. SureThen(p)
    BY <1>0, <1>1, <1>3 DEF SureThen, SureInv, IpSure, DpSure, IpPCs, DpPCs, LinkPCs
  <2>3. HoldInv(p)'
    BY <1>1, <1>3 DEF HoldInv, IpLocked, DpLocked, DpPCs
  <2>. QED BY <1>1, <2>1, <2>2, <2>3, SureNext DEF CallInv
<1>. QED BY <1>1, <1>2, <1>4, <1>5, <1>6, <1>7, LocksStay, ReadsNothing, ReadsStay, PutStep

LEMMA ChdirGood ==
  ASSUME N!NamesAssumption, NamesGood, NEW p \in NameProcs, put[p] = N!None, npc[p] = "walk", ~ N!NoType(ip[p]),
         valid' = N!Valid(ip[p]), N!Iput(p, cwd[p]), cwd' = [cwd EXCEPT ![p] = ip[p]], N!Return(p),
         UNCHANGED <<type, nlink, dent, dotdot, calls, iuse, ilock, file>>
  PROVE  NamesGood'
<1>0. CallTypes /\ CallType(p) /\ SureInv(p) /\ iuse \in [N!Inums -> Nat]
  BY GoodFacts
<1>1. ip[p] \in N!Inums /\ cwd[p] \in N!Inums
  BY <1>0 DEF CallType, IpPCs
<1>2. Reads /\ valid'[ip[p]] /\ type[ip[p]] # "free"
  BY <1>1, ReadsOne
<1>3. valid'[cwd[p]] \/ cwd[p] = N!Root
  BY <1>1, <1>2, GoodFacts DEF Reads
<1>4. /\ npc' = [npc EXCEPT ![p] = "idle"] /\ call' = [call EXCEPT ![p] = N!NoCall]
      /\ path' = [path EXCEPT ![p] = <<>>] /\ ip' = [ip EXCEPT ![p] = N!None] /\ dp' = [dp EXCEPT ![p] = N!None]
  BY DEF N!Return, N!GoTo
<1>5. npc'[p] = "idle" /\ cwd'[p] = ip[p] /\ file'[p] = file[p]
  BY <1>0, <1>4 DEF CallTypes
<1>6. Alone(p) /\ CallTypes'
  BY <1>0, <1>4 DEF CallTypes, Alone
<1>7. \A j \in N!Inums : iuse'[j] - (IF j = cwd[p] THEN 1 ELSE 0) = iuse[j] + Mine(p, j)' - Mine(p, j)
  <2>1. \A j \in N!Inums : iuse[j] \in Nat /\ iuse'[j] = iuse[j]
    BY <1>0
  <2>2. ASSUME NEW j \in N!Inums
        PROVE  /\ Mine(p, j) = Mine(p, j)' + (IF j = cwd[p] THEN 1 ELSE 0)
               /\ Mine(p, j) \in Nat /\ Mine(p, j)' \in Nat
    BY <1>5 DEF Mine, IpPCs, DpPCs
  <2>. HIDE DEF Mine
  <2>. QED BY <2>1, <2>2
<1>8. OwesNoMore(p) /\ NewlyHeld(p)
  BY <1>2, <1>5 DEF OwesNoMore, OwedPCs, NewlyHeld
<1>9. CallInv(p)'
  BY <1>0, <1>1, <1>2, <1>5, <1>6, Returned DEF CallType, SureInv
<1>. QED BY <1>1, <1>2, <1>3, <1>6, <1>7, <1>8, <1>9, LocksStay, ReadsStay, PutStep

LEMMA ParentLocked ==
  ASSUME N!NamesAssumption, NamesGood, NEW p \in NameProcs, put[p] = N!None, npc[p] = "parent", N!Unlocked(dp[p]), ~ N!NoType(dp[p]),
         ilock' = [ilock EXCEPT ![dp[p]] = p], valid' = N!Valid(dp[p]), N!GoTo(p, call[p].op),
         UNCHANGED N!inode, UNCHANGED N!locals, UNCHANGED <<calls, iuse, cwd, file>>, UNCHANGED N!iputs
  PROVE  NamesGood'
<1>. DEFINE l == call[p].op
<1>1. dp[p] \in N!Inums /\ l \in {"creat", "mkdir", "unlink"} /\ Len(path[p]) = 1
  BY GoodFacts DEF CallType, DpPCs, LastPCs
<1>2. Reads
  BY <1>1, ReadsOne
<1>3. /\ npc' = [npc EXCEPT ![p] = l]
      /\ UNCHANGED <<type, nlink, dent, dotdot, iuse, calls, cwd, file, call, path, ip, dp>>
  BY DEF N!GoTo, N!inode, N!locals
<1>4. Onwards(p, l)
  BY <1>1 DEF Onwards, IpPCs, DpPCs, LastPCs, CreatePCs, OwedPCs
<1>. HIDE DEF l
<1>5. npc'[p] = l /\ dp'[p] = dp[p]
  BY <1>3, GoesOn
<1>6. ilock' \in [N!Inums -> NameProcs \cup {NoHolder}] /\ LocksKept(p) /\ ilock'[dp[p]] = p
  BY <1>1, LockSet DEF N!Unlocked
<1>7. HoldInv(p)'
  BY <1>1, <1>5, <1>6 DEF HoldInv, IpLocked
<1>8. l \in DpPCs /\ npc[p] \notin IpPCs /\ l \notin IpSure /\ l \notin LinkPCs /\ npc[p] \in DpSure
  BY <1>1 DEF IpPCs, DpPCs, IpSure, DpSure, LinkPCs
<1>. QED BY <1>2, <1>3, <1>4, <1>6, <1>7, <1>8, LockGoes

LEMMA OpenGood ==
  ASSUME N!NamesAssumption, NamesGood, NEW p \in NameProcs, put[p] = N!None, npc[p] \in IpPCs \ DpPCs, ~ N!NoType(ip[p]),
         call[p].op \in {"open", "creat"},
         valid' = N!Valid(ip[p]), file' = [file EXCEPT ![p] = ip[p]], N!Return(p),
         UNCHANGED <<type, nlink, dent, dotdot, iuse, calls, cwd, ilock>>, UNCHANGED N!iputs
  PROVE  NamesGood'
<1>1. ip[p] \in N!Inums
  BY GoodFacts DEF CallType
<1>2. Reads /\ valid'[ip[p]] /\ type[ip[p]] # "free"
  BY <1>1, ReadsOne
<1>. QED BY <1>2, LocksStay, OpenReturns

LEMMA CreatedGood ==
  ASSUME N!NamesAssumption, NamesGood, NEW p \in NameProcs, put[p] = N!None, NEW ok \in BOOLEAN, N!Created(p, ok),
         UNCHANGED calls
  PROVE  NamesGood'
<1>1. /\ npc[p] = "created" /\ ilock' = [ilock EXCEPT ![ip[p]] = NoHolder] /\ N!Return(p)
      /\ UNCHANGED N!inode /\ UNCHANGED N!entry /\ UNCHANGED cwd
      /\ npc[p] \in IpPCs \ DpPCs /\ npc[p] \in IpLocked /\ npc[p] \in IpSure
  BY DEF N!Created, IpPCs, DpPCs, IpLocked, IpSure
<1>2. CASE ok /\ call[p].op = "creat"
  <2>1. file' = [file EXCEPT ![p] = ip[p]] /\ UNCHANGED N!iputs
    BY <1>2 DEF N!Created, N!Opened
  <2>2. UNCHANGED <<type, nlink, dent, dotdot, iuse, valid>>
    BY <1>1 DEF N!inode, N!entry
  <2>3. ip[p] \in N!Inums /\ ilock[ip[p]] = p /\ type[ip[p]] # "free" /\ valid'[ip[p]]
    BY <1>1, <2>2, GoodFacts DEF CallType, HoldInv, SureInv
  <2>4. ilock' \in [N!Inums -> NameProcs \cup {NoHolder}] /\ LocksKept(p)
    BY <1>1, <2>3, LockSet
  <2>5. Reads
    BY <2>2, ReadsNothing
  <2>. QED BY <1>1, <1>2, <2>1, <2>2, <2>3, <2>4, <2>5, OpenReturns
<1>3. CASE ~ (ok /\ call[p].op = "creat")
  <2>1. N!Iput(p, ip[p]) /\ UNCHANGED file
    BY <1>3 DEF N!Created, N!Opened
  <2>. QED BY <1>1, <2>1, IpPut
<1>. QED BY <1>2, <1>3
-----------------------------------------------------------------------------
(* Steps that change a link                                                *)

\* Whether p owes i a name or a decrement, and n is a subdirectory of d
Owes(p, i) == IF npc[p] \in OwedPCs /\ ip[p] = i THEN 1 ELSE 0
IsSub(d, n) == IF dent[d][n] # N!None /\ type[dent[d][n]] = "T_DIR" THEN 1 ELSE 0

LEMMA OwedStep ==
  ASSUME N!NamesAssumption, NamesGood, NEW p \in NameProcs, Alone(p), UNCHANGED <<type, dent>>,
         \A i \in N!Inums : nlink'[i] \in Nat /\ nlink'[i] >= nlink[i] + Owes(p, i)' - Owes(p, i)
  PROVE  LinkInv'
<1>1. LinkInv /\ InodeTypes
  BY DEF NamesGood, InodesInv
<1>2. ASSUME NEW i \in N!Inums
      PROVE  nlink'[i] >= Due(i)'
  <2>1. NamesOf(i)' = NamesOf(i) /\ Subdirs(i)' = Subdirs(i)
    BY DEF NamesOf, Subdirs, N!Inums, N!None
  <2>2. \A y : y # p => (y \in Owed(i) <=> y \in Owed(i)')
    BY DEF Owed, Alone
  <2>3. In(p, Owed(i)) = Owes(p, i) /\ In(p, Owed(i)') = Owes(p, i)'
    BY DEF In, Owed, Owes
  <2>4. /\ Due(i)' = Due(i) + In(p, NamesOf(i)') - In(p, NamesOf(i)) + In(p, Subdirs(i)') - In(p, Subdirs(i))
                     + In(p, Owed(i)') - In(p, Owed(i))
        /\ Due(i) \in Nat /\ Due(i)' \in Nat
    BY <2>1, <2>2, DueStep
  <2>5. nlink[i] \in Nat /\ nlink[i] >= Due(i)
    BY <1>1, Linked
  <2>6. Owes(p, i) \in {0, 1} /\ Owes(p, i)' \in {0, 1}
    BY DEF Owes
  <2>7. \A S, y : In(y, S) \in {0, 1}
    BY DEF In
  <2>. HIDE DEF Due, Owes, In, NamesOf, Subdirs, Owed
  <2>. QED BY <2>1, <2>3, <2>4, <2>5, <2>6, <2>7
<1>. QED BY <1>2 DEF LinkInv, Due, N!Inums, N!Root

LEMMA EntryStep ==
  ASSUME N!NamesAssumption, NamesGood, NEW p \in NameProcs, Alone(p), NEW d \in N!Inums, NEW n \in FileNames,
         \A j \in N!Inums, m \in FileNames : ~ (j = d /\ m = n) =>
             /\ dent'[j][m] = dent[j][m]
             /\ dent[j][m] # N!None => type'[dent[j][m]] = type[dent[j][m]],
         \A i \in N!Inums :
             /\ nlink'[i] \in Nat
             /\ nlink'[i] >= nlink[i] + Hit(dent'[d][n], i) - Hit(dent[d][n], i)
                             + (IF i = d THEN IsSub(d, n)' - IsSub(d, n) ELSE 0) + Owes(p, i)' - Owes(p, i)
  PROVE  LinkInv'
<1>1. LinkInv /\ InodeTypes
  BY DEF NamesGood, InodesInv
<1>2. ASSUME NEW i \in N!Inums
      PROVE  nlink'[i] >= Due(i)'
  <2>1. \A y : y # <<d, n>> => (y \in NamesOf(i) <=> y \in NamesOf(i)')
    <3>1. ASSUME NEW y \in N!Inums \X FileNames, y # <<d, n>>
          PROVE  dent'[y[1]][y[2]] = dent[y[1]][y[2]]
      <4>1. y[1] \in N!Inums /\ y[2] \in FileNames /\ ~ (y[1] = d /\ y[2] = n)
        BY <3>1
      <4>. QED BY <4>1
    <3>. QED BY <3>1 DEF NamesOf, N!Inums
  <2>2. \A y : y # n => (y \in Subdirs(i) <=> y \in Subdirs(i)')
    BY DEF Subdirs, N!None
  <2>3. i # d => (n \in Subdirs(i) <=> n \in Subdirs(i)')
    BY DEF Subdirs, N!None
  <2>4. \A y : y # p => (y \in Owed(i) <=> y \in Owed(i)')
    BY DEF Owed, Alone
  <2>5. In(p, Owed(i)) = Owes(p, i) /\ In(p, Owed(i)') = Owes(p, i)'
    BY DEF In, Owed, Owes
  <2>6. In(<<d, n>>, NamesOf(i)) = Hit(dent[d][n], i) /\ In(<<d, n>>, NamesOf(i)') = Hit(dent'[d][n], i)
    BY DEF In, NamesOf, Hit, N!Inums
  <2>7. IF i = d THEN In(n, Subdirs(i)) = IsSub(d, n) /\ In(n, Subdirs(i)') = IsSub(d, n)'
        ELSE In(n, Subdirs(i)) = In(n, Subdirs(i)')
    <3>1. CASE i = d
      BY <3>1 DEF In, Subdirs, IsSub, N!None
    <3>2. CASE i # d
      BY <2>3, <3>2 DEF In
    <3>. QED BY <3>1, <3>2
  <2>8. /\ Due(i)' = Due(i) + In(<<d, n>>, NamesOf(i)') - In(<<d, n>>, NamesOf(i)) + In(n, Subdirs(i)') - In(n, Subdirs(i))
                     + In(p, Owed(i)') - In(p, Owed(i))
        /\ Due(i) \in Nat /\ Due(i)' \in Nat
    BY <2>1, <2>2, <2>4, DueStep
  <2>9. nlink[i] \in Nat /\ nlink[i] >= Due(i)
    BY <1>1, Linked
  <2>10. /\ Owes(p, i) \in {0, 1} /\ Owes(p, i)' \in {0, 1} /\ IsSub(d, n) \in {0, 1} /\ IsSub(d, n)' \in {0, 1}
         /\ \A x : Hit(x, i) \in {0, 1}
    BY DEF Owes, IsSub, Hit
  <2>11. \A S, y : In(y, S) \in {0, 1}
    BY DEF In
  <2>. HIDE DEF Due, Owes, IsSub, Hit, In, NamesOf, Subdirs, Owed
  <2>. QED BY <2>5, <2>6, <2>7, <2>8, <2>9, <2>10, <2>11
<1>. QED BY <1>2 DEF LinkInv, Due, N!Inums, N!Root

\* A step that changes the nlink of an inode, and no entry
LEMMA CountStep ==
  ASSUME N!NamesAssumption, NamesGood, NEW p \in NameProcs, put[p] = N!None, UNCHANGED N!iputs, Alone(p), CallTypes',
         UNCHANGED <<type, dent, dotdot, calls>>, nlink' \in [N!Inums -> Nat],
         iuse' \in [N!Inums -> Nat], valid' \in [N!Inums -> BOOLEAN], EntryOK(type, nlink', valid'),
         ilock' \in [N!Inums -> NameProcs \cup {NoHolder}],
         \A i \in N!Inums : nlink'[i] >= nlink[i] + Owes(p, i)' - Owes(p, i),
         \A j \in N!Inums : iuse'[j] = iuse[j] + Mine(p, j)' - Mine(p, j),
         \A j \in N!Inums : iuse[j] > 0 /\ valid[j] => valid'[j],
         LocksKept(p), NewlyHeld(p), UseInv' => CallInv(p)'
  PROVE  NamesGood'
<1>1. InodeTypes /\ DirInv
  BY DEF NamesGood, InodesInv
<1>2. InodeTypes' /\ DirInv'
  BY <1>1 DEF InodeTypes, DirInv, N!Inums, N!None, N!NoNames
<1>3. EntryOK(type', nlink', valid')
  BY DEF EntryOK
<1>4. InodesInv'
  BY <1>2, <1>3 DEF InodesInv, EntryOK, N!Inums
<1>5. Kept /\ EntriesKept(p)
  BY DEF Kept, EntriesKept
<1>6. LinkInv'
  <2>1. \A i \in N!Inums : nlink'[i] \in Nat
    OBVIOUS
  <2>. QED BY <2>1, OwedStep
<1>. QED BY <1>4, <1>5, <1>6, StepGood

\* ip->nlink--, by a call that owes it
LEMMA CountedDown ==
  ASSUME N!NamesAssumption, NamesGood, NEW p \in NameProcs, put[p] = N!None, npc[p] \in {"unlinked", "link_bad"},
         nlink' = [nlink EXCEPT ![ip[p]] = @ - 1], N!GoTo(p, "put_ip"),
         ilock' = [ilock EXCEPT ![ip[p]] = p], ilock[ip[p]] \in {NoHolder, p},
         UNCHANGED <<type, dent, dotdot, calls, iuse, valid, cwd, file>>, UNCHANGED N!locals, UNCHANGED N!iputs
  PROVE  NamesGood'
<1>. DEFINE i == ip[p]
<1>0. /\ InodeTypes /\ CallTypes /\ CallType(p) /\ SureInv(p) /\ iuse \in [N!Inums -> Nat] /\ valid \in [N!Inums -> BOOLEAN]
      /\ EntryOK(type, nlink, valid) /\ LinkInv
  BY GoodFacts
<1>1. /\ i \in N!Inums /\ iuse[i] > 0 /\ valid[i] /\ type[i] # "free"
      /\ npc[p] \in IpPCs /\ npc[p] \notin DpPCs /\ npc[p] \in OwedPCs /\ npc[p] \in IpSure
  BY GoodFacts DEF CallType, SureInv, IpPCs, DpPCs, IpSure, OwedPCs
<1>2. p \in Owed(i)
  BY <1>1 DEF Owed
<1>3. nlink[i] # 0 /\ nlink \in [N!Inums -> Nat]
  BY <1>0, <1>1, <1>2, Linked DEF InodeTypes
<1>4. /\ nlink' \in [N!Inums -> Nat]
      /\ \A j \in N!Inums : nlink[j] \in Nat /\ nlink'[j] = IF j = i THEN nlink[j] - 1 ELSE nlink[j]
  BY <1>1, <1>3
<1>5. npc' = [npc EXCEPT ![p] = "put_ip"] /\ UNCHANGED <<call, path, ip, dp>>
  BY DEF N!GoTo, N!locals
<1>6. /\ Alone(p) /\ CallTypes'
      /\ npc'[p] = "put_ip" /\ cwd'[p] = cwd[p] /\ file'[p] = file[p] /\ call'[p] = call[p] /\ path'[p] = path[p]
      /\ ip'[p] = i /\ dp'[p] = dp[p]
  BY <1>5, GoesOn
<1>7. EntryOK(type, nlink', valid') /\ iuse' \in [N!Inums -> Nat] /\ valid' \in [N!Inums -> BOOLEAN]
  <2>1. EntryOK(type, nlink', valid)
    BY <1>0, <1>1, <1>4 DEF EntryOK
  <2>. QED BY <1>0, <2>1
<1>8. \A j \in N!Inums : nlink'[j] >= nlink[j] + Owes(p, j)' - Owes(p, j)
  <2>1. \A j \in N!Inums : Owes(p, j)' = 0 /\ Owes(p, j) = IF j = i THEN 1 ELSE 0
    BY <1>1, <1>6 DEF Owes, OwedPCs
  <2>. QED BY <1>4, <2>1
<1>9. \A j \in N!Inums : iuse'[j] = iuse[j] + Mine(p, j)' - Mine(p, j)
  <2>1. \A j \in N!Inums : iuse[j] \in Nat
    BY <1>0
  <2>2. ASSUME NEW j \in N!Inums
        PROVE  Mine(p, j) = Mine(p, j)' /\ Mine(p, j) \in Nat
    BY <1>1, <1>6 DEF Mine, IpPCs, DpPCs
  <2>. HIDE DEF Mine
  <2>. QED BY <2>1, <2>2
<1>10. ilock' \in [N!Inums -> NameProcs \cup {NoHolder}] /\ LocksKept(p) /\ ilock'[i] = p
  BY <1>1, LockSet
<1>11. CallInv(p)'
  <2>1. Onwards(p, "put_ip")
    BY <1>1 DEF Onwards, IpPCs, DpPCs, LastPCs, CreatePCs, OwedPCs
  <2>2. HoldInv(p)'
    BY <1>6, <1>10 DEF HoldInv, DpLocked, DpPCs
  <2>4. "put_ip" \notin DpSure /\ "put_ip" \notin LinkPCs
    BY DEF DpSure, DpPCs, LinkPCs
  <2>. QED BY <1>1, <1>5, <2>1, <2>2, <2>4, WentOn
<1>12. NewlyHeld(p)
  BY <1>6 DEF NewlyHeld
<1>. QED BY <1>12, <1>4, <1>6, <1>7, <1>8, <1>9, <1>10, <1>11, CountStep

\* link() counts the new name, and starts at its second path.
LEMMA LinkCounts ==
  ASSUME N!NamesAssumption, NamesGood, NEW p \in NameProcs, put[p] = N!None, npc[p] = "walk", call[p].op = "link",
         ~ N!NoType(ip[p]), type[ip[p]] # "T_DIR", nlink' = [nlink EXCEPT ![ip[p]] = @ + 1],
         NEW d, d = (IF call[p].abs THEN N!Root ELSE cwd[p]),
         dp' = [dp EXCEPT ![p] = d], iuse' = N!Iget(d), valid' = [N!StillValid(d) EXCEPT ![ip[p]] = TRUE],
         path' = [path EXCEPT ![p] = call[p].to], N!GoTo(p, "walk_to"),
         UNCHANGED <<type, dent, dotdot, calls, ilock, cwd, file, call, ip>>, UNCHANGED N!iputs
  PROVE  NamesGood'
<1>. DEFINE i == ip[p]
<1>0. /\ InodeTypes /\ CallTypes /\ CallType(p) /\ SureInv(p) /\ iuse \in [N!Inums -> Nat] /\ valid \in [N!Inums -> BOOLEAN]
      /\ EntryOK(type, nlink, valid) /\ LinkInv
  BY GoodFacts
<1>1. i \in N!Inums /\ iuse[i] > 0 /\ npc[p] \in IpPCs /\ npc[p] \notin DpPCs
  BY GoodFacts DEF CallType, IpPCs, DpPCs
<1>2. type[i] # "free"
  BY <1>1, LockedOK
<1>3. d \in N!Inums /\ type[d] # "free"
  BY GoodFacts DEF CallType, SureInv
<1>4. npc' = [npc EXCEPT ![p] = "walk_to"]
  BY DEF N!GoTo
<1>5. /\ npc'[p] = "walk_to" /\ cwd'[p] = cwd[p] /\ file'[p] = file[p] /\ call'[p] = call[p]
      /\ path'[p] = call[p].to /\ ip'[p] = i /\ dp'[p] = d
  BY <1>0, <1>4 DEF CallTypes
<1>6. Alone(p) /\ CallTypes'
  BY <1>0, <1>4 DEF CallTypes, Alone
<1>. HIDE DEF i
<1>7. /\ nlink' \in [N!Inums -> Nat]
      /\ \A j \in N!Inums : nlink[j] \in Nat /\ nlink'[j] = IF j = i THEN nlink[j] + 1 ELSE nlink[j]
  BY <1>0, <1>1 DEF InodeTypes, i
<1>8. /\ EntryOK(type, nlink, N!StillValid(d)) /\ iuse' \in [N!Inums -> Nat]
      /\ N!StillValid(d) \in [N!Inums -> BOOLEAN]
  BY <1>0, <1>3, GetOK DEF N!Iget, N!StillValid
<1>9. EntryOK(type, nlink, valid') /\ valid' \in [N!Inums -> BOOLEAN]
  BY <1>1, <1>2, <1>8, LockOK DEF i
<1>10. EntryOK(type, nlink', valid')
  <2>1. \A j \in N!Inums : nlink'[j] = 0 => nlink[j] = 0
    BY <1>7
  <2>2. nlink'[i] # 0 /\ \A j \in N!Inums \ {i} : nlink'[j] = nlink[j]
    BY <1>1, <1>7
  <2>. QED BY <1>2, <1>9, <2>1, <2>2 DEF EntryOK
<1>11. \A j \in N!Inums : (iuse[j] > 0 /\ valid[j] => valid'[j])
  <2>1. \A j \in N!Inums : iuse[j] > 0 /\ valid[j] => N!StillValid(d)[j]
    BY <1>0, <1>3 DEF N!StillValid
  <2>. QED BY <1>1, <1>8, <2>1
<1>12. valid'[i]
  BY <1>1, <1>8 DEF i
<1>13. \A j \in N!Inums : nlink'[j] >= nlink[j] + Owes(p, j)' - Owes(p, j)
  <2>1. \A j \in N!Inums : Owes(p, j) = 0 /\ Owes(p, j)' = IF j = i THEN 1 ELSE 0
    BY <1>5 DEF Owes, OwedPCs
  <2>. QED BY <1>7, <2>1
<1>14. \A j \in N!Inums : iuse'[j] = iuse[j] + Mine(p, j)' - Mine(p, j)
  <2>1. \A j \in N!Inums : iuse[j] \in Nat /\ iuse'[j] = IF j = d THEN iuse[j] + 1 ELSE iuse[j]
    BY <1>0, <1>3 DEF N!Iget
  <2>2. ASSUME NEW j \in N!Inums
        PROVE  /\ Mine(p, j) + (IF j = d THEN 1 ELSE 0) = Mine(p, j)'
               /\ Mine(p, j) \in Nat /\ Mine(p, j)' \in Nat
    BY <1>1, <1>5 DEF Mine, IpPCs, DpPCs, i
  <2>. HIDE DEF Mine
  <2>. QED BY <2>1, <2>2
<1>15. CallInv(p)'
  <2>1. CallType(p)'
    BY <1>0, <1>1, <1>3, <1>5 DEF CallType, IpPCs, DpPCs, LastPCs, CreatePCs, N!Inums, N!None, Ups, NoDotDot
  <2>3. SureThen(p)
    BY <1>0, <1>2, <1>3, <1>5, <1>12 DEF SureThen, SureInv, DpSure, i
  <2>4. HoldInv(p)'
    BY <1>5 DEF HoldInv, IpLocked, DpLocked, DpPCs
  <2>. QED BY <2>1, <2>3, <2>4, SureNext DEF CallInv
<1>16. NewlyHeld(p)
  BY <1>5 DEF NewlyHeld
<1>. QED BY <1>16, <1>6, <1>7, <1>8, <1>9, <1>10, <1>11, <1>13, <1>14, <1>15, LocksStay, CountStep

\* unlink() clears the entry.
LEMMA EntryCleared ==
  ASSUME N!NamesAssumption, NamesGood, NEW p \in NameProcs, put[p] = N!None, npc[p] = "unlink_ip",
         N!Unlocked(ip[p]), ~ N!NoType(ip[p]), ilock' = [ilock EXCEPT ![ip[p]] = p], valid' = N!Valid(ip[p]),
         dent' = [dent EXCEPT ![dp[p]][N!Name(p)] = N!None],
         nlink' = [nlink EXCEPT ![dp[p]] = IF type[ip[p]] = "T_DIR" THEN @ - 1 ELSE @],
         N!GoTo(p, "unlink_put"), UNCHANGED <<type, dotdot, calls, iuse, cwd, file>>, UNCHANGED N!locals, UNCHANGED N!iputs
  PROVE  NamesGood'
<1>. SUFFICES ASSUME NEW i, i = ip[p], NEW d, d = dp[p], NEW n, n = N!Name(p)
              PROVE  NamesGood'
  OBVIOUS
<1>0. /\ InodeTypes /\ CallTypes /\ CallType(p) /\ SureInv(p) /\ HoldInv(p)
      /\ iuse \in [N!Inums -> Nat] /\ valid \in [N!Inums -> BOOLEAN]
      /\ EntryOK(type, nlink, valid) /\ LinkInv /\ DirInv
  BY GoodFacts
<1>1. /\ npc[p] \in IpPCs /\ npc[p] \in DpPCs /\ npc[p] \in DpSure /\ npc[p] \in DpLocked /\ npc[p] \notin OwedPCs
      /\ npc[p] \notin IpSure /\ npc[p] \notin LinkPCs
  BY DEF IpPCs, DpPCs, DpSure, DpLocked, OwedPCs, IpSure, LinkPCs
<1>2. /\ i \in N!Inums /\ d \in N!Inums /\ n \in FileNames /\ dent[d][n] = i /\ ilock[d] = p
      /\ type[d] = "T_DIR" /\ valid[d] /\ iuse[d] > 0 /\ iuse[i] > 0
  BY <1>0, <1>1, GoodFacts DEF CallType, SureInv, HoldInv, N!Name
<1>3. i # d /\ i # N!None /\ p # NoHolder
  BY <1>2, FewNames DEF N!Unlocked
<1>4. /\ valid' \in [N!Inums -> BOOLEAN] /\ EntryOK(type, nlink, valid') /\ valid'[i] /\ type[i] # "free"
      /\ \A j \in N!Inums : valid[j] => valid'[j]
  BY <1>2, LockedOK
<1>5. npc' = [npc EXCEPT ![p] = "unlink_put"] /\ UNCHANGED <<call, path, ip, dp>>
  BY DEF N!GoTo, N!locals
<1>6. /\ Alone(p) /\ CallTypes'
      /\ npc'[p] = "unlink_put" /\ cwd'[p] = cwd[p] /\ file'[p] = file[p] /\ call'[p] = call[p] /\ path'[p] = path[p]
      /\ ip'[p] = i /\ dp'[p] = d
  BY <1>5, GoesOn
<1>7. /\ ilock' \in [N!Inums -> NameProcs \cup {NoHolder}] /\ LocksKept(p) /\ ilock'[i] = p /\ ilock'[d] = p
  BY <1>2, <1>3, LockSet DEF N!Unlocked
<1>8. nlink[d] \in Nat /\ (type[i] = "T_DIR" => nlink[d] # 0)
  <2>1. type[i] = "T_DIR" => n \in Subdirs(d)
    BY <1>2, <1>3 DEF Subdirs
  <2>. QED BY <1>0, <1>2, <2>1, Linked
<1>9. dent' = [dent EXCEPT ![d][n] = N!None]
  OBVIOUS
<1>10. nlink' = [nlink EXCEPT ![d] = IF type[i] = "T_DIR" THEN @ - 1 ELSE @]
  OBVIOUS
<1>11. /\ nlink' \in [N!Inums -> Nat]
       /\ \A j \in N!Inums : nlink[j] \in Nat
                             /\ nlink'[j] = IF j = d /\ type[i] = "T_DIR" THEN nlink[j] - 1 ELSE nlink[j]
  <2>1. nlink \in [N!Inums -> Nat]
    BY <1>0 DEF InodeTypes
  <2>2. CASE type[i] = "T_DIR"
    <3>1. nlink' = [nlink EXCEPT ![d] = nlink[d] - 1] /\ nlink[d] - 1 \in Nat
      BY <1>8, <1>10, <2>2
    <3>. QED BY <1>2, <2>1, <2>2, <3>1
  <2>3. CASE type[i] # "T_DIR"
    <3>1. nlink' = nlink
      BY <1>10, <2>1, <2>3
    <3>. QED BY <2>1, <2>3, <3>1
  <2>. QED BY <2>2, <2>3
<1>12. /\ dent' \in [N!Inums -> [FileNames -> N!Inums \cup {N!None}]]
       /\ \A j \in N!Inums \ {d} : dent'[j] = dent[j]
       /\ \A m \in FileNames : dent'[d][m] = IF m = n THEN N!None ELSE dent[d][m]
  <2>1. dent \in [N!Inums -> [FileNames -> N!Inums \cup {N!None}]]
    BY <1>0 DEF InodeTypes
  <2>2. /\ dent' = [dent EXCEPT ![d] = [dent[d] EXCEPT ![n] = N!None]]
        /\ [dent[d] EXCEPT ![n] = N!None] \in [FileNames -> N!Inums \cup {N!None}]
    BY <1>2, <1>9, <2>1
  <2>. QED BY <1>2, <2>1, <2>2
<1>13. InodesInv'
  <2>1. InodeTypes'
    BY <1>0, <1>4, <1>7, <1>11, <1>12 DEF InodeTypes, N!Inums, N!None
  <2>2. DirInv'
    BY <1>0, <1>2, <1>12 DEF DirInv, N!Inums, N!None, N!NoNames
  <2>3. EntryOK(type, nlink', valid')
    BY <1>2, <1>4, <1>11 DEF EntryOK
  <2>. QED BY <2>1, <2>2, <2>3 DEF InodesInv, EntryOK, N!Inums
<1>14. LinkInv'
  <2>1. \A j \in N!Inums, m \in FileNames : ~ (j = d /\ m = n) => dent'[j][m] = dent[j][m]
    BY <1>12
  <2>2. \A j \in N!Inums : Owes(p, j) = 0 /\ Owes(p, j)' = Hit(i, j)
    BY <1>1, <1>6 DEF Owes, OwedPCs, Hit
  <2>3. dent'[d][n] = N!None /\ dent[d][n] = i
    BY <1>2, <1>12
  <2>4. \A j \in N!Inums : Hit(N!None, j) = 0
    BY FewNames DEF Hit
  <2>5. IsSub(d, n)' = 0 /\ IsSub(d, n) = IF type[i] = "T_DIR" THEN 1 ELSE 0
    BY <1>3, <2>3 DEF IsSub, N!None
  <2>6. \A j \in N!Inums : nlink'[j] \in Nat
    BY <1>11
  <2>7. \A j \in N!Inums : Hit(i, j) \in {0, 1}
    BY DEF Hit
  <2>8. ASSUME NEW j \in N!Inums
        PROVE  nlink'[j] >= nlink[j] + Hit(dent'[d][n], j) - Hit(dent[d][n], j)
                            + (IF j = d THEN IsSub(d, n)' - IsSub(d, n) ELSE 0) + Owes(p, j)' - Owes(p, j)
    <3>1. /\ Hit(dent'[d][n], j) = 0 /\ Hit(dent[d][n], j) = Hit(i, j) /\ Owes(p, j) = 0 /\ Owes(p, j)' = Hit(i, j)
          /\ nlink[j] \in Nat /\ Hit(i, j) \in {0, 1}
          /\ nlink'[j] = IF j = d /\ type[i] = "T_DIR" THEN nlink[j] - 1 ELSE nlink[j]
      BY <1>11, <2>2, <2>3, <2>4, <2>7
    <3>. QED BY <2>5, <3>1
  <2>. QED BY <1>2, <1>6, <2>1, <2>6, <2>8, EntryStep
<1>15. \A j \in N!Inums : iuse'[j] = iuse[j] + Mine(p, j)' - Mine(p, j)
  <2>1. \A j \in N!Inums : iuse[j] \in Nat
    BY <1>0
  <2>2. ASSUME NEW j \in N!Inums
        PROVE  Mine(p, j) = Mine(p, j)' /\ Mine(p, j) \in Nat
    BY <1>6 DEF Mine, IpPCs, DpPCs
  <2>. HIDE DEF Mine
  <2>. QED BY <2>1, <2>2
<1>16. Kept /\ EntriesKept(p)
  BY <1>2, <1>4, <1>12 DEF Kept, EntriesKept
<1>17. ASSUME UseInv'
       PROVE  CallInv(p)'
  <2>1. CallType(p)'
    BY <1>0, <1>2, <1>6 DEF CallType, IpPCs, DpPCs, LastPCs, CreatePCs, N!Inums, N!None, Ups, NoDotDot
  <2>2. SureInv(p)'
    BY <1>0, <1>2, <1>4, <1>6 DEF SureInv, LinkPCs, N!None, NoDotDot
  <2>3. HoldInv(p)'
    BY <1>3, <1>6, <1>7 DEF HoldInv
  <2>. QED BY <2>1, <2>2, <2>3 DEF CallInv
<1>18. NewlyHeld(p)
  BY <1>6 DEF NewlyHeld
<1>. QED BY <1>18, <1>6, <1>7, <1>13, <1>14, <1>15, <1>16, <1>17, StepGood

\* A directory has no entry of the name, which is not "..".
LEMMA NewName ==
  ASSUME N!NamesAssumption, NamesGood, NEW p \in NameProcs, npc[p] \in LastPCs, npc[p] \in DpSure,
         N!dirlookup(dp[p], N!Name(p)) = N!None
  PROVE  /\ dp[p] \in N!Inums /\ type[dp[p]] = "T_DIR" /\ valid[dp[p]] /\ iuse[dp[p]] > 0
         /\ N!Name(p) \in FileNames /\ dent[dp[p]][N!Name(p)] = N!None
<1>1. npc[p] \in DpPCs
  BY DEF DpSure
<1>2. dp[p] \in N!Inums /\ type[dp[p]] = "T_DIR" /\ valid[dp[p]] /\ iuse[dp[p]] > 0
  BY <1>1, GoodFacts DEF CallType, SureInv
<1>3. dotdot[dp[p]] # N!None
  BY <1>2, GoodFacts DEF DirInv
<1>4. N!Name(p) \in FileNames \cup Ups
  BY LastName
<1>5. N!Name(p) # ".."
  BY <1>3 DEF N!dirlookup
<1>6. N!Name(p) \in FileNames
  BY <1>4, <1>5 DEF Ups
<1>. QED BY <1>2, <1>5, <1>6 DEF N!dirlookup

\* link() enters the name.
LEMMA EntryMade ==
  ASSUME N!NamesAssumption, NamesGood, NEW p \in NameProcs, put[p] = N!None, npc[p] = "link_parent",
         N!Unlocked(dp[p]), ~ N!NoType(dp[p]), N!dirlookup(dp[p], N!Name(p)) = N!None,
         ilock' = [ilock EXCEPT ![dp[p]] = p], valid' = N!Valid(dp[p]),
         dent' = [dent EXCEPT ![dp[p]][N!Name(p)] = ip[p]],
         N!GoTo(p, "link_put_dp"), UNCHANGED <<type, nlink, dotdot, calls, iuse, cwd, file>>, UNCHANGED N!locals, UNCHANGED N!iputs
  PROVE  NamesGood'
<1>. SUFFICES ASSUME NEW i, i = ip[p], NEW d, d = dp[p], NEW n, n = N!Name(p)
              PROVE  NamesGood'
  OBVIOUS
<1>0. /\ InodeTypes /\ CallTypes /\ CallType(p) /\ SureInv(p) /\ HoldInv(p)
      /\ iuse \in [N!Inums -> Nat] /\ valid \in [N!Inums -> BOOLEAN]
      /\ EntryOK(type, nlink, valid) /\ LinkInv /\ DirInv
  BY GoodFacts
<1>1. /\ npc[p] \in IpPCs /\ npc[p] \in DpPCs /\ npc[p] \in DpSure /\ npc[p] \in OwedPCs
      /\ npc[p] \in IpSure /\ npc[p] \in LinkPCs /\ npc[p] \in LastPCs
  BY DEF IpPCs, DpPCs, DpSure, OwedPCs, IpSure, LinkPCs, LastPCs
<1>2. /\ d \in N!Inums /\ n \in FileNames /\ dent[d][n] = N!None
      /\ type[d] = "T_DIR" /\ valid[d] /\ iuse[d] > 0
  BY <1>1, NewName
<1>3. i \in N!Inums /\ type[i] # "free" /\ valid[i] /\ type[i] # "T_DIR" /\ iuse[i] > 0
  BY <1>0, <1>1, GoodFacts DEF CallType, SureInv
<1>4. i # d /\ i # N!None /\ p # NoHolder
  BY <1>2, <1>3, FewNames
<1>5. /\ valid' \in [N!Inums -> BOOLEAN] /\ EntryOK(type, nlink, valid')
      /\ \A j \in N!Inums : valid[j] => valid'[j]
  BY <1>2, LockedOK
<1>6. npc' = [npc EXCEPT ![p] = "link_put_dp"] /\ UNCHANGED <<call, path, ip, dp>>
  BY DEF N!GoTo, N!locals
<1>7. /\ Alone(p) /\ CallTypes'
      /\ npc'[p] = "link_put_dp" /\ cwd'[p] = cwd[p] /\ file'[p] = file[p] /\ call'[p] = call[p] /\ path'[p] = path[p]
      /\ ip'[p] = i /\ dp'[p] = d
  BY <1>6, GoesOn
<1>8. /\ ilock' \in [N!Inums -> NameProcs \cup {NoHolder}] /\ LocksKept(p) /\ ilock'[d] = p /\ ilock[d] = NoHolder
  BY <1>2, LockSet DEF N!Unlocked
<1>9. /\ dent' \in [N!Inums -> [FileNames -> N!Inums \cup {N!None}]]
      /\ \A j \in N!Inums \ {d} : dent'[j] = dent[j]
      /\ \A m \in FileNames : dent'[d][m] = IF m = n THEN i ELSE dent[d][m]
  <2>1. dent \in [N!Inums -> [FileNames -> N!Inums \cup {N!None}]]
    BY <1>0 DEF InodeTypes
  <2>2. /\ dent' = [dent EXCEPT ![d] = [dent[d] EXCEPT ![n] = i]]
        /\ [dent[d] EXCEPT ![n] = i] \in [FileNames -> N!Inums \cup {N!None}]
    BY <1>2, <1>3, <2>1
  <2>. QED BY <1>2, <2>1, <2>2
<1>10. InodesInv'
  <2>1. InodeTypes'
    BY <1>0, <1>5, <1>8, <1>9 DEF InodeTypes, N!Inums, N!None
  <2>2. DirInv'
    BY <1>0, <1>2, <1>9 DEF DirInv, N!Inums, N!None, N!NoNames
  <2>. QED BY <1>5, <2>1, <2>2 DEF InodesInv, EntryOK, N!Inums
<1>11. LinkInv'
  <2>1. \A j \in N!Inums, m \in FileNames : ~ (j = d /\ m = n) => dent'[j][m] = dent[j][m]
    BY <1>9
  <2>2. \A j \in N!Inums : Owes(p, j)' = 0 /\ Owes(p, j) = Hit(i, j)
    BY <1>1, <1>7 DEF Owes, OwedPCs, Hit
  <2>3. dent[d][n] = N!None /\ dent'[d][n] = i
    BY <1>2, <1>9
  <2>4. \A j \in N!Inums : Hit(N!None, j) = 0 /\ Hit(i, j) \in {0, 1} /\ nlink[j] \in Nat
    BY <1>0, FewNames DEF Hit, InodeTypes
  <2>5. IsSub(d, n)' = 0 /\ IsSub(d, n) = 0
    BY <1>3, <2>3 DEF IsSub, N!None
  <2>6. ASSUME NEW j \in N!Inums
        PROVE  /\ nlink'[j] \in Nat
               /\ nlink'[j] >= nlink[j] + Hit(dent'[d][n], j) - Hit(dent[d][n], j)
                               + (IF j = d THEN IsSub(d, n)' - IsSub(d, n) ELSE 0) + Owes(p, j)' - Owes(p, j)
    <3>1. /\ Hit(dent[d][n], j) = 0 /\ Hit(dent'[d][n], j) = Hit(i, j) /\ Owes(p, j)' = 0 /\ Owes(p, j) = Hit(i, j)
          /\ nlink[j] \in Nat /\ Hit(i, j) \in {0, 1} /\ nlink'[j] = nlink[j]
      BY <2>2, <2>3, <2>4
    <3>. QED BY <2>5, <3>1
  <2>. QED BY <1>2, <1>7, <2>1, <2>6, EntryStep
<1>12. \A j \in N!Inums : iuse'[j] = iuse[j] + Mine(p, j)' - Mine(p, j)
  <2>1. \A j \in N!Inums : iuse[j] \in Nat
    BY <1>0
  <2>2. ASSUME NEW j \in N!Inums
        PROVE  Mine(p, j) = Mine(p, j)' /\ Mine(p, j) \in Nat
    BY <1>7 DEF Mine, IpPCs, DpPCs
  <2>. HIDE DEF Mine
  <2>. QED BY <2>1, <2>2
<1>13. Kept /\ EntriesKept(p)
  BY <1>5, <1>8, <1>9 DEF Kept, EntriesKept
<1>14. ASSUME UseInv'
       PROVE  CallInv(p)'
  <2>1. CallType(p)'
    BY <1>0, <1>2, <1>3, <1>7 DEF CallType, IpPCs, DpPCs, LastPCs, CreatePCs, N!Inums, N!None, Ups, NoDotDot
  <2>2. SureInv(p)'
    BY <1>0, <1>2, <1>3, <1>5, <1>7 DEF SureInv, N!None, NoDotDot
  <2>3. HoldInv(p)'
    BY <1>7, <1>8 DEF HoldInv, IpLocked
  <2>. QED BY <2>1, <2>2, <2>3 DEF CallInv
<1>15. NewlyHeld(p)
  BY <1>7 DEF NewlyHeld
<1>. QED BY <1>15, <1>7, <1>8, <1>10, <1>11, <1>12, <1>13, <1>14, StepGood

\* create() makes a new inode, and enters its name if the disk is not full.
LEMMA NewMade ==
  ASSUME N!NamesAssumption, NamesGood, NEW p \in NameProcs, put[p] = N!None, NEW ok \in BOOLEAN, N!CreateNew(p, ok), UNCHANGED calls
  PROVE  NamesGood'
<1>. DEFINE x == CHOOSE y \in N!FreeInums : \A z \in N!FreeInums : y <= z
<1>0. /\ InodeTypes /\ CallTypes /\ CallType(p) /\ SureInv(p) /\ HoldInv(p)
      /\ iuse \in [N!Inums -> Nat] /\ valid \in [N!Inums -> BOOLEAN] /\ nlink \in [N!Inums -> Nat]
      /\ type \in [N!Inums -> {"free", "T_DIR", "T_FILE"}]
      /\ dent \in [N!Inums -> [FileNames -> N!Inums \cup {N!None}]]
      /\ dotdot \in [N!Inums -> N!Inums \cup {N!None}]
      /\ EntryOK(type, nlink, valid) /\ LinkInv /\ DirInv
  BY GoodFacts DEF InodeTypes
<1>1. x \in N!Inums /\ type[x] = "free"
  <2>1. N!FreeInums \in SUBSET Nat /\ N!FreeInums # {}
    BY DEF N!CreateNew, N!FreeInums, N!Inums
  <2>2. \E y \in N!FreeInums : \A z \in N!FreeInums : y <= z
    BY <2>1, LeastNatural
  <2>3. x \in N!FreeInums
    BY <2>2
  <2>. QED BY <2>3 DEF N!FreeInums
<1>2. /\ npc[p] \in {"creat", "mkdir"} /\ N!dirlookup(dp[p], N!Name(p)) = N!None
      /\ N!Unlocked(x) /\ ilock' = [ilock EXCEPT ![x] = p]
      /\ iuse' = N!Iget(x) /\ valid' = N!Valid(x)
      /\ type' = [type EXCEPT ![x] = N!NewType(p)]
      /\ dotdot' = [dotdot EXCEPT ![x] = IF N!NewType(p) = "T_DIR" THEN dp[p] ELSE N!None]
      /\ ip' = [ip EXCEPT ![p] = x]
      /\ nlink' = [nlink EXCEPT ![x] = IF ok THEN 1 ELSE 0,
                                ![dp[p]] = IF ok /\ N!NewType(p) = "T_DIR" THEN @ + 1 ELSE @]
      /\ dent' = IF ok THEN [dent EXCEPT ![dp[p]][N!Name(p)] = x] ELSE dent
      /\ npc' = [npc EXCEPT ![p] = IF ok THEN "create_put" ELSE "create_fail"]
      /\ UNCHANGED <<cwd, file, call, path, dp>> /\ UNCHANGED N!iputs
  BY DEF N!CreateNew, N!GoTo
<1>. HIDE DEF x
<1>. SUFFICES ASSUME NEW i, i = x, NEW d, d = dp[p], NEW n, n = N!Name(p), NEW t, t = N!NewType(p),
                     NEW l, l = IF ok THEN "create_put" ELSE "create_fail"
              PROVE  NamesGood'
  OBVIOUS
<1>3. /\ npc[p] \notin IpPCs /\ npc[p] \in DpPCs /\ npc[p] \in DpSure /\ npc[p] \notin OwedPCs
      /\ npc[p] \in LastPCs /\ npc[p] \in DpLocked
  BY <1>2 DEF IpPCs, DpPCs, DpSure, OwedPCs, DpLocked, LastPCs
<1>4. /\ d \in N!Inums /\ n \in FileNames /\ dent[d][n] = N!None
      /\ type[d] = "T_DIR" /\ valid[d] /\ iuse[d] > 0
  BY <1>2, <1>3, NewName
<1>5. /\ i \in N!Inums /\ type[i] = "free" /\ nlink[i] = 0 /\ NamesOf(i) = {} /\ dent[i] = N!NoNames
      /\ i # d /\ i # N!None /\ t \in {"T_DIR", "T_FILE"} /\ d # N!None
  <2>1. i \in N!Inums /\ type[i] = "free" /\ nlink[i] = 0
    BY <1>0, <1>1 DEF EntryOK
  <2>2. NamesOf(i) = {}
    BY <1>0, <2>1, Linked
  <2>. QED BY <1>0, <1>4, <2>1, <2>2, FewNames DEF DirInv, N!NewType
<1>6. ilock[d] = p
  BY <1>0, <1>3 DEF HoldInv
<1>7. /\ ilock' \in [N!Inums -> NameProcs \cup {NoHolder}] /\ LocksKept(p) /\ ilock'[i] = p /\ ilock'[d] = p
  <2>1. ilock' = [ilock EXCEPT ![i] = p] /\ ilock[i] = NoHolder
    BY <1>2 DEF N!Unlocked
  <2>. QED BY <1>4, <1>5, <1>6, <2>1, LockSet
<1>8. /\ npc'[p] = l /\ cwd'[p] = cwd[p] /\ file'[p] = file[p] /\ call'[p] = call[p] /\ path'[p] = path[p]
      /\ ip'[p] = i /\ dp'[p] = d
  BY <1>0, <1>2 DEF CallTypes
<1>9. Alone(p) /\ CallTypes'
  BY <1>0, <1>2 DEF CallTypes, Alone
<1>10. /\ type' \in [N!Inums -> {"free", "T_DIR", "T_FILE"}] /\ type'[i] = t
       /\ \A j \in N!Inums \ {i} : type'[j] = type[j]
  BY <1>0, <1>2, <1>5
<1>11. /\ dotdot' \in [N!Inums -> N!Inums \cup {N!None}]
       /\ \A j \in N!Inums \ {i} : dotdot'[j] = dotdot[j]
       /\ t = "T_DIR" => dotdot'[i] # N!None
  BY <1>0, <1>2, <1>4, <1>5
<1>12. /\ valid' \in [N!Inums -> BOOLEAN] /\ valid'[i]
       /\ \A j \in N!Inums \ {i} : valid'[j] <=> valid[j]
  BY <1>0, <1>2, <1>5 DEF N!Valid
<1>13. /\ iuse' \in [N!Inums -> Nat]
       /\ \A j \in N!Inums : iuse[j] \in Nat /\ iuse'[j] = IF j = i THEN iuse[j] + 1 ELSE iuse[j]
  BY <1>0, <1>2, <1>5 DEF N!Iget
<1>14. /\ nlink' \in [N!Inums -> Nat]
       /\ nlink'[i] = IF ok THEN 1 ELSE 0
       /\ nlink'[d] = IF ok /\ t = "T_DIR" THEN nlink[d] + 1 ELSE nlink[d]
       /\ \A j \in N!Inums \ {i, d} : nlink'[j] = nlink[j]
  <2>1. nlink' = [[nlink EXCEPT ![i] = IF ok THEN 1 ELSE 0] EXCEPT
                    ![d] = IF ok /\ t = "T_DIR" THEN nlink[d] + 1 ELSE nlink[d]]
    BY <1>0, <1>2, <1>4, <1>5
  <2>2. nlink[d] \in Nat
    BY <1>0, <1>4
  <2>3. PICK y, z : /\ nlink' = [[nlink EXCEPT ![i] = y] EXCEPT ![d] = z]
                    /\ y = IF ok THEN 1 ELSE 0
                    /\ z = IF ok /\ t = "T_DIR" THEN nlink[d] + 1 ELSE nlink[d]
    BY <2>1
  <2>4. y \in Nat /\ z \in Nat
    BY <2>2, <2>3
  <2>5. /\ nlink' \in [N!Inums -> Nat] /\ nlink'[i] = y /\ nlink'[d] = z
        /\ \A j \in N!Inums \ {i, d} : nlink'[j] = nlink[j]
    BY <1>0, <1>4, <1>5, <2>3, <2>4
  <2>. QED BY <2>3, <2>5
<1>15. /\ dent' \in [N!Inums -> [FileNames -> N!Inums \cup {N!None}]]
       /\ \A j \in N!Inums \ {d} : dent'[j] = dent[j]
       /\ \A m \in FileNames : dent'[d][m] = IF m = n /\ ok THEN i ELSE dent[d][m]
  <2>1. CASE ~ ok
    BY <1>0, <1>2, <2>1
  <2>2. CASE ok
    <3>1. /\ dent' = [dent EXCEPT ![d] = [dent[d] EXCEPT ![n] = i]]
          /\ [dent[d] EXCEPT ![n] = i] \in [FileNames -> N!Inums \cup {N!None}]
      BY <1>0, <1>2, <1>4, <1>5, <2>2
    <3>. QED BY <1>0, <1>4, <2>2, <3>1
  <2>. QED BY <2>1, <2>2
<1>16. InodesInv'
  <2>1. InodeTypes'
    BY <1>0, <1>7, <1>10, <1>11, <1>12, <1>13, <1>14, <1>15 DEF InodeTypes, N!Inums, N!None
  <2>2. DirInv'
    <3>1. ASSUME NEW j \in N!Inums
          PROVE  /\ type'[j] # "T_DIR" => dent'[j] = N!NoNames
                 /\ type'[j] = "T_DIR" => dotdot'[j] # N!None
      <4>1. CASE j = i
        BY <1>5, <1>10, <1>11, <1>15, <4>1
      <4>2. CASE j # i
        <5>1. type'[j] = type[j] /\ dotdot'[j] = dotdot[j] /\ (j # d => dent'[j] = dent[j])
          BY <1>10, <1>11, <1>15, <4>2
        <5>. QED BY <1>0, <1>4, <5>1 DEF DirInv
      <4>. QED BY <4>1, <4>2
    <3>. QED BY <3>1 DEF DirInv, N!Inums, N!None, N!NoNames
  <2>3. EntryOK(type', nlink', valid')
    <3>1. \A j \in N!Inums \ {i} : nlink'[j] = 0 => nlink[j] = 0
      BY <1>0, <1>4, <1>14
    <3>2. \A j \in N!Inums \ {i} : nlink[j] = 0 => nlink'[j] = 0 \/ j = d
      BY <1>14
    <3>3. iuse'[i] > 0 /\ \A j \in N!Inums \ {i} : iuse'[j] = iuse[j]
      BY <1>5, <1>13
    <3>. QED BY <1>0, <1>4, <1>5, <1>10, <1>12, <3>1, <3>2, <3>3 DEF EntryOK
  <2>. QED BY <2>1, <2>2, <2>3 DEF InodesInv, EntryOK, N!Inums
<1>17. LinkInv'
  <2>1. ASSUME NEW j \in N!Inums, NEW m \in FileNames, ~ (j = d /\ m = n)
        PROVE  /\ dent'[j][m] = dent[j][m]
               /\ dent[j][m] # N!None => type'[dent[j][m]] = type[dent[j][m]]
    <3>1. <<j, m>> \notin NamesOf(i)
      BY <1>5
    <3>2. dent[j][m] # i
      BY <3>1 DEF NamesOf
    <3>3. dent[j][m] # N!None => dent[j][m] \in N!Inums
      BY <1>0
    <3>. QED BY <1>10, <1>15, <2>1, <3>2, <3>3
  <2>2. \A j \in N!Inums : Owes(p, j)' = 0 /\ Owes(p, j) = 0
    BY <1>3, <1>8 DEF Owes, OwedPCs
  <2>3. dent[d][n] = N!None /\ dent'[d][n] = IF ok THEN i ELSE N!None
    BY <1>4, <1>15
  <2>4. /\ \A j \in N!Inums : Hit(N!None, j) = 0 /\ nlink[j] \in Nat
        /\ \A j \in N!Inums \ {i} : Hit(i, j) = 0
        /\ Hit(i, i) = 1
    BY <1>0, FewNames DEF Hit
  <2>5. IsSub(d, n)' = (IF ok /\ t = "T_DIR" THEN 1 ELSE 0) /\ IsSub(d, n) = 0
    BY <1>5, <1>10, <2>3 DEF IsSub, N!None
  <2>6. ASSUME NEW j \in N!Inums
        PROVE  /\ nlink'[j] \in Nat
               /\ nlink'[j] >= nlink[j] + Hit(dent'[d][n], j) - Hit(dent[d][n], j)
                               + (IF j = d THEN IsSub(d, n)' - IsSub(d, n) ELSE 0) + Owes(p, j)' - Owes(p, j)
    <3>1. /\ Hit(dent[d][n], j) = 0 /\ Hit(dent'[d][n], j) = (IF ok /\ j = i THEN 1 ELSE 0)
          /\ Owes(p, j)' = 0 /\ Owes(p, j) = 0 /\ nlink[j] \in Nat /\ nlink'[j] \in Nat
      BY <1>14, <2>2, <2>3, <2>4
    <3>2. nlink'[j] = IF j = i THEN (IF ok THEN 1 ELSE 0)
                      ELSE nlink[j] + (IF j = d /\ ok /\ t = "T_DIR" THEN 1 ELSE 0)
      BY <1>5, <1>14, <3>1
    <3>. QED BY <1>5, <2>5, <3>1, <3>2
  <2>. QED BY <1>4, <1>9, <2>1, <2>6, EntryStep
<1>18. \A j \in N!Inums : iuse'[j] = iuse[j] + Mine(p, j)' - Mine(p, j)
  <2>1. ASSUME NEW j \in N!Inums
        PROVE  /\ Mine(p, j)' = Mine(p, j) + (IF j = i THEN 1 ELSE 0)
               /\ Mine(p, j) \in Nat /\ Mine(p, j)' \in Nat
    BY <1>3, <1>8 DEF Mine, IpPCs, DpPCs
  <2>. HIDE DEF Mine
  <2>. QED BY <1>13, <2>1
<1>19. Kept /\ EntriesKept(p)
  BY <1>5, <1>6, <1>10, <1>12, <1>15 DEF Kept, EntriesKept
<1>20. ASSUME UseInv'
       PROVE  CallInv(p)'
  <2>1. CallType(p)'
    BY <1>0, <1>4, <1>5, <1>8 DEF CallType, IpPCs, DpPCs, LastPCs, CreatePCs, N!Inums, N!None, Ups, NoDotDot
  <2>2. /\ cwd[p] \in N!Inums /\ cwd[p] # i /\ (file[p] # N!None => file[p] \in N!Inums /\ file[p] # i)
    BY <1>0, <1>5 DEF CallType, SureInv
  <2>3. /\ type'[cwd[p]] # "free" /\ (file[p] # N!None => type'[file[p]] # "free")
        /\ type'[i] # "free" /\ valid'[i] /\ type'[d] = "T_DIR" /\ valid'[d]
    BY <1>0, <1>4, <1>5, <1>10, <1>12, <2>2 DEF SureInv
  <2>4. SureInv(p)'
    BY <1>8, <2>3 DEF SureInv, LinkPCs, N!None, NoDotDot
  <2>5. HoldInv(p)'
    BY <1>5, <1>7, <1>8 DEF HoldInv
  <2>. QED BY <2>1, <2>4, <2>5 DEF CallInv
<1>21. NewlyHeld(p)
  BY <1>8 DEF NewlyHeld
<1>. QED BY <1>2, <1>21, <1>7, <1>9, <1>16, <1>17, <1>18, <1>19, <1>20, StepGood
-----------------------------------------------------------------------------
(* Every step                                                              *)

\* A step keeps the invariant, unless ilock() panics at the end of a "..".
GoodNext == NamesGood' \/ (Panicked' /\ ~ NoDotDot)

LEMMA NoTypePanics ==
  ASSUME N!NamesAssumption, NamesGood, NEW p \in NameProcs, NEW i, N!IlockPanics(p, i),
         \/ i = ip[p] /\ npc[p] \in IpPCs
         \/ i = dp[p] /\ npc[p] \in DpPCs
  PROVE  GoodNext
<1>1. npc' = [npc EXCEPT ![p] = "panic"] /\ type[i] = "free"
  BY DEF N!IlockPanics, N!GoTo, N!NoType
<1>2. Panicked'
  BY <1>1, GoodFacts DEF CallTypes, Panicked
<1>3. ~ NoDotDot
  BY <1>1, GoodFacts DEF SureInv
<1>. QED BY <1>2, <1>3 DEF GoodNext

LEMMA WalkGood ==
  ASSUME N!NamesAssumption, NamesGood, NEW p \in NameProcs, put[p] = N!None, N!Walk(p) \/ N!WalkParent(p), UNCHANGED calls
  PROVE  GoodNext
<1>1. npc[p] \in {"walk", "walk_to"}
  BY DEF N!Walk, N!WalkParent
<1>2. \/ N!Reached(p) = ip[p] /\ npc[p] \in IpPCs
      \/ N!Reached(p) = dp[p] /\ npc[p] \in DpPCs
  BY <1>1 DEF N!Reached, IpPCs, DpPCs
<1>3. CASE N!IlockPanics(p, N!Reached(p))
  BY <1>2, <1>3, NoTypePanics
<1>4. CASE N!Walk(p) /\ ~ N!IlockPanics(p, N!Reached(p))
  <2>1. CASE type[N!Reached(p)] = "T_DIR" /\ N!dirlookup(N!Reached(p), Head(path[p])) # N!None
    BY <1>4, <2>1, WalkOn DEF N!Walk, N!inode, GoodNext
  <2>2. CASE ~ (type[N!Reached(p)] = "T_DIR" /\ N!dirlookup(N!Reached(p), Head(path[p])) # N!None)
    BY <1>4, <2>2, WalkEnds DEF N!Walk, GoodNext
  <2>. QED BY <2>1, <2>2
<1>5. CASE N!WalkParent(p) /\ ~ N!IlockPanics(p, N!Reached(p))
  <2>1. CASE type[N!Reached(p)] = "T_DIR"
    BY <1>5, <2>1, ParentFound DEF N!WalkParent, N!inode, GoodNext
  <2>2. CASE type[N!Reached(p)] # "T_DIR"
    BY <1>5, <2>2, WalkEnds DEF N!WalkParent, GoodNext
  <2>. QED BY <2>1, <2>2
<1>. QED BY <1>3, <1>4, <1>5

LEMMA OpensGood ==
  ASSUME N!NamesAssumption, NamesGood, NEW p \in NameProcs, put[p] = N!None, UNCHANGED calls,
         (\E ok \in BOOLEAN : N!sys_open(p, ok)) \/ N!sys_close(p) \/ N!sys_chdir(p)
  PROVE  GoodNext
<1>1. ASSUME NEW ok \in BOOLEAN, N!sys_open(p, ok)
      PROVE  GoodNext
  <2>1. npc[p] = "walk" /\ npc[p] \in IpPCs \ DpPCs /\ call[p].op = "open"
    BY <1>1 DEF N!sys_open, N!AtEnd, IpPCs, DpPCs
  <2>2. CASE N!IlockPanics(p, ip[p])
    BY <2>1, <2>2, NoTypePanics
  <2>3. CASE ~ N!IlockPanics(p, ip[p]) /\ ok
    BY <1>1, <2>1, <2>3, OpenGood DEF N!sys_open, N!Opened, N!inode, GoodNext
  <2>4. CASE ~ N!IlockPanics(p, ip[p]) /\ ~ ok
    BY <1>1, <2>1, <2>4, FoundPut DEF N!sys_open, N!Opened, GoodNext
  <2>. QED BY <2>2, <2>3, <2>4
<1>2. CASE N!sys_close(p)
  BY <1>2, CloseGood DEF GoodNext
<1>3. CASE N!sys_chdir(p)
  <2>1. npc[p] = "walk" /\ npc[p] \in IpPCs \ DpPCs
    BY <1>3 DEF N!sys_chdir, N!AtEnd, IpPCs, DpPCs
  <2>2. CASE N!IlockPanics(p, ip[p])
    BY <2>1, <2>2, NoTypePanics
  <2>3. CASE ~ N!IlockPanics(p, ip[p]) /\ type[ip[p]] = "T_DIR"
    BY <1>3, <2>1, <2>3, ChdirGood DEF N!sys_chdir, N!inode, GoodNext
  <2>4. CASE ~ N!IlockPanics(p, ip[p]) /\ type[ip[p]] # "T_DIR"
    BY <1>3, <2>1, <2>4, FoundPut DEF N!sys_chdir, GoodNext
  <2>. QED BY <2>2, <2>3, <2>4
<1>. QED BY <1>1, <1>2, <1>3

LEMMA CreatesGood ==
  ASSUME N!NamesAssumption, NamesGood, NEW p \in NameProcs, put[p] = N!None, UNCHANGED calls,
         \/ N!ParentLock(p) \/ N!CreateExists(p) \/ N!CreateFull(p)
         \/ \E ok \in BOOLEAN : N!CreateFound(p, ok) \/ N!CreateNew(p, ok) \/ N!Created(p, ok)
         \/ N!CreatePut(p) \/ N!CreateFail(p) \/ N!Bad(p)
  PROVE  GoodNext
<1>1. CASE N!ParentLock(p)
  <2>1. npc[p] = "parent" /\ npc[p] \in DpPCs
    BY <1>1 DEF N!ParentLock, DpPCs
  <2>2. CASE N!IlockPanics(p, dp[p])
    BY <2>1, <2>2, NoTypePanics
  <2>3. CASE ~ N!IlockPanics(p, dp[p])
    BY <1>1, <2>1, <2>3, ParentLocked DEF N!ParentLock, GoodNext
  <2>. QED BY <2>2, <2>3
<1>2. CASE N!CreateExists(p)
  BY <1>2, ExistsFound DEF GoodNext
<1>3. ASSUME NEW ok \in BOOLEAN, N!CreateFound(p, ok)
      PROVE  GoodNext
  <2>1. npc[p] = "create_found" /\ npc[p] \in IpPCs \ DpPCs /\ npc[p] \in CreatePCs
    BY <1>3 DEF N!CreateFound, IpPCs, DpPCs, CreatePCs
  <2>2. CASE N!IlockPanics(p, ip[p])
    BY <2>1, <2>2, NoTypePanics
  <2>3. CASE ~ N!IlockPanics(p, ip[p]) /\ ok /\ N!NewType(p) = "T_FILE" /\ type[ip[p]] = "T_FILE"
    <3>1. call[p].op \in {"open", "creat"}
      BY <2>1, <2>3, GoodFacts DEF CallType, N!NewType
    <3>. QED BY <1>3, <2>1, <2>3, <3>1, OpenGood DEF N!CreateFound, N!Opened, N!inode, GoodNext
  <2>4. CASE ~ N!IlockPanics(p, ip[p]) /\ ~ (ok /\ N!NewType(p) = "T_FILE" /\ type[ip[p]] = "T_FILE")
    BY <1>3, <2>1, <2>4, FoundPut DEF N!CreateFound, N!Opened, GoodNext
  <2>. QED BY <2>2, <2>3, <2>4
<1>4. CASE N!CreateFull(p)
  <2>1. npc[p] \in DpLocked \ IpPCs
    BY <1>4 DEF N!CreateFull, DpLocked, DpPCs, IpPCs
  <2>. QED BY <1>4, <2>1, DpPut DEF N!CreateFull, GoodNext
<1>5. ASSUME NEW ok \in BOOLEAN, N!CreateNew(p, ok)
      PROVE  GoodNext
  BY <1>5, NewMade DEF GoodNext
<1>6. CASE N!CreatePut(p)
  <2>1. /\ npc[p] \in DpLocked \cap IpSure /\ "created" \in IpSure \ DpPCs /\ npc[p] \in IpLocked
        /\ "created" \notin LinkPCs /\ "created" \notin OwedPCs
    BY <1>6 DEF N!CreatePut, DpLocked, DpPCs, IpPCs, IpSure, IpLocked, LinkPCs, OwedPCs
  <2>. QED BY <1>6, <2>1, DpPutOn DEF N!CreatePut, GoodNext
<1>7. ASSUME NEW ok \in BOOLEAN, N!Created(p, ok)
      PROVE  GoodNext
  BY <1>7, CreatedGood DEF GoodNext
<1>8. CASE N!CreateFail(p)
  <2>1. npc[p] \in IpPCs \cap DpLocked /\ npc[p] \in IpLocked
    BY <1>8 DEF N!CreateFail, DpLocked, DpPCs, IpPCs, IpLocked
  <2>2. Reads /\ valid'[ip[p]] /\ iuse' = iuse
    BY <1>8, GoodFacts, ReadsNothing DEF N!CreateFail, N!entry, SureInv, IpSure, IpPCs
  <2>. QED BY <1>8, <2>1, <2>2, IpPutBad DEF N!CreateFail, GoodNext
<1>9. CASE N!Bad(p)
  <2>1. npc[p] \in DpLocked \ IpPCs
    BY <1>9 DEF N!Bad, DpLocked, DpPCs, IpPCs
  <2>. QED BY <1>9, <2>1, DpPut DEF N!Bad, GoodNext
<1>. QED BY <1>1, <1>2, <1>3, <1>4, <1>5, <1>6, <1>7, <1>8, <1>9

\* unlink() finds a link to count down: its panic "nlink < 1" is never reached.
LEMMA UnlinkCounted ==
  ASSUME N!NamesAssumption, NamesGood, NEW p \in NameProcs, npc[p] = "unlink_ip"
  PROVE  nlink[ip[p]] \in Nat /\ nlink[ip[p]] >= 1
<1>1. path[p][1] \in FileNames /\ dent[dp[p]][path[p][1]] = ip[p] /\ dp[p] \in N!Inums /\ ip[p] \in N!Inums
  BY GoodFacts DEF HoldInv, CallType, DpPCs, IpPCs
<1>2. ip[p] # N!None /\ nlink[ip[p]] \in Nat
  BY <1>1, FewNames, GoodFacts DEF InodeTypes
<1>3. nlink[ip[p]] # 0
  BY <1>1, <1>2, Named
<1>. QED BY <1>2, <1>3

LEMMA UnlinksGood ==
  ASSUME N!NamesAssumption, NamesGood, NEW p \in NameProcs, put[p] = N!None, UNCHANGED calls,
         N!UnlinkLookup(p) \/ N!UnlinkEntry(p) \/ N!UnlinkPut(p) \/ N!UnlinkCount(p) \/ N!PutIp(p)
  PROVE  GoodNext
<1>1. CASE N!UnlinkLookup(p)
  BY <1>1, UnlinkLooks DEF GoodNext
<1>2. CASE N!UnlinkEntry(p)
  <2>1. npc[p] = "unlink_ip" /\ npc[p] \in IpPCs \cap DpLocked
    BY <1>2 DEF N!UnlinkEntry, IpPCs, DpPCs, DpLocked
  <2>2. nlink[ip[p]] \in Nat /\ nlink[ip[p]] >= 1 /\ ip[p] \in N!Inums
    BY <2>1, UnlinkCounted, GoodFacts DEF CallType
  <2>3. CASE N!IlockPanics(p, ip[p])
    BY <2>1, <2>3, NoTypePanics
  <2>4. CASE ~ N!IlockPanics(p, ip[p]) /\ type[ip[p]] = "T_DIR" /\ ~ N!isdirempty(ip[p])
    <3>1. /\ ~ N!NoType(ip[p]) /\ N!Iput(p, ip[p]) /\ valid' = N!Valid(ip[p]) /\ N!GoTo(p, "bad")
          /\ UNCHANGED N!inode /\ UNCHANGED <<iuse, ilock, cwd, file>> /\ UNCHANGED N!locals
      BY <1>2, <2>2, <2>4 DEF N!UnlinkEntry
    <3>2. Reads /\ valid'[ip[p]]
      BY <2>2, <3>1, ReadsOne
    <3>. QED BY <2>1, <3>1, <3>2, IpPutBad DEF GoodNext
  <2>5. CASE ~ N!IlockPanics(p, ip[p]) /\ (type[ip[p]] = "T_DIR" => N!isdirempty(ip[p]))
    BY <1>2, <2>1, <2>2, <2>5, EntryCleared DEF N!UnlinkEntry, GoodNext
  <2>. QED BY <2>3, <2>4, <2>5
<1>3. CASE N!UnlinkPut(p)
  <2>1. /\ npc[p] \in DpLocked \cap IpSure /\ "unlinked" \in IpSure \ DpPCs /\ npc[p] \in IpLocked
        /\ "unlinked" \notin LinkPCs /\ npc[p] \in OwedPCs
    BY <1>3 DEF N!UnlinkPut, DpLocked, DpPCs, IpPCs, IpSure, IpLocked, LinkPCs, OwedPCs
  <2>. QED BY <1>3, <2>1, DpPutOn DEF N!UnlinkPut, GoodNext
<1>4. CASE N!UnlinkCount(p)
  <2>1. /\ npc[p] = "unlinked" /\ ilock' = ilock /\ nlink' = [nlink EXCEPT ![ip[p]] = @ - 1] /\ N!GoTo(p, "put_ip")
        /\ UNCHANGED <<type, dent, dotdot, iuse, valid, cwd, file>> /\ UNCHANGED N!locals /\ UNCHANGED N!iputs
    BY <1>4 DEF N!UnlinkCount, N!entry
  <2>2. ilock[ip[p]] = p /\ ip[p] \in N!Inums /\ ilock \in [N!Inums -> NameProcs \cup {NoHolder}]
    BY <2>1, GoodFacts DEF HoldInv, IpLocked, CallType, IpPCs
  <2>3. ilock' = [ilock EXCEPT ![ip[p]] = p]
    BY <2>1, <2>2
  <2>. QED BY <2>1, <2>2, <2>3, CountedDown DEF GoodNext
<1>5. CASE N!PutIp(p)
  <2>1. npc[p] \in IpSure \ DpPCs /\ npc[p] \in IpLocked
    BY <1>5 DEF N!PutIp, IpPCs, IpSure, DpPCs, IpLocked
  <2>. QED BY <1>5, <2>1, IpPut DEF N!PutIp, GoodNext
<1>. QED BY <1>1, <1>2, <1>3, <1>4, <1>5

LEMMA LinksGood ==
  ASSUME N!NamesAssumption, NamesGood, NEW p \in NameProcs, put[p] = N!None, UNCHANGED calls,
         N!sys_link(p) \/ N!LinkEntry(p) \/ N!LinkPutParent(p) \/ N!LinkPut(p) \/ N!LinkBad(p)
  PROVE  GoodNext
<1>1. CASE N!sys_link(p)
  <2>1. npc[p] = "walk" /\ npc[p] \in IpPCs \ DpPCs /\ call[p].op = "link"
    BY <1>1 DEF N!sys_link, N!AtEnd, IpPCs, DpPCs
  <2>2. CASE N!IlockPanics(p, ip[p])
    BY <2>1, <2>2, NoTypePanics
  <2>3. CASE ~ N!IlockPanics(p, ip[p]) /\ type[ip[p]] = "T_DIR"
    BY <1>1, <2>1, <2>3, FoundPut DEF N!sys_link, GoodNext
  <2>4. CASE ~ N!IlockPanics(p, ip[p]) /\ type[ip[p]] # "T_DIR"
    BY <1>1, <2>1, <2>4, LinkCounts DEF N!sys_link, GoodNext
  <2>. QED BY <2>2, <2>3, <2>4
<1>2. CASE N!LinkEntry(p)
  <2>1. npc[p] = "link_parent" /\ npc[p] \in DpPCs /\ npc[p] \in IpSure /\ npc[p] \in LinkPCs /\ npc[p] \in IpPCs
    BY <1>2 DEF N!LinkEntry, DpPCs, IpPCs, IpSure, LinkPCs
  <2>2. CASE N!IlockPanics(p, dp[p])
    BY <2>1, <2>2, NoTypePanics
  <2>3. CASE /\ ~ N!NoType(dp[p]) /\ valid' = N!Valid(dp[p]) /\ N!Iput(p, dp[p]) /\ N!GoTo(p, "link_bad")
             /\ UNCHANGED N!inode /\ UNCHANGED <<iuse, ilock, cwd, file>> /\ UNCHANGED N!locals
    <3>1. npc' = [npc EXCEPT ![p] = "link_bad"] /\ UNCHANGED <<call, path, ip, dp>>
      BY <2>3 DEF N!GoTo, N!locals
    <3>2. Onwards(p, "link_bad")
      BY <2>1 DEF Onwards, IpPCs, DpPCs, LastPCs, CreatePCs, OwedPCs
    <3>3. npc'[p] = "link_bad"
      BY <2>3, <3>1, GoesOn
    <3>4. HoldInv(p)'
      BY <3>3 DEF HoldInv, IpLocked, DpLocked, DpPCs
    <3>5. "link_bad" \notin DpPCs /\ "link_bad" \in IpPCs /\ "link_bad" \notin DpSure
      BY DEF IpPCs, DpPCs, DpSure
    <3>6. dp[p] \in N!Inums
      BY <2>1, GoodFacts DEF CallType
    <3>7. Reads /\ valid'[dp[p]] /\ UNCHANGED <<type, nlink, dent, dotdot>>
      BY <2>3, <3>6, ReadsOne DEF N!inode
    <3>. QED BY <2>1, <2>3, <3>1, <3>2, <3>4, <3>5, <3>6, <3>7, LocksStay, PutGoes DEF GoodNext
  <2>4. CASE ~ N!IlockPanics(p, dp[p])
             /\ ~ (/\ ~ N!NoType(dp[p]) /\ valid' = N!Valid(dp[p]) /\ N!Iput(p, dp[p]) /\ N!GoTo(p, "link_bad")
                   /\ UNCHANGED N!inode /\ UNCHANGED <<iuse, ilock, cwd, file>> /\ UNCHANGED N!locals)
    BY <1>2, <2>1, <2>4, EntryMade DEF N!LinkEntry, GoodNext
  <2>. QED BY <2>2, <2>3, <2>4
<1>3. CASE N!LinkPutParent(p)
  <2>1. /\ npc[p] \in DpLocked \cap IpSure /\ "link_put" \in IpSure \ DpPCs /\ "link_put" \notin IpLocked
        /\ npc[p] \in LinkPCs /\ "link_put" \notin OwedPCs
    BY <1>3 DEF N!LinkPutParent, DpLocked, DpPCs, IpPCs, IpSure, IpLocked, LinkPCs, OwedPCs
  <2>. QED BY <1>3, <2>1, DpPutOn DEF N!LinkPutParent, GoodNext
<1>4. CASE N!LinkPut(p)
  <2>1. npc[p] \in IpSure \ DpPCs
    BY <1>4 DEF N!LinkPut, IpPCs, IpSure, DpPCs
  <2>. QED BY <1>4, <2>1, IpPut DEF N!LinkPut, GoodNext
<1>5. CASE N!LinkBad(p)
  BY <1>5, CountedDown DEF N!LinkBad, N!Unlocked, N!entry, GoodNext
<1>. QED BY <1>1, <1>2, <1>3, <1>4, <1>5

-----------------------------------------------------------------------------
(* iput()                                                                  *)

\* Who has the only reference to an inode.
LEMMA OnlyOne ==
  ASSUME N!NamesAssumption, NamesGood, NEW p \in NameProcs, put[p] # N!None, iuse[put[p]] = 1
  PROVE  \A q \in NameProcs : ~ (q # p /\ Refers(q, put[p])) /\ Mine(p, put[p]) = 0
<1>. SUFFICES ASSUME NEW q \in NameProcs
              PROVE  ~ (q # p /\ Refers(q, put[p])) /\ Mine(p, put[p]) = 0
  OBVIOUS
<1>1. put[p] \in N!Inums /\ UseInv
  BY DEF NamesGood, PutsInv, PutTypes, PutType
<1>2. /\ Total(put[p]) = 1 /\ Mine(p, put[p]) \in Nat /\ Total(put[p]) >= Mine(p, put[p]) + Hit(put[p], put[p])
  BY <1>1, HasOne DEF UseInv
<1>3. Hit(put[p], put[p]) = 1
  BY DEF Hit
<1>4. Mine(p, put[p]) = 0
  BY <1>2, <1>3
<1>5. ASSUME q # p, Refers(q, put[p])
      PROVE  FALSE
  <2>. DEFINE i == put[p]
  <2>1. Mine(q, i) + Hit(put[q], i) >= 1
    BY <1>5 DEF Refers, Mine, Hit
  <2>2. Total(i) >= Mine(q, i) + Hit(put[q], i) + 1
    BY <1>1, <1>5, TwoHave
  <2>. QED BY <1>1, <1>2, <2>1, <2>2, HasOne
<1>. QED BY <1>4, <1>5

LEMMA FreeGood ==
  ASSUME N!NamesAssumption, NamesGood, NEW p \in NameProcs, N!IputFree(p), UNCHANGED calls
  PROVE  NamesGood'
<1>. SUFFICES ASSUME NEW i, i = put[p]
              PROVE  NamesGood'
  OBVIOUS
<1>0. /\ InodeTypes /\ CallTypes /\ CallType(p) /\ SureInv(p) /\ HoldInv(p) /\ DirInv /\ LinkInv
      /\ EntryOK(type, nlink, valid) /\ PutTypes /\ PutSure(p) /\ PutType(p)
  BY GoodFacts DEF NamesGood, PutsInv, PutTypes
<1>1. /\ i # N!None /\ ~ ifreed[p] /\ iuse[i] = 1 /\ valid[i] /\ nlink[i] = 0 /\ ilock[i] = NoHolder
      /\ type' = [type EXCEPT ![i] = "free"] /\ dent' = [dent EXCEPT ![i] = N!NoNames]
      /\ dotdot' = [dotdot EXCEPT ![i] = N!None] /\ valid' = [valid EXCEPT ![i] = FALSE]
      /\ ifreed' = [ifreed EXCEPT ![p] = TRUE]
      /\ UNCHANGED <<nlink, iuse, ilock, cwd, file, npc, call, path, ip, dp, put>>
  BY DEF N!IputFree, N!Frees, N!locals
<1>2. i \in N!Inums /\ i # N!Root
  BY <1>0, <1>1, Linked DEF PutType
<1>3. Alone(p) /\ CallTypes' /\ PutsAlone(p) /\ PutTypes'
  <2>1. Alone(p) /\ CallTypes' /\ PutsAlone(p)
    BY <1>0, <1>1 DEF Alone, CallTypes, PutsAlone, PutTypes
  <2>2. \A q \in NameProcs : PutType(q)'
    BY <1>0, <1>1 DEF PutTypes, PutType, N!Inums, N!None
  <2>. QED BY <1>0, <1>1, <2>1, <2>2 DEF PutTypes
<1>4. \A j \in N!Inums : iuse'[j] = iuse[j] + Mine(p, j)' - Mine(p, j) + Hit(put'[p], j) - Hit(put[p], j)
  <2>1. \A j \in N!Inums : Mine(p, j)' = Mine(p, j) /\ Hit(put'[p], j) = Hit(put[p], j)
    BY <1>1 DEF Mine, Hit
  <2>2. \A j \in N!Inums : iuse'[j] = iuse[j] /\ iuse[j] \in Nat /\ Mine(p, j) \in Nat /\ Hit(put[p], j) \in Nat
    BY <1>0, <1>1, HasOne DEF InodeTypes
  <2>. HIDE DEF Mine, Hit
  <2>. QED BY <2>1, <2>2
<1>5. /\ type'[i] = "free" /\ dent'[i] = N!NoNames /\ dotdot'[i] = N!None /\ ~ valid'[i]
      /\ \A j \in N!Inums \ {i} : /\ type'[j] = type[j] /\ dent'[j] = dent[j] /\ dotdot'[j] = dotdot[j]
                                 /\ (valid'[j] <=> valid[j])
  BY <1>0, <1>1, <1>2 DEF InodeTypes
<1>6. N!NoNames \in [FileNames -> N!Inums \cup {N!None}] /\ \A n \in FileNames : N!NoNames[n] = N!None
  BY DEF N!NoNames
<1>7. InodesInv'
  <2>1. InodeTypes'
    BY <1>0, <1>1, <1>2, <1>6 DEF InodeTypes, N!Inums, N!None
  <2>2. DirInv'
    BY <1>0, <1>5 DEF DirInv, N!Inums, N!None, N!NoNames
  <2>3. EntryOK(type', nlink', valid')
    BY <1>0, <1>1, <1>5 DEF EntryOK
  <2>. QED BY <2>1, <2>2, <2>3 DEF InodesInv, EntryOK, N!Inums
<1>8. LinkInv'
  <2>1. Shrinks
    BY <1>0, <1>5, <1>6 DEF Shrinks
  <2>2. OwesNoMore(p)
    BY <1>1 DEF OwesNoMore
  <2>. QED BY <1>1, <1>3, <2>1, <2>2, PlainLinks
<1>9. LocksKept(p) /\ EntriesKept(p)
  BY <1>1, <1>5 DEF LocksKept, EntriesKept
<1>10. \A q \in NameProcs \ {p} : KeptFor(q)
  <2>1. \A q \in NameProcs \ {p} : ~ Refers(q, i)
    BY <1>1, OnlyOne
  <2>. QED BY <1>5, <2>1 DEF KeptFor
<1>11. /\ cwd[p] \in N!Inums \ {i} /\ (file[p] # N!None => file[p] \in N!Inums \ {i})
       /\ (npc[p] \in IpPCs => ip[p] \in N!Inums \ {i}) /\ (npc[p] \in DpPCs => dp[p] \in N!Inums \ {i})
  <2>1. Mine(p, i) = 0
    BY <1>1, OnlyOne
  <2>. QED BY <1>0, <2>1 DEF Mine, CallType
<1>12. /\ type'[cwd[p]] = type[cwd[p]] /\ (valid'[cwd[p]] <=> valid[cwd[p]])
       /\ file[p] # N!None => type'[file[p]] = type[file[p]] /\ (valid'[file[p]] <=> valid[file[p]])
       /\ npc[p] \in IpPCs => type'[ip[p]] = type[ip[p]] /\ (valid'[ip[p]] <=> valid[ip[p]])
       /\ npc[p] \in DpPCs => type'[dp[p]] = type[dp[p]] /\ (valid'[dp[p]] <=> valid[dp[p]]) /\ dent'[dp[p]] = dent[dp[p]]
  BY <1>5, <1>11
<1>13. CallInv(p)'
  <2>1. CallType(p)'
    BY <1>0, <1>1 DEF CallType, N!Inums, N!None, Ups, NoDotDot
  <2>2. IpSure \subseteq IpPCs /\ DpSure \subseteq DpPCs /\ LinkPCs \subseteq IpPCs /\ "unlink_ip" \in DpPCs
    BY DEF IpSure, DpSure, LinkPCs, IpPCs, DpPCs
  <2>3. SureInv(p)'
    BY <1>0, <1>1, <1>12, <2>2 DEF SureInv, N!None, NoDotDot
  <2>4. HoldInv(p)'
    BY <1>0, <1>1, <1>12, <2>2 DEF HoldInv
  <2>. QED BY <2>1, <2>3, <2>4 DEF CallInv
<1>14. PutSure(p)'
  <2>1. ifreed'[p]
    BY <1>0, <1>1 DEF PutTypes
  <2>. QED BY <1>0, <1>1, <1>12, <2>1 DEF PutSure, N!None, N!Root
<1>. QED BY <1>3, <1>4, <1>7, <1>8, <1>9, <1>10, <1>13, <1>14, StepAll

LEMMA DropGood ==
  ASSUME N!NamesAssumption, NamesGood, NEW p \in NameProcs, N!IputDrop(p), UNCHANGED calls
  PROVE  NamesGood'
<1>. SUFFICES ASSUME NEW i, i = put[p]
              PROVE  NamesGood'
  OBVIOUS
<1>0. /\ InodeTypes /\ CallTypes /\ CallType(p) /\ SureInv(p) /\ HoldInv(p) /\ DirInv /\ LinkInv
      /\ EntryOK(type, nlink, valid) /\ PutTypes /\ PutSure(p) /\ PutType(p) /\ UseInv /\ iuse \in [N!Inums -> Nat]
  BY GoodFacts DEF NamesGood, PutsInv, PutTypes
<1>1. /\ i # N!None /\ iuse' = [iuse EXCEPT ![i] = @ - 1]
      /\ put' = [put EXCEPT ![p] = N!None] /\ ifreed' = [ifreed EXCEPT ![p] = FALSE]
      /\ UNCHANGED <<type, nlink, dent, dotdot, valid, ilock, cwd, file, npc, call, path, ip, dp>>
  BY DEF N!IputDrop, N!locals, N!inode
<1>2. i \in N!Inums /\ iuse[i] > 0
  BY <1>0, <1>1, Referred DEF PutType, Refers
<1>3. put'[p] = N!None /\ ~ ifreed'[p]
  BY <1>0, <1>1 DEF PutTypes
<1>4. Alone(p) /\ CallTypes' /\ PutsAlone(p) /\ PutTypes'
  <2>1. Alone(p) /\ CallTypes' /\ PutsAlone(p)
    BY <1>0, <1>1 DEF Alone, CallTypes, PutsAlone, PutTypes
  <2>2. \A q \in NameProcs : PutType(q)'
    BY <1>0, <1>1 DEF PutTypes, PutType, N!Inums, N!None
  <2>. QED BY <1>0, <1>1, <2>1, <2>2 DEF PutTypes
<1>5. /\ iuse' \in [N!Inums -> Nat]
      /\ \A j \in N!Inums : iuse[j] \in Nat /\ iuse'[j] = IF j = i THEN iuse[j] - 1 ELSE iuse[j]
  BY <1>0, <1>1, <1>2
<1>6. \A j \in N!Inums : iuse'[j] = iuse[j] + Mine(p, j)' - Mine(p, j) + Hit(put'[p], j) - Hit(put[p], j)
  <2>1. \A j \in N!Inums : /\ Mine(p, j)' = Mine(p, j) /\ Hit(put'[p], j) = 0
                           /\ Hit(put[p], j) = (IF j = i THEN 1 ELSE 0)
    BY <1>1, <1>3, FewNames DEF Mine, Hit
  <2>2. \A j \in N!Inums : Mine(p, j) \in Nat
    BY HasOne
  <2>. HIDE DEF Mine, Hit
  <2>. QED BY <1>5, <2>1, <2>2
<1>7. Stays /\ OwesNoMore(p) /\ LocksKept(p) /\ NewlyHeld(p)
  BY <1>0, <1>1, <1>5 DEF Stays, OwesNoMore, LocksKept, NewlyHeld, InodeTypes
<1>8. InodesInv' /\ Kept /\ EntriesKept(p) /\ LinkInv'
  BY <1>4, <1>7, StaysGood
<1>9. CallInv(p)'
  <2>1. CallType(p)'
    BY <1>0, <1>1 DEF CallType, N!Inums, N!None, Ups, NoDotDot
  <2>2. SureInv(p)'
    BY <1>0, <1>1 DEF SureInv, N!None, NoDotDot
  <2>3. HoldInv(p)'
    BY <1>0, <1>1 DEF HoldInv
  <2>. QED BY <2>1, <2>2, <2>3 DEF CallInv
<1>10. PutSure(p)'
  BY <1>0, <1>1, <1>3 DEF PutSure, N!None, N!Root
<1>11. UseInv' => \A q \in NameProcs \ {p} : KeptFor(q)
  BY <1>4, <1>8, KeptForOthers
<1>. QED BY <1>4, <1>6, <1>7, <1>8, <1>9, <1>10, <1>11, StepAll

LEMMA NextGood ==
  ASSUME N!NamesAssumption, NamesGood, N!Next
  PROVE  GoodNext
<1>1. UNCHANGED calls
  BY DEF N!Next
<1>2. PICK p \in NameProcs : (put[p] = N!None /\ N!Step(p)) \/ N!IputFree(p) \/ N!IputDrop(p)
  BY DEF N!Next
<1>3. CASE put[p] = N!None /\ N!Step(p)
  <2>1. CASE \E c \in calls : N!Start(p, c)
    BY <1>1, <1>3, <2>1, StayStart DEF GoodNext
  <2>. QED BY <1>1, <1>3, <2>1, WalkGood, OpensGood, CreatesGood, UnlinksGood, LinksGood DEF N!Step
<1>. QED BY <1>1, <1>2, <1>3, FreeGood, DropGood DEF GoodNext
-----------------------------------------------------------------------------
(* The specification                                                       *)

LEMMA NobodyHas ==
  ASSUME NEW f, NEW i, \A p \in NameProcs : f[p] # i
  PROVE  Count(f, i) = 0
<1>1. {p \in NameProcs : f[p] = i} = {}
  OBVIOUS
<1>. QED BY <1>1, FS_EmptySet DEF Count

LEMMA InitGood ==
  ASSUME N!NamesAssumption, N!Init
  PROVE  NamesGood
<1>0. N!Root \in N!Inums /\ N!None \notin N!Inums /\ NInodes \in Nat \ {0} /\ IsFiniteSet(NameProcs)
  BY FewNames DEF N!NamesAssumption
<1>1. /\ calls \in Workloads
      /\ type = [i \in N!Inums |-> IF i = N!Root THEN "T_DIR" ELSE "free"]
      /\ nlink = [i \in N!Inums |-> IF i = N!Root THEN 1 ELSE 0]
      /\ dent = [i \in N!Inums |-> N!NoNames]
      /\ dotdot = [i \in N!Inums |-> IF i = N!Root THEN N!Root ELSE N!None]
      /\ iuse = [i \in N!Inums |-> IF i = N!Root THEN Cardinality(NameProcs) ELSE 0]
      /\ valid = [i \in N!Inums |-> FALSE]
      /\ ilock = [i \in N!Inums |-> NoHolder]
      /\ cwd = [p \in NameProcs |-> N!Root] /\ file = [p \in NameProcs |-> N!None]
      /\ npc = [p \in NameProcs |-> "idle"]
      /\ put = [p \in NameProcs |-> N!None] /\ ifreed = [p \in NameProcs |-> FALSE]
      /\ call = [p \in NameProcs |-> N!NoCall] /\ path = [p \in NameProcs |-> <<>>]
      /\ ip = [p \in NameProcs |-> N!None] /\ dp = [p \in NameProcs |-> N!None]
  BY SameSize DEF N!Init
<1>2. N!NoNames \in [FileNames -> N!Inums \cup {N!None}]
  BY DEF N!NoNames
<1>3. Cardinality(NameProcs) \in Nat
  BY <1>0, FS_CardinalityType
<1>4. InodeTypes
  BY <1>0, <1>1, <1>2, <1>3 DEF InodeTypes
<1>5. EntryOK(type, nlink, valid)
  BY <1>1 DEF EntryOK
<1>6. DirInv
  BY <1>0, <1>1 DEF DirInv
<1>7. CallTypes
  BY <1>1 DEF CallTypes
<1>8. UseInv
  <2>1. ASSUME NEW i \in N!Inums
        PROVE  Count(file, i) = 0 /\ Count(IpHeld, i) = 0 /\ Count(DpHeld, i) = 0 /\ Count(put, i) = 0
    <3>1. \A p \in NameProcs : file[p] # i /\ IpHeld[p] # i /\ DpHeld[p] # i /\ put[p] # i
      BY <1>0, <1>1 DEF IpHeld, DpHeld, IpPCs, DpPCs
    <3>. QED BY <3>1, NobodyHas
  <2>2. Count(cwd, N!Root) = Cardinality(NameProcs)
    <3>1. {p \in NameProcs : cwd[p] = N!Root} = NameProcs
      BY <1>1
    <3>. QED BY <3>1 DEF Count
  <2>3. \A i \in N!Inums \ {N!Root} : Count(cwd, i) = 0
    BY <1>1, NobodyHas
  <2>4. \A i \in N!Inums : iuse[i] = IF i = N!Root THEN Cardinality(NameProcs) ELSE 0
    BY <1>1
  <2>5. \A i \in N!Inums : Total(i) = Count(cwd, i) + Count(file, i) + Count(IpHeld, i) + Count(DpHeld, i) + Count(put, i)
    BY DEF Total
  <2>6. ASSUME NEW i \in N!Inums
        PROVE  iuse[i] = Total(i)
    <3>1. iuse[i] = Count(cwd, i) /\ Count(cwd, i) \in Nat
      BY <1>3, <2>2, <2>3, <2>4
    <3>. QED BY <2>1, <2>5, <3>1
  <2>. QED BY <2>6 DEF UseInv
<1>9. LinkInv
  <2>1. ASSUME NEW i \in N!Inums
        PROVE  nlink[i] >= (IF i = N!Root THEN 1 ELSE 0) + Cardinality(NamesOf(i)) + Cardinality(Subdirs(i))
                           + Cardinality(Owed(i))
    <3>1. NamesOf(i) = {} /\ Subdirs(i) = {} /\ Owed(i) = {}
      <4>1. \A x \in N!Inums \X FileNames : dent[x[1]][x[2]] = N!None
        BY <1>1 DEF N!NoNames
      <4>2. \A n \in FileNames : dent[i][n] = N!None
        BY <1>1 DEF N!NoNames
      <4>. QED BY <1>0, <1>1, <4>1, <4>2 DEF NamesOf, Subdirs, Owed, OwedPCs
    <3>2. Cardinality({}) = 0
      BY FS_EmptySet
    <3>3. nlink[i] = IF i = N!Root THEN 1 ELSE 0
      BY <1>1
    <3>. QED BY <3>1, <3>2, <3>3
  <2>. QED BY <2>1 DEF LinkInv
<1>10. ASSUME NEW p \in NameProcs
       PROVE  CallInv(p)
  <2>1. /\ npc[p] = "idle" /\ cwd[p] = N!Root /\ file[p] = N!None /\ ip[p] = N!None /\ dp[p] = N!None
        /\ path[p] = <<>> /\ call[p] = N!NoCall /\ type[N!Root] # "free"
    BY <1>0, <1>1
  <2>2. N!NoCall.op = "none" /\ <<>> \in Seq(FileNames \cup Ups)
    BY DEF N!NoCall
  <2>3. CallType(p)
    BY <1>0, <2>1, <2>2 DEF CallType, IpPCs, DpPCs, LastPCs, CreatePCs
  <2>4. SureInv(p) /\ HoldInv(p)
    BY <2>1 DEF SureInv, HoldInv, IpSure, DpSure, IpPCs, DpPCs, LinkPCs, IpLocked, DpLocked
  <2>. QED BY <2>3, <2>4 DEF CallInv
<1>11. PutsInv
  BY <1>1 DEF PutsInv, PutTypes, PutType, PutSure
<1>. QED BY <1>4, <1>5, <1>6, <1>7, <1>8, <1>9, <1>10, <1>11 DEF NamesGood, InodesInv

LEMMA StutterGood ==
  ASSUME NamesGood, UNCHANGED N!vars
  PROVE  NamesGood'
<1>1. /\ UNCHANGED <<type, nlink, dent, dotdot, iuse, valid, ilock, cwd, file, npc, calls>>
      /\ UNCHANGED <<call, path, ip, dp, put, ifreed>>
  BY DEF N!vars, N!inode, N!entry, N!locals, N!iputs
<1>2. InodesInv' /\ CallTypes'
  BY <1>1 DEF NamesGood, InodesInv, InodeTypes, EntryOK, DirInv, CallTypes, N!Inums, N!None, N!NoNames
<1>3. UseInv'
  <2>1. \A i : Total(i)' = Total(i)
    BY <1>1 DEF Total, Count, IpHeld, DpHeld, N!None
  <2>. QED BY <1>1, <2>1 DEF NamesGood, UseInv, N!Inums
<1>4. LinkInv'
  <2>1. \A i : NamesOf(i)' = NamesOf(i) /\ Subdirs(i)' = Subdirs(i) /\ Owed(i)' = Owed(i)
    BY <1>1 DEF NamesOf, Subdirs, Owed, N!Inums, N!None
  <2>. QED BY <1>1, <2>1 DEF NamesGood, LinkInv, N!Inums, N!Root
<1>5. ASSUME NEW p \in NameProcs
      PROVE  CallInv(p)'
  <2>1. CallType(p) /\ SureInv(p) /\ HoldInv(p)
    BY DEF NamesGood, CallInv
  <2>2. CallType(p)'
    BY <1>1, <2>1 DEF CallType, N!Inums, N!None, Ups, NoDotDot
  <2>3. SureInv(p)'
    BY <1>1, <2>1 DEF SureInv, N!None, NoDotDot
  <2>4. HoldInv(p)'
    BY <1>1, <2>1 DEF HoldInv
  <2>. QED BY <2>2, <2>3, <2>4 DEF CallInv
<1>6. PutsInv'
  BY <1>1 DEF NamesGood, PutsInv, PutTypes, PutType, PutSure, N!Inums, N!None, N!Root
<1>. QED BY <1>2, <1>3, <1>4, <1>5, <1>6 DEF NamesGood

LEMMA NobodyPanicked ==
  ASSUME NamesGood
  PROVE  ~ Panicked
  BY DEF NamesGood, CallInv, CallType, Panicked, IpPCs, DpPCs

-----------------------------------------------------------------------------
(* Who changes what                                                        *)

\* A step changes at most p's value.
Changed(f, g, p) == g = f \/ \E x : g = [f EXCEPT ![p] = x]

StepOf(p) ==
    /\ (npc[p] = "panic" => npc' = npc) /\ Changed(npc, npc', p) /\ Changed(cwd, cwd', p) /\ Changed(file, file', p)
    /\ Changed(ip, ip', p) /\ Changed(dp, dp', p) /\ Changed(put, put', p) /\ Changed(ifreed, ifreed', p)

LEMMA ChangedOn ==
  ASSUME NEW f, NEW g, NEW p, OnProcs(f), Changed(f, g, p)
  PROVE  OnProcs(g) /\ \A q \in NameProcs \ {p} : g[q] = f[q]
<1>1. CASE g = f
  BY <1>1
<1>2. CASE \E x : g = [f EXCEPT ![p] = x]
  <2>1. PICK x : g = [f EXCEPT ![p] = x]
    BY <1>2
  <2>2. DOMAIN f = NameProcs
    BY DEF OnProcs
  <2>. QED BY <2>1, <2>2 DEF OnProcs
<1>. QED BY <1>1, <1>2 DEF Changed

LEMMA NextSteps ==
  ASSUME N!Next
  PROVE  \E p \in NameProcs : StepOf(p)
<1>1. PICK p \in NameProcs : (put[p] = N!None /\ N!Step(p)) \/ N!IputFree(p) \/ N!IputDrop(p)
  BY DEF N!Next
<1>2. /\ \A l : N!GoTo(p, l) => Changed(npc, npc', p)
      /\ N!Return(p) => Changed(npc, npc', p) /\ Changed(ip, ip', p) /\ Changed(dp, dp', p)
      /\ UNCHANGED N!locals => Changed(ip, ip', p) /\ Changed(dp, dp', p)
      /\ UNCHANGED N!iputs => Changed(put, put', p) /\ Changed(ifreed, ifreed', p)
      /\ \A i : N!Iput(p, i) => Changed(put, put', p) /\ Changed(ifreed, ifreed', p)
      /\ N!PutParent(p) => Changed(put, put', p) /\ Changed(ifreed, ifreed', p)
      /\ \A ok : N!Opened(p, ok) => /\ Changed(put, put', p) /\ Changed(ifreed, ifreed', p)
                                    /\ Changed(file, file', p)
      /\ \A i : N!IlockPanics(p, i) => /\ Changed(npc, npc', p) /\ Changed(ip, ip', p) /\ Changed(dp, dp', p)
                                       /\ Changed(cwd, cwd', p) /\ Changed(file, file', p)
                                       /\ Changed(put, put', p) /\ Changed(ifreed, ifreed', p)
      /\ \A f : Changed(f, f, p)
      /\ \A f, g, x : g = [f EXCEPT ![p] = x] => Changed(f, g, p)
  BY Zenon DEF N!GoTo, N!Return, N!locals, N!iputs, N!Iput, N!PutParent, N!Opened, N!IlockPanics, Changed
<1>. HIDE DEF Changed
<1>3. CASE N!Step(p)
  <2>1. CASE (\E c \in calls : N!Start(p, c)) \/ N!Walk(p) \/ N!WalkParent(p)
    BY <1>2, <2>1 DEF N!Start, N!Walk, N!WalkParent, StepOf
  <2>2. CASE N!sys_close(p) \/ N!sys_chdir(p) \/ \E ok \in BOOLEAN : N!sys_open(p, ok)
    BY <1>2, <2>2 DEF N!sys_open, N!sys_close, N!sys_chdir, N!AtEnd, StepOf
  <2>3. CASE \/ N!ParentLock(p) \/ N!CreateExists(p) \/ N!CreateFull(p)
             \/ \E ok \in BOOLEAN : N!CreateFound(p, ok) \/ N!CreateNew(p, ok)
    BY <1>2, <2>3 DEF N!ParentLock, N!CreateExists, N!CreateFound, N!CreateFull, N!CreateNew, StepOf
  <2>4. CASE N!CreatePut(p) \/ (\E ok \in BOOLEAN : N!Created(p, ok)) \/ N!CreateFail(p) \/ N!Bad(p)
    BY <1>2, <2>4 DEF N!CreatePut, N!Created, N!CreateFail, N!Bad, StepOf
  <2>5. CASE N!UnlinkLookup(p) \/ N!UnlinkEntry(p) \/ N!UnlinkPut(p) \/ N!UnlinkCount(p) \/ N!PutIp(p)
    BY <1>2, <2>5 DEF N!UnlinkLookup, N!UnlinkEntry, N!UnlinkPut, N!UnlinkCount, N!PutIp, StepOf
  <2>6. CASE N!sys_link(p) \/ N!LinkEntry(p) \/ N!LinkPutParent(p) \/ N!LinkPut(p) \/ N!LinkBad(p)
    BY <1>2, <2>6 DEF N!sys_link, N!LinkEntry, N!LinkPutParent, N!LinkPut, N!LinkBad, N!AtEnd, StepOf
  <2>. QED BY <1>3, <2>1, <2>2, <2>3, <2>4, <2>5, <2>6 DEF N!Step
<1>4. CASE N!IputFree(p) \/ N!IputDrop(p)
  BY <1>2, <1>4 DEF N!IputFree, N!IputDrop, StepOf
<1>. QED BY <1>1, <1>3, <1>4

LEMMA FunctionsKept ==
  ASSUME Functions, [N!Next]_(N!vars)
  PROVE  Functions' /\ (Panicked => Panicked')
<1>1. CASE UNCHANGED N!vars
  <2>1. UNCHANGED <<cwd, file, npc, ip, dp, put, ifreed>>
    BY <1>1 DEF N!vars, N!locals, N!iputs
  <2>. QED BY <2>1 DEF Functions, OnProcs, Panicked
<1>2. CASE N!Next
  <2>1. PICK p \in NameProcs : StepOf(p)
    BY <1>2, NextSteps
  <2>2. /\ OnProcs(npc') /\ OnProcs(cwd') /\ OnProcs(file') /\ OnProcs(ip') /\ OnProcs(dp')
        /\ OnProcs(put') /\ OnProcs(ifreed')
        /\ \A q \in NameProcs \ {p} : npc'[q] = npc[q]
    BY <2>1, ChangedOn DEF Functions, StepOf
  <2>3. Functions'
    BY <2>2 DEF Functions, OnProcs
  <2>4. ASSUME Panicked
        PROVE  Panicked'
    <3>1. PICK q \in NameProcs : npc[q] = "panic"
      BY <2>4 DEF Panicked
    <3>2. npc'[q] = "panic"
      BY <2>1, <2>2, <3>1 DEF StepOf
    <3>. QED BY <3>2 DEF Panicked
  <2>. QED BY <2>3, <2>4
<1>. QED BY <1>1, <1>2

LEMMA FunctionsInit ==
  ASSUME N!Init
  PROVE  Functions
  BY DEF N!Init, Functions, OnProcs

\* Until ilock() panics, the counts of the inode table and of the inodes cover
\* everybody who refers to one and every name (NamesGood).
THEOREM NamesInductive ==
  ASSUME N!NamesAssumption
  PROVE  N!Spec => []NamesIInv
<1>1. N!Init => NamesIInv
  BY InitGood, FunctionsInit DEF NamesIInv
<1>2. NamesIInv /\ [N!Next]_(N!vars) => NamesIInv'
  BY NextGood, StutterGood, FunctionsKept DEF NamesIInv, GoodNext
<1>. QED BY <1>1, <1>2, PTL DEF N!Spec

\* ... and without ".." in a path it never does.
THEOREM NamesInductiveDown ==
  ASSUME N!NamesAssumption, NoDotDot
  PROVE  N!Spec => [](Functions /\ NamesGood)
<1>1. N!Init => Functions /\ NamesGood
  BY InitGood, FunctionsInit
<1>2. (Functions /\ NamesGood) /\ [N!Next]_(N!vars) => (Functions /\ NamesGood)'
  BY NextGood, StutterGood, FunctionsKept DEF GoodNext
<1>. QED BY <1>1, <1>2, PTL DEF N!Spec

-----------------------------------------------------------------------------
(* Who drops the last reference                                            *)

\* A step outside iput() takes no reference away, and changes the type and the links
\* only of an inode that it refers to.
HoldsOn ==
    \A j \in N!Inums : /\ iuse'[j] \in Nat /\ iuse'[j] >= iuse[j]
                       /\ type'[j] # type[j] \/ nlink'[j] # nlink[j] => iuse'[j] > 0

LEMMA CountsGrow ==
  ASSUME N!NamesAssumption, NamesGood, NEW p \in NameProcs,
         iuse' = iuse \/ \E k : iuse' = N!Iget(k)
  PROVE  /\ \A j \in N!Inums : iuse[j] \in Nat /\ iuse'[j] \in {iuse[j], iuse[j] + 1}
         /\ type' = type /\ nlink' = nlink => HoldsOn
         /\ \A x, y : x \in N!Inums /\ iuse[x] > 0 /\ type' = type /\ nlink' = [nlink EXCEPT ![x] = y] => HoldsOn
<1>1. iuse \in [N!Inums -> Nat] /\ nlink \in [N!Inums -> Nat]
  BY GoodFacts DEF InodeTypes
<1>2. \A j \in N!Inums : iuse[j] \in Nat /\ iuse'[j] \in {iuse[j], iuse[j] + 1}
  BY <1>1 DEF N!Iget
<1>. QED BY <1>1, <1>2 DEF HoldsOn

LEMMA StepHolds ==
  ASSUME N!NamesAssumption, NamesGood, NEW p \in NameProcs, put[p] = N!None, N!Step(p)
  PROVE  HoldsOn
<1>0. CallType(p) /\ InodeTypes /\ iuse \in [N!Inums -> Nat] /\ nlink \in [N!Inums -> Nat]
  BY GoodFacts DEF InodeTypes
<1>1. /\ npc[p] \in IpPCs => ip[p] \in N!Inums /\ iuse[ip[p]] > 0
      /\ npc[p] \in DpPCs => dp[p] \in N!Inums /\ iuse[dp[p]] > 0
  BY GoodFacts DEF CallType
<1>2. \A i : N!IlockPanics(p, i) => UNCHANGED <<type, nlink, iuse>>
  BY DEF N!IlockPanics, N!inode, N!entry
<1>3. CASE \/ \E c \in calls : N!Start(p, c)
           \/ N!Walk(p) \/ N!WalkParent(p) \/ N!sys_close(p) \/ N!sys_chdir(p)
           \/ \E ok \in BOOLEAN : N!sys_open(p, ok) \/ N!CreateFound(p, ok) \/ N!Created(p, ok)
  <2>1. type' = type /\ nlink' = nlink /\ (iuse' = iuse \/ \E k : iuse' = N!Iget(k))
    BY <1>2, <1>3 DEF N!Start, N!Walk, N!WalkParent, N!sys_close, N!sys_chdir, N!sys_open, N!CreateFound, N!Created,
                      N!inode, N!entry
  <2>. QED BY <2>1, CountsGrow
<1>4. CASE \/ N!ParentLock(p) \/ N!CreateExists(p) \/ N!CreateFull(p) \/ N!CreatePut(p) \/ N!CreateFail(p) \/ N!Bad(p)
           \/ N!UnlinkLookup(p) \/ N!UnlinkPut(p) \/ N!PutIp(p)
           \/ N!LinkEntry(p) \/ N!LinkPutParent(p) \/ N!LinkPut(p)
  <2>1. type' = type /\ nlink' = nlink /\ (iuse' = iuse \/ \E k : iuse' = N!Iget(k))
    BY <1>2, <1>4 DEF N!ParentLock, N!CreateExists, N!CreateFull, N!CreatePut, N!CreateFail, N!Bad, N!UnlinkLookup,
                      N!UnlinkPut, N!PutIp, N!LinkEntry, N!LinkPutParent, N!LinkPut, N!inode, N!entry
  <2>. QED BY <2>1, CountsGrow
<1>5. ASSUME NEW ok \in BOOLEAN, N!CreateNew(p, ok)
      PROVE  HoldsOn
  <2>1. PICK x : /\ iuse' = N!Iget(x) /\ type' = [type EXCEPT ![x] = N!NewType(p)]
                 /\ nlink' = [nlink EXCEPT ![x] = IF ok THEN 1 ELSE 0,
                                           ![dp[p]] = IF ok /\ N!NewType(p) = "T_DIR" THEN @ + 1 ELSE @]
    BY <1>5 DEF N!CreateNew
  <2>2. dp[p] \in N!Inums /\ iuse[dp[p]] > 0
    BY <1>1, <1>5 DEF N!CreateNew, DpPCs
  <2>3. \A j \in N!Inums : iuse[j] \in Nat /\ iuse'[j] = IF j = x THEN iuse[j] + 1 ELSE iuse[j]
    BY <1>0, <2>1 DEF N!Iget
  <2>4. \A j \in N!Inums \ {x, dp[p]} : type'[j] = type[j] /\ nlink'[j] = nlink[j]
    BY <1>0, <2>1 DEF InodeTypes
  <2>5. x # dp[p] => type'[dp[p]] = type[dp[p]]
    BY <1>0, <2>1, <2>2 DEF InodeTypes
  <2>. QED BY <2>2, <2>3, <2>4, <2>5 DEF HoldsOn
<1>6. CASE N!UnlinkEntry(p)
  <2>1. dp[p] \in N!Inums /\ iuse[dp[p]] > 0
    BY <1>1, <1>6 DEF N!UnlinkEntry, DpPCs
  <2>2. iuse' = iuse /\ type' = type /\ (nlink' = nlink \/ \E y : nlink' = [nlink EXCEPT ![dp[p]] = y])
    BY <1>2, <1>6 DEF N!UnlinkEntry, N!inode, N!entry
  <2>. QED BY <2>1, <2>2, CountsGrow
<1>7. CASE N!UnlinkCount(p) \/ N!LinkBad(p) \/ N!sys_link(p)
  <2>1. ip[p] \in N!Inums /\ iuse[ip[p]] > 0
    BY <1>1, <1>7 DEF N!UnlinkCount, N!LinkBad, N!sys_link, N!AtEnd, IpPCs
  <2>2. /\ iuse' = iuse \/ \E k : iuse' = N!Iget(k)
        /\ type' = type /\ (nlink' = nlink \/ \E y : nlink' = [nlink EXCEPT ![ip[p]] = y])
    BY <1>2, <1>7 DEF N!UnlinkCount, N!LinkBad, N!sys_link, N!inode, N!entry
  <2>. QED BY <2>1, <2>2, CountsGrow
<1>. QED BY <1>3, <1>4, <1>5, <1>6, <1>7 DEF N!Step

LEMMA LostStep ==
  ASSUME N!NamesAssumption, NamesGood, N!Next, NEW i \in N!Inums, N!Lost(i)', ~ N!Lost(i)
  PROVE  \E p \in NameProcs : put[p] = i /\ ifreed[p]
<1>0. type'[i] # "free" /\ nlink'[i] = 0 /\ iuse'[i] = 0 /\ ~ (type[i] # "free" /\ nlink[i] = 0 /\ iuse[i] = 0)
  BY DEF N!Lost
<1>1. PICK p \in NameProcs : (put[p] = N!None /\ N!Step(p)) \/ N!IputFree(p) \/ N!IputDrop(p)
  BY DEF N!Next
<1>2. InodeTypes /\ LinkInv /\ PutSure(p) /\ PutType(p) /\ iuse[i] \in Nat
  BY GoodFacts DEF NamesGood, PutsInv, PutTypes, InodeTypes
<1>3. CASE put[p] = N!None /\ N!Step(p)
  <2>1. HoldsOn
    BY <1>3, StepHolds
  <2>. QED BY <1>0, <1>2, <2>1 DEF HoldsOn
<1>4. CASE N!IputFree(p)
  <2>1. type' = [type EXCEPT ![put[p]] = "free"] /\ UNCHANGED <<nlink, iuse>>
    BY <1>4 DEF N!IputFree
  <2>. QED BY <1>0, <1>2, <2>1 DEF InodeTypes
<1>5. CASE N!IputDrop(p)
  <2>1. /\ iuse' = [iuse EXCEPT ![put[p]] = @ - 1] /\ UNCHANGED <<type, nlink, valid>> /\ put[p] # N!None
        /\ ifreed[p] \/ ~ (iuse[put[p]] = 1 /\ valid[put[p]] /\ nlink[put[p]] = 0)
    BY <1>5 DEF N!IputDrop, N!Frees, N!inode
  <2>2. put[p] = i /\ iuse[i] = 1
    BY <1>0, <1>2, <2>1 DEF InodeTypes
  <2>3. nlink[i] = 0 /\ i # N!Root
    BY <1>0, <1>2, <2>1, Linked
  <2>4. ifreed[p]
    BY <1>2, <2>1, <2>2, <2>3 DEF PutSure
  <2>. QED BY <2>2, <2>4
<1>. QED BY <1>1, <1>3, <1>4, <1>5

\* LostOnlyAfterFree: until ilock() panics, whoever drops the last reference to an
\* inode without links has freed it; an inode can be lost, allocated without a link
\* or a reference, only to an iput() that freed it before it was given to a new file.
THEOREM NamesLostOnlyAfterFree ==
  ASSUME N!NamesAssumption
  PROVE  N!Spec => LostOnlyAfterFree
<1>1. NamesIInv /\ [N!Next]_(N!vars) =>
        [N!NoPanic => \A i \in N!Inums : N!Lost(i)' => N!Lost(i) \/ \E p \in NameProcs : put[p] = i /\ ifreed[p]]_(N!vars)
  <2>1. SUFFICES ASSUME NamesIInv, N!Next, N!NoPanic, NEW i \in N!Inums, N!Lost(i)', ~ N!Lost(i)
                 PROVE  \E p \in NameProcs : put[p] = i /\ ifreed[p]
    OBVIOUS
  <2>2. NamesGood
    BY <2>1 DEF NamesIInv, Panicked, N!NoPanic
  <2>. QED BY <2>1, <2>2, LostStep
<1>. QED BY <1>1, NamesInductive, PTL DEF N!Spec, LostOnlyAfterFree, N!LostOnlyAfterFree

\* RefsExact: when no call is under way, the count of an inode is the number of the
\* current directories and open files that refer to it.
THEOREM NamesRefsExact ==
  ASSUME N!NamesAssumption
  PROVE  N!Spec => []N!RefsExact
<1>1. NamesIInv => N!RefsExact
  <2>1. SUFFICES ASSUME NamesIInv, N!Quiet, NEW i \in N!Inums
                 PROVE  iuse[i] = Count(cwd, i) + Count(file, i)
    BY SameSize DEF N!RefsExact, Count
  <2>2. \A p \in NameProcs : npc[p] = "idle" /\ put[p] = N!None
    BY <2>1 DEF N!Quiet
  <2>3. NamesGood
    BY <2>1, <2>2 DEF NamesIInv, Panicked
  <2>4. i # N!None
    BY FewNames
  <2>5. Count(IpHeld, i) = 0 /\ Count(DpHeld, i) = 0 /\ Count(put, i) = 0
    <3>1. \A p \in NameProcs : IpHeld[p] # i /\ DpHeld[p] # i /\ put[p] # i
      BY <2>2, <2>4 DEF IpHeld, DpHeld, IpPCs, DpPCs
    <3>. QED BY <3>1, NobodyHas
  <2>6. \A f : Count(f, i) \in Nat
    <3>1. ASSUME NEW f
          PROVE  Count(f, i) \in Nat
      <4>1. {p \in NameProcs : f[p] = i} \in SUBSET NameProcs
        OBVIOUS
      <4>. QED BY <4>1, FewNames, FS_Subset, FS_CardinalityType DEF Count
    <3>. QED BY <3>1
  <2>. QED BY <2>3, <2>5, <2>6 DEF NamesGood, UseInv, Total
<1>. QED BY <1>1, NamesInductive, PTL

\* What the invariant says of open files and of the state's types
LEMMA GoodOpen ==
  ASSUME Functions, NamesGood
  PROVE  N!TypeOK /\ N!OpenKept /\ N!NoPanic
<1>1. /\ InodeTypes /\ \A p \in NameProcs : CallType(p) /\ SureInv(p)
  BY DEF NamesGood, InodesInv, CallInv
<1>2. /\ cwd \in [NameProcs -> N!Inums] /\ file \in [NameProcs -> N!Inums \cup {N!None}]
      /\ ip \in [NameProcs -> N!Inums \cup {N!None}] /\ dp \in [NameProcs -> N!Inums \cup {N!None}]
      /\ put \in [NameProcs -> N!Inums \cup {N!None}] /\ ifreed \in [NameProcs -> BOOLEAN]
  <2>1. \A p \in NameProcs : /\ cwd[p] \in N!Inums /\ file[p] \in N!Inums \cup {N!None}
                             /\ ip[p] \in N!Inums \cup {N!None} /\ dp[p] \in N!Inums \cup {N!None}
                             /\ put[p] \in N!Inums \cup {N!None} /\ ifreed[p] \in BOOLEAN
    BY <1>1 DEF CallType, NamesGood, PutsInv, PutTypes, PutType
  <2>2. OnProcs(cwd) /\ OnProcs(file) /\ OnProcs(ip) /\ OnProcs(dp) /\ OnProcs(put) /\ OnProcs(ifreed)
    BY DEF Functions
  <2>. QED BY <2>1, <2>2 DEF OnProcs
<1>3. N!TypeOK
  BY <1>1, <1>2 DEF N!TypeOK, InodeTypes
<1>4. N!OpenKept
  BY <1>1 DEF N!OpenKept, SureInv
<1>5. N!NoPanic
  BY NobodyPanicked DEF N!NoPanic, Panicked
<1>. QED BY <1>3, <1>4, <1>5

\* OpenKept: until somebody panics, an inode that a process has open is neither
\* freed nor given to another file, however often it is unlinked meanwhile.
THEOREM NamesOpenKept ==
  ASSUME N!NamesAssumption
  PROVE  N!Spec => [](N!NoPanic => N!TypeOK /\ N!OpenKept)
<1>1. NamesIInv => (N!NoPanic => N!TypeOK /\ N!OpenKept)
  BY GoodOpen DEF NamesIInv, Panicked, N!NoPanic
<1>. QED BY <1>1, NamesInductive, PTL

\* Until somebody panics, every name in a directory stands for an inode that is
\* allocated, no more names than nlink stand for one, and unlink() does not find
\* "nlink < 1".
NoDangling ==
    N!NoPanic => /\ \A d \in N!Inums, n \in FileNames : dent[d][n] # N!None => type[dent[d][n]] # "free"
                 /\ \A i \in N!Inums : Cardinality(NamesOf(i)) <= nlink[i]
                 /\ \A p \in NameProcs : npc[p] = "unlink_ip" => nlink[ip[p]] >= 1

\* No directory of fs.c ever has an entry for an inode that iput() freed.
THEOREM NamesNoDangling ==
  ASSUME N!NamesAssumption
  PROVE  N!Spec => []NoDangling
<1>1. NamesIInv => NoDangling
  <2>1. SUFFICES ASSUME NamesIInv, N!NoPanic
                 PROVE  /\ \A d \in N!Inums, n \in FileNames : dent[d][n] # N!None => type[dent[d][n]] # "free"
                        /\ \A i \in N!Inums : Cardinality(NamesOf(i)) <= nlink[i]
                        /\ \A p \in NameProcs : npc[p] = "unlink_ip" => nlink[ip[p]] >= 1
    BY DEF NoDangling
  <2>2. NamesGood
    BY <2>1 DEF NamesIInv, Panicked, N!NoPanic
  <2>3. InodeTypes /\ LinkInv /\ EntryOK(type, nlink, valid)
    BY <2>2 DEF NamesGood, InodesInv
  <2>4. ASSUME NEW d \in N!Inums, NEW n \in FileNames, dent[d][n] # N!None
        PROVE  type[dent[d][n]] # "free"
    <3>1. dent[d][n] \in N!Inums
      BY <2>3, <2>4 DEF InodeTypes
    <3>2. <<d, n>> \in NamesOf(dent[d][n])
      BY DEF NamesOf
    <3>3. nlink[dent[d][n]] # 0
      BY <2>3, <3>1, <3>2, Linked
    <3>. QED BY <2>3, <3>1, <3>3 DEF EntryOK
  <2>5. ASSUME NEW i \in N!Inums
        PROVE  Cardinality(NamesOf(i)) <= nlink[i]
    <3>1. nlink[i] \in Nat
      BY <2>3 DEF InodeTypes
    <3>2. nlink[i] >= (IF i = N!Root THEN 1 ELSE 0) + Cardinality(NamesOf(i)) + Cardinality(Subdirs(i))
                      + Cardinality(Owed(i))
      BY <2>3 DEF LinkInv
    <3>3. Cardinality(NamesOf(i)) \in Nat /\ Cardinality(Subdirs(i)) \in Nat /\ Cardinality(Owed(i)) \in Nat
      BY FewLinks
    <3>. HIDE DEF NamesOf, Subdirs, Owed
    <3>. QED BY <3>1, <3>2, <3>3
  <2>6. \A p \in NameProcs : npc[p] = "unlink_ip" => nlink[ip[p]] >= 1
    BY <2>2, UnlinkCounted
  <2>. QED BY <2>4, <2>5, <2>6
<1>. QED BY <1>1, NamesInductive, PTL

\* Neither ilock()'s "no type" nor unlink()'s "nlink < 1" is ever reached by
\* programs whose paths have no "..", whatever they create, link and remove.
THEOREM NamesNoPanic ==
  ASSUME N!NamesAssumption, NoDotDot
  PROVE  N!Spec => [](N!TypeOK /\ N!NoPanic /\ N!OpenKept)
<1>1. Functions /\ NamesGood => N!TypeOK /\ N!NoPanic /\ N!OpenKept
  BY GoodOpen
<1>. QED BY <1>1, NamesInductiveDown, PTL
=============================================================================
