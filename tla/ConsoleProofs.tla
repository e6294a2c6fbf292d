---------------------------- MODULE ConsoleProofs ----------------------------
(***************************************************************************)
(* TLAPS proofs about Console, for any number of readers, any size of the  *)
(* buffer and any counter width that is a multiple of it: its safety       *)
(* invariant, and that it implements LineInput.                            *)
(*                                                                         *)
(* The argument.  Everything is measured from r: A characters can be read, *)
(* and the B behind them are still edited.  They never fill the buffer     *)
(* unless B is 0 (OrderInv), so the distances determine the order of the   *)
(* three wrapping indices; and no character that is still edited ends a    *)
(* line (LineInv), which is why C('U') stops at w and nowhere else.        *)
(*                                                                         *)
(* The second part is about Serial, the output: printk() and uartputc()    *)
(* on one UART.                                                            *)
(***************************************************************************)
EXTENDS Console, SerialLine, RingArithmetic, SequenceTheorems, FiniteSets, FiniteSetTheorems

A == Distance(r, w)
B == Distance(w, e)

\* The i-th character from index x on
Cell(f, x, i) == f[(x + i - 1) % INPUT_BUF_SIZE]

LockInv == \A p \in Procs : lock = p <=> pc[p] \in {"loop", "empty"}

OrderInv == A + B <= INPUT_BUF_SIZE /\ (A + B = INPUT_BUF_SIZE => B = 0)

LineInv == \A k \in 1..B : Cell(buf, w, k) \in Plain

IInv == TypeOK /\ LockInv /\ OrderInv /\ LineInv

-----------------------------------------------------------------------------
(* The ring                                                                *)

LEMMA Sizes ==
  /\ CntMod \in Nat \ {0} /\ MaxN \in Nat
  /\ INPUT_BUF_SIZE \in Nat \ {0} /\ INPUT_BUF_SIZE < CntMod
  BY ConsoleAssumption

LEMMA Indices ==
  ASSUME TypeOK
  PROVE  r \in 0..CntMod - 1 /\ w \in 0..CntMod - 1 /\ e \in 0..CntMod - 1
  BY DEF TypeOK

LEMMA DistanceType ==
  ASSUME NEW x \in 0..CntMod - 1, NEW y \in 0..CntMod - 1
  PROVE  Distance(x, y) \in 0..CntMod - 1 /\ (Distance(x, y) = 0 <=> x = y)
<1>1. Distance(x, y) = IF y >= x THEN y - x ELSE y - x + CntMod
  BY RingDistance, Sizes DEF Distance
<1>. HIDE DEF Distance
<1>. QED BY <1>1, Sizes

\* The distance between r and e is that of its two parts.
LEMMA OrderFacts ==
  ASSUME TypeOK, OrderInv
  PROVE  A \in Nat /\ B \in Nat /\ A + B < CntMod /\ Distance(r, e) = A + B
<1>1. A \in Nat /\ B \in Nat
  BY Indices, DistanceType, Sizes DEF A, B
<1>2. A + B < CntMod
  BY <1>1, Sizes DEF OrderInv
<1>3. Distance(r, e) = A + B
  BY <1>2, Indices, RingSum, Sizes DEF A, B, Distance
<1>. QED BY <1>1, <1>2, <1>3

LEMMA PlaceType == \A x \in Int : x % INPUT_BUF_SIZE \in 0..INPUT_BUF_SIZE - 1
  BY DivMod, Sizes

\* Two places in the part of the ring that is in use differ.
LEMMA CellsDiffer ==
  ASSUME NEW x \in Int, NEW i \in Int, NEW j \in Int, j - i \in 1..INPUT_BUF_SIZE - 1
  PROVE  (x + i - 1) % INPUT_BUF_SIZE # (x + j - 1) % INPUT_BUF_SIZE
<1>. DEFINE a == x + i - 1
            b == x + j - 1
<1>1. a \in Int /\ b \in Int /\ b - a \in 1..INPUT_BUF_SIZE - 1
  BY Sizes
<1>. HIDE DEF a, b
<1>2. a % INPUT_BUF_SIZE # b % INPUT_BUF_SIZE
  BY <1>1, ModDiffers, Sizes
<1>. QED BY <1>2 DEF a, b

\* The counters wrap after a whole number of turns around the buffer.
LEMMA WholeTurns == \A x \in Int : (x + CntMod) % INPUT_BUF_SIZE = x % INPUT_BUF_SIZE
<1>1. INPUT_BUF_SIZE \in Nat \ {0} /\ CntMod \in Int /\ CntMod % INPUT_BUF_SIZE = 0
  BY ConsoleAssumption
<1>. QED BY <1>1, ModWhole

LEMMA CellWraps ==
  ASSUME NEW x \in -CntMod..2 * CntMod - 1
  PROVE  (x % CntMod) % INPUT_BUF_SIZE = x % INPUT_BUF_SIZE
<1>. DEFINE z == x % CntMod
<1>1. z \in Int /\ x \in Int /\ (z = x \/ x = z + CntMod \/ z = x + CntMod)
  <2>1. CntMod \in Nat \ {0}
    BY Sizes
  <2>2. \A y \in -CntMod..2 * CntMod - 1 :
           y % CntMod \in Int /\ (y % CntMod = y \/ y = (y % CntMod) + CntMod \/ y % CntMod = y + CntMod)
    BY <2>1, ModNear
  <2>. QED BY <2>1, <2>2
<1>. HIDE DEF z
<1>2. z % INPUT_BUF_SIZE = x % INPUT_BUF_SIZE
  <2>1. (z + CntMod) % INPUT_BUF_SIZE = z % INPUT_BUF_SIZE
    BY <1>1, WholeTurns
  <2>2. (x + CntMod) % INPUT_BUF_SIZE = x % INPUT_BUF_SIZE
    BY <1>1, WholeTurns
  <2>. QED BY <1>1, <2>1, <2>2, Zenon
<1>. QED BY <1>2 DEF z

\* The i-th place from y on is that many places farther from x on.
LEMMA CellFrom ==
  ASSUME NEW x \in 0..CntMod - 1, NEW y \in 0..CntMod - 1, NEW i \in Int
  PROVE  (x + (Distance(x, y) + i) - 1) % INPUT_BUF_SIZE = (y + i - 1) % INPUT_BUF_SIZE
<1>. DEFINE z == x + (Distance(x, y) + i) - 1
            v == y + i - 1
<1>1. Distance(x, y) = IF y >= x THEN y - x ELSE y - x + CntMod
  BY RingDistance, Sizes DEF Distance
<1>. HIDE DEF Distance
<1>2. v \in Int /\ (z = v \/ z = v + CntMod)
  BY <1>1, Sizes
<1>. HIDE DEF z, v
<1>3. z % INPUT_BUF_SIZE = v % INPUT_BUF_SIZE
  <2>1. (v + CntMod) % INPUT_BUF_SIZE = v % INPUT_BUF_SIZE
    BY <1>2, WholeTurns
  <2>. QED BY <1>2, <2>1, Zenon
<1>. QED BY <1>3 DEF z, v

\* What is behind the last character
LEMMA LastCell ==
  ASSUME TypeOK
  PROVE  (w + (B + 1) - 1) % INPUT_BUF_SIZE = e % INPUT_BUF_SIZE
<1>1. (w + (Distance(w, e) + 1) - 1) % INPUT_BUF_SIZE = (e + 1 - 1) % INPUT_BUF_SIZE
  BY CellFrom, Indices
<1>2. e + 1 - 1 = e
  BY Indices, Sizes
<1>. QED BY <1>1, <1>2 DEF B

-----------------------------------------------------------------------------
(* Init and console_intr()                                                 *)

LEMMA InitKeeps == Init => IInv
<1>. SUFFICES ASSUME Init PROVE IInv
  OBVIOUS
<1>. USE DEF Init
<1>1. TypeOK
  <2>1. fresh \in [Procs -> BOOLEAN] /\ killed \in [Procs -> BOOLEAN]
    BY Zenon
  <2>2. buf \in [0..INPUT_BUF_SIZE - 1 -> Chars] /\ {r, w, e} \subseteq 0..CntMod - 1
    BY Sizes DEF Chars
  <2>3. /\ pc \in [Procs -> {"idle", "read", "loop", "empty", "asleep"}]
        /\ left \in [Procs -> 0..MaxN]
    BY Sizes
  <2>. QED BY <2>1, <2>2, <2>3 DEF TypeOK
<1>2. LockInv
  BY ConsoleAssumption DEF LockInv
<1>3. A = 0 /\ B = 0
  BY <1>1, Indices, DistanceType DEF A, B
<1>4. OrderInv /\ LineInv
  BY <1>3, Sizes DEF OrderInv, LineInv
<1>. QED BY <1>1, <1>2, <1>4 DEF IInv

\* The new character goes behind the others.
LEMMA TypedMoves ==
  ASSUME IInv, NEW c \in Chars, Typed(c)
  PROVE  /\ e' \in 0..CntMod - 1
         /\ A \in Nat /\ B \in Nat /\ A + B < INPUT_BUF_SIZE
         /\ Distance(w, e') = B + 1 /\ Distance(r, e') = A + B + 1
         /\ \/ c \in {Newline, CtrlD} \/ A + B + 1 = INPUT_BUF_SIZE
            <=> Completes(c, e')
<1>1. /\ A \in Nat /\ B \in Nat /\ A + B < CntMod /\ Distance(r, e) = A + B
      /\ r \in 0..CntMod - 1 /\ w \in 0..CntMod - 1 /\ e \in 0..CntMod - 1
  BY OrderFacts, Indices DEF IInv
<1>2. A + B < INPUT_BUF_SIZE
  BY <1>1 DEF Typed
<1>3. e' = (e + 1) % CntMod /\ (e + 1) % CntMod \in 0..CntMod - 1
  <2>1. (e + 1) % CntMod \in 0..CntMod - 1
    BY <1>1, RingStep, Sizes
  <2>. QED BY <2>1 DEF Typed
<1>4. Distance(w, e') = B + 1
  <2>1. (e - w) % CntMod # CntMod - 1
    BY <1>1, <1>2, Sizes DEF B, Distance
  <2>2. (((e + 1) % CntMod) - w) % CntMod = ((e - w) % CntMod) + 1
    BY <1>1, <2>1, RingMoves, Sizes
  <2>. QED BY <1>3, <2>2 DEF Distance, B
<1>5. Distance(r, e') = A + B + 1
  <2>1. (e - r) % CntMod # CntMod - 1
    BY <1>1, <1>2, Sizes DEF Distance
  <2>2. (((e + 1) % CntMod) - r) % CntMod = ((e - r) % CntMod) + 1
    BY <1>1, <2>1, RingMoves, Sizes
  <2>3. Distance(r, e') = Distance(r, e) + 1
    BY <1>3, <2>2 DEF Distance
  <2>. QED BY <1>1, <2>3
<1>6. e' \in 0..CntMod - 1
  BY <1>3
<1>. HIDE DEF Distance, A, B
<1>. QED BY <1>1, <1>2, <1>4, <1>5, <1>6 DEF Completes

LEMMA TypedKeeps ==
  ASSUME IInv, NEW c \in Chars, Typed(c)
  PROVE  IInv'
<1>1. /\ e' \in 0..CntMod - 1
      /\ A \in Nat /\ B \in Nat /\ A + B < INPUT_BUF_SIZE
      /\ Distance(w, e') = B + 1 /\ Distance(r, e') = A + B + 1
      /\ \/ c \in {Newline, CtrlD} \/ A + B + 1 = INPUT_BUF_SIZE
         <=> Completes(c, e')
  BY TypedMoves
<1>2. /\ buf' = [buf EXCEPT ![e % INPUT_BUF_SIZE] = c] /\ r' = r
      /\ UNCHANGED <<lock, left, fresh, killed>>
  BY DEF Typed
<1>3. \/ Completes(c, e') /\ w' = e' /\ WakeAll
      \/ ~ Completes(c, e') /\ w' = w /\ pc' = pc
  BY DEF Typed
<1>4. TypeOK'
  <2>1. e % INPUT_BUF_SIZE \in 0..INPUT_BUF_SIZE - 1
    <3>1. e \in Int
      BY Indices, Sizes DEF IInv
    <3>. QED BY <3>1, PlaceType
  <2>2. buf' \in [0..INPUT_BUF_SIZE - 1 -> Chars]
    BY <1>2, <2>1 DEF IInv, TypeOK
  <2>3. pc' \in [Procs -> {"idle", "read", "loop", "empty", "asleep"}]
    BY <1>3 DEF IInv, TypeOK, WakeAll
  <2>4. {r', w', e'} \subseteq 0..CntMod - 1
    BY <1>1, <1>2, <1>3 DEF IInv, TypeOK
  <2>. QED BY <1>2, <2>2, <2>3, <2>4 DEF IInv, TypeOK
<1>5. LockInv'
  BY <1>2, <1>3 DEF IInv, LockInv, TypeOK, WakeAll
<1>6. CASE Completes(c, e')
  <2>1. w' = e'
    BY <1>3, <1>6
  <2>2. A' = A + B + 1 /\ B' = 0
    <3>1. A' = Distance(r, e')
      BY <1>2, <2>1 DEF A, Distance
    <3>2. B' = Distance(e', e')
      BY <2>1 DEF B, Distance
    <3>. QED BY <1>1, <3>1, <3>2, DistanceType
  <2>3. OrderInv'
    BY <1>1, <2>2, Sizes DEF OrderInv
  <2>4. LineInv'
    BY <2>2 DEF LineInv
  <2>. QED BY <1>4, <1>5, <2>3, <2>4 DEF IInv
<1>7. CASE ~ Completes(c, e')
  <2>1. w' = w
    BY <1>3, <1>7
  <2>2. A' = A /\ B' = B + 1
    BY <1>1, <1>2, <2>1 DEF A, B, Distance
  <2>3. OrderInv'
    BY <1>1, <1>7, <2>2, Sizes DEF OrderInv
  <2>4. ASSUME NEW k \in 1..B + 1 PROVE buf'[(w + k - 1) % INPUT_BUF_SIZE] \in Plain
    <3>1. w \in Int /\ B \in Int /\ B < INPUT_BUF_SIZE
      BY <1>1, Indices, Sizes DEF IInv
    <3>2. (w + k - 1) % INPUT_BUF_SIZE \in 0..INPUT_BUF_SIZE - 1
      <4>1. w + k - 1 \in Int
        BY <3>1
      <4>. QED BY <4>1, PlaceType
    <3>3. (w + (B + 1) - 1) % INPUT_BUF_SIZE = e % INPUT_BUF_SIZE
      BY LastCell DEF IInv
    <3>4. CASE k = B + 1
      <4>1. c \in Plain
        BY <1>1, <1>7 DEF Chars
      <4>2. buf'[e % INPUT_BUF_SIZE] = c
        BY <1>2, <3>2, <3>3, <3>4 DEF IInv, TypeOK
      <4>. QED BY <3>3, <3>4, <4>1, <4>2
    <3>5. CASE k # B + 1
      <4>1. k \in 1..B /\ (B + 1) - k \in 1..INPUT_BUF_SIZE - 1
        BY <3>1, <3>5, Sizes
      <4>2. (w + k - 1) % INPUT_BUF_SIZE # (w + (B + 1) - 1) % INPUT_BUF_SIZE
        <5>1. \A i, j \in Int : j - i \in 1..INPUT_BUF_SIZE - 1 =>
                 (w + i - 1) % INPUT_BUF_SIZE # (w + j - 1) % INPUT_BUF_SIZE
          BY <3>1, CellsDiffer
        <5>2. k \in Int /\ B + 1 \in Int
          BY <3>1
        <5>. QED BY <4>1, <5>1, <5>2
      <4>3. (w + k - 1) % INPUT_BUF_SIZE # e % INPUT_BUF_SIZE
        BY <3>3, <4>2
      <4>4. buf[(w + k - 1) % INPUT_BUF_SIZE] \in Plain
        BY <4>1 DEF IInv, LineInv, Cell
      <4>5. \A j \in 0..INPUT_BUF_SIZE - 1 : j # e % INPUT_BUF_SIZE => buf'[j] = buf[j]
        BY <1>2 DEF IInv, TypeOK
      <4>. QED BY <3>2, <4>3, <4>4, <4>5
    <3>. QED BY <3>4, <3>5
  <2>5. LineInv'
    BY <2>1, <2>2, <2>4 DEF LineInv, Cell
  <2>. QED BY <1>4, <1>5, <2>3, <2>5 DEF IInv
<1>. QED BY <1>6, <1>7

\* Editing only shortens the part behind w.
LEMMA ShorterKeeps ==
  ASSUME IInv, NEW k \in 0..B, e' = (e - k) % CntMod,
         UNCHANGED <<buf, r, w, lock, pc, left, fresh, killed>>
  PROVE  IInv' /\ A' = A /\ B' = B - k
<1>1. A \in Nat /\ B \in Nat
  BY OrderFacts DEF IInv
<1>2. e' \in 0..CntMod - 1 /\ Distance(w, e') = B - k
  <2>1. \A a, b \in 0..CntMod - 1 : \A i \in 0..((b - a) % CntMod) :
           /\ (b - i) % CntMod \in 0..CntMod - 1
           /\ (((b - i) % CntMod) - a) % CntMod = ((b - a) % CntMod) - i
    BY RingBack, Sizes
  <2>2. k \in 0..((e - w) % CntMod)
    BY DEF B, Distance
  <2>. QED BY <2>1, <2>2, Indices DEF B, Distance, IInv
<1>3. A' = A /\ B' = B - k
  BY <1>2 DEF A, B, Distance
<1>4. TypeOK' /\ LockInv'
  BY <1>2 DEF IInv, TypeOK, LockInv
<1>. HIDE DEF A, B
<1>5. OrderInv'
  BY <1>1, <1>3, Sizes DEF IInv, OrderInv
<1>6. LineInv'
  <2>1. 1..B - k \subseteq 1..B
    BY <1>1
  <2>. QED BY <1>3, <2>1 DEF IInv, LineInv, Cell
<1>. QED BY <1>3, <1>4, <1>5, <1>6 DEF IInv

LEMMA BackspaceKeeps ==
  ASSUME IInv, Backspace
  PROVE  IInv' /\ A' = A /\ B' = B - 1 /\ B # 0
<1>1. B # 0 /\ B \in Nat
  BY OrderFacts, Indices, DistanceType DEF Backspace, B, IInv
<1>2. 1 \in 0..B
  BY <1>1
<1>. QED BY <1>1, <1>2, ShorterKeeps DEF Backspace

\* C('U') finds no newline behind w.
LEMMA KillLineKeeps ==
  ASSUME IInv, KillLine
  PROVE  IInv' /\ A' = A /\ B' = 0
<1>. DEFINE stops == {d \in 0..Distance(w, e) :
                        d = Distance(w, e) \/ At((e - d - 1) % CntMod) = Newline}
            back == CHOOSE d \in stops : \A x \in stops : d <= x
<1>1. B \in Nat /\ w \in 0..CntMod - 1 /\ e \in 0..CntMod - 1 /\ B < CntMod /\ Distance(w, e) = B
  BY OrderFacts, Indices, DistanceType, Sizes DEF IInv, B
<1>2. ASSUME NEW d \in 0..B, d # B PROVE At((e - d - 1) % CntMod) # Newline
  <2>1. e - d - 1 \in -CntMod..2 * CntMod - 1 /\ -d \in Int /\ e + (-d) - 1 = e - d - 1
    BY <1>1, <1>2, Sizes
  <2>2. ((e - d - 1) % CntMod) % INPUT_BUF_SIZE = (e - d - 1) % INPUT_BUF_SIZE
    BY <2>1, CellWraps
  <2>3. \A i \in Int : (w + (Distance(w, e) + i) - 1) % INPUT_BUF_SIZE = (e + i - 1) % INPUT_BUF_SIZE
    BY <1>1, CellFrom
  <2>4. (w + (B + (-d)) - 1) % INPUT_BUF_SIZE = (e - d - 1) % INPUT_BUF_SIZE
    BY <1>1, <2>1, <2>3
  <2>5. B + (-d) \in 1..B
    BY <1>1, <1>2
  <2>. HIDE DEF B
  <2>6. buf[(w + (B + (-d)) - 1) % INPUT_BUF_SIZE] \in Plain
    BY <2>5 DEF IInv, LineInv, Cell
  <2>7. Newline \notin Plain
    BY ConsoleAssumption
  <2>. QED BY <2>2, <2>4, <2>6, <2>7 DEF At
<1>. HIDE DEF B
<1>3. stops = {B}
  BY <1>1, <1>2
<1>4. back = B
  <2>1. B <= B
    BY <1>1
  <2>. QED BY <1>3, <2>1
<1>5. e' = (e - B) % CntMod
  <2>1. e' = (e - back) % CntMod
    BY DEF KillLine
  <2>. HIDE DEF back
  <2>. QED BY <1>4, <2>1
<1>6. B \in 0..B /\ B - B = 0
  BY <1>1
<1>. QED BY <1>5, <1>6, ShorterKeeps DEF KillLine

-----------------------------------------------------------------------------
(* console_read()                                                          *)

\* What depends on the buffer and its indices alone
LEMMA SameCons ==
  ASSUME UNCHANGED cons
  PROVE  A' = A /\ B' = B /\ (OrderInv /\ LineInv => OrderInv' /\ LineInv')
  BY DEF cons, A, B, Distance, OrderInv, LineInv, Cell

LEMMA CallReadKeeps ==
  ASSUME IInv, NEW p \in Procs, NEW m \in 0..MaxN, CallRead(p, m)
  PROVE  IInv'
<1>. USE DEF IInv, CallRead
<1>1. TypeOK'
  <2>1. fresh' \in [Procs -> BOOLEAN]
    BY DEF TypeOK
  <2>. QED BY <2>1 DEF TypeOK, cons
<1>2. LockInv'
  BY DEF LockInv, TypeOK
<1>. QED BY <1>1, <1>2, SameCons

LEMMA LockKeeps ==
  ASSUME IInv, NEW p \in Procs, Lock(p)
  PROVE  IInv'
<1>. USE DEF IInv, Lock
<1>1. TypeOK'
  BY DEF TypeOK, cons
<1>2. LockInv'
  BY ConsoleAssumption DEF LockInv, TypeOK
<1>. QED BY <1>1, <1>2, SameCons

LEMMA ReturnKeeps ==
  ASSUME IInv, NEW p \in Procs, pc[p] = "loop", Return(p), UNCHANGED killed
  PROVE  /\ lock' \in Procs \cup {Nobody}
         /\ pc' \in [Procs -> {"idle", "read", "loop", "empty", "asleep"}]
         /\ left' \in [Procs -> 0..MaxN] /\ fresh' \in [Procs -> BOOLEAN]
         /\ LockInv'
<1>. USE DEF IInv, Return
<1>1. fresh' \in [Procs -> BOOLEAN]
  BY DEF TypeOK
<1>2. /\ pc' \in [Procs -> {"idle", "read", "loop", "empty", "asleep"}]
      /\ left' \in [Procs -> 0..MaxN]
  BY Sizes DEF TypeOK
<1>3. LockInv'
  BY ConsoleAssumption DEF LockInv, TypeOK
<1>. QED BY <1>1, <1>2, <1>3

LEMMA WaitKeeps ==
  ASSUME IInv, NEW p \in Procs, Wait(p)
  PROVE  IInv'
<1>. USE DEF IInv, Wait
<1>1. CASE killed[p]
  <2>1. Return(p)
    BY <1>1
  <2>2. TypeOK' /\ LockInv'
    BY <2>1, ReturnKeeps DEF TypeOK, cons
  <2>. QED BY <2>2, SameCons
<1>2. CASE ~ killed[p]
  <2>1. TypeOK'
    BY <1>2 DEF TypeOK, cons
  <2>2. LockInv'
    BY <1>2 DEF LockInv, TypeOK
  <2>. QED BY <2>1, <2>2, SameCons
<1>. QED BY <1>1, <1>2

LEMMA SleepKeeps ==
  ASSUME IInv, NEW p \in Procs, Sleep(p)
  PROVE  IInv'
<1>. USE DEF IInv, Sleep
<1>1. TypeOK'
  BY DEF TypeOK, cons
<1>2. LockInv'
  BY ConsoleAssumption DEF LockInv, TypeOK
<1>. QED BY <1>1, <1>2, SameCons

\* Reading shortens the part before w.
LEMMA ReadMoves ==
  ASSUME IInv, r # w, r' = (r + 1) % CntMod, UNCHANGED <<buf, w, e>>
  PROVE  /\ r' \in 0..CntMod - 1
         /\ A \in Nat \ {0} /\ A' = A - 1 /\ B' = B /\ OrderInv' /\ LineInv'
<1>1. A \in Nat /\ A # 0 /\ B \in Nat
  BY OrderFacts, Indices, DistanceType DEF IInv, A
<1>2. (r + 1) % CntMod \in 0..CntMod - 1
  BY Indices, RingStep, Sizes DEF IInv
<1>3. Distance((r + 1) % CntMod, w) = A - 1
  <2>1. (w - r) % CntMod # 0
    BY <1>1 DEF A, Distance
  <2>2. (w - ((r + 1) % CntMod)) % CntMod = ((w - r) % CntMod) - 1
    BY <2>1, Indices, RingMoves, Sizes DEF IInv
  <2>. QED BY <2>2 DEF A, Distance
<1>4. A' = A - 1 /\ B' = B
  <2>1. A' = Distance((r + 1) % CntMod, w)
    BY DEF A, Distance
  <2>. QED BY <1>3, <2>1 DEF B, Distance
<1>. HIDE DEF A, B
<1>5. OrderInv' /\ LineInv'
  BY <1>1, <1>4, Sizes DEF IInv, OrderInv, LineInv, Cell
<1>. QED BY <1>1, <1>2, <1>4, <1>5

LEMMA TakeEofKeeps ==
  ASSUME IInv, NEW p \in Procs, TakeEof(p)
  PROVE  IInv'
<1>. USE DEF IInv, TakeEof
<1>1. {r', w', e'} \subseteq 0..CntMod - 1 /\ OrderInv' /\ LineInv'
  <2>1. CASE fresh[p]
    BY <2>1, ReadMoves DEF TypeOK
  <2>2. CASE ~ fresh[p]
    BY <2>2, SameCons DEF TypeOK, cons
  <2>. QED BY <2>1, <2>2
<1>2. TypeOK' /\ LockInv'
  BY <1>1, ReturnKeeps DEF TypeOK
<1>. QED BY <1>1, <1>2

LEMMA TakeKeeps ==
  ASSUME IInv, NEW p \in Procs, NEW copied \in BOOLEAN, Take(p, copied)
  PROVE  IInv'
<1>. USE DEF IInv, Take
<1>1. {r', w', e'} \subseteq 0..CntMod - 1 /\ OrderInv' /\ LineInv'
  BY ReadMoves DEF TypeOK
<1>2. CASE copied /\ At(r) # Newline
  <2>1. left[p] - 1 \in 0..MaxN
    BY Sizes DEF TypeOK
  <2>2. left' \in [Procs -> 0..MaxN]
    BY <1>2, <2>1 DEF TypeOK
  <2>3. fresh' \in [Procs -> BOOLEAN]
    BY <1>2 DEF TypeOK
  <2>4. TypeOK' /\ LockInv'
    BY <1>1, <1>2, <2>2, <2>3 DEF TypeOK, LockInv
  <2>. QED BY <1>1, <2>4
<1>3. CASE ~ (copied /\ At(r) # Newline)
  <2>1. TypeOK' /\ LockInv'
    BY <1>1, <1>3, ReturnKeeps DEF TypeOK
  <2>. QED BY <1>1, <2>1
<1>. QED BY <1>2, <1>3

LEMMA DoneKeeps ==
  ASSUME IInv, NEW p \in Procs, Done(p)
  PROVE  IInv'
<1>. USE DEF IInv, Done
<1>1. TypeOK' /\ LockInv'
  BY ReturnKeeps DEF TypeOK, cons
<1>. QED BY <1>1, SameCons

LEMMA KillKeeps ==
  ASSUME IInv, NEW p \in Procs, Kill(p)
  PROVE  IInv'
<1>. USE DEF IInv, Kill
<1>1. TypeOK'
  <2>1. killed' \in [Procs -> BOOLEAN]
    BY DEF TypeOK
  <2>. QED BY <2>1 DEF TypeOK, cons
<1>2. LockInv'
  BY DEF LockInv, TypeOK
<1>. QED BY <1>1, <1>2, SameCons

-----------------------------------------------------------------------------
(* The invariant                                                           *)

LEMMA NextKeeps == IInv /\ [Next]_vars => IInv'
<1>. SUFFICES ASSUME IInv, [Next]_vars PROVE IInv'
  OBVIOUS
<1>1. CASE Intr
  BY <1>1, TypedKeeps, BackspaceKeeps, KillLineKeeps DEF Intr
<1>2. ASSUME NEW p \in Procs, Advance(p) PROVE IInv'
  BY <1>2, WaitKeeps, SleepKeeps, TakeEofKeeps, TakeKeeps, DoneKeeps DEF Advance
<1>3. CASE UNCHANGED vars
  BY <1>3, SameCons DEF vars, cons, IInv, TypeOK, LockInv
<1>. QED BY <1>1, <1>2, <1>3, CallReadKeeps, LockKeeps, KillKeeps DEF Next

\* The inductive invariant holds in every reachable state.
THEOREM ConsoleInductive == Spec => []IInv
  BY InitKeeps, NextKeeps, PTL DEF Spec

\* The three indices stay in order, and a buffer that is full has been handed over to
\* the readers, whatever was typed, erased and read before: the console cannot be wedged.
THEOREM ConsoleSafe == Spec => []ConsoleInv
<1>1. IInv => ConsoleInv
  <2>. SUFFICES ASSUME IInv PROVE TypeOK /\ InOrder /\ FullIsReadable
    BY DEF ConsoleInv
  <2>1. Distance(r, e) = A + B
    BY OrderFacts DEF IInv
  <2>2. B = 0 <=> w = e
    BY Indices, DistanceType DEF IInv, B
  <2>3. InOrder
    BY DEF IInv, OrderInv, InOrder, A, B
  <2>. QED BY <2>1, <2>2, <2>3 DEF IInv, OrderInv, FullIsReadable
<1>. QED BY <1>1, ConsoleInductive, PTL

\* console_read() takes a ^D out of the buffer only when it has copied nothing, so
\* that its caller gets an empty read.
THEOREM ConsoleEof == Spec => EofGivesEmptyRead
<1>1. IInv /\ [Next]_vars => \A p \in Procs : lock = p /\ r' # r /\ At(r) = CtrlD => fresh[p]
  <2>. SUFFICES ASSUME IInv, [Next]_vars, NEW p \in Procs, lock = p, r' # r, At(r) = CtrlD
                PROVE  fresh[p]
    OBVIOUS
  <2>1. PICK q \in Procs : TakeEof(q) \/ \E copied \in BOOLEAN : Take(q, copied)
    BY DEF Next, vars, cons, Intr, Typed, Backspace, KillLine, CallRead, Lock, Advance, Wait, Sleep, Done, Kill
  <2>2. q = p
    BY <2>1 DEF TakeEof, Take, IInv, LockInv
  <2>. QED BY <2>1, <2>2 DEF TakeEof, Take
<1>. QED BY <1>1, ConsoleInductive, PTL DEF Spec, EofGivesEmptyRead

-----------------------------------------------------------------------------
(* The refinement of LineInput                                             *)

Line == Part(w, Distance(w, e))
Ready == Part(r, Distance(r, w))

\* Part(), with the buffer as a parameter: it is needed before and after a step.
PartOf(f, x, n) == [k \in 1..n |-> f[((x + k - 1) % CntMod) % INPUT_BUF_SIZE]]

LEMMA PartFacts ==
  ASSUME NEW f \in [0..INPUT_BUF_SIZE - 1 -> Chars], NEW x \in 0..CntMod - 1, NEW n \in 0..CntMod
  PROVE  /\ PartOf(f, x, n) \in Seq(Chars) /\ Len(PartOf(f, x, n)) = n
         /\ \A k \in 1..n : PartOf(f, x, n)[k] = Cell(f, x, k)
<1>1. n \in Nat
  BY Sizes
<1>2. ASSUME NEW k \in 1..n
      PROVE  /\ f[((x + k - 1) % CntMod) % INPUT_BUF_SIZE] = Cell(f, x, k)
             /\ f[((x + k - 1) % CntMod) % INPUT_BUF_SIZE] \in Chars
  <2>1. x + k - 1 \in -CntMod..2 * CntMod - 1 /\ x + k - 1 \in Int
    BY Sizes
  <2>2. ((x + k - 1) % CntMod) % INPUT_BUF_SIZE = (x + k - 1) % INPUT_BUF_SIZE
    BY <2>1, CellWraps
  <2>3. (x + k - 1) % INPUT_BUF_SIZE \in 0..INPUT_BUF_SIZE - 1
    BY <2>1, PlaceType
  <2>. QED BY <2>2, <2>3 DEF Cell
<1>3. PartOf(f, x, n) \in [1..n -> Chars]
  BY <1>2 DEF PartOf
<1>4. \A k \in 1..n : PartOf(f, x, n)[k] = Cell(f, x, k)
  BY <1>2 DEF PartOf
<1>. HIDE DEF PartOf
<1>. QED BY <1>1, <1>3, <1>4

\* What the two parts are, before and after a step
LEMMA PartsNow ==
  /\ Line = PartOf(buf, w, B) /\ Ready = PartOf(buf, r, A)
  /\ Line' = PartOf(buf', w', B') /\ Ready' = PartOf(buf', r', A')
  BY DEF Line, Ready, Part, PartOf, At, A, B

LEMMA PartTypes ==
  ASSUME IInv
  PROVE  /\ A \in 0..CntMod /\ B \in 0..CntMod /\ A + B <= CntMod
         /\ buf \in [0..INPUT_BUF_SIZE - 1 -> Chars]
         /\ r \in 0..CntMod - 1 /\ w \in 0..CntMod - 1 /\ e \in 0..CntMod - 1
         /\ Line \in Seq(Chars) /\ Len(Line) = B /\ \A k \in 1..B : Line[k] = Cell(buf, w, k)
         /\ Ready \in Seq(Chars) /\ Len(Ready) = A /\ \A k \in 1..A : Ready[k] = Cell(buf, r, k)
<1>1. A \in 0..CntMod /\ B \in 0..CntMod /\ A + B <= CntMod
  BY OrderFacts, Sizes DEF IInv
<1>2. buf \in [0..INPUT_BUF_SIZE - 1 -> Chars]
  BY DEF IInv, TypeOK
<1>3. r \in 0..CntMod - 1 /\ w \in 0..CntMod - 1 /\ e \in 0..CntMod - 1
  BY Indices DEF IInv
<1>4. Line \in Seq(Chars) /\ Len(Line) = B /\ \A k \in 1..B : Line[k] = Cell(buf, w, k)
  BY <1>1, <1>2, <1>3, PartFacts, PartsNow
<1>5. Ready \in Seq(Chars) /\ Len(Ready) = A /\ \A k \in 1..A : Ready[k] = Cell(buf, r, k)
  BY <1>1, <1>2, <1>3, PartFacts, PartsNow
<1>. QED BY <1>1, <1>2, <1>3, <1>4, <1>5

LEMMA NothingIsEmpty ==
  ASSUME NEW f, NEW x
  PROVE  PartOf(f, x, 0) = <<>>
  BY DEF PartOf

\* A typed character changes its own cell and no other.
LEMMA TypedCells ==
  ASSUME IInv, NEW c \in Chars, Typed(c)
  PROVE  /\ \A k \in 1..A : Cell(buf', r, k) = Cell(buf, r, k)
         /\ \A k \in 1..B : Cell(buf', w, k) = Cell(buf, w, k)
         /\ Cell(buf', w, B + 1) = c
         /\ \A j \in Int : Cell(buf', r, A + j) = Cell(buf', w, j)
<1>1. /\ A \in Nat /\ B \in Nat /\ A + B < INPUT_BUF_SIZE
      /\ r \in 0..CntMod - 1 /\ w \in 0..CntMod - 1 /\ r \in Int /\ w \in Int /\ e \in Int
  BY TypedMoves, Indices, Sizes DEF IInv
<1>2. (w + (B + 1) - 1) % INPUT_BUF_SIZE = e % INPUT_BUF_SIZE
  BY LastCell DEF IInv
<1>3. \A j \in Int : (r + (A + j) - 1) % INPUT_BUF_SIZE = (w + j - 1) % INPUT_BUF_SIZE
  BY <1>1, CellFrom DEF A
<1>. HIDE DEF A, B
<1>4. (r + (A + (B + 1)) - 1) % INPUT_BUF_SIZE = e % INPUT_BUF_SIZE
  <2>1. B + 1 \in Int
    BY <1>1
  <2>2. (r + (A + (B + 1)) - 1) % INPUT_BUF_SIZE = (w + (B + 1) - 1) % INPUT_BUF_SIZE
    BY <1>3, <2>1, Zenon
  <2>. QED BY <1>2, <2>2, Zenon
<1>5. /\ buf \in [0..INPUT_BUF_SIZE - 1 -> Chars]
      /\ buf' = [buf EXCEPT ![e % INPUT_BUF_SIZE] = c]
      /\ e % INPUT_BUF_SIZE \in 0..INPUT_BUF_SIZE - 1
  BY <1>1, PlaceType DEF Typed, IInv, TypeOK
<1>6. /\ buf'[e % INPUT_BUF_SIZE] = c
      /\ \A j \in 0..INPUT_BUF_SIZE - 1 : j # e % INPUT_BUF_SIZE => buf'[j] = buf[j]
  BY <1>5
<1>7. \A x, i, j \in Int : j - i \in 1..INPUT_BUF_SIZE - 1 =>
         (x + i - 1) % INPUT_BUF_SIZE # (x + j - 1) % INPUT_BUF_SIZE
  BY CellsDiffer
<1>8. \A x, i \in Int : (x + i - 1) % INPUT_BUF_SIZE \in 0..INPUT_BUF_SIZE - 1
  <2>1. \A x, i \in Int : x + i - 1 \in Int
    OBVIOUS
  <2>. QED BY <2>1, PlaceType
<1>9. ASSUME NEW k \in 1..A PROVE Cell(buf', r, k) = Cell(buf, r, k)
  <2>1. k \in Int /\ A + (B + 1) \in Int /\ (A + (B + 1)) - k \in 1..INPUT_BUF_SIZE - 1
    BY <1>1, Sizes
  <2>2. (r + k - 1) % INPUT_BUF_SIZE # (r + (A + (B + 1)) - 1) % INPUT_BUF_SIZE
    BY <1>1, <1>7, <2>1
  <2>3. (r + k - 1) % INPUT_BUF_SIZE \in 0..INPUT_BUF_SIZE - 1
    BY <1>1, <1>8, <2>1
  <2>. QED BY <1>4, <1>6, <2>2, <2>3 DEF Cell
<1>10. ASSUME NEW k \in 1..B PROVE Cell(buf', w, k) = Cell(buf, w, k)
  <2>1. k \in Int /\ B + 1 \in Int /\ (B + 1) - k \in 1..INPUT_BUF_SIZE - 1
    BY <1>1, Sizes
  <2>2. (w + k - 1) % INPUT_BUF_SIZE # (w + (B + 1) - 1) % INPUT_BUF_SIZE
    BY <1>1, <1>7, <2>1
  <2>3. (w + k - 1) % INPUT_BUF_SIZE \in 0..INPUT_BUF_SIZE - 1
    BY <1>1, <1>8, <2>1
  <2>. QED BY <1>2, <1>6, <2>2, <2>3 DEF Cell
<1>11. Cell(buf', w, B + 1) = c
  BY <1>2, <1>6 DEF Cell
<1>12. \A j \in Int : Cell(buf', r, A + j) = Cell(buf', w, j)
  BY <1>3 DEF Cell
<1>. QED BY <1>9, <1>10, <1>11, <1>12

LEMMA TypedImplements ==
  ASSUME IInv, IInv', NEW c \in Chars, Typed(c)
  PROVE  Abs!Type(c)
<1>1. /\ A \in 0..CntMod /\ B \in 0..CntMod /\ A + B <= CntMod
      /\ r \in 0..CntMod - 1 /\ w \in 0..CntMod - 1
      /\ Line \in Seq(Chars) /\ Len(Line) = B /\ \A k \in 1..B : Line[k] = Cell(buf, w, k)
      /\ Ready \in Seq(Chars) /\ Len(Ready) = A /\ \A k \in 1..A : Ready[k] = Cell(buf, r, k)
  BY PartTypes
<1>2. /\ e' \in 0..CntMod - 1
      /\ A \in Nat /\ B \in Nat /\ A + B < INPUT_BUF_SIZE
      /\ Distance(w, e') = B + 1 /\ Distance(r, e') = A + B + 1
      /\ \/ c \in {Newline, CtrlD} \/ A + B + 1 = INPUT_BUF_SIZE
         <=> Completes(c, e')
  BY TypedMoves
<1>3. /\ \A k \in 1..A : Cell(buf', r, k) = Cell(buf, r, k)
      /\ \A k \in 1..B : Cell(buf', w, k) = Cell(buf, w, k)
      /\ Cell(buf', w, B + 1) = c
      /\ \A j \in Int : Cell(buf', r, A + j) = Cell(buf', w, j)
  BY TypedCells
<1>4. buf' \in [0..INPUT_BUF_SIZE - 1 -> Chars] /\ r' = r
  BY DEF IInv, TypeOK, Typed
<1>5. /\ Append(Line, c) \in Seq(Chars) /\ Len(Append(Line, c)) = B + 1
      /\ \A k \in 1..B + 1 : Append(Line, c)[k] = Cell(buf', w, k)
  <2>1. /\ Append(Line, c) \in Seq(Chars) /\ Len(Append(Line, c)) = B + 1
        /\ \A k \in 1..B : Append(Line, c)[k] = Line[k]
        /\ Append(Line, c)[B + 1] = c
    <3>. HIDE DEF Line, Cell, B
    <3>. QED BY <1>1, <1>2
  <2>. HIDE DEF Line, Cell, B
  <2>2. ASSUME NEW k \in 1..B + 1 PROVE Append(Line, c)[k] = Cell(buf', w, k)
    <3>1. CASE k = B + 1
      BY <1>3, <2>1, <3>1
    <3>2. CASE k # B + 1
      <4>1. k \in 1..B
        BY <1>2, <3>2
      <4>. QED BY <1>1, <1>3, <2>1, <4>1
    <3>. QED BY <3>1, <3>2
  <2>. QED BY <2>1, <2>2
<1>6. CASE Completes(c, e')
  <2>1. w' = e'
    BY <1>6 DEF Typed
  <2>2. A' = A + B + 1 /\ B' = 0
    <3>1. A' = Distance(r, e')
      BY <1>4, <2>1 DEF A, Distance
    <3>2. B' = Distance(e', e')
      BY <2>1 DEF B, Distance
    <3>. QED BY <1>2, <3>1, <3>2, DistanceType
  <2>3. Line' = <<>>
    BY <2>2, PartsNow, NothingIsEmpty
  <2>4. Ready' = PartOf(buf', r, A + B + 1)
    BY <1>4, <2>2, PartsNow
  <2>. HIDE DEF Line, Ready, A, B, Cell, PartOf
  <2>5. A + B + 1 \in 0..CntMod
    BY <1>2, Sizes
  <2>6. /\ Ready' \in Seq(Chars) /\ Len(Ready') = A + B + 1
        /\ \A k \in 1..A + B + 1 : Ready'[k] = Cell(buf', r, k)
    BY <1>1, <1>4, <2>4, <2>5, PartFacts
  <2>7. /\ Ready \o Append(Line, c) \in Seq(Chars)
        /\ Len(Ready \o Append(Line, c)) = A + B + 1
        /\ \A k \in 1..A + B + 1 : (Ready \o Append(Line, c))[k] =
              IF k <= A THEN Ready[k] ELSE Append(Line, c)[k - A]
    <3>. DEFINE t == Append(Line, c)
    <3>1. Ready \in Seq(Chars) /\ t \in Seq(Chars) /\ Len(Ready) = A /\ Len(t) = B + 1
      BY <1>1, <1>5
    <3>. HIDE DEF t
    <3>2. /\ Ready \o t \in Seq(Chars)
          /\ Len(Ready \o t) = Len(Ready) + Len(t)
          /\ \A k \in 1..Len(Ready) + Len(t) : (Ready \o t)[k] =
                IF k <= Len(Ready) THEN Ready[k] ELSE t[k - Len(Ready)]
      BY <3>1, ConcatProperties
    <3>3. Len(Ready) + Len(t) = A + B + 1
      BY <1>2, <3>1
    <3>. QED BY <3>1, <3>2, <3>3 DEF t
  <2>8. ASSUME NEW k \in 1..A + B + 1 PROVE Ready'[k] = (Ready \o Append(Line, c))[k]
    <3>1. CASE k <= A
      <4>1. k \in 1..A
        BY <1>2, <3>1
      <4>. QED BY <1>1, <1>3, <2>6, <2>7, <3>1, <4>1
    <3>2. CASE ~ (k <= A)
      <4>1. k - A \in 1..B + 1 /\ k - A \in Int /\ A + (k - A) = k
        BY <1>2, <3>2
      <4>2. Cell(buf', r, A + (k - A)) = Cell(buf', w, k - A)
        BY <1>3, <4>1
      <4>3. Append(Line, c)[k - A] = Cell(buf', w, k - A)
        BY <1>5, <4>1
      <4>. QED BY <2>6, <2>7, <3>2, <4>1, <4>2, <4>3
    <3>. QED BY <3>1, <3>2
  <2>9. Ready' = Ready \o Append(Line, c)
    BY <2>6, <2>7, <2>8, SeqEqual
  <2>10. Len(Line) + Len(Ready) < INPUT_BUF_SIZE
    BY <1>1, <1>2
  <2>11. c \in {Newline, CtrlD} \/ Len(Line) + Len(Ready) + 1 = INPUT_BUF_SIZE
    <3>1. B + A + 1 = A + B + 1
      BY <1>2
    <3>. QED BY <1>1, <1>2, <1>6, <3>1
  <2>. QED BY <2>3, <2>9, <2>10, <2>11 DEF Abs!Type, Line, Ready
<1>7. CASE ~ Completes(c, e')
  <2>1. w' = w
    BY <1>7 DEF Typed
  <2>2. A' = A /\ B' = B + 1
    BY <1>2, <1>4, <2>1 DEF A, B, Distance
  <2>3. Ready' = PartOf(buf', r, A) /\ Line' = PartOf(buf', w, B + 1)
    BY <1>4, <2>1, <2>2, PartsNow
  <2>. HIDE DEF Line, Ready, A, B, Cell, PartOf
  <2>4. B + 1 \in 0..CntMod
    BY <1>2, Sizes
  <2>5. /\ Ready' \in Seq(Chars) /\ Len(Ready') = A
        /\ \A k \in 1..A : Ready'[k] = Cell(buf', r, k)
    BY <1>1, <1>4, <2>3, PartFacts
  <2>6. /\ Line' \in Seq(Chars) /\ Len(Line') = B + 1
        /\ \A k \in 1..B + 1 : Line'[k] = Cell(buf', w, k)
    BY <1>1, <1>4, <2>3, <2>4, PartFacts
  <2>7. Ready' = Ready
    <3>1. Len(Ready') = Len(Ready) /\ \A k \in 1..Len(Ready) : Ready'[k] = Ready[k]
      BY <1>1, <1>3, <2>5
    <3>. QED BY <1>1, <2>5, <3>1, SeqEqual
  <2>8. Line' = Append(Line, c)
    BY <1>5, <2>6, SeqEqual
  <2>9. Len(Line) + Len(Ready) < INPUT_BUF_SIZE
    BY <1>1, <1>2
  <2>10. ~ (c \in {Newline, CtrlD} \/ Len(Line) + Len(Ready) + 1 = INPUT_BUF_SIZE)
    <3>1. B + A + 1 = A + B + 1
      BY <1>2
    <3>. QED BY <1>1, <1>2, <1>7, <3>1
  <2>. QED BY <2>7, <2>8, <2>9, <2>10 DEF Abs!Type, Line, Ready
<1>. QED BY <1>6, <1>7

\* Erasing from the end leaves what is in front of it.
LEMMA ShorterLine ==
  ASSUME IInv, NEW k \in 0..B, UNCHANGED <<buf, r, w>>, A' = A, B' = B - k
  PROVE  Line' = SubSeq(Line, 1, B - k) /\ Ready' = Ready
<1>1. /\ A \in 0..CntMod /\ B \in 0..CntMod /\ buf \in [0..INPUT_BUF_SIZE - 1 -> Chars]
      /\ w \in 0..CntMod - 1
      /\ Line \in Seq(Chars) /\ Len(Line) = B /\ \A i \in 1..B : Line[i] = Cell(buf, w, i)
  BY PartTypes
<1>2. Line' = PartOf(buf, w, B - k) /\ Ready' = Ready
  BY PartsNow
<1>. HIDE DEF Line, Ready, A, B, PartOf, Cell
<1>3. B - k \in 0..CntMod /\ B - k \in Int /\ 1..B - k \subseteq 1..B /\ (B - k) - 1 + 1 = B - k
  BY <1>1, Sizes
<1>4. /\ Line' \in Seq(Chars) /\ Len(Line') = B - k
      /\ \A i \in 1..B - k : Line'[i] = Cell(buf, w, i)
  BY <1>1, <1>2, <1>3, PartFacts
<1>5. \A i \in 1..B - k : Line[i] \in Chars
  BY <1>1, <1>3
<1>. DEFINE s == SubSeq(Line, 1, B - k)
<1>6. /\ s \in Seq(Chars) /\ Len(s) = IF 1 <= B - k THEN (B - k) - 1 + 1 ELSE 0
      /\ \A i \in 1..(B - k) - 1 + 1 : s[i] = Line[1 + i - 1]
  BY <1>3, <1>5, SubSeqProperties
<1>. HIDE DEF s
<1>7. Len(s) = B - k
  BY <1>1, <1>3, <1>6
<1>8. \A i \in 1..B - k : s[i] = Line[i]
  BY <1>3, <1>6
<1>9. \A i \in 1..Len(s) : Line'[i] = s[i]
  BY <1>1, <1>3, <1>4, <1>7, <1>8
<1>10. Line' = s
  BY <1>4, <1>6, <1>7, <1>9, SeqEqual
<1>. QED BY <1>2, <1>10 DEF s

LEMMA BackspaceImplements ==
  ASSUME IInv, Backspace
  PROVE  Abs!Erase
<1>1. A' = A /\ B' = B - 1 /\ B # 0
  BY BackspaceKeeps
<1>2. B \in 0..CntMod /\ Len(Line) = B
  BY PartTypes
<1>3. 1 \in 0..B
  BY <1>1, <1>2, Sizes
<1>4. Line' = SubSeq(Line, 1, B - 1) /\ Ready' = Ready
  BY <1>1, <1>3, ShorterLine DEF Backspace
<1>5. Line # <<>>
  <2>1. Len(<<>>) = 0
    OBVIOUS
  <2>. HIDE DEF Line, B
  <2>. QED BY <1>1, <1>2, <2>1
<1>6. Line' = SubSeq(Line, 1, Len(Line) - 1)
  <2>. HIDE DEF Line, B
  <2>. QED BY <1>2, <1>4
<1>. QED BY <1>4, <1>5, <1>6 DEF Abs!Erase, Line, Ready

LEMMA KillLineImplements ==
  ASSUME IInv, KillLine
  PROVE  Abs!EraseLine
<1>1. A' = A /\ B' = 0
  BY KillLineKeeps
<1>2. Line' = <<>>
  BY <1>1, PartsNow, NothingIsEmpty
<1>3. Ready' = Ready
  BY <1>1, PartsNow DEF KillLine
<1>. QED BY <1>2, <1>3 DEF Abs!EraseLine, Line, Ready

\* What one more read leaves
LEMMA NextCells ==
  ASSUME NEW x \in 0..CntMod - 1, NEW f, NEW k \in Int
  PROVE  Cell(f, (x + 1) % CntMod, k) = Cell(f, x, k + 1)
<1>. DEFINE x1 == (x + 1) % CntMod
            v == x1 + k - 1
            z == x + (k + 1) - 1
<1>1. x1 \in 0..CntMod - 1 /\ x1 = IF x + 1 < CntMod THEN x + 1 ELSE x + 1 - CntMod
  BY RingStep, Sizes
<1>. HIDE DEF x1
<1>2. v \in Int /\ (z = v \/ z = v + CntMod)
  BY <1>1, Sizes
<1>. HIDE DEF v, z
<1>3. z % INPUT_BUF_SIZE = v % INPUT_BUF_SIZE
  <2>1. (v + CntMod) % INPUT_BUF_SIZE = v % INPUT_BUF_SIZE
    BY <1>2, WholeTurns
  <2>. QED BY <1>2, <2>1, Zenon
<1>. QED BY <1>3 DEF Cell, x1, v, z

LEMMA ReadImplements ==
  ASSUME IInv, r # w, r' = (r + 1) % CntMod, UNCHANGED <<buf, w, e>>
  PROVE  Abs!Read
<1>1. r' \in 0..CntMod - 1 /\ A \in Nat \ {0} /\ A' = A - 1 /\ B' = B
  BY ReadMoves
<1>2. /\ A \in 0..CntMod /\ buf \in [0..INPUT_BUF_SIZE - 1 -> Chars] /\ r \in 0..CntMod - 1
      /\ Ready \in Seq(Chars) /\ Len(Ready) = A /\ \A k \in 1..A : Ready[k] = Cell(buf, r, k)
  BY PartTypes
<1>3. Line' = Line /\ Ready' = PartOf(buf, r', A - 1)
  BY <1>1, PartsNow
<1>4. \A k \in Int : Cell(buf, r', k) = Cell(buf, r, k + 1)
  BY <1>2, NextCells
<1>. HIDE DEF Line, Ready, A, B, PartOf, Cell
<1>5. A - 1 \in 0..CntMod
  BY <1>1, <1>2, Sizes
<1>6. /\ Ready' \in Seq(Chars) /\ Len(Ready') = A - 1
      /\ \A k \in 1..A - 1 : Ready'[k] = Cell(buf, r', k)
  BY <1>1, <1>2, <1>3, <1>5, PartFacts
<1>7. Ready # <<>>
  <2>1. Len(<<>>) = 0
    OBVIOUS
  <2>. QED BY <1>1, <1>2, <2>1
<1>. DEFINE t == Tail(Ready)
<1>8. /\ t \in Seq(Chars) /\ Len(t) = Len(Ready) - 1
      /\ \A k \in 1..Len(t) : t[k] = Ready[k + 1]
  BY <1>2, <1>7, HeadTailProperties
<1>. HIDE DEF t
<1>9. Len(t) = A - 1
  BY <1>2, <1>8
<1>10. ASSUME NEW k \in 1..A - 1 PROVE Ready'[k] = t[k]
  <2>1. k \in Int /\ k + 1 \in 1..A
    BY <1>1
  <2>2. t[k] = Ready[k + 1] /\ Ready[k + 1] = Cell(buf, r, k + 1)
    BY <1>2, <1>8, <1>9, <2>1
  <2>. QED BY <1>4, <1>6, <2>1, <2>2
<1>11. Ready' = t
  BY <1>6, <1>8, <1>9, <1>10, SeqEqual
<1>. QED BY <1>3, <1>7, <1>11 DEF t, Abs!Read, Line, Ready

\* Every execution of the console is one of a line discipline: the ring and its
\* three wrapping indices behave as a line being typed and a queue of complete
\* lines.  Erasing never reaches a line that was handed over, no character is lost,
\* repeated or overtaken, and a ^D gives an empty read.
THEOREM ConsoleRefines == Spec => RefinesLineInput
<1>1. Init => Abs!Init
  <2>. SUFFICES ASSUME Init PROVE Line = <<>> /\ Ready = <<>>
    BY DEF Abs!Init, Line, Ready
  <2>1. TypeOK
    BY InitKeeps DEF IInv
  <2>2. A = 0 /\ B = 0
    BY <2>1, Indices, DistanceType DEF Init, A, B
  <2>. QED BY <2>2, PartsNow, NothingIsEmpty
<1>2. IInv /\ IInv' /\ [Next]_vars => [Abs!Next]_<<Line, Ready>>
  <2>. SUFFICES ASSUME IInv, IInv', [Next]_vars PROVE Abs!Next \/ UNCHANGED <<Line, Ready>>
    OBVIOUS
  <2>1. ASSUME UNCHANGED cons PROVE UNCHANGED <<Line, Ready>>
    BY <2>1 DEF cons, Line, Ready, Part, At, Distance
  <2>2. CASE Intr
    BY <2>2, BackspaceImplements, KillLineImplements, TypedImplements DEF Intr, Abs!Next
  <2>3. ASSUME NEW p \in Procs, Advance(p) PROVE Abs!Next \/ UNCHANGED cons
    <3>1. CASE TakeEof(p)
      <4>1. CASE fresh[p]
        BY <3>1, <4>1, ReadImplements DEF TakeEof, Abs!Next
      <4>2. CASE ~ fresh[p]
        BY <3>1, <4>2 DEF TakeEof, cons
      <4>. QED BY <4>1, <4>2
    <3>2. ASSUME NEW copied \in BOOLEAN, Take(p, copied) PROVE Abs!Next
      BY <3>2, ReadImplements DEF Take, Abs!Next
    <3>. QED BY <2>3, <3>1, <3>2 DEF Advance, Wait, Sleep, Done
  <2>4. CASE UNCHANGED vars
    BY <2>1, <2>4 DEF vars
  <2>. QED BY <2>1, <2>2, <2>3, <2>4 DEF Next, CallRead, Lock, Kill
<1>3. Spec => Abs!Spec
  BY <1>1, <1>2, ConsoleInductive, PTL DEF Spec, Abs!Spec, Line, Ready
<1>. QED BY <1>3, ConsoleEof DEF RefinesLineInput

-----------------------------------------------------------------------------
(***************************************************************************)
(* The serial line.  The proof of Serial (Printk and Uart), for any number *)
(* of threads, any size of the rings and any counter width that is a       *)
(* multiple of the transmit buffer's size.                                 *)
(*                                                                         *)
(* The argument.  Whoever has seen the UART idle is about to write one     *)
(* byte; what is in the FIFO and what is about to come are together never  *)
(* more than the threads (FifoInv).  pr.lock is held by whoever is in its  *)
(* output, as long as pr.locking is set (PrLockInv), and a thread that     *)
(* panics has cleared it (PanicInv).  A ring has no counters but head and  *)
(* tail: they are the bytes sent and the bytes put, modulo its capacity    *)
(* (MessageInv), and a full ring always gives away the same number of      *)
(* bytes, so that the lengths at which a message ends on a full ring can   *)
(* be told in advance.                                                     *)
(***************************************************************************)
\* The threads that have seen the UART idle and have not written yet
Pending == {h \in Threads : upc[h] \in {"thr", "sync_thr"}}

FifoInv == fifo + Cardinality(Pending) <= Cardinality(Threads)

PrLockInv ==
    locking => \A h \in Threads :
        /\ ppc[h] \in {"acquire", "put", "part", "release"} => holds[h]
        /\ ppc[h] \in {"put", "part", "release"} => prlock = h

PanicInv ==
    \A h \in Threads : todo[h] > 0 =>
        ~ locking /\ ppc[h] # "acquire" /\ upc[h] \in {"idle", "sync", "sync_thr", "spin"}

TxUsed == (uart_tx_w - uart_tx_r) % TxMod

SerialIInv == Sr!TypeOK /\ FifoInv /\ PrLockInv /\ PanicInv /\ TxUsed <= UART_TX_BUF_SIZE

\* What a full ring gives away, and the bytes of h's message that are sent
Quarter == Capacity \div 4
Sent(h) == Len(line[h])

\* Where the bytes of a message are: sent, in the ring, or still to come.
PlacesInv(h) ==
    /\ line[h] = [k \in 1..Sent(h) |-> k]
    /\ Sent(h) <= nput[h] /\ nput[h] <= len[h] /\ nput[h] - Sent(h) <= Capacity
    /\ head[h] = Sent(h) % Capacity /\ tail[h] = nput[h] % Capacity
    /\ \A i \in Sent(h)..nput[h] - 1 : buffer[h][i % Capacity] = i + 1

\* What the steps of printk() know of them
StageInv(h) ==
    /\ ppc[h] \in {"idle", "acquire"} => nput[h] = 0 /\ ~ full[h]
    /\ ppc[h] \in {"acquire", "put", "part"} => len[h] \in Lengths
    /\ ppc[h] = "put" =>
          /\ full[h] <=> nput[h] - Sent(h) = Capacity
          /\ Sent(h) > 0 => nput[h] - Sent(h) > Capacity - Quarter
          /\ \E m \in Nat : Sent(h) = m * Quarter
    /\ ppc[h] = "part" /\ nput[h] < len[h] =>
          /\ full[h] /\ nput[h] - Sent(h) = Capacity - Quarter + quota[h]
          /\ \E m \in Nat : Sent(h) + quota[h] = m * Quarter
    /\ ppc[h] = "part" /\ nput[h] = len[h] =>
          IF Sr!EndsFull(len[h])
          THEN quota[h] = 0 /\ nput[h] - Sent(h) = Capacity
          ELSE quota[h] = nput[h] - Sent(h) /\ quota[h] < Capacity /\ ~ full[h]
    /\ ppc[h] \in {"release", "done", "halt"} => Sent(h) = len[h] - Sr!Unprinted(len[h])

MessageInv == \A h \in Threads : PlacesInv(h) /\ StageInv(h)

-----------------------------------------------------------------------------
(* Constants and sets                                                      *)

LEMMA SameCount == \A T : Sr!Cardinality(T) = Cardinality(T)
  BY DEF Sr!Cardinality, Cardinality

LEMMA SerialSizes ==
  ASSUME Sr!SerialAssumption
  PROVE  /\ NoThread \notin Threads /\ Capacity \in Nat \ {0} /\ Capacity >= 4
         /\ Lengths \subseteq Nat /\ Bytes # {} /\ MayPanic \subseteq Threads
         /\ UART_TX_BUF_SIZE \in Nat \ {0} /\ TxMod \in Nat \ {0} /\ TxMod > UART_TX_BUF_SIZE
         /\ TxMod % UART_TX_BUF_SIZE = 0 /\ UART_TX_BUF_SIZE \in 0..TxMod
         /\ IsFiniteSet(Threads) /\ Cardinality(Threads) \in Nat /\ Cardinality(Threads) <= FifoDepth
<1>1. Sr!PrintkAssumption /\ Bytes # {} /\ Sr!IsFiniteSet(Threads)
  BY DEF Sr!SerialAssumption
<1>2. /\ UART_TX_BUF_SIZE \in Nat \ {0} /\ TxMod \in Nat /\ TxMod > UART_TX_BUF_SIZE
      /\ TxMod % UART_TX_BUF_SIZE = 0 /\ FifoDepth \in Nat /\ Sr!Cardinality(Threads) <= FifoDepth
  BY DEF Sr!SerialAssumption
<1>3. IsFiniteSet(Threads)
  BY <1>1 DEF Sr!IsFiniteSet, IsFiniteSet
<1>4. Cardinality(Threads) \in Nat
  BY <1>3, FS_CardinalityType
<1>5. Cardinality(Threads) <= FifoDepth
  BY <1>2, SameCount
<1>6. NoThread \notin Threads /\ Capacity \in Nat /\ Capacity >= 4 /\ Lengths \subseteq Nat /\ MayPanic \subseteq Threads
  BY <1>1 DEF Sr!PrintkAssumption
<1>. QED BY <1>1, <1>2, <1>3, <1>4, <1>5, <1>6

LEMMA NoByteType ==
  ASSUME Sr!SerialAssumption
  PROVE  Sr!U!NoByte \in Bytes
  BY SerialSizes DEF Sr!U!NoByte

\* Threads that are about to write are never more than all of them.
LEMMA PendingFinite ==
  ASSUME Sr!SerialAssumption
  PROVE  /\ IsFiniteSet(Pending) /\ Cardinality(Pending) \in Nat
         /\ Cardinality(Pending) <= Cardinality(Threads)
<1>1. Pending \in SUBSET Threads
  BY DEF Pending
<1>2. IsFiniteSet(Pending) /\ Cardinality(Pending) <= Cardinality(Threads)
  BY <1>1, SerialSizes, FS_Subset
<1>. QED BY <1>2, FS_CardinalityType

-----------------------------------------------------------------------------
(* The transmit buffer                                                     *)

LEMMA TxFacts ==
  ASSUME Sr!SerialAssumption, Sr!U!TypeOK
  PROVE  /\ uart_tx_w \in 0..TxMod - 1 /\ uart_tx_r \in 0..TxMod - 1
         /\ TxUsed \in 0..TxMod - 1
         /\ uart_tx_w = uart_tx_r <=> TxUsed = 0
         /\ Sr!U!Full <=> TxUsed = UART_TX_BUF_SIZE
<1>1. uart_tx_w \in 0..TxMod - 1 /\ uart_tx_r \in 0..TxMod - 1
  BY DEF Sr!U!TypeOK
<1>2. (uart_tx_w - uart_tx_r) % TxMod = IF uart_tx_w >= uart_tx_r THEN uart_tx_w - uart_tx_r
                                        ELSE uart_tx_w - uart_tx_r + TxMod
  BY <1>1, SerialSizes, RingDistance
<1>3. (uart_tx_r + UART_TX_BUF_SIZE) % TxMod =
         IF uart_tx_r + UART_TX_BUF_SIZE < TxMod THEN uart_tx_r + UART_TX_BUF_SIZE
         ELSE uart_tx_r + UART_TX_BUF_SIZE - TxMod
  BY <1>1, SerialSizes, RingStep
<1>4. UART_TX_BUF_SIZE \in 1..TxMod - 1 /\ TxMod \in Nat
  BY SerialSizes
<1>5. \A u, f \in Int :
         /\ u = (IF uart_tx_w >= uart_tx_r THEN uart_tx_w - uart_tx_r ELSE uart_tx_w - uart_tx_r + TxMod)
         /\ f = (IF uart_tx_r + UART_TX_BUF_SIZE < TxMod THEN uart_tx_r + UART_TX_BUF_SIZE
                 ELSE uart_tx_r + UART_TX_BUF_SIZE - TxMod)
         => /\ u \in 0..TxMod - 1
            /\ uart_tx_w = uart_tx_r <=> u = 0
            /\ uart_tx_w = f <=> u = UART_TX_BUF_SIZE
  BY <1>1, <1>4
<1>6. TxUsed \in Int /\ (uart_tx_r + UART_TX_BUF_SIZE) % TxMod \in Int
  BY <1>1, <1>2, <1>3, <1>4 DEF TxUsed
<1>. QED BY <1>1, <1>2, <1>3, <1>5, <1>6 DEF TxUsed, Sr!U!Full

LEMMA StoreMoves ==
  ASSUME Sr!SerialAssumption, Sr!U!TypeOK, TxUsed <= UART_TX_BUF_SIZE, NEW h \in Threads, Sr!U!Store(h)
  PROVE  TxUsed' = TxUsed + 1 /\ TxUsed' <= UART_TX_BUF_SIZE /\ uart_tx_w' \in 0..TxMod - 1
<1>1. TxUsed < UART_TX_BUF_SIZE /\ uart_tx_w' = (uart_tx_w + 1) % TxMod /\ uart_tx_r' = uart_tx_r
  BY TxFacts, SerialSizes DEF Sr!U!Store
<1>2. TxUsed # TxMod - 1
  BY <1>1, TxFacts, SerialSizes
<1>3. TxUsed' = TxUsed + 1
  BY <1>1, <1>2, TxFacts, SerialSizes, RingMoves DEF TxUsed
<1>4. 1 \in 0..TxMod
  BY SerialSizes
<1>5. uart_tx_w' \in 0..TxMod - 1
  BY <1>1, <1>4, TxFacts, SerialSizes, RingStep
<1>. QED BY <1>1, <1>3, <1>5, TxFacts, SerialSizes

LEMMA TakeMoves ==
  ASSUME Sr!SerialAssumption, Sr!U!TypeOK, TxUsed <= UART_TX_BUF_SIZE, NEW h \in Threads, Sr!U!StartTake(h)
  PROVE  TxUsed' = TxUsed - 1 /\ TxUsed # 0 /\ TxUsed' <= UART_TX_BUF_SIZE /\ uart_tx_r' \in 0..TxMod - 1
<1>1. uart_tx_w # uart_tx_r /\ uart_tx_r' = (uart_tx_r + 1) % TxMod /\ uart_tx_w' = uart_tx_w
  BY DEF Sr!U!StartTake
<1>2. TxUsed # 0
  BY <1>1, TxFacts
<1>3. TxUsed' = TxUsed - 1
  BY <1>1, <1>2, TxFacts, SerialSizes, RingMoves DEF TxUsed
<1>4. 1 \in 0..TxMod
  BY SerialSizes
<1>5. uart_tx_r' \in 0..TxMod - 1
  BY <1>1, <1>4, TxFacts, SerialSizes, RingStep
<1>. QED BY <1>2, <1>3, <1>5, TxFacts, SerialSizes

-----------------------------------------------------------------------------
(* The driver                                                              *)

DriverInv == Sr!U!TypeOK /\ FifoInv /\ TxUsed <= UART_TX_BUF_SIZE

\* A thread becomes pending only when the FIFO is empty, and what it writes then
\* it has been counted for.
LEMMA FifoKeeps ==
  ASSUME Sr!SerialAssumption, FifoInv, fifo \in Nat, fifo' \in Nat,
         \/ fifo' <= fifo /\ Pending' \subseteq Pending
         \/ fifo' = 0
         \/ \E h \in Pending : fifo' = fifo + 1 /\ Pending' \subseteq Pending \ {h}
  PROVE  FifoInv'
<1>1. /\ IsFiniteSet(Pending) /\ Cardinality(Pending) \in Nat
      /\ Cardinality(Threads) \in Nat
  BY PendingFinite, SerialSizes
<1>2. /\ IsFiniteSet(Pending') /\ Cardinality(Pending') \in Nat
      /\ Cardinality(Pending') <= Cardinality(Threads)
  <2>1. Pending' \in SUBSET Threads
    BY DEF Pending
  <2>2. IsFiniteSet(Pending') /\ Cardinality(Pending') <= Cardinality(Threads)
    BY <2>1, SerialSizes, FS_Subset
  <2>. QED BY <2>2, FS_CardinalityType
<1>3. CASE fifo' <= fifo /\ Pending' \subseteq Pending
  <2>1. Cardinality(Pending') <= Cardinality(Pending)
    BY <1>1, <1>3, FS_Subset
  <2>. QED BY <1>1, <1>2, <1>3, <2>1 DEF FifoInv
<1>4. CASE fifo' = 0
  BY <1>1, <1>2, <1>4 DEF FifoInv
<1>5. CASE \E h \in Pending : fifo' = fifo + 1 /\ Pending' \subseteq Pending \ {h}
  <2>1. PICK h \in Pending : fifo' = fifo + 1 /\ Pending' \subseteq Pending \ {h}
    BY <1>5
  <2>2. IsFiniteSet(Pending \ {h}) /\ Cardinality(Pending \ {h}) = Cardinality(Pending) - 1
    BY <1>1, <2>1, FS_RemoveElement
  <2>3. Cardinality(Pending') <= Cardinality(Pending \ {h})
    BY <2>1, <2>2, FS_Subset
  <2>. QED BY <1>1, <1>2, <2>1, <2>2, <2>3 DEF FifoInv
<1>. QED BY <1>3, <1>4, <1>5

\* A step of h that leaves the UART and the transmit buffer alone
LEMMA DriverMoves ==
  ASSUME Sr!SerialAssumption, DriverInv, NEW h \in Threads, NEW label \in Sr!U!PCs,
         upc' = [upc EXCEPT ![h] = label], fifo = 0 \/ label \notin {"thr", "sync_thr"},
         UNCHANGED <<Sr!U!tx, fifo>>,
         uart_tx_lock' \in Threads \cup {NoThread}, uc' \in [Threads -> Bytes]
  PROVE  DriverInv'
<1>1. upc \in [Threads -> Sr!U!PCs] /\ fifo \in Nat
  BY DEF DriverInv, Sr!U!TypeOK
<1>2. Sr!U!TypeOK'
  <2>1. upc' \in [Threads -> Sr!U!PCs]
    BY <1>1
  <2>. QED BY <2>1 DEF DriverInv, Sr!U!TypeOK, Sr!U!tx, Sr!U!PCs
<1>3. TxUsed' = TxUsed
  BY DEF TxUsed, Sr!U!tx
<1>4. fifo = 0 \/ Pending' \subseteq Pending
  BY <1>1 DEF Pending
<1>5. FifoInv'
  BY <1>1, <1>4, FifoKeeps DEF DriverInv
<1>. QED BY <1>2, <1>3, <1>5 DEF DriverInv

\* Write to the UART
LEMMA DriverWrites ==
  ASSUME Sr!SerialAssumption, DriverInv, NEW h \in Threads, NEW label \in Sr!U!PCs,
         upc[h] \in {"thr", "sync_thr"}, label \notin {"thr", "sync_thr"},
         upc' = [upc EXCEPT ![h] = label], fifo' = fifo + 1,
         UNCHANGED <<Sr!U!tx, uart_tx_lock, uc>>
  PROVE  DriverInv'
<1>1. upc \in [Threads -> Sr!U!PCs] /\ fifo \in Nat
  BY DEF DriverInv, Sr!U!TypeOK
<1>2. Sr!U!TypeOK'
  <2>1. upc' \in [Threads -> Sr!U!PCs] /\ fifo' \in Nat
    BY <1>1
  <2>. QED BY <2>1 DEF DriverInv, Sr!U!TypeOK, Sr!U!tx, Sr!U!PCs
<1>3. TxUsed' = TxUsed
  BY DEF TxUsed, Sr!U!tx
<1>4. h \in Pending /\ Pending' \subseteq Pending \ {h}
  BY <1>1 DEF Pending
<1>5. FifoInv'
  BY <1>1, <1>2, <1>4, FifoKeeps DEF DriverInv
<1>. QED BY <1>2, <1>3, <1>5 DEF DriverInv

LEMMA StoreKeeps ==
  ASSUME Sr!SerialAssumption, DriverInv, NEW h \in Threads, Sr!U!Store(h)
  PROVE  DriverInv'
<1>1. /\ upc \in [Threads -> Sr!U!PCs] /\ fifo \in Nat /\ uc \in [Threads -> Bytes]
      /\ uart_tx_buf \in [0..UART_TX_BUF_SIZE - 1 -> Bytes] /\ uart_tx_r \in 0..TxMod - 1
      /\ uart_tx_lock \in Threads \cup {NoThread}
  BY DEF DriverInv, Sr!U!TypeOK
<1>2. TxUsed' <= UART_TX_BUF_SIZE /\ uart_tx_w' \in 0..TxMod - 1
  BY StoreMoves DEF DriverInv
<1>3. /\ upc' = [upc EXCEPT ![h] = "start"] /\ fifo' = fifo /\ uc' = [uc EXCEPT ![h] = Sr!U!NoByte]
      /\ uart_tx_buf' = [uart_tx_buf EXCEPT ![uart_tx_w % UART_TX_BUF_SIZE] = uc[h]]
      /\ UNCHANGED <<uart_tx_r, uart_tx_lock>>
  BY DEF Sr!U!Store, Sr!U!GoTo, Sr!U!Hold
<1>4. Sr!U!TypeOK'
  <2>1. upc' \in [Threads -> Sr!U!PCs]
    BY <1>1, <1>3 DEF Sr!U!PCs
  <2>2. uart_tx_buf' \in [0..UART_TX_BUF_SIZE - 1 -> Bytes]
    BY <1>1, <1>3
  <2>3. uc' \in [Threads -> Bytes]
    BY <1>1, <1>3, NoByteType
  <2>. QED BY <1>1, <1>2, <1>3, <2>1, <2>2, <2>3 DEF Sr!U!TypeOK, Sr!U!PCs
<1>5. Pending' \subseteq Pending
  BY <1>1, <1>3 DEF Pending
<1>6. FifoInv'
  BY <1>1, <1>3, <1>5, FifoKeeps DEF DriverInv
<1>. QED BY <1>2, <1>4, <1>6 DEF DriverInv

LEMMA StartTakeKeeps ==
  ASSUME Sr!SerialAssumption, DriverInv, NEW h \in Threads, Sr!U!StartTake(h)
  PROVE  DriverInv'
<1>1. upc \in [Threads -> Sr!U!PCs] /\ fifo = 0 /\ fifo' = 0 /\ fifo \in Nat
  BY DEF DriverInv, Sr!U!TypeOK, Sr!U!StartTake, Sr!U!TxIdle
<1>2. TxUsed' <= UART_TX_BUF_SIZE /\ uart_tx_r' \in 0..TxMod - 1
  BY TakeMoves DEF DriverInv
<1>3. upc' \in [Threads -> Sr!U!PCs]
  BY <1>1 DEF Sr!U!StartTake, Sr!U!PCs
<1>4. Sr!U!TypeOK'
  BY <1>1, <1>2, <1>3 DEF DriverInv, Sr!U!TypeOK, Sr!U!StartTake, Sr!U!PCs
<1>5. FifoInv'
  BY <1>1, FifoKeeps DEF DriverInv
<1>. QED BY <1>2, <1>4, <1>5 DEF DriverInv

LEMMA SendKeeps ==
  ASSUME Sr!SerialAssumption, DriverInv, Sr!U!Send
  PROVE  DriverInv'
<1>1. fifo \in Nat /\ fifo' \in Nat /\ fifo' <= fifo
  BY DEF DriverInv, Sr!U!TypeOK, Sr!U!Send
<1>2. Pending' = Pending /\ TxUsed' = TxUsed
  BY DEF Pending, TxUsed, Sr!U!Send, Sr!U!tx
<1>3. Sr!U!TypeOK'
  BY <1>1 DEF DriverInv, Sr!U!TypeOK, Sr!U!Send, Sr!U!tx, Sr!U!PCs
<1>4. FifoInv'
  BY <1>1, <1>2, FifoKeeps DEF DriverInv
<1>. QED BY <1>2, <1>3, <1>4 DEF DriverInv

\* Calls, and the steps inside them
LEMMA CallsKeep ==
  ASSUME Sr!SerialAssumption, DriverInv, NEW h \in Threads,
         \/ \E b \in Bytes : Sr!U!CallPutc(h, b)
         \/ Sr!U!CallSync(h) \/ Sr!U!Abandon(h)
  PROVE  DriverInv'
<1>1. uart_tx_lock \in Threads \cup {NoThread} /\ uc \in [Threads -> Bytes]
  BY DEF DriverInv, Sr!U!TypeOK
<1>2. {"acquire", "spin", "sync", "idle"} \subseteq Sr!U!PCs \ {"thr", "sync_thr"}
  BY DEF Sr!U!PCs
<1>3. ASSUME NEW b \in Bytes, Sr!U!CallPutc(h, b) PROVE DriverInv'
  <2>1. upc' = [upc EXCEPT ![h] = "acquire"] /\ uc' = [uc EXCEPT ![h] = b] /\ UNCHANGED <<Sr!U!tx, uart_tx_lock, fifo>>
    BY <1>3 DEF Sr!U!CallPutc, Sr!U!GoTo, Sr!U!Hold
  <2>2. uc' \in [Threads -> Bytes]
    BY <1>1, <2>1
  <2>. QED BY <1>1, <1>2, <2>1, <2>2, DriverMoves
<1>4. CASE Sr!U!CallSync(h)
  <2>1. PICK label \in {"spin", "sync"} : upc' = [upc EXCEPT ![h] = label]
    BY <1>4 DEF Sr!U!CallSync, Sr!U!GoTo
  <2>2. UNCHANGED <<Sr!U!tx, uart_tx_lock, fifo, uc>>
    BY <1>4 DEF Sr!U!CallSync
  <2>. QED BY <1>1, <1>2, <2>1, <2>2, DriverMoves
<1>5. CASE Sr!U!Abandon(h)
  <2>1. upc' = [upc EXCEPT ![h] = "idle"] /\ uc' = [uc EXCEPT ![h] = Sr!U!NoByte] /\ UNCHANGED <<Sr!U!tx, uart_tx_lock, fifo>>
    BY <1>5 DEF Sr!U!Abandon, Sr!U!GoTo, Sr!U!Hold
  <2>2. uc' \in [Threads -> Bytes]
    BY <1>1, <2>1, NoByteType
  <2>. QED BY <1>1, <1>2, <2>1, <2>2, DriverMoves
<1>. QED BY <1>3, <1>4, <1>5

LEMMA DriverKeeps ==
  ASSUME Sr!SerialAssumption, DriverInv, NEW h \in Threads,
         Sr!U!Advance(h) \/ Sr!U!Acquire(h) \/ Sr!U!Reacquire(h) \/ Sr!U!SyncWait(h)
  PROVE  DriverInv'
<1>1. uart_tx_lock \in Threads \cup {NoThread} /\ uc \in [Threads -> Bytes]
  BY DEF DriverInv, Sr!U!TypeOK
<1>2. {"spin", "putc", "asleep", "idle", "sync_thr", "start"} \subseteq Sr!U!PCs
  BY DEF Sr!U!PCs
<1>3. CASE Sr!U!Acquire(h) \/ Sr!U!Reacquire(h)
  <2>1. PICK label \in {"spin", "putc"} : upc' = [upc EXCEPT ![h] = label]
    BY <1>3 DEF Sr!U!Acquire, Sr!U!Reacquire, Sr!U!GoTo
  <2>2. uart_tx_lock' = h /\ UNCHANGED <<Sr!U!tx, fifo, uc>>
    BY <1>3 DEF Sr!U!Acquire, Sr!U!Reacquire
  <2>. QED BY <1>1, <1>2, <2>1, <2>2, DriverMoves
<1>4. CASE Sr!U!Sleep(h) \/ Sr!U!StartReturn(h)
  <2>1. PICK label \in {"asleep", "idle"} : upc' = [upc EXCEPT ![h] = label]
    BY <1>4 DEF Sr!U!Sleep, Sr!U!StartReturn, Sr!U!GoTo
  <2>2. uart_tx_lock' = NoThread /\ UNCHANGED <<Sr!U!tx, fifo, uc>>
    BY <1>4 DEF Sr!U!Sleep, Sr!U!StartReturn
  <2>. QED BY <1>1, <1>2, <2>1, <2>2, DriverMoves
<1>5. CASE Sr!U!SyncWait(h)
  <2>1. fifo = 0 /\ upc' = [upc EXCEPT ![h] = "sync_thr"] /\ UNCHANGED <<Sr!U!tx, uart_tx_lock, fifo, uc>>
    BY <1>5 DEF Sr!U!SyncWait, Sr!U!GoTo, Sr!U!TxIdle
  <2>. QED BY <1>1, <1>2, <2>1, DriverMoves
<1>6. CASE Sr!U!StartWrite(h) \/ Sr!U!SyncWrite(h)
  <2>1. PICK label \in {"start", "idle"} : upc' = [upc EXCEPT ![h] = label]
    BY <1>6 DEF Sr!U!StartWrite, Sr!U!SyncWrite, Sr!U!GoTo
  <2>2. upc[h] \in {"thr", "sync_thr"} /\ fifo' = fifo + 1 /\ UNCHANGED <<Sr!U!tx, uart_tx_lock, uc>>
    BY <1>6 DEF Sr!U!StartWrite, Sr!U!SyncWrite
  <2>. QED BY <1>2, <2>1, <2>2, DriverWrites
<1>7. CASE Sr!U!Store(h)
  BY <1>7, StoreKeeps
<1>8. CASE Sr!U!StartTake(h)
  BY <1>8, StartTakeKeeps
<1>. QED BY <1>3, <1>4, <1>5, <1>6, <1>7, <1>8 DEF Sr!U!Advance

-----------------------------------------------------------------------------
(* printk() and panic(): types, pr.lock and pr.locking                     *)

RingTypes ==
    /\ head \in [Threads -> Sr!Slots] /\ tail \in [Threads -> Sr!Slots]
    /\ buffer \in [Threads -> [Sr!Slots -> Nat]] /\ quota \in [Threads -> Nat]
MessageTypes ==
    /\ len \in [Threads -> Nat] /\ nput \in [Threads -> Nat] /\ line \in [Threads -> Seq(Nat)]
FlagTypes ==
    /\ full \in [Threads -> BOOLEAN] /\ holds \in [Threads -> BOOLEAN]
    /\ locking \in BOOLEAN /\ panicked \in BOOLEAN
CallTypes ==
    /\ ppc \in [Threads -> Sr!PCs] /\ prlock \in Threads \cup {NoThread} /\ todo \in [Threads -> 0..3]

LEMMA TypesOf == Sr!PrintkTypeOK <=> RingTypes /\ MessageTypes /\ FlagTypes /\ CallTypes
  BY Zenon DEF Sr!PrintkTypeOK, RingTypes, MessageTypes, FlagTypes, CallTypes

LEMMA TypesOfNext == Sr!PrintkTypeOK' <=> RingTypes' /\ MessageTypes' /\ FlagTypes' /\ CallTypes'
  BY Zenon DEF Sr!PrintkTypeOK, RingTypes, MessageTypes, FlagTypes, CallTypes, Sr!Slots, Sr!PCs

LEMMA SlotMod ==
  ASSUME Sr!SerialAssumption
  PROVE  (\A x \in Int : x % Capacity \in Sr!Slots) /\ 0 \in Sr!Slots /\ Sr!Slots \subseteq Int
<1>1. Capacity \in Nat \ {0}
  BY SerialSizes
<1>2. \A x \in Int : x % Capacity \in 0..Capacity - 1
  BY <1>1, DivMod
<1>. QED BY <1>1, <1>2 DEF Sr!Slots

LEMMA BoolUpdate ==
  ASSUME NEW D, NEW f \in [D -> BOOLEAN], NEW d, NEW v \in BOOLEAN
  PROVE  [f EXCEPT ![d] = v] \in [D -> BOOLEAN]
  OBVIOUS

LEMMA EmptyMessage == <<>> \in Seq(Nat) /\ Len(<<>>) = 0
  OBVIOUS

LEMMA PutTypes ==
  ASSUME Sr!SerialAssumption, RingTypes, MessageTypes, FlagTypes, NEW h \in Threads, NEW k \in Nat, Sr!Put(h, k)
  PROVE  /\ buffer' \in [Threads -> [Sr!Slots -> Nat]] /\ nput' \in [Threads -> Nat]
         /\ tail' \in [Threads -> Sr!Slots] /\ full' \in [Threads -> BOOLEAN]
<1>. DEFINE end == (tail[h] + k) % Capacity
            row == [i \in Sr!Slots |-> IF (i - tail[h]) % Capacity < k THEN nput[h] + 1 + ((i - tail[h]) % Capacity)
                                       ELSE buffer[h][i]]
<1>1. /\ buffer' = [buffer EXCEPT ![h] = row] /\ nput' = [nput EXCEPT ![h] = @ + k]
      /\ tail' = [tail EXCEPT ![h] = end] /\ full' = [full EXCEPT ![h] = k > 0 /\ end = head[h]]
  BY DEF Sr!Put
<1>2. tail[h] \in Sr!Slots /\ tail[h] \in Int /\ nput[h] \in Nat /\ buffer[h] \in [Sr!Slots -> Nat]
  BY SlotMod DEF RingTypes, MessageTypes
<1>3. end \in Sr!Slots
  BY <1>2, SlotMod
<1>4. row \in [Sr!Slots -> Nat]
  <2>1. ASSUME NEW i \in Sr!Slots PROVE (i - tail[h]) % Capacity \in Nat
    <3>1. i - tail[h] \in Int
      BY <1>2, SlotMod
    <3>. QED BY <3>1, SlotMod DEF Sr!Slots
  <2>. QED BY <1>2, <2>1
<1>. HIDE DEF end, row
<1>5. full' \in [Threads -> BOOLEAN]
  BY <1>1, BoolUpdate DEF FlagTypes
<1>. QED BY <1>1, <1>2, <1>3, <1>4, <1>5 DEF RingTypes, MessageTypes

LEMMA ForgetTypes ==
  ASSUME Sr!SerialAssumption, RingTypes, MessageTypes, FlagTypes, CallTypes, NEW h \in Threads, Sr!Forget(h)
  PROVE  /\ RingTypes' /\ MessageTypes' /\ full' \in [Threads -> BOOLEAN] /\ holds' \in [Threads -> BOOLEAN]
         /\ ppc' \in [Threads -> Sr!PCs]
<1>1. 0 \in Sr!Slots /\ [i \in Sr!Slots |-> 0] \in [Sr!Slots -> Nat] /\ "idle" \in Sr!PCs
  BY SlotMod DEF Sr!PCs
<1>2. RingTypes'
  BY <1>1 DEF RingTypes, Sr!Forget, Sr!Slots
<1>3. MessageTypes'
  BY EmptyMessage DEF MessageTypes, Sr!Forget
<1>4. full' \in [Threads -> BOOLEAN] /\ holds' \in [Threads -> BOOLEAN]
  BY BoolUpdate DEF FlagTypes, Sr!Forget
<1>5. ppc' \in [Threads -> Sr!PCs]
  BY <1>1 DEF CallTypes, Sr!Forget, Sr!GoTo
<1>. QED BY <1>2, <1>3, <1>4, <1>5

\* Each step keeps the types.
LEMMA StartTypes ==
  ASSUME Sr!SerialAssumption, Sr!PrintkTypeOK, NEW h \in Threads, NEW n \in Lengths, Sr!Start(h, n)
  PROVE  Sr!PrintkTypeOK'
<1>1. RingTypes /\ MessageTypes /\ FlagTypes /\ CallTypes
  BY TypesOf
<1>2. PICK label \in {"acquire", "put"} : ppc' = [ppc EXCEPT ![h] = label]
  BY DEF Sr!Start, Sr!GoTo
<1>3. /\ len' = [len EXCEPT ![h] = n] /\ UNCHANGED <<nput, line, head, tail, buffer, quota, prlock, todo>>
      /\ n \in Nat
  BY SerialSizes DEF Sr!Start, Sr!ringVars
<1>4. CallTypes' /\ MessageTypes' /\ RingTypes'
  BY <1>1, <1>2, <1>3 DEF CallTypes, MessageTypes, RingTypes, Sr!PCs, Sr!Slots
<1>5. FlagTypes'
  <2>1. holds' = [holds EXCEPT ![h] = locking] /\ full' = full /\ locking' = locking /\ panicked' = panicked
    BY DEF Sr!Start, Sr!ringVars
  <2>2. holds' \in [Threads -> BOOLEAN]
    BY <1>1, <2>1, BoolUpdate DEF FlagTypes
  <2>. QED BY <1>1, <2>1, <2>2 DEF FlagTypes
<1>. QED BY <1>4, <1>5, TypesOfNext

LEMMA AcquireTypes ==
  ASSUME Sr!SerialAssumption, Sr!PrintkTypeOK, NEW h \in Threads, Sr!Acquire(h)
  PROVE  Sr!PrintkTypeOK'
<1>1. RingTypes /\ MessageTypes /\ FlagTypes /\ CallTypes
  BY TypesOf
<1>2. ppc' = [ppc EXCEPT ![h] = "put"] /\ prlock' = h /\ UNCHANGED <<head, tail, buffer, quota, len, nput, line, todo>>
  BY DEF Sr!Acquire, Sr!GoTo, Sr!ringVars
<1>3. CallTypes' /\ MessageTypes' /\ RingTypes'
  BY <1>1, <1>2 DEF CallTypes, MessageTypes, RingTypes, Sr!PCs, Sr!Slots
<1>4. UNCHANGED <<full, holds, locking, panicked>>
  BY DEF Sr!Acquire, Sr!ringVars
<1>5. FlagTypes'
  BY <1>1, <1>4 DEF FlagTypes
<1>. QED BY <1>3, <1>5, TypesOfNext

LEMMA PutBytesTypes ==
  ASSUME Sr!SerialAssumption, Sr!PrintkTypeOK, NEW h \in Threads, Sr!PutBytes(h)
  PROVE  Sr!PrintkTypeOK'
<1>1. RingTypes /\ MessageTypes /\ FlagTypes /\ CallTypes
  BY TypesOf
<1>2. PICK k \in 1..len[h] - nput[h] : Sr!Put(h, k)
  BY DEF Sr!PutBytes
<1>3. /\ buffer' \in [Threads -> [Sr!Slots -> Nat]] /\ nput' \in [Threads -> Nat]
      /\ tail' \in [Threads -> Sr!Slots] /\ full' \in [Threads -> BOOLEAN]
  <2>1. k \in Nat
    BY <1>1 DEF MessageTypes
  <2>. QED BY <1>1, <1>2, <2>1, PutTypes
<1>4. UNCHANGED <<head, quota, len, line, ppc, prlock, todo>>
  BY DEF Sr!PutBytes
<1>5. UNCHANGED <<holds, locking, panicked>>
  BY DEF Sr!PutBytes
<1>6. FlagTypes'
  BY <1>1, <1>3, <1>5 DEF FlagTypes
<1>7. CallTypes' /\ MessageTypes' /\ RingTypes'
  BY <1>1, <1>3, <1>4 DEF CallTypes, MessageTypes, RingTypes, Sr!PCs, Sr!Slots
<1>. QED BY <1>6, <1>7, TypesOfNext

LEMMA RingSizeType ==
  ASSUME Sr!SerialAssumption, RingTypes, NEW h \in Threads
  PROVE  Sr!RingSize(h) \in Nat
<1>1. tail[h] \in 0..Capacity - 1 /\ head[h] \in 0..Capacity - 1 /\ Capacity \in Nat
  BY SerialSizes DEF RingTypes, Sr!Slots
<1>. QED BY <1>1 DEF Sr!RingSize

LEMMA FlushPartTypes ==
  ASSUME Sr!SerialAssumption, Sr!PrintkTypeOK, NEW h \in Threads, Sr!FlushPart(h)
  PROVE  Sr!PrintkTypeOK'
<1>1. RingTypes /\ MessageTypes /\ FlagTypes /\ CallTypes
  BY TypesOf
<1>2. PICK n \in Nat : quota' = [quota EXCEPT ![h] = n]
  <2>1. Capacity \div 4 \in Nat
    BY SerialSizes
  <2>. QED BY <1>1, <2>1, RingSizeType DEF Sr!FlushPart
<1>3. ppc' = [ppc EXCEPT ![h] = "part"] /\ UNCHANGED <<head, tail, buffer, len, nput, line, prlock, todo>>
  BY DEF Sr!FlushPart, Sr!GoTo
<1>4. CallTypes' /\ MessageTypes' /\ RingTypes'
  BY <1>1, <1>2, <1>3 DEF CallTypes, MessageTypes, RingTypes, Sr!PCs, Sr!Slots
<1>5. UNCHANGED <<full, holds, locking, panicked>>
  BY DEF Sr!FlushPart
<1>6. FlagTypes'
  BY <1>1, <1>5 DEF FlagTypes
<1>. QED BY <1>4, <1>6, TypesOfNext

LEMMA OutByteTypes ==
  ASSUME Sr!SerialAssumption, Sr!PrintkTypeOK, NEW h \in Threads, Sr!OutByte(h)
  PROVE  Sr!PrintkTypeOK'
<1>1. RingTypes /\ MessageTypes /\ FlagTypes /\ CallTypes
  BY TypesOf
<1>2. /\ line' = [line EXCEPT ![h] = Append(@, buffer[h][head[h]])]
      /\ head' = [head EXCEPT ![h] = (@ + 1) % Capacity]
      /\ quota' = [quota EXCEPT ![h] = @ - 1] /\ quota[h] > 0
      /\ UNCHANGED <<tail, buffer, len, nput, ppc, prlock, todo>>
  BY DEF Sr!OutByte
<1>3. head[h] \in Sr!Slots /\ head[h] + 1 \in Int /\ line[h] \in Seq(Nat) /\ buffer[h][head[h]] \in Nat
  BY <1>1, SlotMod DEF RingTypes, MessageTypes
<1>4. Append(line[h], buffer[h][head[h]]) \in Seq(Nat) /\ (head[h] + 1) % Capacity \in Sr!Slots
  BY <1>3, SlotMod
<1>5. CallTypes' /\ MessageTypes'
  BY <1>1, <1>2, <1>4 DEF CallTypes, MessageTypes, Sr!PCs
<1>6. RingTypes'
  <2>1. head' \in [Threads -> Sr!Slots]
    BY <1>1, <1>2, <1>4 DEF RingTypes
  <2>2. quota' \in [Threads -> Nat]
    BY <1>1, <1>2 DEF RingTypes
  <2>. QED BY <1>1, <1>2, <2>1, <2>2 DEF RingTypes, Sr!Slots
<1>7. UNCHANGED <<full, holds, locking, panicked>>
  BY DEF Sr!OutByte
<1>8. FlagTypes'
  BY <1>1, <1>7 DEF FlagTypes
<1>. QED BY <1>5, <1>6, <1>8, TypesOfNext

LEMMA FlushEndTypes ==
  ASSUME Sr!SerialAssumption, Sr!PrintkTypeOK, NEW h \in Threads, Sr!FlushEnd(h)
  PROVE  Sr!PrintkTypeOK'
<1>1. RingTypes /\ MessageTypes /\ FlagTypes /\ CallTypes
  BY TypesOf
<1>2. quota' = [quota EXCEPT ![h] = 0] /\ UNCHANGED <<head, len, line, prlock, todo>>
  BY DEF Sr!FlushEnd
<1>3. UNCHANGED <<holds, locking, panicked>>
  BY DEF Sr!FlushEnd
<1>4. /\ buffer' \in [Threads -> [Sr!Slots -> Nat]] /\ nput' \in [Threads -> Nat]
      /\ tail' \in [Threads -> Sr!Slots] /\ full' \in [Threads -> BOOLEAN]
      /\ \E label \in {"put", "release"} : ppc' = [ppc EXCEPT ![h] = label]
  <2>1. CASE nput[h] < len[h]
    <3>1. Sr!Put(h, 1) /\ ppc' = [ppc EXCEPT ![h] = "put"]
      BY <2>1 DEF Sr!FlushEnd, Sr!GoTo
    <3>. QED BY <1>1, <3>1, PutTypes
  <2>2. CASE ~ (nput[h] < len[h])
    <3>1. UNCHANGED <<tail, buffer, nput>> /\ ppc' = [ppc EXCEPT ![h] = "release"]
      BY <2>2 DEF Sr!FlushEnd, Sr!GoTo
    <3>2. full' = [full EXCEPT ![h] = FALSE]
      BY <2>2 DEF Sr!FlushEnd
    <3>3. full' \in [Threads -> BOOLEAN]
      BY <1>1, <3>2, BoolUpdate DEF FlagTypes
    <3>. QED BY <1>1, <3>1, <3>3 DEF RingTypes, MessageTypes
  <2>. QED BY <2>1, <2>2
<1>5. FlagTypes'
  BY <1>1, <1>3, <1>4 DEF FlagTypes
<1>6. CallTypes' /\ MessageTypes' /\ RingTypes'
  BY <1>1, <1>2, <1>4 DEF CallTypes, MessageTypes, RingTypes, Sr!PCs, Sr!Slots
<1>. QED BY <1>5, <1>6, TypesOfNext

LEMMA ReturnTypes ==
  ASSUME Sr!SerialAssumption, Sr!PrintkTypeOK, NEW h \in Threads, Sr!Return(h)
  PROVE  Sr!PrintkTypeOK'
<1>1. RingTypes /\ MessageTypes /\ FlagTypes /\ CallTypes
  BY TypesOf
<1>2. UNCHANGED <<head, tail, buffer, quota, len, nput, line>>
  BY DEF Sr!Return, Sr!ringVars
<1>3. todo' = [todo EXCEPT ![h] = IF @ = 0 THEN 0 ELSE @ - 1]
  BY DEF Sr!Return
<1>4. prlock' \in {NoThread, prlock}
  BY DEF Sr!Return
<1>5. \E label \in {"halt", "done"} : ppc' = [ppc EXCEPT ![h] = label]
  BY DEF Sr!Return, Sr!GoTo
<1>6. CallTypes' /\ MessageTypes' /\ RingTypes'
  <2>1. todo' \in [Threads -> 0..3]
    <3>1. \A n \in 0..3 : (IF n = 0 THEN 0 ELSE n - 1) \in 0..3
      OBVIOUS
    <3>. QED BY <1>1, <1>3, <3>1 DEF CallTypes
  <2>2. ppc' \in [Threads -> Sr!PCs]
    BY <1>1, <1>5 DEF CallTypes, Sr!PCs
  <2>3. CallTypes'
    BY <1>1, <1>4, <2>1, <2>2 DEF CallTypes, Sr!PCs
  <2>. QED BY <1>1, <1>2, <2>3 DEF MessageTypes, RingTypes, Sr!Slots
<1>7. UNCHANGED <<full, holds, locking>> /\ panicked' \in {TRUE, panicked}
  BY DEF Sr!Return, Sr!ringVars
<1>8. FlagTypes'
  BY <1>1, <1>7 DEF FlagTypes
<1>. QED BY <1>6, <1>8, TypesOfNext

LEMMA ForgottenTypes ==
  ASSUME Sr!SerialAssumption, Sr!PrintkTypeOK, NEW h \in Threads, Sr!Resume(h) \/ Sr!Panic(h)
  PROVE  Sr!PrintkTypeOK'
<1>1. RingTypes /\ MessageTypes /\ FlagTypes /\ CallTypes
  BY TypesOf
<1>2. Sr!Forget(h) /\ prlock' = prlock
  BY DEF Sr!Resume, Sr!Panic
<1>3. todo' \in [Threads -> 0..3]
  BY <1>1 DEF Sr!Resume, Sr!Panic, CallTypes
<1>4. /\ RingTypes' /\ MessageTypes' /\ full' \in [Threads -> BOOLEAN] /\ holds' \in [Threads -> BOOLEAN]
      /\ ppc' \in [Threads -> Sr!PCs]
  BY <1>1, <1>2, ForgetTypes
<1>5. locking' \in {FALSE, locking} /\ panicked' = panicked
  BY DEF Sr!Resume, Sr!Panic
<1>6. FlagTypes'
  BY <1>1, <1>4, <1>5 DEF FlagTypes
<1>7. CallTypes'
  BY <1>1, <1>2, <1>3, <1>4 DEF CallTypes, Sr!PCs
<1>. QED BY <1>4, <1>6, <1>7, TypesOfNext

\* Where one thread goes while nobody's locks change
LEMMA PrintkMoves ==
  ASSUME Sr!TypeOK, PrLockInv, PanicInv, NEW h \in Threads, NEW label \in Sr!PCs,
         ppc' = [ppc EXCEPT ![h] = label], UNCHANGED <<prlock, todo, upc>>, UNCHANGED <<locking, holds>>,
         label \in {"put", "part", "release"} => ppc[h] \in {"put", "part", "release"},
         label # "acquire"
  PROVE  PrLockInv' /\ PanicInv'
<1>1. ppc \in [Threads -> Sr!PCs]
  BY TypesOf DEF Sr!TypeOK, CallTypes
<1>2. \A g \in Threads : ppc'[g] = (IF g = h THEN label ELSE ppc[g])
  BY <1>1
<1>3. PrLockInv'
  <2>. SUFFICES ASSUME locking, NEW g \in Threads
                PROVE  /\ ppc'[g] \in {"acquire", "put", "part", "release"} => holds[g]
                       /\ ppc'[g] \in {"put", "part", "release"} => prlock = g
    BY DEF PrLockInv
  <2>1. /\ ppc[g] \in {"acquire", "put", "part", "release"} => holds[g]
        /\ ppc[g] \in {"put", "part", "release"} => prlock = g
    BY DEF PrLockInv
  <2>. QED BY <1>2, <2>1
<1>4. PanicInv'
  BY <1>2 DEF PanicInv
<1>. QED BY <1>3, <1>4

LEMMA StartOrder ==
  ASSUME Sr!TypeOK, PrLockInv, PanicInv, NEW h \in Threads, NEW n \in Lengths, Sr!Start(h, n), UNCHANGED upc
  PROVE  PrLockInv' /\ PanicInv'
<1>1. ppc \in [Threads -> Sr!PCs] /\ holds \in [Threads -> BOOLEAN]
  BY TypesOf DEF Sr!TypeOK, CallTypes, FlagTypes
<1>2. /\ ppc' = [ppc EXCEPT ![h] = IF locking THEN "acquire" ELSE "put"]
      /\ holds' = [holds EXCEPT ![h] = locking] /\ locking' = locking
      /\ UNCHANGED <<prlock, todo>>
  BY DEF Sr!Start, Sr!GoTo
<1>3. /\ locking => ppc'[h] = "acquire" /\ holds'[h]
      /\ ~ locking => ppc'[h] = "put"
      /\ \A g \in Threads : g # h => ppc'[g] = ppc[g] /\ holds'[g] = holds[g]
  BY <1>1, <1>2
<1>4. PrLockInv'
  <2>. SUFFICES ASSUME locking, NEW g \in Threads
                PROVE  /\ ppc'[g] \in {"acquire", "put", "part", "release"} => holds'[g]
                       /\ ppc'[g] \in {"put", "part", "release"} => prlock' = g
    BY <1>2 DEF PrLockInv
  <2>1. /\ ppc[g] \in {"acquire", "put", "part", "release"} => holds[g]
        /\ ppc[g] \in {"put", "part", "release"} => prlock = g
    BY DEF PrLockInv
  <2>2. CASE g = h
    BY <1>3, <2>2
  <2>3. CASE g # h
    BY <1>2, <1>3, <2>1, <2>3
  <2>. QED BY <2>2, <2>3
<1>5. PanicInv'
  <2>. SUFFICES ASSUME NEW g \in Threads, todo[g] > 0
                PROVE  ~ locking /\ ppc'[g] # "acquire" /\ upc[g] \in {"idle", "sync", "sync_thr", "spin"}
    BY <1>2 DEF PanicInv
  <2>1. ~ locking /\ ppc[g] # "acquire" /\ upc[g] \in {"idle", "sync", "sync_thr", "spin"}
    BY DEF PanicInv
  <2>. QED BY <1>3, <2>1
<1>. QED BY <1>4, <1>5

LEMMA AcquireOrder ==
  ASSUME Sr!SerialAssumption, Sr!TypeOK, PrLockInv, PanicInv, NEW h \in Threads, Sr!Acquire(h), UNCHANGED upc
  PROVE  PrLockInv' /\ PanicInv'
<1>1. ppc \in [Threads -> Sr!PCs]
  BY TypesOf DEF Sr!TypeOK, CallTypes
<1>2. /\ ppc' = [ppc EXCEPT ![h] = "put"] /\ ppc[h] = "acquire" /\ prlock = NoThread /\ prlock' = h
      /\ UNCHANGED <<holds, locking>> /\ todo' = todo
  BY DEF Sr!Acquire, Sr!GoTo
<1>3. \A g \in Threads : ppc'[g] = (IF g = h THEN "put" ELSE ppc[g])
  BY <1>1, <1>2
<1>4. PrLockInv'
  <2>. SUFFICES ASSUME locking, NEW g \in Threads
                PROVE  /\ ppc'[g] \in {"acquire", "put", "part", "release"} => holds[g]
                       /\ ppc'[g] \in {"put", "part", "release"} => prlock' = g
    BY <1>2 DEF PrLockInv
  <2>1. /\ ppc[g] \in {"acquire", "put", "part", "release"} => holds[g]
        /\ ppc[g] \in {"put", "part", "release"} => prlock = g
    BY DEF PrLockInv
  <2>2. NoThread # g
    BY SerialSizes
  <2>. QED BY <1>2, <1>3, <2>1, <2>2
<1>5. PanicInv'
  BY <1>2, <1>3 DEF PanicInv
<1>. QED BY <1>4, <1>5

LEMMA ReturnOrder ==
  ASSUME Sr!TypeOK, PrLockInv, PanicInv, NEW h \in Threads, Sr!Return(h), UNCHANGED upc
  PROVE  PrLockInv' /\ PanicInv'
<1>1. ppc \in [Threads -> Sr!PCs] /\ todo \in [Threads -> 0..3]
  BY TypesOf DEF Sr!TypeOK, CallTypes
<1>2. /\ ppc[h] = "release" /\ UNCHANGED <<holds, locking>>
      /\ prlock' = IF holds[h] THEN NoThread ELSE prlock
      /\ todo' = [todo EXCEPT ![h] = IF @ = 0 THEN 0 ELSE @ - 1]
  BY DEF Sr!Return
<1>3. PICK label \in {"halt", "done"} : ppc' = [ppc EXCEPT ![h] = label]
  BY DEF Sr!Return, Sr!GoTo
<1>4. \A g \in Threads : ppc'[g] = (IF g = h THEN label ELSE ppc[g])
  BY <1>1, <1>3
<1>5. PrLockInv'
  <2>. SUFFICES ASSUME locking, NEW g \in Threads
                PROVE  /\ ppc'[g] \in {"acquire", "put", "part", "release"} => holds[g]
                       /\ ppc'[g] \in {"put", "part", "release"} => prlock' = g
    BY <1>2 DEF PrLockInv
  <2>1. /\ ppc[g] \in {"acquire", "put", "part", "release"} => holds[g]
        /\ ppc[g] \in {"put", "part", "release"} => prlock = g
    BY DEF PrLockInv
  <2>2. prlock = h
    BY <1>2 DEF PrLockInv
  <2>. QED BY <1>3, <1>4, <2>1, <2>2
<1>6. PanicInv'
  <2>1. \A n \in 0..3 : (IF n = 0 THEN 0 ELSE n - 1) > 0 => n > 0
    OBVIOUS
  <2>2. \A g \in Threads : todo'[g] > 0 => todo[g] > 0
    BY <1>1, <1>2, <2>1
  <2>. QED BY <1>2, <1>3, <1>4, <2>2 DEF PanicInv
<1>. QED BY <1>5, <1>6

LEMMA ResumeOrder ==
  ASSUME Sr!TypeOK, PrLockInv, PanicInv, NEW h \in Threads, Sr!Resume(h), UNCHANGED upc
  PROVE  PrLockInv' /\ PanicInv'
<1>1. ppc \in [Threads -> Sr!PCs] /\ holds \in [Threads -> BOOLEAN]
  BY TypesOf DEF Sr!TypeOK, CallTypes, FlagTypes
<1>2. /\ ppc' = [ppc EXCEPT ![h] = "idle"] /\ holds' = [holds EXCEPT ![h] = FALSE] /\ locking' = locking
      /\ UNCHANGED <<prlock, todo>>
  BY DEF Sr!Resume, Sr!Forget, Sr!GoTo
<1>3. /\ ppc'[h] = "idle"
      /\ \A g \in Threads : g # h => ppc'[g] = ppc[g] /\ holds'[g] = holds[g]
  BY <1>1, <1>2
<1>4. PrLockInv'
  <2>. SUFFICES ASSUME locking, NEW g \in Threads
                PROVE  /\ ppc'[g] \in {"acquire", "put", "part", "release"} => holds'[g]
                       /\ ppc'[g] \in {"put", "part", "release"} => prlock' = g
    BY <1>2 DEF PrLockInv
  <2>1. /\ ppc[g] \in {"acquire", "put", "part", "release"} => holds[g]
        /\ ppc[g] \in {"put", "part", "release"} => prlock = g
    BY DEF PrLockInv
  <2>2. CASE g = h
    BY <1>3, <2>2
  <2>3. CASE g # h
    BY <1>2, <1>3, <2>1, <2>3
  <2>. QED BY <2>2, <2>3
<1>5. PanicInv'
  <2>1. \A g \in Threads : ppc'[g] = "acquire" => ppc[g] = "acquire"
    BY <1>3
  <2>. QED BY <1>2, <2>1 DEF PanicInv
<1>. QED BY <1>4, <1>5

LEMMA TrapOrder ==
  ASSUME Sr!TypeOK, PrLockInv, PanicInv, NEW h \in Threads, Sr!Trap(h)
  PROVE  PrLockInv' /\ PanicInv'
<1>1. ppc \in [Threads -> Sr!PCs] /\ todo \in [Threads -> 0..3] /\ upc \in [Threads -> Sr!U!PCs]
  BY TypesOf DEF Sr!TypeOK, CallTypes, Sr!U!TypeOK
<1>2. ~ locking'
  BY DEF Sr!Trap, Sr!Panic
<1>3. /\ ppc' = [ppc EXCEPT ![h] = "idle"] /\ todo' = [todo EXCEPT ![h] = 3] /\ upc' = [upc EXCEPT ![h] = "idle"]
  BY DEF Sr!Trap, Sr!Panic, Sr!Forget, Sr!GoTo, Sr!U!Abandon, Sr!U!GoTo
<1>4. PrLockInv'
  BY <1>2 DEF PrLockInv
<1>5. PanicInv'
  <2>1. \A g \in Threads : ppc'[g] = (IF g = h THEN "idle" ELSE ppc[g]) /\ upc'[g] = (IF g = h THEN "idle" ELSE upc[g])
    BY <1>1, <1>3
  <2>2. \A g \in Threads : g # h => todo'[g] = todo[g]
    BY <1>1, <1>3
  <2>. QED BY <1>2, <2>1, <2>2 DEF PanicInv
<1>. QED BY <1>4, <1>5

\* Steps in the driver: a thread that panics does not call uartputc().
LEMMA DriverOrder ==
  ASSUME Sr!TypeOK, PrLockInv, PanicInv, NEW h \in Threads, UNCHANGED <<ppc, prlock, todo>>, UNCHANGED <<locking, holds>>,
         \A g \in Threads : todo[g] > 0 =>
             upc'[g] = upc[g] \/ upc'[g] \in {"idle", "sync", "sync_thr", "spin"}
  PROVE  PrLockInv' /\ PanicInv'
<1>1. PrLockInv'
  BY DEF PrLockInv
<1>2. PanicInv'
  BY DEF PanicInv
<1>. QED BY <1>1, <1>2

LEMMA DriverPanics ==
  ASSUME Sr!TypeOK, PanicInv, NEW h \in Threads,
         \/ Sr!U!Advance(h) \/ Sr!U!Acquire(h) \/ Sr!U!Reacquire(h) \/ Sr!U!SyncWait(h)
         \/ Sr!U!CallSync(h)
         \/ todo[h] = 0 /\ \E b \in Bytes : Sr!U!CallPutc(h, b)
  PROVE  \A g \in Threads : todo[g] > 0 =>
             upc'[g] = upc[g] \/ upc'[g] \in {"idle", "sync", "sync_thr", "spin"}
<1>1. upc \in [Threads -> Sr!U!PCs]
  BY DEF Sr!TypeOK, Sr!U!TypeOK
<1>2. \A g \in Threads : todo[g] > 0 => upc[g] \in {"idle", "sync", "sync_thr", "spin"}
  BY DEF PanicInv
<1>3. CASE Sr!U!StartTake(h)
  BY <1>1, <1>2, <1>3 DEF Sr!U!StartTake
<1>4. ASSUME upc[h] \notin {"idle", "sync", "sync_thr", "spin"} \/ todo[h] = 0,
             NEW label, upc' = [upc EXCEPT ![h] = label]
      PROVE  \A g \in Threads : todo[g] > 0 => upc'[g] = upc[g]
  BY <1>1, <1>2, <1>4
<1>5. CASE Sr!U!Acquire(h) \/ Sr!U!Reacquire(h) \/ Sr!U!Sleep(h) \/ Sr!U!Store(h) \/ Sr!U!StartWrite(h) \/ Sr!U!StartReturn(h)
  BY <1>4, <1>5 DEF Sr!U!Acquire, Sr!U!Reacquire, Sr!U!Sleep, Sr!U!Store, Sr!U!StartWrite, Sr!U!StartReturn, Sr!U!GoTo
<1>6. CASE todo[h] = 0 /\ \E b \in Bytes : Sr!U!CallPutc(h, b)
  BY <1>4, <1>6 DEF Sr!U!CallPutc, Sr!U!GoTo
<1>7. CASE Sr!U!CallSync(h) \/ Sr!U!SyncWait(h) \/ Sr!U!SyncWrite(h)
  <2>1. PICK label \in {"idle", "sync", "sync_thr", "spin"} : upc' = [upc EXCEPT ![h] = label]
    BY <1>7 DEF Sr!U!CallSync, Sr!U!SyncWait, Sr!U!SyncWrite, Sr!U!GoTo
  <2>. QED BY <1>1, <2>1
<1>. QED BY <1>3, <1>5, <1>6, <1>7 DEF Sr!U!Advance

-----------------------------------------------------------------------------
(* The theorems about the serial line                                      *)

LEMMA SerialFacts == SerialIInv <=> Sr!PrintkTypeOK /\ DriverInv /\ PrLockInv /\ PanicInv
  BY DEF SerialIInv, DriverInv, Sr!TypeOK

LEMMA SerialFactsNext == SerialIInv' <=> Sr!PrintkTypeOK' /\ DriverInv' /\ PrLockInv' /\ PanicInv'
  BY DEF SerialIInv, DriverInv, Sr!TypeOK

LEMMA SerialInitKeeps ==
  ASSUME Sr!SerialAssumption, Sr!Init
  PROVE  SerialIInv
<1>1. Sr!PrintkInit /\ Sr!U!Init
  BY DEF Sr!Init
<1>2. Sr!PrintkTypeOK
  <2>1. RingTypes /\ MessageTypes /\ CallTypes
    BY <1>1, SlotMod, EmptyMessage DEF Sr!PrintkInit, RingTypes, MessageTypes, CallTypes, Sr!PCs
  <2>2. FlagTypes
    BY <1>1, Zenon DEF Sr!PrintkInit, FlagTypes
  <2>. QED BY <2>1, <2>2, TypesOf
<1>3. Sr!U!TypeOK
  BY <1>1, NoByteType, SerialSizes DEF Sr!U!Init, Sr!U!TypeOK, Sr!U!PCs
<1>4. TxUsed <= UART_TX_BUF_SIZE
  <2>1. uart_tx_w = uart_tx_r
    BY <1>1 DEF Sr!U!Init
  <2>2. TxUsed = 0
    BY <1>3, <2>1, TxFacts
  <2>. QED BY <2>2, SerialSizes
<1>5. FifoInv
  <2>1. fifo = 0 /\ Cardinality(Pending) \in Nat /\ Cardinality(Pending) <= Cardinality(Threads)
    BY <1>1, PendingFinite DEF Sr!U!Init
  <2>. QED BY <2>1 DEF FifoInv
<1>6. PrLockInv /\ PanicInv
  BY <1>1 DEF Sr!PrintkInit, PrLockInv, PanicInv
<1>. QED BY <1>2, <1>3, <1>4, <1>5, <1>6, SerialFacts DEF DriverInv

LEMMA DriverSame ==
  ASSUME DriverInv, UNCHANGED Sr!uartVars
  PROVE  DriverInv'
<1>1. UNCHANGED <<uart_tx_buf, uart_tx_w, uart_tx_r, uart_tx_lock, fifo, upc, uc>>
  BY DEF Sr!uartVars
<1>2. Sr!U!TypeOK'
  BY <1>1 DEF DriverInv, Sr!U!TypeOK, Sr!U!PCs
<1>3. Pending' = Pending /\ TxUsed' = TxUsed
  BY <1>1 DEF Pending, TxUsed
<1>. QED BY <1>1, <1>2, <1>3 DEF DriverInv, FifoInv

LEMMA PrintkSame ==
  ASSUME Sr!PrintkTypeOK, UNCHANGED Sr!printkVars
  PROVE  Sr!PrintkTypeOK' /\ UNCHANGED <<ppc, prlock, todo>> /\ UNCHANGED <<locking, holds>>
<1>1. UNCHANGED <<head, tail, buffer, quota, len, nput, line, ppc, prlock, todo>>
  BY DEF Sr!printkVars, Sr!ringVars
<1>2. UNCHANGED <<full, holds, locking, panicked>>
  BY DEF Sr!printkVars, Sr!ringVars
<1>3. RingTypes /\ MessageTypes /\ FlagTypes /\ CallTypes
  BY TypesOf
<1>4. RingTypes' /\ MessageTypes' /\ CallTypes'
  BY <1>1, <1>3 DEF RingTypes, MessageTypes, CallTypes, Sr!Slots, Sr!PCs
<1>5. FlagTypes'
  BY <1>2, <1>3 DEF FlagTypes
<1>. QED BY <1>1, <1>2, <1>4, <1>5, TypesOfNext

LEMMA SerialNextKeeps ==
  ASSUME Sr!SerialAssumption, SerialIInv, [Sr!Next]_Sr!vars
  PROVE  SerialIInv'
<1>1. Sr!PrintkTypeOK /\ DriverInv /\ PrLockInv /\ PanicInv /\ Sr!TypeOK
  BY SerialFacts DEF SerialIInv
<1>2. CASE UNCHANGED Sr!vars
  <2>1. UNCHANGED Sr!uartVars /\ UNCHANGED Sr!printkVars
    BY <1>2 DEF Sr!vars
  <2>2. Sr!PrintkTypeOK' /\ UNCHANGED <<ppc, prlock, todo>> /\ UNCHANGED <<locking, holds>> /\ upc' = upc
    BY <1>1, <2>1, PrintkSame DEF Sr!uartVars
  <2>3. PrLockInv' /\ PanicInv'
    BY <1>1, <2>2 DEF PrLockInv, PanicInv
  <2>. QED BY <1>1, <2>1, <2>2, <2>3, DriverSame, SerialFactsNext
<1>3. CASE Sr!Transmit
  <2>1. Sr!U!Send /\ UNCHANGED Sr!printkVars /\ upc' = upc
    BY <1>3 DEF Sr!Transmit, Sr!U!Send
  <2>2. Sr!PrintkTypeOK' /\ UNCHANGED <<ppc, prlock, todo>> /\ UNCHANGED <<locking, holds>>
    BY <1>1, <2>1, PrintkSame
  <2>3. PrLockInv' /\ PanicInv'
    BY <1>1, <2>1, <2>2 DEF PrLockInv, PanicInv
  <2>. QED BY <1>1, <2>1, <2>2, <2>3, SendKeeps, SerialFactsNext
<1>4. ASSUME NEW h \in Threads,
             Sr!BeginPrintk(h) \/ Sr!TakeLock(h) \/ Sr!Message(h) \/ Sr!EndPrintk(h)
      PROVE  SerialIInv'
  <2>1. UNCHANGED Sr!uartVars /\ upc' = upc
    BY <1>4 DEF Sr!BeginPrintk, Sr!TakeLock, Sr!Message, Sr!EndPrintk, Sr!uartVars
  <2>2. DriverInv'
    BY <1>1, <2>1, DriverSame
  <2>3. CASE \E n \in Lengths : Sr!Start(h, n)
    BY <1>1, <2>1, <2>2, <2>3, StartTypes, StartOrder, SerialFactsNext
  <2>4. CASE Sr!Acquire(h)
    BY <1>1, <2>1, <2>2, <2>4, AcquireTypes, AcquireOrder, SerialFactsNext
  <2>5. CASE Sr!Resume(h)
    BY <1>1, <2>1, <2>2, <2>5, ForgottenTypes, ResumeOrder, SerialFactsNext
  <2>6. CASE Sr!Return(h)
    BY <1>1, <2>1, <2>2, <2>6, ReturnTypes, ReturnOrder, SerialFactsNext
  <2>7. CASE Sr!PutBytes(h)
    <3>1. /\ UNCHANGED <<ppc, prlock, todo>> /\ UNCHANGED <<locking, holds>>
      BY <2>7 DEF Sr!PutBytes
    <3>2. PrLockInv' /\ PanicInv'
      BY <1>1, <2>1, <3>1 DEF PrLockInv, PanicInv
    <3>. QED BY <1>1, <2>2, <2>7, <3>2, PutBytesTypes, SerialFactsNext
  <2>8. CASE Sr!FlushPart(h) \/ Sr!FlushEnd(h)
    <3>1. PICK label \in {"put", "part", "release"} : ppc' = [ppc EXCEPT ![h] = label]
      BY <2>8 DEF Sr!FlushPart, Sr!FlushEnd, Sr!GoTo
    <3>2. ppc[h] \in {"put", "part"} /\ UNCHANGED <<prlock, todo>> /\ UNCHANGED <<locking, holds>>
      BY <2>8 DEF Sr!FlushPart, Sr!FlushEnd
    <3>3. PrLockInv' /\ PanicInv'
      <4>1. label \in Sr!PCs /\ label # "acquire"
        BY <3>1 DEF Sr!PCs
      <4>. QED BY <1>1, <2>1, <3>1, <3>2, <4>1, PrintkMoves
    <3>. QED BY <1>1, <2>2, <2>8, <3>3, FlushPartTypes, FlushEndTypes, SerialFactsNext
  <2>. QED BY <1>4, <2>3, <2>4, <2>5, <2>6, <2>7, <2>8
       DEF Sr!BeginPrintk, Sr!TakeLock, Sr!Message, Sr!EndPrintk, Sr!PrintkStep
<1>5. ASSUME NEW h \in Threads, Sr!Putchar(h)
      PROVE  SerialIInv'
  <2>1. Sr!OutByte(h) /\ Sr!U!CallSync(h)
    BY <1>5 DEF Sr!Putchar
  <2>2. UNCHANGED <<ppc, prlock, todo>> /\ UNCHANGED <<locking, holds>>
    BY <2>1 DEF Sr!OutByte
  <2>3. PrLockInv' /\ PanicInv'
    BY <1>1, <2>1, <2>2, DriverPanics, DriverOrder
  <2>. QED BY <1>1, <2>1, <2>3, OutByteTypes, CallsKeep, SerialFactsNext
<1>6. ASSUME NEW h \in Threads, Sr!Write(h) \/ Sr!Drive(h) \/ Sr!DriveWait(h)
      PROVE  SerialIInv'
  <2>1. /\ UNCHANGED Sr!printkVars
        /\ \/ Sr!U!Advance(h) \/ Sr!U!Acquire(h) \/ Sr!U!Reacquire(h) \/ Sr!U!SyncWait(h)
           \/ todo[h] = 0 /\ \E b \in Bytes : Sr!U!CallPutc(h, b)
    BY <1>6 DEF Sr!Write, Sr!Drive, Sr!DriveWait
  <2>2. Sr!PrintkTypeOK' /\ UNCHANGED <<ppc, prlock, todo>> /\ UNCHANGED <<locking, holds>>
    BY <1>1, <2>1, PrintkSame
  <2>3. PrLockInv' /\ PanicInv'
    BY <1>1, <2>1, <2>2, DriverPanics, DriverOrder
  <2>4. DriverInv'
    BY <1>1, <2>1, DriverKeeps, CallsKeep
  <2>. QED BY <2>2, <2>3, <2>4, SerialFactsNext
<1>7. ASSUME NEW h \in Threads, Sr!Trap(h)
      PROVE  SerialIInv'
  <2>1. Sr!Panic(h) /\ Sr!U!Abandon(h)
    BY <1>7 DEF Sr!Trap
  <2>. QED BY <1>1, <1>7, <2>1, ForgottenTypes, CallsKeep, TrapOrder, SerialFactsNext
<1>. QED BY <1>2, <1>3, <1>4, <1>5, <1>6, <1>7 DEF Sr!Next

\* The inductive invariant: threads that are about to write to the UART never
\* outnumber the places that are left in its FIFO, pr.lock is held by whoever is
\* in its output, and the transmit buffer holds no more than its size.
THEOREM SerialInductive ==
  ASSUME Sr!SerialAssumption
  PROVE  Sr!Spec => []SerialIInv
<1>1. Sr!Init => SerialIInv
  BY SerialInitKeeps
<1>2. SerialIInv /\ [Sr!Next]_Sr!vars => SerialIInv'
  BY SerialNextKeeps
<1>. QED BY <1>1, <1>2, PTL DEF Sr!Spec

LEMMA SerialGood ==
  ASSUME Sr!SerialAssumption, SerialIInv
  PROVE  Sr!SerialInv
<1>1. Sr!TypeOK /\ FifoInv /\ PrLockInv /\ PanicInv /\ fifo \in Nat
  BY DEF SerialIInv, Sr!TypeOK, Sr!U!TypeOK
<1>2. Sr!NoOverrun
  <2>1. Cardinality(Pending) \in Nat /\ Cardinality(Threads) \in Nat /\ Cardinality(Threads) <= FifoDepth
    BY PendingFinite, SerialSizes
  <2>2. FifoDepth \in Nat
    BY DEF Sr!SerialAssumption
  <2>. QED BY <1>1, <2>1, <2>2 DEF FifoInv, Sr!NoOverrun
<1>3. Sr!NotInterleaved
  BY <1>1 DEF PrLockInv, Sr!NotInterleaved
<1>4. Sr!PanicNeverWaits
  BY <1>1 DEF PanicInv, Sr!PanicNeverWaits
<1>. QED BY <1>1, <1>2, <1>3, <1>4 DEF Sr!SerialInv

\* SerialInv of printk.c and uart.c, for any number of threads: uartputc_sync()
\* never overruns the UART's FIFO although it takes no lock, printk()s do not mix
\* until somebody panics, and a panic() waits for neither pr.lock nor uart_tx_lock.
THEOREM SerialSafe ==
  ASSUME Sr!SerialAssumption
  PROVE  Sr!Spec => []SerialInv
<1>1. SerialIInv => SerialInv
  BY SerialGood DEF SerialInv
<1>. QED BY <1>1, SerialInductive, PTL

-----------------------------------------------------------------------------
(* The ring of a printk()                                                  *)

\* A counter taken modulo m, and steps from it
LEMMA ModAdd ==
  ASSUME NEW m \in Nat \ {0}, NEW x \in Int, NEW d \in Int
  PROVE  ((x % m) + d) % m = (x + d) % m
<1>1. x \div m \in Int /\ x = m * (x \div m) + (x % m) /\ x % m \in 0..m - 1
  BY DivMod
<1>. DEFINE c == m * (x \div m)
<1>2. c \in Int
  BY <1>1, Times
<1>3. c % m = 0
  <2>1. c = m * (x \div m) + 0 /\ 0 \in 0..m - 1
    BY <1>2
  <2>. HIDE DEF c
  <2>. QED BY <1>1, <1>2, <2>1, ModUnique
<1>4. (x % m) + d \in Int /\ ((x % m) + d) + c = x + d
  BY <1>1, <1>2
<1>. HIDE DEF c
<1>5. \A y \in Int : (y + c) % m = y % m
  BY <1>2, <1>3, ModWhole
<1>. QED BY <1>4, <1>5

LEMMA ModSub ==
  ASSUME NEW m \in Nat \ {0}, NEW x \in Int, NEW d \in Int
  PROVE  (d - (x % m)) % m = (d - x) % m
<1>1. x \div m \in Int /\ x = m * (x \div m) + (x % m) /\ x % m \in 0..m - 1
  BY DivMod
<1>. DEFINE c == m * (x \div m)
<1>2. c \in Int
  BY <1>1, Times
<1>3. c % m = 0
  <2>1. c = m * (x \div m) + 0 /\ 0 \in 0..m - 1
    BY <1>2
  <2>. HIDE DEF c
  <2>. QED BY <1>1, <1>2, <2>1, ModUnique
<1>4. d - x \in Int /\ (d - x) + c = d - (x % m)
  BY <1>1, <1>2
<1>. HIDE DEF c
<1>5. \A y \in Int : (y + c) % m = y % m
  BY <1>2, <1>3, ModWhole
<1>. QED BY <1>4, <1>5

\* Two counters of the same ring
LEMMA ModBetween ==
  ASSUME NEW m \in Nat \ {0}, NEW x \in Int, NEW y \in Int
  PROVE  /\ y - x \in 0..m - 1 => ((y % m) - (x % m)) % m = y - x
         /\ y - x \in -m..-1 => ((y % m) - (x % m)) % m = y - x + m
         /\ y - x \in 1..m => (x % m = y % m <=> y - x = m)
<1>1. ((y % m) - (x % m)) % m = (y - x) % m
  <2>1. y % m \in Int
    BY DivMod
  <2>2. ((y % m) - (x % m)) % m = ((y % m) - x) % m
    BY <2>1, ModSub
  <2>3. (y % m) - x = (y % m) + (0 - x) /\ 0 - x \in Int /\ y + (0 - x) = y - x
    BY <2>1
  <2>4. ((y % m) + (0 - x)) % m = (y + (0 - x)) % m
    BY <2>3, ModAdd
  <2>. QED BY <2>2, <2>3, <2>4
<1>2. y - x \in 1..m - 1 => x % m # y % m
  BY ModDiffers
<1>3. y - x = m => x % m = y % m
  <2>1. m \in Int /\ m \in m..2 * m - 1
    OBVIOUS
  <2>2. m % m = 0
    BY <2>1, ModOnce
  <2>3. (x + m) % m = x % m
    BY <2>1, <2>2, ModWhole
  <2>. QED BY <2>1, <2>3
<1>4. y - x \in 1..m => y - x = m \/ y - x \in 1..m - 1
  OBVIOUS
<1>5. y - x \in 0..m - 1 => (y - x) % m = y - x
  BY ModOnce
<1>6. y - x \in -m..-1 => (y - x) % m = y - x + m
  BY ModOnce
<1>7. y - x \in 1..m - 1 => y - x # m
  OBVIOUS
<1>. QED BY <1>1, <1>2, <1>3, <1>4, <1>5, <1>6, <1>7

LEMMA MessageFacts ==
  ASSUME Sr!SerialAssumption, Sr!PrintkTypeOK, NEW h \in Threads
  PROVE  /\ Sent(h) \in Nat /\ nput[h] \in Nat /\ len[h] \in Nat /\ quota[h] \in Nat
         /\ line[h] \in Seq(Nat) /\ head[h] \in 0..Capacity - 1 /\ tail[h] \in 0..Capacity - 1
         /\ buffer[h] \in [0..Capacity - 1 -> Nat]
  BY TypesOf DEF RingTypes, MessageTypes, Sent, Sr!Slots

\* ring_buf_size() is right unless the ring is full.
LEMMA RingSizeIs ==
  ASSUME Sr!SerialAssumption, Sr!PrintkTypeOK, NEW h \in Threads, PlacesInv(h)
  PROVE  /\ nput[h] - Sent(h) \in 0..Capacity
         /\ nput[h] - Sent(h) < Capacity => Sr!RingSize(h) = nput[h] - Sent(h)
         /\ head[h] = tail[h] <=> nput[h] - Sent(h) \in {0, Capacity}
<1>1. PICK s \in Nat, n \in Nat, a \in 0..Capacity - 1, b \in 0..Capacity - 1 :
         s = Sent(h) /\ n = nput[h] /\ a = head[h] /\ b = tail[h]
  BY MessageFacts
<1>2. Capacity \in Nat \ {0}
  BY SerialSizes
<1>3. s <= n /\ n - s <= Capacity /\ a = s % Capacity /\ b = n % Capacity
  BY <1>1 DEF PlacesInv
<1>4. n - s \in 0..Capacity
  BY <1>2, <1>3
<1>5. ASSUME n - s < Capacity PROVE (IF b < a THEN b + Capacity - a ELSE b - a) = n - s
  <2>1. n - s \in 0..Capacity - 1 /\ n \in Int /\ s \in Int
    BY <1>2, <1>4, <1>5
  <2>2. ((n % Capacity) - (s % Capacity)) % Capacity = n - s
    BY <1>2, <2>1, ModBetween
  <2>3. (b - a) % Capacity = IF b >= a THEN b - a ELSE b - a + Capacity
    BY <1>2, RingDistance
  <2>. QED BY <1>2, <1>3, <2>2, <2>3
<1>6. a = b <=> n - s \in {0, Capacity}
  <2>1. CASE n - s = 0
    <3>1. n = s
      BY <2>1
    <3>. QED BY <1>3, <2>1, <3>1
  <2>2. CASE n - s # 0
    <3>1. n - s \in 1..Capacity /\ n \in Int /\ s \in Int
      BY <1>2, <1>4, <2>2
    <3>2. s % Capacity = n % Capacity <=> n - s = Capacity
      BY <1>2, <3>1, ModBetween
    <3>. QED BY <1>3, <2>2, <3>2
  <2>. QED BY <2>1, <2>2
<1>. QED BY <1>1, <1>4, <1>5, <1>6 DEF Sr!RingSize

\* Where the bytes are in a ring of which k slots are filled behind n
InRow(m, s, n, k, i) ==
    /\ i % m \in 0..m - 1
    /\ i >= n => ((i % m) - (n % m)) % m = i - n /\ i - n < k /\ n + 1 + (i - n) = i + 1
    /\ ~ (i >= n) => ~ (((i % m) - (n % m)) % m < k) /\ i \in s..n - 1

LEMMA RowOf ==
  ASSUME NEW m \in Nat \ {0}, NEW s \in Nat, NEW n \in Nat, NEW k \in Nat \ {0}, s <= n, n - s + k <= m,
         NEW i \in s..n + k - 1
  PROVE  InRow(m, s, n, k, i)
<1>1. i \in Nat /\ i % m \in 0..m - 1
  BY DivMod
<1>2. ASSUME i >= n PROVE ((i % m) - (n % m)) % m = i - n /\ i - n < k /\ n + 1 + (i - n) = i + 1
  <2>1. i - n \in 0..m - 1 /\ i \in Int /\ n \in Int
    BY <1>1, <1>2
  <2>2. ((i % m) - (n % m)) % m = i - n
    BY <2>1, ModBetween
  <2>3. i - n < k /\ n + 1 + (i - n) = i + 1
    BY <1>1
  <2>. QED BY <2>2, <2>3
<1>3. ASSUME ~ (i >= n) PROVE ~ (((i % m) - (n % m)) % m < k) /\ i \in s..n - 1
  <2>1. i - n \in -m..-1 /\ i \in s..n - 1 /\ i \in Int /\ n \in Int
    BY <1>1, <1>3
  <2>2. ((i % m) - (n % m)) % m = i - n + m
    BY <2>1, ModBetween
  <2>3. ~ (i - n + m < k)
    BY <1>1, <2>1
  <2>. QED BY <2>1, <2>2, <2>3
<1>. QED BY <1>1, <1>2, <1>3 DEF InRow

\* ring_buf_put() of k bytes into a ring that has room for them
LEMMA PutGives ==
  ASSUME Sr!SerialAssumption, Sr!PrintkTypeOK, NEW h \in Threads, PlacesInv(h),
         NEW k \in Nat \ {0}, Sr!Put(h, k), UNCHANGED <<head, len, line>>,
         nput[h] - Sent(h) + k <= Capacity, nput[h] + k <= len[h]
  PROVE  /\ PlacesInv(h)' /\ Sent(h)' = Sent(h) /\ nput'[h] = nput[h] + k
         /\ full'[h] <=> nput[h] + k - Sent(h) = Capacity
<1>1. PICK s \in Nat, n \in Nat, a \in 0..Capacity - 1, b \in 0..Capacity - 1, z \in Nat :
         s = Sent(h) /\ n = nput[h] /\ a = head[h] /\ b = tail[h] /\ z = len[h]
  BY MessageFacts
<1>2. Capacity \in Nat \ {0}
  BY SerialSizes
<1>3. s <= n /\ n - s <= Capacity /\ a = s % Capacity /\ b = n % Capacity
  BY <1>1 DEF PlacesInv
<1>4. n - s + k <= Capacity /\ n + k <= z
  BY <1>1
<1>5. \A i \in s..n - 1 : buffer[h][i % Capacity] = i + 1
  BY <1>1 DEF PlacesInv
<1>. DEFINE row == [i \in Sr!Slots |-> IF (i - b) % Capacity < k THEN n + 1 + ((i - b) % Capacity) ELSE buffer[h][i]]
<1>6. /\ buffer' = [buffer EXCEPT ![h] = row] /\ nput' = [nput EXCEPT ![h] = n + k]
      /\ tail' = [tail EXCEPT ![h] = (b + k) % Capacity]
      /\ full' = [full EXCEPT ![h] = k > 0 /\ (b + k) % Capacity = a]
  BY <1>1 DEF Sr!Put
<1>7. (b + k) % Capacity = (n + k) % Capacity
  <2>1. n \in Int /\ k \in Int
    OBVIOUS
  <2>2. ((n % Capacity) + k) % Capacity = (n + k) % Capacity
    BY <1>2, <2>1, ModAdd
  <2>. QED BY <1>3, <2>2
<1>8. \A i \in 0..Capacity - 1 : row[i] = IF (i - b) % Capacity < k THEN n + 1 + ((i - b) % Capacity) ELSE buffer[h][i]
  BY DEF Sr!Slots
<1>. HIDE DEF row
<1>9. /\ nput'[h] = n + k /\ tail'[h] = (b + k) % Capacity /\ buffer'[h] = row /\ Sent(h)' = s
      /\ head'[h] = a /\ len'[h] = z
  <2>1. nput \in [Threads -> Nat] /\ tail \in [Threads -> Sr!Slots] /\ buffer \in [Threads -> [Sr!Slots -> Nat]]
    BY TypesOf DEF RingTypes, MessageTypes
  <2>. QED BY <1>1, <1>6, <2>1 DEF Sent
<1>10. full'[h] <=> (b + k) % Capacity = a
  <2>1. full \in [Threads -> BOOLEAN] /\ k > 0
    BY TypesOf DEF FlagTypes
  <2>. QED BY <1>6, <2>1
<1>11. (n + k) % Capacity = a <=> n + k - s = Capacity
  <2>1. n + k \in Int /\ (n + k) - s \in 1..Capacity /\ s \in Int
    BY <1>2, <1>3, <1>4
  <2>2. s % Capacity = (n + k) % Capacity <=> (n + k) - s = Capacity
    BY <1>2, <2>1, ModBetween
  <2>. QED BY <1>3, <2>2
<1>12. ASSUME NEW i \in s..n + k - 1 PROVE row[i % Capacity] = i + 1
  <2>1. /\ i % Capacity \in 0..Capacity - 1
        /\ i >= n => ((i % Capacity) - b) % Capacity = i - n /\ i - n < k /\ n + 1 + (i - n) = i + 1
        /\ ~ (i >= n) => ~ (((i % Capacity) - b) % Capacity < k) /\ i \in s..n - 1
    <3>1. s \in Nat /\ n \in Nat /\ k \in Nat \ {0} /\ s <= n /\ n - s + k <= Capacity /\ i \in s..n + k - 1
      BY <1>3, <1>4, <1>12
    <3>2. InRow(Capacity, s, n, k, i)
      BY <1>2, <3>1, RowOf
    <3>. QED BY <1>3, <3>2 DEF InRow
  <2>2. row[i % Capacity] = IF ((i % Capacity) - b) % Capacity < k
                            THEN n + 1 + (((i % Capacity) - b) % Capacity) ELSE buffer[h][i % Capacity]
    BY <1>8, <2>1
  <2>3. CASE i >= n
    BY <2>1, <2>2, <2>3
  <2>4. CASE ~ (i >= n)
    BY <1>5, <2>1, <2>2, <2>4
  <2>. QED BY <2>3, <2>4
<1>13. PlacesInv(h)'
  <2>1. s <= n + k /\ (n + k) - s <= Capacity /\ n + k <= z
    BY <1>3, <1>4
  <2>2. line'[h] = [j \in 1..s |-> j]
    BY <1>1 DEF PlacesInv
  <2>. QED BY <1>3, <1>7, <1>9, <1>12, <2>1, <2>2 DEF PlacesInv
<1>. QED BY <1>1, <1>7, <1>9, <1>10, <1>11, <1>13

-----------------------------------------------------------------------------
(* Every step keeps every byte of every message                            *)

\* g's message is where it was.
SameRow(g) ==
    /\ head'[g] = head[g] /\ tail'[g] = tail[g] /\ buffer'[g] = buffer[g] /\ quota'[g] = quota[g]
    /\ len'[g] = len[g] /\ nput'[g] = nput[g] /\ line'[g] = line[g] /\ ppc'[g] = ppc[g]
    /\ full'[g] <=> full[g]

LEMMA SameRowKeeps ==
  ASSUME NEW g \in Threads, PlacesInv(g), StageInv(g), SameRow(g)
  PROVE  PlacesInv(g)' /\ StageInv(g)'
<1>1. Sent(g)' = Sent(g)
  BY DEF SameRow, Sent
<1>2. PlacesInv(g)'
  BY <1>1 DEF SameRow, PlacesInv
<1>3. StageInv(g)'
  BY <1>1 DEF SameRow, StageInv
<1>. QED BY <1>2, <1>3

\* One thread moves at a time.
LEMMA RowsKeep ==
  ASSUME NEW h \in Threads, MessageInv, PlacesInv(h)', StageInv(h)',
         \A g \in Threads \ {h} : SameRow(g)
  PROVE  MessageInv'
  BY SameRowKeeps DEF MessageInv

LEMMA QuarterFacts ==
  ASSUME Sr!SerialAssumption
  PROVE  /\ Capacity \in Nat /\ Capacity >= 4
         /\ Quarter \in 1..Capacity /\ 0 * Quarter = 0
         /\ \A m \in Nat : m * Quarter \in Nat /\ m * Quarter + Quarter = (m + 1) * Quarter
<1>1. Capacity \in Nat /\ Capacity >= 4
  BY SerialSizes DEF Sr!SerialAssumption, Sr!PrintkAssumption
<1>2. Quarter \in 1..Capacity
  BY <1>1 DEF Quarter
<1>3. \A m \in Nat : m * Quarter \in Nat /\ m * Quarter + Quarter = (m + 1) * Quarter
  BY <1>1, <1>2
<1>. QED BY <1>1, <1>2, <1>3

LEMMA Multiple ==
  ASSUME Sr!SerialAssumption, NEW m \in Nat
  PROVE  (m * Quarter) % Quarter = 0
<1>1. Quarter \in Nat \ {0} /\ 0 \in 0..Quarter - 1 /\ m \in Int
  <2>1. Quarter \in 1..Capacity /\ Capacity \in Nat
    BY QuarterFacts
  <2>. QED BY <2>1
<1>2. m * Quarter \in Int /\ m * Quarter = Quarter * m + 0
  BY <1>1
<1>. QED BY <1>1, <1>2, ModUnique

LEMMA StartRow ==
  ASSUME Sr!SerialAssumption, Sr!PrintkTypeOK, NEW h \in Threads, MessageInv,
         NEW z \in Lengths, Sr!Start(h, z)
  PROVE  MessageInv'
<1>1. PlacesInv(h) /\ StageInv(h)
  BY DEF MessageInv
<1>2. UNCHANGED <<head, tail, buffer, quota, nput, line>> /\ UNCHANGED full
  BY DEF Sr!Start, Sr!ringVars
<1>3. PICK label \in {"acquire", "put"} : ppc' = [ppc EXCEPT ![h] = label]
  BY DEF Sr!Start, Sr!GoTo
<1>4. ppc[h] = "idle" /\ len' = [len EXCEPT ![h] = z] /\ z \in Nat
  BY DEF Sr!Start, Sr!SerialAssumption, Sr!PrintkAssumption
<1>5. ppc \in [Threads -> Sr!PCs] /\ len \in [Threads -> Nat]
  BY TypesOf DEF CallTypes, MessageTypes
<1>6. ppc'[h] = label /\ len'[h] = z /\ Sent(h)' = Sent(h)
  BY <1>2, <1>3, <1>4, <1>5 DEF Sent
<1>7. nput[h] = 0 /\ Sent(h) = 0 /\ (~ full[h])
  <2>1. nput[h] = 0 /\ (~ full[h])
    BY <1>1, <1>4 DEF StageInv
  <2>2. Sent(h) \in Nat /\ Sent(h) <= nput[h]
    BY <1>1, MessageFacts DEF PlacesInv
  <2>. QED BY <2>1, <2>2
<1>8. PlacesInv(h)'
  BY <1>1, <1>2, <1>4, <1>6, <1>7, QuarterFacts DEF PlacesInv
<1>9. StageInv(h)'
  <2>1. \E m \in Nat : 0 = m * Quarter
    BY QuarterFacts
  <2>2. nput'[h] = 0 /\ Sent(h)' = 0 /\ (~ full'[h]) /\ (~ 0 - 0 = Capacity)
    BY <1>2, <1>6, <1>7, QuarterFacts
  <2>. QED BY <1>3, <1>6, <2>1, <2>2 DEF StageInv
<1>10. \A g \in Threads \ {h} : SameRow(g)
  BY <1>2, <1>3, <1>4, <1>5 DEF SameRow
<1>. QED BY <1>8, <1>9, <1>10, RowsKeep

LEMMA AcquireRow ==
  ASSUME Sr!SerialAssumption, Sr!PrintkTypeOK, NEW h \in Threads, MessageInv, Sr!Acquire(h)
  PROVE  MessageInv'
<1>1. PlacesInv(h) /\ StageInv(h)
  BY DEF MessageInv
<1>2. UNCHANGED <<head, tail, buffer, quota, nput, line, len>> /\ UNCHANGED full
  BY DEF Sr!Acquire, Sr!ringVars
<1>3. ppc[h] = "acquire" /\ ppc' = [ppc EXCEPT ![h] = "put"] /\ ppc \in [Threads -> Sr!PCs]
  BY TypesOf DEF Sr!Acquire, Sr!GoTo, CallTypes
<1>4. ppc'[h] = "put" /\ Sent(h)' = Sent(h)
  BY <1>2, <1>3 DEF Sent
<1>5. nput[h] = 0 /\ Sent(h) = 0 /\ (~ full[h]) /\ len[h] \in Lengths
  <2>1. nput[h] = 0 /\ (~ full[h]) /\ len[h] \in Lengths
    BY <1>1, <1>3 DEF StageInv
  <2>2. Sent(h) \in Nat /\ Sent(h) <= nput[h]
    BY <1>1, MessageFacts DEF PlacesInv
  <2>. QED BY <2>1, <2>2
<1>6. PlacesInv(h)'
  BY <1>1, <1>2, <1>4 DEF PlacesInv
<1>7. StageInv(h)'
  <2>1. \E m \in Nat : 0 = m * Quarter
    BY QuarterFacts
  <2>2. nput'[h] = 0 /\ Sent(h)' = 0 /\ (~ full'[h]) /\ len'[h] \in Lengths /\ (~ 0 - 0 = Capacity)
    BY <1>2, <1>4, <1>5, QuarterFacts
  <2>. QED BY <1>4, <2>1, <2>2 DEF StageInv
<1>8. \A g \in Threads \ {h} : SameRow(g)
  BY <1>2, <1>3 DEF SameRow
<1>. QED BY <1>6, <1>7, <1>8, RowsKeep

\* ring_buf_put() touches the ring of one message.
LEMMA PutOthers ==
  ASSUME Sr!PrintkTypeOK, NEW h \in Threads, NEW k, Sr!Put(h, k), UNCHANGED <<head, len, line>>,
         NEW g \in Threads \ {h}, quota'[g] = quota[g], ppc'[g] = ppc[g]
  PROVE  SameRow(g)
<1>1. tail'[g] = tail[g] /\ buffer'[g] = buffer[g] /\ nput'[g] = nput[g]
  <2>1. tail \in [Threads -> Sr!Slots] /\ buffer \in [Threads -> [Sr!Slots -> Nat]] /\ nput \in [Threads -> Nat]
    BY TypesOf DEF RingTypes, MessageTypes
  <2>2. \E x, y, z : tail' = [tail EXCEPT ![h] = x] /\ buffer' = [buffer EXCEPT ![h] = y] /\ nput' = [nput EXCEPT ![h] = z]
    BY DEF Sr!Put
  <2>. QED BY <2>1, <2>2
<1>2. full'[g] <=> full[g]
  <2>1. full \in [Threads -> BOOLEAN]
    BY TypesOf DEF FlagTypes
  <2>2. \E x : full' = [full EXCEPT ![h] = x]
    BY DEF Sr!Put
  <2>. QED BY <2>1, <2>2
<1>. QED BY <1>1, <1>2 DEF SameRow

\* printk() puts what fits, which is Capacity - RingSize() of a ring that is not full.
LEMMA PutBytesRow ==
  ASSUME Sr!SerialAssumption, Sr!PrintkTypeOK, NEW h \in Threads, MessageInv, Sr!PutBytes(h)
  PROVE  MessageInv'
<1>1. PlacesInv(h) /\ StageInv(h)
  BY DEF MessageInv
<1>2. PICK k \in 1..len[h] - nput[h] :
         /\ k = Capacity - Sr!RingSize(h) \/ (k = len[h] - nput[h] /\ k < Capacity - Sr!RingSize(h))
         /\ Sr!Put(h, k)
  BY DEF Sr!PutBytes
<1>3. UNCHANGED <<head, len, line, quota, ppc>> /\ ppc[h] = "put"
  BY DEF Sr!PutBytes
<1>4. PICK s \in Nat, n \in Nat, z \in Nat : s = Sent(h) /\ n = nput[h] /\ z = len[h]
  BY MessageFacts
<1>5. n - s \in 0..Capacity /\ n - s # Capacity
  <2>1. n - s \in 0..Capacity
    BY <1>1, <1>4, RingSizeIs
  <2>2. ASSUME n - s = Capacity PROVE FALSE
    <3>1. full[h]
      BY <1>1, <1>3, <1>4, <2>2 DEF StageInv
    <3>2. head[h] = tail[h]
      BY <1>1, <1>4, <2>2, RingSizeIs
    <3>. QED BY <3>1, <3>2 DEF Sr!PutBytes, Sr!RingFull
  <2>. QED BY <2>1, <2>2
<1>6. Sr!RingSize(h) = n - s
  <2>1. n - s < Capacity
    BY <1>5, SerialSizes
  <2>. QED BY <1>1, <1>4, <2>1, RingSizeIs
<1>7. k \in Nat \ {0} /\ n - s + k <= Capacity /\ n + k <= z
  <2>1. /\ k \in 1..z - n
        /\ k = Capacity - (n - s) \/ (k = z - n /\ k < Capacity - (n - s))
    BY <1>2, <1>4, <1>6
  <2>. QED BY <2>1, SerialSizes
<1>8. /\ PlacesInv(h)' /\ Sent(h)' = s /\ nput'[h] = n + k
      /\ full'[h] <=> n + k - s = Capacity
  <2>1. nput[h] - Sent(h) + k <= Capacity /\ nput[h] + k <= len[h] /\ UNCHANGED <<head, len, line>>
    BY <1>3, <1>4, <1>7
  <2>. QED BY <1>1, <1>2, <1>4, <1>7, <2>1, PutGives
<1>9. StageInv(h)'
  <2>1. len[h] \in Lengths /\ \E m \in Nat : s = m * Quarter
    BY <1>1, <1>3, <1>4 DEF StageInv
  <2>2. ppc'[h] = "put" /\ len'[h] \in Lengths
    BY <1>3, <2>1
  <2>3. (full'[h] <=> nput'[h] - Sent(h)' = Capacity)
    BY <1>8
  <2>4. s > 0 => n - s > Capacity - Quarter
    BY <1>1, <1>3, <1>4 DEF StageInv
  <2>5. Quarter \in 1..Capacity /\ Capacity \in Nat
    BY QuarterFacts
  <2>6. Sent(h)' > 0 => nput'[h] - Sent(h)' > Capacity - Quarter
    BY <1>7, <1>8, <2>4, <2>5
  <2>. QED BY <1>8, <2>1, <2>2, <2>3, <2>6 DEF StageInv
<1>10. \A g \in Threads \ {h} : SameRow(g)
  BY <1>3, <1>2, PutOthers
<1>. QED BY <1>8, <1>9, <1>10, RowsKeep

\* The length of a message tells whether its end finds the ring full: s bytes were given
\* away, in quarters, and then the ring was filled up again.
LEMMA FullAtEnd ==
  ASSUME Sr!SerialAssumption, NEW s \in Nat, NEW n \in Nat, NEW m \in Nat, s = m * Quarter,
         n - s \in 0..Capacity, s > 0 => n - s > Capacity - Quarter
  PROVE  Sr!EndsFull(n) <=> n - s = Capacity
<1>1. Capacity \in Nat /\ Quarter \in Nat \ {0} /\ Quarter <= Capacity
  <2>1. Capacity \in Nat /\ Quarter \in 1..Capacity
    BY QuarterFacts
  <2>. QED BY <2>1
<1>2. s % Quarter = 0
  BY Multiple
<1>3. ASSUME n - s = Capacity PROVE Sr!EndsFull(n)
  <2>1. n >= Capacity /\ n - Capacity = s
    BY <1>1, <1>3
  <2>. QED BY <1>2, <2>1 DEF Sr!EndsFull, Quarter
<1>4. ASSUME Sr!EndsFull(n) PROVE n - s = Capacity
  <2>1. n >= Capacity /\ (n - Capacity) % Quarter = 0
    BY <1>4 DEF Sr!EndsFull, Quarter
  <2>2. CASE s = 0
    BY <1>1, <2>1, <2>2
  <2>3. CASE s > 0
    <3>1. n - s > Capacity - Quarter
      BY <2>3
    <3>2. PICK x \in Int : x = n - Capacity
      BY <1>1
    <3>3. s - x \in 0..Quarter - 1
      BY <1>1, <3>1, <3>2
    <3>4. ASSUME s - x \in 1..Quarter - 1 PROVE FALSE
      <4>1. s \in Int /\ Quarter \in Nat \ {0}
        BY <1>1
      <4>2. x % Quarter # s % Quarter
        BY <3>4, <4>1, ModDiffers
      <4>. QED BY <1>2, <2>1, <3>2, <4>2
    <3>5. s = x
      BY <1>1, <3>3, <3>4
    <3>. QED BY <1>1, <3>2, <3>5
  <2>. QED BY <2>2, <2>3
<1>. QED BY <1>3, <1>4

\* A ring that is full while the message goes on gives a quarter of it away.  When the
\* message is complete, ring_buf_size() is right about the ring unless it is full.
LEMMA FlushPartRow ==
  ASSUME Sr!SerialAssumption, Sr!PrintkTypeOK, NEW h \in Threads, MessageInv, Sr!FlushPart(h)
  PROVE  MessageInv'
<1>1. PlacesInv(h) /\ StageInv(h)
  BY DEF MessageInv
<1>2. UNCHANGED <<head, tail, buffer, nput, line, len>> /\ UNCHANGED full
  BY DEF Sr!FlushPart
<1>3. ppc[h] = "put" /\ ppc' = [ppc EXCEPT ![h] = "part"] /\ ppc \in [Threads -> Sr!PCs]
  BY TypesOf DEF Sr!FlushPart, Sr!GoTo, CallTypes
<1>4. PICK s \in Nat, n \in Nat, z \in Nat : s = Sent(h) /\ n = nput[h] /\ z = len[h]
  BY MessageFacts
<1>5. /\ quota' = [quota EXCEPT ![h] = IF n < z THEN Quarter ELSE Sr!RingSize(h)]
      /\ quota \in [Threads -> Nat]
  BY <1>4, TypesOf DEF Sr!FlushPart, Quarter, RingTypes
<1>6. ppc'[h] = "part" /\ Sent(h)' = s /\ nput'[h] = n /\ len'[h] = z /\ z \in Lengths
  BY <1>1, <1>2, <1>3, <1>4 DEF Sent, StageInv
<1>7. quota'[h] = IF n < z THEN Quarter ELSE Sr!RingSize(h)
  BY <1>5
<1>8. PICK m \in Nat : s = m * Quarter
  BY <1>1, <1>3, <1>4 DEF StageInv
<1>9. (full[h] <=> n - s = Capacity) /\ n - s \in 0..Capacity
  BY <1>1, <1>3, <1>4, RingSizeIs DEF StageInv
<1>10. PlacesInv(h)'
  BY <1>1, <1>2, <1>4, <1>6 DEF PlacesInv
<1>11. ASSUME n < z
       PROVE  /\ full'[h] /\ n - s = Capacity - Quarter + quota'[h]
              /\ \E i \in Nat : s + quota'[h] = i * Quarter
  <2>1. full[h]
    BY <1>4, <1>11 DEF Sr!FlushPart, Sr!RingFull
  <2>2. n - s = Capacity /\ full'[h]
    BY <1>2, <1>9, <2>1
  <2>3. quota'[h] = Quarter
    BY <1>7, <1>11
  <2>4. Capacity = Capacity - Quarter + Quarter
    BY QuarterFacts
  <2>5. m + 1 \in Nat /\ s + Quarter = (m + 1) * Quarter
    BY <1>8, QuarterFacts
  <2>. QED BY <2>2, <2>3, <2>4, <2>5
<1>12. s > 0 => n - s > Capacity - Quarter
  BY <1>1, <1>3, <1>4 DEF StageInv
<1>13. Sr!EndsFull(n) <=> n - s = Capacity
  BY <1>8, <1>9, <1>12, FullAtEnd
<1>14. ASSUME n = z, Sr!EndsFull(z)
       PROVE  quota'[h] = 0 /\ n - s = Capacity
  <2>1. n - s = Capacity
    BY <1>13, <1>14
  <2>2. head[h] = tail[h]
    BY <1>1, <1>4, <2>1, RingSizeIs
  <2>3. Sr!RingSize(h) = 0
    BY <2>2, MessageFacts DEF Sr!RingSize
  <2>. QED BY <1>7, <1>14, <2>1, <2>3
<1>15. ASSUME n = z, ~ Sr!EndsFull(z)
       PROVE  quota'[h] = n - s /\ n - s < Capacity /\ (~ full'[h])
  <2>1. n - s # Capacity
    BY <1>13, <1>15
  <2>2. n - s < Capacity
    BY <1>9, <2>1, SerialSizes
  <2>3. Sr!RingSize(h) = n - s
    BY <1>1, <1>4, <2>2, RingSizeIs
  <2>4. ~ full'[h]
    BY <1>2, <1>9, <2>1
  <2>5. quota'[h] = n - s
    BY <1>7, <1>15, <2>3
  <2>. QED BY <2>2, <2>4, <2>5
<1>16. StageInv(h)'
  BY <1>6, <1>11, <1>14, <1>15 DEF StageInv
<1>17. \A g \in Threads \ {h} : SameRow(g)
  BY <1>2, <1>3, <1>5 DEF SameRow
<1>. QED BY <1>10, <1>16, <1>17, RowsKeep

\* The ring is never empty before its quota is used up: each byte is the next one.
LEMMA OutByteRow ==
  ASSUME Sr!SerialAssumption, Sr!PrintkTypeOK, NEW h \in Threads, MessageInv, Sr!OutByte(h)
  PROVE  MessageInv'
<1>1. PlacesInv(h) /\ StageInv(h)
  BY DEF MessageInv
<1>2. UNCHANGED <<tail, buffer, nput, len, ppc>> /\ UNCHANGED full
  BY DEF Sr!OutByte
<1>3. PICK s \in Nat, n \in Nat, z \in Nat, q \in Nat :
         s = Sent(h) /\ n = nput[h] /\ z = len[h] /\ q = quota[h]
  BY MessageFacts
<1>4. /\ ppc[h] = "part" /\ q > 0 /\ quota' = [quota EXCEPT ![h] = q - 1]
      /\ line' = [line EXCEPT ![h] = Append(line[h], buffer[h][head[h]])]
      /\ head' = [head EXCEPT ![h] = (head[h] + 1) % Capacity]
  BY <1>3 DEF Sr!OutByte
<1>5. /\ quota \in [Threads -> Nat] /\ line \in [Threads -> Seq(Nat)] /\ head \in [Threads -> Sr!Slots]
      /\ buffer[h][head[h]] \in Nat /\ line[h] \in Seq(Nat)
  <2>1. /\ quota \in [Threads -> Nat] /\ line \in [Threads -> Seq(Nat)] /\ head \in [Threads -> Sr!Slots]
        /\ buffer \in [Threads -> [Sr!Slots -> Nat]]
    BY TypesOf DEF RingTypes, MessageTypes
  <2>. QED BY <2>1
<1>6. /\ s <= n /\ n <= z /\ n - s <= Capacity /\ head[h] = s % Capacity
      /\ line[h] = [k \in 1..s |-> k] /\ Len(line[h]) = s
  BY <1>1, <1>3 DEF PlacesInv, Sent
<1>7. s < n
  <2>1. CASE n < z
    <3>1. n - s = Capacity - Quarter + q
      BY <1>1, <1>3, <1>4, <2>1 DEF StageInv
    <3>2. Quarter \in 1..Capacity
      BY QuarterFacts
    <3>. QED BY <1>4, <3>1, <3>2, SerialSizes
  <2>2. CASE n = z
    <3>1. q = 0 \/ q = n - s
      BY <1>1, <1>3, <1>4, <2>2 DEF StageInv
    <3>. QED BY <1>4, <3>1
  <2>. QED BY <1>6, <2>1, <2>2
<1>8. buffer[h][head[h]] = s + 1
  <2>1. s \in s..n - 1
    BY <1>7
  <2>2. \A i \in s..n - 1 : buffer[h][i % Capacity] = i + 1
    BY <1>1, <1>3 DEF PlacesInv
  <2>. QED BY <1>6, <2>1, <2>2
<1>9. quota'[h] = q - 1 /\ line'[h] = Append(line[h], s + 1) /\ head'[h] = (head[h] + 1) % Capacity
  BY <1>4, <1>5, <1>8
<1>10. line'[h] = [k \in 1..s + 1 |-> k] /\ Sent(h)' = s + 1
  <2>1. Len(Append(line[h], s + 1)) = s + 1 /\ Append(line[h], s + 1) \in Seq(Nat)
    BY <1>5, <1>6
  <2>2. \A k \in 1..s + 1 : Append(line[h], s + 1)[k] = k
    <3>. SUFFICES ASSUME NEW k \in 1..s + 1 PROVE Append(line[h], s + 1)[k] = k
      OBVIOUS
    <3>1. CASE k = s + 1
      BY <1>5, <1>6, <3>1
    <3>2. CASE k \in 1..s
      BY <1>5, <1>6, <3>2
    <3>3. k = s + 1 \/ k \in 1..s
      OBVIOUS
    <3>. QED BY <3>1, <3>2, <3>3
  <2>3. Append(line[h], s + 1) = [k \in 1..s + 1 |-> k]
    <3>1. Append(line[h], s + 1) = [k \in 1..s + 1 |-> Append(line[h], s + 1)[k]]
      BY <2>1
    <3>. QED BY <2>2, <3>1
  <2>. QED BY <1>9, <2>1, <2>3 DEF Sent
<1>11. (head[h] + 1) % Capacity = (s + 1) % Capacity
  <2>1. s \in Int /\ 1 \in Int /\ Capacity \in Nat \ {0}
    BY SerialSizes
  <2>2. ((s % Capacity) + 1) % Capacity = (s + 1) % Capacity
    BY <2>1, ModAdd
  <2>. QED BY <1>6, <2>2
<1>12. PlacesInv(h)'
  <2>1. s + 1 <= n /\ n <= z /\ n - (s + 1) <= Capacity
    BY <1>6, <1>7, SerialSizes
  <2>2. nput'[h] = n /\ len'[h] = z /\ tail'[h] = n % Capacity /\ buffer'[h] = buffer[h]
    BY <1>1, <1>2, <1>3 DEF PlacesInv
  <2>3. \A i \in s..n - 1 : buffer[h][i % Capacity] = i + 1
    BY <1>1, <1>3 DEF PlacesInv
  <2>4. \A i \in s + 1..n - 1 : i \in s..n - 1
    OBVIOUS
  <2>5. \A i \in s + 1..n - 1 : buffer[h][i % Capacity] = i + 1
    BY <2>3, <2>4
  <2>. QED BY <1>9, <1>10, <1>11, <2>1, <2>2, <2>5 DEF PlacesInv
<1>13. StageInv(h)'
  <2>1. ppc'[h] = "part" /\ nput'[h] = n /\ len'[h] = z /\ z \in Lengths
    BY <1>1, <1>2, <1>3, <1>4 DEF StageInv
  <2>2. full'[h] <=> full[h]
    BY <1>2
  <2>3. ASSUME n < z
        PROVE  /\ full'[h] /\ n - (s + 1) = Capacity - Quarter + (q - 1)
               /\ \E m \in Nat : (s + 1) + (q - 1) = m * Quarter
    <3>1. full[h] /\ n - s = Capacity - Quarter + q /\ \E m \in Nat : s + q = m * Quarter
      BY <1>1, <1>3, <1>4, <2>3 DEF StageInv
    <3>2. Quarter \in 1..Capacity /\ Capacity \in Nat
      BY QuarterFacts
    <3>3. (s + 1) + (q - 1) = s + q
      OBVIOUS
    <3>4. n - (s + 1) = Capacity - Quarter + (q - 1)
      BY <3>1, <3>2
    <3>. QED BY <2>2, <3>1, <3>3, <3>4
  <2>4. ASSUME n = z
        PROVE  ~ Sr!EndsFull(z) /\ q - 1 = n - (s + 1) /\ q - 1 < Capacity /\ (~ full'[h])
    <3>1. ~ Sr!EndsFull(z) /\ q = n - s /\ q < Capacity /\ (~ full[h])
      BY <1>1, <1>3, <1>4, <2>4 DEF StageInv
    <3>2. q - 1 = n - (s + 1) /\ q - 1 < Capacity
      BY <3>1, SerialSizes
    <3>. QED BY <2>2, <3>1, <3>2
  <2>. QED BY <1>9, <1>10, <2>1, <2>3, <2>4 DEF StageInv
<1>14. \A g \in Threads \ {h} : SameRow(g)
  BY <1>2, <1>4, <1>5 DEF SameRow
<1>. QED BY <1>12, <1>13, <1>14, RowsKeep

\* ring_buf_flush_part() stops at its quota, and the byte that waited fits; at the end
\* of a message its quota is all there is, or nothing of a full ring.
LEMMA FlushEndRow ==
  ASSUME Sr!SerialAssumption, Sr!PrintkTypeOK, NEW h \in Threads, MessageInv, Sr!FlushEnd(h)
  PROVE  MessageInv'
<1>1. PlacesInv(h) /\ StageInv(h)
  BY DEF MessageInv
<1>2. /\ UNCHANGED <<head, len, line>> /\ ppc[h] = "part"
      /\ quota' = [quota EXCEPT ![h] = 0] /\ quota \in [Threads -> Nat] /\ ppc \in [Threads -> Sr!PCs]
  BY TypesOf DEF Sr!FlushEnd, RingTypes, CallTypes
<1>3. PICK s \in Nat, n \in Nat, z \in Nat, q \in Nat :
         s = Sent(h) /\ n = nput[h] /\ z = len[h] /\ q = quota[h]
  BY MessageFacts
<1>4. n <= z /\ n - s \in 0..Capacity /\ z \in Lengths
  BY <1>1, <1>2, <1>3, RingSizeIs DEF PlacesInv, StageInv
<1>5. quota'[h] = 0 /\ \A g \in Threads \ {h} : quota'[g] = quota[g]
  BY <1>2
<1>6. ASSUME n < z PROVE MessageInv'
  <2>1. full[h] /\ n - s = Capacity - Quarter + q /\ \E m \in Nat : s + q = m * Quarter
    BY <1>1, <1>2, <1>3, <1>6 DEF StageInv
  <2>2. q = 0
    BY <1>3, <2>1 DEF Sr!FlushEnd, Sr!RingEmpty
  <2>3. Sr!Put(h, 1) /\ ppc' = [ppc EXCEPT ![h] = "put"]
    BY <1>3, <1>6 DEF Sr!FlushEnd, Sr!GoTo
  <2>4. ppc'[h] = "put" /\ \A g \in Threads \ {h} : ppc'[g] = ppc[g]
    BY <1>2, <2>3
  <2>5. 1 \in Nat \ {0} /\ n - s + 1 <= Capacity /\ n + 1 <= z
    <3>1. Quarter \in 1..Capacity /\ Capacity \in Nat
      BY QuarterFacts
    <3>2. n - s = Capacity - Quarter + q
      BY <2>1
    <3>. QED BY <1>6, <2>2, <3>1, <3>2
  <2>6. /\ PlacesInv(h)' /\ Sent(h)' = s /\ nput'[h] = n + 1
        /\ full'[h] <=> n + 1 - s = Capacity
    <3>1. nput[h] - Sent(h) + 1 <= Capacity /\ nput[h] + 1 <= len[h] /\ UNCHANGED <<head, len, line>>
      BY <1>2, <1>3, <2>5
    <3>. QED BY <1>1, <1>3, <2>3, <2>5, <3>1, PutGives
  <2>7. StageInv(h)'
    <3>1. s + q = s
      BY <2>2
    <3>2. \E m \in Nat : Sent(h)' = m * Quarter
      BY <2>1, <2>6, <3>1
    <3>3. len'[h] \in Lengths
      BY <1>2, <1>3, <1>4
    <3>4. (full'[h] <=> nput'[h] - Sent(h)' = Capacity)
      BY <2>6
    <3>5. nput'[h] - Sent(h)' > Capacity - Quarter
      <4>1. Quarter \in 1..Capacity /\ Capacity \in Nat
        BY QuarterFacts
      <4>. QED BY <2>1, <2>2, <2>6, <4>1
    <3>. QED BY <2>4, <3>2, <3>3, <3>4, <3>5 DEF StageInv
  <2>8. \A g \in Threads \ {h} : SameRow(g)
    BY <1>2, <1>5, <2>3, <2>4, PutOthers
  <2>. QED BY <2>6, <2>7, <2>8, RowsKeep
<1>7. ASSUME n = z PROVE MessageInv'
  <2>1. IF Sr!EndsFull(z) THEN q = 0 /\ n - s = Capacity ELSE q = n - s /\ q < Capacity
    BY <1>1, <1>2, <1>3, <1>7 DEF StageInv
  <2>2. s = z - Sr!Unprinted(z)
    <3>1. CASE Sr!EndsFull(z)
      BY <1>7, <2>1, <3>1, SerialSizes DEF Sr!Unprinted
    <3>2. CASE ~ Sr!EndsFull(z)
      <4>1. CASE q = 0
        BY <1>7, <2>1, <3>2, <4>1 DEF Sr!Unprinted
      <4>2. CASE q # 0
        <5>1. head[h] = tail[h]
          BY <1>3, <4>2 DEF Sr!FlushEnd, Sr!RingEmpty
        <5>2. n - s \in {0, Capacity}
          BY <1>1, <1>3, <5>1, RingSizeIs
        <5>. QED BY <1>7, <2>1, <3>2, <5>2, SerialSizes DEF Sr!Unprinted
      <4>. QED BY <4>1, <4>2
    <3>. QED BY <3>1, <3>2
  <2>3. /\ UNCHANGED <<tail, buffer, nput>> /\ ppc' = [ppc EXCEPT ![h] = "release"]
        /\ full' = [full EXCEPT ![h] = FALSE]
    BY <1>3, <1>7 DEF Sr!FlushEnd, Sr!GoTo
  <2>4. ppc'[h] = "release" /\ Sent(h)' = s /\ nput'[h] = n /\ len'[h] = z
    BY <1>2, <1>3, <2>3 DEF Sent
  <2>5. PlacesInv(h)'
    BY <1>1, <1>2, <1>3, <2>3, <2>4 DEF PlacesInv
  <2>6. StageInv(h)'
    BY <1>7, <2>2, <2>4 DEF StageInv
  <2>7. \A g \in Threads \ {h} : (full'[g] <=> full[g])
    BY <2>3, TypesOf DEF FlagTypes
  <2>8. \A g \in Threads \ {h} : SameRow(g)
    BY <1>2, <2>3, <2>7 DEF SameRow
  <2>. QED BY <2>5, <2>6, <2>8, RowsKeep
<1>8. n < z \/ n = z
  BY <1>4
<1>. QED BY <1>6, <1>7, <1>8

LEMMA ReturnRow ==
  ASSUME Sr!PrintkTypeOK, NEW h \in Threads, MessageInv, Sr!Return(h)
  PROVE  MessageInv'
<1>1. PlacesInv(h) /\ StageInv(h)
  BY DEF MessageInv
<1>2. UNCHANGED <<head, tail, buffer, quota, nput, line, len>> /\ UNCHANGED full
  BY DEF Sr!Return, Sr!ringVars
<1>3. PICK label \in {"halt", "done"} : ppc' = [ppc EXCEPT ![h] = label]
  BY DEF Sr!Return, Sr!GoTo
<1>4. ppc[h] = "release" /\ ppc \in [Threads -> Sr!PCs]
  BY TypesOf DEF Sr!Return, CallTypes
<1>5. ppc'[h] = label /\ Sent(h)' = Sent(h)
  BY <1>2, <1>3, <1>4 DEF Sent
<1>6. PlacesInv(h)'
  BY <1>1, <1>2, <1>5 DEF PlacesInv
<1>7. StageInv(h)'
  <2>1. Sent(h) = len[h] - Sr!Unprinted(len[h])
    BY <1>1, <1>4 DEF StageInv
  <2>. QED BY <1>2, <1>3, <1>5, <2>1 DEF StageInv
<1>8. \A g \in Threads \ {h} : SameRow(g)
  BY <1>2, <1>3, <1>4 DEF SameRow
<1>. QED BY <1>6, <1>7, <1>8, RowsKeep

\* ring_buf_init() of the next printk()
LEMMA ForgetRow ==
  ASSUME Sr!SerialAssumption, Sr!PrintkTypeOK, NEW h \in Threads, MessageInv, Sr!Forget(h)
  PROVE  MessageInv'
<1>1. /\ head' = [head EXCEPT ![h] = 0] /\ tail' = [tail EXCEPT ![h] = 0]
      /\ buffer' = [buffer EXCEPT ![h] = [i \in Sr!Slots |-> 0]] /\ quota' = [quota EXCEPT ![h] = 0]
      /\ len' = [len EXCEPT ![h] = 0] /\ nput' = [nput EXCEPT ![h] = 0]
      /\ line' = [line EXCEPT ![h] = <<>>] /\ ppc' = [ppc EXCEPT ![h] = "idle"]
  BY DEF Sr!Forget, Sr!GoTo
<1>2. /\ head \in [Threads -> Sr!Slots] /\ tail \in [Threads -> Sr!Slots]
      /\ buffer \in [Threads -> [Sr!Slots -> Nat]] /\ quota \in [Threads -> Nat]
      /\ len \in [Threads -> Nat] /\ nput \in [Threads -> Nat]
      /\ line \in [Threads -> Seq(Nat)] /\ ppc \in [Threads -> Sr!PCs]
  BY TypesOf DEF RingTypes, MessageTypes, CallTypes
<1>3. (~ full'[h]) /\ \A g \in Threads \ {h} : (full'[g] <=> full[g])
  <2>1. full' = [full EXCEPT ![h] = FALSE] /\ full \in [Threads -> BOOLEAN]
    BY TypesOf DEF Sr!Forget, FlagTypes
  <2>. QED BY <2>1
<1>4. /\ head'[h] = 0 /\ tail'[h] = 0 /\ len'[h] = 0 /\ nput'[h] = 0 /\ line'[h] = <<>> /\ ppc'[h] = "idle"
  BY <1>1, <1>2
<1>5. \A g \in Threads \ {h} :
         /\ head'[g] = head[g] /\ tail'[g] = tail[g] /\ buffer'[g] = buffer[g] /\ quota'[g] = quota[g]
         /\ len'[g] = len[g] /\ nput'[g] = nput[g] /\ line'[g] = line[g] /\ ppc'[g] = ppc[g]
  BY <1>1, <1>2
<1>6. PlacesInv(h)'
  <2>1. Sent(h)' = 0 /\ line'[h] = [k \in 1..0 |-> k]
    BY <1>4 DEF Sent
  <2>2. 0 % Capacity = 0 /\ Capacity \in Nat
    BY SerialSizes
  <2>. QED BY <1>4, <2>1, <2>2 DEF PlacesInv
<1>7. StageInv(h)'
  BY <1>3, <1>4 DEF StageInv
<1>8. \A g \in Threads \ {h} : SameRow(g)
  BY <1>3, <1>5 DEF SameRow
<1>. QED BY <1>6, <1>7, <1>8, RowsKeep

LEMMA MessageInitKeeps ==
  ASSUME Sr!SerialAssumption, Sr!Init
  PROVE  MessageInv
<1>. SUFFICES ASSUME NEW h \in Threads PROVE PlacesInv(h) /\ StageInv(h)
  BY DEF MessageInv
<1>1. head[h] = 0 /\ tail[h] = 0 /\ len[h] = 0 /\ nput[h] = 0 /\ line[h] = <<>> /\ ppc[h] = "idle"
  BY DEF Sr!Init, Sr!PrintkInit
<1>2. ~ full[h]
  BY DEF Sr!Init, Sr!PrintkInit
<1>3. Sent(h) = 0 /\ line[h] = [k \in 1..0 |-> k]
  BY <1>1 DEF Sent
<1>4. 0 % Capacity = 0 /\ Capacity \in Nat
  BY SerialSizes
<1>5. PlacesInv(h)
  BY <1>1, <1>3, <1>4 DEF PlacesInv
<1>6. StageInv(h)
  BY <1>1, <1>2 DEF StageInv
<1>. QED BY <1>5, <1>6

LEMMA MessageNextKeeps ==
  ASSUME Sr!SerialAssumption, SerialIInv, MessageInv, [Sr!Next]_Sr!vars
  PROVE  MessageInv'
<1>1. Sr!PrintkTypeOK
  BY SerialFacts
<1>2. ASSUME UNCHANGED Sr!printkVars PROVE MessageInv'
  <2>1. UNCHANGED <<head, tail, buffer, quota, len, nput, line, ppc>> /\ UNCHANGED full
    BY <1>2 DEF Sr!printkVars, Sr!ringVars
  <2>2. \A g \in Threads : SameRow(g)
    BY <2>1 DEF SameRow
  <2>. QED BY <2>2, SameRowKeeps DEF MessageInv
<1>3. CASE UNCHANGED Sr!vars \/ Sr!Transmit
  BY <1>2, <1>3 DEF Sr!vars, Sr!Transmit
<1>4. ASSUME NEW h \in Threads, Sr!Write(h) \/ Sr!Drive(h) \/ Sr!DriveWait(h) PROVE MessageInv'
  BY <1>2, <1>4 DEF Sr!Write, Sr!Drive, Sr!DriveWait
<1>5. ASSUME NEW h \in Threads,
             Sr!BeginPrintk(h) \/ Sr!TakeLock(h) \/ Sr!Message(h) \/ Sr!EndPrintk(h) \/ Sr!Putchar(h) \/ Sr!Trap(h)
      PROVE  MessageInv'
  <2>1. \/ \E n \in Lengths : Sr!Start(h, n)
        \/ Sr!Acquire(h) \/ Sr!PutBytes(h) \/ Sr!FlushPart(h) \/ Sr!FlushEnd(h) \/ Sr!Return(h)
        \/ Sr!Forget(h) \/ Sr!OutByte(h)
    BY <1>5 DEF Sr!BeginPrintk, Sr!TakeLock, Sr!Message, Sr!PrintkStep, Sr!EndPrintk, Sr!Resume,
                Sr!Putchar, Sr!Trap, Sr!Panic
  <2>. QED BY <1>1, <2>1, StartRow, AcquireRow, PutBytesRow, FlushPartRow, FlushEndRow, ReturnRow,
              ForgetRow, OutByteRow
<1>. QED BY <1>3, <1>4, <1>5 DEF Sr!Next

\* MessageInv is kept by every step, whatever the other threads do.
THEOREM MessagesInductive ==
  ASSUME Sr!SerialAssumption
  PROVE  Sr!Spec => [](SerialIInv /\ MessageInv)
  BY SerialInitKeeps, SerialNextKeeps, MessageInitKeeps, MessageNextKeeps, PTL DEF Sr!Spec

\* When printk() returns every byte of its message has been given to the UART, once and
\* in order, for any message, any capacity of the ring, any number of wraps and any
\* threads and panics beside it; except the last ring of a message that filled it just
\* when it ended, of which nothing was sent.
THEOREM SerialPrintedExactly ==
  ASSUME Sr!SerialAssumption
  PROVE  Sr!Spec => []PrintedExactly
<1>1. MessageInv => PrintedExactly
  BY DEF PrintedExactly, MessageInv, PlacesInv, StageInv, Sr!PrintedExactly
<1>. QED BY <1>1, MessagesInductive, PTL

-----------------------------------------------------------------------------
(* The transmit buffer implements Fifo                                     *)

Queued == Sr!U!Contents

\* Where the k-th byte of the buffer is
TxPlace(k) == (uart_tx_r + k - 1) % UART_TX_BUF_SIZE

LEMMA TxTurns ==
  ASSUME Sr!SerialAssumption
  PROVE  \A x \in Int : (x + TxMod) % UART_TX_BUF_SIZE = x % UART_TX_BUF_SIZE
<1>1. UART_TX_BUF_SIZE \in Nat \ {0} /\ TxMod \in Int /\ TxMod % UART_TX_BUF_SIZE = 0
  BY SerialSizes
<1>. QED BY <1>1, ModWhole

LEMMA QueuedIs ==
  ASSUME Sr!SerialAssumption, DriverInv
  PROVE  /\ TxUsed \in 0..UART_TX_BUF_SIZE
         /\ \A k \in Int : TxPlace(k) \in 0..UART_TX_BUF_SIZE - 1
         /\ Queued \in Seq(Bytes) /\ Len(Queued) = TxUsed
         /\ \A k \in 1..TxUsed : Queued[k] = uart_tx_buf[TxPlace(k)]
<1>1. uart_tx_w \in 0..TxMod - 1 /\ uart_tx_r \in 0..TxMod - 1
  BY TxFacts DEF DriverInv
<1>2. TxUsed \in 0..UART_TX_BUF_SIZE
  BY TxFacts, SerialSizes DEF DriverInv
<1>3. ASSUME NEW k \in Int PROVE TxPlace(k) \in 0..UART_TX_BUF_SIZE - 1
  <2>1. uart_tx_r + k - 1 \in Int
    BY <1>1, SerialSizes
  <2>2. \A x \in Int : x % UART_TX_BUF_SIZE \in 0..UART_TX_BUF_SIZE - 1
    BY DivMod, SerialSizes
  <2>. QED BY <2>1, <2>2 DEF TxPlace
<1>4. Queued = [k \in 1..TxUsed |-> uart_tx_buf[TxPlace(k)]]
  BY DEF Queued, Sr!U!Contents, TxUsed, TxPlace
<1>. HIDE DEF TxUsed, TxPlace, Queued
<1>5. \A k \in 1..TxUsed : uart_tx_buf[TxPlace(k)] \in Bytes
  <2>1. \A k \in 1..TxUsed : k \in Int
    BY <1>2, SerialSizes
  <2>2. \A k \in 0..UART_TX_BUF_SIZE - 1 : uart_tx_buf[k] \in Bytes
    BY DEF DriverInv, Sr!U!TypeOK
  <2>. QED BY <1>3, <2>1, <2>2
<1>6. TxUsed \in Nat
  BY <1>2, SerialSizes
<1>. QED BY <1>2, <1>3, <1>4, <1>5, <1>6

LEMMA StoreIndex ==
  ASSUME Sr!SerialAssumption, DriverInv, TxUsed < UART_TX_BUF_SIZE
  PROVE  /\ TxPlace(TxUsed + 1) = uart_tx_w % UART_TX_BUF_SIZE
         /\ \A k \in 1..TxUsed : TxPlace(k) # uart_tx_w % UART_TX_BUF_SIZE
<1>1. PICK x \in 0..TxMod - 1, y \in 0..TxMod - 1, u \in 0..UART_TX_BUF_SIZE :
         x = uart_tx_r /\ y = uart_tx_w /\ u = TxUsed
  BY TxFacts, QueuedIs DEF DriverInv
<1>2. TxMod \in Nat \ {0} /\ UART_TX_BUF_SIZE \in Nat \ {0}
  BY SerialSizes
<1>3. u = (IF y >= x THEN y - x ELSE y - x + TxMod) /\ u < UART_TX_BUF_SIZE
  <2>1. (y - x) % TxMod = IF y >= x THEN y - x ELSE y - x + TxMod
    BY <1>2, RingDistance
  <2>. QED BY <1>1, <2>1 DEF TxUsed
<1>4. (x + (u + 1) - 1) % UART_TX_BUF_SIZE = y % UART_TX_BUF_SIZE
  <2>1. CASE y >= x
    <3>1. x + (u + 1) - 1 = y
      BY <1>2, <1>3, <2>1
    <3>. QED BY <3>1
  <2>2. CASE ~ (y >= x)
    <3>1. x + (u + 1) - 1 = y + TxMod /\ y \in Int
      BY <1>2, <1>3, <2>2
    <3>2. (y + TxMod) % UART_TX_BUF_SIZE = y % UART_TX_BUF_SIZE
      BY <3>1, TxTurns
    <3>. QED BY <3>1, <3>2
  <2>. QED BY <2>1, <2>2
<1>5. ASSUME NEW k \in 1..u
      PROVE  (x + k - 1) % UART_TX_BUF_SIZE # (x + (u + 1) - 1) % UART_TX_BUF_SIZE
  <2>. DEFINE i == x + k - 1
              j == x + (u + 1) - 1
  <2>1. i \in Int /\ j \in Int /\ j - i \in 1..UART_TX_BUF_SIZE - 1
    BY <1>2, <1>3
  <2>. HIDE DEF i, j
  <2>2. i % UART_TX_BUF_SIZE # j % UART_TX_BUF_SIZE
    BY <1>2, <2>1, ModDiffers
  <2>. QED BY <2>2 DEF i, j
<1>. QED BY <1>1, <1>4, <1>5 DEF TxPlace

\* uartputc() puts its byte behind all others.
LEMMA StoreImplements ==
  ASSUME Sr!SerialAssumption, DriverInv, NEW h \in Threads, Sr!U!Store(h)
  PROVE  uc[h] \in Bytes /\ Len(Queued) < UART_TX_BUF_SIZE /\ Queued' = Append(Queued, uc[h])
<1>1. /\ TxUsed \in 0..UART_TX_BUF_SIZE /\ \A k \in Int : TxPlace(k) \in 0..UART_TX_BUF_SIZE - 1
      /\ Queued \in Seq(Bytes) /\ Len(Queued) = TxUsed
      /\ \A k \in 1..TxUsed : Queued[k] = uart_tx_buf[TxPlace(k)]
  BY QueuedIs
<1>2. TxUsed' = TxUsed + 1 /\ TxUsed < UART_TX_BUF_SIZE /\ TxUsed \in Nat
  <2>1. TxUsed' = TxUsed + 1 /\ TxUsed' <= UART_TX_BUF_SIZE
    BY StoreMoves DEF DriverInv
  <2>2. TxUsed \in Nat
    BY <1>1, SerialSizes
  <2>. QED BY <2>1, <2>2, SerialSizes
<1>3. /\ TxPlace(TxUsed + 1) = uart_tx_w % UART_TX_BUF_SIZE
      /\ \A k \in 1..TxUsed : TxPlace(k) # uart_tx_w % UART_TX_BUF_SIZE
  BY <1>2, StoreIndex
<1>4. /\ uart_tx_buf' = [uart_tx_buf EXCEPT ![uart_tx_w % UART_TX_BUF_SIZE] = uc[h]]
      /\ DOMAIN uart_tx_buf = 0..UART_TX_BUF_SIZE - 1 /\ uart_tx_r' = uart_tx_r /\ uc[h] \in Bytes
  BY DEF Sr!U!Store, DriverInv, Sr!U!TypeOK
<1>5. Queued' = [k \in 1..TxUsed + 1 |-> uart_tx_buf'[TxPlace(k)]]
  <2>1. Queued' = [k \in 1..TxUsed' |-> uart_tx_buf'[(uart_tx_r' + k - 1) % UART_TX_BUF_SIZE]]
    BY DEF Queued, Sr!U!Contents, TxUsed
  <2>. QED BY <1>2, <1>4, <2>1 DEF TxPlace
<1>. HIDE DEF TxPlace, TxUsed, Queued
<1>6. uart_tx_buf'[TxPlace(TxUsed + 1)] = uc[h] /\ \A k \in 1..TxUsed : uart_tx_buf'[TxPlace(k)] = uart_tx_buf[TxPlace(k)]
  <2>1. TxUsed + 1 \in Int /\ \A k \in 1..TxUsed : k \in Int
    BY <1>2
  <2>2. uart_tx_w % UART_TX_BUF_SIZE \in 0..UART_TX_BUF_SIZE - 1
    BY <1>1, <1>3, <2>1
  <2>3. uart_tx_buf'[uart_tx_w % UART_TX_BUF_SIZE] = uc[h]
    BY <1>4, <2>2
  <2>4. \A j \in 0..UART_TX_BUF_SIZE - 1 : j # uart_tx_w % UART_TX_BUF_SIZE => uart_tx_buf'[j] = uart_tx_buf[j]
    BY <1>4
  <2>. QED BY <1>1, <1>3, <2>1, <2>3, <2>4
<1>7. Queued' = Append(Queued, uc[h])
  <2>1. Append(Queued, uc[h]) = [k \in 1..TxUsed + 1 |-> IF k = TxUsed + 1 THEN uc[h] ELSE Queued[k]]
    <3>. DEFINE t == Append(Queued, uc[h])
    <3>1. t \in Seq(Bytes) /\ Len(t) = TxUsed + 1
      <4>1. Queued \in Seq(Bytes) /\ Len(Queued) = TxUsed /\ uc[h] \in Bytes
        BY <1>1, <1>4
      <4>. QED BY <4>1, AppendProperties
    <3>2. \A k \in 1..TxUsed + 1 : t[k] = IF k = TxUsed + 1 THEN uc[h] ELSE Queued[k]
      BY <1>1, <1>2, <1>4
    <3>3. t \in [1..TxUsed + 1 -> Bytes]
      BY <3>1, LenProperties
    <3>. HIDE DEF t
    <3>. QED BY <3>2, <3>3 DEF t
  <2>2. ASSUME NEW k \in 1..TxUsed + 1
        PROVE  uart_tx_buf'[TxPlace(k)] = IF k = TxUsed + 1 THEN uc[h] ELSE Queued[k]
    <3>1. k = TxUsed + 1 \/ k \in 1..TxUsed
      BY <1>2
    <3>2. TxUsed + 1 \notin 1..TxUsed
      BY <1>2
    <3>. QED BY <1>1, <1>6, <3>1, <3>2
  <2>. QED BY <1>5, <2>1, <2>2
<1>. QED BY <1>1, <1>2, <1>4, <1>7

\* uartstart() takes the oldest byte.
LEMMA TakeImplements ==
  ASSUME Sr!SerialAssumption, DriverInv, NEW h \in Threads, Sr!U!StartTake(h)
  PROVE  Queued # <<>> /\ Queued' = Tail(Queued)
<1>1. /\ TxUsed \in 0..UART_TX_BUF_SIZE
      /\ Queued \in Seq(Bytes) /\ Len(Queued) = TxUsed
      /\ \A k \in 1..TxUsed : Queued[k] = uart_tx_buf[TxPlace(k)]
  BY QueuedIs
<1>2. TxUsed' = TxUsed - 1 /\ TxUsed \in Nat \ {0}
  BY <1>1, TakeMoves, SerialSizes DEF DriverInv
<1>3. uart_tx_r' = (uart_tx_r + 1) % TxMod /\ uart_tx_buf' = uart_tx_buf
  BY DEF Sr!U!StartTake
<1>4. ASSUME NEW k \in Int PROVE (uart_tx_r' + k - 1) % UART_TX_BUF_SIZE = TxPlace(k + 1)
  <2>1. PICK x \in 0..TxMod - 1, y \in Int : x = uart_tx_r /\ y = uart_tx_r' /\ y = (x + 1) % TxMod
    <3>1. uart_tx_r \in 0..TxMod - 1 /\ TxMod \in Nat \ {0} /\ 1 \in 0..TxMod
      BY TxFacts, SerialSizes DEF DriverInv
    <3>2. (uart_tx_r + 1) % TxMod \in 0..TxMod - 1
      BY <3>1, RingStep
    <3>. QED BY <1>3, <3>1, <3>2
  <2>2. TxMod \in Nat \ {0} /\ 1 \in 0..TxMod
    BY SerialSizes
  <2>3. y = IF x + 1 < TxMod THEN x + 1 ELSE x + 1 - TxMod
    BY <2>1, <2>2, RingStep
  <2>4. CASE x + 1 < TxMod
    <3>1. y + k - 1 = x + (k + 1) - 1
      BY <2>2, <2>3, <2>4
    <3>. QED BY <2>1, <3>1 DEF TxPlace
  <2>5. CASE ~ (x + 1 < TxMod)
    <3>1. y + k - 1 \in Int /\ (y + k - 1) + TxMod = x + (k + 1) - 1
      BY <2>2, <2>3, <2>5
    <3>2. ((y + k - 1) + TxMod) % UART_TX_BUF_SIZE = (y + k - 1) % UART_TX_BUF_SIZE
      BY <3>1, TxTurns
    <3>. QED BY <2>1, <3>1, <3>2 DEF TxPlace
  <2>. QED BY <2>4, <2>5
<1>5. Queued' = [k \in 1..TxUsed - 1 |-> uart_tx_buf[TxPlace(k + 1)]]
  <2>1. Queued' = [k \in 1..TxUsed' |-> uart_tx_buf'[(uart_tx_r' + k - 1) % UART_TX_BUF_SIZE]]
    BY DEF Queued, Sr!U!Contents, TxUsed
  <2>. HIDE DEF TxUsed, TxPlace
  <2>2. \A k \in 1..TxUsed - 1 : (uart_tx_r' + k - 1) % UART_TX_BUF_SIZE = TxPlace(k + 1)
    BY <1>2, <1>4
  <2>. QED BY <1>2, <1>3, <2>1, <2>2
<1>. HIDE DEF TxPlace, TxUsed, Queued
<1>6. Queued' = Tail(Queued)
  <2>1. Tail(Queued) = [k \in 1..TxUsed - 1 |-> Queued[k + 1]]
    <3>. DEFINE t == Tail(Queued)
    <3>1. t \in Seq(Bytes) /\ Len(t) = TxUsed - 1
      BY <1>1, <1>2
    <3>2. \A k \in 1..TxUsed - 1 : t[k] = Queued[k + 1]
      BY <1>1, <1>2
    <3>3. t \in [1..TxUsed - 1 -> Bytes]
      BY <3>1, LenProperties
    <3>. HIDE DEF t
    <3>. QED BY <3>2, <3>3 DEF t
  <2>2. \A k \in 1..TxUsed - 1 : Queued[k + 1] = uart_tx_buf[TxPlace(k + 1)]
    BY <1>1, <1>2
  <2>. QED BY <1>5, <2>1, <2>2
<1>7. Queued # <<>>
  BY <1>1, <1>2
<1>. QED BY <1>6, <1>7

\* The transmit buffer is a FIFO of at most UART_TX_BUF_SIZE bytes: whoever writes,
\* panics or starts the UART, no byte of a write() is lost, repeated or overtaken,
\* although uart_tx_w and uart_tx_r wrap independently of each other.
THEOREM SerialRefines ==
  ASSUME Sr!SerialAssumption
  PROVE  Sr!Spec => RefinesFifo
<1>1. Sr!Init => Sr!Abs!Init
  <2>. SUFFICES ASSUME Sr!Init PROVE Sr!Abs!Init
    OBVIOUS
  <2>1. SerialIInv /\ Sr!U!TypeOK /\ uart_tx_w = uart_tx_r
    BY SerialInitKeeps DEF Sr!Init, Sr!U!Init, SerialIInv, Sr!TypeOK
  <2>2. (uart_tx_w - uart_tx_r) % TxMod = 0
    BY <2>1, TxFacts DEF TxUsed
  <2>. QED BY <2>2 DEF Sr!Abs!Init, Sr!U!Contents
<1>2. SerialIInv /\ [Sr!Next]_Sr!vars => [Sr!Abs!Next]_Queued
  <2>. SUFFICES ASSUME SerialIInv, [Sr!Next]_Sr!vars PROVE Sr!Abs!Next \/ UNCHANGED Queued
    OBVIOUS
  <2>1. DriverInv
    BY SerialFacts
  <2>2. ASSUME UNCHANGED <<uart_tx_buf, uart_tx_w, uart_tx_r>> PROVE UNCHANGED Queued
    BY <2>2 DEF Queued, Sr!U!Contents
  <2>3. ASSUME NEW h \in Threads, Sr!U!Store(h) PROVE Sr!Abs!Next
    BY <2>1, <2>3, StoreImplements DEF Sr!Abs!Next, Sr!Abs!Put, Queued
  <2>4. ASSUME NEW h \in Threads, Sr!U!StartTake(h) PROVE Sr!Abs!Next
    BY <2>1, <2>4, TakeImplements DEF Sr!Abs!Next, Sr!Abs!Get, Queued
  <2>5. ASSUME NEW h \in Threads, Sr!U!Advance(h) PROVE Sr!Abs!Next \/ UNCHANGED Queued
    BY <2>2, <2>3, <2>4, <2>5
       DEF Sr!U!Advance, Sr!U!Sleep, Sr!U!StartWrite, Sr!U!StartReturn, Sr!U!SyncWrite, Sr!U!tx
  <2>6. CASE UNCHANGED Sr!vars
    BY <2>2, <2>6 DEF Sr!vars, Sr!uartVars
  <2>7. CASE Sr!Transmit
    BY <2>2, <2>7 DEF Sr!Transmit, Sr!U!Send, Sr!U!tx
  <2>8. ASSUME NEW h \in Threads,
               \/ Sr!BeginPrintk(h) \/ Sr!TakeLock(h) \/ Sr!Message(h) \/ Sr!EndPrintk(h)
               \/ Sr!Putchar(h) \/ Sr!Write(h) \/ Sr!DriveWait(h) \/ Sr!Trap(h)
        PROVE  UNCHANGED Queued
    BY <2>2, <2>8 DEF Sr!BeginPrintk, Sr!TakeLock, Sr!Message, Sr!EndPrintk, Sr!uartVars, Sr!Putchar,
       Sr!U!CallSync, Sr!Write, Sr!U!CallPutc, Sr!DriveWait, Sr!U!Acquire, Sr!U!Reacquire, Sr!U!SyncWait,
       Sr!Trap, Sr!U!Abandon, Sr!U!tx
  <2>. QED BY <2>5, <2>6, <2>7, <2>8 DEF Sr!Next, Sr!Drive
<1>. QED BY <1>1, <1>2, SerialInductive, PTL DEF Sr!Spec, RefinesFifo, Sr!RefinesFifo, Sr!Abs!Spec, Queued
=============================================================================
