------------------------------ MODULE BioProofs ------------------------------
(***************************************************************************)
(* TLAPS proofs about Bio, for any number of processes, blocks and         *)
(* buffers: what bread() returns, and that the buffers stay consistent.    *)
(*                                                                         *)
(* The argument.  The pointers of the list follow an order of all the      *)
(* buffers (ListInv), so bget() overlooks none: it finds the buffer of a   *)
(* block if there is one.  A count is never less than the users of its     *)
(* buffer (RefExact), so a buffer that is recycled has no user and no pin. *)
(* What is in a valid buffer is what was last stored in its block          *)
(* (DataInv); and if the disk has something older, the block is pinned or  *)
(* its user has not saved it yet (StoredInv), so it is in a valid buffer   *)
(* (PinInv) and is not read from the disk.                                 *)
(*                                                                         *)
(* The second half proves what the cache takes for granted below it: the   *)
(* driver VirtioDisk, for any number of processes, descriptors and ring    *)
(* indices.                                                                *)
(***************************************************************************)
EXTENDS Bio, Disk, RingArithmetic, FiniteSetTheorems, WellFoundedInduction, TLAPS

InUse == {"locked", "reading", "have", "writing"}

UseInv ==
  \A p \in Procs :
     /\ pc[p] \in {"idle", "panic"} <=> buf[p] = ListHead
     /\ buf[p] # ListHead => want[p] \in Blocks /\ blockno[buf[p]] = want[p]
     /\ pc[p] \in InUse => Holding(p, buf[p])
     /\ pc[p] = "asleep" => locked[buf[p]]
     /\ pc[p] = "reading" => ~ valid[buf[p]]
     /\ pc[p] \in {"have", "writing"} => valid[buf[p]]
     /\ dirty[p] => pc[p] \in {"have", "writing"}

DataInv == \A i \in Bufs : valid[i] => blockno[i] \in Blocks /\ data[i] = latest[blockno[i]]

PinInv ==
  /\ IsFiniteSet(pinned) /\ Cardinality(pinned) <= MaxPins
  /\ \A b \in pinned : \E i \in Bufs : blockno[i] = b /\ valid[i]

StoredInv ==
  \A b \in Blocks : disk[b] = latest[b] \/ b \in pinned \/ \E p \in Procs : dirty[p] /\ want[p] = b

\* The k-th node of the order s; the head is in front of it and behind it.
L(s, k) == IF k \in 1..NBUF THEN s[k] ELSE ListHead

Order(s) ==
  /\ s \in [Bufs -> Bufs]
  /\ \A j, k \in Bufs : s[j] = s[k] => j = k
  /\ \A i \in Bufs : \E k \in Bufs : s[k] = i

Linked(s, nx, pv) == \A k \in 0..NBUF : nx[L(s, k)] = L(s, k + 1) /\ pv[L(s, k + 1)] = L(s, k)

ListInv == Order(lru) /\ Linked(lru, next, prev)

IInv ==
  /\ TypeOK /\ OneBufPerBlock /\ RefExact
  /\ UseInv /\ DataInv /\ PinInv /\ StoredInv /\ ListInv

-----------------------------------------------------------------------------
(* Numbers, and walks along the list                                       *)

LEMMA Sizes ==
  /\ NBUF \in Nat \ {0} /\ MaxPins \in Nat /\ IsFiniteSet(Procs)
  /\ NoBlock \notin Blocks /\ NoProc \notin Procs
  /\ ListHead = 0 /\ Bufs = 1..NBUF /\ Nodes = 0..NBUF /\ ListHead \notin Bufs
  BY BioAssumption DEF ListHead, Bufs, Nodes

\* The least-number principle, for a set
LEMMA LeastNatural ==
  ASSUME NEW T \in SUBSET Nat, T # {}
  PROVE  \E m \in T : \A k \in T : m <= k
<1>1. PICK x \in T : \A y \in T : ~ (<<y, x>> \in OpToRel(<, Nat))
  BY NatLessThanWellFounded, WFMin
<1>2. \A y \in T : ~ (y < x)
  BY <1>1 DEF OpToRel
<1>. QED BY <1>2

\* Induction up to n, for a set
LEMMA StepByStep ==
  ASSUME NEW n \in Nat, NEW T, 0 \in T, \A k \in 0..n - 1 : k \in T => k + 1 \in T
  PROVE  \A k \in 0..n : k \in T
<1>. SUFFICES ASSUME NEW j \in 0..n, j \notin T PROVE FALSE
  OBVIOUS
<1>. DEFINE U == {k \in 0..n : k \notin T}
<1>1. U \in SUBSET Nat /\ U # {}
  OBVIOUS
<1>2. PICK m \in U : \A k \in U : m <= k
  BY <1>1, LeastNatural
<1>3. m \in 0..n /\ m # 0 /\ m \notin T
  BY <1>2
<1>4. m - 1 \in 0..n - 1 /\ m - 1 \in 0..n /\ (m - 1) + 1 = m /\ ~ (m <= m - 1)
  BY <1>3
<1>5. m - 1 \in T
  BY <1>2, <1>4
<1>. QED BY <1>3, <1>4, <1>5

\* Nth() is what it computes: where the pointers f lead along g, so does the walk.
LEMMA NthIs ==
  ASSUME NEW f, NEW n \in Nat, NEW g \in [0..n -> Nodes], g[0] = ListHead,
         \A j \in 0..n - 1 : f[g[j]] = g[j + 1],
         NEW k \in 0..n
  PROVE  Nth(f, k) = g[k]
<1>. DEFINE walk[j \in 0..k] == IF j = 0 THEN ListHead ELSE f[walk[j - 1]]
<1>1. Nth(f, k) = walk[k]
  BY DEF Nth
<1>2. \E h : h = [j \in 0..k |-> IF j = 0 THEN ListHead ELSE f[h[j - 1]]]
  <2>. DEFINE h == [j \in 0..k |-> g[j]]
  <2>1. ASSUME NEW j \in 0..k PROVE g[j] = IF j = 0 THEN ListHead ELSE f[h[j - 1]]
    <3>1. CASE j # 0
      <4>1. j - 1 \in 0..n - 1 /\ j - 1 \in 0..k /\ (j - 1) + 1 = j
        BY <3>1
      <4>. QED BY <3>1, <4>1
    <3>. QED BY <3>1
  <2>2. h = [j \in 0..k |-> IF j = 0 THEN ListHead ELSE f[h[j - 1]]]
    BY <2>1
  <2>. QED BY <2>2
<1>3. walk = [j \in 0..k |-> IF j = 0 THEN ListHead ELSE f[walk[j - 1]]]
  BY <1>2
<1>. HIDE DEF walk
<1>4. walk[0] = g[0] /\ \A j \in 0..k - 1 : walk[j + 1] = f[walk[j]]
  <2>1. 0 \in 0..k
    OBVIOUS
  <2>2. ASSUME NEW j \in 0..k - 1 PROVE walk[j + 1] = f[walk[j]]
    <3>1. j + 1 \in 0..k /\ j + 1 # 0 /\ (j + 1) - 1 = j
      OBVIOUS
    <3>. QED BY <1>3, <3>1
  <2>. QED BY <1>3, <2>1, <2>2
<1>. DEFINE T == {j \in 0..k : walk[j] = g[j]}
<1>5. 0 \in T /\ \A j \in 0..k - 1 : j \in T => j + 1 \in T
  <2>1. ASSUME NEW j \in 0..k - 1, j \in T PROVE j + 1 \in T
    <3>1. j \in 0..n - 1 /\ j + 1 \in 0..k
      OBVIOUS
    <3>. QED BY <1>4, <2>1, <3>1
  <2>2. 0 \in 0..k
    OBVIOUS
  <2>. QED BY <1>4, <2>1, <2>2
<1>6. \A j \in 0..k : j \in T
  <2>. HIDE DEF T
  <2>1. k \in Nat
    OBVIOUS
  <2>. QED BY <1>5, <2>1, StepByStep
<1>. QED BY <1>1, <1>6

LEMMA OrderFacts ==
  ASSUME NEW s, Order(s)
  PROVE  /\ L(s, 0) = ListHead /\ L(s, NBUF + 1) = ListHead
         /\ \A k \in 0..NBUF + 1 : L(s, k) \in Nodes
         /\ \A k \in Bufs : L(s, k) = s[k] /\ s[k] \in Bufs
         /\ \A j, k \in Bufs : s[j] = s[k] => j = k
         /\ \A i \in Bufs : \E k \in Bufs : s[k] = i
<1>1. NBUF \in Nat \ {0} /\ 0 \notin 1..NBUF /\ NBUF + 1 \notin 1..NBUF
  BY Sizes
<1>2. s \in [1..NBUF -> 1..NBUF]
  BY DEF Order, Bufs
<1>3. L(s, 0) = ListHead /\ L(s, NBUF + 1) = ListHead
  BY <1>1 DEF L
<1>4. \A k \in 0..NBUF + 1 : L(s, k) \in Nodes
  BY <1>1, <1>2 DEF L, Nodes, ListHead
<1>5. \A k \in Bufs : L(s, k) = s[k] /\ s[k] \in Bufs
  BY <1>2 DEF L, Bufs
<1>. QED BY <1>3, <1>4, <1>5 DEF Order

\* Along the pointers, the buffers are met in the order that the history records.
LEMMA ListWalk ==
  ASSUME NEW s, NEW nx, NEW pv, Order(s), Linked(s, nx, pv), NEW k \in Bufs
  PROVE  Nth(nx, k) = s[k] /\ Nth(pv, k) = s[NBUF + 1 - k]
<1>1. NBUF \in Nat \ {0} /\ Bufs = 1..NBUF /\ k \in 1..NBUF /\ k \in 0..NBUF
  BY Sizes
<1>2. /\ L(s, 0) = ListHead /\ L(s, NBUF + 1) = ListHead
      /\ \A j \in 0..NBUF + 1 : L(s, j) \in Nodes
      /\ \A j \in Bufs : L(s, j) = s[j]
  BY OrderFacts
<1>3. \A j \in 0..NBUF : nx[L(s, j)] = L(s, j + 1) /\ pv[L(s, j + 1)] = L(s, j)
  BY DEF Linked
<1>. HIDE DEF L
<1>4. Nth(nx, k) = s[k]
  <2>. DEFINE g == [j \in 0..NBUF |-> L(s, j)]
  <2>1. g \in [0..NBUF -> Nodes]
    BY <1>1, <1>2
  <2>2. g[0] = ListHead /\ \A j \in 0..NBUF - 1 : nx[g[j]] = g[j + 1]
    BY <1>1, <1>2, <1>3
  <2>3. g[k] = s[k]
    BY <1>1, <1>2
  <2>. HIDE DEF g
  <2>. QED BY <1>1, <2>1, <2>2, <2>3, NthIs
<1>5. Nth(pv, k) = s[NBUF + 1 - k]
  <2>. DEFINE g == [j \in 0..NBUF |-> L(s, NBUF + 1 - j)]
  <2>1. g \in [0..NBUF -> Nodes]
    <3>1. \A j \in 0..NBUF : NBUF + 1 - j \in 0..NBUF + 1
      BY <1>1
    <3>. QED BY <1>2, <3>1
  <2>2. g[0] = ListHead
    <3>1. NBUF + 1 - 0 = NBUF + 1 /\ 0 \in 0..NBUF
      BY <1>1
    <3>. QED BY <1>2, <3>1
  <2>3. ASSUME NEW j \in 0..NBUF - 1 PROVE pv[g[j]] = g[j + 1]
    <3>1. /\ NBUF - j \in 0..NBUF /\ (NBUF - j) + 1 = NBUF + 1 - j /\ NBUF + 1 - (j + 1) = NBUF - j
          /\ j \in 0..NBUF /\ j + 1 \in 0..NBUF
      BY <1>1
    <3>2. pv[L(s, (NBUF - j) + 1)] = L(s, NBUF - j)
      BY <1>3, <3>1
    <3>. QED BY <3>1, <3>2
  <2>4. g[k] = s[NBUF + 1 - k]
    <3>1. NBUF + 1 - k \in Bufs
      BY <1>1
    <3>. QED BY <1>1, <1>2, <3>1
  <2>. HIDE DEF g
  <2>. QED BY <1>1, <2>1, <2>2, <2>3, <2>4, NthIs
<1>. QED BY <1>4, <1>5

\* A walk that meets every buffer overlooks none.
LEMMA FirstFinds ==
  ASSUME NEW f, NEW S \in SUBSET Bufs,
         \A k \in Bufs : Nth(f, k) \in Bufs, \A i \in Bufs : \E k \in Bufs : Nth(f, k) = i
  PROVE  /\ First(f, S) = ListHead <=> S = {}
         /\ First(f, S) # ListHead => First(f, S) \in S
<1>. DEFINE hits == {k \in 1..NBUF : /\ Nth(f, k) \in S
                                     /\ \A j \in 1..k - 1 : Nth(f, j) \notin S \cup {ListHead}}
<1>1. First(f, S) = IF hits = {} THEN ListHead ELSE Nth(f, CHOOSE k \in hits : TRUE)
  BY DEF First
<1>2. NBUF \in Nat \ {0} /\ Bufs = 1..NBUF /\ ListHead \notin Bufs
  BY Sizes
<1>3. hits # {} => First(f, S) \in S
  <2>1. ASSUME hits # {} PROVE (CHOOSE k \in hits : TRUE) \in hits
    BY <2>1
  <2>2. \A k \in hits : Nth(f, k) \in S
    OBVIOUS
  <2>. HIDE DEF hits
  <2>. QED BY <1>1, <2>1, <2>2
<1>4. S # {} => hits # {}
  <2>. SUFFICES ASSUME S # {} PROVE hits # {}
    OBVIOUS
  <2>. DEFINE T == {k \in 1..NBUF : Nth(f, k) \in S}
  <2>1. T \in SUBSET Nat /\ T # {}
    <3>1. PICK i \in S : TRUE
      OBVIOUS
    <3>2. PICK k \in Bufs : Nth(f, k) = i
      BY <3>1
    <3>3. k \in T
      BY <1>2, <3>1, <3>2
    <3>4. T \in SUBSET Nat
      BY <1>2
    <3>. QED BY <3>3, <3>4
  <2>2. PICK m \in T : \A k \in T : m <= k
    BY <2>1, LeastNatural
  <2>3. m \in 1..NBUF /\ Nth(f, m) \in S
    BY <2>2
  <2>4. ASSUME NEW j \in 1..m - 1 PROVE Nth(f, j) \notin S \cup {ListHead}
    <3>1. j \in 1..NBUF /\ ~ (m <= j)
      BY <1>2, <2>3
    <3>. QED BY <1>2, <2>2, <3>1
  <2>5. m \in hits
    BY <2>3, <2>4
  <2>. QED BY <2>5
<1>. HIDE DEF hits
<1>. QED BY <1>1, <1>2, <1>3, <1>4

\* What bget() finds
LEMMA BgetFinds ==
  ASSUME TypeOK, ListInv, NEW b
  PROVE  /\ Find(b) # ListHead => Find(b) \in Bufs /\ blockno[Find(b)] = b
         /\ Find(b) = ListHead => \A i \in Bufs : blockno[i] # b
         /\ Victim # ListHead => Victim \in Bufs /\ refcnt[Victim] = 0
         /\ Victim = ListHead => \A i \in Bufs : refcnt[i] # 0
<1>1. /\ \A k \in Bufs : Nth(next, k) = lru[k] /\ lru[k] \in Bufs
      /\ \A k \in Bufs : Nth(prev, k) = lru[NBUF + 1 - k]
      /\ \A i \in Bufs : \E k \in Bufs : lru[k] = i
  BY ListWalk, OrderFacts DEF ListInv
<1>2. \A k \in Bufs : NBUF + 1 - k \in Bufs /\ NBUF + 1 - (NBUF + 1 - k) = k
  BY Sizes
<1>3. /\ \A k \in Bufs : Nth(next, k) \in Bufs /\ Nth(prev, k) \in Bufs
      /\ \A i \in Bufs : \E k \in Bufs : Nth(next, k) = i
  BY <1>1, <1>2
<1>4. \A i \in Bufs : \E k \in Bufs : Nth(prev, k) = i
  <2>. SUFFICES ASSUME NEW i \in Bufs PROVE \E k \in Bufs : Nth(prev, k) = i
    OBVIOUS
  <2>1. PICK k \in Bufs : lru[k] = i
    BY <1>1
  <2>2. Nth(prev, NBUF + 1 - k) = i
    BY <1>1, <1>2, <2>1
  <2>. QED BY <1>2, <2>2
<1>5. /\ Find(b) = ListHead <=> {i \in Bufs : blockno[i] = b} = {}
      /\ Find(b) # ListHead => Find(b) \in {i \in Bufs : blockno[i] = b}
  <2>. DEFINE S == {i \in Bufs : blockno[i] = b}
  <2>1. S \in SUBSET Bufs /\ Find(b) = First(next, S)
    BY DEF Find
  <2>. HIDE DEF S
  <2>2. /\ First(next, S) = ListHead <=> S = {}
        /\ First(next, S) # ListHead => First(next, S) \in S
    BY <1>3, <2>1, FirstFinds
  <2>. QED BY <2>1, <2>2 DEF S
<1>6. /\ Victim = ListHead <=> {i \in Bufs : refcnt[i] = 0} = {}
      /\ Victim # ListHead => Victim \in {i \in Bufs : refcnt[i] = 0}
  <2>. DEFINE S == {i \in Bufs : refcnt[i] = 0}
  <2>1. S \in SUBSET Bufs /\ Victim = First(prev, S)
    BY DEF Victim
  <2>. HIDE DEF S
  <2>2. /\ First(prev, S) = ListHead <=> S = {}
        /\ First(prev, S) # ListHead => First(prev, S) \in S
    BY <1>3, <1>4, <2>1, FirstFinds
  <2>. QED BY <2>1, <2>2 DEF S
<1>. HIDE DEF Find, Victim
<1>. QED BY <1>5, <1>6

-----------------------------------------------------------------------------
(* brelse() and the list                                                   *)

\* Only the head stands in two places of an order.
LEMMA PlacesDiffer ==
  ASSUME NEW s, Order(s), NEW j \in 0..NBUF + 1, NEW k \in 1..NBUF, j # k
  PROVE  L(s, j) # L(s, k)
<1>1. k \in Bufs /\ L(s, k) = s[k] /\ s[k] # ListHead
  <2>1. k \in Bufs
    BY DEF Bufs
  <2>2. L(s, k) = s[k] /\ s[k] \in Bufs
    BY <2>1, OrderFacts
  <2>. QED BY <2>1, <2>2, Sizes
<1>2. CASE j \in 1..NBUF
  <2>1. j \in Bufs
    BY <1>2 DEF Bufs
  <2>2. L(s, j) = s[j] /\ s[j] # s[k]
    BY <1>1, <2>1, OrderFacts
  <2>. QED BY <1>1, <2>2
<1>3. CASE j \notin 1..NBUF
  BY <1>1, <1>3 DEF L
<1>. QED BY <1>2, <1>3

\* The order after brelse() of the buffer at place m
LEMMA ReleasedIs ==
  ASSUME NEW s, Order(s), NEW m \in Bufs
  PROVE  LET t == Released(s, s[m]) IN
         /\ Order(t)
         /\ L(t, 0) = ListHead /\ L(t, 1) = s[m]
         /\ \A k \in 2..m : L(t, k) = L(s, k - 1)
         /\ \A k \in m + 1..NBUF + 1 : L(t, k) = L(s, k)
<1>. DEFINE t == Released(s, s[m])
            c == [k \in Bufs |-> IF k = 1 THEN m ELSE IF k <= m THEN k - 1 ELSE k]
<1>1. NBUF \in Nat \ {0} /\ Bufs = 1..NBUF /\ m \in 1..NBUF
  BY Sizes
<1>2. /\ \A k \in Bufs : L(s, k) = s[k] /\ s[k] \in Bufs
      /\ \A j, k \in Bufs : s[j] = s[k] => j = k
      /\ \A i \in Bufs : \E k \in Bufs : s[k] = i
      /\ L(s, NBUF + 1) = ListHead
  BY OrderFacts
<1>3. (CHOOSE k \in Bufs : s[k] = s[m]) = m
  BY <1>2
<1>4. t = [k \in Bufs |-> IF k = 1 THEN s[m] ELSE IF k <= m THEN s[k - 1] ELSE s[k]]
  BY <1>3 DEF Released
<1>5. c \in [Bufs -> Bufs] /\ \A k \in Bufs : t[k] = s[c[k]]
  BY <1>1, <1>4
<1>6. \A j, k \in Bufs : c[j] = c[k] => j = k
  BY <1>1
<1>7. \A j \in Bufs : \E k \in Bufs : c[k] = j
  <2>. SUFFICES ASSUME NEW j \in Bufs PROVE \E k \in Bufs : c[k] = j
    OBVIOUS
  <2>1. CASE j = m
    <3>1. 1 \in Bufs /\ c[1] = j
      BY <1>1, <2>1
    <3>. QED BY <3>1
  <2>2. CASE j < m
    <3>1. j + 1 \in Bufs /\ c[j + 1] = j
      BY <1>1, <2>2
    <3>. QED BY <3>1
  <2>3. CASE j > m
    <3>1. c[j] = j
      BY <1>1, <2>3
    <3>. QED BY <3>1
  <2>. QED BY <1>1, <2>1, <2>2, <2>3
<1>8. t \in [Bufs -> Bufs]
  <2>1. t = [k \in Bufs |-> t[k]]
    BY <1>4
  <2>. HIDE DEF c, t
  <2>. QED BY <1>2, <1>5, <2>1
<1>9. 1 \in Bufs /\ t[1] = s[m]
  BY <1>1, <1>4
<1>10. ASSUME NEW k \in 2..m PROVE k \in Bufs /\ k - 1 \in Bufs /\ t[k] = s[k - 1]
  <2>1. k \in Bufs /\ k - 1 \in Bufs /\ k # 1 /\ k <= m
    BY <1>1
  <2>. QED BY <1>4, <2>1
<1>11. ASSUME NEW k \in m + 1..NBUF PROVE k \in Bufs /\ t[k] = s[k]
  <2>1. k \in Bufs /\ k # 1 /\ ~ (k <= m)
    BY <1>1
  <2>. QED BY <1>4, <2>1
<1>. HIDE DEF c, t
<1>12. Order(t)
  <2>1. \A j, k \in Bufs : t[j] = t[k] => j = k
    BY <1>2, <1>5, <1>6
  <2>2. \A i \in Bufs : \E k \in Bufs : t[k] = i
    <3>. SUFFICES ASSUME NEW i \in Bufs PROVE \E k \in Bufs : t[k] = i
      OBVIOUS
    <3>1. PICK j \in Bufs : s[j] = i
      BY <1>2
    <3>2. PICK k \in Bufs : c[k] = j
      BY <1>7
    <3>. QED BY <1>5, <3>1, <3>2
  <2>. QED BY <1>8, <2>1, <2>2 DEF Order
<1>13. /\ L(t, 0) = ListHead /\ L(t, NBUF + 1) = ListHead
       /\ \A k \in Bufs : L(t, k) = t[k]
  BY <1>12, OrderFacts
<1>14. \A k \in 2..m : L(t, k) = L(s, k - 1)
  BY <1>2, <1>10, <1>13
<1>15. ASSUME NEW k \in m + 1..NBUF + 1 PROVE L(t, k) = L(s, k)
  <2>1. CASE k = NBUF + 1
    BY <1>2, <1>13, <2>1
  <2>2. CASE k # NBUF + 1
    <3>1. k \in m + 1..NBUF
      BY <1>1, <2>2
    <3>. QED BY <1>2, <1>11, <1>13, <3>1
  <2>. QED BY <2>1, <2>2
<1>. QED BY <1>9, <1>12, <1>13, <1>14, <1>15 DEF t

\* The six assignments of brelse() take the buffer out of the list and put it back in
\* front, wherever it was, the first and the last place included.
LEMMA ToHeadKeeps ==
  ASSUME TypeOK, ListInv, NEW i \in Bufs, ToHead(i), lru' = Released(lru, i)
  PROVE  /\ ListInv'
         /\ next' \in [Nodes -> Nodes] /\ prev' \in [Nodes -> Nodes] /\ lru' \in Seq(Bufs)
<1>1. /\ NBUF \in Nat \ {0} /\ Bufs = 1..NBUF /\ Nodes = 0..NBUF /\ ListHead = 0
      /\ i \in Nodes /\ i # ListHead /\ ListHead \in Nodes
      /\ next \in [Nodes -> Nodes] /\ prev \in [Nodes -> Nodes] /\ Order(lru)
  <2>1. NBUF \in Nat \ {0} /\ Bufs = 1..NBUF /\ Nodes = 0..NBUF /\ ListHead = 0
    BY Sizes
  <2>2. i \in Nodes /\ i # ListHead /\ ListHead \in Nodes
    BY <2>1
  <2>. QED BY <2>1, <2>2 DEF TypeOK, ListInv
<1>2. PICK m \in Bufs : lru[m] = i
  BY OrderFacts DEF ListInv
<1>. DEFINE t == Released(lru, i)
            a == L(lru, m - 1)
            z == L(lru, m + 1)
            first == IF a = ListHead THEN z ELSE next[ListHead]
<1>3. /\ Order(t) /\ L(t, 0) = ListHead /\ L(t, 1) = i
      /\ \A k \in 2..m : L(t, k) = L(lru, k - 1)
      /\ \A k \in m + 1..NBUF + 1 : L(t, k) = L(lru, k)
  BY <1>1, <1>2, ReleasedIs
<1>. HIDE DEF t
<1>4. /\ L(lru, 0) = ListHead /\ L(lru, NBUF + 1) = ListHead /\ L(lru, m) = i
      /\ \A k \in 0..NBUF + 1 : L(lru, k) \in Nodes
      /\ \A k \in 1..NBUF : L(lru, k) # ListHead
  <2>1. /\ L(lru, 0) = ListHead /\ L(lru, NBUF + 1) = ListHead
        /\ \A k \in 0..NBUF + 1 : L(lru, k) \in Nodes
        /\ \A k \in Bufs : L(lru, k) = lru[k] /\ lru[k] \in Bufs
    BY <1>1, OrderFacts
  <2>2. ListHead \notin Bufs
    BY Sizes
  <2>. HIDE DEF L
  <2>. QED BY <1>1, <1>2, <2>1, <2>2
<1>5. \A j \in 0..NBUF + 1 : \A k \in 1..NBUF : j # k => L(lru, j) # L(lru, k)
  BY <1>1, PlacesDiffer
<1>6. \A k \in 0..NBUF : next[L(lru, k)] = L(lru, k + 1) /\ prev[L(lru, k + 1)] = L(lru, k)
  BY DEF ListInv, Linked
<1>7. /\ next[i] = z /\ prev[i] = a /\ a # i /\ z # i /\ a \in Nodes /\ z \in Nodes
      /\ next[ListHead] = L(lru, 1) /\ (a = ListHead <=> m = 1)
  <2>1. /\ m \in 0..NBUF /\ m \in 1..NBUF /\ m - 1 \in 0..NBUF /\ (m - 1) + 1 = m /\ m - 1 # m /\ m + 1 # m
        /\ m - 1 \in 0..NBUF + 1 /\ m + 1 \in 0..NBUF + 1 /\ 0 \in 0..NBUF /\ 0 + 1 = 1
        /\ (m # 1 => m - 1 \in 1..NBUF) /\ (m = 1 => m - 1 = 0)
    BY <1>1
  <2>2. next[L(lru, m)] = L(lru, m + 1) /\ prev[L(lru, (m - 1) + 1)] = L(lru, m - 1) /\ next[L(lru, 0)] = L(lru, 0 + 1)
    BY <1>6, <2>1
  <2>3. a # L(lru, m) /\ z # L(lru, m) /\ a \in Nodes /\ z \in Nodes
    BY <1>4, <1>5, <2>1
  <2>4. a = ListHead <=> m = 1
    BY <1>4, <2>1
  <2>. QED BY <1>4, <2>1, <2>2, <2>3, <2>4
<1>8. first \in Nodes /\ first # i /\ first = IF m = 1 THEN z ELSE L(lru, 1)
  <2>1. m # 1 => L(lru, 1) # i /\ L(lru, 1) \in Nodes
    <3>1. 1 \in 0..NBUF + 1 /\ m \in 1..NBUF
      BY <1>1
    <3>. QED BY <1>4, <1>5, <3>1
  <2>. QED BY <1>7, <2>1
<1>. HIDE DEF a, z
<1>9. /\ next' = [n \in Nodes |-> IF n = ListHead THEN i ELSE IF n = i THEN first ELSE IF n = a THEN z ELSE next[n]]
      /\ prev' = [n \in Nodes |-> IF n = first THEN i ELSE IF n = i THEN ListHead ELSE IF n = z THEN a ELSE prev[n]]
  <2>. DEFINE p1 == [prev EXCEPT ![next[i]] = prev[i]]
              n1 == [next EXCEPT ![p1[i]] = next[i]]
              n2 == [n1 EXCEPT ![i] = n1[ListHead]]
              p2 == [p1 EXCEPT ![i] = ListHead]
  <2>1. prev' = [p2 EXCEPT ![n2[ListHead]] = i] /\ next' = [n2 EXCEPT ![ListHead] = i]
    BY DEF ToHead
  <2>2. p1 = [n \in Nodes |-> IF n = z THEN a ELSE prev[n]] /\ p1[i] = a
    BY <1>1, <1>7
  <2>3. n1 = [n \in Nodes |-> IF n = a THEN z ELSE next[n]] /\ n1[ListHead] = first
    <3>. HIDE DEF p1
    <3>. QED BY <1>1, <1>7, <2>2
  <2>. HIDE DEF p1, n1, first
  <2>4. n2 = [n \in Nodes |-> IF n = i THEN first ELSE IF n = a THEN z ELSE next[n]] /\ n2[ListHead] = first
    BY <1>1, <2>3
  <2>5. p2 = [n \in Nodes |-> IF n = i THEN ListHead ELSE IF n = z THEN a ELSE prev[n]]
    BY <1>1, <2>2
  <2>. HIDE DEF n2, p2
  <2>6. next' = [n \in Nodes |-> IF n = ListHead THEN i ELSE IF n = i THEN first ELSE IF n = a THEN z ELSE next[n]]
    BY <1>1, <2>1, <2>4
  <2>7. prev' = [n \in Nodes |-> IF n = first THEN i ELSE IF n = i THEN ListHead ELSE IF n = z THEN a ELSE prev[n]]
    BY <1>1, <1>8, <2>1, <2>4, <2>5
  <2>. QED BY <2>6, <2>7
<1>. HIDE DEF first
<1>10. next' \in [Nodes -> Nodes] /\ prev' \in [Nodes -> Nodes]
  BY <1>1, <1>7, <1>8, <1>9
<1>11. ASSUME NEW k \in 0..NBUF
       PROVE  next'[L(t, k)] = L(t, k + 1) /\ prev'[L(t, k + 1)] = L(t, k)
  <2>1. m \in 1..NBUF /\ k + 1 \in 0..NBUF + 1
    BY <1>1
  <2>2. CASE k = 0
    <3>1. L(t, k) = ListHead /\ L(t, k + 1) = i
      BY <1>3, <2>2
    <3>. QED BY <1>1, <1>8, <1>9, <3>1
  <2>3. CASE k = 1
    <3>1. L(t, k) = i /\ L(t, k + 1) = first
      <4>1. CASE m = 1
        <5>1. 2 \in m + 1..NBUF + 1 /\ m + 1 = 2 /\ k + 1 = 2
          BY <1>1, <2>3, <4>1
        <5>. QED BY <1>3, <1>8, <2>3, <4>1, <5>1 DEF z
      <4>2. CASE m # 1
        <5>1. 2 \in 2..m /\ 2 - 1 = 1 /\ k + 1 = 2
          BY <2>1, <2>3, <4>2
        <5>2. L(t, 2) = L(lru, 2 - 1)
          BY <1>3, <5>1
        <5>. QED BY <1>3, <1>8, <2>3, <4>2, <5>1, <5>2
      <4>. QED BY <4>1, <4>2
    <3>. QED BY <1>1, <1>8, <1>9, <3>1
  <2>4. CASE k \in 2..m - 1
    <3>1. /\ k \in 2..m /\ k + 1 \in 2..m /\ (k + 1) - 1 = k /\ (k - 1) + 1 = k
          /\ k - 1 \in 0..NBUF /\ k - 1 \in 1..NBUF /\ k \in 1..NBUF /\ k - 1 \in 0..NBUF + 1 /\ k \in 0..NBUF + 1
          /\ k - 1 # m /\ k # m /\ k - 1 # m - 1 /\ k # m + 1 /\ k # 1 /\ m # 1
          /\ m - 1 \in 0..NBUF + 1 /\ m + 1 \in 0..NBUF + 1 /\ 1 \in 0..NBUF + 1
      <4>1. NBUF \in Nat /\ m \in Int /\ k \in Int /\ 2 <= k /\ k <= m - 1 /\ m <= NBUF
        BY <1>1, <2>1, <2>4
      <4>. QED BY <4>1
    <3>2. L(t, k) = L(lru, k - 1) /\ L(t, k + 1) = L(lru, k)
      <4>1. L(t, k + 1) = L(lru, (k + 1) - 1)
        BY <1>3, <3>1
      <4>. QED BY <1>3, <3>1, <4>1
    <3>3. next[L(lru, k - 1)] = L(lru, k) /\ prev[L(lru, k)] = L(lru, k - 1)
      <4>1. next[L(lru, k - 1)] = L(lru, (k - 1) + 1) /\ prev[L(lru, (k - 1) + 1)] = L(lru, k - 1)
        BY <1>6, <3>1
      <4>. QED BY <3>1, <4>1
    <3>4. L(lru, k - 1) \in Nodes /\ L(lru, k) \in Nodes /\ L(lru, k - 1) # ListHead
      BY <1>4, <3>1
    <3>5. L(lru, k - 1) # i /\ L(lru, k) # i /\ L(lru, k - 1) # a /\ L(lru, k) # z /\ L(lru, k) # first
      BY <1>4, <1>5, <1>8, <2>1, <3>1 DEF a, z
    <3>. QED BY <1>9, <3>2, <3>3, <3>4, <3>5
  <2>5. CASE k = m /\ m # 1
    <3>1. /\ m \in 2..m /\ m + 1 \in m + 1..NBUF + 1 /\ m - 1 \in 1..NBUF /\ 1 \in 1..NBUF
          /\ m + 1 \in 0..NBUF + 1 /\ m + 1 # 1
      BY <1>1, <2>1, <2>5
    <3>2. L(t, k) = a /\ L(t, k + 1) = z
      BY <1>3, <2>5, <3>1 DEF a, z
    <3>3. a # ListHead /\ z # first
      BY <1>4, <1>5, <1>8, <2>5, <3>1 DEF a, z
    <3>. QED BY <1>7, <1>9, <3>2, <3>3
  <2>6. CASE k > m /\ k # 1
    <3>1. /\ k \in m + 1..NBUF + 1 /\ k + 1 \in m + 1..NBUF + 1 /\ k \in 1..NBUF /\ m + 1 \in 1..NBUF
          /\ k \in 0..NBUF + 1 /\ k # m /\ k # m - 1 /\ k + 1 # m /\ k + 1 # m + 1 /\ k + 1 # 1
          /\ m - 1 \in 0..NBUF + 1 /\ 1 \in 1..NBUF
      BY <1>1, <2>1, <2>6
    <3>2. L(t, k) = L(lru, k) /\ L(t, k + 1) = L(lru, k + 1)
      BY <1>3, <3>1
    <3>3. next[L(lru, k)] = L(lru, k + 1) /\ prev[L(lru, k + 1)] = L(lru, k)
      BY <1>6
    <3>4. L(lru, k) \in Nodes /\ L(lru, k + 1) \in Nodes /\ L(lru, k) # ListHead
      BY <1>4, <2>1, <3>1
    <3>5. L(lru, k) # i /\ L(lru, k) # a /\ L(lru, k + 1) # i /\ L(lru, k + 1) # z /\ L(lru, k + 1) # first
      BY <1>4, <1>5, <1>8, <2>1, <3>1 DEF a, z
    <3>. QED BY <1>9, <3>2, <3>3, <3>4, <3>5
  <2>7. k = 0 \/ k = 1 \/ k \in 2..m - 1 \/ (k = m /\ m # 1) \/ (k > m /\ k # 1)
    BY <2>1
  <2>. QED BY <2>2, <2>3, <2>4, <2>5, <2>6, <2>7
<1>12. lru' = t
  BY DEF t
<1>13. ListInv'
  BY <1>3, <1>11, <1>12 DEF ListInv, Linked
<1>14. lru' \in Seq(Bufs)
  <2>1. t \in [1..NBUF -> Bufs] /\ NBUF \in Nat
    BY <1>1, <1>3 DEF Order
  <2>. QED BY <1>12, <2>1
<1>. QED BY <1>10, <1>13, <1>14

-----------------------------------------------------------------------------
(* Counts                                                                  *)

Users(f, i) == {p \in Procs : f[p] = i}

LEMMA UsersFinite ==
  ASSUME NEW f, NEW i
  PROVE  /\ IsFiniteSet(Users(f, i)) /\ Cardinality(Users(f, i)) \in Nat
         /\ Cardinality(Users(f, i)) = 0 <=> Users(f, i) = {}
<1>1. Users(f, i) \in SUBSET Procs /\ IsFiniteSet(Procs)
  BY Sizes DEF Users
<1>2. IsFiniteSet(Users(f, i))
  BY <1>1, FS_Subset
<1>. QED BY <1>2, FS_CardinalityType, FS_EmptySet

\* A process that gets a buffer, or gives it back, counts in one place.
LEMMA UsersMove ==
  ASSUME NEW f \in [Procs -> Nodes], NEW p \in Procs, NEW n \in Nodes, f[p] # n
  PROVE  LET g == [f EXCEPT ![p] = n] IN
         /\ Cardinality(Users(g, n)) = Cardinality(Users(f, n)) + 1
         /\ Cardinality(Users(g, f[p])) = Cardinality(Users(f, f[p])) - 1
         /\ \A j : j # n /\ j # f[p] => Users(g, j) = Users(f, j)
<1>. DEFINE g == [f EXCEPT ![p] = n]
<1>1. /\ Users(g, n) = Users(f, n) \cup {p} /\ p \notin Users(f, n)
      /\ Users(g, f[p]) = Users(f, f[p]) \ {p} /\ p \in Users(f, f[p])
      /\ \A j : j # n /\ j # f[p] => Users(g, j) = Users(f, j)
  BY DEF Users
<1>2. IsFiniteSet(Users(f, n)) /\ IsFiniteSet(Users(f, f[p]))
  BY UsersFinite
<1>. HIDE DEF g
<1>. QED BY <1>1, <1>2, FS_AddElement, FS_RemoveElement DEF g

Pin(i) == IF blockno[i] \in pinned THEN 1 ELSE 0

LEMMA RefExactIs == RefExact <=> \A i \in Bufs : refcnt[i] = Cardinality(Users(buf, i)) + Pin(i)
  BY DEF RefExact, Users, Pin

\* A buffer whose count is 0 is nobody's.
LEMMA Unused ==
  ASSUME RefExact, NEW i \in Bufs, refcnt[i] = 0
  PROVE  blockno[i] \notin pinned /\ \A q \in Procs : buf[q] # i
<1>1. 0 = Cardinality(Users(buf, i)) + Pin(i) /\ Cardinality(Users(buf, i)) \in Nat
  BY RefExactIs, UsersFinite
<1>2. Pin(i) = 0 /\ Cardinality(Users(buf, i)) = 0
  BY <1>1 DEF Pin
<1>3. Users(buf, i) = {}
  BY <1>2, UsersFinite
<1>. QED BY <1>2, <1>3 DEF Pin, Users

\* A process that has a buffer
LEMMA HasBuf ==
  ASSUME IInv, NEW p \in Procs, buf[p] # ListHead
  PROVE  /\ buf[p] \in Bufs /\ want[p] \in Blocks /\ blockno[buf[p]] = want[p]
         /\ refcnt[buf[p]] \in Nat /\ refcnt[buf[p]] >= 1 + Pin(buf[p])
         /\ \A q \in Procs : want[q] = want[p] /\ buf[q] # ListHead => buf[q] = buf[p]
<1>1. \A q \in Procs : buf[q] # ListHead => buf[q] \in Bufs /\ want[q] \in Blocks /\ blockno[buf[q]] = want[q]
  <2>1. \A n \in Nodes : n # ListHead => n \in Bufs
    BY Sizes
  <2>2. \A q \in Procs : buf[q] \in Nodes
    BY DEF IInv, TypeOK
  <2>. QED BY <2>1, <2>2 DEF IInv, UseInv
<1>2. \A q \in Procs : want[q] = want[p] /\ buf[q] # ListHead => buf[q] = buf[p]
  BY <1>1, Sizes DEF IInv, OneBufPerBlock
<1>3. Users(buf, buf[p]) # {}
  BY DEF Users
<1>4. refcnt[buf[p]] = Cardinality(Users(buf, buf[p])) + Pin(buf[p])
  BY <1>1, RefExactIs DEF IInv
<1>5. Cardinality(Users(buf, buf[p])) \in Nat \ {0}
  BY <1>3, UsersFinite
<1>6. Pin(buf[p]) \in {0, 1}
  BY DEF Pin
<1>. QED BY <1>1, <1>2, <1>4, <1>5, <1>6

LEMMA UserAlone ==
  ASSUME IInv, NEW p \in Procs, NEW q \in Procs, pc[p] \in InUse, pc[q] \in InUse, buf[p] = buf[q]
  PROVE  p = q
  BY DEF IInv, UseInv, Holding

\* The counts when p gets buffer i
LEMMA CountUp ==
  ASSUME RefExact, buf \in [Procs -> Nodes], refcnt \in [Bufs -> Nat],
         NEW p \in Procs, NEW i \in Bufs, buf[p] \notin Bufs,
         buf' = [buf EXCEPT ![p] = i], refcnt' = [refcnt EXCEPT ![i] = @ + 1],
         \A j \in Bufs : blockno'[j] \in pinned' <=> blockno[j] \in pinned
  PROVE  RefExact'
<1>. DEFINE g == [buf EXCEPT ![p] = i]
<1>1. i \in Nodes
  BY Sizes
<1>2. /\ Cardinality(Users(g, i)) = Cardinality(Users(buf, i)) + 1
      /\ \A j : j # i /\ j # buf[p] => Users(g, j) = Users(buf, j)
  BY <1>1, UsersMove
<1>. HIDE DEF g
<1>3. \A j \in Bufs : /\ refcnt[j] = Cardinality(Users(buf, j)) + Pin(j)
                       /\ Cardinality(Users(buf, j)) \in Nat /\ Pin(j) \in Nat /\ Pin(j)' = Pin(j)
  BY RefExactIs, UsersFinite DEF Pin
<1>4. \A j \in Bufs : refcnt'[j] = Cardinality(Users(g, j)) + Pin(j)
  <2>1. refcnt'[i] = refcnt[i] + 1 /\ \A j \in Bufs : j # i => refcnt'[j] = refcnt[j]
    OBVIOUS
  <2>2. refcnt'[i] = Cardinality(Users(g, i)) + Pin(i)
    BY <1>2, <1>3, <2>1
  <2>3. \A j \in Bufs : j # i => refcnt'[j] = Cardinality(Users(g, j)) + Pin(j)
    BY <1>2, <1>3, <2>1
  <2>. QED BY <2>2, <2>3
<1>5. \A j \in Bufs : refcnt'[j] = Cardinality(Users(buf', j)) + Pin(j)'
  BY <1>3, <1>4 DEF g
<1>. QED BY <1>5 DEF RefExact, Users, Pin

\* The counts when p gives its buffer back
LEMMA CountDown ==
  ASSUME RefExact, buf \in [Procs -> Nodes], refcnt \in [Bufs -> Nat],
         NEW p \in Procs, NEW i \in Bufs, buf[p] = i,
         buf' = [buf EXCEPT ![p] = ListHead], refcnt' = [refcnt EXCEPT ![i] = @ - 1],
         UNCHANGED <<blockno, pinned>>
  PROVE  RefExact' /\ refcnt' \in [Bufs -> Nat]
<1>. DEFINE g == [buf EXCEPT ![p] = ListHead]
<1>1. ListHead \in Nodes /\ i # ListHead
  BY Sizes
<1>2. /\ Cardinality(Users(g, i)) = Cardinality(Users(buf, i)) - 1
      /\ \A j \in Bufs : j # i => Users(g, j) = Users(buf, j)
  <2>1. /\ Cardinality(Users(g, buf[p])) = Cardinality(Users(buf, buf[p])) - 1
        /\ \A j : j # ListHead /\ j # buf[p] => Users(g, j) = Users(buf, j)
    BY <1>1, UsersMove
  <2>. QED BY <2>1, Sizes
<1>. HIDE DEF g
<1>3. \A j \in Bufs : /\ refcnt[j] = Cardinality(Users(buf, j)) + Pin(j)
                       /\ Cardinality(Users(buf, j)) \in Nat /\ Pin(j) \in Nat /\ Pin(j)' = Pin(j)
  BY RefExactIs, UsersFinite DEF Pin
<1>4. \A j \in Bufs : refcnt'[j] = Cardinality(Users(g, j)) + Pin(j)
  <2>1. refcnt'[i] = refcnt[i] - 1 /\ \A j \in Bufs : j # i => refcnt'[j] = refcnt[j]
    OBVIOUS
  <2>2. refcnt'[i] = Cardinality(Users(g, i)) + Pin(i)
    BY <1>2, <1>3, <2>1
  <2>3. \A j \in Bufs : j # i => refcnt'[j] = Cardinality(Users(g, j)) + Pin(j)
    BY <1>2, <1>3, <2>1
  <2>. QED BY <2>2, <2>3
<1>5. \A j \in Bufs : refcnt'[j] = Cardinality(Users(buf', j)) + Pin(j)'
  BY <1>3, <1>4 DEF g
<1>6. \A j \in Bufs : refcnt'[j] \in Nat
  <2>1. \A j \in Bufs : Cardinality(Users(g, j)) \in Nat
    BY UsersFinite
  <2>. QED BY <1>3, <1>4, <2>1
<1>7. refcnt' \in [Bufs -> Nat]
  <2>1. refcnt' = [j \in Bufs |-> refcnt'[j]]
    OBVIOUS
  <2>. QED BY <1>6, <2>1
<1>. QED BY <1>5, <1>7 DEF RefExact, Users, Pin

-----------------------------------------------------------------------------
(* bread()                                                                 *)

LEMMA InitKeeps == Init => IInv
<1>. SUFFICES ASSUME Init PROVE IInv
  OBVIOUS
<1>1. NBUF \in Nat \ {0} /\ Bufs = 1..NBUF /\ Nodes = 0..NBUF /\ ListHead = 0 /\ InitVal \in Vals /\ MaxPins \in Nat
  BY Sizes, BioAssumption
<1>2. lru \in [Bufs -> Bufs] /\ lru \in Seq(Bufs)
  <2>1. lru \in [1..NBUF -> Bufs]
    BY <1>1 DEF Init
  <2>. QED BY <1>1, <2>1
<1>3. next \in [Nodes -> Nodes] /\ prev \in [Nodes -> Nodes]
  BY <1>1 DEF Init
<1>4. TypeOK
  <2>1. valid \in [Bufs -> BOOLEAN] /\ locked \in [Bufs -> BOOLEAN] /\ dirty \in [Procs -> BOOLEAN]
    BY DEF Init
  <2>2. refcnt \in [Bufs -> Nat] /\ buf \in [Procs -> Nodes]
    BY <1>1 DEF Init
  <2>3. /\ blockno \in [Bufs -> Blocks \cup {NoBlock}] /\ data \in [Bufs -> Vals]
        /\ lpid \in [Bufs -> Procs \cup {NoProc}] /\ disk \in [Blocks -> Vals]
        /\ pc \in [Procs -> PCs] /\ want \in [Procs -> Blocks \cup {NoBlock}]
        /\ pinned \in SUBSET Blocks /\ latest \in [Blocks -> Vals]
    BY <1>1 DEF Init, PCs
  <2>. QED BY <1>2, <1>3, <2>1, <2>2, <2>3 DEF TypeOK
<1>5. OneBufPerBlock
  BY DEF Init, OneBufPerBlock
<1>6. RefExact
  <2>1. \A i \in Bufs : refcnt[i] = 0 /\ Pin(i) = 0
    BY DEF Init, Pin
  <2>2. \A i \in Bufs : Users(buf, i) = {}
    BY Sizes DEF Init, Users
  <2>3. \A i \in Bufs : Cardinality(Users(buf, i)) = 0
    BY <2>2, FS_EmptySet
  <2>. QED BY <2>1, <2>3, RefExactIs
<1>7. UseInv /\ DataInv /\ StoredInv
  BY DEF Init, UseInv, DataInv, StoredInv, InUse
<1>8. PinInv
  BY <1>1, FS_EmptySet DEF Init, PinInv
<1>9. ListInv
  <2>1. Order(lru)
    <3>1. \A j, k \in Bufs : lru[j] = lru[k] => j = k
      BY <1>1 DEF Init
    <3>2. ASSUME NEW i \in Bufs PROVE \E k \in Bufs : lru[k] = i
      <4>1. NBUF + 1 - i \in Bufs /\ lru[NBUF + 1 - i] = i
        BY <1>1 DEF Init
      <4>. QED BY <4>1
    <3>. QED BY <1>2, <3>1, <3>2 DEF Order
  <2>2. \A k \in 0..NBUF + 1 : L(lru, k) = IF k = 0 THEN 0 ELSE NBUF + 1 - k
    BY <1>1 DEF L, Init
  <2>3. /\ \A n \in 0..NBUF : next[n] = IF n = 0 THEN NBUF ELSE n - 1
        /\ \A n \in 0..NBUF : prev[n] = IF n = NBUF THEN 0 ELSE n + 1
    BY <1>1 DEF Init
  <2>. HIDE DEF L
  <2>4. Linked(lru, next, prev)
    <3>. SUFFICES ASSUME NEW k \in 0..NBUF
                  PROVE  next[L(lru, k)] = L(lru, k + 1) /\ prev[L(lru, k + 1)] = L(lru, k)
      BY DEF Linked
    <3>1. k \in 0..NBUF + 1 /\ k + 1 \in 0..NBUF + 1 /\ k + 1 # 0 /\ NBUF + 1 - (k + 1) = NBUF - k
      BY <1>1
    <3>2. L(lru, k) = (IF k = 0 THEN 0 ELSE NBUF + 1 - k) /\ L(lru, k + 1) = NBUF - k
      BY <2>2, <3>1
    <3>. QED BY <1>1, <2>3, <3>2
  <2>. QED BY <2>1, <2>4 DEF ListInv
<1>. QED BY <1>4, <1>5, <1>6, <1>7, <1>8, <1>9 DEF IInv

LEMMA HitKeeps ==
  ASSUME IInv, NEW p \in Procs, NEW b \in Blocks, Bget(p, b), Hit(p, b)
  PROVE  IInv'
<1>1. PICK i \in Bufs : i = Find(b) /\ i \in Nodes /\ i # ListHead /\ blockno[i] = b
  BY BgetFinds, Sizes DEF IInv, Hit
<1>2. /\ pc[p] = "idle" /\ buf[p] = ListHead /\ ~ dirty[p]
      /\ want' = [want EXCEPT ![p] = b] /\ pc' = [pc EXCEPT ![p] = "lock"]
      /\ buf' = [buf EXCEPT ![p] = i] /\ refcnt' = [refcnt EXCEPT ![i] = @ + 1]
      /\ UNCHANGED <<blockno, valid, data, listVars, lockVars, disk, dirty, pinned, latest>>
  BY <1>1 DEF Bget, Hit, GoTo, IInv, UseInv
<1>3. TypeOK'
  <2>1. refcnt' \in [Bufs -> Nat]
    BY <1>1, <1>2 DEF IInv, TypeOK
  <2>. QED BY <1>1, <1>2, <2>1 DEF IInv, TypeOK, listVars, lockVars, PCs
<1>4. OneBufPerBlock' /\ DataInv' /\ PinInv' /\ ListInv'
  BY <1>2 DEF IInv, OneBufPerBlock, DataInv, PinInv, ListInv, listVars
<1>5. RefExact'
  <2>1. \A j \in Bufs : blockno'[j] \in pinned' <=> blockno[j] \in pinned
    BY <1>2
  <2>2. buf[p] \notin Bufs /\ i # buf[p] /\ buf' = [buf EXCEPT ![p] = i]
    BY <1>1, <1>2, Sizes
  <2>. QED BY <1>1, <1>2, <2>1, <2>2, CountUp DEF IInv, TypeOK
<1>6. UseInv'
  BY <1>1, <1>2 DEF IInv, TypeOK, UseInv, Holding, InUse, lockVars
<1>7. StoredInv'
  BY <1>2 DEF IInv, TypeOK, StoredInv
<1>. QED BY <1>3, <1>4, <1>5, <1>6, <1>7 DEF IInv

LEMMA RecycleKeeps ==
  ASSUME IInv, NEW p \in Procs, NEW b \in Blocks, Bget(p, b), Recycle(p, b)
  PROVE  IInv'
<1>1. PICK i \in Bufs : i = Victim /\ i \in Nodes /\ i # ListHead /\ refcnt[i] = 0
  BY BgetFinds, Sizes DEF IInv, Recycle
<1>2. /\ pc[p] = "idle" /\ buf[p] = ListHead /\ ~ dirty[p]
      /\ want' = [want EXCEPT ![p] = b] /\ pc' = [pc EXCEPT ![p] = "lock"]
      /\ buf' = [buf EXCEPT ![p] = i] /\ refcnt' = [refcnt EXCEPT ![i] = 1]
      /\ blockno' = [blockno EXCEPT ![i] = b] /\ valid' = [valid EXCEPT ![i] = FALSE]
      /\ UNCHANGED <<data, listVars, lockVars, disk, dirty, pinned, latest>>
  BY <1>1 DEF Bget, Recycle, GoTo, IInv, UseInv
<1>3. /\ \A j \in Bufs : blockno[j] # b
      /\ blockno[i] \notin pinned /\ \A q \in Procs : buf[q] # i
  BY <1>1, BgetFinds, Unused DEF IInv, Recycle
<1>4. b \notin pinned
  BY <1>3 DEF IInv, PinInv
<1>5. TypeOK'
  <2>1. refcnt' \in [Bufs -> Nat] /\ buf' \in [Procs -> Nodes]
    BY <1>1, <1>2 DEF IInv, TypeOK
  <2>2. valid' \in [Bufs -> BOOLEAN]
    BY <1>1, <1>2 DEF IInv, TypeOK
  <2>. QED BY <1>1, <1>2, <2>1, <2>2 DEF IInv, TypeOK, listVars, lockVars, PCs
<1>6. OneBufPerBlock'
  BY <1>1, <1>2, <1>3 DEF IInv, TypeOK, OneBufPerBlock
<1>7. DataInv'
  BY <1>1, <1>2 DEF IInv, TypeOK, DataInv
<1>8. PinInv'
  BY <1>1, <1>2, <1>3 DEF IInv, TypeOK, PinInv
<1>9. ListInv'
  BY <1>2 DEF IInv, ListInv, listVars
<1>10. RefExact'
  <2>1. \A j \in Bufs : blockno'[j] \in pinned' <=> blockno[j] \in pinned
    BY <1>1, <1>2, <1>3, <1>4 DEF IInv, TypeOK
  <2>2. buf[p] \notin Bufs
    BY <1>2, Sizes
  <2>3. refcnt' = [refcnt EXCEPT ![i] = @ + 1]
    BY <1>1, <1>2 DEF IInv, TypeOK
  <2>. QED BY <1>1, <1>2, <2>1, <2>2, <2>3, CountUp DEF IInv, TypeOK
<1>11. UseInv'
  <2>. SUFFICES ASSUME NEW q \in Procs
                PROVE  (/\ pc[q] \in {"idle", "panic"} <=> buf[q] = ListHead
                        /\ buf[q] # ListHead => want[q] \in Blocks /\ blockno[buf[q]] = want[q]
                        /\ pc[q] \in InUse => Holding(q, buf[q])
                        /\ pc[q] = "asleep" => locked[buf[q]]
                        /\ pc[q] = "reading" => ~ valid[buf[q]]
                        /\ pc[q] \in {"have", "writing"} => valid[buf[q]]
                        /\ dirty[q] => pc[q] \in {"have", "writing"})'
    BY DEF UseInv
  <2>1. CASE q = p
    BY <1>1, <1>2, <2>1 DEF IInv, TypeOK, InUse
  <2>2. CASE q # p
    <3>1. buf'[q] = buf[q] /\ pc'[q] = pc[q] /\ want'[q] = want[q]
      BY <1>2, <2>2 DEF IInv, TypeOK
    <3>2. CASE buf[q] # ListHead
      <4>1. buf[q] \in Bufs
        BY <3>2, HasBuf
      <4>2. blockno'[buf[q]] = blockno[buf[q]] /\ valid'[buf[q]] = valid[buf[q]]
        BY <1>1, <1>2, <1>3, <4>1 DEF IInv, TypeOK
      <4>. QED BY <1>2, <3>1, <4>2 DEF IInv, UseInv, Holding, lockVars
    <3>3. CASE buf[q] = ListHead
      BY <1>2, <3>1, <3>3 DEF IInv, UseInv, InUse
    <3>. QED BY <3>2, <3>3
  <2>. QED BY <2>1, <2>2
<1>12. StoredInv'
  BY <1>2 DEF IInv, TypeOK, StoredInv
<1>. QED BY <1>5, <1>6, <1>7, <1>8, <1>9, <1>10, <1>11, <1>12 DEF IInv

LEMMA NoBuffersKeeps ==
  ASSUME IInv, NEW p \in Procs, NEW b \in Blocks, Bget(p, b), NoBuffers(p, b)
  PROVE  IInv'
<1>1. /\ pc[p] = "idle" /\ buf[p] = ListHead /\ ~ dirty[p]
      /\ want' = [want EXCEPT ![p] = b] /\ pc' = [pc EXCEPT ![p] = "panic"]
      /\ UNCHANGED <<bufVars, buf, listVars, lockVars, disk, dirty, pinned, latest>>
  BY DEF Bget, NoBuffers, GoTo, IInv, UseInv
<1>2. TypeOK'
  BY <1>1 DEF IInv, TypeOK, bufVars, listVars, lockVars, PCs
<1>3. OneBufPerBlock' /\ DataInv' /\ PinInv' /\ ListInv' /\ RefExact'
  BY <1>1 DEF IInv, OneBufPerBlock, DataInv, PinInv, ListInv, RefExact, bufVars, listVars
<1>4. UseInv'
  BY <1>1 DEF IInv, TypeOK, UseInv, Holding, InUse, bufVars, lockVars
<1>5. StoredInv'
  BY <1>1 DEF IInv, TypeOK, StoredInv
<1>. QED BY <1>2, <1>3, <1>4, <1>5 DEF IInv

\* A step that only moves its process, and perhaps the lock of its buffer
LEMMA SameBufs ==
  ASSUME IInv, UNCHANGED <<bufVars, listVars, disk, buf, want, dirty, pinned, latest>>
  PROVE  OneBufPerBlock' /\ RefExact' /\ DataInv' /\ PinInv' /\ StoredInv' /\ ListInv'
  BY DEF IInv, OneBufPerBlock, RefExact, DataInv, PinInv, StoredInv, ListInv, bufVars, listVars

LEMMA AcquireSleepKeeps ==
  ASSUME IInv, NEW p \in Procs, AcquireSleep(p)
  PROVE  IInv'
<1>1. PICK i \in Bufs : i = buf[p] /\ buf[p] # ListHead
  <2>1. buf[p] # ListHead
    BY DEF AcquireSleep, IInv, UseInv
  <2>. QED BY <2>1, HasBuf
<1>2. UNCHANGED <<bufVars, listVars, disk, buf, want, dirty, pinned, latest>>
  BY DEF AcquireSleep
<1>3. CASE locked[i]
  <2>1. pc' = [pc EXCEPT ![p] = "asleep"] /\ UNCHANGED lockVars
    BY <1>1, <1>3 DEF AcquireSleep, GoTo
  <2>2. TypeOK'
    BY <1>2, <2>1 DEF IInv, TypeOK, bufVars, listVars, lockVars, PCs
  <2>3. UseInv'
    BY <1>1, <1>2, <1>3, <2>1 DEF AcquireSleep, IInv, TypeOK, UseInv, Holding, InUse, bufVars, lockVars
  <2>. QED BY <1>2, <2>2, <2>3, SameBufs DEF IInv
<1>4. CASE ~ locked[i]
  <2>1. /\ pc' = [pc EXCEPT ![p] = "locked"] /\ pc[p] \in {"lock", "woken"}
        /\ locked' = [locked EXCEPT ![i] = TRUE] /\ lpid' = [lpid EXCEPT ![i] = p]
    BY <1>1, <1>4 DEF AcquireSleep, GoTo
  <2>2. TypeOK'
    <3>1. locked' \in [Bufs -> BOOLEAN]
      BY <2>1 DEF IInv, TypeOK
    <3>. QED BY <1>2, <2>1, <3>1 DEF IInv, TypeOK, bufVars, listVars, PCs
  <2>3. UseInv'
    <3>1. \A q \in Procs : q # p /\ pc[q] \in InUse => buf[q] # i
      BY <1>4 DEF IInv, UseInv, Holding
    <3>. QED BY <1>1, <1>2, <1>4, <2>1, <3>1 DEF IInv, TypeOK, UseInv, Holding, InUse, bufVars
  <2>. QED BY <1>2, <2>2, <2>3, SameBufs DEF IInv
<1>. QED BY <1>3, <1>4

LEMMA TestValidKeeps ==
  ASSUME IInv, NEW p \in Procs, TestValid(p)
  PROVE  IInv'
<1>1. /\ pc[p] = "locked" /\ pc' = [pc EXCEPT ![p] = IF valid[buf[p]] THEN "have" ELSE "reading"]
      /\ UNCHANGED <<bufVars, listVars, lockVars, disk, buf, want, dirty, pinned, latest>>
  BY DEF TestValid, GoTo
<1>2. TypeOK'
  BY <1>1 DEF IInv, TypeOK, bufVars, listVars, lockVars, PCs
<1>3. UseInv'
  BY <1>1 DEF IInv, TypeOK, UseInv, Holding, InUse, bufVars, lockVars
<1>. QED BY <1>1, <1>2, <1>3, SameBufs DEF IInv

\* What the disk has is read only when it is up to date.
LEMMA ReadDoneKeeps ==
  ASSUME IInv, NEW p \in Procs, ReadDone(p)
  PROVE  IInv'
<1>1. /\ pc[p] = "reading" /\ buf[p] # ListHead
      /\ pc' = [pc EXCEPT ![p] = "have"]
      /\ data' = [data EXCEPT ![buf[p]] = disk[blockno[buf[p]]]] /\ valid' = [valid EXCEPT ![buf[p]] = TRUE]
      /\ UNCHANGED <<blockno, refcnt, listVars, lockVars, disk, buf, want, dirty, pinned, latest>>
  BY DEF ReadDone, GoTo, IInv, UseInv
<1>2. PICK i \in Bufs, b \in Blocks : i = buf[p] /\ b = want[p] /\ blockno[i] = b /\ ~ valid[i]
  BY <1>1, HasBuf DEF IInv, UseInv
<1>3. disk[b] = latest[b]
  <2>1. b \notin pinned
    BY <1>2, Sizes DEF IInv, PinInv, OneBufPerBlock
  <2>2. ASSUME NEW q \in Procs, dirty[q], want[q] = b PROVE FALSE
    <3>1. pc[q] \in {"have", "writing"} /\ buf[q] # ListHead /\ valid[buf[q]]
      BY <2>2 DEF IInv, UseInv
    <3>2. buf[q] = buf[p]
      BY <1>1, <1>2, <2>2, <3>1, HasBuf
    <3>. QED BY <1>2, <3>1, <3>2
  <2>. QED BY <2>1, <2>2 DEF IInv, StoredInv
<1>4. TypeOK'
  <2>1. valid' \in [Bufs -> BOOLEAN]
    BY <1>1, <1>2 DEF IInv, TypeOK
  <2>2. data' \in [Bufs -> Vals]
    BY <1>1, <1>2 DEF IInv, TypeOK
  <2>. QED BY <1>1, <2>1, <2>2 DEF IInv, TypeOK, listVars, lockVars, PCs
<1>5. OneBufPerBlock' /\ RefExact' /\ StoredInv' /\ ListInv'
  BY <1>1 DEF IInv, OneBufPerBlock, RefExact, StoredInv, ListInv, listVars
<1>6. DataInv'
  BY <1>1, <1>2, <1>3 DEF IInv, TypeOK, DataInv
<1>7. PinInv'
  BY <1>1, <1>2 DEF IInv, TypeOK, PinInv
<1>8. UseInv'
  <2>1. \A q \in Procs : q # p /\ pc[q] = "reading" => buf[q] # buf[p]
    BY <1>1, UserAlone DEF InUse
  <2>2. \A q \in Procs : buf[q] # ListHead => buf[q] \in Bufs
    BY HasBuf
  <2>. QED BY <1>1, <1>2, <2>1, <2>2 DEF IInv, TypeOK, UseInv, Holding, InUse, lockVars
<1>. QED BY <1>4, <1>5, <1>6, <1>7, <1>8 DEF IInv

-----------------------------------------------------------------------------
(* What a process does with its buffer                                     *)

LEMMA ModifyKeeps ==
  ASSUME IInv, NEW p \in Procs, NEW v \in Vals, Modify(p, v)
  PROVE  IInv'
<1>1. /\ pc[p] = "have" /\ buf[p] # ListHead
      /\ data' = [data EXCEPT ![buf[p]] = v] /\ latest' = [latest EXCEPT ![want[p]] = v]
      /\ dirty' = [dirty EXCEPT ![p] = TRUE]
      /\ UNCHANGED <<blockno, valid, refcnt, listVars, lockVars, disk, pc, buf, want, pinned>>
  BY DEF Modify, IInv, UseInv
<1>2. PICK i \in Bufs, b \in Blocks : i = buf[p] /\ b = want[p] /\ blockno[i] = b
  BY <1>1, HasBuf
<1>3. TypeOK'
  <2>1. dirty' \in [Procs -> BOOLEAN]
    BY <1>1 DEF IInv, TypeOK
  <2>2. data' \in [Bufs -> Vals] /\ latest' \in [Blocks -> Vals]
    BY <1>1, <1>2 DEF IInv, TypeOK
  <2>. QED BY <1>1, <2>1, <2>2 DEF IInv, TypeOK, listVars, lockVars
<1>4. OneBufPerBlock' /\ RefExact' /\ PinInv' /\ ListInv'
  BY <1>1 DEF IInv, OneBufPerBlock, RefExact, PinInv, ListInv, listVars
<1>5. DataInv'
  <2>1. \A j \in Bufs : j # i => blockno[j] # b
    BY <1>2, Sizes DEF IInv, OneBufPerBlock
  <2>. QED BY <1>1, <1>2, <2>1 DEF IInv, TypeOK, DataInv
<1>6. UseInv'
  BY <1>1 DEF IInv, TypeOK, UseInv, Holding, lockVars
<1>7. StoredInv'
  BY <1>1, <1>2 DEF IInv, TypeOK, StoredInv
<1>. QED BY <1>3, <1>4, <1>5, <1>6, <1>7 DEF IInv

LEMMA BwriteKeeps ==
  ASSUME IInv, NEW p \in Procs, Bwrite(p)
  PROVE  IInv'
<1>1. /\ pc[p] = "have" /\ pc' = [pc EXCEPT ![p] = "writing"]
      /\ UNCHANGED <<bufVars, listVars, lockVars, disk, buf, want, dirty, pinned, latest>>
  BY DEF Bwrite, IfHolding, GoTo, IInv, UseInv, InUse
<1>2. TypeOK'
  BY <1>1 DEF IInv, TypeOK, bufVars, listVars, lockVars, PCs
<1>3. UseInv'
  BY <1>1 DEF IInv, TypeOK, UseInv, Holding, InUse, bufVars, lockVars
<1>. QED BY <1>1, <1>2, <1>3, SameBufs DEF IInv

LEMMA WriteDoneKeeps ==
  ASSUME IInv, NEW p \in Procs, WriteDone(p)
  PROVE  IInv'
<1>1. /\ pc[p] = "writing" /\ buf[p] # ListHead /\ valid[buf[p]]
      /\ pc' = [pc EXCEPT ![p] = "have"]
      /\ disk' = [disk EXCEPT ![blockno[buf[p]]] = data[buf[p]]]
      /\ dirty' = [dirty EXCEPT ![p] = FALSE]
      /\ UNCHANGED <<bufVars, listVars, lockVars, buf, want, pinned, latest>>
  BY DEF WriteDone, GoTo, IInv, UseInv
<1>2. PICK i \in Bufs, b \in Blocks : i = buf[p] /\ b = want[p] /\ blockno[i] = b
  BY <1>1, HasBuf
<1>3. data[i] = latest[b]
  BY <1>1, <1>2 DEF IInv, DataInv
<1>4. TypeOK'
  <2>1. dirty' \in [Procs -> BOOLEAN]
    BY <1>1 DEF IInv, TypeOK
  <2>2. disk' \in [Blocks -> Vals]
    BY <1>1, <1>2 DEF IInv, TypeOK
  <2>. QED BY <1>1, <2>1, <2>2 DEF IInv, TypeOK, bufVars, listVars, lockVars, PCs
<1>5. OneBufPerBlock' /\ RefExact' /\ DataInv' /\ PinInv' /\ ListInv'
  BY <1>1 DEF IInv, OneBufPerBlock, RefExact, DataInv, PinInv, ListInv, bufVars, listVars
<1>6. UseInv'
  BY <1>1 DEF IInv, TypeOK, UseInv, Holding, InUse, bufVars, lockVars
<1>7. StoredInv'
  BY <1>1, <1>2, <1>3 DEF IInv, TypeOK, StoredInv
<1>. QED BY <1>4, <1>5, <1>6, <1>7 DEF IInv

\* A process that has its buffer: the pins follow the count.
LEMMA PinCount ==
  ASSUME IInv, NEW i \in Bufs, NEW b \in Blocks, blockno[i] = b, NEW n \in {0, 1}, NEW m \in {0, 1},
         b \in pinned <=> n = 1, b \in pinned' <=> m = 1,
         \A x \in Blocks : x # b => (x \in pinned' <=> x \in pinned),
         pinned' \in SUBSET Blocks,
         refcnt' = [refcnt EXCEPT ![i] = @ + (m - n)], UNCHANGED <<buf, blockno>>
  PROVE  RefExact'
<1>1. \A j \in Bufs : j # i => blockno[j] # b
  BY Sizes DEF IInv, OneBufPerBlock
<1>2. \A j \in Bufs : j # i => Pin(j)' = Pin(j)
  BY <1>1 DEF IInv, TypeOK, Pin
<1>3. Pin(i) = n /\ Pin(i)' = m
  BY DEF Pin
<1>4. \A j \in Bufs : refcnt[j] = Cardinality(Users(buf, j)) + Pin(j) /\ Cardinality(Users(buf, j)) \in Nat
  BY RefExactIs, UsersFinite DEF IInv
<1>5. refcnt'[i] = refcnt[i] + (m - n) /\ \A j \in Bufs : j # i => refcnt'[j] = refcnt[j]
  BY DEF IInv, TypeOK
<1>6. refcnt'[i] = Cardinality(Users(buf, i)) + Pin(i)'
  BY <1>3, <1>4, <1>5
<1>7. \A j \in Bufs : refcnt'[j] = Cardinality(Users(buf, j)) + Pin(j)'
  BY <1>2, <1>4, <1>5, <1>6
<1>. QED BY <1>7 DEF RefExact, Users, Pin

LEMMA BpinKeeps ==
  ASSUME IInv, NEW p \in Procs, Bpin(p)
  PROVE  IInv'
<1>1. /\ pc[p] = "have" /\ buf[p] # ListHead /\ valid[buf[p]]
      /\ pinned' = pinned \cup {want[p]} /\ dirty' = [dirty EXCEPT ![p] = FALSE]
      /\ UNCHANGED <<blockno, valid, data, listVars, lockVars, disk, pc, buf, want, latest>>
  BY DEF Bpin, IInv, UseInv
<1>2. PICK i \in Bufs, b \in Blocks : i = buf[p] /\ b = want[p] /\ blockno[i] = b
  BY <1>1, HasBuf
<1>3. refcnt' \in [Bufs -> Nat] /\ RefExact'
  <2>1. pinned' \in SUBSET Blocks /\ b \in pinned' /\ \A x \in Blocks : x # b => (x \in pinned' <=> x \in pinned)
    BY <1>1, <1>2 DEF IInv, TypeOK
  <2>2. CASE b \notin pinned
    <3>1. refcnt' = [refcnt EXCEPT ![i] = @ + 1]
      BY <1>2, <2>2 DEF Bpin
    <3>2. refcnt' = [refcnt EXCEPT ![i] = @ + (1 - 0)]
      BY <3>1
    <3>3. RefExact'
      <4>1. 0 \in {0, 1} /\ 1 \in {0, 1} /\ (b \in pinned <=> 0 = 1) /\ (b \in pinned' <=> 1 = 1)
        BY <2>1, <2>2
      <4>2. UNCHANGED <<buf, blockno>>
        BY <1>1
      <4>. QED BY <1>2, <2>1, <3>2, <4>1, <4>2, PinCount
    <3>. QED BY <3>1, <3>3 DEF IInv, TypeOK
  <2>3. CASE b \in pinned
    <3>1. refcnt' = refcnt
      BY <1>2, <2>3 DEF Bpin
    <3>2. pinned' = pinned
      BY <1>1, <1>2, <2>3
    <3>3. RefExact'
      BY <1>1, <3>1, <3>2 DEF IInv, RefExact
    <3>. QED BY <3>1, <3>3 DEF IInv, TypeOK
  <2>. QED BY <2>2, <2>3
<1>4. TypeOK'
  <2>1. dirty' \in [Procs -> BOOLEAN]
    BY <1>1 DEF IInv, TypeOK
  <2>2. pinned' \in SUBSET Blocks
    BY <1>1, <1>2 DEF IInv, TypeOK
  <2>. QED BY <1>1, <1>3, <2>1, <2>2 DEF IInv, TypeOK, listVars, lockVars
<1>5. OneBufPerBlock' /\ DataInv' /\ ListInv'
  BY <1>1 DEF IInv, OneBufPerBlock, DataInv, ListInv, listVars
<1>6. PinInv'
  <2>1. IsFiniteSet(pinned') /\ Cardinality(pinned') <= MaxPins
    <3>1. IsFiniteSet(pinned) /\ Cardinality(pinned) \in Nat /\ Cardinality(pinned) <= MaxPins
      BY FS_CardinalityType DEF IInv, PinInv
    <3>2. IsFiniteSet(pinned') /\ Cardinality(pinned') = IF b \in pinned THEN Cardinality(pinned) ELSE Cardinality(pinned) + 1
      BY <1>1, <1>2, <3>1, FS_AddElement
    <3>3. b \notin pinned => Cardinality(pinned) < MaxPins
      BY <1>2 DEF Bpin
    <3>. QED BY <3>1, <3>2, <3>3, Sizes
  <2>. QED BY <1>1, <1>2, <2>1 DEF IInv, PinInv
<1>7. UseInv'
  BY <1>1 DEF IInv, TypeOK, UseInv, Holding, lockVars
<1>8. StoredInv'
  BY <1>1, <1>2 DEF IInv, TypeOK, StoredInv
<1>. QED BY <1>3, <1>4, <1>5, <1>6, <1>7, <1>8 DEF IInv

LEMMA BunpinKeeps ==
  ASSUME IInv, NEW p \in Procs, Bunpin(p)
  PROVE  IInv'
<1>1. /\ pc[p] = "have" /\ buf[p] # ListHead /\ valid[buf[p]]
      /\ want[p] \in pinned /\ disk[want[p]] = data[buf[p]]
      /\ refcnt' = [refcnt EXCEPT ![buf[p]] = @ - 1] /\ pinned' = pinned \ {want[p]}
      /\ UNCHANGED <<blockno, valid, data, listVars, lockVars, disk, procVars, latest>>
  BY DEF Bunpin, IInv, UseInv
<1>2. PICK i \in Bufs, b \in Blocks : i = buf[p] /\ b = want[p] /\ blockno[i] = b
  BY <1>1, HasBuf
<1>3. refcnt' \in [Bufs -> Nat] /\ RefExact'
  <2>1. refcnt[i] \in Nat /\ refcnt[i] >= 1
    <3>1. refcnt[buf[p]] \in Nat /\ refcnt[buf[p]] >= 1 + Pin(buf[p]) /\ Pin(buf[p]) \in {0, 1}
      BY <1>1, HasBuf DEF Pin
    <3>. QED BY <1>2, <3>1
  <2>2. refcnt' = [refcnt EXCEPT ![i] = @ - 1]
    BY <1>1, <1>2
  <2>3. refcnt' = [refcnt EXCEPT ![i] = @ + (0 - 1)]
    <3>1. refcnt[i] - 1 = refcnt[i] + (0 - 1)
      BY <2>1
    <3>. QED BY <2>2, <3>1
  <2>4. /\ pinned' \in SUBSET Blocks /\ b \notin pinned' /\ b \in pinned
        /\ \A x \in Blocks : x # b => (x \in pinned' <=> x \in pinned)
    BY <1>1, <1>2 DEF IInv, TypeOK
  <2>5. UNCHANGED <<buf, blockno>>
    BY <1>1 DEF procVars
  <2>6. RefExact'
    <3>1. 0 \in {0, 1} /\ 1 \in {0, 1} /\ (b \in pinned <=> 1 = 1) /\ (b \in pinned' <=> 0 = 1)
      BY <2>4
    <3>. QED BY <1>2, <2>3, <2>4, <2>5, <3>1, PinCount
  <2>. QED BY <2>1, <2>2, <2>6 DEF IInv, TypeOK
<1>4. TypeOK'
  <2>1. pinned' \in SUBSET Blocks
    BY <1>1 DEF IInv, TypeOK
  <2>. QED BY <1>1, <1>3, <2>1 DEF IInv, TypeOK, listVars, lockVars, procVars
<1>5. OneBufPerBlock' /\ DataInv' /\ ListInv'
  BY <1>1 DEF IInv, OneBufPerBlock, DataInv, ListInv, listVars
<1>6. PinInv'
  <2>1. IsFiniteSet(pinned') /\ Cardinality(pinned') <= MaxPins
    <3>1. IsFiniteSet(pinned) /\ Cardinality(pinned) \in Nat /\ Cardinality(pinned) <= MaxPins
      BY FS_CardinalityType DEF IInv, PinInv
    <3>2. IsFiniteSet(pinned') /\ Cardinality(pinned') = Cardinality(pinned) - 1
      BY <1>1, <3>1, FS_RemoveElement
    <3>. QED BY <3>1, <3>2, Sizes
  <2>. QED BY <1>1, <2>1 DEF IInv, PinInv
<1>7. UseInv'
  BY <1>1 DEF IInv, UseInv, Holding, lockVars, procVars
<1>8. StoredInv'
  <2>1. disk[b] = latest[b]
    BY <1>1, <1>2 DEF IInv, DataInv
  <2>. QED BY <1>1, <1>2, <2>1 DEF IInv, StoredInv, procVars
<1>. QED BY <1>3, <1>4, <1>5, <1>6, <1>7, <1>8 DEF IInv

-----------------------------------------------------------------------------
(* brelse()                                                                *)

LEMMA BrelseKeeps ==
  ASSUME IInv, NEW p \in Procs, Brelse(p)
  PROVE  IInv'
<1>1. /\ pc[p] = "have" /\ buf[p] # ListHead /\ ~ dirty[p]
      /\ ReleaseSleep(p) /\ UNCHANGED <<bufVars, listVars, disk, buf, want, dirty, pinned, latest>>
  BY DEF Brelse, IfHolding, IInv, UseInv, InUse
<1>2. PICK i \in Bufs : i = buf[p]
  BY <1>1, HasBuf
<1>3. /\ locked' = [locked EXCEPT ![i] = FALSE] /\ lpid' = [lpid EXCEPT ![i] = NoProc]
      /\ pc' = [q \in Procs |-> IF q = p THEN "unref"
                               ELSE IF pc[q] = "asleep" /\ buf[q] = i THEN "woken" ELSE pc[q]]
  BY <1>1, <1>2 DEF ReleaseSleep
<1>4. TypeOK'
  <2>1. locked' \in [Bufs -> BOOLEAN]
    BY <1>3 DEF IInv, TypeOK
  <2>2. pc' \in [Procs -> PCs]
    BY <1>3 DEF IInv, TypeOK, PCs
  <2>. QED BY <1>1, <1>3, <2>1, <2>2 DEF IInv, TypeOK, bufVars, listVars
<1>5. UseInv'
  <2>1. \A q \in Procs : q # p /\ pc[q] \in InUse => buf[q] # i
    BY <1>1, <1>2, UserAlone DEF InUse
  <2>2. \A q \in Procs : buf[q] # ListHead => buf[q] \in Bufs
    BY HasBuf
  <2>3. \A q \in Procs : buf[q] \in Bufs /\ buf[q] # i => locked'[buf[q]] = locked[buf[q]] /\ lpid'[buf[q]] = lpid[buf[q]]
    BY <1>3 DEF IInv, TypeOK
  <2>. QED BY <1>1, <1>2, <1>3, <2>1, <2>2, <2>3 DEF IInv, UseInv, Holding, InUse, bufVars
<1>. QED BY <1>1, <1>4, <1>5, SameBufs DEF IInv

LEMMA UnrefKeeps ==
  ASSUME IInv, NEW p \in Procs, Unref(p)
  PROVE  IInv'
<1>1. /\ pc[p] = "unref" /\ buf[p] # ListHead /\ ~ dirty[p]
      /\ refcnt' = [refcnt EXCEPT ![buf[p]] = @ - 1]
      /\ buf' = [buf EXCEPT ![p] = ListHead] /\ want' = [want EXCEPT ![p] = NoBlock]
      /\ pc' = [pc EXCEPT ![p] = "idle"]
      /\ UNCHANGED <<blockno, valid, data, lockVars, disk, dirty, pinned, latest>>
  BY DEF Unref, GoTo, IInv, UseInv
<1>2. PICK i \in Bufs : i = buf[p]
  BY <1>1, HasBuf
<1>3. ListInv' /\ next' \in [Nodes -> Nodes] /\ prev' \in [Nodes -> Nodes] /\ lru' \in Seq(Bufs)
  <2>1. CASE refcnt[i] = 1
    BY <1>2, <2>1, ToHeadKeeps DEF Unref, IInv
  <2>2. CASE refcnt[i] # 1
    BY <1>2, <2>2 DEF Unref, IInv, ListInv, TypeOK, listVars
  <2>. QED BY <2>1, <2>2
<1>4. RefExact' /\ refcnt' \in [Bufs -> Nat]
  BY <1>1, <1>2, CountDown DEF IInv, TypeOK
<1>5. TypeOK'
  <2>1. ListHead \in Nodes
    BY Sizes
  <2>. QED BY <1>1, <1>3, <1>4, <2>1 DEF IInv, TypeOK, lockVars, PCs
<1>6. OneBufPerBlock' /\ DataInv' /\ PinInv'
  BY <1>1 DEF IInv, OneBufPerBlock, DataInv, PinInv
<1>7. UseInv'
  BY <1>1 DEF IInv, TypeOK, UseInv, Holding, InUse, lockVars
<1>8. StoredInv'
  BY <1>1 DEF IInv, TypeOK, StoredInv
<1>. QED BY <1>3, <1>4, <1>5, <1>6, <1>7, <1>8 DEF IInv

-----------------------------------------------------------------------------
(* The theorems                                                            *)

LEMMA NextKeeps == IInv /\ [Next]_vars => IInv'
<1>. SUFFICES ASSUME IInv, [Next]_vars PROVE IInv'
  OBVIOUS
<1>1. ASSUME NEW p \in Procs, NEW b \in Blocks, Bget(p, b) PROVE IInv'
  <2>1. Hit(p, b) \/ Recycle(p, b) \/ NoBuffers(p, b)
    BY <1>1 DEF Bget
  <2>. QED BY <1>1, <2>1, HitKeeps, RecycleKeeps, NoBuffersKeeps
<1>2. ASSUME NEW p \in Procs, Advance(p) PROVE IInv'
  BY <1>2, AcquireSleepKeeps, TestValidKeeps, ReadDoneKeeps, WriteDoneKeeps, BrelseKeeps, UnrefKeeps DEF Advance
<1>3. CASE UNCHANGED vars
  <2>1. UNCHANGED <<bufVars, listVars, lockVars, disk, pc, buf, want, dirty, pinned, latest>>
    BY <1>3 DEF vars, procVars
  <2>2. TypeOK' /\ UseInv'
    BY <2>1 DEF IInv, TypeOK, UseInv, Holding, bufVars, listVars, lockVars
  <2>. QED BY <2>1, <2>2, SameBufs DEF IInv
<1>. QED BY <1>1, <1>2, <1>3, ModifyKeeps, BwriteKeeps, BpinKeeps, BunpinKeeps DEF Next

\* The inductive invariant holds in every reachable state, also where bget() panics for
\* want of buffers.
THEOREM BioInductive == Spec => []IInv
  BY InitKeeps, NextKeeps, PTL DEF Spec

\* bread() returns the block it was asked for with what was last stored in it, however
\* many processes look up, recycle, modify, write, pin and release buffers meanwhile.
THEOREM BioCoherent == Spec => []Coherent
<1>1. IInv => Coherent
  <2>. SUFFICES ASSUME IInv, NEW p \in Procs, pc[p] = "have"
                PROVE  blockno[buf[p]] = want[p] /\ data[buf[p]] = latest[want[p]]
    BY DEF Coherent
  <2>1. buf[p] # ListHead /\ valid[buf[p]]
    BY DEF IInv, UseInv
  <2>. QED BY <2>1, HasBuf DEF IInv, DataInv
<1>. QED BY <1>1, BioInductive, PTL

LEMMA Consistent == IInv => TypeOK /\ OneBufPerBlock /\ HolderAlone /\ RefExact /\ ListIsLru /\ NoLostWakeup
<1>. SUFFICES ASSUME IInv PROVE HolderAlone /\ ListIsLru /\ NoLostWakeup
  BY DEF IInv
<1>1. HolderAlone
  BY DEF IInv, UseInv, InUse, HolderAlone, Holding
<1>2. ListIsLru
  BY ListWalk DEF IInv, ListInv, ListIsLru
<1>3. NoLostWakeup
  BY DEF IInv, UseInv, NoLostWakeup
<1>. QED BY <1>1, <1>2, <1>3

\* A block never has two buffers, a buffer never has two users, its count is its users
\* and its pin, the list is in LRU order and nobody sleeps for a free buffer: whatever
\* the number of buffers, and also after a panic of bget().
THEOREM BioConsistent ==
  Spec => [](OneBufPerBlock /\ HolderAlone /\ RefExact /\ ListIsLru /\ NoLostWakeup)
  BY BioInductive, Consistent, PTL

\* bget() walks the list in vain only when each buffer is another process's or pinned.
LEMMA AllTaken ==
  ASSUME IInv, NEW p \in Procs, buf[p] = ListHead, Victim = ListHead, NEW i \in Bufs
  PROVE  (\E q \in Procs \ {p} : buf[q] = i) \/ blockno[i] \in pinned
<1>. SUFFICES ASSUME blockno[i] \notin pinned PROVE \E q \in Procs \ {p} : buf[q] = i
  OBVIOUS
<1>1. refcnt[i] # 0 /\ Pin(i) = 0 /\ i # ListHead
  BY Sizes, BgetFinds DEF IInv, Pin
<1>2. refcnt[i] = Cardinality(Users(buf, i)) + Pin(i) /\ Cardinality(Users(buf, i)) \in Nat
  BY RefExactIs, UsersFinite DEF IInv
<1>3. Cardinality(Users(buf, i)) # 0
  BY <1>1, <1>2
<1>4. Users(buf, i) # {}
  BY <1>3, UsersFinite
<1>. QED BY <1>1, <1>4 DEF Users

\* A panic of the cache is bget()'s, for want of a buffer.
LEMMA PanicStep ==
  ASSUME IInv, Next, NEW p \in Procs, pc[p] # "panic", pc'[p] = "panic"
  PROVE  /\ pc[p] = "idle"
         /\ \A i \in Bufs : /\ blockno[i] # want'[p]
                            /\ (\E q \in Procs \ {p} : buf[q] = i) \/ blockno[i] \in pinned
<1>1. ASSUME NEW q \in Procs, NEW b \in Blocks, Bget(q, b)
      PROVE  /\ pc[p] = "idle"
             /\ \A i \in Bufs : /\ blockno[i] # want'[p]
                                /\ (\E r \in Procs \ {p} : buf[r] = i) \/ blockno[i] \in pinned
  <2>1. q = p /\ NoBuffers(p, b)
    BY <1>1 DEF Bget, Hit, Recycle, NoBuffers, GoTo, IInv, TypeOK
  <2>2. pc[p] = "idle" /\ want'[p] = b /\ Find(b) = ListHead /\ Victim = ListHead
    BY <1>1, <2>1 DEF Bget, NoBuffers, IInv, TypeOK
  <2>3. buf[p] = ListHead
    BY <2>2 DEF IInv, UseInv
  <2>4. \A i \in Bufs : blockno[i] # b
    BY <2>2, BgetFinds DEF IInv
  <2>. QED BY <2>2, <2>3, <2>4, AllTaken
<1>2. ASSUME NEW q \in Procs, Bwrite(q) \/ Brelse(q) PROVE FALSE
  <2>1. Holding(q, buf[q])
    BY <1>2 DEF Bwrite, Brelse, IInv, UseInv, InUse
  <2>. QED BY <1>2, <2>1 DEF Bwrite, Brelse, IfHolding, ReleaseSleep, GoTo, IInv, TypeOK
<1>3. ASSUME NEW q \in Procs, AcquireSleep(q) \/ TestValid(q) \/ ReadDone(q) \/ WriteDone(q) \/ Unref(q)
      PROVE  FALSE
  BY <1>3 DEF AcquireSleep, TestValid, ReadDone, WriteDone, Unref, GoTo, IInv, TypeOK
<1>. QED BY <1>1, <1>2, <1>3 DEF Next, Advance, Modify, Bpin, Bunpin, procVars

\* The cache is consistent at every moment, and panics only in bget(), when each buffer
\* is in the hands of another process or pinned: whatever the numbers of processes,
\* pins and buffers, also those of the build, where this panic can be reached.
THEOREM BioSafe == Spec => CachePromise
<1>1. IInv => BioInv
  BY Consistent DEF BioInv
<1>2. IInv /\ [Next]_vars =>
        [\A p \in Procs : pc[p] # "panic" /\ pc'[p] = "panic" =>
            /\ pc[p] = "idle"
            /\ \A i \in Bufs : /\ blockno[i] # want'[p]
                               /\ \/ \E q \in Procs \ {p} : buf[q] = i
                                  \/ blockno[i] \in pinned]_vars
  BY PanicStep
<1>. QED BY <1>1, <1>2, BioInductive, PTL DEF Spec, CachePromise, PanicsOnlyWhenFull

-----------------------------------------------------------------------------
(***************************************************************************)
(* The disk driver below the cache, VirtioDisk.  Its state is its own.     *)
(*                                                                         *)
(* The argument.  A request that waits for the device is in one of three   *)
(* places, the avail ring, the device's hands or the used ring, and in one *)
(* only (StageInv).  The entries of a ring are heads of different requests *)
(* and each request has three descriptors of its own (OwnerInv), so a ring *)
(* always has room and no entry is overwritten; the indices may wrap since *)
(* a turn of theirs is a whole number of turns of the ring.  As long as    *)
(* the device can reach a chain, its process sleeps or is about to, and    *)
(* the chain stays what virtio_disk_rw() made it (RequestInv).             *)
(***************************************************************************)
\* The descriptor numbers in len places of the ring r, from place lo on; they
\* are all different.
Queued(r, lo, len) == {r[(lo + n) % NUM] : n \in 0..len - 1}
Apart(r, lo, len) == \A m, n \in 0..len - 1 : r[(lo + m) % NUM] = r[(lo + n) % NUM] => m = n

\* The avail ring holds the head that is about to be published, too.
AvailLen == ((aidx - devidx) % IdxMod) + (IF \E p \in Tasks : vpc[p] = "publish" THEN 1 ELSE 0)
UsedLen == (uidx - used_idx) % IdxMod
AvailHeads == Queued(aring, devidx, AvailLen)
UsedHeads == Queued(uring, used_idx, UsedLen)

Busy(p) == idx[p] # <<>>

\* The three descriptors of p's request hold what virtio_disk_rw() put there.
Formatted(p) ==
  LET i == idx[p][1]
      j == idx[p][2]
      k == idx[p][3]
  IN  /\ desc[i] = [addr |-> [kind |-> "ops", i |-> i], next |-> j, more |-> TRUE, devwrite |-> FALSE]
      /\ desc[j] = [addr |-> [kind |-> "data", b |-> p], next |-> k, more |-> TRUE,
                    devwrite |-> dir[p] = "read"]
      /\ desc[k] = [addr |-> [kind |-> "status", i |-> i], next |-> 0, more |-> FALSE, devwrite |-> TRUE]
      /\ ops[i] = dir[p] /\ info[i].b = p

RequestInv ==
  \A p \in Tasks :
     /\ (Busy(p) <=> vpc[p] \in {"publish", "wait", "asleep_buf"})
     /\ bdisk[p] => Busy(p)
     /\ vpc[p] \in {"publish", "asleep_buf"} => bdisk[p]
     /\ vpc[p] = "publish" => vlock = p
     /\ Busy(p) => Formatted(p)
     /\ Busy(p) /\ ~ bdisk[p] => served[p] = dir[p]

OwnerInv ==
  /\ \A p, q \in Tasks : \A m, n \in 1..3 :
        Busy(p) /\ Busy(q) /\ idx[p][m] = idx[q][n] => p = q /\ m = n
  /\ \A p \in Tasks : \A n \in 1..3 : Busy(p) => ~ free[idx[p][n]]
  /\ \A i \in V!Descs : free[i] \/ \E p \in Tasks : \E n \in 1..3 : Busy(p) /\ idx[p][n] = i

\* h is the head of a request whose process waits for the device.
Waits(h) ==
  /\ h \in V!Descs /\ info[h].b \in Tasks
  /\ bdisk[info[h].b] /\ Busy(info[h].b) /\ idx[info[h].b][1] = h

StageInv ==
  /\ AvailLen <= NUM - 2 /\ UsedLen <= NUM - 2
  /\ Apart(aring, devidx, AvailLen) /\ Apart(uring, used_idx, UsedLen)
  /\ \A h \in AvailHeads : Waits(h) /\ h \notin inflight /\ h \notin UsedHeads
  /\ \A h \in inflight : Waits(h) /\ h \notin UsedHeads
  /\ \A h \in UsedHeads : Waits(h)
  /\ \A p \in Tasks : bdisk[p] => idx[p][1] \in AvailHeads \cup inflight \cup UsedHeads

DoneInv ==
  /\ written \subseteq inflight
  /\ \A h \in written \cup UsedHeads : info[h].ok /\ served[info[h].b] = dir[info[h].b]

LockInv ==
  /\ V!NoPanic
  /\ (ipc # "off" <=> vlock = Intr)
  /\ \A p \in Tasks : vlock = p => vpc[p] \in {"publish", "wait"}

DiskIInv == V!TypeOK /\ RequestInv /\ OwnerInv /\ StageInv /\ DoneInv /\ LockInv /\ V!NothingMissed

LEMMA SameCount == \A S : V!Cardinality(S) = Cardinality(S)
  BY DEF V!Cardinality, Cardinality

-----------------------------------------------------------------------------
(* Rings                                                                   *)

LEMMA RingSizes ==
  ASSUME V!VirtioAssumption
  PROVE  /\ NUM \in Nat \ {0} /\ NUM >= 3 /\ IdxMod \in Nat \ {0} /\ IdxMod >= NUM
         /\ IdxMod % NUM = 0 /\ NoTask \notin Tasks /\ Intr \notin Tasks
         /\ Nobody \notin Tasks /\ Nobody # Intr
         /\ V!Descs = 0..NUM - 1 /\ V!Stale = NUM /\ NUM \notin V!Descs
  BY DEF V!VirtioAssumption, V!Descs, V!Stale

LEMMA PlaceType ==
  ASSUME V!VirtioAssumption, NEW x \in Int
  PROVE  x % NUM \in 0..NUM - 1
  BY RingSizes, DivMod

\* Places less than a turn apart are different.
LEMMA PlacesApart ==
  ASSUME V!VirtioAssumption, NEW lo \in Nat, NEW m \in 0..NUM - 1, NEW n \in 0..NUM - 1,
         (lo + m) % NUM = (lo + n) % NUM
  PROVE  m = n
<1>1. NUM \in Nat \ {0}
  BY RingSizes
<1>. DEFINE x == lo + m
            y == lo + n
<1>2. /\ x \in Int /\ y \in Int /\ (m < n => y - x \in 1..NUM - 1)
      /\ (n < m => x - y \in 1..NUM - 1) /\ x % NUM = y % NUM
  BY <1>1
<1>. HIDE DEF x, y
<1>3. ~ (m < n)
  BY <1>1, <1>2, ModDiffers
<1>4. ~ (n < m)
  BY <1>1, <1>2, ModDiffers
<1>. QED BY <1>1, <1>3, <1>4

\* A counter that wraps leads to the same places.
LEMMA PlaceWraps ==
  ASSUME V!VirtioAssumption, NEW lo \in 0..IdxMod - 1, NEW n \in Nat, NEW k \in 0..IdxMod
  PROVE  (((lo + k) % IdxMod) + n) % NUM = (lo + (k + n)) % NUM
<1>1. NUM \in Nat \ {0} /\ IdxMod \in Nat \ {0} /\ IdxMod % NUM = 0
  BY RingSizes
<1>2. (lo + k) % IdxMod = IF lo + k < IdxMod THEN lo + k ELSE lo + k - IdxMod
  BY <1>1, RingStep
<1>3. CASE lo + k < IdxMod
  <2>1. ((lo + k) % IdxMod) + n = lo + (k + n)
    BY <1>1, <1>2, <1>3
  <2>. QED BY <2>1
<1>4. CASE ~ (lo + k < IdxMod)
  <2>. DEFINE x == ((lo + k) % IdxMod) + n
  <2>1. x \in Int /\ x + IdxMod = lo + (k + n)
    BY <1>1, <1>2, <1>4
  <2>. HIDE DEF x
  <2>2. (x + IdxMod) % NUM = x % NUM
    <3>1. IdxMod \in Int
      BY <1>1
    <3>. QED BY <1>1, <2>1, <3>1, ModWhole
  <2>. QED BY <2>1, <2>2 DEF x
<1>. QED BY <1>3, <1>4

\* s is r with x behind the others.
Grows(r, s, lo, len, x) ==
  /\ Apart(s, lo, len + 1)
  /\ x \in Queued(s, lo, len + 1) /\ Queued(r, lo, len) \subseteq Queued(s, lo, len + 1)
  /\ \A y \in Queued(s, lo, len + 1) : y \in Queued(r, lo, len) \/ y = x

\* A new entry behind the others
LEMMA QueuePut ==
  ASSUME V!VirtioAssumption, NEW r \in [V!Descs -> V!Descs \cup {NUM}], NEW s, NEW lo \in Nat,
         NEW len \in 0..NUM - 1, NEW x,
         Apart(r, lo, len), x \notin Queued(r, lo, len),
         s = [r EXCEPT ![(lo + len) % NUM] = x]
  PROVE  Grows(r, s, lo, len, x)
<1>1. NUM \in Nat \ {0} /\ V!Descs = 0..NUM - 1
  BY RingSizes
<1>2. \A n \in 0..len : n \in 0..NUM - 1 /\ (lo + n) % NUM \in V!Descs
  <2>1. \A n \in 0..len : n \in 0..NUM - 1 /\ lo + n \in Int
    BY <1>1
  <2>. QED BY <1>1, <2>1, PlaceType
<1>3. s[(lo + len) % NUM] = x
  BY <1>1, <1>2
<1>4. ASSUME NEW n \in 0..len - 1 PROVE s[(lo + n) % NUM] = r[(lo + n) % NUM]
  <2>1. n \in 0..NUM - 1 /\ len \in 0..NUM - 1 /\ n # len /\ n \in 0..len
    BY <1>1
  <2>2. (lo + n) % NUM # (lo + len) % NUM
    BY <2>1, PlacesApart
  <2>. QED BY <1>2, <2>1, <2>2
<1>5. \A n \in 0..len - 1 : r[(lo + n) % NUM] # x
  BY DEF Queued
<1>6. 0..(len + 1) - 1 = (0..len - 1) \cup {len}
  BY <1>1
<1>7. Apart(s, lo, len + 1)
  BY <1>3, <1>4, <1>5, <1>6 DEF Apart
<1>8. Queued(s, lo, len + 1) = Queued(r, lo, len) \cup {x}
  BY <1>3, <1>4, <1>6 DEF Queued
<1>. QED BY <1>7, <1>8 DEF Grows

\* The first entry is taken.
LEMMA QueueTake ==
  ASSUME V!VirtioAssumption, NEW T, NEW r \in [V!Descs -> T], NEW s, NEW lo \in 0..IdxMod - 1,
         NEW len \in 1..NUM, Apart(r, lo, len), s = [r EXCEPT ![lo % NUM] = NUM]
  PROVE  /\ r[lo % NUM] \in Queued(r, lo, len)
         /\ Apart(s, (lo + 1) % IdxMod, len - 1)
         /\ \A y : y \in Queued(s, (lo + 1) % IdxMod, len - 1) <=> y \in Queued(r, lo, len) /\ y # r[lo % NUM]
<1>1. NUM \in Nat \ {0} /\ V!Descs = 0..NUM - 1 /\ IdxMod \in Nat \ {0}
  BY RingSizes
<1>. DEFINE u == (lo + 1) % IdxMod
<1>2. \A n \in 0..len - 1 : n \in 0..NUM - 1 /\ (lo + n) % NUM \in V!Descs
  <2>1. \A n \in 0..len - 1 : n \in 0..NUM - 1 /\ lo + n \in Int
    BY <1>1
  <2>. QED BY <1>1, <2>1, PlaceType
<1>3. ASSUME NEW n \in 0..(len - 1) - 1
      PROVE  (u + n) % NUM = (lo + (n + 1)) % NUM /\ s[(u + n) % NUM] = r[(lo + (n + 1)) % NUM]
  <2>1. n \in Nat /\ 1 \in 0..IdxMod /\ 1 + n = n + 1
    BY <1>1
  <2>2. (u + n) % NUM = (lo + (1 + n)) % NUM
    BY <2>1, PlaceWraps
  <2>3. n + 1 \in 0..NUM - 1 /\ 0 \in 0..NUM - 1 /\ n + 1 # 0 /\ lo \in Nat /\ n + 1 \in 0..len - 1
    BY <1>1
  <2>4. (lo + (n + 1)) % NUM # (lo + 0) % NUM
    BY <2>3, PlacesApart
  <2>5. lo + 0 = lo
    BY <1>1
  <2>6. (lo + (n + 1)) % NUM # lo % NUM
    BY <2>4, <2>5
  <2>. QED BY <1>2, <2>1, <2>2, <2>3, <2>6
<1>4. 0 \in 0..len - 1 /\ lo + 0 = lo
  BY <1>1
<1>. DEFINE R(n) == r[(lo + n) % NUM]
            S(n) == s[(u + n) % NUM]
<1>5. \A n \in 0..(len - 1) - 1 : S(n) = R(n + 1)
  BY <1>3
<1>6. R(0) = r[lo % NUM]
  BY <1>4
<1>7. \A m, n \in 0..len - 1 : R(m) = R(n) => m = n
  BY DEF Apart
<1>8. Queued(r, lo, len) = {R(n) : n \in 0..len - 1} /\ Queued(s, u, len - 1) = {S(n) : n \in 0..(len - 1) - 1}
  BY DEF Queued
<1>9. Apart(s, u, len - 1) <=> \A m, n \in 0..(len - 1) - 1 : S(m) = S(n) => m = n
  BY DEF Apart
<1>. HIDE DEF R, S, u
<1>10. \A n \in 0..(len - 1) - 1 : n + 1 \in 0..len - 1 /\ n + 1 # 0
  BY <1>1
<1>11. \A n \in 0..len - 1 : n # 0 => n - 1 \in 0..(len - 1) - 1 /\ (n - 1) + 1 = n
  BY <1>1
<1>12. Apart(s, u, len - 1)
  <2>. SUFFICES ASSUME NEW m \in 0..(len - 1) - 1, NEW n \in 0..(len - 1) - 1, S(m) = S(n) PROVE m = n
    BY <1>9
  <2>1. R(m + 1) = R(n + 1)
    BY <1>5
  <2>2. m + 1 = n + 1
    BY <1>7, <1>10, <2>1
  <2>. QED BY <2>2
<1>13. {S(n) : n \in 0..(len - 1) - 1} \subseteq {R(n) : n \in 0..len - 1} \ {R(0)}
  BY <1>4, <1>5, <1>7, <1>10
<1>14. ASSUME NEW n \in 0..len - 1, R(n) # R(0) PROVE R(n) \in {S(k) : k \in 0..(len - 1) - 1}
  <2>1. n # 0 /\ n - 1 \in 0..(len - 1) - 1 /\ (n - 1) + 1 = n
    BY <1>11, <1>14
  <2>2. S(n - 1) = R(n)
    BY <1>5, <2>1
  <2>. QED BY <2>1, <2>2
<1>15. {R(n) : n \in 0..len - 1} \ {R(0)} \subseteq {S(n) : n \in 0..(len - 1) - 1}
  BY <1>14
<1>. QED BY <1>4, <1>6, <1>8, <1>12, <1>13, <1>15 DEF u

\* The entries of a ring are no more than the descriptors they can be.
LEMMA QueueBound ==
  ASSUME V!VirtioAssumption, NEW r, NEW lo \in Nat, NEW len \in Nat, Apart(r, lo, len),
         NEW i \in V!Descs, NEW j \in V!Descs, NEW k \in V!Descs, i # j, i # k, j # k,
         Queued(r, lo, len) \subseteq V!Descs \ {i, j, k}
  PROVE  len <= NUM - 3
<1>1. NUM \in Nat \ {0} /\ V!Descs = 0..NUM - 1
  BY RingSizes
<1>. DEFINE D == 0..NUM - 1
            T == ((D \ {i}) \ {j}) \ {k}
            f == [n \in 0..len - 1 |-> r[(lo + n) % NUM]]
<1>2. IsFiniteSet(D) /\ Cardinality(D) = NUM
  BY <1>1, FS_Interval
<1>. HIDE DEF D
<1>3. i \in D /\ j \in D /\ k \in D /\ Queued(r, lo, len) \subseteq T
  BY <1>1 DEF D
<1>4. IsFiniteSet(D \ {i}) /\ Cardinality(D \ {i}) = NUM - 1
  BY <1>2, <1>3, FS_RemoveElement
<1>5. IsFiniteSet((D \ {i}) \ {j}) /\ Cardinality((D \ {i}) \ {j}) = NUM - 2
  <2>1. j \in D \ {i} /\ (NUM - 1) - 1 = NUM - 2
    BY <1>1, <1>3
  <2>2. /\ IsFiniteSet((D \ {i}) \ {j})
        /\ Cardinality((D \ {i}) \ {j}) = Cardinality(D \ {i}) - 1
    BY <1>4, <2>1, FS_RemoveElement
  <2>. QED BY <1>4, <2>1, <2>2
<1>6. IsFiniteSet(T) /\ Cardinality(T) = NUM - 3
  <2>1. k \in (D \ {i}) \ {j} /\ (NUM - 2) - 1 = NUM - 3
    BY <1>1, <1>3
  <2>2. IsFiniteSet(T) /\ Cardinality(T) = Cardinality((D \ {i}) \ {j}) - 1
    BY <1>5, <2>1, FS_RemoveElement
  <2>. QED BY <1>5, <2>1, <2>2
<1>. HIDE DEF T
<1>7. f \in Injection(0..len - 1, T)
  <2>1. f \in [0..len - 1 -> T]
    BY <1>3 DEF Queued
  <2>2. \A m, n \in 0..len - 1 : f[m] = f[n] => m = n
    BY DEF Apart
  <2>. HIDE DEF f
  <2>. QED BY <2>1, <2>2 DEF Injection, IsInjective
<1>. HIDE DEF f
<1>8. Cardinality(0..len - 1) <= Cardinality(T)
  BY <1>6, <1>7, FS_Injection
<1>9. Cardinality(0..len - 1) = len
  <2>1. Cardinality(0..len - 1) = IF 0 > len - 1 THEN 0 ELSE (len - 1) - 0 + 1
    BY FS_Interval
  <2>. QED BY <2>1
<1>. QED BY <1>6, <1>8, <1>9

-----------------------------------------------------------------------------
(* Free descriptors                                                        *)

\* Behind the smallest elements B of S there is a next one.
LEMMA NextSmallest ==
  ASSUME NEW S \in SUBSET Nat, IsFiniteSet(S), NEW B \in SUBSET S, Cardinality(B) < Cardinality(S),
         \A a \in B, s \in S \ B : a < s
  PROVE  \E i \in S \ B :
            /\ {j \in S : j <= i} = B \cup {i}
            /\ Cardinality({j \in S : j <= i}) = Cardinality(B) + 1
            /\ \A a \in B \cup {i}, s \in S \ (B \cup {i}) : a < s
<1>1. IsFiniteSet(B) /\ Cardinality(B) \in Nat /\ Cardinality(S) \in Nat
  BY FS_Subset, FS_CardinalityType
<1>2. S \ B # {}
  <2>. SUFFICES ASSUME S \ B = {} PROVE FALSE
    OBVIOUS
  <2>1. S = B
    OBVIOUS
  <2>. QED BY <1>1, <2>1
<1>3. PICK i \in S \ B : \A k \in S \ B : i <= k
  BY <1>2, LeastNatural
<1>4. {j \in S : j <= i} = B \cup {i}
  <2>1. \A j \in S : j <= i => j \in B \/ j = i
    BY <1>3
  <2>2. \A j \in B : j \in S /\ j <= i
    BY <1>3
  <2>3. i \in S /\ i <= i
    BY <1>3
  <2>. QED BY <2>1, <2>2, <2>3
<1>5. Cardinality(B \cup {i}) = Cardinality(B) + 1
  BY <1>1, <1>3, FS_AddElement
<1>6. \A a \in B \cup {i}, s \in S \ (B \cup {i}) : a < s
  BY <1>3
<1>. QED BY <1>3, <1>4, <1>5, <1>6

\* alloc3_desc() finds three different free descriptors if there are three.
LEMMA ThreeFree ==
  ASSUME V!VirtioAssumption, Cardinality(V!FreeSet) >= 3
  PROVE  /\ V!KthFree(1) \in V!FreeSet /\ V!KthFree(2) \in V!FreeSet /\ V!KthFree(3) \in V!FreeSet
         /\ V!KthFree(1) # V!KthFree(2) /\ V!KthFree(1) # V!KthFree(3) /\ V!KthFree(2) # V!KthFree(3)
<1>. DEFINE S == V!FreeSet
            Upto(i) == V!Cardinality({j \in S : j <= i})
<1>1. S \in SUBSET Nat /\ IsFiniteSet(S) /\ Cardinality(S) \in Nat /\ Cardinality(S) >= 3
  <2>1. S \subseteq 0..NUM - 1 /\ 0..NUM - 1 \subseteq Nat
    BY RingSizes DEF V!FreeSet
  <2>2. IsFiniteSet(0..NUM - 1)
    BY RingSizes, FS_Interval
  <2>3. IsFiniteSet(S)
    BY <2>1, <2>2, FS_Subset
  <2>. QED BY <2>1, <2>3, FS_CardinalityType
<1>2. /\ V!KthFree(1) = CHOOSE i \in S : Upto(i) = 1
      /\ V!KthFree(2) = CHOOSE i \in S : Upto(i) = 2
      /\ V!KthFree(3) = CHOOSE i \in S : Upto(i) = 3
  BY DEF V!KthFree
<1>. HIDE DEF S
<1>3. {} \in SUBSET S /\ Cardinality({}) = 0 /\ \A a \in {}, s \in S \ {} : a < s
  BY FS_EmptySet
<1>4. PICK i \in S \ {} : /\ Upto(i) = 0 + 1
                          /\ {j \in S : j <= i} = {} \cup {i}
                          /\ \A a \in {} \cup {i}, s \in S \ ({} \cup {i}) : a < s
  <2>1. Cardinality({}) < Cardinality(S)
    BY <1>1, <1>3
  <2>2. \E i \in S \ {} :
            /\ {j \in S : j <= i} = {} \cup {i}
            /\ Cardinality({j \in S : j <= i}) = Cardinality({}) + 1
            /\ \A a \in {} \cup {i}, s \in S \ ({} \cup {i}) : a < s
    BY <1>1, <1>3, <2>1, NextSmallest
  <2>. QED BY <1>3, <2>2, SameCount
<1>. DEFINE B == {} \cup {i}
<1>5. B \in SUBSET S /\ Cardinality(B) = 1 /\ Cardinality(B) < Cardinality(S)
  BY <1>1, <1>4, SameCount
<1>. HIDE DEF B
<1>6. PICK j \in S \ B : /\ Upto(j) = 1 + 1
                         /\ {n \in S : n <= j} = B \cup {j}
                         /\ \A a \in B \cup {j}, s \in S \ (B \cup {j}) : a < s
  <2>1. \A a \in B, s \in S \ B : a < s
    BY <1>4 DEF B
  <2>2. \E n \in S \ B :
            /\ {m \in S : m <= n} = B \cup {n}
            /\ Cardinality({m \in S : m <= n}) = Cardinality(B) + 1
            /\ \A a \in B \cup {n}, s \in S \ (B \cup {n}) : a < s
    BY <1>1, <1>5, <2>1, NextSmallest
  <2>. QED BY <1>5, <2>2, SameCount
<1>. DEFINE C == B \cup {j}
<1>7. C \in SUBSET S /\ Cardinality(C) = 2 /\ Cardinality(C) < Cardinality(S)
  BY <1>1, <1>5, <1>6, SameCount
<1>8. \A a \in C, s \in S \ C : a < s
  BY <1>6
<1>. HIDE DEF C
<1>9. PICK k \in S \ C : Upto(k) = 2 + 1
  BY <1>1, <1>7, <1>8, NextSmallest, SameCount
<1>10. /\ \E n \in S : Upto(n) = 1
       /\ \E n \in S : Upto(n) = 2
       /\ \E n \in S : Upto(n) = 3
  <2>. HIDE DEF Upto
  <2>1. 0 + 1 = 1 /\ 1 + 1 = 2 /\ 2 + 1 = 3
    OBVIOUS
  <2>. QED BY <1>4, <1>6, <1>9, <2>1
<1>. HIDE DEF Upto
<1>11. /\ V!KthFree(1) \in S /\ Upto(V!KthFree(1)) = 1
       /\ V!KthFree(2) \in S /\ Upto(V!KthFree(2)) = 2
       /\ V!KthFree(3) \in S /\ Upto(V!KthFree(3)) = 3
  BY <1>2, <1>10
<1>. QED BY <1>11 DEF S

\* Fewer descriptors are free than there were.
LEMMA FewerFree ==
  ASSUME V!VirtioAssumption, V!FreeSet' \subseteq V!FreeSet
  PROVE  Cardinality(V!FreeSet) < 3 => Cardinality(V!FreeSet') < 3
<1>1. V!FreeSet \subseteq 0..NUM - 1
  BY RingSizes DEF V!FreeSet
<1>2. IsFiniteSet(0..NUM - 1)
  BY RingSizes, FS_Interval
<1>. DEFINE S == V!FreeSet
            T == V!FreeSet'
<1>. HIDE DEF S, T
<1>3. IsFiniteSet(S) /\ T \in SUBSET S
  BY <1>1, <1>2, FS_Subset DEF S, T
<1>4. Cardinality(S) \in Nat /\ IsFiniteSet(T) /\ Cardinality(T) <= Cardinality(S)
  BY <1>3, FS_Subset, FS_CardinalityType
<1>5. Cardinality(T) \in Nat
  BY <1>4, FS_CardinalityType
<1>6. Cardinality(S) < 3 => Cardinality(T) < 3
  BY <1>4, <1>5
<1>. QED BY <1>6 DEF S, T

-----------------------------------------------------------------------------
(* The steps of the driver and of the device                               *)

LEMMA Lengths ==
  ASSUME V!VirtioAssumption, V!TypeOK
  PROVE  /\ aidx \in 0..IdxMod - 1 /\ devidx \in 0..IdxMod - 1
         /\ uidx \in 0..IdxMod - 1 /\ used_idx \in 0..IdxMod - 1
         /\ AvailLen \in Nat /\ UsedLen \in Nat
         /\ (aidx - devidx) % IdxMod \in 0..IdxMod - 1
         /\ ((aidx - devidx) % IdxMod = 0 <=> aidx = devidx)
         /\ (UsedLen = 0 <=> uidx = used_idx)
<1>1. /\ aidx \in 0..IdxMod - 1 /\ devidx \in 0..IdxMod - 1
      /\ uidx \in 0..IdxMod - 1 /\ used_idx \in 0..IdxMod - 1
  BY DEF V!TypeOK
<1>2. IdxMod \in Nat \ {0}
  BY RingSizes
<1>3. (aidx - devidx) % IdxMod = IF aidx >= devidx THEN aidx - devidx ELSE aidx - devidx + IdxMod
  BY <1>1, <1>2, RingDistance
<1>4. (uidx - used_idx) % IdxMod = IF uidx >= used_idx THEN uidx - used_idx ELSE uidx - used_idx + IdxMod
  BY <1>1, <1>2, RingDistance
<1>. DEFINE a == (aidx - devidx) % IdxMod
            u == (uidx - used_idx) % IdxMod
<1>5. /\ AvailLen = a + (IF \E p \in Tasks : vpc[p] = "publish" THEN 1 ELSE 0)
      /\ UsedLen = u
  BY DEF AvailLen, UsedLen
<1>6. /\ a = IF aidx >= devidx THEN aidx - devidx ELSE aidx - devidx + IdxMod
      /\ u = IF uidx >= used_idx THEN uidx - used_idx ELSE uidx - used_idx + IdxMod
  BY <1>3, <1>4
<1>. HIDE DEF a, u
<1>7. /\ a \in 0..IdxMod - 1 /\ u \in 0..IdxMod - 1
      /\ (a = 0 <=> aidx = devidx) /\ (u = 0 <=> uidx = used_idx)
  BY <1>1, <1>2, <1>6
<1>8. AvailLen \in Nat /\ UsedLen \in Nat
  BY <1>2, <1>5, <1>7
<1>. QED BY <1>1, <1>5, <1>7, <1>8 DEF a

\* What is in the rings does not change when nobody touches them.
LEMMA HeadsStay ==
  ASSUME UNCHANGED <<aring, aidx, uring, uidx, used_idx, devidx>>,
         (\E p \in Tasks : vpc'[p] = "publish") <=> (\E p \in Tasks : vpc[p] = "publish")
  PROVE  /\ AvailLen' = AvailLen /\ UsedLen' = UsedLen
         /\ AvailHeads' = AvailHeads /\ UsedHeads' = UsedHeads
         /\ Apart(aring, devidx, AvailLen)' = Apart(aring, devidx, AvailLen)
         /\ Apart(uring, used_idx, UsedLen)' = Apart(uring, used_idx, UsedLen)
<1>1. AvailLen' = AvailLen /\ UsedLen' = UsedLen
  BY DEF AvailLen, UsedLen
<1>. QED BY <1>1 DEF AvailHeads, UsedHeads, Queued, Apart

LEMMA DiskInit ==
  ASSUME V!VirtioAssumption
  PROVE  V!Init => DiskIInv
<1>. SUFFICES ASSUME V!Init PROVE DiskIInv
  OBVIOUS
<1>. USE RingSizes
<1>1. V!TypeOK
  <2>1. V!EmptyDesc \in [addr : V!Addrs, next : V!Descs, more : BOOLEAN, devwrite : BOOLEAN]
    BY DEF V!EmptyDesc, V!Addrs
  <2>2. [b |-> NoTask, ok |-> TRUE] \in [b : Tasks \cup {NoTask}, ok : BOOLEAN]
    OBVIOUS
  <2>3. aidx \in 0..IdxMod - 1 /\ uidx \in 0..IdxMod - 1 /\ used_idx \in 0..IdxMod - 1 /\ devidx \in 0..IdxMod - 1
    BY DEF V!Init
  <2>. QED BY <2>1, <2>2, <2>3 DEF V!Init, V!TypeOK, V!Dirs, V!PCs
<1>2. RequestInv /\ OwnerInv
  BY DEF V!Init, RequestInv, OwnerInv, Busy
<1>3. AvailLen = 0 /\ UsedLen = 0
  <2>1. (aidx - devidx) % IdxMod = 0
    BY <1>1, Lengths DEF V!Init
  <2>2. UsedLen = 0
    BY <1>1, Lengths DEF V!Init
  <2>. QED BY <2>1, <2>2 DEF V!Init, AvailLen
<1>4. AvailHeads = {} /\ UsedHeads = {} /\ Apart(aring, devidx, AvailLen) /\ Apart(uring, used_idx, UsedLen)
  BY <1>3 DEF AvailHeads, UsedHeads, Queued, Apart
<1>5. StageInv
  BY <1>3, <1>4 DEF StageInv, V!Init
<1>6. DoneInv
  BY <1>4 DEF DoneInv, V!Init
<1>7. LockInv /\ V!NothingMissed
  BY DEF LockInv, V!Init, V!NoPanic, V!NothingMissed, V!NoLostWakeup, V!NoLostInterrupt
<1>. QED BY <1>1, <1>2, <1>5, <1>6, <1>7 DEF DiskIInv

\* A process that publishes is alone.
LEMMA OnePublisher ==
  ASSUME DiskIInv
  PROVE  \A p, q \in Tasks : vpc[p] = "publish" => vlock = p /\ (vpc[q] = "publish" => q = p)
  BY DEF DiskIInv, RequestInv

LEMMA CallKeeps ==
  ASSUME V!VirtioAssumption, DiskIInv, NEW p \in Tasks, NEW d \in V!Dirs, V!Call(p, d)
  PROVE  DiskIInv'
<1>. USE DEF DiskIInv, V!Call, V!GoTo, V!descVars, V!ringVars, V!devVars
<1>1. vpc \in [Tasks -> V!PCs] /\ dir \in [Tasks -> V!Dirs] /\ ~ Busy(p) /\ ~ bdisk[p]
  BY DEF V!TypeOK, RequestInv
<1>2. V!TypeOK'
  BY <1>1 DEF V!TypeOK, V!PCs
<1>3. RequestInv'
  BY <1>1 DEF RequestInv, Busy, Formatted
<1>4. OwnerInv'
  BY DEF OwnerInv, Busy
<1>5. (\E q \in Tasks : vpc'[q] = "publish") <=> (\E q \in Tasks : vpc[q] = "publish")
  BY <1>1
<1>6. /\ AvailLen' = AvailLen /\ UsedLen' = UsedLen
      /\ AvailHeads' = AvailHeads /\ UsedHeads' = UsedHeads
      /\ Apart(aring, devidx, AvailLen)' = Apart(aring, devidx, AvailLen)
      /\ Apart(uring, used_idx, UsedLen)' = Apart(uring, used_idx, UsedLen)
  BY <1>5, HeadsStay
<1>7. StageInv'
  BY <1>6 DEF StageInv, Waits, Busy
<1>8. DoneInv'
  <2>1. \A h \in written \cup UsedHeads : info[h].b \in Tasks /\ info[h].b # p
    BY <1>1 DEF DoneInv, StageInv, Waits
  <2>. QED BY <1>1, <1>6, <2>1 DEF DoneInv
<1>9. LockInv'
  BY <1>1 DEF LockInv, V!NoPanic
<1>10. V!NothingMissed'
  BY <1>1 DEF V!NothingMissed, V!NoLostWakeup, V!NoLostInterrupt, V!FreeSet, V!Descs
<1>. QED BY <1>2, <1>3, <1>4, <1>7, <1>8, <1>9, <1>10

LEMMA AllocFailKeeps ==
  ASSUME V!VirtioAssumption, DiskIInv, NEW p \in Tasks, V!AllocFail(p)
  PROVE  DiskIInv'
<1>. USE DEF DiskIInv
<1>1. /\ vpc[p] = "alloc" /\ V!Cardinality(V!FreeSet) < 3 /\ ~ Busy(p) /\ vpc \in [Tasks -> V!PCs]
      /\ UNCHANGED <<free, ops, info, aring, aidx, uring, uidx, irq, devidx, inflight, written, served,
                     used_idx, bdisk, vlock, dir, idx, ipc>>
  BY DEF V!AllocFail, V!TypeOK, RequestInv, V!ringVars, V!devVars
<1>2. vpc' \in [Tasks -> V!PCs] /\ vpc'[p] = "asleep_free"
  BY <1>1 DEF V!AllocFail, V!GoTo, V!WakeFree, V!PCs
<1>3. \A q \in Tasks : q # p => vpc'[q] = vpc[q] \/ (vpc[q] = "asleep_free" /\ vpc'[q] = "alloc")
  BY <1>1 DEF V!AllocFail, V!GoTo, V!WakeFree
<1>4. desc' = [i \in V!Descs |-> IF free[i] THEN V!EmptyDesc ELSE desc[i]]
  BY DEF V!AllocFail
<1>5. V!TypeOK'
  <2>1. V!EmptyDesc \in [addr : V!Addrs, next : V!Descs, more : BOOLEAN, devwrite : BOOLEAN]
    BY RingSizes DEF V!EmptyDesc, V!Addrs
  <2>2. desc' \in [V!Descs -> [addr : V!Addrs, next : V!Descs, more : BOOLEAN, devwrite : BOOLEAN]]
    BY <1>4, <2>1 DEF V!TypeOK
  <2>. QED BY <1>1, <1>2, <2>2 DEF V!TypeOK
<1>6. ASSUME NEW q \in Tasks, Busy(q) PROVE Formatted(q)'
  <2>1. idx[q] \in [1..3 -> V!Descs]
    BY <1>6 DEF V!TypeOK, Busy
  <2>2. \A n \in 1..3 : idx[q][n] \in V!Descs /\ ~ free[idx[q][n]]
    BY <1>6, <2>1 DEF OwnerInv
  <2>3. /\ idx[q][1] \in V!Descs /\ ~ free[idx[q][1]]
        /\ idx[q][2] \in V!Descs /\ ~ free[idx[q][2]]
        /\ idx[q][3] \in V!Descs /\ ~ free[idx[q][3]]
    BY <2>2
  <2>4. Formatted(q)
    BY <1>6 DEF RequestInv
  <2>. QED BY <1>1, <1>4, <2>3, <2>4 DEF Formatted
<1>7. RequestInv'
  <2>1. \A q \in Tasks : Busy(q)' <=> Busy(q)
    BY <1>1 DEF Busy
  <2>. QED BY <1>1, <1>2, <1>3, <1>6, <2>1 DEF RequestInv
<1>8. OwnerInv'
  BY <1>1 DEF OwnerInv, Busy
<1>9. /\ AvailLen' = AvailLen /\ UsedLen' = UsedLen
      /\ AvailHeads' = AvailHeads /\ UsedHeads' = UsedHeads
      /\ Apart(aring, devidx, AvailLen)' = Apart(aring, devidx, AvailLen)
      /\ Apart(uring, used_idx, UsedLen)' = Apart(uring, used_idx, UsedLen)
  <2>1. (\E q \in Tasks : vpc'[q] = "publish") <=> (\E q \in Tasks : vpc[q] = "publish")
    BY <1>1, <1>2, <1>3
  <2>. QED BY <1>1, <2>1, HeadsStay
<1>10. StageInv' /\ DoneInv'
  BY <1>1, <1>9 DEF StageInv, DoneInv, Waits, Busy
<1>11. LockInv'
  BY <1>1, <1>2, <1>3 DEF LockInv, V!NoPanic
<1>12. V!NothingMissed'
  BY <1>1, <1>2, <1>3 DEF V!NothingMissed, V!NoLostWakeup, V!NoLostInterrupt, V!FreeSet, V!Descs
<1>. QED BY <1>5, <1>7, <1>8, <1>10, <1>11, <1>12

\* The head is in its place before and after the index moves.
LEMMA PublishKeeps ==
  ASSUME V!VirtioAssumption, DiskIInv, NEW p \in Tasks, V!Publish(p)
  PROVE  DiskIInv'
<1>. USE DEF DiskIInv
<1>1. /\ vpc[p] = "publish" /\ vpc \in [Tasks -> V!PCs] /\ vpc' = [vpc EXCEPT ![p] = "wait"]
      /\ Busy(p) /\ aidx' = (aidx + 1) % IdxMod
      /\ UNCHANGED <<desc, free, ops, info, aring, uring, uidx, irq, devidx, inflight, written, served,
                     used_idx, bdisk, vlock, dir, idx, ipc>>
  BY DEF V!Publish, V!TypeOK, RequestInv, V!descVars, V!devVars, V!GoTo, V!Succ
<1>2. aidx' \in 0..IdxMod - 1 /\ IdxMod \in Nat \ {0} /\ IdxMod >= NUM /\ NUM \in Nat \ {0} /\ aidx \in 0..IdxMod - 1
  <2>1. IdxMod \in Nat \ {0} /\ IdxMod >= NUM /\ NUM \in Nat \ {0} /\ aidx \in 0..IdxMod - 1
    BY RingSizes, Lengths
  <2>2. aidx + 1 \in Int
    BY <2>1
  <2>. QED BY <1>1, <2>1, <2>2, DivMod
<1>3. V!TypeOK'
  <2>1. vpc' \in [Tasks -> V!PCs]
    BY <1>1 DEF V!PCs
  <2>2. {aidx, uidx, used_idx, devidx}' \subseteq 0..IdxMod - 1
    BY <1>1, <1>2 DEF V!TypeOK
  <2>. QED BY <1>1, <2>1, <2>2 DEF V!TypeOK
<1>4. RequestInv'
  BY <1>1 DEF RequestInv, Busy, Formatted
<1>5. OwnerInv'
  BY <1>1 DEF OwnerInv, Busy
<1>6. AvailLen' = AvailLen /\ UsedLen' = UsedLen
  <2>. DEFINE a == (aidx - devidx) % IdxMod
              b == (((aidx + 1) % IdxMod) - devidx) % IdxMod
  <2>1. AvailLen = a + 1 /\ a \in 0..IdxMod - 1 /\ devidx \in 0..IdxMod - 1
    BY <1>1, Lengths DEF AvailLen
  <2>2. ~ \E q \in Tasks : vpc'[q] = "publish"
    BY <1>1, OnePublisher
  <2>3. AvailLen' = b + 0
    BY <1>1, <2>2 DEF AvailLen
  <2>4. a # IdxMod - 1 => b = a + 1
    BY <1>2, <2>1, RingMoves
  <2>. HIDE DEF a, b
  <2>5. a # IdxMod - 1
    BY <1>2, <2>1 DEF StageInv
  <2>6. UsedLen' = UsedLen
    BY <1>1 DEF UsedLen
  <2>. QED BY <1>2, <2>1, <2>3, <2>4, <2>5, <2>6
<1>7. /\ AvailHeads' = AvailHeads /\ UsedHeads' = UsedHeads
      /\ Apart(aring, devidx, AvailLen)' = Apart(aring, devidx, AvailLen)
      /\ Apart(uring, used_idx, UsedLen)' = Apart(uring, used_idx, UsedLen)
  BY <1>1, <1>6 DEF AvailHeads, UsedHeads, Queued, Apart
<1>8. StageInv' /\ DoneInv'
  BY <1>1, <1>6, <1>7 DEF StageInv, DoneInv, Waits, Busy
<1>9. LockInv'
  BY <1>1 DEF LockInv, V!NoPanic
<1>10. V!NothingMissed'
  BY <1>1 DEF V!NothingMissed, V!NoLostWakeup, V!NoLostInterrupt, V!FreeSet, V!Descs
<1>. QED BY <1>3, <1>4, <1>5, <1>8, <1>9, <1>10

LEMMA WaitKeeps ==
  ASSUME V!VirtioAssumption, DiskIInv, NEW p \in Tasks, V!Wait(p)
  PROVE  DiskIInv'
<1>. USE DEF DiskIInv
<1>1. /\ vpc[p] = "wait" /\ vlock \in {p, Nobody} /\ bdisk[p]
      /\ vpc \in [Tasks -> V!PCs] /\ vpc' = [vpc EXCEPT ![p] = "asleep_buf"]
      /\ Busy(p) /\ vlock' = Nobody
      /\ UNCHANGED <<desc, free, ops, info, aring, aidx, uring, uidx, irq, devidx, inflight, written, served,
                     used_idx, bdisk, dir, idx, ipc>>
  BY DEF V!Wait, V!TypeOK, RequestInv, V!descVars, V!devVars, V!ringVars, V!GoTo
<1>2. Nobody \notin Tasks /\ Nobody # Intr /\ Intr \notin Tasks
  BY RingSizes
<1>3. V!TypeOK'
  BY <1>1 DEF V!TypeOK, V!PCs
<1>4. \A q \in Tasks : vpc[q] # "publish" /\ vpc'[q] # "publish"
  BY <1>1, <1>2 DEF RequestInv
<1>5. RequestInv'
  BY <1>1, <1>4 DEF RequestInv, Busy, Formatted
<1>6. OwnerInv'
  BY <1>1 DEF OwnerInv, Busy
<1>7. /\ AvailLen' = AvailLen /\ UsedLen' = UsedLen
      /\ AvailHeads' = AvailHeads /\ UsedHeads' = UsedHeads
      /\ Apart(aring, devidx, AvailLen)' = Apart(aring, devidx, AvailLen)
      /\ Apart(uring, used_idx, UsedLen)' = Apart(uring, used_idx, UsedLen)
  BY <1>1, <1>4, HeadsStay
<1>8. StageInv' /\ DoneInv'
  BY <1>1, <1>7 DEF StageInv, DoneInv, Waits, Busy
<1>9. LockInv'
  BY <1>1, <1>2 DEF LockInv, V!NoPanic
<1>10. V!NothingMissed'
  BY <1>1 DEF V!NothingMissed, V!NoLostWakeup, V!NoLostInterrupt, V!FreeSet, V!Descs
<1>. QED BY <1>3, <1>5, <1>6, <1>8, <1>9, <1>10

\* The steps of virtio_disk_intr() that change no request
LEMMA IntrKeeps ==
  ASSUME V!VirtioAssumption, DiskIInv, V!IntrStart \/ V!IntrExit \/ V!IntrEnd
  PROVE  DiskIInv'
<1>. USE DEF DiskIInv
<1>1. UNCHANGED <<desc, free, ops, info, aring, aidx, uring, uidx, devidx, inflight, written, served,
                  used_idx, bdisk, dir, idx, vpc>>
  BY DEF V!IntrStart, V!IntrExit, V!IntrEnd, V!descVars, V!devVars, V!ringVars
<1>2. Nobody \notin Tasks /\ Nobody # Intr /\ Intr \notin Tasks
  BY RingSizes
<1>3. /\ vlock' \in {vlock, Intr, Nobody}
      /\ ipc' \in {"off", "loop", "exit"} /\ irq' \in BOOLEAN
      /\ (ipc' # "off" <=> vlock' = Intr)
      /\ V!NoLostInterrupt'
  BY <1>1, <1>2 DEF V!IntrStart, V!IntrExit, V!IntrEnd, V!devVars, V!TypeOK, LockInv, V!NoPanic,
     V!NothingMissed, V!NoLostInterrupt
<1>4. V!TypeOK'
  BY <1>1, <1>3 DEF V!TypeOK
<1>5. \A q \in Tasks : vlock' = q <=> vlock = q
  BY <1>2, <1>3 DEF V!IntrStart, V!IntrExit, V!IntrEnd, LockInv
<1>6. RequestInv'
  BY <1>1, <1>5 DEF RequestInv, Busy, Formatted
<1>7. OwnerInv'
  BY <1>1 DEF OwnerInv, Busy
<1>8. /\ AvailLen' = AvailLen /\ UsedLen' = UsedLen
      /\ AvailHeads' = AvailHeads /\ UsedHeads' = UsedHeads
      /\ Apart(aring, devidx, AvailLen)' = Apart(aring, devidx, AvailLen)
      /\ Apart(uring, used_idx, UsedLen)' = Apart(uring, used_idx, UsedLen)
  BY <1>1, HeadsStay
<1>9. StageInv' /\ DoneInv'
  BY <1>1, <1>8 DEF StageInv, DoneInv, Waits, Busy
<1>10. LockInv'
  BY <1>1, <1>3, <1>5 DEF LockInv, V!NoPanic
<1>11. V!NothingMissed'
  BY <1>1, <1>3 DEF V!NothingMissed, V!NoLostWakeup, V!FreeSet, V!Descs
<1>. QED BY <1>4, <1>6, <1>7, <1>9, <1>10, <1>11

\* What the chain of a waiting request looks like
LEMMA ChainFacts ==
  ASSUME V!VirtioAssumption, DiskIInv, NEW p \in Tasks, Busy(p)
  PROVE  /\ idx[p] \in [1..3 -> V!Descs]
         /\ idx[p][1] \in V!Descs /\ idx[p][2] \in V!Descs /\ idx[p][3] \in V!Descs
         /\ idx[p][1] # idx[p][2] /\ idx[p][1] # idx[p][3] /\ idx[p][2] # idx[p][3]
         /\ ~ free[idx[p][1]] /\ ~ free[idx[p][2]] /\ ~ free[idx[p][3]]
         /\ desc[idx[p][1]].more /\ desc[idx[p][1]].next = idx[p][2]
         /\ desc[idx[p][2]].more /\ desc[idx[p][2]].next = idx[p][3]
         /\ desc[idx[p][1]].addr.i = idx[p][1] /\ desc[idx[p][2]].addr.b = p
         /\ desc[idx[p][3]].addr.i = idx[p][1]
         /\ ops[idx[p][1]] = dir[p] /\ info[idx[p][1]].b = p
<1>1. idx[p] \in [1..3 -> V!Descs]
  BY DEF DiskIInv, V!TypeOK, Busy
<1>2. 1 \in 1..3 /\ 2 \in 1..3 /\ 3 \in 1..3
  OBVIOUS
<1>3. idx[p][1] # idx[p][2] /\ idx[p][1] # idx[p][3] /\ idx[p][2] # idx[p][3]
  BY <1>2 DEF DiskIInv, OwnerInv
<1>4. ~ free[idx[p][1]] /\ ~ free[idx[p][2]] /\ ~ free[idx[p][3]]
  BY <1>2 DEF DiskIInv, OwnerInv
<1>5. Formatted(p)
  BY DEF DiskIInv, RequestInv
<1>. QED BY <1>1, <1>3, <1>4, <1>5 DEF Formatted

LEMMA DevTransferKeeps ==
  ASSUME V!VirtioAssumption, DiskIInv, NEW h \in V!Descs, V!DevTransfer(h)
  PROVE  DiskIInv'
<1>1. /\ h \in inflight /\ written' = written \cup {h}
      /\ UNCHANGED <<desc, free, ops, aring, aidx, uring, uidx, irq, devidx, inflight, used_idx, bdisk,
                     vlock, vpc, dir, idx, ipc>>
  BY DEF V!DevTransfer, V!ringVars
<1>2. PICK p \in Tasks : p = info[h].b
  BY <1>1 DEF DiskIInv, StageInv, Waits
<1>3. Busy(p) /\ bdisk[p] /\ idx[p][1] = h
  BY <1>1, <1>2 DEF DiskIInv, StageInv, Waits
<1>4. served' = [served EXCEPT ![p] = dir[p]] /\ info' = [info EXCEPT ![h].ok = TRUE]
  <2>1. /\ desc[h].next = idx[p][2] /\ desc[idx[p][2]].next = idx[p][3]
        /\ desc[h].addr.i = h /\ desc[idx[p][2]].addr.b = p /\ desc[idx[p][3]].addr.i = h
        /\ ops[h] = dir[p]
    BY <1>3, ChainFacts
  <2>2. /\ served' = [served EXCEPT ![desc[desc[h].next].addr.b] = ops[desc[h].addr.i]]
        /\ info' = [info EXCEPT ![desc[desc[desc[h].next].next].addr.i].ok = TRUE]
    BY DEF V!DevTransfer
  <2>. QED BY <2>1, <2>2
<1>. USE DEF DiskIInv
<1>5. /\ info \in [V!Descs -> [b : Tasks \cup {NoTask}, ok : BOOLEAN]]
      /\ served \in [Tasks -> V!Dirs \cup {"no"}] /\ dir \in [Tasks -> V!Dirs]
  BY DEF V!TypeOK
<1>6. /\ info' \in [V!Descs -> [b : Tasks \cup {NoTask}, ok : BOOLEAN]]
      /\ served' \in [Tasks -> V!Dirs \cup {"no"}]
      /\ \A i \in V!Descs : info'[i].b = info[i].b /\ (info[i].ok => info'[i].ok)
      /\ info'[h].ok
      /\ served'[p] = dir[p] /\ \A q \in Tasks : q # p => served'[q] = served[q]
  BY <1>4, <1>5
<1>7. V!TypeOK'
  BY <1>1, <1>6 DEF V!TypeOK
<1>8. RequestInv'
  <2>1. ASSUME NEW q \in Tasks, Busy(q) PROVE Formatted(q)'
    <3>1. Formatted(q) /\ idx[q][1] \in V!Descs
      BY <2>1, ChainFacts DEF RequestInv
    <3>. QED BY <1>1, <1>6, <3>1 DEF Formatted
  <2>2. \A q \in Tasks : Busy(q)' <=> Busy(q)
    BY <1>1 DEF Busy
  <2>. QED BY <1>1, <1>6, <2>1, <2>2 DEF RequestInv
<1>9. OwnerInv'
  BY <1>1 DEF OwnerInv, Busy
<1>10. /\ AvailLen' = AvailLen /\ UsedLen' = UsedLen
       /\ AvailHeads' = AvailHeads /\ UsedHeads' = UsedHeads
       /\ Apart(aring, devidx, AvailLen)' = Apart(aring, devidx, AvailLen)
       /\ Apart(uring, used_idx, UsedLen)' = Apart(uring, used_idx, UsedLen)
  BY <1>1, HeadsStay
<1>11. \A g : Waits(g) => Waits(g)'
  BY <1>1, <1>6 DEF Waits, Busy
<1>12. StageInv'
  BY <1>1, <1>10, <1>11 DEF StageInv
<1>13. DoneInv'
  <2>1. \A g \in written \cup UsedHeads : g \in V!Descs /\ info[g].b \in Tasks
    BY DEF DoneInv, StageInv, Waits
  <2>. QED BY <1>1, <1>2, <1>6, <1>10, <2>1 DEF DoneInv
<1>14. LockInv' /\ V!NothingMissed'
  BY <1>1 DEF LockInv, V!NoPanic, V!NothingMissed, V!NoLostWakeup, V!NoLostInterrupt, V!FreeSet, V!Descs
<1>. QED BY <1>7, <1>8, <1>9, <1>12, <1>13, <1>14

\* The head moves from the avail ring into the device's hands.
LEMMA DevFetchKeeps ==
  ASSUME V!VirtioAssumption, DiskIInv, V!DevFetch
  PROVE  DiskIInv'
<1>. DEFINE x == aring[devidx % NUM]
<1>1. /\ devidx # aidx /\ inflight' = inflight \cup {x}
      /\ aring' = [aring EXCEPT ![devidx % NUM] = NUM] /\ devidx' = (devidx + 1) % IdxMod
      /\ UNCHANGED <<desc, free, ops, info, aidx, uring, uidx, irq, written, served, used_idx,
                     bdisk, vlock, vpc, dir, idx, ipc>>
  BY RingSizes DEF V!DevFetch, V!descVars, V!Succ
<1>. USE DEF DiskIInv
<1>2. /\ IdxMod \in Nat \ {0} /\ NUM \in Nat \ {0} /\ aidx \in 0..IdxMod - 1 /\ devidx \in 0..IdxMod - 1
      /\ (devidx + 1) % IdxMod \in 0..IdxMod - 1 /\ devidx % NUM \in V!Descs
      /\ AvailLen \in Nat /\ AvailLen <= NUM - 2
      /\ aring \in [V!Descs -> V!Descs \cup {NUM}]
  <2>1. IdxMod \in Nat \ {0} /\ NUM \in Nat \ {0} /\ V!Descs = 0..NUM - 1 /\ V!Stale = NUM
    BY RingSizes
  <2>2. devidx \in 0..IdxMod - 1 /\ aidx \in 0..IdxMod - 1 /\ AvailLen \in Nat
    BY Lengths
  <2>3. devidx + 1 \in Int /\ devidx \in Int
    BY <2>1, <2>2
  <2>4. (devidx + 1) % IdxMod \in 0..IdxMod - 1 /\ devidx % NUM \in V!Descs
    BY <2>1, <2>3, DivMod
  <2>. QED BY <2>1, <2>2, <2>4 DEF V!TypeOK, StageInv
<1>3. AvailLen' = AvailLen - 1 /\ AvailLen >= 1 /\ UsedLen' = UsedLen
  <2>. DEFINE a == (aidx - devidx) % IdxMod
              b == (aidx - ((devidx + 1) % IdxMod)) % IdxMod
              e == IF \E p \in Tasks : vpc[p] = "publish" THEN 1 ELSE 0
  <2>1. a \in 0..IdxMod - 1 /\ a # 0
    BY <1>1, Lengths
  <2>2. a # 0 => b = a - 1
    BY <1>2, RingMoves
  <2>3. AvailLen = a + e /\ AvailLen' = b + e /\ e \in {0, 1}
    BY <1>1 DEF AvailLen
  <2>4. UsedLen' = UsedLen
    BY <1>1 DEF UsedLen
  <2>. HIDE DEF a, b, e
  <2>. QED BY <1>2, <2>1, <2>2, <2>3, <2>4
<1>4. /\ x \in AvailHeads
      /\ Apart(aring', devidx', AvailLen')
      /\ AvailHeads' = AvailHeads \ {x}
  <2>1. AvailLen \in 1..NUM
    BY <1>2, <1>3
  <2>2. Apart(aring, devidx, AvailLen)
    BY DEF StageInv
  <2>3. /\ x \in Queued(aring, devidx, AvailLen)
        /\ Apart(aring', (devidx + 1) % IdxMod, AvailLen - 1)
        /\ Queued(aring', (devidx + 1) % IdxMod, AvailLen - 1) = Queued(aring, devidx, AvailLen) \ {x}
    <3>. DEFINE T == V!Descs \cup {NUM}
    <3>1. aring \in [V!Descs -> T] /\ devidx \in 0..IdxMod - 1
      BY <1>2
    <3>. HIDE DEF T
    <3>2. aring' = [aring EXCEPT ![devidx % NUM] = NUM]
      BY <1>1
    <3>3. x \in Queued(aring, devidx, AvailLen)
      BY <2>1, <2>2, <3>1, <3>2, QueueTake
    <3>4. Apart(aring', (devidx + 1) % IdxMod, AvailLen - 1)
      BY <2>1, <2>2, <3>1, <3>2, QueueTake
    <3>5. \A y : y \in Queued(aring', (devidx + 1) % IdxMod, AvailLen - 1)
                     <=> y \in Queued(aring, devidx, AvailLen) /\ y # x
      BY <2>1, <2>2, <3>1, <3>2, QueueTake
    <3>. QED BY <3>3, <3>4, <3>5
  <2>. QED BY <1>1, <1>3, <2>3 DEF AvailHeads
<1>5. UsedHeads' = UsedHeads /\ Apart(uring, used_idx, UsedLen)' = Apart(uring, used_idx, UsedLen)
  BY <1>1, <1>3 DEF UsedHeads, Queued, Apart
<1>6. x \in V!Descs /\ Waits(x) /\ x \notin UsedHeads
  BY <1>4 DEF StageInv, Waits
<1>. HIDE DEF x
<1>7. V!TypeOK'
  <2>1. aring' \in [V!Descs -> V!Descs \cup {V!Stale}]
    BY <1>1, <1>2, RingSizes
  <2>2. {aidx, uidx, used_idx, devidx}' \subseteq 0..IdxMod - 1
    BY <1>1, <1>2 DEF V!TypeOK
  <2>3. inflight' \in SUBSET V!Descs
    BY <1>1, <1>6 DEF V!TypeOK
  <2>. QED BY <1>1, <2>1, <2>2, <2>3 DEF V!TypeOK
<1>8. RequestInv' /\ OwnerInv'
  BY <1>1 DEF RequestInv, OwnerInv, Busy, Formatted
<1>9. \A g : Waits(g) => Waits(g)'
  BY <1>1 DEF Waits, Busy
<1>10. StageInv'
  <2>1. AvailLen' <= NUM - 2 /\ UsedLen' <= NUM - 2
    BY <1>2, <1>3 DEF StageInv
  <2>2. Apart(aring, devidx, AvailLen)' /\ Apart(uring, used_idx, UsedLen)'
    BY <1>4, <1>5 DEF StageInv, Apart
  <2>3. \A q \in Tasks : bdisk'[q] => idx'[q][1] \in AvailHeads' \cup inflight' \cup UsedHeads'
    BY <1>1, <1>4, <1>5 DEF StageInv
  <2>. QED BY <1>1, <1>4, <1>5, <1>6, <1>9, <2>1, <2>2, <2>3 DEF StageInv
<1>11. DoneInv'
  BY <1>1, <1>5 DEF DoneInv
<1>12. LockInv' /\ V!NothingMissed'
  BY <1>1 DEF LockInv, V!NoPanic, V!NothingMissed, V!NoLostWakeup, V!NoLostInterrupt, V!FreeSet, V!Descs
<1>. QED BY <1>7, <1>8, <1>10, <1>11, <1>12

\* A head that is in the used ring belongs to a request that waits: no other
\* descriptor of a request can be there.
LEMMA HeadsOnly ==
  ASSUME V!VirtioAssumption, DiskIInv, NEW p \in Tasks, Busy(p), NEW g, Waits(g), g # idx[p][1]
  PROVE  g \in V!Descs \ {idx[p][1], idx[p][2], idx[p][3]}
<1>1. PICK q \in Tasks : q = info[g].b
  BY DEF Waits
<1>2. Busy(q) /\ idx[q][1] = g /\ g \in V!Descs
  BY <1>1 DEF Waits
<1>3. 1 \in 1..3 /\ 2 \in 1..3 /\ 3 \in 1..3 /\ 1 # 2 /\ 1 # 3
  OBVIOUS
<1>4. idx[q][1] # idx[p][2] /\ idx[q][1] # idx[p][3]
  BY <1>2, <1>3 DEF DiskIInv, OwnerInv
<1>. QED BY <1>2, <1>4

\* The head moves from the device's hands into the used ring.
LEMMA DevUsedKeeps ==
  ASSUME V!VirtioAssumption, DiskIInv, NEW h \in V!Descs, V!DevUsed(h)
  PROVE  DiskIInv'
<1>1. /\ h \in written /\ uring' = [uring EXCEPT ![uidx % NUM] = h] /\ uidx' = (uidx + 1) % IdxMod
      /\ inflight' = inflight \ {h} /\ written' = written \ {h} /\ irq' = TRUE
      /\ UNCHANGED <<desc, free, ops, info, aring, aidx, devidx, served, used_idx, bdisk, vlock, vpc, dir,
                     idx, ipc>>
  BY DEF V!DevUsed, V!descVars, V!ringVars, V!Succ
<1>. USE DEF DiskIInv
<1>2. h \in inflight /\ Waits(h) /\ h \notin UsedHeads /\ h \notin AvailHeads
  BY <1>1 DEF DoneInv, StageInv
<1>3. PICK p \in Tasks : p = info[h].b
  BY <1>2 DEF Waits
<1>4. Busy(p) /\ idx[p][1] = h
  BY <1>2, <1>3 DEF Waits
<1>5. /\ IdxMod \in Nat \ {0} /\ NUM \in Nat \ {0} /\ IdxMod >= NUM
      /\ uidx \in 0..IdxMod - 1 /\ used_idx \in 0..IdxMod - 1
      /\ UsedLen \in Nat /\ uidx' \in 0..IdxMod - 1 /\ V!Descs = 0..NUM - 1 /\ V!Stale = NUM
  <2>1. IdxMod \in Nat \ {0} /\ NUM \in Nat \ {0} /\ IdxMod >= NUM /\ V!Descs = 0..NUM - 1 /\ V!Stale = NUM
    BY RingSizes
  <2>2. uidx \in 0..IdxMod - 1 /\ used_idx \in 0..IdxMod - 1 /\ UsedLen \in Nat
    BY Lengths
  <2>3. uidx + 1 \in Int
    BY <2>1, <2>2
  <2>. QED BY <1>1, <2>1, <2>2, <2>3, DivMod
<1>6. UsedLen <= NUM - 3
  <2>1. \A g \in UsedHeads : g \in V!Descs \ {idx[p][1], idx[p][2], idx[p][3]}
    BY <1>2, <1>4, HeadsOnly DEF StageInv
  <2>. DEFINE S == V!Descs \ {idx[p][1], idx[p][2], idx[p][3]}
  <2>2. Queued(uring, used_idx, UsedLen) \subseteq S /\ Apart(uring, used_idx, UsedLen) /\ used_idx \in Nat
    BY <1>5, <2>1 DEF StageInv, UsedHeads
  <2>3. /\ idx[p][1] \in V!Descs /\ idx[p][2] \in V!Descs /\ idx[p][3] \in V!Descs
        /\ idx[p][1] # idx[p][2] /\ idx[p][1] # idx[p][3] /\ idx[p][2] # idx[p][3]
    BY <1>4, ChainFacts
  <2>. QED BY <1>5, <2>2, <2>3, QueueBound
<1>7. UsedLen' = UsedLen + 1 /\ AvailLen' = AvailLen
  <2>. DEFINE a == (uidx - used_idx) % IdxMod
              b == (((uidx + 1) % IdxMod) - used_idx) % IdxMod
  <2>1. a # IdxMod - 1 => b = a + 1
    BY <1>5, RingMoves
  <2>2. UsedLen = a /\ UsedLen' = b
    BY <1>1 DEF UsedLen
  <2>3. AvailLen' = AvailLen
    BY <1>1 DEF AvailLen
  <2>. HIDE DEF a, b
  <2>. QED BY <1>5, <1>6, <2>1, <2>2, <2>3
<1>8. (used_idx + UsedLen) % NUM = uidx % NUM
  <2>1. UsedLen = IF uidx >= used_idx THEN uidx - used_idx ELSE uidx - used_idx + IdxMod
    BY <1>5, RingDistance DEF UsedLen
  <2>2. CASE uidx >= used_idx
    <3>1. used_idx + UsedLen = uidx
      BY <1>5, <2>1, <2>2
    <3>. QED BY <3>1
  <2>3. CASE ~ (uidx >= used_idx)
    <3>1. used_idx + UsedLen = uidx + IdxMod /\ uidx \in Int /\ IdxMod \in Int
      BY <1>5, <2>1, <2>3
    <3>2. (uidx + IdxMod) % NUM = uidx % NUM
      BY <1>5, <3>1, RingSizes, ModWhole
    <3>. QED BY <3>1, <3>2
  <2>. QED BY <2>2, <2>3
<1>9. uidx % NUM \in V!Descs
  <2>1. uidx \in Int
    BY <1>5
  <2>. QED BY <1>5, <2>1, DivMod
<1>10. Apart(uring', used_idx, UsedLen + 1) /\ \A y : y \in UsedHeads' <=> y \in UsedHeads \/ y = h
  <2>1. uring \in [V!Descs -> V!Descs \cup {NUM}] /\ used_idx \in Nat /\ UsedLen \in 0..NUM - 1
    BY <1>5, <1>6 DEF V!TypeOK
  <2>2. Apart(uring, used_idx, UsedLen) /\ h \notin Queued(uring, used_idx, UsedLen)
    BY <1>2 DEF StageInv, UsedHeads
  <2>3. uring' = [uring EXCEPT ![(used_idx + UsedLen) % NUM] = h]
    BY <1>1, <1>8
  <2>4. Grows(uring, uring', used_idx, UsedLen, h)
    BY <2>1, <2>2, <2>3, QueuePut
  <2>. QED BY <1>1, <1>7, <2>4 DEF UsedHeads, Grows
<1>11. AvailHeads' = AvailHeads /\ Apart(aring, devidx, AvailLen)' = Apart(aring, devidx, AvailLen)
  BY <1>1, <1>7 DEF AvailHeads, Queued, Apart
<1>12. V!TypeOK'
  <2>1. uring' \in [V!Descs -> V!Descs \cup {V!Stale}]
    BY <1>1, <1>9 DEF V!TypeOK
  <2>2. {aidx, uidx, used_idx, devidx}' \subseteq 0..IdxMod - 1
    BY <1>1, <1>5 DEF V!TypeOK
  <2>. QED BY <1>1, <2>1, <2>2 DEF V!TypeOK
<1>13. RequestInv' /\ OwnerInv'
  BY <1>1 DEF RequestInv, OwnerInv, Busy, Formatted
<1>14. \A g : Waits(g) => Waits(g)'
  BY <1>1 DEF Waits, Busy
<1>15. StageInv'
  <2>1. AvailLen' <= NUM - 2 /\ UsedLen' <= NUM - 2
    BY <1>5, <1>6, <1>7 DEF StageInv
  <2>2. Apart(aring, devidx, AvailLen)' /\ Apart(uring, used_idx, UsedLen)'
    BY <1>1, <1>7, <1>10, <1>11 DEF StageInv, Apart
  <2>3. \A q \in Tasks : bdisk'[q] => idx'[q][1] \in AvailHeads' \cup inflight' \cup UsedHeads'
    BY <1>1, <1>10, <1>11 DEF StageInv
  <2>. QED BY <1>1, <1>2, <1>10, <1>11, <1>14, <2>1, <2>2, <2>3 DEF StageInv
<1>16. DoneInv'
  BY <1>1, <1>10 DEF DoneInv
<1>17. LockInv' /\ V!NothingMissed'
  BY <1>1 DEF LockInv, V!NoPanic, V!NothingMissed, V!NoLostWakeup, V!NoLostInterrupt, V!FreeSet, V!Descs
<1>. QED BY <1>12, <1>13, <1>15, <1>16, <1>17

\* The head leaves the used ring; its process need not wait any longer.
LEMMA IntrLoopKeeps ==
  ASSUME V!VirtioAssumption, DiskIInv, V!IntrLoop
  PROVE  DiskIInv'
<1>. DEFINE x == uring[used_idx % NUM]
<1>. USE DEF DiskIInv
<1>1. /\ ipc = "loop" /\ used_idx # uidx
      /\ UNCHANGED <<desc, free, ops, info, aring, aidx, uidx, irq, devidx, inflight, written, served,
                     vlock, dir, idx>>
  BY DEF V!IntrLoop, V!descVars, V!ringVars
<1>2. /\ IdxMod \in Nat \ {0} /\ NUM \in Nat \ {0} /\ uidx \in 0..IdxMod - 1 /\ used_idx \in 0..IdxMod - 1
      /\ (used_idx + 1) % IdxMod \in 0..IdxMod - 1 /\ used_idx % NUM \in V!Descs
      /\ UsedLen \in Nat /\ UsedLen # 0 /\ UsedLen <= NUM - 2 /\ V!Stale = NUM
      /\ uring \in [V!Descs -> V!Descs \cup {NUM}]
  <2>1. IdxMod \in Nat \ {0} /\ NUM \in Nat \ {0} /\ V!Descs = 0..NUM - 1 /\ V!Stale = NUM
    BY RingSizes
  <2>2. used_idx \in 0..IdxMod - 1 /\ uidx \in 0..IdxMod - 1 /\ UsedLen \in Nat /\ UsedLen # 0
    BY <1>1, Lengths
  <2>3. used_idx + 1 \in Int /\ used_idx \in Int
    BY <2>1, <2>2
  <2>4. (used_idx + 1) % IdxMod \in 0..IdxMod - 1 /\ used_idx % NUM \in V!Descs
    BY <2>1, <2>3, DivMod
  <2>. QED BY <2>1, <2>2, <2>4 DEF V!TypeOK, StageInv
<1>3. UsedLen \in 1..NUM /\ Apart(uring, used_idx, UsedLen)
  BY <1>2 DEF StageInv
<1>4. x \in UsedHeads
  <2>1. used_idx + 0 = used_idx /\ 0 \in 0..UsedLen - 1
    BY <1>2, <1>3
  <2>. QED BY <2>1 DEF UsedHeads, Queued
<1>5. Waits(x) /\ info[x].ok /\ served[info[x].b] = dir[info[x].b] /\ x \notin AvailHeads /\ x \notin inflight
  BY <1>4 DEF StageInv, DoneInv
<1>6. PICK p \in Tasks : p = info[x].b
  BY <1>5 DEF Waits
<1>7. Busy(p) /\ bdisk[p] /\ idx[p][1] = x /\ x \in V!Descs /\ p # NoTask /\ served[p] = dir[p]
  BY <1>5, <1>6, RingSizes DEF Waits
<1>8. /\ bdisk' = [bdisk EXCEPT ![p] = FALSE]
      /\ vpc' = [vpc EXCEPT ![p] = IF @ = "asleep_buf" THEN "wait" ELSE @]
      /\ used_idx' = (used_idx + 1) % IdxMod
      /\ uring' = [uring EXCEPT ![used_idx % NUM] = NUM]
      /\ ipc' = ipc
  BY <1>2, <1>5, <1>6, <1>7 DEF V!IntrLoop, V!Succ
<1>9. bdisk \in [Tasks -> BOOLEAN] /\ vpc \in [Tasks -> V!PCs]
  BY DEF V!TypeOK
<1>10. vpc[p] # "publish" /\ vpc'[p] = "wait" /\ (\A q \in Tasks : q # p => vpc'[q] = vpc[q])
  <2>1. vlock = Intr /\ Intr \notin Tasks
    BY <1>1, RingSizes DEF LockInv
  <2>2. vpc[p] \in {"publish", "wait", "asleep_buf"} /\ vpc[p] # "publish"
    BY <1>7, <2>1 DEF RequestInv
  <2>. QED BY <1>8, <1>9, <2>2
<1>11. ~ bdisk'[p] /\ bdisk' \in [Tasks -> BOOLEAN] /\ \A q \in Tasks : q # p => bdisk'[q] = bdisk[q]
  BY <1>8, <1>9
<1>12. UsedLen' = UsedLen - 1 /\ AvailLen' = AvailLen
  <2>. DEFINE a == (uidx - used_idx) % IdxMod
              b == (uidx - ((used_idx + 1) % IdxMod)) % IdxMod
  <2>1. a # 0 => b = a - 1
    BY <1>2, RingMoves
  <2>2. UsedLen = a /\ UsedLen' = b
    BY <1>1, <1>8 DEF UsedLen
  <2>3. (\E q \in Tasks : vpc'[q] = "publish") <=> (\E q \in Tasks : vpc[q] = "publish")
    BY <1>10
  <2>4. AvailLen' = AvailLen
    BY <1>1, <2>3 DEF AvailLen
  <2>. HIDE DEF a, b
  <2>. QED BY <1>2, <2>1, <2>2, <2>4
<1>13. Apart(uring', used_idx', UsedLen - 1) /\ \A y : y \in UsedHeads' <=> y \in UsedHeads /\ y # x
  <2>. DEFINE T == V!Descs \cup {NUM}
  <2>1. uring \in [V!Descs -> T]
    BY <1>2
  <2>. HIDE DEF T
  <2>2. Apart(uring', (used_idx + 1) % IdxMod, UsedLen - 1)
    BY <1>2, <1>3, <1>8, <2>1, QueueTake
  <2>3. \A y : y \in Queued(uring', (used_idx + 1) % IdxMod, UsedLen - 1)
                  <=> y \in Queued(uring, used_idx, UsedLen) /\ y # x
    BY <1>2, <1>3, <1>8, <2>1, QueueTake
  <2>. QED BY <1>8, <1>12, <2>2, <2>3 DEF UsedHeads
<1>14. AvailHeads' = AvailHeads /\ Apart(aring, devidx, AvailLen)' = Apart(aring, devidx, AvailLen)
  BY <1>1, <1>12 DEF AvailHeads, Queued, Apart
<1>15. V!TypeOK'
  <2>1. uring' \in [V!Descs -> V!Descs \cup {V!Stale}]
    BY <1>2, <1>8
  <2>2. {aidx, uidx, used_idx, devidx}' \subseteq 0..IdxMod - 1
    BY <1>1, <1>2, <1>8 DEF V!TypeOK
  <2>3. vpc' \in [Tasks -> V!PCs]
    BY <1>8, <1>9 DEF V!PCs
  <2>. QED BY <1>1, <1>8, <1>11, <2>1, <2>2, <2>3 DEF V!TypeOK
<1>. HIDE DEF x
<1>16. RequestInv'
  <2>1. \A q \in Tasks : (Busy(q)' <=> Busy(q)) /\ (Formatted(q)' <=> Formatted(q))
    BY <1>1 DEF Busy, Formatted
  <2>. QED BY <1>1, <1>7, <1>10, <1>11, <2>1 DEF RequestInv
<1>17. OwnerInv'
  BY <1>1 DEF OwnerInv, Busy
<1>18. \A g : Waits(g) /\ g # x => Waits(g)'
  BY <1>1, <1>7, <1>11 DEF Waits, Busy
<1>19. StageInv'
  <2>1. AvailLen' <= NUM - 2 /\ UsedLen' <= NUM - 2
    BY <1>2, <1>12 DEF StageInv
  <2>2. Apart(aring, devidx, AvailLen)' /\ Apart(uring, used_idx, UsedLen)'
    BY <1>1, <1>12, <1>13, <1>14 DEF StageInv, Apart
  <2>3. ASSUME NEW q \in Tasks, bdisk'[q] PROVE idx'[q][1] \in AvailHeads' \cup inflight' \cup UsedHeads'
    <3>1. q # p /\ bdisk[q] /\ Busy(q)
      BY <1>11, <2>3 DEF RequestInv
    <3>2. idx[q][1] # x
      <4>1. 1 \in 1..3
        OBVIOUS
      <4>. QED BY <1>7, <3>1, <4>1 DEF OwnerInv
    <3>. QED BY <1>1, <1>13, <1>14, <3>1, <3>2 DEF StageInv
  <2>. QED BY <1>1, <1>5, <1>13, <1>14, <1>18, <2>1, <2>2, <2>3 DEF StageInv
<1>20. DoneInv'
  BY <1>1, <1>13 DEF DoneInv
<1>21. LockInv' /\ V!NothingMissed'
  <2>1. V!FreeSet' = V!FreeSet
    BY <1>1 DEF V!FreeSet
  <2>2. LockInv'
    BY <1>1, <1>8, <1>10 DEF LockInv, V!NoPanic
  <2>. QED BY <1>1, <1>8, <1>10, <1>11, <2>1, <2>2 DEF V!NothingMissed, V!NoLostWakeup, V!NoLostInterrupt
<1>. QED BY <1>15, <1>16, <1>17, <1>19, <1>20, <1>21

\* What Format() changes, with names for its three descriptors
LEMMA FormatIs ==
  ASSUME V!VirtioAssumption, DiskIInv, NEW p \in Tasks, V!Format(p)
  PROVE  \E i, j, k \in V!Descs :
            /\ free[i] /\ free[j] /\ free[k] /\ i # j /\ i # k /\ j # k
            /\ free' = [free EXCEPT ![i] = FALSE, ![j] = FALSE, ![k] = FALSE]
            /\ idx' = [idx EXCEPT ![p] = <<i, j, k>>]
            /\ ops' = [ops EXCEPT ![i] = dir[p]]
            /\ desc' = V!Chain(p, i, j, k)
            /\ info' = [info EXCEPT ![i] = [b |-> p, ok |-> FALSE]]
            /\ aring' = [aring EXCEPT ![aidx % NUM] = i]
<1>1. Cardinality(V!FreeSet) >= 3
  BY SameCount DEF V!Format
<1>2. /\ V!KthFree(1) \in V!FreeSet /\ V!KthFree(2) \in V!FreeSet /\ V!KthFree(3) \in V!FreeSet
      /\ V!KthFree(1) # V!KthFree(2) /\ V!KthFree(1) # V!KthFree(3) /\ V!KthFree(2) # V!KthFree(3)
  BY <1>1, ThreeFree
<1>3. /\ free' = [free EXCEPT ![V!KthFree(1)] = FALSE, ![V!KthFree(2)] = FALSE, ![V!KthFree(3)] = FALSE]
      /\ idx' = [idx EXCEPT ![p] = <<V!KthFree(1), V!KthFree(2), V!KthFree(3)>>]
      /\ ops' = [ops EXCEPT ![V!KthFree(1)] = dir[p]]
      /\ desc' = V!Chain(p, V!KthFree(1), V!KthFree(2), V!KthFree(3))
      /\ info' = [info EXCEPT ![V!KthFree(1)] = [b |-> p, ok |-> FALSE]]
      /\ aring' = [aring EXCEPT ![aidx % NUM] = V!KthFree(1)]
  BY DEF V!Format
<1>4. /\ V!KthFree(1) \in V!Descs /\ free[V!KthFree(1)]
      /\ V!KthFree(2) \in V!Descs /\ free[V!KthFree(2)]
      /\ V!KthFree(3) \in V!Descs /\ free[V!KthFree(3)]
  BY <1>2 DEF V!FreeSet
<1>. QED BY <1>2, <1>3, <1>4

\* The new chain in the descriptor table
LEMMA ChainIs ==
  ASSUME V!VirtioAssumption, V!TypeOK, NEW p \in Tasks,
         NEW i \in V!Descs, NEW j \in V!Descs, NEW k \in V!Descs, i # j, i # k, j # k
  PROVE  /\ V!Chain(p, i, j, k) \in [V!Descs -> [addr : V!Addrs, next : V!Descs, more : BOOLEAN, devwrite : BOOLEAN]]
         /\ V!Chain(p, i, j, k)[i] =
              [addr |-> [kind |-> "ops", i |-> i], next |-> j, more |-> TRUE, devwrite |-> FALSE]
         /\ V!Chain(p, i, j, k)[j] =
              [addr |-> [kind |-> "data", b |-> p], next |-> k, more |-> TRUE, devwrite |-> dir[p] = "read"]
         /\ V!Chain(p, i, j, k)[k] =
              [addr |-> [kind |-> "status", i |-> i], next |-> 0, more |-> FALSE, devwrite |-> TRUE]
         /\ \A n \in V!Descs : n \notin {i, j, k} => V!Chain(p, i, j, k)[n] = desc[n]
<1>. DEFINE R == [addr : V!Addrs, next : V!Descs, more : BOOLEAN, devwrite : BOOLEAN]
            x == [addr |-> [kind |-> "ops", i |-> i], next |-> j, more |-> TRUE, devwrite |-> FALSE]
            y == [addr |-> [kind |-> "data", b |-> p], next |-> k, more |-> TRUE, devwrite |-> dir[p] = "read"]
            z == [addr |-> [kind |-> "status", i |-> i], next |-> 0, more |-> FALSE, devwrite |-> TRUE]
<1>1. 0 \in V!Descs
  BY RingSizes
<1>2. /\ [kind |-> "ops", i |-> i] \in V!Addrs /\ [kind |-> "status", i |-> i] \in V!Addrs
      /\ [kind |-> "data", b |-> p] \in V!Addrs
  BY DEF V!Addrs
<1>3. x \in R /\ y \in R /\ z \in R
  BY <1>1, <1>2
<1>4. desc \in [V!Descs -> R]
  BY DEF V!TypeOK
<1>5. V!Chain(p, i, j, k) = [desc EXCEPT ![i] = x, ![j] = y, ![k] = z]
  BY DEF V!Chain
<1>. HIDE DEF R, x, y, z
<1>6. /\ V!Chain(p, i, j, k) \in [V!Descs -> R]
      /\ V!Chain(p, i, j, k)[i] = x /\ V!Chain(p, i, j, k)[j] = y /\ V!Chain(p, i, j, k)[k] = z
      /\ \A n \in V!Descs : n \notin {i, j, k} => V!Chain(p, i, j, k)[n] = desc[n]
  BY <1>3, <1>4, <1>5
<1>. QED BY <1>6 DEF R, x, y, z

LEMMA ChainElsewhere ==
  ASSUME V!TypeOK, NEW p, NEW i \in V!Descs, NEW j \in V!Descs, NEW k \in V!Descs,
         NEW n \in V!Descs, n \notin {i, j, k}
  PROVE  V!Chain(p, i, j, k)[n] = desc[n]
<1>. DEFINE x == [addr |-> [kind |-> "ops", i |-> i], next |-> j, more |-> TRUE, devwrite |-> FALSE]
            y == [addr |-> [kind |-> "data", b |-> p], next |-> k, more |-> TRUE, devwrite |-> dir[p] = "read"]
            z == [addr |-> [kind |-> "status", i |-> i], next |-> 0, more |-> FALSE, devwrite |-> TRUE]
            R == [addr : V!Addrs, next : V!Descs, more : BOOLEAN, devwrite : BOOLEAN]
<1>1. V!Chain(p, i, j, k) = [desc EXCEPT ![i] = x, ![j] = y, ![k] = z] /\ desc \in [V!Descs -> R]
  BY DEF V!Chain, V!TypeOK
<1>. HIDE DEF x, y, z, R
<1>. QED BY <1>1

LEMMA FormatKeeps ==
  ASSUME V!VirtioAssumption, DiskIInv, NEW p \in Tasks, V!Format(p)
  PROVE  DiskIInv'
<1>. USE DEF DiskIInv
<1>1. /\ vpc[p] = "alloc" /\ vlock = Nobody /\ bdisk' = [bdisk EXCEPT ![p] = TRUE] /\ vlock' = p
      /\ vpc' = [vpc EXCEPT ![p] = "publish"]
      /\ UNCHANGED <<aidx, uring, uidx, irq, devidx, inflight, written, served, used_idx, dir, ipc>>
  BY DEF V!Format, V!GoTo, V!devVars
<1>2. PICK i, j, k \in V!Descs :
            /\ free[i] /\ free[j] /\ free[k] /\ i # j /\ i # k /\ j # k
            /\ free' = [free EXCEPT ![i] = FALSE, ![j] = FALSE, ![k] = FALSE]
            /\ idx' = [idx EXCEPT ![p] = <<i, j, k>>]
            /\ ops' = [ops EXCEPT ![i] = dir[p]]
            /\ desc' = V!Chain(p, i, j, k)
            /\ info' = [info EXCEPT ![i] = [b |-> p, ok |-> FALSE]]
            /\ aring' = [aring EXCEPT ![aidx % NUM] = i]
  BY FormatIs
<1>3. /\ NUM \in Nat \ {0} /\ IdxMod \in Nat \ {0} /\ V!Descs = 0..NUM - 1 /\ V!Stale = NUM
      /\ Nobody \notin Tasks /\ Intr \notin Tasks /\ Nobody # Intr
  BY RingSizes
<1>4. /\ free \in [V!Descs -> BOOLEAN] /\ ops \in [V!Descs -> V!Dirs] /\ dir \in [Tasks -> V!Dirs]
      /\ info \in [V!Descs -> [b : Tasks \cup {NoTask}, ok : BOOLEAN]]
      /\ aring \in [V!Descs -> V!Descs \cup {NUM}] /\ bdisk \in [Tasks -> BOOLEAN]
      /\ vpc \in [Tasks -> V!PCs] /\ idx \in [Tasks -> [1..3 -> V!Descs] \cup {<<>>}]
      /\ aidx \in 0..IdxMod - 1 /\ devidx \in 0..IdxMod - 1
  BY <1>3 DEF V!TypeOK
<1>5. /\ idx'[p] = <<i, j, k>> /\ idx'[p][1] = i /\ idx'[p][2] = j /\ idx'[p][3] = k
      /\ <<i, j, k>> \in [1..3 -> V!Descs] /\ Busy(p)' /\ ~ Busy(p)
      /\ \A q \in Tasks : q # p => idx'[q] = idx[q] /\ (Busy(q)' <=> Busy(q))
  <2>1. idx'[p] = <<i, j, k>> /\ \A q \in Tasks : q # p => idx'[q] = idx[q]
    BY <1>2, <1>4
  <2>2. <<i, j, k>> \in [1..3 -> V!Descs] /\ <<i, j, k>> # <<>>
    OBVIOUS
  <2>3. ~ Busy(p)
    BY <1>1 DEF RequestInv
  <2>. QED BY <2>1, <2>2, <2>3 DEF Busy
<1>6. /\ \A n \in V!Descs : n \notin {i, j, k} => desc'[n] = desc[n] /\ free'[n] = free[n]
      /\ ~ free'[i] /\ ~ free'[j] /\ ~ free'[k] /\ free' \in [V!Descs -> BOOLEAN]
      /\ \A n \in V!Descs : n # i => ops'[n] = ops[n] /\ info'[n] = info[n]
      /\ ops'[i] = dir[p] /\ info'[i] = [b |-> p, ok |-> FALSE] /\ info'[i].b = p
  <2>1. \A n \in V!Descs : n \notin {i, j, k} => desc'[n] = desc[n]
    <3>1. V!TypeOK /\ i # j /\ i # k /\ j # k /\ desc' = V!Chain(p, i, j, k)
      BY <1>2
    <3>. QED BY <3>1, ChainElsewhere
  <2>2. /\ \A n \in V!Descs : n \notin {i, j, k} => free'[n] = free[n]
        /\ ~ free'[i] /\ ~ free'[j] /\ ~ free'[k] /\ free' \in [V!Descs -> BOOLEAN]
    BY <1>2, <1>4
  <2>3. /\ \A n \in V!Descs : n # i => ops'[n] = ops[n] /\ info'[n] = info[n]
        /\ ops'[i] = dir[p] /\ info'[i] = [b |-> p, ok |-> FALSE]
    BY <1>2, <1>4
  <2>. QED BY <2>1, <2>2, <2>3
<1>7. /\ bdisk'[p] /\ vpc'[p] = "publish" /\ bdisk' \in [Tasks -> BOOLEAN] /\ vpc' \in [Tasks -> V!PCs]
      /\ \A q \in Tasks : q # p => bdisk'[q] = bdisk[q] /\ vpc'[q] = vpc[q]
  BY <1>1, <1>4 DEF V!PCs
<1>8. ASSUME NEW q \in Tasks, Busy(q), q # p
      PROVE  \A n \in 1..3 : idx[q][n] \in V!Descs /\ idx[q][n] \notin {i, j, k}
  <2>1. idx[q] \in [1..3 -> V!Descs]
    BY <1>4, <1>8 DEF Busy
  <2>. QED BY <1>2, <1>8, <2>1 DEF OwnerInv
<1>9. \A g : Waits(g) => g \in V!Descs /\ g \notin {i, j, k} /\ Waits(g)'
  <2>. SUFFICES ASSUME NEW g, Waits(g) PROVE g \in V!Descs /\ g \notin {i, j, k} /\ Waits(g)'
    OBVIOUS
  <2>1. PICK q \in Tasks : q = info[g].b
    BY DEF Waits
  <2>2. Busy(q) /\ bdisk[q] /\ idx[q][1] = g /\ g \in V!Descs /\ q # p
    BY <1>5, <2>1 DEF Waits
  <2>3. 1 \in 1..3
    OBVIOUS
  <2>4. g \notin {i, j, k}
    BY <1>8, <2>2, <2>3
  <2>5. info'[g] = info[g]
    BY <1>6, <2>2, <2>4
  <2>. QED BY <1>5, <1>7, <2>1, <2>2, <2>4, <2>5 DEF Waits
<1>10. ~ (\E q \in Tasks : vpc[q] = "publish") /\ (\E q \in Tasks : vpc'[q] = "publish")
  BY <1>1, <1>3, <1>7 DEF RequestInv
<1>11. AvailLen' = AvailLen + 1 /\ UsedLen' = UsedLen /\ AvailLen = (aidx - devidx) % IdxMod /\ AvailLen \in Nat
  <2>. DEFINE a == (aidx - devidx) % IdxMod
  <2>1. AvailLen = a + 0 /\ AvailLen' = a + 1 /\ UsedLen' = UsedLen
    BY <1>1, <1>10 DEF AvailLen, UsedLen
  <2>2. a \in Nat
    BY <1>3, Lengths
  <2>. HIDE DEF a
  <2>3. AvailLen = a /\ AvailLen' = AvailLen + 1 /\ AvailLen \in Nat
    BY <2>1, <2>2
  <2>. QED BY <2>1, <2>3 DEF a
<1>12. AvailLen <= NUM - 3
  <2>1. \A g \in AvailHeads : g \in V!Descs \ {i, j, k}
    BY <1>9 DEF StageInv
  <2>. DEFINE S == V!Descs \ {i, j, k}
  <2>2. Queued(aring, devidx, AvailLen) \subseteq S /\ Apart(aring, devidx, AvailLen) /\ devidx \in Nat
    BY <1>3, <1>4, <2>1 DEF StageInv, AvailHeads
  <2>. QED BY <1>2, <1>11, <2>2, QueueBound
<1>13. (devidx + AvailLen) % NUM = aidx % NUM /\ aidx % NUM \in V!Descs
  <2>1. AvailLen = IF aidx >= devidx THEN aidx - devidx ELSE aidx - devidx + IdxMod
    BY <1>3, <1>4, <1>11, RingDistance
  <2>2. CASE aidx >= devidx
    <3>1. devidx + AvailLen = aidx
      BY <1>3, <1>4, <2>1, <2>2
    <3>. QED BY <1>3, <1>4, <3>1, DivMod
  <2>3. CASE ~ (aidx >= devidx)
    <3>1. devidx + AvailLen = aidx + IdxMod /\ aidx \in Int /\ IdxMod \in Int
      BY <1>3, <1>4, <2>1, <2>3
    <3>2. (aidx + IdxMod) % NUM = aidx % NUM
      BY <1>3, <3>1, RingSizes, ModWhole
    <3>. QED BY <1>3, <3>1, <3>2, DivMod
  <2>. QED BY <2>2, <2>3
<1>14. /\ Apart(aring', devidx, AvailLen + 1) /\ i \notin AvailHeads
       /\ \A y : y \in AvailHeads' <=> y \in AvailHeads \/ y = i
  <2>1. aring \in [V!Descs -> V!Descs \cup {NUM}] /\ devidx \in Nat /\ AvailLen \in 0..NUM - 1
    BY <1>3, <1>4, <1>11, <1>12
  <2>2. Apart(aring, devidx, AvailLen) /\ i \notin Queued(aring, devidx, AvailLen)
    BY <1>9 DEF StageInv, AvailHeads
  <2>3. aring' = [aring EXCEPT ![(devidx + AvailLen) % NUM] = i]
    BY <1>2, <1>13
  <2>4. Grows(aring, aring', devidx, AvailLen, i)
    BY <2>1, <2>2, <2>3, QueuePut
  <2>. QED BY <1>1, <1>11, <2>2, <2>4 DEF AvailHeads, Grows
<1>15. UsedHeads' = UsedHeads /\ Apart(uring, used_idx, UsedLen)' = Apart(uring, used_idx, UsedLen)
  BY <1>1, <1>11 DEF UsedHeads, Queued, Apart
<1>16. V!TypeOK'
  <2>1. desc' \in [V!Descs -> [addr : V!Addrs, next : V!Descs, more : BOOLEAN, devwrite : BOOLEAN]]
    BY <1>2, ChainIs
  <2>2. ops' \in [V!Descs -> V!Dirs] /\ aring' \in [V!Descs -> V!Descs \cup {V!Stale}]
    BY <1>2, <1>3, <1>4, <1>13
  <2>3. info' \in [V!Descs -> [b : Tasks \cup {NoTask}, ok : BOOLEAN]]
    BY <1>2, <1>4
  <2>4. idx' \in [Tasks -> [1..3 -> V!Descs] \cup {<<>>}]
    BY <1>2, <1>4, <1>5
  <2>. QED BY <1>1, <1>6, <1>7, <2>1, <2>2, <2>3, <2>4 DEF V!TypeOK
<1>17. RequestInv'
  <2>1. Formatted(p)'
    BY <1>1, <1>2, <1>5, <1>6, ChainIs DEF Formatted
  <2>2. ASSUME NEW q \in Tasks, Busy(q), q # p PROVE Formatted(q)'
    <3>1. 1 \in 1..3 /\ 2 \in 1..3 /\ 3 \in 1..3
      OBVIOUS
    <3>2. /\ idx[q][1] \in V!Descs /\ idx[q][1] \notin {i, j, k}
          /\ idx[q][2] \in V!Descs /\ idx[q][2] \notin {i, j, k}
          /\ idx[q][3] \in V!Descs /\ idx[q][3] \notin {i, j, k}
      BY <1>8, <2>2, <3>1
    <3>3. /\ desc'[idx[q][1]] = desc[idx[q][1]] /\ desc'[idx[q][2]] = desc[idx[q][2]]
          /\ desc'[idx[q][3]] = desc[idx[q][3]]
          /\ ops'[idx[q][1]] = ops[idx[q][1]] /\ info'[idx[q][1]] = info[idx[q][1]]
          /\ idx'[q] = idx[q] /\ dir' = dir
      BY <1>1, <1>5, <1>6, <2>2, <3>2
    <3>4. Formatted(q)
      BY <2>2 DEF RequestInv
    <3>. QED BY <3>3, <3>4 DEF Formatted
  <2>3. ASSUME NEW q \in Tasks, q # p
        PROVE  /\ (Busy(q)' <=> vpc'[q] \in {"publish", "wait", "asleep_buf"})
               /\ (bdisk'[q] => Busy(q)')
               /\ (vpc'[q] \in {"publish", "asleep_buf"} => bdisk'[q])
               /\ vpc'[q] # "publish"
               /\ (Busy(q)' /\ ~ bdisk'[q] => served'[q] = dir'[q])
    BY <1>1, <1>5, <1>7, <1>10, <2>3 DEF RequestInv
  <2>. QED BY <1>1, <1>5, <1>7, <2>1, <2>2, <2>3 DEF RequestInv
<1>18. OwnerInv'
  <2>1. ASSUME NEW q \in Tasks, NEW r \in Tasks, NEW m \in 1..3, NEW n \in 1..3,
               Busy(q)', Busy(r)', idx'[q][m] = idx'[r][n]
        PROVE  q = r /\ m = n
    <3>1. CASE q = p /\ r = p
      BY <1>2, <1>5, <2>1, <3>1
    <3>2. CASE q = p /\ r # p
      <4>1. idx'[p][m] \in {i, j, k} /\ idx'[r][n] \notin {i, j, k}
        BY <1>5, <1>8, <2>1, <3>2
      <4>. QED BY <2>1, <3>2, <4>1
    <3>3. CASE q # p /\ r = p
      <4>1. idx'[p][n] \in {i, j, k} /\ idx'[q][m] \notin {i, j, k}
        BY <1>5, <1>8, <2>1, <3>3
      <4>. QED BY <2>1, <3>3, <4>1
    <3>4. CASE q # p /\ r # p
      BY <1>5, <2>1, <3>4 DEF OwnerInv
    <3>. QED BY <3>1, <3>2, <3>3, <3>4
  <2>2. ASSUME NEW q \in Tasks, NEW n \in 1..3, Busy(q)' PROVE ~ free'[idx'[q][n]]
    <3>1. CASE q = p
      <4>1. idx'[p][n] \in {i, j, k}
        BY <1>5
      <4>. QED BY <1>6, <3>1, <4>1
    <3>2. CASE q # p
      BY <1>5, <1>6, <1>8, <2>2, <3>2 DEF OwnerInv
    <3>. QED BY <3>1, <3>2
  <2>3. ASSUME NEW n \in V!Descs PROVE free'[n] \/ \E q \in Tasks : \E m \in 1..3 : Busy(q)' /\ idx'[q][m] = n
    <3>1. CASE n \in {i, j, k}
      <4>1. 1 \in 1..3 /\ 2 \in 1..3 /\ 3 \in 1..3
        OBVIOUS
      <4>. QED BY <1>5, <3>1, <4>1
    <3>2. CASE n \notin {i, j, k} /\ free[n]
      BY <1>6, <3>2
    <3>3. CASE n \notin {i, j, k} /\ ~ free[n]
      <4>1. PICK q \in Tasks, m \in 1..3 : Busy(q) /\ idx[q][m] = n
        BY <3>3 DEF OwnerInv
      <4>. QED BY <1>5, <4>1
    <3>. QED BY <3>1, <3>2, <3>3
  <2>. QED BY <2>1, <2>2, <2>3 DEF OwnerInv
<1>19. StageInv'
  <2>1. AvailLen' <= NUM - 2 /\ UsedLen' <= NUM - 2
    BY <1>3, <1>11, <1>12 DEF StageInv
  <2>2. Apart(aring, devidx, AvailLen)' /\ Apart(uring, used_idx, UsedLen)'
    BY <1>1, <1>11, <1>14, <1>15 DEF StageInv, Apart
  <2>3. Waits(i)' /\ i \notin inflight /\ i \notin UsedHeads
    <3>1. Waits(i)'
      BY <1>5, <1>6, <1>7 DEF Waits
    <3>2. ~ Waits(i)
      BY <1>9
    <3>. QED BY <3>1, <3>2 DEF StageInv
  <2>4. \A q \in Tasks : bdisk'[q] => idx'[q][1] \in AvailHeads' \cup inflight' \cup UsedHeads'
    BY <1>1, <1>5, <1>7, <1>14, <1>15 DEF StageInv
  <2>. QED BY <1>1, <1>9, <1>14, <1>15, <2>1, <2>2, <2>3, <2>4 DEF StageInv
<1>20. DoneInv'
  <2>1. \A g \in written \cup UsedHeads : info'[g] = info[g]
    BY <1>6, <1>9 DEF DoneInv, StageInv
  <2>. QED BY <1>1, <1>15, <2>1 DEF DoneInv
<1>21. LockInv'
  BY <1>1, <1>3, <1>7 DEF LockInv, V!NoPanic
<1>22. V!NothingMissed'
  <2>1. V!FreeSet' \subseteq V!FreeSet
    BY <1>2, <1>6 DEF V!FreeSet
  <2>2. V!Cardinality(V!FreeSet) < 3 => V!Cardinality(V!FreeSet') < 3
    BY <2>1, FewerFree, SameCount
  <2>. QED BY <1>1, <1>7, <2>2 DEF V!NothingMissed, V!NoLostWakeup, V!NoLostInterrupt
<1>. QED BY <1>16, <1>17, <1>18, <1>19, <1>20, <1>21, <1>22

LEMMA FinishKeeps ==
  ASSUME V!VirtioAssumption, DiskIInv, NEW p \in Tasks, V!Finish(p)
  PROVE  DiskIInv'
<1>. USE DEF DiskIInv
<1>1. /\ vpc[p] = "wait" /\ vlock \in {p, Nobody} /\ ~ bdisk[p] /\ vlock' = Nobody
      /\ info' = [info EXCEPT ![idx[p][1]] = [b |-> NoTask, ok |-> TRUE]]
      /\ ops' = [ops EXCEPT ![idx[p][1]] = "read"] /\ dir' = [dir EXCEPT ![p] = "read"]
      /\ served' = [served EXCEPT ![p] = "no"] /\ idx' = [idx EXCEPT ![p] = <<>>]
      /\ UNCHANGED <<aring, aidx, uring, uidx, irq, devidx, inflight, written, used_idx, bdisk, ipc>>
  BY DEF V!Finish, V!ringVars
<1>2. Busy(p)
  BY <1>1 DEF RequestInv
<1>3. PICK i, j, k \in V!Descs : i = idx[p][1] /\ j = idx[p][2] /\ k = idx[p][3]
  BY <1>2, ChainFacts
<1>4. /\ i # j /\ i # k /\ j # k /\ ~ free[i] /\ ~ free[j] /\ ~ free[k]
      /\ V!ChainOf(idx[p][1]) = {i, j, k}
  <2>1. desc[i].more /\ desc[i].next = j /\ desc[j].more /\ desc[j].next = k
    BY <1>2, <1>3, ChainFacts
  <2>2. V!ChainOf(i) = {i, j, k}
    BY <2>1 DEF V!ChainOf
  <2>. QED BY <1>2, <1>3, <2>2, ChainFacts
<1>5. V!FreeChain(idx[p][1]) /\ V!WakeFree(p, "idle")
  BY <1>4 DEF V!Finish
<1>6. /\ desc' = [n \in V!Descs |-> IF n \in {i, j, k} THEN V!EmptyDesc ELSE desc[n]]
      /\ free' = [n \in V!Descs |-> n \in {i, j, k} \/ free[n]]
  BY <1>4, <1>5 DEF V!FreeChain
<1>7. /\ Nobody \notin Tasks /\ Intr \notin Tasks /\ Nobody # Intr
      /\ ops \in [V!Descs -> V!Dirs] /\ dir \in [Tasks -> V!Dirs]
      /\ info \in [V!Descs -> [b : Tasks \cup {NoTask}, ok : BOOLEAN]]
      /\ served \in [Tasks -> V!Dirs \cup {"no"}]
      /\ vpc \in [Tasks -> V!PCs] /\ idx \in [Tasks -> [1..3 -> V!Descs] \cup {<<>>}]
      /\ desc \in [V!Descs -> [addr : V!Addrs, next : V!Descs, more : BOOLEAN, devwrite : BOOLEAN]]
      /\ free \in [V!Descs -> BOOLEAN]
  BY RingSizes DEF V!TypeOK
<1>8. /\ vpc'[p] = "idle" /\ vpc' \in [Tasks -> V!PCs]
      /\ \A q \in Tasks : /\ vpc'[q] # "asleep_free"
                          /\ q # p => vpc'[q] = vpc[q] \/ (vpc[q] = "asleep_free" /\ vpc'[q] = "alloc")
  BY <1>5, <1>7 DEF V!WakeFree, V!PCs
<1>9. /\ ~ Busy(p)' /\ idx' \in [Tasks -> [1..3 -> V!Descs] \cup {<<>>}]
      /\ \A q \in Tasks : q # p => /\ idx'[q] = idx[q] /\ (Busy(q)' <=> Busy(q))
                                   /\ dir'[q] = dir[q] /\ served'[q] = served[q]
  BY <1>1, <1>7 DEF Busy
<1>10. /\ \A n \in V!Descs : n \notin {i, j, k} => desc'[n] = desc[n] /\ (free'[n] <=> free[n])
       /\ free'[i] /\ free'[j] /\ free'[k]
       /\ \A n \in V!Descs : n # i => ops'[n] = ops[n] /\ info'[n] = info[n]
  <2>1. \A n \in V!Descs : n \notin {i, j, k} => desc'[n] = desc[n] /\ (free'[n] <=> free[n])
    BY <1>6
  <2>2. free'[i] /\ free'[j] /\ free'[k]
    BY <1>6
  <2>3. \A n \in V!Descs : n # i => ops'[n] = ops[n] /\ info'[n] = info[n]
    BY <1>1, <1>3, <1>7
  <2>. QED BY <2>1, <2>2, <2>3
<1>11. ASSUME NEW q \in Tasks, Busy(q), q # p
       PROVE  \A n \in 1..3 : idx[q][n] \in V!Descs /\ idx[q][n] \notin {i, j, k}
  <2>1. idx[q] \in [1..3 -> V!Descs]
    BY <1>7, <1>11 DEF Busy
  <2>2. 1 \in 1..3 /\ 2 \in 1..3 /\ 3 \in 1..3
    OBVIOUS
  <2>. QED BY <1>2, <1>3, <1>11, <2>1, <2>2 DEF OwnerInv
<1>12. \A g : Waits(g) => Waits(g)' /\ g \in V!Descs /\ g # i /\ info[g].b \in Tasks /\ info[g].b # p
  <2>. SUFFICES ASSUME NEW g, Waits(g)
                PROVE  Waits(g)' /\ g \in V!Descs /\ g # i /\ info[g].b \in Tasks /\ info[g].b # p
    OBVIOUS
  <2>1. PICK q \in Tasks : q = info[g].b
    BY DEF Waits
  <2>2. Busy(q) /\ bdisk[q] /\ idx[q][1] = g /\ g \in V!Descs /\ q # p
    BY <1>1, <2>1 DEF Waits
  <2>3. 1 \in 1..3
    OBVIOUS
  <2>4. g \notin {i, j, k}
    BY <1>11, <2>2, <2>3
  <2>5. info'[g] = info[g]
    BY <1>10, <2>2, <2>4
  <2>. QED BY <1>1, <1>9, <2>1, <2>2, <2>4, <2>5 DEF Waits
<1>13. \A q \in Tasks : vpc[q] # "publish" /\ vpc'[q] # "publish"
  <2>1. \A q \in Tasks : vpc[q] # "publish"
    BY <1>1, <1>7 DEF RequestInv
  <2>. QED BY <1>8, <2>1
<1>14. /\ AvailLen' = AvailLen /\ UsedLen' = UsedLen
       /\ AvailHeads' = AvailHeads /\ UsedHeads' = UsedHeads
       /\ Apart(aring, devidx, AvailLen)' = Apart(aring, devidx, AvailLen)
       /\ Apart(uring, used_idx, UsedLen)' = Apart(uring, used_idx, UsedLen)
  BY <1>1, <1>13, HeadsStay
<1>15. V!TypeOK'
  <2>1. V!EmptyDesc \in [addr : V!Addrs, next : V!Descs, more : BOOLEAN, devwrite : BOOLEAN]
    BY RingSizes DEF V!EmptyDesc, V!Addrs
  <2>2. desc' \in [V!Descs -> [addr : V!Addrs, next : V!Descs, more : BOOLEAN, devwrite : BOOLEAN]]
    BY <1>6, <1>7, <2>1
  <2>3. free' \in [V!Descs -> BOOLEAN]
    BY <1>6, <1>7
  <2>4. info' \in [V!Descs -> [b : Tasks \cup {NoTask}, ok : BOOLEAN]]
    BY <1>1, <1>3, <1>7
  <2>5. ops' \in [V!Descs -> V!Dirs] /\ dir' \in [Tasks -> V!Dirs] /\ served' \in [Tasks -> V!Dirs \cup {"no"}]
    BY <1>1, <1>3, <1>7 DEF V!Dirs
  <2>. QED BY <1>1, <1>8, <1>9, <2>2, <2>3, <2>4, <2>5 DEF V!TypeOK
<1>16. RequestInv'
  <2>1. ASSUME NEW q \in Tasks, Busy(q), q # p PROVE Formatted(q)'
    <3>1. 1 \in 1..3 /\ 2 \in 1..3 /\ 3 \in 1..3
      OBVIOUS
    <3>2. /\ idx[q][1] \in V!Descs /\ idx[q][1] \notin {i, j, k}
          /\ idx[q][2] \in V!Descs /\ idx[q][2] \notin {i, j, k}
          /\ idx[q][3] \in V!Descs /\ idx[q][3] \notin {i, j, k}
      BY <1>11, <2>1, <3>1
    <3>3. /\ desc'[idx[q][1]] = desc[idx[q][1]] /\ desc'[idx[q][2]] = desc[idx[q][2]]
          /\ desc'[idx[q][3]] = desc[idx[q][3]]
          /\ ops'[idx[q][1]] = ops[idx[q][1]] /\ info'[idx[q][1]] = info[idx[q][1]]
          /\ idx'[q] = idx[q] /\ dir'[q] = dir[q]
      BY <1>9, <1>10, <2>1, <3>2
    <3>4. Formatted(q)
      BY <2>1 DEF RequestInv
    <3>. QED BY <3>3, <3>4 DEF Formatted
  <2>2. ASSUME NEW q \in Tasks, q # p
        PROVE  /\ (Busy(q)' <=> vpc'[q] \in {"publish", "wait", "asleep_buf"})
               /\ (bdisk'[q] => Busy(q)')
               /\ (vpc'[q] \in {"publish", "asleep_buf"} => bdisk'[q])
               /\ (Busy(q)' /\ ~ bdisk'[q] => served'[q] = dir'[q])
    BY <1>1, <1>8, <1>9, <2>2 DEF RequestInv
  <2>. QED BY <1>1, <1>8, <1>9, <1>13, <2>1, <2>2 DEF RequestInv
<1>17. OwnerInv'
  <2>1. ASSUME NEW q \in Tasks, NEW r \in Tasks, NEW m \in 1..3, NEW n \in 1..3,
               Busy(q)', Busy(r)', idx'[q][m] = idx'[r][n]
        PROVE  q = r /\ m = n
    BY <1>9, <2>1 DEF OwnerInv
  <2>2. ASSUME NEW q \in Tasks, NEW n \in 1..3, Busy(q)' PROVE ~ free'[idx'[q][n]]
    BY <1>9, <1>10, <1>11, <2>2 DEF OwnerInv
  <2>3. ASSUME NEW n \in V!Descs PROVE free'[n] \/ \E q \in Tasks : \E m \in 1..3 : Busy(q)' /\ idx'[q][m] = n
    <3>1. CASE n \in {i, j, k}
      BY <1>10, <3>1
    <3>2. CASE n \notin {i, j, k} /\ free[n]
      BY <1>10, <3>2
    <3>3. CASE n \notin {i, j, k} /\ ~ free[n]
      <4>1. PICK q \in Tasks, m \in 1..3 : Busy(q) /\ idx[q][m] = n
        BY <3>3 DEF OwnerInv
      <4>2. q # p
        BY <1>3, <3>3, <4>1
      <4>. QED BY <1>9, <4>1, <4>2
    <3>. QED BY <3>1, <3>2, <3>3
  <2>. QED BY <2>1, <2>2, <2>3 DEF OwnerInv
<1>18. StageInv'
  <2>1. \A q \in Tasks : bdisk'[q] => idx'[q][1] \in AvailHeads' \cup inflight' \cup UsedHeads'
    BY <1>1, <1>9, <1>14 DEF StageInv
  <2>. QED BY <1>1, <1>12, <1>14, <2>1 DEF StageInv
<1>19. DoneInv'
  <2>1. \A g \in written \cup UsedHeads : Waits(g)
    BY DEF DoneInv, StageInv
  <2>2. \A g \in written \cup UsedHeads :
           info'[g] = info[g] /\ served'[info[g].b] = served[info[g].b] /\ dir'[info[g].b] = dir[info[g].b]
    BY <1>9, <1>10, <1>12, <2>1
  <2>. QED BY <1>1, <1>14, <2>2 DEF DoneInv
<1>20. LockInv' /\ V!NothingMissed'
  <2>1. LockInv'
    BY <1>1, <1>7, <1>8 DEF LockInv, V!NoPanic
  <2>2. \A q \in Tasks : vpc'[q] = "asleep_buf" => bdisk'[q]
    BY <1>1, <1>8 DEF V!NothingMissed, V!NoLostWakeup
  <2>. QED BY <1>1, <1>8, <2>1, <2>2 DEF V!NothingMissed, V!NoLostWakeup, V!NoLostInterrupt
<1>. QED BY <1>15, <1>16, <1>17, <1>18, <1>19, <1>20

LEMMA DiskNext ==
  ASSUME V!VirtioAssumption
  PROVE  DiskIInv /\ [V!Next]_V!vars => DiskIInv'
<1>. SUFFICES ASSUME DiskIInv, [V!Next]_V!vars PROVE DiskIInv'
  OBVIOUS
<1>1. CASE V!Next
  <2>1. ASSUME NEW p \in Tasks, V!RwStep(p) PROVE DiskIInv'
    BY <2>1, AllocFailKeeps, FormatKeeps, PublishKeeps, WaitKeeps, FinishKeeps DEF V!RwStep
  <2>2. ASSUME NEW p \in Tasks, NEW d \in V!Dirs, V!Call(p, d) PROVE DiskIInv'
    BY <2>2, CallKeeps
  <2>3. CASE V!IntrStep
    BY <2>3, IntrKeeps, IntrLoopKeeps DEF V!IntrStep
  <2>4. CASE V!DevStep
    BY <2>4, DevFetchKeeps, DevTransferKeeps, DevUsedKeeps DEF V!DevStep
  <2>. QED BY <1>1, <2>1, <2>2, <2>3, <2>4 DEF V!Next
<1>2. CASE UNCHANGED V!vars
  <2>1. UNCHANGED <<desc, free, ops, info, aring, aidx, uring, uidx, irq, devidx, inflight, written, served,
                    used_idx, bdisk, vlock, vpc, dir, idx, ipc>>
    BY <1>2 DEF V!vars, V!descVars, V!ringVars, V!devVars
  <2>2. /\ AvailLen' = AvailLen /\ UsedLen' = UsedLen
        /\ AvailHeads' = AvailHeads /\ UsedHeads' = UsedHeads
        /\ Apart(aring, devidx, AvailLen)' = Apart(aring, devidx, AvailLen)
        /\ Apart(uring, used_idx, UsedLen)' = Apart(uring, used_idx, UsedLen)
    BY <2>1, HeadsStay
  <2>3. V!TypeOK'
    BY <2>1 DEF DiskIInv, V!TypeOK
  <2>4. RequestInv' /\ OwnerInv' /\ LockInv'
    BY <2>1 DEF DiskIInv, RequestInv, OwnerInv, LockInv, V!NoPanic, Busy, Formatted
  <2>5. StageInv' /\ DoneInv'
    BY <2>1, <2>2 DEF DiskIInv, StageInv, DoneInv, Waits, Busy
  <2>6. V!NothingMissed'
    BY <2>1 DEF DiskIInv, V!NothingMissed, V!NoLostWakeup, V!NoLostInterrupt, V!FreeSet, V!Descs
  <2>. QED BY <2>3, <2>4, <2>5, <2>6 DEF DiskIInv
<1>. QED BY <1>1, <1>2

-----------------------------------------------------------------------------
(* What follows                                                            *)

LEMMA IntactChains ==
  ASSUME V!VirtioAssumption, DiskIInv, NEW h, Waits(h)
  PROVE  V!ChainIntact(h)
<1>1. PICK p \in Tasks : p = info[h].b
  BY DEF Waits
<1>2. bdisk[p] /\ Busy(p) /\ idx[p][1] = h /\ h \in V!Descs
  BY <1>1 DEF Waits
<1>3. Formatted(p)
  BY <1>2 DEF DiskIInv, RequestInv
<1>4. PICK i, j, k \in V!Descs : i = idx[p][1] /\ j = idx[p][2] /\ k = idx[p][3]
  BY <1>2, ChainFacts
<1>5. /\ V!Chain(p, i, j, k) \in [V!Descs -> [addr : V!Addrs, next : V!Descs, more : BOOLEAN, devwrite : BOOLEAN]]
      /\ V!Chain(p, i, j, k)[i] = desc[i] /\ V!Chain(p, i, j, k)[j] = desc[j]
      /\ V!Chain(p, i, j, k)[k] = desc[k]
      /\ \A n \in V!Descs : n \notin {i, j, k} => V!Chain(p, i, j, k)[n] = desc[n]
  <2>1. i # j /\ i # k /\ j # k /\ V!TypeOK
    BY <1>2, <1>4, ChainFacts DEF DiskIInv
  <2>2. /\ desc[i] = [addr |-> [kind |-> "ops", i |-> i], next |-> j, more |-> TRUE, devwrite |-> FALSE]
        /\ desc[j] = [addr |-> [kind |-> "data", b |-> p], next |-> k, more |-> TRUE,
                      devwrite |-> dir[p] = "read"]
        /\ desc[k] = [addr |-> [kind |-> "status", i |-> i], next |-> 0, more |-> FALSE, devwrite |-> TRUE]
    BY <1>3, <1>4 DEF Formatted
  <2>. QED BY <2>1, <2>2, ChainIs
<1>6. desc \in [V!Descs -> [addr : V!Addrs, next : V!Descs, more : BOOLEAN, devwrite : BOOLEAN]]
  BY DEF DiskIInv, V!TypeOK
<1>7. desc = V!Chain(p, i, j, k)
  <2>. DEFINE c == V!Chain(p, i, j, k)
              R == [addr : V!Addrs, next : V!Descs, more : BOOLEAN, devwrite : BOOLEAN]
  <2>1. c \in [V!Descs -> R] /\ desc \in [V!Descs -> R] /\ \A n \in V!Descs : c[n] = desc[n]
    BY <1>5, <1>6
  <2>. HIDE DEF c, R
  <2>2. c = desc
    BY <2>1
  <2>. QED BY <2>2 DEF c
<1>8. idx[p] # <<>> /\ ops[h] = dir[p]
  BY <1>2, ChainFacts DEF Busy
<1>. QED BY <1>1, <1>2, <1>4, <1>7, <1>8 DEF V!ChainIntact

LEMMA OwnedOnce ==
  ASSUME V!VirtioAssumption, DiskIInv
  PROVE  V!DescOwnedOnce
<1>. SUFFICES ASSUME NEW i \in V!Descs
              PROVE  V!Cardinality({p \in Tasks : i \in V!Owned(p)}) = IF free[i] THEN 0 ELSE 1
  BY DEF V!DescOwnedOnce
<1>1. \A p \in Tasks : i \in V!Owned(p) <=> Busy(p) /\ \E n \in 1..3 : idx[p][n] = i
  BY DEF V!Owned, Busy
<1>2. CASE free[i]
  <2>1. {p \in Tasks : i \in V!Owned(p)} = {}
    BY <1>1, <1>2 DEF DiskIInv, OwnerInv
  <2>. QED BY <1>2, <2>1, FS_EmptySet, SameCount
<1>3. CASE ~ free[i]
  <2>1. PICK q \in Tasks : Busy(q) /\ \E n \in 1..3 : idx[q][n] = i
    BY <1>3 DEF DiskIInv, OwnerInv
  <2>2. {p \in Tasks : i \in V!Owned(p)} = {q}
    BY <1>1, <2>1 DEF DiskIInv, OwnerInv
  <2>. QED BY <1>3, <2>2, FS_Singleton, SameCount
<1>. QED BY <1>2, <1>3

\* Slots between two indices are places of the ring.
LEMMA SlotsAre ==
  ASSUME V!VirtioAssumption, NEW lo \in 0..IdxMod - 1, NEW hi \in 0..IdxMod - 1, NEW r, NEW len \in Nat,
         (hi - lo) % IdxMod <= len, NEW i \in V!Between(lo, hi)
  PROVE  r[i % NUM] \in Queued(r, lo, len)
<1>1. IdxMod \in Nat \ {0} /\ NUM \in Nat \ {0}
  BY RingSizes
<1>2. (hi - lo) % IdxMod \in 0..IdxMod - 1
  <2>1. hi - lo \in Int
    BY <1>1
  <2>. QED BY <1>1, <2>1, DivMod
<1>3. PICK n \in 0..((hi - lo) % IdxMod) - 1 : i = (lo + n) % IdxMod
  BY DEF V!Between
<1>4. n \in 0..IdxMod /\ n \in 0..len - 1 /\ n + 0 = n /\ 0 \in Nat
  BY <1>1, <1>2, <1>3
<1>5. (((lo + n) % IdxMod) + 0) % NUM = (lo + (n + 0)) % NUM
  BY <1>4, PlaceWraps
<1>6. ((lo + n) % IdxMod) + 0 = (lo + n) % IdxMod
  <2>1. lo + n \in Int
    BY <1>1, <1>3
  <2>2. (lo + n) % IdxMod \in 0..IdxMod - 1
    BY <1>1, <2>1, DivMod
  <2>. QED BY <1>1, <2>2
<1>7. i % NUM = (lo + n) % NUM
  BY <1>3, <1>4, <1>5, <1>6
<1>. QED BY <1>4, <1>7 DEF Queued

LEMMA DiskGood ==
  ASSUME V!VirtioAssumption
  PROVE  DiskIInv => V!DiskInv /\ V!NothingMissed
<1>. SUFFICES ASSUME DiskIInv PROVE V!DiskInv /\ V!NothingMissed
  OBVIOUS
<1>1. V!TypeOK /\ V!NothingMissed /\ V!NoPanic
  BY DEF DiskIInv, LockInv
<1>2. V!DescOwnedOnce
  BY OwnedOnce
<1>3. V!Served
  BY DEF V!Served, DiskIInv, RequestInv
<1>4. /\ aidx \in 0..IdxMod - 1 /\ devidx \in 0..IdxMod - 1
      /\ uidx \in 0..IdxMod - 1 /\ used_idx \in 0..IdxMod - 1
      /\ AvailLen \in Nat /\ UsedLen \in Nat
      /\ (aidx - devidx) % IdxMod <= AvailLen /\ (uidx - used_idx) % IdxMod <= UsedLen
  <2>. DEFINE a == (aidx - devidx) % IdxMod
  <2>1. /\ aidx \in 0..IdxMod - 1 /\ devidx \in 0..IdxMod - 1
        /\ uidx \in 0..IdxMod - 1 /\ used_idx \in 0..IdxMod - 1
        /\ AvailLen \in Nat /\ UsedLen \in Nat /\ a \in 0..IdxMod - 1
    BY <1>1, Lengths
  <2>2. AvailLen = a + (IF \E p \in Tasks : vpc[p] = "publish" THEN 1 ELSE 0)
    BY DEF AvailLen
  <2>. HIDE DEF a
  <2>3. a <= AvailLen
    BY <2>1, <2>2
  <2>4. (uidx - used_idx) % IdxMod = UsedLen
    BY DEF UsedLen
  <2>. QED BY <2>1, <2>3, <2>4 DEF a
<1>5. ASSUME NEW i \in V!Between(devidx, aidx) PROVE V!ChainIntact(aring[i % NUM])
  <2>1. aring[i % NUM] \in AvailHeads
    BY <1>4, SlotsAre DEF AvailHeads
  <2>. QED BY <2>1, IntactChains DEF DiskIInv, StageInv
<1>6. ASSUME NEW i \in V!Between(used_idx, uidx) PROVE V!ChainIntact(uring[i % NUM])
  <2>1. uring[i % NUM] \in UsedHeads
    BY <1>4, SlotsAre DEF UsedHeads
  <2>. QED BY <2>1, IntactChains DEF DiskIInv, StageInv
<1>7. ASSUME NEW h \in inflight PROVE V!ChainIntact(h)
  BY IntactChains DEF DiskIInv, StageInv
<1>8. V!DeviceSeesChains
  BY <1>5, <1>6, <1>7 DEF V!DeviceSeesChains
<1>. QED BY <1>1, <1>2, <1>3, <1>8 DEF V!DiskInv

\* The inductive invariant: every request of virtio_disk_rw() that waits for
\* the device is in exactly one place, the avail ring, the device's hands or the
\* used ring, and its three descriptors are its own until it frees them.
THEOREM DiskInductive ==
  ASSUME V!VirtioAssumption
  PROVE  V!Spec => []DiskIInv
  BY DiskInit, DiskNext, PTL DEF V!Spec

\* DiskInv of virtio_disk.c, for any number of processes, descriptors and ring
\* indices: alloc3_desc() and free_chain() give each descriptor one owner, what
\* the device can reach is intact, virtio_disk_rw() returns only when the device
\* has done what was asked, and neither free_desc() nor virtio_disk_intr() panics.
THEOREM DiskSafe ==
  ASSUME V!VirtioAssumption
  PROVE  V!Spec => []DiskInv
  BY DiskInductive, DiskGood, PTL DEF DiskInv

\* NothingMissed of virtio_disk.c: nobody sleeps for descriptors or for a buffer
\* that is there already, and no completed request stays in the used ring without
\* an interrupt to come, however the handler's steps meet the device's.
THEOREM DiskNothingMissed ==
  ASSUME V!VirtioAssumption
  PROVE  V!Spec => []NothingMissed
  BY DiskInductive, DiskGood, PTL DEF NothingMissed

\* No request is lost: while a buffer belongs to the disk (b->disk), the head of
\* its chain is in the avail ring, with the device or in the used ring.
THEOREM DiskNoRequestLost ==
  ASSUME V!VirtioAssumption
  PROVE  V!Spec => [](\A p \in Tasks : bdisk[p] => idx[p][1] \in AvailHeads \cup inflight \cup UsedHeads)
<1>1. DiskIInv => \A p \in Tasks : bdisk[p] => idx[p][1] \in AvailHeads \cup inflight \cup UsedHeads
  BY DEF DiskIInv, StageInv
<1>. QED BY <1>1, DiskInductive, PTL
=============================================================================
