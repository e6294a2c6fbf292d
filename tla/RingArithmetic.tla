---------------------------- MODULE RingArithmetic ----------------------------
(***************************************************************************)
(* Facts about % that the proofs about ring buffers need.  The SMT solver  *)
(* knows x = m * (x \div m) + (x % m) and the range of x % m, but not that *)
(* this determines both.                                                   *)
(***************************************************************************)
EXTENDS Integers, TLAPS

LEMMA DivMod ==
  \A x \in Int, m \in Nat \ {0} :
     x \div m \in Int /\ x = m * (x \div m) + (x % m) /\ x % m \in 0..m - 1
  OBVIOUS

LEMMA Times ==
  \A m \in Nat \ {0}, d \in Int :
     m * d \in Int /\ (d >= 1 => m * d >= m) /\ (d <= -1 => m * d <= -m)
  OBVIOUS

LEMMA Distributes ==
  \A m, a, b \in Int : m * (a - b) = m * a - m * b /\ m * (a + b) = m * a + m * b
  OBVIOUS

\* One turn more or less does not change the place in the ring.
LEMMA ModOnce ==
  ASSUME NEW m \in Nat \ {0}
  PROVE  /\ \A x \in 0..m - 1 : x % m = x
         /\ \A x \in m..2 * m - 1 : x % m = x - m
         /\ \A x \in -m..-1 : x % m = x + m
  OBVIOUS

\* Quotient and remainder are unique.
LEMMA ModUnique ==
  ASSUME NEW m \in Nat \ {0}, NEW q \in Int, NEW r \in 0..m - 1, NEW n \in Int, n = m * q + r
  PROVE  n % m = r
<1>. DEFINE s == n \div m
<1>1. s \in Int /\ n = m * s + (n % m) /\ n % m \in 0..m - 1
  BY DivMod
<1>2. m * (q - s) = m * q - m * s /\ m * q \in Int /\ m * s \in Int
  BY <1>1, Distributes
<1>3. m * (q - s) = (n % m) - r
  BY <1>1, <1>2
<1>4. q - s = 0
  BY <1>1, <1>3, Times
<1>. QED BY <1>1, <1>4

\* Two places less than a turn apart are different.
LEMMA ModDiffers ==
  ASSUME NEW m \in Nat \ {0}, NEW x \in Int, NEW y \in Int, y - x \in 1..m - 1
  PROVE  x % m # y % m
<1>. SUFFICES ASSUME x % m = y % m PROVE FALSE
  OBVIOUS
<1>1. /\ x \div m \in Int /\ x = m * (x \div m) + (x % m)
      /\ y \div m \in Int /\ y = m * (y \div m) + (y % m) /\ y % m \in 0..m - 1
  BY DivMod
<1>2. /\ m * ((y \div m) - (x \div m)) = m * (y \div m) - m * (x \div m)
      /\ m * (y \div m) \in Int /\ m * (x \div m) \in Int
  BY <1>1, Distributes
<1>3. m * ((y \div m) - (x \div m)) = y - x
  BY <1>1, <1>2
<1>4. \A d \in Int : m * d # y - x
  BY Times
<1>5. (y \div m) - (x \div m) \in Int
  BY <1>1
<1>. QED BY <1>3, <1>4, <1>5

\* Any number of whole turns does not change the place in the ring: a counter
\* that wraps at c indexes a ring whose size divides c.
LEMMA ModWhole ==
  ASSUME NEW m \in Nat \ {0}, NEW x \in Int, NEW c \in Int, c % m = 0
  PROVE  (x + c) % m = x % m
<1>1. /\ x \div m \in Int /\ x = m * (x \div m) + (x % m) /\ x % m \in 0..m - 1
      /\ c \div m \in Int /\ c = m * (c \div m) + 0
  BY DivMod
<1>2. /\ m * ((x \div m) + (c \div m)) = m * (x \div m) + m * (c \div m)
      /\ m * (x \div m) \in Int /\ m * (c \div m) \in Int
  BY <1>1, Distributes
<1>3. x + c = m * ((x \div m) + (c \div m)) + (x % m)
  BY <1>1, <1>2
<1>4. x + c \in Int /\ (x \div m) + (c \div m) \in Int
  BY <1>1
<1>. HIDE <1>2
<1>5. \A q, n \in Int, r \in 0..m - 1 : n = m * q + r => n % m = r
  BY ModUnique
<1>. QED BY <1>1, <1>3, <1>4, <1>5

-----------------------------------------------------------------------------
(* A ring of m places                                                      *)

LEMMA RingDistance ==
  ASSUME NEW m \in Nat \ {0}, NEW a \in 0..m - 1, NEW b \in 0..m - 1
  PROVE  (b - a) % m = IF b >= a THEN b - a ELSE b - a + m
<1>1. CASE b >= a
  <2>1. b - a \in 0..m - 1
    BY <1>1
  <2>. QED BY <1>1, <2>1, ModOnce
<1>2. CASE ~ (b >= a)
  <2>1. b - a \in -m..-1
    BY <1>2
  <2>. QED BY <1>2, <2>1, ModOnce
<1>. QED BY <1>1, <1>2

LEMMA RingStep ==
  ASSUME NEW m \in Nat \ {0}, NEW a \in 0..m - 1, NEW k \in 0..m
  PROVE  /\ (a + k) % m = IF a + k < m THEN a + k ELSE a + k - m
         /\ (a - k) % m = IF a - k >= 0 THEN a - k ELSE a - k + m
         /\ (a + k) % m \in 0..m - 1 /\ (a - k) % m \in 0..m - 1
<1>1. (a + k) % m = IF a + k < m THEN a + k ELSE a + k - m
  <2>1. CASE a + k \in 0..m - 1
    <3>1. (a + k) % m = a + k
      BY <2>1, ModOnce
    <3>2. a + k < m
      BY <2>1
    <3>. QED BY <3>1, <3>2
  <2>2. CASE a + k \in m..2 * m - 1
    BY <2>2, ModOnce
  <2>. QED BY <2>1, <2>2
<1>2. (a - k) % m = IF a - k >= 0 THEN a - k ELSE a - k + m
  <2>1. CASE a - k \in 0..m - 1
    BY <2>1, ModOnce
  <2>2. CASE a - k \in -m..-1
    BY <2>2, ModOnce
  <2>. QED BY <2>1, <2>2
<1>. QED BY <1>1, <1>2, DivMod

\* What a step of one index does to its distance to another one
LEMMA RingMoves ==
  ASSUME NEW m \in Nat \ {0}, NEW a \in 0..m - 1, NEW b \in 0..m - 1
  PROVE  /\ (b - a) % m # m - 1 => (((b + 1) % m) - a) % m = ((b - a) % m) + 1
         /\ (b - a) % m # 0 => (b - ((a + 1) % m)) % m = ((b - a) % m) - 1
<1>1. (b - a) % m = IF b >= a THEN b - a ELSE b - a + m
  BY RingDistance
<1>. DEFINE b1 == (b + 1) % m
            a1 == (a + 1) % m
<1>2. /\ b1 \in 0..m - 1 /\ b1 = IF b + 1 < m THEN b + 1 ELSE b + 1 - m
      /\ a1 \in 0..m - 1 /\ a1 = IF a + 1 < m THEN a + 1 ELSE a + 1 - m
  BY RingStep
<1>. HIDE DEF a1, b1
<1>3. (b1 - a) % m = IF b1 >= a THEN b1 - a ELSE b1 - a + m
  BY <1>2, RingDistance
<1>4. (b - a1) % m = IF b >= a1 THEN b - a1 ELSE b - a1 + m
  BY <1>2, RingDistance
<1>. DEFINE d == (b - a) % m
            x == (b1 - a) % m
            y == (b - a1) % m
<1>. HIDE DEF d, x, y
<1>5. /\ d # m - 1 => x = d + 1
      /\ d # 0 => y = d - 1
  <2>1. d = IF b >= a THEN b - a ELSE b - a + m
    BY <1>1 DEF d
  <2>2. x = IF b1 >= a THEN b1 - a ELSE b1 - a + m
    BY <1>3 DEF x
  <2>3. y = IF b >= a1 THEN b - a1 ELSE b - a1 + m
    BY <1>4 DEF y
  <2>. QED BY <1>2, <2>1, <2>2, <2>3
<1>. QED BY <1>5 DEF d, x, y, a1, b1

\* Stepping back by no more than the distance
LEMMA RingBack ==
  ASSUME NEW m \in Nat \ {0}, NEW a \in 0..m - 1, NEW b \in 0..m - 1, NEW k \in 0..((b - a) % m)
  PROVE  /\ (b - k) % m \in 0..m - 1
         /\ (((b - k) % m) - a) % m = ((b - a) % m) - k
<1>. DEFINE d == (b - a) % m
            c == (b - k) % m
<1>1. d = IF b >= a THEN b - a ELSE b - a + m
  BY RingDistance
<1>2. d \in 0..m - 1 /\ k \in 0..m
  BY <1>1
<1>3. c \in 0..m - 1 /\ c = IF b - k >= 0 THEN b - k ELSE b - k + m
  BY <1>2, RingStep
<1>. HIDE DEF c
<1>4. (c - a) % m = IF c >= a THEN c - a ELSE c - a + m
  BY <1>3, RingDistance
<1>. DEFINE x == (c - a) % m
<1>5. k \in 0..d
  OBVIOUS
<1>. HIDE DEF d, x
<1>6. x = IF c >= a THEN c - a ELSE c - a + m
  BY <1>4 DEF x
<1>7. x = d - k
  BY <1>1, <1>2, <1>3, <1>5, <1>6
<1>. QED BY <1>3, <1>7 DEF x, d, c

\* Distances add up as long as they stay below a turn.
LEMMA RingSum ==
  ASSUME NEW m \in Nat \ {0}, NEW a \in 0..m - 1, NEW b \in 0..m - 1, NEW c \in 0..m - 1,
         ((b - a) % m) + ((c - b) % m) < m
  PROVE  (c - a) % m = ((b - a) % m) + ((c - b) % m)
<1>. DEFINE x == (b - a) % m
            y == (c - b) % m
            z == (c - a) % m
<1>1. x = IF b >= a THEN b - a ELSE b - a + m
  BY RingDistance
<1>2. y = IF c >= b THEN c - b ELSE c - b + m
  BY RingDistance
<1>3. z = IF c >= a THEN c - a ELSE c - a + m
  BY RingDistance
<1>4. x + y < m
  OBVIOUS
<1>. HIDE DEF x, y, z
<1>5. z = x + y
  BY <1>1, <1>2, <1>3, <1>4
<1>. QED BY <1>5 DEF x, y, z

\* One turn more, or less, is all that % removes here.
LEMMA ModNear ==
  ASSUME NEW c \in Nat \ {0}, NEW x \in -c..2 * c - 1
  PROVE  x % c \in Int /\ (x % c = x \/ x = (x % c) + c \/ x % c = x + c)
<1>1. CASE x \in 0..c - 1
  BY <1>1, ModOnce
<1>2. CASE x \in c..2 * c - 1
  BY <1>2, ModOnce
<1>3. CASE x \in -c..-1
  BY <1>3, ModOnce
<1>. QED BY <1>1, <1>2, <1>3
=============================================================================
