--------------------------- MODULE RingViewProofs ---------------------------
(***************************************************************************)
(* Lemmas about RingView, for every capacity: which byte a cell holds, and *)
(* when what a read returns is the stream itself.                          *)
(***************************************************************************)
EXTENDS RingView, TLAPS

LEMMA DivMod ==
  ASSUME NEW a \in Nat, NEW c \in Nat \ {0}
  PROVE  a = c * (a \div c) + (a % c) /\ a % c \in 0 .. c - 1 /\ a \div c \in Nat
  OBVIOUS

LEMMA ModUnique ==
  ASSUME NEW a \in Nat, NEW c \in Nat \ {0}, NEW q \in Int, NEW r \in 0 .. c - 1,
         a = c * q + r
  PROVE  a % c = r
  OBVIOUS

\* Fewer than c steps past a, the remainder wraps once at most.
LEMMA ModShift ==
  ASSUME NEW a \in Nat, NEW d \in Nat, NEW c \in Nat \ {0}, d < c
  PROVE  (a + d) % c = IF (a % c) + d < c THEN (a % c) + d ELSE (a % c) + d - c
<1> DEFINE q == a \div c
           p == a % c
<1>1. a = c * q + p /\ p \in 0 .. c - 1 /\ q \in Nat
  BY DivMod
<1> HIDE DEF q, p
<1>2. ASSUME p + d < c PROVE (a + d) % c = p + d
  <2>1. a + d = c * q + (p + d)
    BY <1>1
  <2>2. p + d \in 0 .. c - 1 /\ a + d \in Nat
    BY <1>1, <1>2
  <2> QED
    BY <1>1, <2>1, <2>2, ModUnique
<1>3. ASSUME ~(p + d < c) PROVE (a + d) % c = p + d - c
  <2>1. a + d = c * (q + 1) + (p + d - c)
    BY <1>1
  <2>2. p + d - c \in 0 .. c - 1 /\ a + d \in Nat /\ q + 1 \in Int
    BY <1>1, <1>3
  <2> QED
    BY <2>1, <2>2, ModUnique
<1>4. (a + d) % c = IF p + d < c THEN p + d ELSE p + d - c
  BY <1>2, <1>3
<1> QED
  BY <1>4 DEF p

-----------------------------------------------------------------------------
(* The bytes behind the cells *)

\* What LatestIn names is a byte of the stream that goes to that cell and is
\* less than a buffer old.
LEMMA LatestInCell ==
  ASSUME NEW w \in Nat, NEW x \in 0 .. Capacity - 1, x < w
  PROVE  /\ LatestIn(x, w) \in 0 .. w - 1
         /\ LatestIn(x, w) >= w - Capacity
         /\ LatestIn(x, w) % Capacity = x
<1> USE CapacityAssumption
<1> DEFINE a == w - 1 - x
           q == a \div Capacity
           r == a % Capacity
<1>1. a \in Nat
  OBVIOUS
<1>2. a = Capacity * q + r /\ r \in 0 .. Capacity - 1 /\ q \in Nat
  BY <1>1, DivMod
<1>3. LatestIn(x, w) = (w - 1) - r
  BY DEF LatestIn
<1> HIDE DEF q, r
<1>4. (w - 1) - r = Capacity * q + x
  BY <1>2
<1>5. Capacity * q \in Nat
  BY <1>2
<1>6. (w - 1) - r \in Nat
  BY <1>4, <1>5
<1>7. ((w - 1) - r) % Capacity = x
  BY <1>2, <1>4, <1>6, ModUnique
<1> QED
  BY <1>2, <1>3, <1>6, <1>7

\* Conversely a byte less than a buffer old is the latest of its cell.
LEMMA LatestInWindow ==
  ASSUME NEW w \in Nat, NEW i \in Nat, i < w, i >= w - Capacity
  PROVE  LatestIn(i % Capacity, w) = i
<1> USE CapacityAssumption
<1> DEFINE q == i \div Capacity
           x == i % Capacity
<1>1. i = Capacity * q + x /\ x \in 0 .. Capacity - 1 /\ q \in Nat
  BY DivMod
<1> HIDE DEF q, x
<1>2. w - 1 - x = Capacity * q + (w - 1 - i)
  BY <1>1
<1>3. w - 1 - i \in 0 .. Capacity - 1
  OBVIOUS
<1>4. Capacity * q \in Nat
  BY <1>1
<1>5. w - 1 - x \in Nat
  BY <1>2, <1>3, <1>4
<1>6. (w - 1 - x) % Capacity = w - 1 - i
  <2> DEFINE a == w - 1 - x
             r == w - 1 - i
  <2>1. a \in Nat /\ r \in 0 .. Capacity - 1 /\ q \in Int /\ a = Capacity * q + r
    BY <1>1, <1>2, <1>3, <1>5
  <2> HIDE DEF a, r
  <2>2. a % Capacity = r
    BY <2>1, ModUnique
  <2> QED
    BY <2>2 DEF a, r
<1>7. LatestIn(x, w) = i
  BY <1>6 DEF LatestIn
<1> QED
  BY <1>7 DEF x

\* A reader that is not more than the capacity behind is given the stream.
LEMMA ViewStream ==
  ASSUME NEW w \in Nat, NEW p \in Nat, p <= w, w - p <= Capacity
  PROVE  View(p, w) = [k \in 1 .. w - p |-> p + k - 1]
<1> USE CapacityAssumption
<1>1. (IF w - p < Capacity THEN w - p ELSE Capacity) = w - p
  OBVIOUS
<1>2. ASSUME NEW k \in 1 .. w - p
      PROVE  LatestIn((p + k - 1) % Capacity, w) = p + k - 1
  BY <1>2, LatestInWindow
<1> QED
  BY <1>1, <1>2 DEF View

\* Whatever the distance, a reader is given bytes of the stream, as many as
\* the buffer has of what it asked for.
LEMMA ViewShape ==
  ASSUME NEW w \in Nat, NEW p \in Nat, p <= w
  PROVE  /\ View(p, w) \in Seq(0 .. w - 1)
         /\ Len(View(p, w)) = IF w - p < Capacity THEN w - p ELSE Capacity
<1> USE CapacityAssumption
<1> DEFINE len == IF w - p < Capacity THEN w - p ELSE Capacity
<1>1. len \in Nat
  OBVIOUS
<1>2. View(p, w) = [k \in 1 .. len |-> LatestIn((p + k - 1) % Capacity, w)]
  BY DEF View
<1>3. ASSUME NEW k \in 1 .. len
      PROVE  LatestIn((p + k - 1) % Capacity, w) \in 0 .. w - 1
  <2>1. (p + k - 1) % Capacity \in 0 .. Capacity - 1
    BY DivMod
  <2>2. (p + k - 1) % Capacity < w
    <3>1. CASE w < Capacity
      <4>1. p + k - 1 \in 0 .. Capacity - 1 /\ p + k - 1 < w
        BY <3>1
      <4>2. p + k - 1 = Capacity * 0 + (p + k - 1) /\ p + k - 1 \in Nat
        BY <4>1
      <4>3. (p + k - 1) % Capacity = p + k - 1
        BY <4>1, <4>2, ModUnique
      <4> QED
        BY <4>1, <4>3
    <3>2. CASE w >= Capacity
      BY <2>1, <3>2
    <3> QED
      BY <3>1, <3>2
  <2> QED
    BY <2>1, <2>2, LatestInCell
<1> HIDE DEF len
<1>4. View(p, w) \in [1 .. len -> 0 .. w - 1]
  BY <1>2, <1>3
<1>5. View(p, w) \in Seq(0 .. w - 1) /\ Len(View(p, w)) = len
  BY <1>1, <1>4
<1> QED
  BY <1>5 DEF len
=============================================================================
