------------------------- MODULE StreamReaderProofs -------------------------
(***************************************************************************)
(* Proofs about StreamReader: what a reader is given, for every capacity,  *)
(* chunk size and number of readers.                                       *)
(***************************************************************************)
EXTENDS StreamReader, RingViewProofs

-----------------------------------------------------------------------------
(* The buffer *)

\* A cell has not been written only if the stream has not got that far.
CellsWritten == \A x \in Cells : x < writePos => buffer[x] \in Nat

RingInv == RingTypeOK /\ CellsCurrent /\ CellsWritten

\* Where byte i of a chunk goes.
LEMMA WriteHits ==
  ASSUME RingTypeOK, NEW n \in Nat, n < Capacity, Write(n),
         NEW i \in writePos .. writePos + n - 1
  PROVE  buffer'[i % Capacity] = i
<1> USE CapacityAssumption
<1>0. PICK d \in Nat : writePos + d = i /\ d < n
  <2>1. i - writePos \in Nat /\ writePos + (i - writePos) = i /\ i - writePos < n
    BY DEF RingTypeOK
  <2> QED
    BY <2>1
<1> DEFINE start == writePos % Capacity
<1>1. d < Capacity /\ writePos \in Nat
  BY <1>0 DEF RingTypeOK
<1>2. start \in 0 .. Capacity - 1
  BY <1>1, DivMod
<1>3. i % Capacity = IF start + d < Capacity THEN start + d ELSE start + d - Capacity
  <2>1. (writePos + d) % Capacity
          = IF start + d < Capacity THEN start + d ELSE start + d - Capacity
    BY <1>1, ModShift
  <2> QED
    BY <1>0, <2>1
<1>4. ASSUME start + n > Capacity
      PROVE  (start + n) % Capacity = start + n - Capacity
  <2>1. start + n = Capacity * 1 + (start + n - Capacity)
    BY <1>2
  <2>2. start + n - Capacity \in 0 .. Capacity - 1 /\ start + n \in Nat
    BY <1>2, <1>4
  <2> QED
    BY <2>1, <2>2, ModUnique
<1>5. i % Capacity \in Cells
  BY <1>1, <1>2, <1>3 DEF Cells
<1>6. buffer'[i % Capacity] =
        IF start <= i % Capacity /\ i % Capacity < start + n
        THEN writePos + (i % Capacity) - start
        ELSE IF start + n > Capacity /\ i % Capacity < (start + n) % Capacity
             THEN writePos + Capacity - start + (i % Capacity)
             ELSE buffer[i % Capacity]
  BY <1>5 DEF Write
<1> HIDE DEF start
<1>7. CASE start + d < Capacity
  BY <1>0, <1>1, <1>2, <1>3, <1>6, <1>7
<1>8. CASE ~(start + d < Capacity)
  <2>1. i % Capacity = start + d - Capacity
    BY <1>3, <1>8
  <2>2. start + n > Capacity /\ i % Capacity < (start + n) % Capacity
    BY <1>0, <1>1, <1>2, <1>4, <1>8, <2>1
  <2>3. ~(start <= i % Capacity)
    BY <1>0, <1>1, <1>2, <2>1
  <2> QED
    BY <1>0, <1>1, <1>2, <1>6, <2>1, <2>2, <2>3
<1> QED
  BY <1>7, <1>8

\* The cells of the bytes that are still in the window are left alone.
LEMMA WriteMisses ==
  ASSUME RingTypeOK, NEW n \in Nat, n < Capacity, Write(n),
         NEW i \in Nat, i < writePos, i >= writePos + n - Capacity
  PROVE  buffer'[i % Capacity] = buffer[i % Capacity]
<1> USE CapacityAssumption
<1>0. PICK d \in Nat : i + d = writePos
  <2>1. writePos - i \in Nat /\ i + (writePos - i) = writePos
    BY DEF RingTypeOK
  <2> QED
    BY <2>1
<1> DEFINE start == writePos % Capacity
           x == i % Capacity
<1>1. 0 < d /\ d <= Capacity - n /\ writePos \in Nat
  BY <1>0 DEF RingTypeOK
<1>2. x \in Cells /\ x \in 0 .. Capacity - 1 /\ start \in 0 .. Capacity - 1
  BY <1>1, DivMod DEF Cells
<1>3. CASE n = 0
  <2>1. ~(start <= x /\ x < start + n) /\ ~(start + n > Capacity)
    BY <1>2, <1>3
  <2> QED
    BY <1>2, <2>1 DEF Write
<1>4. CASE n > 0
  <2>1. d < Capacity
    BY <1>1, <1>4
  <2>2. start = IF x + d < Capacity THEN x + d ELSE x + d - Capacity
    <3>1. (i + d) % Capacity = IF x + d < Capacity THEN x + d ELSE x + d - Capacity
      BY <2>1, ModShift
    <3> QED
      BY <1>0, <3>1
  <2>3. ASSUME start + n > Capacity
        PROVE  (start + n) % Capacity = start + n - Capacity
    <3>1. start + n = Capacity * 1 + (start + n - Capacity)
      BY <1>2
    <3>2. start + n - Capacity \in 0 .. Capacity - 1 /\ start + n \in Nat
      BY <1>2, <2>3
    <3> QED
      BY <3>1, <3>2, ModUnique
  <2>4. buffer'[x] =
          IF start <= x /\ x < start + n THEN writePos + x - start
          ELSE IF start + n > Capacity /\ x < (start + n) % Capacity
               THEN writePos + Capacity - start + x
               ELSE buffer[x]
    BY <1>2 DEF Write
  <2> HIDE DEF start, x
  <2>5. ~(start <= x /\ x < start + n)
    BY <1>0, <1>1, <1>2, <2>1, <2>2
  <2>6. ~(start + n > Capacity /\ x < (start + n) % Capacity)
    BY <1>0, <1>1, <1>2, <2>1, <2>2, <2>3
  <2>7. buffer'[x] = buffer[x]
    BY <2>4, <2>5, <2>6
  <2> QED
    BY <2>7 DEF x
<1> QED
  BY <1>3, <1>4

\* A chunk shorter than the buffer keeps the buffer in order.
LEMMA WriteInv ==
  ASSUME RingInv, NEW n \in Nat, n < Capacity, Write(n)
  PROVE  RingInv'
<1> USE CapacityAssumption
<1>1. writePos' = writePos + n /\ writePos \in Nat
  BY DEF RingInv, RingTypeOK, Write
<1>2. writePos % Capacity \in 0 .. Capacity - 1
  BY <1>1, DivMod
<1>3. RingTypeOK'
  BY <1>1, <1>2 DEF RingInv, RingTypeOK, Write, Cells, Unwritten
<1>4. CellsCurrent'
  <2> SUFFICES ASSUME NEW i \in 0 .. writePos' - 1, i >= writePos' - Capacity
               PROVE  buffer'[i % Capacity] = i
    BY DEF CellsCurrent
  <2>1. CASE i >= writePos
    <3>1. i \in writePos .. writePos + n - 1
      BY <1>1, <2>1
    <3> QED
      BY <3>1, WriteHits DEF RingInv
  <2>2. CASE i < writePos
    <3>1. i \in Nat /\ i >= writePos + n - Capacity
      BY <1>1
    <3>2. buffer'[i % Capacity] = buffer[i % Capacity]
      BY <2>2, <3>1, WriteMisses DEF RingInv
    <3>3. buffer[i % Capacity] = i
      BY <1>1, <2>2, <3>1 DEF RingInv, CellsCurrent
    <3> QED
      BY <3>2, <3>3
  <2> QED
    BY <1>1, <2>1, <2>2
<1>5. CellsWritten'
  <2> SUFFICES ASSUME NEW x \in Cells, x < writePos'
               PROVE  buffer'[x] \in Nat
    BY DEF CellsWritten
  <2>1. CASE x < writePos
    <3>1. buffer[x] \in Nat
      BY <2>1 DEF RingInv, CellsWritten
    <3> QED
      BY <1>1, <1>2, <3>1 DEF Write, Cells
  <2>2. CASE x >= writePos
    <3>1. x \in writePos .. writePos + n - 1 /\ x \in 0 .. Capacity - 1
      BY <1>1, <2>2 DEF Cells
    <3>2. x = Capacity * 0 + x /\ x \in Nat
      BY <3>1
    <3>3. x % Capacity = x
      BY <3>1, <3>2, ModUnique
    <3>4. buffer'[x % Capacity] = x
      BY <3>1, WriteHits DEF RingInv
    <3> QED
      BY <3>2, <3>3, <3>4
  <2> QED
    BY <1>1, <2>1, <2>2 DEF Cells
<1> QED
  BY <1>3, <1>4, <1>5 DEF RingInv

\* The cell that the k-th byte of a read comes from.
LEMMA ReadCell ==
  ASSUME NEW o \in Nat, NEW k \in 1 .. Capacity
  PROVE  /\ Wrapped((o % Capacity) + k - 1) = (o + (k - 1)) % Capacity
         /\ Wrapped((o % Capacity) + k - 1) \in Cells
<1> USE CapacityAssumption
<1>1. k - 1 \in Nat /\ k - 1 < Capacity
  OBVIOUS
<1>2. o % Capacity \in 0 .. Capacity - 1
  BY DivMod
<1>3. (o + (k - 1)) % Capacity =
        IF (o % Capacity) + (k - 1) < Capacity THEN (o % Capacity) + (k - 1)
        ELSE (o % Capacity) + (k - 1) - Capacity
  BY <1>1, ModShift
<1>4. Wrapped((o % Capacity) + k - 1) = (o + (k - 1)) % Capacity
  BY <1>2, <1>3 DEF Wrapped
<1>5. Wrapped((o % Capacity) + k - 1) \in Cells
  BY <1>1, <1>2 DEF Wrapped, Cells
<1> QED
  BY <1>4, <1>5

LEMMA ReadAtShape ==
  ASSUME RingInv, NEW o \in Nat, o <= writePos
  PROVE  LET len == IF writePos - o < Capacity THEN writePos - o ELSE Capacity IN
         /\ ReadAt(o) = [k \in 1 .. len |-> buffer[(o + (k - 1)) % Capacity]]
         /\ ReadAt(o) \in Seq(Nat)
         /\ Len(ReadAt(o)) = len
<1> USE CapacityAssumption
<1> DEFINE len == IF writePos - o < Capacity THEN writePos - o ELSE Capacity
<1>1. writePos \in Nat /\ len \in Nat /\ len <= Capacity /\ len <= writePos
  BY DEF RingInv, RingTypeOK
<1>2. ReadAt(o) = [k \in 1 .. len |-> buffer[(o + (k - 1)) % Capacity]]
  <2>1. \A k \in 1 .. len :
          Wrapped((o % Capacity) + k - 1) = (o + (k - 1)) % Capacity
    <3> SUFFICES ASSUME NEW k \in 1 .. len
                 PROVE  Wrapped((o % Capacity) + k - 1) = (o + (k - 1)) % Capacity
      OBVIOUS
    <3>1. k \in 1 .. Capacity
      BY <1>1
    <3> QED
      BY <3>1, ReadCell
  <2>2. ReadAt(o) = [k \in 1 .. len |-> buffer[Wrapped((o % Capacity) + k - 1)]]
    BY DEF ReadAt
  <2> HIDE DEF len
  <2> QED
    BY <2>1, <2>2
<1>3. ASSUME NEW k \in 1 .. len
      PROVE  buffer[(o + (k - 1)) % Capacity] \in Nat
  <2>1. o + (k - 1) \in Nat /\ (o + (k - 1)) % Capacity \in Cells
    BY <1>1, ReadCell, DivMod DEF Cells
  <2>2. CASE writePos >= Capacity
    BY <1>1, <2>1, <2>2 DEF RingInv, CellsWritten, Cells
  <2>3. CASE writePos < Capacity
    <3>1. o + (k - 1) < writePos /\ o + (k - 1) \in 0 .. Capacity - 1
      BY <1>1, <2>3
    <3>2. o + (k - 1) = Capacity * 0 + (o + (k - 1))
      BY <2>1
    <3>3. (o + (k - 1)) % Capacity = o + (k - 1)
      BY <2>1, <3>1, <3>2, ModUnique
    <3> QED
      BY <2>1, <3>1, <3>3 DEF RingInv, CellsWritten
  <2> QED
    BY <1>1, <2>2, <2>3
<1> HIDE DEF len
<1>4. ReadAt(o) \in [1 .. len -> Nat]
  BY <1>2, <1>3
<1>5. ReadAt(o) \in Seq(Nat) /\ Len(ReadAt(o)) = len
  BY <1>1, <1>4
<1> QED
  BY <1>2, <1>5 DEF len

\* Read within the capacity, the stream comes out in order.
LEMMA ReadAtStream ==
  ASSUME RingInv, NEW o \in Nat, o <= writePos, writePos - o <= Capacity
  PROVE  ReadAt(o) = Stretch(o, writePos)
<1> USE CapacityAssumption
<1>1. writePos \in Nat
  BY DEF RingInv, RingTypeOK
<1>2. ReadAt(o) = [k \in 1 .. writePos - o |-> buffer[(o + (k - 1)) % Capacity]]
  <2> DEFINE len == IF writePos - o < Capacity THEN writePos - o ELSE Capacity
  <2>1. len = writePos - o
    BY <1>1
  <2>2. ReadAt(o) = [k \in 1 .. len |-> buffer[(o + (k - 1)) % Capacity]]
    BY ReadAtShape
  <2> QED
    BY <2>1, <2>2
<1>3. ASSUME NEW k \in 1 .. writePos - o
      PROVE  buffer[(o + (k - 1)) % Capacity] = o + k - 1
  <2>1. o + (k - 1) \in 0 .. writePos - 1 /\ o + (k - 1) >= writePos - Capacity
    BY <1>1
  <2>2. buffer[(o + (k - 1)) % Capacity] = o + (k - 1)
    BY <2>1 DEF RingInv, CellsCurrent
  <2> QED
    BY <2>2
<1> QED
  BY <1>2, <1>3 DEF Stretch

\* Any Capacity bytes in a row go to all the cells.
LEMMA CellHit ==
  ASSUME NEW b \in Nat, NEW x \in Cells
  PROVE  \E d \in Nat : d < Capacity /\ (b + d) % Capacity = x
<1> USE CapacityAssumption
<1>1. b % Capacity \in 0 .. Capacity - 1 /\ x \in 0 .. Capacity - 1
  BY DivMod DEF Cells
<1> DEFINE p == b % Capacity
           d == IF x >= p THEN x - p ELSE x - p + Capacity
<1>2. d \in Nat /\ d < Capacity
  BY <1>1
<1>3. x = IF p + d < Capacity THEN p + d ELSE p + d - Capacity
  BY <1>1
<1>4. (b + d) % Capacity = IF p + d < Capacity THEN p + d ELSE p + d - Capacity
  <2> HIDE DEF d
  <2> QED
    BY <1>2, ModShift
<1> QED
  BY <1>2, <1>3, <1>4

LEMMA ModPeriod ==
  ASSUME NEW a \in Nat, NEW c \in Nat \ {0} PROVE (a + c) % c = a % c
<1> DEFINE q == a \div c
           p == a % c
<1>1. a = c * q + p /\ p \in 0 .. c - 1 /\ q \in Nat
  BY DivMod
<1> HIDE DEF q, p
<1>2. a + c = c * (q + 1) + p /\ a + c \in Nat /\ q + 1 \in Int
  BY <1>1
<1>3. (a + c) % c = p
  BY <1>1, <1>2, ModUnique
<1> QED
  BY <1>3 DEF p

\* Read from further back, the buffer comes out whole, from the cell of the
\* position on: the newest bytes of the stream, and then the older ones.
LEMMA ReadAtNewest ==
  ASSUME RingInv, NEW o \in Nat, writePos - o > Capacity
  PROVE  \E n \in 0 .. Capacity - 1 :
           /\ (writePos - n) % Capacity = o % Capacity
           /\ ReadAt(o) = NewestFirst(n, writePos)
<1> USE CapacityAssumption
<1>1. writePos \in Nat /\ writePos - Capacity \in Nat /\ o <= writePos
  BY DEF RingInv, RingTypeOK
<1>2. ReadAt(o) = [k \in 1 .. Capacity |-> buffer[(o + (k - 1)) % Capacity]]
  <2> DEFINE len == IF writePos - o < Capacity THEN writePos - o ELSE Capacity
  <2>1. len = Capacity
    BY <1>1
  <2>2. ReadAt(o) = [k \in 1 .. len |-> buffer[(o + (k - 1)) % Capacity]]
    BY <1>1, ReadAtShape
  <2> QED
    BY <2>1, <2>2
<1>3. o % Capacity \in Cells
  BY DivMod DEF Cells
<1>4. PICK d \in Nat :
        /\ d < Capacity
        /\ ((writePos - Capacity + 1) + d) % Capacity = o % Capacity
  <2>1. writePos - Capacity + 1 \in Nat
    BY <1>1
  <2> QED
    BY <1>3, <2>1, CellHit
<1>5. PICK newer \in 0 .. Capacity - 1, start \in Nat :
        /\ start = writePos - newer
        /\ start = (writePos - Capacity + 1) + d
        /\ start <= writePos /\ writePos - Capacity <= start
        /\ writePos - start = newer
  <2> DEFINE newer == Capacity - 1 - d
  <2>1. newer \in 0 .. Capacity - 1 /\ writePos - newer \in Nat
    BY <1>1, <1>4
  <2>2. writePos - newer = (writePos - Capacity + 1) + d
    BY <1>1, <1>4
  <2> QED
    BY <1>1, <1>4, <2>1, <2>2
<1>6. start % Capacity = o % Capacity
  BY <1>4, <1>5
<1>7. ASSUME NEW k \in 1 .. Capacity
      PROVE  (start + (k - 1)) % Capacity = (o + (k - 1)) % Capacity
  <2>1. PICK j \in Nat : j = k - 1 /\ j < Capacity
    OBVIOUS
  <2>2. (start + j) % Capacity
          = IF (start % Capacity) + j < Capacity THEN (start % Capacity) + j
            ELSE (start % Capacity) + j - Capacity
    BY <2>1, ModShift
  <2>3. (o + j) % Capacity
          = IF (o % Capacity) + j < Capacity THEN (o % Capacity) + j
            ELSE (o % Capacity) + j - Capacity
    BY <2>1, ModShift
  <2>4. (start + j) % Capacity = (o + j) % Capacity
    BY <1>6, <2>2, <2>3
  <2> QED
    BY <2>1, <2>4
<1>8. ASSUME NEW i \in Nat, i < writePos, i >= writePos - Capacity
      PROVE  buffer[i % Capacity] = i
  BY <1>1, <1>8 DEF RingInv, CellsCurrent
<1>9. ASSUME NEW k \in 1 .. Capacity, k <= newer
      PROVE  buffer[(o + (k - 1)) % Capacity] = start + k - 1
  <2>1. /\ start + (k - 1) \in Nat /\ start + (k - 1) < writePos
        /\ start + (k - 1) >= writePos - Capacity
    BY <1>1, <1>5, <1>9
  <2>2. buffer[(start + (k - 1)) % Capacity] = start + (k - 1)
    BY <1>8, <2>1
  <2> QED
    BY <1>5, <1>7, <2>2
<1>10. ASSUME NEW k \in 1 .. Capacity, ~(k <= newer)
       PROVE  buffer[(o + (k - 1)) % Capacity]
                = (writePos - Capacity) + (k - newer) - 1
  <2> DEFINE i == (writePos - Capacity) + (k - newer) - 1
  <2>1. /\ i \in Nat /\ i < writePos /\ i >= writePos - Capacity
        /\ i + Capacity = start + (k - 1)
    BY <1>1, <1>5, <1>10
  <2> HIDE DEF i
  <2>2. (i + Capacity) % Capacity = i % Capacity
    BY <2>1, ModPeriod
  <2>3. i % Capacity = (o + (k - 1)) % Capacity
    BY <1>7, <2>1, <2>2
  <2>4. buffer[i % Capacity] = i
    BY <1>8, <2>1
  <2>5. buffer[(o + (k - 1)) % Capacity] = i
    BY <2>3, <2>4
  <2> QED
    BY <2>5 DEF i
<1>11. ReadAt(o) = NewestFirst(newer, writePos)
  BY <1>1, <1>2, <1>5, <1>9, <1>10 DEF NewestFirst
<1> QED
  BY <1>5, <1>6, <1>11

-----------------------------------------------------------------------------
(* The readers *)

\* How a reader's positions are ordered: pos is the current_pos of its last
\* round, which was looked up after the read before it.
ReaderInv ==
  \A r \in Readers :
    /\ sent[r] <= pos[r] /\ pos[r] <= upto[r] /\ upto[r] <= writePos
    /\ rpc[r] = "read" => upto[r] <= cur[r] /\ cur[r] <= writePos
    /\ Delivering(r) => older[r] <= from[r] /\ from[r] <= sent[r]

Inv == TypeOK /\ RingInv /\ ReaderInv /\ DeliversStream /\ DeliversNewest

LEMMA InitInv == Init => Inv
<1> SUFFICES ASSUME Init PROVE Inv
  OBVIOUS
<1> USE CapacityAssumption, StreamReaderAssumption DEF Init, RingInit
<1>1. RingTypeOK
  BY DEF RingTypeOK, Unwritten
<1>2. TypeOK
  BY <1>1 DEF TypeOK, Positions
<1>3. CellsCurrent /\ CellsWritten
  BY DEF CellsCurrent, CellsWritten, Cells
<1>4. ReaderInv /\ DeliversStream /\ DeliversNewest
  BY DEF ReaderInv, DeliversStream, DeliversNewest, Delivering
<1> QED
  BY <1>1, <1>2, <1>3, <1>4 DEF Inv, RingInv

LEMMA FeedInv ==
  ASSUME Inv, NEW n \in 1 .. MaxChunk, Feed(n)
  PROVE  Inv'
<1> USE CapacityAssumption, StreamReaderAssumption
<1>1. n \in Nat /\ n < Capacity
  OBVIOUS
<1>2. RingInv'
  BY <1>1, WriteInv DEF Inv, Feed
<1>3. writePos' = writePos + n /\ writePos' \in Positions /\ writePos \in Positions
  BY DEF Inv, TypeOK, Feed, Write, Positions
<1>4. TypeOK'
  BY <1>2, <1>3 DEF Inv, TypeOK, RingInv, Feed, readerVars
<1>5. ReaderInv'
  BY <1>1, <1>3 DEF Inv, TypeOK, ReaderInv, Feed, readerVars, Delivering, Positions
<1>6. DeliversStream' /\ DeliversNewest'
  BY DEF Inv, DeliversStream, DeliversNewest, Delivering, Lapped, Feed, readerVars
<1> QED
  BY <1>2, <1>4, <1>5, <1>6 DEF Inv

LEMMA AttachInv ==
  ASSUME Inv, NEW r \in Readers, NEW p \in Positions, p <= writePos, AttachAt(r, p)
  PROVE  Inv'
<1> USE DEF AttachAt
<1>1. RingInv'
  BY DEF Inv, RingInv, RingTypeOK, CellsCurrent, CellsWritten, ringVars
<1>2. TypeOK'
  BY <1>1 DEF Inv, TypeOK, RingInv, ringVars
<1>3. ReaderInv'
  BY DEF Inv, TypeOK, ReaderInv, ringVars, Delivering, Positions
<1>4. DeliversStream' /\ DeliversNewest'
  BY DEF Inv, TypeOK, DeliversStream, DeliversNewest, Delivering, Lapped
<1> QED
  BY <1>1, <1>2, <1>3, <1>4 DEF Inv

LEMMA LookInv ==
  ASSUME Inv, NEW r \in Readers, Look(r)
  PROVE  Inv'
<1> USE DEF Look
<1>1. RingInv'
  BY DEF Inv, RingInv, RingTypeOK, CellsCurrent, CellsWritten, ringVars
<1>2. TypeOK'
  BY <1>1 DEF Inv, TypeOK, RingInv, ringVars
<1>3. ReaderInv'
  BY DEF Inv, TypeOK, ReaderInv, ringVars, Delivering, Positions
<1>4. DeliversStream' /\ DeliversNewest'
  BY DEF Inv, TypeOK, DeliversStream, DeliversNewest, Delivering, Lapped
<1> QED
  BY <1>1, <1>2, <1>3, <1>4 DEF Inv

LEMMA ReadInv ==
  ASSUME Inv, NEW r \in Readers, Read(r)
  PROVE  Inv'
<1> USE CapacityAssumption DEF Read, ReadRound
<1>1. RingInv'
  BY DEF Inv, RingInv, RingTypeOK, CellsCurrent, CellsWritten, ringVars
<1>2. /\ pos[r] \in Nat /\ writePos \in Nat /\ pos[r] <= writePos
      /\ pos[r] \in Positions /\ writePos \in Positions
  BY DEF Inv, TypeOK, ReaderInv, Positions
<1>3. ReadAt(pos[r]) \in Seq(Nat)
  BY <1>2, ReadAtShape DEF Inv
<1>4. TypeOK'
  BY <1>1, <1>2, <1>3 DEF Inv, TypeOK, RingInv, ringVars
<1>5. ReaderInv'
  BY <1>2 DEF Inv, TypeOK, ReaderInv, ringVars, Delivering, Positions
<1>6. /\ data'[r] = ReadAt(pos[r]) /\ from'[r] = pos[r] /\ upto'[r] = writePos
      /\ \A s \in Readers \ {r} :
           /\ data'[s] = data[s] /\ from'[s] = from[s] /\ upto'[s] = upto[s]
           /\ rpc'[s] = rpc[s]
  BY DEF Inv, TypeOK
<1>7. DeliversStream'
  <2> SUFFICES ASSUME NEW s \in Readers, Delivering(s)', ~Lapped(s)'
               PROVE  data'[s] = Stretch(from'[s], upto'[s])
    BY DEF DeliversStream
  <2>1. CASE s = r
    <3>1. writePos - pos[r] <= Capacity
      BY <1>2, <1>6, <2>1 DEF Lapped
    <3>2. ReadAt(pos[r]) = Stretch(pos[r], writePos)
      BY <1>2, <3>1, ReadAtStream DEF Inv
    <3> QED
      BY <1>6, <2>1, <3>2
  <2>2. CASE s # r
    <3>1. /\ data'[s] = data[s] /\ from'[s] = from[s] /\ upto'[s] = upto[s]
          /\ rpc'[s] = rpc[s]
      BY <1>6, <2>2
    <3>2. Delivering(s) /\ ~Lapped(s)
      BY <3>1 DEF Delivering, Lapped
    <3>3. data[s] = Stretch(from[s], upto[s])
      BY <3>2 DEF Inv, DeliversStream
    <3> QED
      BY <3>1, <3>3
  <2> QED
    BY <2>1, <2>2
<1>8. DeliversNewest'
  <2> SUFFICES ASSUME NEW s \in Readers, Delivering(s)', Lapped(s)'
               PROVE  \E n \in 0 .. Capacity - 1 :
                        /\ (upto'[s] - n) % Capacity = from'[s] % Capacity
                        /\ data'[s] = NewestFirst(n, upto'[s])
    BY DEF DeliversNewest
  <2>1. CASE s = r
    <3>1. writePos - pos[r] > Capacity
      BY <1>6, <2>1 DEF Lapped
    <3>2. \E n \in 0 .. Capacity - 1 :
            /\ (writePos - n) % Capacity = pos[r] % Capacity
            /\ ReadAt(pos[r]) = NewestFirst(n, writePos)
      BY <1>2, <3>1, ReadAtNewest DEF Inv
    <3>3. data'[s] = ReadAt(pos[r]) /\ upto'[s] = writePos /\ from'[s] = pos[r]
      BY <1>6, <2>1
    <3> HIDE DEF Read, ReadRound
    <3> QED
      BY ONLY <3>2, <3>3
  <2>2. CASE s # r
    <3>1. /\ data'[s] = data[s] /\ from'[s] = from[s] /\ upto'[s] = upto[s]
          /\ rpc'[s] = rpc[s]
      BY <1>6, <2>2
    <3>2. Delivering(s) /\ Lapped(s)
      BY <3>1 DEF Delivering, Lapped
    <3>3. \E n \in 0 .. Capacity - 1 :
            /\ (upto[s] - n) % Capacity = from[s] % Capacity
            /\ data[s] = NewestFirst(n, upto[s])
      BY <3>2 DEF Inv, DeliversNewest
    <3> HIDE DEF Read, ReadRound
    <3> QED
      BY ONLY <3>1, <3>3
  <2> QED
    BY <2>1, <2>2
<1> QED
  BY <1>1, <1>4, <1>5, <1>7, <1>8 DEF Inv

LEMMA DeliverInv ==
  ASSUME Inv, NEW r \in Readers, Deliver(r)
  PROVE  Inv'
<1> USE DEF Deliver
<1>1. RingInv'
  BY DEF Inv, RingInv, RingTypeOK, CellsCurrent, CellsWritten, ringVars
<1>2. TypeOK'
  BY <1>1 DEF Inv, TypeOK, RingInv, ringVars
<1>3. ReaderInv'
  BY DEF Inv, TypeOK, ReaderInv, ringVars, Delivering, Positions
<1>4. \A s \in Readers :
        Delivering(s)' => Delivering(s) /\ data'[s] = data[s]
  BY DEF Inv, TypeOK, Delivering
<1>5. from' = from /\ upto' = upto
  OBVIOUS
<1>6. DeliversStream' /\ DeliversNewest'
  BY <1>4, <1>5 DEF Inv, DeliversStream, DeliversNewest, Lapped
<1> QED
  BY <1>1, <1>2, <1>3, <1>6 DEF Inv

LEMMA StepInv ==
  ASSUME Inv, [Next]_vars
  PROVE  Inv'
<1>1. ASSUME NEW n \in 1 .. MaxChunk, Feed(n) PROVE Inv'
  BY <1>1, FeedInv
<1>2. ASSUME NEW r \in Readers, AttachListener(r) PROVE Inv'
  <2>1. writePos \in Positions /\ writePos <= writePos
    BY DEF Inv, TypeOK, Positions
  <2> QED
    BY <1>2, <2>1, AttachInv DEF AttachListener
<1>3. ASSUME NEW r \in Readers, AttachFromStart(r) PROVE Inv'
  <2>1. 0 \in Positions /\ 0 <= writePos
    BY StreamReaderAssumption DEF Inv, TypeOK, Positions
  <2> QED
    BY <1>3, <2>1, AttachInv DEF AttachFromStart
<1>4. ASSUME NEW r \in Readers, Look(r) PROVE Inv'
  BY <1>4, LookInv
<1>5. ASSUME NEW r \in Readers, Read(r) PROVE Inv'
  BY <1>5, ReadInv
<1>6. ASSUME NEW r \in Readers, Deliver(r) PROVE Inv'
  BY <1>6, DeliverInv
<1>7. ASSUME UNCHANGED vars PROVE Inv'
  BY <1>7 DEF vars, ringVars, readerVars, Inv, TypeOK, RingInv, RingTypeOK,
     CellsCurrent, CellsWritten, ReaderInv, DeliversStream, DeliversNewest,
     Delivering, Lapped
<1> QED
  BY <1>1, <1>2, <1>3, <1>4, <1>5, <1>6, <1>7 DEF Next

\* The readers stay within their types, and no reader is ever given a byte of
\* the buffer that was not written (source/mod.rs:92).
THEOREM TypeCorrect == Spec => []TypeOK
<1>1. Inv => TypeOK
  BY DEF Inv
<1> QED
  BY <1>1, InitInv, StepInv, PTL DEF Spec

\* The buffer keeps the last Capacity bytes, each in its cell.
THEOREM CellsCurrentHolds == Spec => []CellsCurrent
<1>1. Inv => CellsCurrent
  BY DEF Inv, RingInv
<1> QED
  BY <1>1, InitInv, StepInv, PTL DEF Spec

\* Whatever position a reader asks for, the buffer answers what RingView says.
LEMMA ReadAtView ==
  ASSUME RingInv, NEW o \in 0 .. writePos
  PROVE  ReadAt(o) = View(o, writePos)
<1> USE CapacityAssumption
<1> DEFINE len == IF writePos - o < Capacity THEN writePos - o ELSE Capacity
<1>1. writePos \in Nat /\ o \in Nat /\ o <= writePos
  BY DEF RingInv, RingTypeOK
<1>2. ReadAt(o) = [k \in 1 .. len |-> buffer[(o + (k - 1)) % Capacity]]
  BY <1>1, ReadAtShape
<1>3. ASSUME NEW k \in 1 .. len
      PROVE  buffer[(o + (k - 1)) % Capacity] = LatestIn((o + k - 1) % Capacity, writePos)
  <2> DEFINE x == (o + (k - 1)) % Capacity
             i == LatestIn(x, writePos)
  <2>1. x \in 0 .. Capacity - 1 /\ o + (k - 1) = o + k - 1
    BY <1>1, DivMod
  <2>2. x < writePos
    <3>1. CASE writePos < Capacity
      <4>1. o + (k - 1) \in 0 .. Capacity - 1 /\ o + (k - 1) < writePos
        BY <1>1, <3>1
      <4>2. o + (k - 1) = Capacity * 0 + (o + (k - 1)) /\ o + (k - 1) \in Nat
        BY <4>1
      <4>3. (o + (k - 1)) % Capacity = o + (k - 1)
        BY <4>1, <4>2, ModUnique
      <4> QED
        BY <4>1, <4>3
    <3>2. CASE writePos >= Capacity
      BY <1>1, <2>1, <3>2
    <3> QED
      BY <1>1, <3>1, <3>2
  <2> HIDE DEF x
  <2>3. i \in 0 .. writePos - 1 /\ i >= writePos - Capacity /\ i % Capacity = x
    BY <1>1, <2>1, <2>2, LatestInCell
  <2>4. buffer[i % Capacity] = i
    <3> HIDE DEF i
    <3> QED
      BY <2>3 DEF RingInv, CellsCurrent
  <2>5. buffer[x] = LatestIn(x, writePos)
    BY <2>3, <2>4
  <2> QED
    BY <2>1, <2>5 DEF x
<1> QED
  BY <1>2, <1>3 DEF View

\* The buffer answers what RingView says: the modules that keep only the number
\* of bytes written lose nothing of it (source/mod.rs:93-110).
THEOREM ViewExactHolds == Spec => []ViewExact
<1>1. Inv => ViewExact
  BY ReadAtView DEF Inv, ViewExact
<1> QED
  BY <1>1, InitInv, StepInv, PTL DEF Spec

\* A reader within the capacity gets the stream in order.
THEOREM DeliversStreamHolds == Spec => []DeliversStream
<1>1. Inv => DeliversStream
  BY DEF Inv
<1> QED
  BY <1>1, InitInv, StepInv, PTL DEF Spec

\* A lapped reader gets the newest bytes.
THEOREM DeliversNewestHolds == Spec => []DeliversNewest
<1>1. Inv => DeliversNewest
  BY DEF Inv
<1> QED
  BY <1>1, InitInv, StepInv, PTL DEF Spec

\* Reading under two locks skips nothing.
THEOREM NoGapHolds == Spec => []NoGap
<1>1. Inv => NoGap
  BY DEF Inv, ReaderInv, NoGap
<1> QED
  BY <1>1, InitInv, StepInv, PTL DEF Spec

\* Reading under two locks repeats a byte once at most.
THEOREM AtMostTwiceHolds == Spec => []AtMostTwice
<1>1. Inv => AtMostTwice
  BY DEF Inv, ReaderInv, AtMostTwice
<1> QED
  BY <1>1, InitInv, StepInv, PTL DEF Spec
=============================================================================
