----------------------------- MODULE RingBuffer -----------------------------
(***************************************************************************)
(* RingBuffer (crabster-core/src/source/mod.rs).  A byte is the number of  *)
(* bytes its source wrote before it, so a cell tells which byte it holds.  *)
(***************************************************************************)
EXTENDS RingView

VARIABLES buffer, writePos

ringVars == <<buffer, writePos>>

Cells == 0 .. Capacity - 1
Unwritten == -1

RingTypeOK ==
  /\ buffer \in [Cells -> Nat \cup {Unwritten}]
  /\ writePos \in Nat

RingInit ==
  /\ buffer = [x \in Cells |-> Unwritten]
  /\ writePos = 0

\* Mutant: what does not fit before the end of the buffer is dropped.
WriteWithoutWrap(n) ==
  LET start == writePos % Capacity IN
  /\ buffer' = [x \in Cells |->
                  IF start <= x /\ x < start + n THEN writePos + x - start
                  ELSE buffer[x]]
  /\ writePos' = writePos + n

\* The next n bytes of the source.  A chunk that fills the buffer leaves its
\* tail in it, from cell 0 on; any other goes behind the last one, in two
\* pieces when it meets the end.
Write(n) ==
  LET start == writePos % Capacity
      end == start + n
  IN  /\ buffer' = [x \in Cells |->
                      IF n >= Capacity THEN writePos + n - Capacity + x
                      ELSE IF start <= x /\ x < end THEN writePos + x - start
                      ELSE IF end > Capacity /\ x < end % Capacity
                           THEN writePos + Capacity - start + x
                      ELSE buffer[x]]
      /\ writePos' = writePos + n

\* Cell x, counted on past the end of the buffer.
Wrapped(x) == IF x < Capacity THEN x ELSE x - Capacity

\* Mutant: always the whole buffer.
ReadWhole(offset) ==
  [k \in 1 .. Capacity |-> buffer[Wrapped((offset % Capacity) + k - 1)]]

\* Mutant: a whole buffer is copied from cell 0 on.
ReadFromZero(offset) ==
  LET readable == writePos - offset IN
  [k \in 1 .. IF readable < Capacity THEN readable ELSE Capacity |->
     buffer[IF readable > Capacity THEN k - 1
            ELSE Wrapped((offset % Capacity) + k - 1)]]

\* Mutant: only the piece before the end of the buffer.
ReadOnePiece(offset) ==
  LET readable == writePos - offset
      room == Capacity - (offset % Capacity)
  IN  [k \in 1 .. IF readable < room THEN readable ELSE room |->
         buffer[(offset % Capacity) + k - 1]]

\* What was written from `offset` on, or a whole buffer when that is less.
ReadAt(offset) ==
  LET readable == writePos - offset IN
  [k \in 1 .. IF readable < Capacity THEN readable ELSE Capacity |->
     buffer[Wrapped((offset % Capacity) + k - 1)]]

-----------------------------------------------------------------------------
\* The cell that byte i goes to holds it until Capacity more were written
\* (source/mod.rs:70-90), wherever the chunks met the end of the buffer.
CellsCurrent ==
  \A i \in 0 .. writePos - 1 :
    i >= writePos - Capacity => buffer[i % Capacity] = i

\* Wherever a reader asks to read from, it gets what RingView says of the
\* number of bytes written (source/mod.rs:93-110): the modules that keep only
\* that number (SourceData) lose nothing of the buffer.
ViewExact == \A p \in 0 .. writePos : ReadAt(p) = View(p, writePos)
=============================================================================
