------------------------------ MODULE RingView ------------------------------
(***************************************************************************)
(* What RingBuffer::read returns, seen from outside the buffer: a function *)
(* of the position asked for and of the number of bytes written so far.    *)
(***************************************************************************)
EXTENDS Integers, Sequences

CONSTANT Capacity

ASSUME CapacityAssumption == Capacity \in Nat \ {0}

\* The last of the first w bytes that went to cell x.
LatestIn(x, w) == (w - 1) - ((w - 1 - x) % Capacity)

\* The bytes that read(p) returns when w were written.  When more than a
\* buffer was written since p they come in the order of the cells, which is
\* not the order of the stream.
View(p, w) ==
  LET readable == w - p IN
  [k \in 1 .. IF readable < Capacity THEN readable ELSE Capacity |->
     LatestIn((p + k - 1) % Capacity, w)]
=============================================================================
