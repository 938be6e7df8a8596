----------------------------- MODULE SourceData -----------------------------
(***************************************************************************)
(* The source connections and the bytes they write.  Each Source object    *)
(* has a ring buffer of its own, which starts empty; of the buffer only    *)
(* the number of bytes written is kept (RingView).  A byte is the          *)
(* connection that wrote it and its position in that connection's stream.  *)
(***************************************************************************)
EXTENDS SourceStream, RingView

CONSTANT MaxPos   \* bound: how much one connection writes

ASSUME SourceDataAssumption == MaxPos \in Nat

VARIABLE wpos     \* current_position of the buffer of each connection

dataVars == <<srcVars, wpos>>

Bytes == Conns \X (0 .. MaxPos - 1)

DataTypeOK == SourceTypeOK /\ wpos \in [Conns -> 0 .. MaxPos]

DataInit == SourceInit /\ wpos = [c \in Conns |-> 0]

\* The read loop of a source appends what it received.
WriteData(c) ==
  /\ srcPc[c] = "streaming"
  /\ wpos[c] < MaxPos
  /\ wpos' = [wpos EXCEPT ![c] = @ + 1]
  /\ UNCHANGED srcVars

\* What read(p) on the buffer of connection c returns.
ReadFrom(c, p) ==
  LET bytes == View(p, wpos[c]) IN [k \in DOMAIN bytes |-> <<c, bytes[k]>>]

\* The reader has been lapped: the read comes without the oldest bytes.
Lapped(c, p) == wpos[c] - p > Capacity

DataNext == \E c \in Conns : WriteData(c) \/ (SourceStep(c) /\ UNCHANGED wpos)
=============================================================================
