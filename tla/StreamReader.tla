---------------------------- MODULE StreamReader ----------------------------
(***************************************************************************)
(* The tasks that poll a ring buffer while its source writes: listeners    *)
(* (handle_get of lib.rs), the watchers and bursts of a cluster origin     *)
(* (origin.rs) and the HLS packager share one loop.  It looks at           *)
(* current_position, then reads from its own position under another lock,  *)
(* and the source may write in between.  Delivering takes as long as the   *)
(* client likes.                                                           *)
(***************************************************************************)
EXTENDS RingBuffer

CONSTANTS Readers,
          MaxChunk,   \* the longest write of a source: 8192 or 16384 bytes
          MaxPos      \* bound: how many bytes a source writes

ASSUME StreamReaderAssumption ==
  /\ MaxChunk \in Nat
  /\ MaxChunk < Capacity
  /\ MaxPos \in Nat

VARIABLES
  rpc,     \* where each reader is
  pos,     \* pos, last_pos, last_read_pos
  cur,     \* current_pos
  data,    \* what the read returned
  from,    \* history: the position of the last read,
  upto,    \* the end of the stream at that read,
  sent,    \* at the read before it,
  older    \* and at the one before that

readerVars == <<rpc, pos, cur, data, from, upto, sent, older>>
vars == <<ringVars, readerVars>>

Positions == 0 .. MaxPos

\* Every byte in the hands of a reader is one that the source wrote.
TypeOK ==
  /\ RingTypeOK
  /\ writePos \in Positions
  /\ rpc \in [Readers -> {"idle", "loop", "read", "deliver"}]
  /\ pos \in [Readers -> Positions]
  /\ cur \in [Readers -> Positions]
  /\ data \in [Readers -> Seq(Nat)]
  /\ from \in [Readers -> Positions]
  /\ upto \in [Readers -> Positions]
  /\ sent \in [Readers -> Positions]
  /\ older \in [Readers -> Positions]

Init ==
  /\ RingInit
  /\ rpc = [r \in Readers |-> "idle"]
  /\ pos = [r \in Readers |-> 0]
  /\ cur = [r \in Readers |-> 0]
  /\ data = [r \in Readers |-> <<>>]
  /\ from = [r \in Readers |-> 0]
  /\ upto = [r \in Readers |-> 0]
  /\ sent = [r \in Readers |-> 0]
  /\ older = [r \in Readers |-> 0]

\* The source writes a chunk.
Feed(n) ==
  /\ writePos + n <= MaxPos
  /\ Write(n)
  /\ UNCHANGED readerVars

AttachAt(r, p) ==
  /\ rpc[r] = "idle"
  /\ rpc' = [rpc EXCEPT ![r] = "loop"]
  /\ pos' = [pos EXCEPT ![r] = p]
  /\ upto' = [upto EXCEPT ![r] = p]
  /\ sent' = [sent EXCEPT ![r] = p]
  /\ UNCHANGED <<ringVars, cur, data, from, older>>

\* A listener joins at the end of the stream.
AttachListener(r) == AttachAt(r, writePos)

\* Watchers, bursts and HLS sessions begin at position 0.
AttachFromStart(r) == AttachAt(r, 0)

\* There is something past pos.
Look(r) ==
  /\ rpc[r] = "loop"
  /\ writePos > pos[r]
  /\ cur' = [cur EXCEPT ![r] = writePos]
  /\ rpc' = [rpc EXCEPT ![r] = "read"]
  /\ UNCHANGED <<ringVars, pos, data, from, upto, sent, older>>

ReadRound(r) ==
  /\ rpc[r] = "read"
  /\ data' = [data EXCEPT ![r] = ReadAt(pos[r])]
  /\ from' = [from EXCEPT ![r] = pos[r]]
  /\ upto' = [upto EXCEPT ![r] = writePos]
  /\ sent' = [sent EXCEPT ![r] = upto[r]]
  /\ older' = [older EXCEPT ![r] = sent[r]]
  /\ rpc' = [rpc EXCEPT ![r] = "deliver"]
  /\ UNCHANGED <<ringVars, cur>>

\* Mutant: the position stays where it was.
ReadAndStay(r) == ReadRound(r) /\ UNCHANGED pos

\* The read under the second lock, and pos = current_pos.
Read(r) == ReadRound(r) /\ pos' = [pos EXCEPT ![r] = cur[r]]

\* Mutant: the position is looked up again when the data is out.
DeliverAndReposition(r) ==
  /\ rpc[r] = "deliver"
  /\ rpc' = [rpc EXCEPT ![r] = "loop"]
  /\ data' = [data EXCEPT ![r] = <<>>]
  /\ pos' = [pos EXCEPT ![r] = writePos]
  /\ UNCHANGED <<ringVars, cur, from, upto, sent, older>>

\* The data is written to the client, broadcast or packed.
Deliver(r) ==
  /\ rpc[r] = "deliver"
  /\ rpc' = [rpc EXCEPT ![r] = "loop"]
  /\ data' = [data EXCEPT ![r] = <<>>]
  /\ UNCHANGED <<ringVars, pos, cur, from, upto, sent, older>>

\* The source is at its end and every reader has caught up.
Done ==
  /\ writePos = MaxPos
  /\ \A r \in Readers : rpc[r] = "loop" /\ pos[r] = writePos

Next ==
  \/ \E n \in 1 .. MaxChunk : Feed(n)
  \/ \E r \in Readers :
       \/ AttachListener(r) \/ AttachFromStart(r)
       \/ Look(r) \/ Read(r) \/ Deliver(r)
  \/ Done /\ UNCHANGED vars

Spec == Init /\ [][Next]_vars

-----------------------------------------------------------------------------
Delivering(r) == rpc[r] = "deliver"
Lapped(r) == upto[r] - from[r] > Capacity

\* The bytes a to b - 1 of the stream.
Stretch(a, b) == [k \in 1 .. b - a |-> a + k - 1]

\* A reader that is not more than the capacity behind gets the stream from its
\* position to the end, every byte in its place (lib.rs:1349-1352).
DeliversStream ==
  \A r \in Readers :
    Delivering(r) /\ ~Lapped(r) => data[r] = Stretch(from[r], upto[r])

\* The last Capacity bytes before `end`, the newest `n` of them first.
NewestFirst(n, end) ==
  [k \in 1 .. Capacity |-> IF k <= n THEN (end - n) + (k - 1)
                           ELSE (end - Capacity) + (k - n - 1)]

\* One that was lapped gets the newest bytes, all that the buffer has room for,
\* and out of order unless it is whole buffers behind: it begins where its own
\* position lies in the buffer, goes on to the end of the stream, and then come
\* the bytes that are older than those (source/mod.rs:98-107).
DeliversNewest ==
  \A r \in Readers :
    Delivering(r) /\ Lapped(r)
      => \E n \in 0 .. Capacity - 1 :
           /\ (upto[r] - n) % Capacity = from[r] % Capacity
           /\ data[r] = NewestFirst(n, upto[r])

\* No read begins past the end of the one before: nothing is skipped, although
\* the position and the data are taken under two locks.
NoGap == \A r \in Readers : Delivering(r) => from[r] <= sent[r]

\* What is written between the two locks is read again in the next round, and
\* in that round only: no byte is delivered three times.
AtMostTwice == \A r \in Readers : Delivering(r) => older[r] <= from[r]
=============================================================================
