----------------------------- MODULE Analytics -----------------------------
(***************************************************************************)
(* The analytics collector (crabster-analytics): every second the number   *)
(* of listeners of each source goes into the time series of its mount, a   *)
(* ring that keeps the last samples, and into its peak.  A sample is known *)
(* by its number and the listeners it counted.                             *)
(***************************************************************************)
EXTENDS Integers, Sequences, MountPoints

CONSTANTS Counts,      \* the numbers of listeners
          RingCapacity,   \* RING_CAPACITY (300)
          MaxSamples   \* bound: samples of a mount

ASSUME AnalyticsAssumption ==
  Counts \subseteq Nat /\ RingCapacity \in Nat \ {0} /\ MaxSamples \in Nat

VARIABLES
  due,         \* the mounts of the tick's snapshot that are still to sample
  points,      \* the ring of each mount
  next_index,  \* where the next sample goes once the ring is full
  peak,        \* peak_all_time
  samples      \* history: all the samples of each mount

analyticsVars == <<due, points, next_index, peak, samples>>

Sample == [at : 1 .. MaxSamples, value : Counts]

AnalyticsTypeOK ==
  /\ due \in SUBSET Mounts
  /\ points \in [Mounts -> Seq(Sample)]
  /\ next_index \in [Mounts -> 0 .. RingCapacity - 1]
  /\ peak \in [Mounts -> Counts \cup {0}]
  /\ samples \in [Mounts -> Seq(Sample)]

AnalyticsInit ==
  /\ due = {}
  /\ points = [m \in Mounts |-> <<>>]
  /\ next_index = [m \in Mounts |-> 0]
  /\ peak = [m \in Mounts |-> 0]
  /\ samples = [m \in Mounts |-> <<>>]

\* The mounts whose samples have not come to the bound.
Sampled == {m \in Mounts : Len(samples[m]) < MaxSamples}

\* The second is over: the registered sources are taken.
Tick ==
  /\ due = {}
  /\ due' \in SUBSET Sampled \ {{}}
  /\ UNCHANGED <<points, next_index, peak, samples>>

\* Mutant: a ring that has just been filled goes on at its second point.
RecordedLate(ring, i, sample) ==
  IF Len(ring) < RingCapacity THEN Append(ring, sample)
  ELSE [ring EXCEPT ![((i + 1) % RingCapacity) + 1] = sample]

\* TimeSeriesRingBuffer::record.
Recorded(ring, i, sample) ==
  IF Len(ring) < RingCapacity THEN Append(ring, sample)
  ELSE [ring EXCEPT ![i + 1] = sample]

\* record_concurrent.
RecordConcurrent(m, n) ==
  LET sample == [at |-> Len(samples[m]) + 1, value |-> n] IN
  /\ m \in due
  /\ due' = due \ {m}
  /\ points' = [points EXCEPT ![m] = Recorded(@, next_index[m], sample)]
  /\ next_index' = [next_index EXCEPT ![m] = (@ + 1) % RingCapacity]
  /\ peak' = [peak EXCEPT ![m] = IF n > @ THEN n ELSE @]
  /\ samples' = [samples EXCEPT ![m] = Append(@, sample)]

AnalyticsNext ==
  \/ Tick
  \/ \E m \in Mounts : \E n \in Counts : RecordConcurrent(m, n)
  \/ due = {} /\ Sampled = {} /\ UNCHANGED analyticsVars

AnalyticsSpec == AnalyticsInit /\ [][AnalyticsNext]_analyticsVars
-----------------------------------------------------------------------------
\* What a request gets of a mount that asks for its whole series: the points in
\* the order of the ring.
Recent(m) == points[m]

\* The ring from its oldest sample on, which is not the order in which a
\* request gets it once the ring has wrapped.
Unrolled(m) ==
  [k \in DOMAIN Recent(m) |->
     IF Len(Recent(m)) < RingCapacity THEN Recent(m)[k]
     ELSE Recent(m)[((next_index[m] + k - 1) % RingCapacity) + 1]]

\* And its peak.
Peak(m) == peak[m]

\* The series of a mount is its last samples, up to the capacity, in the order
\* of time from next_index on, and its peak is the largest of all: neither the
\* step from a growing ring to a full one nor a wrap loses or repeats one.
SeriesIsLatest ==
  \A m \in Mounts :
    LET n == Len(samples[m])
        kept == IF n < RingCapacity THEN n ELSE RingCapacity
    IN  /\ Unrolled(m) = SubSeq(samples[m], n - kept + 1, n)
        /\ \A i \in 1 .. n : samples[m][i].value <= Peak(m)
=============================================================================
