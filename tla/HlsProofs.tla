----------------------------- MODULE HlsProofs -----------------------------
(***************************************************************************)
(* What holds of the HLS packager for any mounts, sources, buffer and      *)
(* window: its types, the numbering of the segments, that a player misses  *)
(* no byte, and that no session is removed under a source it plays.        *)
(***************************************************************************)
EXTENDS Hls, SourceStreamProofs, RingViewProofs

USE HlsAssumption, SourceDataAssumption

-----------------------------------------------------------------------------
(* The sessions: what sealing a segment keeps *)

SessionOK(s) == s \in Sessions /\ WindowOK(s)

\* A session holds bytes, and the one that a player gets last.
Filled(s) == s.current # <<>> \/ s.segments # <<>>
Newest(s) ==
  LET last == IF s.current # <<>> THEN s.current
              ELSE s.segments[Len(s.segments)].data
  IN  last[Len(last)]

\* From s to t the window has moved on, if at all: what both list under one
\* number is one segment.
First(s) == s.counter - Len(s.segments)
SameData(s, t) ==
  \A k \in DOMAIN s.segments, j \in DOMAIN t.segments :
    s.segments[k].sequence = t.segments[j].sequence
      => s.segments[k].data = t.segments[j].data
MovesOn(s, t) ==
  /\ s.counter <= t.counter /\ First(s) <= First(t)
  /\ SameData(s, t)

\* From s to t bytes have moved to a segment or out of the window, and time
\* has passed: the numbers and the order are kept, and no byte is new.
Settles(s, t) ==
  /\ SessionOK(s) /\ SessionOK(t)
  /\ MovesOn(s, t)
  /\ t.lastRead = s.lastRead
  /\ Packaged(t) \subseteq Packaged(s)
  /\ GapFree(s) => GapFree(t)
  /\ Filled(t) = Filled(s)
  /\ Filled(s) => Newest(t) = Newest(s)

LEMMA SessionShape ==
  ASSUME NEW s, SessionOK(s)
  PROVE  /\ s.counter \in Nat /\ Len(s.segments) \in Nat /\ First(s) \in Nat
         /\ s.segments \in Seq([sequence : Nat, data : Seq(Bytes)])
         /\ DOMAIN s.segments = 1 .. Len(s.segments)
         /\ \A k \in DOMAIN s.segments : s.segments[k].sequence = First(s) + k - 1
<1> DEFINE Segment == [sequence : Nat, data : Seq(Bytes)]
<1>1. s.counter \in Nat /\ s.segments \in Seq(Segment)
  BY DEF SessionOK, Sessions
<1> HIDE DEF Segment
<1>2. Len(s.segments) \in Nat /\ DOMAIN s.segments = 1 .. Len(s.segments)
  BY <1>1
<1>3. Len(s.segments) <= s.counter
  BY <1>1, <1>2 DEF SessionOK, WindowOK
<1>4. \A k \in DOMAIN s.segments :
        s.segments[k].sequence = s.counter - Len(s.segments) + k - 1
  BY DEF SessionOK, WindowOK, Playlist
<1> QED
  BY <1>1, <1>2, <1>3, <1>4 DEF First, Segment

\* A number between the first of a list of l numbers and its end has a place.
LEMMA PlaceOf ==
  ASSUME NEW l \in Nat, NEW c \in Nat, c - l \in Nat
  PROVE  /\ \A k \in 1 .. l : /\ (c - l) + k - 1 \in Nat
                             /\ (c - l) + k - 1 < c /\ c - l <= (c - l) + k - 1
         /\ \A n \in Nat : c - l <= n /\ n < c =>
              /\ n - (c - l) + 1 \in 1 .. l
              /\ (c - l) + (n - (c - l) + 1) - 1 = n
OBVIOUS

LEMMA Places ==
  ASSUME NEW s, SessionOK(s)
  PROVE  /\ \A k \in DOMAIN s.segments :
              LET n == s.segments[k].sequence IN
              n \in Nat /\ n < s.counter /\ First(s) <= n
         /\ \A n \in Nat : First(s) <= n /\ n < s.counter =>
              \E k \in DOMAIN s.segments : s.segments[k].sequence = n
<1> DEFINE c == s.counter
           l == Len(s.segments)
<1>1. /\ c \in Nat /\ l \in Nat /\ c - l \in Nat /\ First(s) = c - l
      /\ DOMAIN s.segments = 1 .. l
      /\ \A k \in DOMAIN s.segments : s.segments[k].sequence = (c - l) + k - 1
  BY SessionShape DEF First
<1> HIDE DEF c, l
<1>2. /\ \A k \in 1 .. l : /\ (c - l) + k - 1 \in Nat
                          /\ (c - l) + k - 1 < c /\ c - l <= (c - l) + k - 1
      /\ \A n \in Nat : c - l <= n /\ n < c =>
           /\ n - (c - l) + 1 \in 1 .. l
           /\ (c - l) + (n - (c - l) + 1) - 1 = n
  BY <1>1, PlaceOf
<1>3. ASSUME NEW n \in Nat, c - l <= n, n < c
      PROVE  \E k \in DOMAIN s.segments : s.segments[k].sequence = n
  <2> DEFINE k == n - (c - l) + 1
  <2>1. k \in DOMAIN s.segments /\ (c - l) + k - 1 = n
    BY <1>1, <1>2, <1>3
  <2> QED
    BY <1>1, <2>1
<1>4. c = s.counter
  BY DEF c
<1>5. ASSUME NEW k \in DOMAIN s.segments
      PROVE  LET n == s.segments[k].sequence IN n \in Nat /\ n < c /\ First(s) <= n
  <2>1. k \in 1 .. l /\ s.segments[k].sequence = (c - l) + k - 1
    BY <1>1
  <2> QED
    BY <1>1, <1>2, <2>1
<1>6. \A n \in Nat : First(s) <= n /\ n < c =>
        \E k \in DOMAIN s.segments : s.segments[k].sequence = n
  BY <1>1, <1>3
<1> QED
  BY <1>4, <1>5, <1>6

\* Sessions with the same segments and the same counter.
LEMMA SameListMovesOn ==
  ASSUME NEW s, NEW t, SessionOK(s), t.segments = s.segments, t.counter = s.counter
  PROVE  MovesOn(s, t)
<1>1. /\ s.counter \in Nat /\ First(s) \in Nat /\ First(t) = First(s)
      /\ DOMAIN s.segments = 1 .. Len(s.segments) /\ Len(s.segments) \in Nat
      /\ \A k \in DOMAIN s.segments : s.segments[k].sequence = First(s) + k - 1
  BY SessionShape DEF First
<1>2. ASSUME NEW k \in DOMAIN s.segments, NEW j \in DOMAIN s.segments,
             s.segments[k].sequence = s.segments[j].sequence
      PROVE  k = j
  BY <1>1, <1>2
<1>3. SameData(s, t)
  BY <1>2 DEF SameData
<1> QED
  BY <1>1, <1>3 DEF MovesOn

LEMMA MovesOnTwice ==
  ASSUME NEW s, NEW t, NEW u, SessionOK(s), SessionOK(t), SessionOK(u),
         MovesOn(s, t), MovesOn(t, u)
  PROVE  MovesOn(s, u)
<1>1. /\ s.counter <= u.counter /\ First(s) <= First(u)
      /\ s.counter <= t.counter /\ First(t) <= First(u)
  BY SessionShape DEF MovesOn
<1>2. ASSUME NEW k \in DOMAIN s.segments, NEW j \in DOMAIN u.segments,
             s.segments[k].sequence = u.segments[j].sequence
      PROVE  s.segments[k].data = u.segments[j].data
  <2> DEFINE n == s.segments[k].sequence
  <2>1. n \in Nat /\ n < s.counter /\ First(u) <= n
    BY <1>2, Places
  <2>2. /\ s.counter \in Nat /\ t.counter \in Nat
        /\ First(t) \in Nat /\ First(u) \in Nat
    BY SessionShape
  <2> HIDE DEF n
  <2>3. First(t) <= n /\ n < t.counter
    BY <1>1, <2>1, <2>2
  <2>4. PICK i \in DOMAIN t.segments : t.segments[i].sequence = n
    BY <2>1, <2>3, Places
  <2>5. s.segments[k].data = t.segments[i].data
    BY <2>4 DEF MovesOn, SameData, n
  <2>6. t.segments[i].data = u.segments[j].data
    BY <1>2, <2>4 DEF MovesOn, SameData, n
  <2> QED
    BY <2>5, <2>6
<1> QED
  BY <1>1, <1>2 DEF MovesOn, SameData

LEMMA SettlesSelf ==
  ASSUME NEW s, SessionOK(s)
  PROVE  Settles(s, s)
BY SameListMovesOn DEF Settles

LEMMA SettlesTwice ==
  ASSUME NEW s, NEW t, NEW u, Settles(s, t), Settles(t, u)
  PROVE  Settles(s, u)
BY MovesOnTwice DEF Settles

\* The clocks of a session are not part of what it plays.
LEMMA ClocksSettle ==
  ASSUME NEW s, SessionOK(s), NEW e \in BOOLEAN, NEW q \in {Fresh, Idle, Stale}
  PROVE  Settles(s, [s EXCEPT !.elapsed = e, !.quiet = q])
<1> DEFINE t == [s EXCEPT !.elapsed = e, !.quiet = q]
<1>1. /\ t \in Sessions /\ t.segments = s.segments /\ t.current = s.current
      /\ t.counter = s.counter /\ t.lastRead = s.lastRead
  BY DEF SessionOK, Sessions
<1> HIDE DEF t
<1>2. Packaged(t) = Packaged(s)
  BY <1>1 DEF Packaged
<1>3. GapFree(t) = GapFree(s)
  BY <1>1, Zenon DEF GapFree
<1>4. Filled(t) = Filled(s) /\ Newest(t) = Newest(s)
  BY <1>1, Zenon DEF Filled, Newest
<1>5. WindowOK(t)
  BY <1>1 DEF SessionOK, WindowOK, Playlist
<1>6. MovesOn(s, t)
  BY <1>1, SameListMovesOn
<1> QED
  BY <1>1, <1>2, <1>3, <1>4, <1>5, <1>6 DEF Settles, SessionOK, t

\* A sealed segment goes behind the others and the window moves on by one when
\* it is full.
LEMMA WithSegmentShape ==
  ASSUME NEW s, SessionOK(s), s.current # <<>>
  PROVE  LET t == WithSegment(s)
             n == Len(s.segments)
         IN  /\ t \in Sessions
             /\ t.current = <<>> /\ t.counter = s.counter + 1
             /\ t.lastRead = s.lastRead
             /\ \E o \in {0, 1} :
                  /\ Len(t.segments) = n + 1 - o
                  /\ n + 1 - o = IF t.counter < Window THEN t.counter ELSE Window
                  /\ \A k \in 1 .. n - o : t.segments[k] = s.segments[k + o]
                  /\ t.segments[n + 1 - o]
                       = [sequence |-> s.counter, data |-> s.current]
<1> DEFINE t == WithSegment(s)
           n == Len(s.segments)
           new == [sequence |-> s.counter, data |-> s.current]
           all == Append(s.segments, new)
           Segment == [sequence : Nat, data : Seq(Bytes)]
<1>1. /\ s \in Sessions /\ s.segments \in Seq(Segment) /\ s.current \in Seq(Bytes)
      /\ s.counter \in Nat /\ n \in Nat
  BY DEF SessionOK, Sessions
<1>2. n = IF s.counter < Window THEN s.counter ELSE Window
  BY DEF SessionOK, WindowOK
<1>3. new \in Segment
  BY <1>1
<1> HIDE DEF new, Segment
<1>4. /\ all \in Seq(Segment) /\ Len(all) = n + 1
      /\ \A k \in 1 .. n : all[k] = s.segments[k]
      /\ all[n + 1] = new
  BY <1>1, <1>3
<1>5. t = [s EXCEPT !.segments = IF Len(all) > Window THEN Tail(all) ELSE all,
                    !.current = <<>>, !.counter = @ + 1]
  BY DEF WithSegment, new
<1> HIDE DEF all, t, n
<1>6. /\ t.segments = (IF Len(all) > Window THEN Tail(all) ELSE all)
      /\ t.current = <<>> /\ t.counter = s.counter + 1 /\ t.lastRead = s.lastRead
  BY <1>1, <1>5 DEF Sessions
<1>7. t.segments \in Seq(Segment)
  BY <1>1, <1>4, <1>6
<1>8. t \in Sessions
  <2> DEFINE segs == t.segments
  <2>1. t = [segments |-> segs, current |-> <<>>, counter |-> s.counter + 1,
             lastRead |-> s.lastRead, elapsed |-> s.elapsed, quiet |-> s.quiet]
    BY <1>1, <1>5, <1>6 DEF Sessions
  <2>2. <<>> \in Seq(Bytes) /\ s.counter + 1 \in Nat
    BY <1>1
  <2>3. /\ s.lastRead \in 0 .. MaxPos /\ s.elapsed \in BOOLEAN
        /\ s.quiet \in {Fresh, Idle, Stale}
    BY <1>1 DEF Sessions
  <2>4. segs \in Seq(Segment)
    BY <1>7
  <2> HIDE DEF segs
  <2> QED
    BY <2>1, <2>2, <2>3, <2>4 DEF Sessions, Segment
<1>9. CASE Len(all) > Window
  <2>1. n = Window /\ t.segments = Tail(all)
    BY <1>1, <1>2, <1>4, <1>6, <1>9
  <2>2. Len(t.segments) = n /\ \A k \in 1 .. n : t.segments[k] = all[k + 1]
    BY <1>1, <1>4, <2>1
  <2>3. n + 1 - 1 = n /\ n \in 1 .. n /\ \A k \in 1 .. n - 1 : k \in 1 .. n /\ k + 1 \in 1 .. n
    BY <1>1, <2>1
  <2>4. /\ \A k \in 1 .. n - 1 : t.segments[k] = s.segments[k + 1]
        /\ t.segments[n] = new
    BY <1>4, <2>2, <2>3
  <2>5. n = IF t.counter < Window THEN t.counter ELSE Window
    BY <1>1, <1>2, <1>6, <2>1
  <2> QED
    BY <1>6, <1>8, <2>2, <2>3, <2>4, <2>5 DEF t, n, new
<1>10. CASE ~(Len(all) > Window)
  <2>1. t.segments = all /\ n < Window
    BY <1>1, <1>4, <1>6, <1>10
  <2>2. n + 1 = IF t.counter < Window THEN t.counter ELSE Window
    BY <1>1, <1>2, <1>6, <2>1
  <2>3. n + 1 - 0 = n + 1 /\ n - 0 = n /\ \A k \in 1 .. n : k + 0 = k
    BY <1>1
  <2> QED
    BY <1>4, <1>6, <1>8, <2>1, <2>2, <2>3 DEF t, n, new
<1> QED
  BY <1>9, <1>10

LEMMA WithSegmentSettles ==
  ASSUME NEW s, SessionOK(s), s.current # <<>>
  PROVE  Settles(s, WithSegment(s))
<1> DEFINE t == WithSegment(s)
           n == Len(s.segments)
           Segment == [sequence : Nat, data : Seq(Bytes)]
<1>1. /\ t \in Sessions
      /\ t.current = <<>> /\ t.counter = s.counter + 1
      /\ t.lastRead = s.lastRead
  BY WithSegmentShape
<1>2. PICK o \in {0, 1} :
        /\ Len(t.segments) = n + 1 - o
        /\ n + 1 - o = IF t.counter < Window THEN t.counter ELSE Window
        /\ \A k \in 1 .. n - o : t.segments[k] = s.segments[k + o]
        /\ t.segments[n + 1 - o] = [sequence |-> s.counter, data |-> s.current]
  BY WithSegmentShape
<1> HIDE DEF t
<1>3. /\ n \in Nat /\ s.counter \in Nat /\ s.current \in Seq(Bytes)
      /\ s.segments \in Seq(Segment) /\ t.segments \in Seq(Segment)
      /\ Len(s.segments) = n
  BY <1>1 DEF SessionOK, Sessions
<1> HIDE DEF n, Segment
<1>4. /\ DOMAIN s.segments = 1 .. n /\ DOMAIN t.segments = 1 .. n + 1 - o
      /\ o \in Nat /\ o <= 1 /\ o <= n
  <2>1. o \in Nat /\ o <= 1
    BY <1>2
  <2>2. n = IF s.counter < Window THEN s.counter ELSE Window
    BY <1>3 DEF SessionOK, WindowOK
  <2>3. o <= n
    <3>1. t.counter = s.counter + 1 /\ t.counter \in Nat
      BY <1>1, <1>3
    <3>2. n + 1 - o = IF t.counter < Window THEN t.counter ELSE Window
      BY <1>2
    <3> QED
      BY <1>3, <2>1, <2>2, <3>1, <3>2
  <2>4. DOMAIN s.segments = 1 .. n
    BY <1>3
  <2>5. DOMAIN t.segments = 1 .. Len(t.segments)
    BY <1>3
  <2> QED
    BY <1>2, <2>1, <2>3, <2>4, <2>5
<1>5. /\ t.segments[n + 1 - o].sequence = s.counter
      /\ t.segments[n + 1 - o].data = s.current
  BY <1>2
<1>6. \A k \in 1 .. n - o : k + o \in 1 .. n
  BY <1>3, <1>4
<1>7. \A k \in 1 .. n + 1 - o : k \in 1 .. n - o \/ k = n + 1 - o
  BY <1>3, <1>4
<1>8. WindowOK(t)
  <2>1. ASSUME NEW k \in 1 .. n + 1 - o
        PROVE  /\ t.segments[k].sequence = t.counter - Len(t.segments) + k - 1
               /\ t.segments[k].data # <<>>
    <3>1. CASE k \in 1 .. n - o
      <4>1. /\ s.segments[k + o].sequence = s.counter - n + (k + o) - 1
            /\ s.segments[k + o].data # <<>>
        BY <1>3, <1>4, <1>6, <3>1 DEF SessionOK, WindowOK, Playlist
      <4>2. t.segments[k] = s.segments[k + o]
        BY <1>2, <3>1
      <4> QED
        BY <1>1, <1>2, <1>3, <1>4, <3>1, <4>1, <4>2
    <3>2. CASE k = n + 1 - o
      <4>1. t.segments[k].sequence = s.counter /\ t.segments[k].data = s.current
        BY <1>5, <3>2
      <4>2. /\ t.counter = s.counter + 1 /\ Len(t.segments) = n + 1 - o
            /\ n \in Nat /\ s.counter \in Nat
        BY <1>1, <1>2, <1>3
      <4>3. s.counter = t.counter - Len(t.segments) + k - 1
        BY <1>4, <3>2, <4>2
      <4> QED
        BY <4>1, <4>3
    <3> QED
      BY <1>7, <3>1, <3>2
  <2> QED
    BY <1>2, <1>4, <2>1 DEF WindowOK, Playlist
<1>9. Packaged(t) \subseteq Packaged(s)
  <2> SUFFICES ASSUME NEW b \in Packaged(t) PROVE b \in Packaged(s)
    OBVIOUS
  <2>1. PICK k \in 1 .. n + 1 - o : \E j \in DOMAIN t.segments[k].data :
          b = t.segments[k].data[j]
    BY <1>1, <1>4 DEF Packaged
  <2>2. CASE k \in 1 .. n - o
    BY <1>2, <1>4, <1>6, <2>1, <2>2 DEF Packaged
  <2>3. CASE k = n + 1 - o
    BY <1>5, <2>1, <2>3 DEF Packaged
  <2> QED
    BY <1>7, <2>2, <2>3
<1>10. ASSUME GapFree(s) PROVE GapFree(t)
  <2>1. ASSUME NEW k \in 1 .. n + 1 - o PROVE Whole(t.segments[k].data)
    <3>1. CASE k \in 1 .. n - o
      BY <1>2, <1>4, <1>6, <1>10, <3>1 DEF GapFree
    <3>2. CASE k = n + 1 - o
      BY <1>5, <1>10, <3>2 DEF GapFree
    <3> QED
      BY <1>7, <3>1, <3>2
  <2>2. ASSUME NEW k \in 1 .. (n + 1 - o) - 1
        PROVE  Joins(t.segments[k].data, t.segments[k + 1].data)
    <3>0. k \in 1 .. n - o
      BY <1>3, <1>4
    <3>1. k \in 1 .. n - o /\ t.segments[k] = s.segments[k + o]
      BY <1>2, <3>0
    <3>2. CASE k + 1 \in 1 .. n - o
      <4>1. t.segments[k + 1] = s.segments[(k + 1) + o]
        BY <1>2, <3>2
      <4>2. (k + 1) + o = (k + o) + 1 /\ k + o \in 1 .. n - 1
        BY <1>3, <1>4, <3>1, <3>2
      <4> QED
        BY <1>3, <1>10, <3>1, <4>1, <4>2 DEF GapFree
    <3>3. CASE k + 1 = n + 1 - o
      <4>1. k + o = n /\ s.segments # <<>>
        BY <1>3, <1>4, <3>1, <3>3
      <4>2. Joins(s.segments[n].data, s.current)
        BY <1>3, <1>10, <4>1 DEF GapFree
      <4> QED
        BY <1>5, <3>1, <3>3, <4>1, <4>2
    <3>4. k + 1 \in 1 .. n + 1 - o
      BY <1>3, <1>4
    <3> QED
      BY <1>7, <3>2, <3>3, <3>4
  <2>3. Whole(t.current)
    BY <1>1 DEF Whole
  <2> QED
    BY <1>1, <1>2, <1>4, <2>1, <2>2, <2>3 DEF GapFree
<1>11. Filled(t) /\ Filled(s) /\ Newest(t) = Newest(s)
  <2>1. n + 1 - o # 0 /\ t.segments # <<>>
    BY <1>2, <1>3, <1>4
  <2> QED
    BY <1>1, <1>2, <1>5, <2>1 DEF Filled, Newest
<1>12. SessionOK(t)
  BY <1>1, <1>8 DEF SessionOK
<1>13. MovesOn(s, t)
  <2>1. First(t) = First(s) + o /\ First(s) \in Nat /\ First(s) = s.counter - n
    BY <1>1, <1>2, <1>3, <1>4, SessionShape DEF First
  <2>2. ASSUME NEW k \in DOMAIN s.segments, NEW j \in DOMAIN t.segments,
               s.segments[k].sequence = t.segments[j].sequence
        PROVE  s.segments[k].data = t.segments[j].data
    <3>1. First(s) + k - 1 = First(t) + j - 1
      BY <1>12, <2>2, SessionShape
    <3>2. k \in 1 .. n /\ j \in 1 .. n + 1 - o
      BY <1>4
    <3>3. k = j + o /\ j \in 1 .. n - o
      <4>1. First(s) + k - 1 = (First(s) + o) + j - 1
        BY <2>1, <3>1
      <4>2. n \in Nat /\ o \in Nat /\ First(s) \in Nat
        BY <1>3, <1>4, <2>1
      <4>3. k \in Nat /\ k <= n /\ j \in Nat /\ 1 <= j
        BY <3>2, <4>2
      <4> QED
        BY <4>1, <4>2, <4>3
    <3> QED
      BY <1>2, <3>3
  <2> QED
    BY <1>1, <1>3, <1>4, <2>1, <2>2 DEF MovesOn, SameData
<1> QED
  BY <1>1, <1>9, <1>10, <1>11, <1>12, <1>13 DEF Settles, t

\* Both ways to seal a segment, and the end of a visit, settle the session.
LEMMA SealedSettles ==
  ASSUME NEW s, SessionOK(s)
  PROVE  Settles(s, Sealed(s)) /\ Settles(s, ForceSealed(s))
<1>1. CASE s.current = <<>>
  BY <1>1, SettlesSelf DEF Sealed, ForceSealed
<1>2. CASE s.current # <<>>
  <2> DEFINE t == WithSegment(s)
  <2>1. Settles(s, t)
    BY <1>2, WithSegmentSettles
  <2> HIDE DEF t
  <2>2. SessionOK(t) /\ t \in Sessions /\ t.quiet \in {Fresh, Idle, Stale}
    BY <2>1 DEF Settles, SessionOK, Sessions
  <2>3. Settles(t, [t EXCEPT !.elapsed = FALSE, !.quiet = t.quiet])
    BY <2>2, ClocksSettle
  <2>4. [t EXCEPT !.elapsed = FALSE, !.quiet = t.quiet] = [t EXCEPT !.elapsed = FALSE]
    BY <2>2 DEF Sessions
  <2>5. Sealed(s) = [t EXCEPT !.elapsed = FALSE] /\ ForceSealed(s) = t
    BY <1>2 DEF Sealed, ForceSealed, t
  <2> QED
    BY <2>1, <2>3, <2>4, <2>5, SettlesTwice
<1> QED
  BY <1>1, <1>2

LEMMA SettledSettles ==
  ASSUME NEW s, SessionOK(s)
  PROVE  Settles(s, Settled(s))
<1> DEFINE due == IF s.current # <<>> /\ s.elapsed THEN Sealed(s) ELSE s
<1>1. Settles(s, due)
  BY SealedSettles, SettlesSelf
<1> HIDE DEF due
<1>2. Settles(due, ForceSealed(due)) /\ Settles(due, due)
  BY <1>1, SealedSettles, SettlesSelf DEF Settles
<1>3. Settled(s) = IF due.quiet # Fresh THEN ForceSealed(due) ELSE due
  BY DEF Settled, due
<1> QED
  BY <1>1, <1>2, <1>3, SettlesTwice

\* What a session holds was collected from connections.
LEMMA PackagedBytes ==
  ASSUME NEW s, SessionOK(s)
  PROVE  Packaged(s) \subseteq Bytes
<1> DEFINE Segment == [sequence : Nat, data : Seq(Bytes)]
<1>1. s.current \in Seq(Bytes) /\ s.segments \in Seq(Segment)
  BY DEF SessionOK, Sessions
<1>2. \A j \in DOMAIN s.current : s.current[j] \in Bytes
  BY <1>1
<1>3. ASSUME NEW k \in DOMAIN s.segments
      PROVE  \A j \in DOMAIN s.segments[k].data : s.segments[k].data[j] \in Bytes
  <2>1. s.segments[k] \in Segment
    <3> HIDE DEF Segment
    <3> QED
      BY <1>1, <1>3
  <2>2. s.segments[k].data \in Seq(Bytes)
    BY <2>1
  <2> QED
    BY <2>2
<1> QED
  BY <1>2, <1>3 DEF Packaged

\* Bytes that are fed come behind all others, and the read position is moved.
LEMMA FedKeeps ==
  ASSUME NEW s, SessionOK(s), NEW bytes \in Seq(Bytes), bytes # <<>>,
         NEW q \in 0 .. MaxPos
  PROVE  LET t == [Fed(s, bytes) EXCEPT !.lastRead = q] IN
         /\ SessionOK(t) /\ MovesOn(s, t)
         /\ t.lastRead = q
         /\ Packaged(t) \subseteq Packaged(s) \cup {bytes[k] : k \in DOMAIN bytes}
         /\ Filled(t) /\ Newest(t) = bytes[Len(bytes)]
         /\ /\ GapFree(s) /\ Whole(bytes)
            /\ Filled(s) => Follows(Newest(s), bytes[1])
            => GapFree(t)
<1> DEFINE cur == s.current \o bytes
           fed == [s EXCEPT !.current = cur, !.quiet = Fresh]
           n == Len(s.current)
           g == Fed(s, bytes)
           t == [g EXCEPT !.lastRead = q]
<1>1. s.current \in Seq(Bytes) /\ n \in Nat /\ Len(bytes) \in Nat \ {0}
  BY DEF SessionOK, Sessions
<1>2. /\ cur \in Seq(Bytes) /\ Len(cur) = n + Len(bytes)
      /\ \A j \in 1 .. n : cur[j] = s.current[j]
      /\ \A j \in n + 1 .. n + Len(bytes) : cur[j] = bytes[j - n]
  BY <1>1
<1> HIDE DEF cur
<1>3. /\ fed.segments = s.segments /\ fed.current = cur /\ fed.counter = s.counter
      /\ fed.lastRead = s.lastRead
  BY DEF SessionOK, Sessions
<1>4. fed \in Sessions
  <2>0. s \in Sessions
    BY DEF SessionOK
  <2> DEFINE f == [s EXCEPT !.current = cur]
  <2>1. f \in Sessions
    BY <1>2, <2>0 DEF Sessions
  <2>2. fed = [f EXCEPT !.quiet = Fresh]
    OBVIOUS
  <2> HIDE DEF f, fed
  <2> QED
    BY <2>1, <2>2 DEF Sessions
<1> HIDE DEF fed, n
<1>5. SessionOK(fed) /\ MovesOn(s, fed)
  <2>1. SessionOK(fed)
    BY <1>3, <1>4 DEF SessionOK, WindowOK, Playlist
  <2> QED
    BY <1>3, <2>1, SameListMovesOn
<1>6. Packaged(fed) \subseteq Packaged(s) \cup {bytes[k] : k \in DOMAIN bytes}
  <2>1. ASSUME NEW j \in DOMAIN cur
        PROVE  cur[j] \in Packaged(s) \cup {bytes[k] : k \in DOMAIN bytes}
    <3>1. j \in 1 .. n + Len(bytes)
      BY <1>2
    <3>2. CASE j \in 1 .. n
      BY <1>1, <1>2, <3>2 DEF Packaged, n
    <3>3. CASE j \in n + 1 .. n + Len(bytes)
      <4>1. j - n \in DOMAIN bytes /\ cur[j] = bytes[j - n]
        BY <1>1, <1>2, <3>3
      <4> QED
        BY <4>1
    <3> QED
      BY <1>1, <3>1, <3>2, <3>3
  <2> QED
    BY <1>3, <2>1 DEF Packaged
<1>7. Filled(fed) /\ Newest(fed) = bytes[Len(bytes)]
  <2>1. cur # <<>> /\ cur[Len(cur)] = bytes[Len(bytes)]
    BY <1>1, <1>2
  <2> QED
    BY <1>3, <2>1 DEF Filled, Newest
<1>8. ASSUME GapFree(s), Whole(bytes), Filled(s) => Follows(Newest(s), bytes[1])
      PROVE  GapFree(fed)
  <2>1. ASSUME NEW j \in 1 .. Len(cur) - 1 PROVE Follows(cur[j], cur[j + 1])
    <3>1. CASE j < n
      <4>1. j \in 1 .. n - 1 /\ j \in 1 .. n /\ j + 1 \in 1 .. n
        BY <1>1, <1>2, <3>1
      <4>2. Follows(s.current[j], s.current[j + 1])
        BY <1>8, <4>1 DEF GapFree, Whole, n
      <4> QED
        BY <1>2, <4>1, <4>2
    <3>2. CASE j = n
      <4>1. /\ n \in 1 .. n /\ n + 1 \in n + 1 .. n + Len(bytes)
            /\ (n + 1) - n = 1 /\ s.current # <<>>
        BY <1>1, <1>2, <3>2 DEF n
      <4>2. cur[j] = s.current[n] /\ cur[j + 1] = bytes[1]
        BY <1>2, <3>2, <4>1
      <4>3. Follows(s.current[n], bytes[1])
        BY <1>8, <4>1 DEF Filled, Newest, n
      <4> QED
        BY <4>2, <4>3
    <3>3. CASE j > n
      <4> DEFINE i == j - n
      <4>1. /\ i \in 1 .. Len(bytes) - 1 /\ (j + 1) - n = i + 1
            /\ j \in n + 1 .. n + Len(bytes) /\ j + 1 \in n + 1 .. n + Len(bytes)
        BY <1>1, <1>2, <3>3
      <4>2. Follows(bytes[i], bytes[i + 1])
        BY <1>8, <4>1 DEF Whole
      <4>3. cur[j] = bytes[i] /\ cur[j + 1] = bytes[i + 1]
        BY <1>2, <4>1
      <4> QED
        BY <4>2, <4>3
    <3> QED
      <4>1. j \in Nat
        BY <1>1, <1>2
      <4> QED
        BY <1>1, <3>1, <3>2, <3>3, <4>1
  <2>2. ASSUME s.segments # <<>>
        PROVE  Joins(s.segments[Len(s.segments)].data, cur)
    <3> DEFINE d == s.segments[Len(s.segments)].data
    <3>1. CASE s.current # <<>>
      <4>1. n # 0 /\ cur[1] = s.current[1]
        BY <1>1, <1>2, <3>1 DEF n
      <4> QED
        BY <1>8, <2>2, <3>1, <4>1 DEF GapFree, Joins
    <3>2. CASE s.current = <<>>
      <4>1. n = 0
        BY <3>2 DEF n
      <4>2. cur[1] = bytes[1]
        <5>1. 1 \in n + 1 .. n + Len(bytes) /\ 1 - n = 1
          BY <1>1, <4>1
        <5> QED
          BY <1>2, <5>1
      <4>3. Follows(d[Len(d)], bytes[1])
        BY <1>8, <2>2, <3>2 DEF Filled, Newest
      <4> QED
        BY <4>2, <4>3 DEF Joins
    <3> QED
      BY <3>1, <3>2
  <2> QED
    BY <1>3, <1>8, <2>1, <2>2 DEF GapFree, Whole
<1>9. Settles(fed, g)
  BY <1>5, SealedSettles, SettlesSelf DEF Fed, fed, cur
<1> HIDE DEF g
<1>10. SessionOK(g) /\ g \in Sessions
  BY <1>9 DEF Settles, SessionOK
<1>11. /\ t \in Sessions /\ t.segments = g.segments /\ t.current = g.current
       /\ t.counter = g.counter /\ t.lastRead = q
  BY <1>10 DEF Sessions
<1> HIDE DEF t
<1>12. /\ SessionOK(t) /\ MovesOn(s, t) /\ Packaged(t) = Packaged(g)
       /\ Filled(t) = Filled(g) /\ Newest(t) = Newest(g)
       /\ GapFree(g) => GapFree(t)
  <2>1. SessionOK(t)
    BY <1>10, <1>11 DEF SessionOK, WindowOK, Playlist
  <2>2. Packaged(t) = Packaged(g)
    BY <1>11 DEF Packaged
  <2>3. Filled(t) = Filled(g) /\ Newest(t) = Newest(g)
    BY <1>11, Zenon DEF Filled, Newest
  <2>4. GapFree(g) => GapFree(t)
    BY <1>11, Zenon DEF GapFree
  <2>5. MovesOn(s, t)
    <3>1. MovesOn(g, t)
      BY <1>10, <1>11, SameListMovesOn
    <3>2. MovesOn(s, g)
      BY <1>5, <1>9, MovesOnTwice DEF Settles
    <3> QED
      BY <1>10, <2>1, <3>1, <3>2, MovesOnTwice
  <2> QED
    BY <2>1, <2>2, <2>3, <2>4, <2>5
<1>13. /\ Packaged(t) \subseteq Packaged(s) \cup {bytes[k] : k \in DOMAIN bytes}
       /\ Filled(t) /\ Newest(t) = bytes[Len(bytes)]
  BY <1>6, <1>7, <1>9, <1>12 DEF Settles
<1>14. /\ GapFree(s) /\ Whole(bytes)
       /\ Filled(s) => Follows(Newest(s), bytes[1])
       => GapFree(t)
  BY <1>8, <1>9, <1>12 DEF Settles
<1> QED
  BY <1>11, <1>12, <1>13, <1>14 DEF t, g

-----------------------------------------------------------------------------
(* The sources under the packager *)

\* The packager reads the registry and the buffers and changes neither.
THEOREM SourcesRefined == HlsSpec => SourceSpec
<1>1. HlsInit => SourceInit
  BY DEF HlsInit, DataInit
<1>2. [HlsNext]_vars => [SourceNext]_srcVars
  <2> SUFFICES ASSUME [HlsNext]_vars PROVE [SourceNext]_srcVars
    OBVIOUS
  <2>1. CASE DataNext
    BY <2>1 DEF DataNext, WriteData, SourceNext
  <2>2. CASE UNCHANGED dataVars
    BY <2>2 DEF dataVars
  <2>3. PollStep => UNCHANGED dataVars
    BY DEF PollStep, Poll, ReadBuffer, Judge, Sweep, VisitGone, VisitSource
  <2>4. ASSUME NEW m \in Mounts, EnsureSession(m) \/ Lengthen(m) \/ GrowQuiet(m)
        PROVE  UNCHANGED dataVars
    BY <2>4 DEF EnsureSession, Lengthen, GrowQuiet
  <2> QED
    BY <2>1, <2>2, <2>3, <2>4 DEF HlsNext, vars
<1> QED
  BY <1>1, <1>2, PTL DEF HlsSpec, SourceSpec

\* A connection writes only after it registered.
WroteOK ==
  \A c \in Conns : wpos[c] > 0 => srcPc[c] \in {"streaming", "unregister", "closed"}

DataInv == DataTypeOK /\ WroteOK

LEMMA DataStep ==
  ASSUME DataInv, SourceTypeOK', DataNext
  PROVE  DataInv' /\ \A c \in Conns : wpos[c] <= wpos'[c]
<1> USE DEF DataInv, DataTypeOK, WroteOK
<1>1. ASSUME NEW c \in Conns, WriteData(c)
      PROVE  DataInv' /\ \A d \in Conns : wpos[d] <= wpos'[d]
  <2>1. wpos' = [wpos EXCEPT ![c] = @ + 1] /\ wpos[c] < MaxPos /\ srcPc[c] = "streaming"
    BY <1>1 DEF WriteData
  <2>2. wpos' \in [Conns -> 0 .. MaxPos] /\ \A d \in Conns : wpos[d] <= wpos'[d]
    BY <2>1
  <2>3. srcPc' = srcPc
    BY <1>1 DEF WriteData, srcVars
  <2> QED
    BY <2>1, <2>2, <2>3
<1>2. ASSUME NEW c \in Conns, SourceStep(c), UNCHANGED wpos
      PROVE  DataInv' /\ \A d \in Conns : wpos[d] <= wpos'[d]
  <2>1. \A d \in Conns : srcPc[d] \in {"streaming", "unregister", "closed"}
                           => srcPc'[d] \in {"streaming", "unregister", "closed"}
    BY <1>2 DEF SourceStep, Connect, Reject, RegisterCheck, RegisterInsert, Welcome,
                Disconnect, Unregister, GoSrc, SourceTypeOK
  <2> QED
    BY <1>2, <2>1
<1> QED
  BY <1>1, <1>2 DEF DataNext

\* A source that takes over a mount has written nothing yet.
LEMMA NewSourceIsEmpty ==
  ASSUME DataInv, DataNext, NEW m \in Mounts, sources'[m] # sources[m]
  PROVE  sources'[m] = NoConn \/ wpos[sources'[m]] = 0
<1> USE DEF DataInv, DataTypeOK, SourceTypeOK, SourcesTypeOK, WroteOK
<1>1. PICK c \in Conns : SourceStep(c)
  BY DEF DataNext, WriteData, srcVars
<1>2. CASE RegisterInsert(c)
  <2>1. sources' = [sources EXCEPT ![srcMount[c]] = c] /\ srcPc[c] = "insert"
    BY <1>2 DEF RegisterInsert, Insert
  <2>2. wpos[c] = 0
    BY <2>1
  <2> QED
    BY <2>1, <2>2
<1>3. CASE Unregister(c)
  BY <1>3 DEF Unregister, Remove
<1> QED
  BY <1>1, <1>2, <1>3 DEF SourceStep, Connect, Reject, RegisterCheck, Welcome, Disconnect

\* What the packager reads of a buffer, for a position that has data behind it.
LEMMA ReadBytes ==
  ASSUME DataInv, NEW c \in Conns, NEW p \in 0 .. MaxPos, p < wpos[c]
  PROVE  LET bytes == ReadFrom(c, p) IN
         /\ bytes \in Seq(Bytes) /\ bytes # <<>>
         /\ \A k \in DOMAIN bytes : bytes[k][1] = c /\ bytes[k][2] < wpos[c]
         /\ ~Lapped(c, p) =>
              /\ Whole(bytes)
              /\ bytes[1] = <<c, p>>
              /\ bytes[Len(bytes)] = <<c, wpos[c] - 1>>
<1> DEFINE w == wpos[c]
           v == View(p, w)
           bytes == ReadFrom(c, p)
<1>1. w \in Nat /\ w <= MaxPos /\ p \in Nat /\ p < w /\ p <= w
  BY DEF DataInv, DataTypeOK
<1> HIDE DEF w
<1>2. /\ v \in Seq(0 .. w - 1)
      /\ Len(v) = IF w - p < Capacity THEN w - p ELSE Capacity
  BY <1>1, ViewShape
<1>3. Len(v) \in Nat \ {0} /\ DOMAIN v = 1 .. Len(v)
  BY <1>1, <1>2, CapacityAssumption
<1>4. bytes = [k \in 1 .. Len(v) |-> <<c, v[k]>>]
  BY <1>3 DEF ReadFrom, w
<1> HIDE DEF v, bytes
<1>5. \A k \in 1 .. Len(v) : v[k] \in 0 .. w - 1 /\ v[k] \in 0 .. MaxPos - 1
  BY <1>1, <1>2, <1>3
<1>6. bytes \in Seq(Bytes) /\ Len(bytes) = Len(v) /\ bytes # <<>>
  <2>1. bytes \in [1 .. Len(v) -> Bytes]
    BY <1>4, <1>5 DEF Bytes
  <2> QED
    BY <1>3, <2>1
<1>7. \A k \in DOMAIN bytes : bytes[k][1] = c /\ bytes[k][2] < w
  BY <1>1, <1>4, <1>5
<1>8. ASSUME ~Lapped(c, p)
      PROVE  /\ Whole(bytes)
             /\ bytes[1] = <<c, p>>
             /\ bytes[Len(bytes)] = <<c, w - 1>>
  <2>1. w - p <= Capacity
    BY <1>1, <1>8, CapacityAssumption DEF Lapped, w
  <2>2. v = [k \in 1 .. w - p |-> p + k - 1]
    BY <1>1, <2>1, ViewStream DEF v
  <2>3. Len(v) = w - p
    BY <1>1, <1>2, <2>1, CapacityAssumption
  <2>4. \A k \in 1 .. w - p : bytes[k] = <<c, p + k - 1>>
    BY <1>4, <2>2, <2>3
  <2>5. /\ 1 \in 1 .. w - p /\ w - p \in 1 .. w - p
        /\ p + 1 - 1 = p /\ p + (w - p) - 1 = w - 1
    BY <1>1
  <2>6. bytes[1] = <<c, p>> /\ bytes[Len(bytes)] = <<c, w - 1>>
    BY <1>6, <2>3, <2>4, <2>5
  <2>7. ASSUME NEW j \in 1 .. Len(bytes) - 1
        PROVE  Follows(bytes[j], bytes[j + 1])
    <3>1. j \in 1 .. w - p /\ j + 1 \in 1 .. w - p
      BY <1>1, <1>6, <2>3
    <3>2. bytes[j] = <<c, p + j - 1>> /\ bytes[j + 1] = <<c, p + (j + 1) - 1>>
      BY <2>4, <3>1
    <3>3. p + (j + 1) - 1 <= (p + j - 1) + 1
      BY <1>1, <3>1
    <3> QED
      BY <3>2, <3>3 DEF Follows
  <2> QED
    BY <2>6, <2>7 DEF Whole
<1> QED
  BY <1>6, <1>7, <1>8 DEF bytes, w

-----------------------------------------------------------------------------
(* The packager *)

\* What the steps of a poll leave for one another.
ControlOK ==
  /\ hpc = "read" <=> look # <<>>
  /\ hpc \in {"sleep", "sweep"} => todo = {}
  /\ hpc # "sweep" => doomed = {}

\* Between the two locks on a buffer, there is something to read in it.
LookOK ==
  hpc = "read" =>
    /\ session[look[1]].lastRead < look[3]
    /\ look[3] <= wpos[look[2]]

\* The position saved does not leave out what follows the newest byte.
Tight(s) == GapFree(s) /\ (Filled(s) => s.lastRead <= Newest(s)[2] + 1)

Written(s) == \A b \in Packaged(s) : b[2] < wpos[b[1]]

SessionInv ==
  \A m \in Mounts : Open(m) =>
    /\ SessionOK(session[m]) /\ Written(session[m])
    /\ m \notin overrun => Tight(session[m])

\* A session on the list to be removed has nothing of the source of its mount,
\* should one register meanwhile: that source has not written yet, and nothing
\* is read before the list is done with.
SweepOK ==
  \A m \in doomed : \A b \in Packaged(session[m]) : b[1] # sources[m]

HlsInv == HlsTypeOK /\ DataInv /\ ControlOK /\ LookOK /\ SessionInv /\ SweepOK

\* A step that removes no session and leaves what its playlist says.
NoneCloses ==
  \A m \in Mounts : Open(m) => Open(m)' /\ MovesOn(session[m], session'[m])

LEMMA NewSessionOK ==
  /\ SessionOK(NewSession) /\ Packaged(NewSession) = {} /\ Tight(NewSession)
<1> DEFINE s == NewSession
<1>1. /\ s.segments = <<>> /\ s.current = <<>> /\ s.counter = 0 /\ s.lastRead = 0
  BY DEF NewSession
<1>2. s \in Sessions
  BY DEF NewSession, Sessions
<1> HIDE DEF s
<1>3. DOMAIN s.segments = {} /\ DOMAIN s.current = {} /\ Len(s.segments) = 0
  BY <1>1
<1>4. SessionOK(s)
  BY <1>1, <1>2, <1>3 DEF SessionOK, WindowOK
<1>5. Packaged(s) = {}
  BY <1>3 DEF Packaged
<1>6. Tight(s)
  BY <1>1, <1>3 DEF Tight, GapFree, Whole, Filled
<1> QED
  BY <1>4, <1>5, <1>6 DEF s

LEMMA InitInv == HlsInit => HlsInv
<1> SUFFICES ASSUME HlsInit PROVE HlsInv
  OBVIOUS
<1> USE DEF HlsInit, DataInit
<1>1. DataInv
  BY DEF DataInv, DataTypeOK, WroteOK, SourceInit, SourcesInit, SourceTypeOK,
         SourcesTypeOK, SrcPcs
<1>2. \A m \in Mounts : ~Open(m)
  BY DEF Open
<1>3. HlsTypeOK
  BY <1>1 DEF DataInv, HlsTypeOK
<1>4. ControlOK /\ LookOK /\ SessionInv /\ SweepOK
  BY <1>2 DEF ControlOK, LookOK, SessionInv, SweepOK
<1> QED
  BY <1>1, <1>3, <1>4 DEF HlsInv

LEMMA SettlesTight ==
  ASSUME NEW s, NEW t, Settles(s, t)
  PROVE  /\ Tight(s) => Tight(t)
         /\ Written(s) => Written(t)
BY Zenon DEF Settles, Tight, Written

\* A visit or the clock changes one session and leaves its bytes in order.
LEMMA OneSessionSettles ==
  ASSUME HlsInv, NEW m \in Mounts, Open(m), NEW t, Settles(session[m], t),
         session' = [session EXCEPT ![m] = t],
         UNCHANGED <<dataVars, overrun, doomed>>
  PROVE  /\ session' \in [Mounts -> Sessions \cup {NoSession}]
         /\ \A n \in Mounts : /\ Open(n)' = Open(n)
                              /\ Open(n) => session'[n].lastRead = session[n].lastRead
         /\ DataInv' /\ SessionInv' /\ SweepOK' /\ NoneCloses
<1>1. /\ session \in [Mounts -> Sessions \cup {NoSession}]
      /\ session'[m] = t /\ \A n \in Mounts \ {m} : session'[n] = session[n]
  BY DEF HlsInv, HlsTypeOK
<1>2. t \in Sessions /\ t # NoSession /\ t.lastRead = session[m].lastRead
  BY DEF Settles, SessionOK
<1>3. session' \in [Mounts -> Sessions \cup {NoSession}]
  BY <1>1, <1>2
<1>4. \A n \in Mounts : /\ Open(n)' = Open(n)
                        /\ Open(n) => session'[n].lastRead = session[n].lastRead
  BY <1>1, <1>2 DEF Open
<1>9. NoneCloses
  <2>1. \A n \in Mounts : Open(n) => MovesOn(session[n], session[n])
    BY SettlesSelf DEF HlsInv, SessionInv, Settles
  <2> QED
    BY <1>1, <1>4, <2>1 DEF NoneCloses, Settles
<1>5. UNCHANGED <<wpos, sources, srcPc, srcMount, connected, raced>>
  BY DEF dataVars, srcVars
<1>6. DataInv'
  BY <1>5 DEF HlsInv, DataInv, DataTypeOK, WroteOK, SourceTypeOK, SourcesTypeOK
<1>7. SessionInv'
  <2> SUFFICES ASSUME NEW n \in Mounts, Open(n)'
               PROVE  /\ SessionOK(session'[n]) /\ Written(session[n])'
                      /\ n \notin overrun => Tight(session'[n])
    BY DEF SessionInv, Tight, GapFree, Filled, Newest, SessionOK, WindowOK,
           Playlist
  <2>1. CASE n = m
    <3>1. /\ SessionOK(session[m]) /\ Written(session[m])
          /\ m \notin overrun => Tight(session[m])
      BY DEF HlsInv, SessionInv
    <3>2. SessionOK(t) /\ Written(t) /\ (m \notin overrun => Tight(t))
      BY <3>1, SettlesTight DEF Settles
    <3> QED
      BY <1>1, <1>5, <2>1, <3>2 DEF Written
  <2>2. CASE n # m
    <3>1. session'[n] = session[n] /\ Open(n)
      BY <1>1, <1>4, <2>2
    <3>2. /\ SessionOK(session[n]) /\ Written(session[n])
          /\ n \notin overrun => Tight(session[n])
      BY <3>1 DEF HlsInv, SessionInv
    <3> QED
      BY <1>5, <3>1, <3>2 DEF Written
  <2> QED
    BY <2>1, <2>2
<1>8. SweepOK'
  <2>1. \A n \in Mounts : Packaged(session'[n]) \subseteq Packaged(session[n])
    BY <1>1 DEF Settles
  <2>2. doomed' = doomed /\ doomed \subseteq Mounts
    BY DEF HlsInv, HlsTypeOK
  <2> QED
    BY <1>5, <2>1, <2>2 DEF HlsInv, SweepOK
<1> QED
  BY <1>3, <1>4, <1>6, <1>7, <1>8, <1>9

LEMMA LookShape ==
  ASSUME HlsInv, hpc = "read"
  PROVE  /\ look[1] \in todo /\ look[1] \in Mounts /\ Open(look[1])
         /\ look[2] \in Conns /\ look[3] \in 0 .. MaxPos
<1>1. look \in todo \X Conns \X (0 .. MaxPos)
  BY DEF HlsInv, HlsTypeOK, ControlOK
<1> QED
  BY <1>1 DEF HlsInv, HlsTypeOK

\* The sources move on between any two steps of a poll.
LEMMA SourcesMoveInv ==
  ASSUME HlsInv, SourceTypeOK', DataNext, UNCHANGED hlsVars
  PROVE  HlsInv'
<1> USE DEF hlsVars
<1>1. DataInv' /\ \A c \in Conns : wpos[c] <= wpos'[c]
  BY DataStep DEF HlsInv
<1>2. \A c \in Conns : wpos[c] \in Nat /\ wpos'[c] \in Nat
  BY <1>1 DEF HlsInv, DataInv, DataTypeOK
<1>3. HlsTypeOK'
  BY <1>1 DEF HlsInv, HlsTypeOK, DataInv, Open
<1>4. ControlOK'
  BY DEF HlsInv, ControlOK
<1>5. LookOK'
  <2> SUFFICES ASSUME hpc = "read" PROVE look[3] <= wpos'[look[2]]
    BY DEF HlsInv, LookOK
  <2>1. look[2] \in Conns /\ look[3] \in Nat /\ look[3] <= wpos[look[2]]
    BY LookShape DEF HlsInv, LookOK
  <2> QED
    BY <1>1, <1>2, <2>1
<1>6. \A m \in Mounts : Open(m) =>
        \A b \in Packaged(session[m]) :
          b[1] \in Conns /\ b[2] \in Nat /\ b[2] < wpos[b[1]]
  <2> SUFFICES ASSUME NEW m \in Mounts, Open(m), NEW b \in Packaged(session[m])
               PROVE  b[1] \in Conns /\ b[2] \in Nat /\ b[2] < wpos[b[1]]
    OBVIOUS
  <2>1. b \in Bytes /\ b[2] < wpos[b[1]]
    BY PackagedBytes DEF HlsInv, SessionInv, Written
  <2> QED
    BY <2>1 DEF Bytes
<1>7. SessionInv'
  <2> SUFFICES ASSUME NEW m \in Mounts, Open(m)
               PROVE  Written(session[m])'
    BY DEF HlsInv, SessionInv, Open, SessionOK, WindowOK, Playlist, Tight, GapFree, Filled,
           Newest
  <2> SUFFICES ASSUME NEW b \in Packaged(session[m]) PROVE b[2] < wpos'[b[1]]
    BY DEF Written
  <2> QED
    BY <1>1, <1>2, <1>6
<1>8. SweepOK'
  <2> SUFFICES ASSUME NEW m \in doomed, NEW b \in Packaged(session[m])
               PROVE  b[1] # sources'[m]
    BY DEF SweepOK
  <2>1. m \in Mounts /\ Open(m)
    BY DEF HlsInv, HlsTypeOK
  <2>2. CASE sources'[m] = sources[m]
    BY <2>2 DEF HlsInv, SweepOK
  <2>3. CASE sources'[m] # sources[m]
    <3>1. sources'[m] = NoConn \/ wpos[sources'[m]] = 0
      BY <2>1, <2>3, NewSourceIsEmpty DEF HlsInv
    <3>2. b[1] \in Conns /\ b[2] \in Nat /\ b[2] < wpos[b[1]]
      BY <1>6, <2>1
    <3> QED
      BY <3>1, <3>2, SourceManagerAssumption
  <2> QED
    BY <2>2, <2>3
<1> QED
  BY <1>1, <1>3, <1>4, <1>5, <1>7, <1>8 DEF HlsInv

\* New sessions, at the start of a poll or by a request, are empty.
LEMMA OpenedInv ==
  ASSUME HlsInv, hpc = "sleep", UNCHANGED <<dataVars, look, doomed, overrun>>,
         \A m \in Mounts : session'[m] = session[m] \/ session'[m] = NewSession,
         session' \in [Mounts -> Sessions \cup {NoSession}],
         \/ hpc' = "sleep" /\ todo' = todo
         \/ hpc' = "visit" /\ todo' = {m \in Mounts : session'[m] # NoSession}
  PROVE  HlsInv'
<1> USE DEF dataVars, srcVars
<1>1. /\ UNCHANGED <<wpos, sources, srcPc>> /\ DataInv'
  BY DEF HlsInv, DataInv, DataTypeOK, WroteOK, SourceTypeOK, SourcesTypeOK
<1>2. look = <<>> /\ todo = {} /\ doomed = {}
  BY DEF HlsInv, ControlOK
<1>3. HlsTypeOK'
  BY <1>1, <1>2 DEF HlsInv, HlsTypeOK, DataInv, Open
<1>4. ControlOK' /\ LookOK' /\ SweepOK'
  BY <1>2 DEF ControlOK, LookOK, SweepOK
<1>5. SessionInv'
  <2> SUFFICES ASSUME NEW m \in Mounts, session'[m] # NoSession
               PROVE  /\ SessionOK(session'[m])
                      /\ \A b \in Packaged(session'[m]) : b[2] < wpos[b[1]]
                      /\ m \notin overrun => Tight(session'[m])
    BY <1>1 DEF SessionInv, Open, Written, SessionOK, WindowOK, Playlist, Tight, GapFree,
                  Filled, Newest
  <2>1. CASE session'[m] = session[m]
    BY <2>1 DEF HlsInv, SessionInv, Open, Written
  <2>2. CASE session'[m] = NewSession
    BY <2>2, NewSessionOK
  <2> QED
    BY <2>1, <2>2
<1> QED
  BY <1>1, <1>3, <1>4, <1>5 DEF HlsInv

LEMMA PollInv ==
  ASSUME HlsInv, Poll
  PROVE  HlsInv'
<1>1. session' = [m \in Mounts |->
                    IF MountExists(m) /\ ~Open(m) THEN NewSession ELSE session[m]]
  BY DEF Poll
<1>2. \A m \in Mounts : session'[m] = session[m] \/ session'[m] = NewSession
  BY <1>1
<1>3. session' \in [Mounts -> Sessions \cup {NoSession}]
  <2>1. NewSession \in Sessions
    BY NewSessionOK DEF SessionOK
  <2> QED
    BY <1>1, <2>1 DEF HlsInv, HlsTypeOK
<1>4. hpc' = "visit" /\ todo' = {m \in Mounts : session'[m] # NoSession}
  BY DEF Poll
<1> QED
  BY <1>2, <1>3, <1>4, OpenedInv DEF Poll

LEMMA EnsureInv ==
  ASSUME HlsInv, NEW m \in Mounts, EnsureSession(m)
  PROVE  HlsInv'
<1>1. NewSession \in Sessions
  BY NewSessionOK DEF SessionOK
<1>2. /\ \A n \in Mounts : session'[n] = session[n] \/ session'[n] = NewSession
      /\ session' \in [Mounts -> Sessions \cup {NoSession}]
  BY <1>1 DEF HlsInv, HlsTypeOK, EnsureSession
<1> QED
  BY <1>2, OpenedInv DEF EnsureSession

\* A visit that reads nothing.
LEMMA VisitInv ==
  ASSUME HlsInv, NEW m \in Mounts, m \in todo, hpc = "visit", hpc' = "visit",
         NEW t, Settles(session[m], t), session' = [session EXCEPT ![m] = t],
         todo' = todo \ {m}, UNCHANGED <<dataVars, look, doomed, overrun>>
  PROVE  HlsInv' /\ NoneCloses
<1>1. Open(m)
  BY DEF HlsInv, HlsTypeOK
<1>2. /\ session' \in [Mounts -> Sessions \cup {NoSession}]
      /\ \A n \in Mounts : Open(n)' = Open(n)
      /\ DataInv' /\ SessionInv' /\ SweepOK' /\ NoneCloses
  BY <1>1, OneSessionSettles
<1>3. look = <<>> /\ doomed = {}
  BY DEF HlsInv, ControlOK
<1>4. HlsTypeOK'
  BY <1>2, <1>3 DEF HlsInv, HlsTypeOK, DataInv
<1>5. ControlOK' /\ LookOK'
  BY <1>3 DEF ControlOK, LookOK
<1> QED
  BY <1>2, <1>4, <1>5 DEF HlsInv

LEMMA VisitGoneInv ==
  ASSUME HlsInv, NEW m \in Mounts, VisitGone(m)
  PROVE  HlsInv' /\ NoneCloses
<1>1. SessionOK(session[m])
  BY DEF VisitGone, HlsInv, HlsTypeOK, SessionInv
<1>2. Settles(session[m], ForceSealed(session[m]))
  BY <1>1, SealedSettles
<1>3. session' = [session EXCEPT ![m] = ForceSealed(session[m])]
  BY DEF VisitGone, HlsInv, HlsTypeOK
<1> QED
  BY <1>2, <1>3, VisitInv DEF VisitGone

LEMMA VisitSourceInv ==
  ASSUME HlsInv, NEW m \in Mounts, VisitSource(m)
  PROVE  HlsInv' /\ NoneCloses
<1> DEFINE c == sources[m]
<1>1. /\ Open(m) /\ m \in todo /\ hpc = "visit" /\ SessionOK(session[m])
      /\ session[m] \in Sessions
  BY DEF VisitSource, HlsInv, HlsTypeOK, SessionInv, SessionOK
<1>2. c \in Conns /\ wpos[c] \in 0 .. MaxPos
  BY DEF VisitSource, MountExists, HlsInv, DataInv, DataTypeOK, SourceTypeOK, SourcesTypeOK
<1>3. CASE wpos[c] > session[m].lastRead
  <2>1. /\ look' = <<m, c, wpos[c]>> /\ hpc' = "read"
        /\ UNCHANGED <<session, todo, dataVars, doomed, overrun>>
    BY <1>3 DEF VisitSource
  <2>2. UNCHANGED <<wpos, sources>> /\ DataInv'
    BY <2>1 DEF dataVars, srcVars, HlsInv, DataInv, DataTypeOK, WroteOK, SourceTypeOK,
                SourcesTypeOK
  <2>3. HlsTypeOK'
    <3>1. look' \in todo \X Conns \X (0 .. MaxPos)
      BY <1>1, <1>2, <2>1
    <3> QED
      BY <2>1, <2>2, <3>1 DEF HlsInv, HlsTypeOK, DataInv, Open
  <2>4. ControlOK'
    <3>1. look' # <<>>
      BY <2>1
    <3> QED
      BY <1>1, <2>1, <3>1 DEF HlsInv, ControlOK
  <2>5. LookOK'
    <3>1. session[m].lastRead \in 0 .. MaxPos
      BY <1>1 DEF Sessions
    <3> QED
      BY <1>2, <1>3, <2>1, <2>2, <3>1 DEF LookOK
  <2>6. SessionInv' /\ SweepOK'
    BY <2>1, <2>2 DEF HlsInv, SessionInv, SweepOK, Open, Written
  <2>7. NoneCloses
    BY <2>1, SettlesSelf DEF HlsInv, SessionInv, Settles, NoneCloses, Open
  <2> QED
    BY <2>2, <2>3, <2>4, <2>5, <2>6, <2>7 DEF HlsInv
<1>4. CASE ~(wpos[c] > session[m].lastRead)
  <2>1. Settles(session[m], Settled(session[m]))
    BY <1>1, SettledSettles
  <2>2. /\ session' = [session EXCEPT ![m] = Settled(session[m])]
        /\ todo' = todo \ {m}
        /\ UNCHANGED <<hpc, look, dataVars, doomed, overrun>>
    BY <1>4 DEF VisitSource, HlsInv, HlsTypeOK
  <2> QED
    BY <1>1, <2>1, <2>2, VisitInv
<1> QED
  BY <1>3, <1>4

LEMMA ReadBufferInv ==
  ASSUME HlsInv, ReadBuffer
  PROVE  HlsInv' /\ NoneCloses
<1> DEFINE m == look[1]
           c == look[2]
           q == look[3]
           s == session[m]
           p == s.lastRead
           bytes == ReadFrom(c, p)
           r == [Fed(s, bytes) EXCEPT !.lastRead = q]
           t == Settled(r)
<1>1. /\ hpc = "read" /\ hpc' = "visit" /\ look' = <<>> /\ todo' = todo \ {m}
      /\ session' = [session EXCEPT ![m] = t]
      /\ overrun' = IF Lapped(c, p) THEN overrun \cup {m} ELSE overrun
      /\ doomed' = {} /\ doomed = {}
      /\ UNCHANGED dataVars
  BY DEF ReadBuffer, HlsInv, ControlOK
<1>2. m \in todo /\ m \in Mounts /\ Open(m) /\ c \in Conns /\ q \in 0 .. MaxPos
  BY <1>1, LookShape
<1>3. p < q /\ q <= wpos[c]
  BY <1>1 DEF HlsInv, LookOK
<1>4. /\ SessionOK(s) /\ Written(s) /\ (m \notin overrun => Tight(s))
      /\ p \in 0 .. MaxPos
  BY <1>2 DEF HlsInv, SessionInv, SessionOK, Sessions
<1>5. wpos[c] \in 0 .. MaxPos /\ p < wpos[c]
  BY <1>2, <1>3, <1>4 DEF HlsInv, DataInv, DataTypeOK
<1>6. /\ bytes \in Seq(Bytes) /\ bytes # <<>>
      /\ \A k \in DOMAIN bytes : bytes[k][1] = c /\ bytes[k][2] < wpos[c]
      /\ ~Lapped(c, p) => /\ Whole(bytes)
                          /\ bytes[1] = <<c, p>>
                          /\ bytes[Len(bytes)] = <<c, wpos[c] - 1>>
  <2> HIDE DEF p, c
  <2> QED
    BY <1>2, <1>4, <1>5, ReadBytes DEF HlsInv
<1> HIDE DEF bytes
<1>7. /\ SessionOK(r) /\ MovesOn(s, r) /\ r.lastRead = q
      /\ Packaged(r) \subseteq Packaged(s) \cup {bytes[k] : k \in DOMAIN bytes}
      /\ Filled(r) /\ Newest(r) = bytes[Len(bytes)]
      /\ /\ GapFree(s) /\ Whole(bytes)
         /\ Filled(s) => Follows(Newest(s), bytes[1])
         => GapFree(r)
  <2> HIDE DEF s, q
  <2> QED
    BY <1>2, <1>4, <1>6, FedKeeps
<1>8. Written(r)
  BY <1>4, <1>6, <1>7 DEF Written
<1>9. ASSUME ~Lapped(c, p), Tight(s) PROVE Tight(r)
  <2>1. bytes[1] = <<c, p>> /\ bytes[Len(bytes)] = <<c, wpos[c] - 1>> /\ Whole(bytes)
    BY <1>6, <1>9
  <2>2. Filled(s) => Follows(Newest(s), bytes[1])
    BY <1>9, <2>1 DEF Tight, Follows
  <2>3. GapFree(r)
    BY <1>7, <1>9, <2>1, <2>2 DEF Tight
  <2>4. r.lastRead <= Newest(r)[2] + 1
    <3>1. Newest(r)[2] = wpos[c] - 1
      BY <1>7, <2>1
    <3>2. r.lastRead = q
      BY <1>7
    <3> HIDE DEF r, q, c
    <3> QED
      BY <1>2, <1>3, <1>5, <3>1, <3>2
  <2> QED
    BY <2>3, <2>4 DEF Tight
<1> HIDE DEF r
<1>10. Settles(r, t)
  BY <1>7, SettledSettles
<1>11. /\ SessionOK(t) /\ Written(t)
       /\ ~Lapped(c, p) /\ Tight(s) => Tight(t)
       /\ MovesOn(s, t)
  BY <1>4, <1>7, <1>8, <1>9, <1>10, SettlesTight, MovesOnTwice DEF Settles
<1>12. t \in Sessions /\ t # NoSession
  BY <1>11 DEF SessionOK
<1> HIDE DEF t
<1>18. \A n \in Mounts : Open(n) => MovesOn(session[n], session[n])
  BY SettlesSelf DEF HlsInv, SessionInv, Settles
<1>19. MovesOn(session[m], t)
  BY <1>11
<1> HIDE DEF s
<1>13. /\ session' \in [Mounts -> Sessions \cup {NoSession}]
       /\ session'[m] = t /\ \A n \in Mounts \ {m} : session'[n] = session[n]
       /\ \A n \in Mounts : Open(n)' = Open(n)
  BY <1>1, <1>2, <1>12 DEF HlsInv, HlsTypeOK, Open
<1> HIDE DEF m
<1>14. /\ UNCHANGED <<wpos, sources>> /\ DataInv'
  BY <1>1 DEF dataVars, srcVars, HlsInv, DataInv, DataTypeOK, WroteOK, SourceTypeOK,
              SourcesTypeOK
<1>15. HlsTypeOK'
  BY <1>1, <1>2, <1>13, <1>14 DEF HlsInv, HlsTypeOK, DataInv
<1>16. ControlOK' /\ LookOK' /\ SweepOK'
  BY <1>1 DEF ControlOK, LookOK, SweepOK
<1>17. SessionInv'
  <2> SUFFICES ASSUME NEW n \in Mounts, Open(n)'
               PROVE  /\ SessionOK(session'[n]) /\ Written(session[n])'
                      /\ n \notin overrun' => Tight(session'[n])
    BY DEF SessionInv, Tight, GapFree, Filled, Newest, SessionOK, WindowOK,
           Playlist
  <2>1. CASE n = m
    <3>1. n \notin overrun' => ~Lapped(c, p) /\ n \notin overrun
      BY <1>1, <2>1
    <3>2. n \notin overrun => Tight(s)
      BY <1>4, <2>1
    <3>3. SessionOK(session'[n]) /\ (n \notin overrun' => Tight(session'[n]))
      BY <1>11, <1>13, <2>1, <3>1, <3>2
    <3>4. Written(session[n])'
      BY <1>11, <1>13, <1>14, <2>1 DEF Written
    <3> QED
      BY <3>3, <3>4
  <2>2. CASE n # m
    <3>1. session'[n] = session[n] /\ Open(n)
      BY <1>13, <2>2
    <3>2. n \notin overrun' => n \notin overrun
      BY <1>1
    <3>3. /\ SessionOK(session[n]) /\ Written(session[n])
          /\ n \notin overrun => Tight(session[n])
      BY <3>1 DEF HlsInv, SessionInv
    <3> QED
      BY <1>14, <3>1, <3>2, <3>3 DEF Written
  <2> QED
    BY <2>1, <2>2
<1>20. NoneCloses
  BY <1>13, <1>18, <1>19 DEF NoneCloses
<1> QED
  BY <1>14, <1>15, <1>16, <1>17, <1>20 DEF HlsInv

\* The list is made of sessions whose mount has no source at this moment.
LEMMA JudgeInv ==
  ASSUME HlsInv, Judge
  PROVE  HlsInv'
<1>1. /\ doomed' = {m \in Mounts : Open(m) /\ ~MountExists(m) /\ session[m].quiet = Stale}
      /\ hpc = "visit" /\ todo = {} /\ hpc' = "sweep"
      /\ UNCHANGED <<dataVars, session, todo, look, overrun>>
  BY DEF Judge
<1>2. /\ UNCHANGED <<wpos, sources>> /\ DataInv'
  BY <1>1 DEF dataVars, srcVars, HlsInv, DataInv, DataTypeOK, WroteOK, SourceTypeOK,
              SourcesTypeOK
<1>3. HlsTypeOK'
  BY <1>1, <1>2 DEF HlsInv, HlsTypeOK, DataInv, Open
<1>4. ControlOK' /\ LookOK'
  BY <1>1 DEF HlsInv, ControlOK, LookOK
<1>5. SessionInv'
  BY <1>1, <1>2 DEF HlsInv, SessionInv, Open, Written
<1>6. SweepOK'
  <2> SUFFICES ASSUME NEW m \in doomed', NEW b \in Packaged(session[m])
               PROVE  b[1] # sources[m]
    BY <1>1, <1>2 DEF SweepOK
  <2>1. m \in Mounts /\ Open(m) /\ sources[m] = NoConn
    BY <1>1 DEF MountExists
  <2>2. b \in Bytes
    BY <2>1, PackagedBytes DEF HlsInv, SessionInv
  <2> QED
    BY <2>1, <2>2, SourceManagerAssumption DEF Bytes
<1> QED
  BY <1>2, <1>3, <1>4, <1>5, <1>6 DEF HlsInv

LEMMA SweepInv ==
  ASSUME HlsInv, Sweep
  PROVE  HlsInv'
<1>1. /\ session' = [m \in Mounts |-> IF m \in doomed THEN NoSession ELSE session[m]]
      /\ overrun' = overrun \ doomed /\ doomed' = {}
      /\ hpc = "sweep" /\ hpc' = "sleep" /\ todo = {} /\ todo' = {}
      /\ UNCHANGED <<dataVars, look>>
  BY DEF Sweep, HlsInv, ControlOK
<1>2. /\ UNCHANGED <<wpos, sources>> /\ DataInv'
  BY <1>1 DEF dataVars, srcVars, HlsInv, DataInv, DataTypeOK, WroteOK, SourceTypeOK,
              SourcesTypeOK
<1>3. session' \in [Mounts -> Sessions \cup {NoSession}]
  BY <1>1 DEF HlsInv, HlsTypeOK
<1>4. look = <<>>
  BY <1>1 DEF HlsInv, ControlOK
<1>5. HlsTypeOK'
  BY <1>1, <1>2, <1>3, <1>4 DEF HlsInv, HlsTypeOK, DataInv
<1>6. ControlOK' /\ LookOK' /\ SweepOK'
  BY <1>1, <1>4 DEF ControlOK, LookOK, SweepOK
<1>7. SessionInv'
  <2> SUFFICES ASSUME NEW m \in Mounts, Open(m)'
               PROVE  /\ SessionOK(session'[m]) /\ Written(session[m])'
                      /\ m \notin overrun' => Tight(session'[m])
    BY DEF SessionInv, Tight, GapFree, Filled, Newest, SessionOK, WindowOK,
           Playlist
  <2>1. m \notin doomed /\ session'[m] = session[m] /\ Open(m)
    BY <1>1 DEF Open
  <2>2. m \notin overrun' => m \notin overrun
    BY <1>1, <2>1
  <2>3. /\ SessionOK(session[m]) /\ Written(session[m])
        /\ m \notin overrun => Tight(session[m])
    BY <2>1 DEF HlsInv, SessionInv
  <2> QED
    BY <1>2, <2>1, <2>2, <2>3 DEF Written
<1> QED
  BY <1>2, <1>5, <1>6, <1>7 DEF HlsInv

\* Time passes for a session, wherever the poll is.
LEMMA ClockInv ==
  ASSUME HlsInv, NEW m \in Mounts, Open(m), NEW e \in BOOLEAN,
         NEW q \in {Fresh, Idle, Stale},
         session' = [session EXCEPT ![m] = [session[m] EXCEPT !.elapsed = e, !.quiet = q]],
         UNCHANGED <<dataVars, hpc, todo, look, doomed, overrun>>
  PROVE  HlsInv' /\ NoneCloses
<1> DEFINE t == [session[m] EXCEPT !.elapsed = e, !.quiet = q]
<1>1. Settles(session[m], t)
  BY ClocksSettle DEF HlsInv, SessionInv
<1> HIDE DEF t
<1>2. /\ session' \in [Mounts -> Sessions \cup {NoSession}]
      /\ \A n \in Mounts : /\ Open(n)' = Open(n)
                           /\ Open(n) => session'[n].lastRead = session[n].lastRead
      /\ DataInv' /\ SessionInv' /\ SweepOK' /\ NoneCloses
  <2>1. session' = [session EXCEPT ![m] = t]
    BY DEF t
  <2> QED
    BY <1>1, <2>1, OneSessionSettles
<1>3. HlsTypeOK'
  BY <1>2 DEF HlsInv, HlsTypeOK, DataInv
<1>4. ControlOK'
  BY DEF HlsInv, ControlOK
<1>5. LookOK'
  <2> SUFFICES ASSUME hpc = "read"
               PROVE  /\ session'[look[1]].lastRead < look[3]
                      /\ look[3] <= wpos[look[2]]
    BY DEF LookOK, dataVars
  <2>1. look[1] \in Mounts /\ Open(look[1])
    BY LookShape
  <2> QED
    BY <1>2, <2>1 DEF HlsInv, LookOK
<1> QED
  BY <1>2, <1>3, <1>4, <1>5 DEF HlsInv

LEMMA LengthenInv ==
  ASSUME HlsInv, NEW m \in Mounts, Lengthen(m)
  PROVE  HlsInv' /\ NoneCloses
<1> DEFINE s == session[m]
<1>1. Open(m) /\ s \in Sessions /\ s.quiet \in {Fresh, Idle, Stale}
  BY DEF Lengthen, HlsInv, SessionInv, SessionOK, Sessions
<1>2. session' = [session EXCEPT ![m] = [s EXCEPT !.elapsed = TRUE, !.quiet = s.quiet]]
  <2>1. session' = [session EXCEPT ![m] = [s EXCEPT !.elapsed = TRUE]]
    BY DEF Lengthen, HlsInv, HlsTypeOK
  <2>2. [s EXCEPT !.elapsed = TRUE, !.quiet = s.quiet] = [s EXCEPT !.elapsed = TRUE]
    <3> HIDE DEF s
    <3> QED
      BY <1>1 DEF Sessions
  <2> QED
    BY <2>1, <2>2
<1> QED
  BY <1>1, <1>2, ClockInv DEF Lengthen

LEMMA GrowQuietInv ==
  ASSUME HlsInv, NEW m \in Mounts, GrowQuiet(m)
  PROVE  HlsInv' /\ NoneCloses
<1> DEFINE s == session[m]
           q == s.quiet + 1
<1>1. Open(m) /\ s \in Sessions
  BY DEF GrowQuiet, HlsInv, SessionInv, SessionOK
<1>2. q \in {Fresh, Idle, Stale}
  <2>1. s.quiet \in {Fresh, Idle, Stale} /\ s.quiet # Stale
    BY <1>1 DEF GrowQuiet, Sessions
  <2> QED
    BY <2>1 DEF Fresh, Idle, Stale
<1>3. [s EXCEPT !.elapsed = TRUE, !.quiet = @ + 1] = [s EXCEPT !.elapsed = TRUE, !.quiet = q]
  <2> HIDE DEF s
  <2> QED
    BY <1>1 DEF Sessions
<1>4. session' = [session EXCEPT ![m] = [s EXCEPT !.elapsed = TRUE, !.quiet = @ + 1]]
  BY DEF GrowQuiet
<1>5. session' = [session EXCEPT ![m] = [s EXCEPT !.elapsed = TRUE, !.quiet = q]]
  BY <1>3, <1>4
<1> HIDE DEF q
<1> QED
  BY <1>1, <1>2, <1>5, ClockInv DEF GrowQuiet

\* One case per step of the poll, of a request, of time and of the sources.
LEMMA StepInv ==
  ASSUME HlsInv, SourceTypeOK', [HlsNext]_vars
  PROVE  HlsInv'
<1>1. CASE DataNext /\ UNCHANGED hlsVars
  BY <1>1, SourcesMoveInv
<1>2. CASE Poll
  BY <1>2, PollInv
<1>3. CASE ReadBuffer
  BY <1>3, ReadBufferInv
<1>4. CASE Judge
  BY <1>4, JudgeInv
<1>5. CASE Sweep
  BY <1>5, SweepInv
<1>6. CASE \E m \in Mounts : VisitGone(m) \/ VisitSource(m)
  BY <1>6, VisitGoneInv, VisitSourceInv
<1>7. CASE \E m \in Mounts : EnsureSession(m) \/ Lengthen(m) \/ GrowQuiet(m)
  BY <1>7, EnsureInv, LengthenInv, GrowQuietInv
<1>8. CASE UNCHANGED vars
  <2>1. UNCHANGED <<wpos, sources>> /\ UNCHANGED hlsVars /\ DataInv'
    BY <1>8 DEF vars, dataVars, srcVars, HlsInv, DataInv, DataTypeOK, WroteOK,
                SourceTypeOK, SourcesTypeOK
  <2> QED
    BY <2>1 DEF hlsVars, HlsInv, HlsTypeOK, DataInv, ControlOK, LookOK, SessionInv,
                SweepOK, Open, Written
<1> QED
  BY <1>1, <1>2, <1>3, <1>4, <1>5, <1>6, <1>7, <1>8 DEF HlsNext, PollStep

LEMMA HlsInvHolds == HlsSpec => []HlsInv
<1>1. HlsInit => HlsInv
  BY InitInv
<1>2. HlsInv /\ SourceTypeOK' /\ [HlsNext]_vars => HlsInv'
  BY StepInv
<1>3. HlsSpec => []SourceTypeOK
  BY SourcesRefined, SourceTypeCorrect, PTL
<1> QED
  BY <1>1, <1>2, <1>3, PTL DEF HlsSpec

-----------------------------------------------------------------------------
(* The properties *)

\* The packager stays within its types: in particular every mount that a poll
\* is to visit, or to remove at its end, has a session then (lib.rs:180-246).
THEOREM HlsTypeCorrect == HlsSpec => []HlsTypeOK
<1>1. HlsInv => HlsTypeOK
  BY DEF HlsInv
<1> QED
  BY <1>1, HlsInvHolds, PTL

\* For any window the playlist numbers its segments one after the other, up to
\* the counter, and is as long as the window as soon as it can be.
THEOREM WindowConsecutiveHolds == HlsSpec => []WindowConsecutive
<1>1. HlsInv => WindowConsecutive
  BY DEF HlsInv, SessionInv, SessionOK, WindowConsecutive
<1> QED
  BY <1>1, HlsInvHolds, PTL

\* For any buffer a player misses no byte between two bytes of a source, unless
\* the source writes more than a buffer between two polls.
THEOREM NoGapHolds == HlsSpec => []NoGap
<1>1. HlsInv => NoGap
  BY DEF HlsInv, SessionInv, Tight, NoGap
<1> QED
  BY <1>1, HlsInvHolds, PTL

\* A playlist that moves on is true to what a player holds of it.
LEMMA MovedOnGives ==
  ASSUME NEW s, NEW t, SessionOK(s), SessionOK(t), MovesOn(s, t)
  PROVE  /\ MediaSequence(s) <= MediaSequence(t)
         /\ \A k \in DOMAIN s.segments, j \in DOMAIN t.segments :
              Playlist(s)[k] = Playlist(t)[j]
                => Gives(t, Playlist(s)[k], s.segments[k].data)
<1> DEFINE Segment == [sequence : Nat, data : Seq(Bytes)]
<1>1. /\ s.counter \in Nat /\ First(s) \in Nat /\ Len(s.segments) \in Nat
      /\ DOMAIN s.segments = 1 .. Len(s.segments) /\ s.segments \in Seq(Segment)
      /\ \A k \in DOMAIN s.segments : s.segments[k].sequence = First(s) + k - 1
  BY SessionShape
<1>2. /\ t.counter \in Nat /\ First(t) \in Nat /\ Len(t.segments) \in Nat
      /\ DOMAIN t.segments = 1 .. Len(t.segments) /\ t.segments \in Seq(Segment)
      /\ \A k \in DOMAIN t.segments : t.segments[k].sequence = First(t) + k - 1
  BY SessionShape
<1>3. First(s) <= First(t) /\ s.counter <= t.counter /\ SameData(s, t)
  BY DEF MovesOn
<1>4. \A j \in DOMAIN t.segments :
        t.segments[j] = [sequence |-> t.segments[j].sequence,
                         data |-> t.segments[j].data]
  <2>1. \A j \in DOMAIN t.segments : t.segments[j] \in Segment
    <3> HIDE DEF Segment
    <3> QED
      BY <1>2
  <2> QED
    BY <2>1
<1> HIDE DEF Segment
<1>5. MediaSequence(s) <= MediaSequence(t)
  <2>1. MediaSequence(s) = IF Len(s.segments) = 0 THEN 0 ELSE First(s)
    <3>1. CASE s.segments = <<>>
      BY <3>1 DEF MediaSequence
    <3>2. CASE s.segments # <<>>
      <4>1. Len(s.segments) # 0 /\ 1 \in DOMAIN s.segments
        BY <1>1, <3>2
      <4>2. s.segments[1].sequence = First(s)
        BY <1>1, <4>1
      <4> QED
        BY <3>2, <4>1, <4>2 DEF MediaSequence
    <3> QED
      BY <3>1, <3>2
  <2>2. CASE t.segments = <<>>
    <3>1. s.segments = <<>>
      <4>1. Len(t.segments) = IF t.counter < Window THEN t.counter ELSE Window
        BY DEF SessionOK, WindowOK
      <4>2. t.counter = 0
        BY <1>2, <2>2, <4>1
      <4>3. Len(s.segments) = 0
        BY <1>1, <1>3, <4>2 DEF First
      <4> QED
        BY <1>1, <4>3
    <3> QED
      BY <2>2, <3>1 DEF MediaSequence
  <2>3. CASE t.segments # <<>>
    <3>1. 1 \in DOMAIN t.segments
      BY <1>2, <2>3
    <3>2. MediaSequence(t) = First(t)
      BY <1>2, <2>3, <3>1 DEF MediaSequence
    <3> QED
      BY <1>1, <1>2, <1>3, <2>1, <3>2
  <2> QED
    BY <2>2, <2>3
<1>6. ASSUME NEW k \in DOMAIN s.segments, NEW j \in DOMAIN t.segments,
             s.segments[k].sequence = t.segments[j].sequence
      PROVE  Gives(t, s.segments[k].sequence, s.segments[k].data)
  <2>1. t.segments[j] = [sequence |-> s.segments[k].sequence, data |-> s.segments[k].data]
    BY <1>3, <1>4, <1>6 DEF SameData
  <2>2. ASSUME NEW i \in 1 .. j - 1
        PROVE  t.segments[i].sequence # s.segments[k].sequence
    <3>1. i \in DOMAIN t.segments /\ i < j
      BY <1>2
    <3> QED
      BY <1>2, <1>6, <3>1
  <2> QED
    BY <2>1, <2>2 DEF Gives
<1> QED
  BY <1>5, <1>6 DEF Playlist

\* For any window and buffer a number that a player was given keeps its data
\* for as long as it is listed, and never comes back.
THEOREM PlaylistStaysHolds == HlsSpec => PlaylistStays
<1> DEFINE Stays ==
      \A m \in Mounts :
        Open(m) /\ session'[m] # NoSession =>
          LET s == session[m]
              t == session'[m]
          IN  /\ MediaSequence(s) <= MediaSequence(t)
              /\ \A k \in DOMAIN s.segments, j \in DOMAIN t.segments :
                   Playlist(s)[k] = Playlist(t)[j]
                     => Gives(t, Playlist(s)[k], s.segments[k].data)
<1>1. HlsInv /\ HlsInv' /\ [HlsNext]_vars => [Stays]_vars
  <2> SUFFICES ASSUME HlsInv, HlsInv', [HlsNext]_vars, NEW m \in Mounts, Open(m),
                      session'[m] # NoSession
               PROVE  MovesOn(session[m], session'[m])
    <3>1. ASSUME NEW m \in Mounts, Open(m), session'[m] # NoSession, HlsInv, HlsInv'
          PROVE  SessionOK(session[m]) /\ SessionOK(session'[m])
      BY <3>1 DEF HlsInv, SessionInv, Open, SessionOK, WindowOK, Playlist
    <3> QED
      BY <3>1, MovedOnGives
  <2>1. session[m] = session'[m] => MovesOn(session[m], session'[m])
    BY SettlesSelf DEF HlsInv, SessionInv, Settles
  <2>2. CASE Sweep \/ UNCHANGED session
    BY <2>1, <2>2 DEF Sweep
  <2>3. CASE Poll \/ \E n \in Mounts : EnsureSession(n)
    <3>1. session'[m] = session[m]
      BY <2>3 DEF Poll, EnsureSession, HlsInv, HlsTypeOK
    <3> QED
      BY <2>1, <3>1
  <2>4. CASE \/ ReadBuffer
             \/ \E n \in Mounts :
                  VisitGone(n) \/ VisitSource(n) \/ Lengthen(n) \/ GrowQuiet(n)
    <3>1. NoneCloses
      BY <2>4, VisitGoneInv, VisitSourceInv, ReadBufferInv, LengthenInv, GrowQuietInv
    <3> QED
      BY <3>1 DEF NoneCloses
  <2> QED
    BY <2>2, <2>3, <2>4 DEF HlsNext, PollStep, hlsVars, vars, Judge
<1>2. HlsSpec => []HlsInv
  BY HlsInvHolds
<1> QED
  BY <1>1, <1>2, PTL DEF HlsSpec, PlaylistStays

\* A session is only removed when nothing of the source of its mount is in it.
THEOREM SessionKeptHolds == HlsSpec => SessionKept
<1> DEFINE Kept == \A m \in Mounts :
                     Open(m) /\ session'[m] = NoSession =>
                       \A b \in Packaged(session[m]) : b[1] # sources[m]
<1>1. HlsInv /\ [HlsNext]_vars => [Kept]_vars
  <2> SUFFICES ASSUME HlsInv, [HlsNext]_vars, NEW m \in Mounts, Open(m),
                      session'[m] = NoSession, session'[m] # session[m]
               PROVE  \A b \in Packaged(session[m]) : b[1] # sources[m]
    BY DEF Open
  <2>1. \A n \in Mounts : session[n] \in Sessions \cup {NoSession}
    BY DEF HlsInv, HlsTypeOK
  <2>2. CASE Sweep
    BY <2>2 DEF Sweep, HlsInv, SweepOK
  <2>3. CASE UNCHANGED session
    BY <2>3
  <2>4. CASE Poll \/ \E n \in Mounts : EnsureSession(n)
    <3>1. session'[m] = NewSession
      BY <2>4 DEF Poll, EnsureSession, HlsInv, HlsTypeOK
    <3> QED
      BY <3>1, NewSessionOK DEF SessionOK
  <2>5. CASE \/ ReadBuffer
             \/ \E n \in Mounts :
                  VisitGone(n) \/ VisitSource(n) \/ Lengthen(n) \/ GrowQuiet(n)
    <3>1. NoneCloses
      BY <2>5, VisitGoneInv, VisitSourceInv, ReadBufferInv, LengthenInv, GrowQuietInv
    <3> QED
      BY <3>1 DEF NoneCloses, Open
  <2> QED
    BY <2>2, <2>3, <2>4, <2>5 DEF HlsNext, PollStep, hlsVars, vars, Judge
<1> QED
  BY <1>1, HlsInvHolds, PTL DEF HlsSpec, SessionKept
=============================================================================
