--------------------------- MODULE ClusterProofs ---------------------------
(***************************************************************************)
(* What holds of a cluster origin for any mounts, sources, watchers,       *)
(* edges, buffer and channel: its types, that a source that stays keeps    *)
(* its watcher, and that an edge misses no byte between its burst and what *)
(* the watchers send.                                                      *)
(***************************************************************************)
EXTENDS Cluster, SourceStreamProofs, RingViewProofs

USE ClusterAssumption, SourceDataAssumption, CapacityAssumption

-----------------------------------------------------------------------------
(* The sources under the origin *)

\* The origin reads the registry and the buffers and changes neither.
THEOREM SourcesRefined == ClusterSpec => SourceSpec
<1>1. ClusterInit => SourceInit
  BY DEF ClusterInit, DataInit
<1>2. [ClusterNext]_vars => [SourceNext]_srcVars
  <2> SUFFICES ASSUME [ClusterNext]_vars PROVE [SourceNext]_srcVars
    OBVIOUS
  <2>1. CASE DataNext
    BY <2>1 DEF DataNext, WriteData, SourceNext
  <2>2. CASE UNCHANGED dataVars
    BY <2>2 DEF dataVars
  <2>3. Ticker => UNCHANGED dataVars
    BY DEF Ticker, Spawn, Forget
  <2>4. ASSUME NEW t \in Watchers, WatcherStep(t) PROVE UNCHANGED dataVars
    BY <2>4 DEF WatcherStep, Wake, CheckConnected, LookPosition, ReadNew, Send, Prune, Step
  <2>5. ASSUME NEW e \in Edges, Request(e) \/ EdgeWorks(e) \/ ForwardFails(e)
        PROVE  UNCHANGED dataVars
    BY <2>5 DEF EdgeWorks, Request, Subscribe, LookupSource, LookupPanics, LookBurst,
                ReadBurst, Forward, ForwardFails, Lag, CloseEdge, EdgeStep
  <2> QED
    BY <2>1, <2>2, <2>3, <2>4, <2>5 DEF ClusterNext, vars
<1> QED
  BY <1>1, <1>2, PTL DEF ClusterSpec, SourceSpec

\* Positions only grow.
LEMMA DataGrows ==
  ASSUME DataTypeOK, SourceTypeOK', DataNext
  PROVE  DataTypeOK' /\ \A c \in Conns : wpos[c] <= wpos'[c]
<1> USE DEF DataTypeOK
<1>1. ASSUME NEW c \in Conns, WriteData(c)
      PROVE  wpos' \in [Conns -> 0 .. MaxPos] /\ \A d \in Conns : wpos[d] <= wpos'[d]
  BY <1>1 DEF WriteData
<1>2. CASE UNCHANGED wpos
  BY <1>2
<1> QED
  BY <1>1, <1>2 DEF DataNext

-----------------------------------------------------------------------------
(* What is read of a buffer *)

\* The bytes of one message.
Given(data) == {data[j] : j \in DOMAIN data}

LEMMA CarriedOne ==
  ASSUME NEW data
  PROVE  Carried(<<data>>) = Given(data)
BY DEF Carried, Given

\* A read gives bytes of the source.
LEMMA ReadIsBytes ==
  ASSUME DataTypeOK, NEW c \in Conns, NEW p \in 0 .. MaxPos, p <= wpos[c]
  PROVE  ReadFrom(c, p) \in Seq(Bytes)
<1> DEFINE w == wpos[c]
           v == View(p, w)
           n == IF w - p < Capacity THEN w - p ELSE Capacity
<1>1. w \in Nat /\ w <= MaxPos /\ p \in Nat /\ p <= w
  BY DEF DataTypeOK
<1> HIDE DEF w
<1>2. v \in Seq(0 .. w - 1) /\ Len(v) = n
  BY <1>1, ViewShape
<1>3. n \in Nat
  BY <1>1
<1> HIDE DEF n
<1>4. DOMAIN v = 1 .. n
  BY <1>2, <1>3
<1>5. ReadFrom(c, p) = [k \in 1 .. n |-> <<c, v[k]>>]
  BY <1>4 DEF ReadFrom, w
<1> HIDE DEF v
<1>6. \A k \in 1 .. n : v[k] \in 0 .. MaxPos - 1
  <2> SUFFICES ASSUME NEW k \in 1 .. n PROVE v[k] \in 0 .. MaxPos - 1
    OBVIOUS
  <2>1. v[k] \in 0 .. w - 1
    BY <1>1, <1>2, <1>3, <1>4
  <2> QED
    BY <1>1, <2>1
<1>7. ReadFrom(c, p) \in [1 .. n -> Bytes]
  BY <1>5, <1>6 DEF Bytes
<1> QED
  BY <1>3, <1>7

\* It gives all that the buffer still has from the position on; to a reader that
\* was lapped, when it starts at the first byte of the stream.
LEMMA ReadGives ==
  ASSUME DataTypeOK, NEW c \in Conns, NEW p \in 0 .. MaxPos, p <= wpos[c],
         Lapped(c, p) => p = 0,
         NEW i \in p .. wpos[c] - 1, i >= wpos[c] - Capacity
  PROVE  <<c, i>> \in Given(ReadFrom(c, p))
<1> DEFINE w == wpos[c]
           n == IF w - p < Capacity THEN w - p ELSE Capacity
<1>1. w \in Nat /\ p \in Nat /\ p <= w /\ i \in Nat /\ i < w /\ i >= p
  BY DEF DataTypeOK
<1>2. w - p > Capacity => p = 0
  BY DEF Lapped
<1>3. ReadFrom(c, p) = [k \in 1 .. n |-> <<c, LatestIn((p + k - 1) % Capacity, w)>>]
  BY DEF ReadFrom, View
<1>4. i >= w - Capacity
  OBVIOUS
<1> HIDE DEF w
<1>5. LatestIn(i % Capacity, w) = i
  BY <1>1, <1>4, LatestInWindow
<1>6. \E k \in 1 .. n : (p + k - 1) % Capacity = i % Capacity
  <2>1. CASE w - p <= Capacity
    <3> DEFINE k == i - p + 1
    <3>1. k \in 1 .. n /\ p + k - 1 = i
      BY <1>1, <2>1
    <3> QED
      BY <3>1
  <2>2. CASE w - p > Capacity
    <3> DEFINE x == i % Capacity
               k == x + 1
    <3>1. x \in 0 .. Capacity - 1
      BY <1>1, DivMod
    <3>2. n = Capacity /\ p = 0
      BY <1>1, <1>2, <2>2
    <3> HIDE DEF x
    <3>3. k \in 1 .. n /\ p + k - 1 = x
      BY <3>1, <3>2
    <3>4. x % Capacity = x
      <4>1. x \in Nat /\ x = Capacity * 0 + x
        BY <3>1
      <4> QED
        BY <3>1, <4>1, ModUnique
    <3> HIDE DEF k
    <3> QED
      BY <3>3, <3>4 DEF x
  <2> QED
    BY <1>1, <2>1, <2>2
<1> HIDE DEF n
<1>7. PICK k \in 1 .. n : (p + k - 1) % Capacity = i % Capacity
  BY <1>6
<1>8. k \in DOMAIN ReadFrom(c, p) /\ ReadFrom(c, p)[k] = <<c, i>>
  BY <1>3, <1>5, <1>7
<1> QED
  BY <1>8 DEF Given

-----------------------------------------------------------------------------
(* The inductive invariant *)

\* Where a watcher is with the source it looked up, and how far it is in the
\* stream of the one it read last.
WatcherSound(w) ==
  /\ w.pc \in {"check", "look", "read", "send"} => w.source \in Conns
  /\ w.pc = "read" => w.last < w.cur /\ w.cur <= wpos[w.source]
  /\ w.pc # "send" => w.data = <<>>
  /\ w.of = NoConn => w.last = 0
  /\ w.of # NoConn => w.last <= wpos[w.of]

EdgeSound(r) ==
  /\ r.pc \in {"burst", "readBurst", "stream"} => r.source \in Conns
  /\ r.pc = "readBurst" => wpos[r.source] > 0

\* What an edge has of the source it streams meets what watcher t is about to
\* read of that source, or has read and not sent.
Meets(e, t) ==
  LET c == edge[e].source
      w == watcher[t]
  IN  edge[e].pc = "stream" /\ ~lagged[e] /\ c \notin strayed
        /\ w.mount = edge[e].mount /\ w.of = c =>
        \A i \in edge[e].first .. wpos[c] - 1 :
          \/ <<c, i>> \in got[e] \cup Carried(queue[e])
          \/ w.last <= i
          \/ <<c, i>> \in Given(w.data)

\* A source that a watcher was spawned for had registered, so it will not
\* register again.
MetOnce ==
  \A m \in Mounts :
    metBy[m] # NoConn => srcPc[metBy[m]] \in {"welcome", "streaming", "unregister", "closed"}

\* As long as it stays, a watcher is there that has not met another source.
WatcherStays ==
  \A m \in Mounts :
    watching[m] /\ MountExists(m) /\ sources[m] = metBy[m] /\ connected[sources[m]] =>
      \E t \in Watchers : Live(t, m) /\ watcher[t].source \in {NoConn, sources[m]}

ClusterInv ==
  /\ ClusterTypeOK
  /\ \A t \in Watchers : WatcherSound(watcher[t])
  /\ \A e \in Edges : EdgeSound(edge[e])
  /\ \A e \in Edges : \A t \in Watchers : Meets(e, t)
  /\ MetOnce /\ WatcherStays

LEMMA InitInv == ClusterInit => ClusterInv
<1> SUFFICES ASSUME ClusterInit PROVE ClusterInv
  OBVIOUS
<1> USE DEF ClusterInit, DataInit
<1>1. DataTypeOK
  BY DEF DataTypeOK, SourceInit, SourcesInit, SourceTypeOK, SourcesTypeOK, SrcPcs
<1>2. PICK m \in Mounts : watcher = [t \in Watchers |-> FreeWatcher(m)]
  OBVIOUS
<1>3. FreeWatcher(m) \in WatcherRec
  <2>1. <<>> \in Seq(Bytes) /\ 0 \in 0 .. MaxPos
    OBVIOUS
  <2> QED
    BY <2>1 DEF FreeWatcher, WatcherRec
<1>4. edge \in [Edges -> EdgeRec] /\ \A e \in Edges : edge[e].pc = "idle"
  BY DEF EdgeRec
<1>5. queue \in [Edges -> Seq(Seq(Bytes))] /\ \A e \in Edges : Len(queue[e]) <= QueueCap
  OBVIOUS
<1>6. ClusterTypeOK
  <2>1. \A e \in Edges : ~Subscribed(e)
    BY <1>4 DEF Subscribed
  <2>2. metBy \in [Mounts -> Conns \cup {NoConn}]
    OBVIOUS
  <2> QED
    BY <1>1, <1>2, <1>3, <1>4, <1>5, <2>1, <2>2 DEF ClusterTypeOK
<1>7. \A t \in Watchers : WatcherSound(watcher[t])
  BY <1>2 DEF WatcherSound, FreeWatcher
<1>8. \A e \in Edges : EdgeSound(edge[e])
  BY <1>4 DEF EdgeSound
<1>9. \A e \in Edges : \A t \in Watchers : Meets(e, t)
  BY <1>4 DEF Meets
<1>10. MetOnce /\ WatcherStays
  BY DEF MetOnce, WatcherStays
<1> QED
  BY <1>6, <1>7, <1>8, <1>9, <1>10 DEF ClusterInv

\* The sources move on between any two steps of the origin.
LEMMA SourcesMoveInv ==
  ASSUME ClusterInv, SourceTypeOK', DataNext, UNCHANGED originVars
  PROVE  ClusterInv'
<1> USE DEF originVars
<1>0. ClusterTypeOK /\ DataTypeOK /\ SourceTypeOK
  BY DEF ClusterInv, ClusterTypeOK, DataTypeOK
<1>1. DataTypeOK' /\ \A c \in Conns : wpos[c] <= wpos'[c]
  BY <1>0, DataGrows
<1>2. \A c \in Conns : wpos[c] \in Nat /\ wpos'[c] \in Nat
  BY <1>0, <1>1 DEF DataTypeOK
<1>3. ClusterTypeOK'
  BY <1>0, <1>1 DEF ClusterTypeOK, Subscribed
<1>4. ASSUME NEW t \in Watchers PROVE WatcherSound(watcher[t])'
  <2>1. watcher[t] \in WatcherRec /\ WatcherSound(watcher[t])
    BY <1>0 DEF ClusterInv, ClusterTypeOK
  <2> DEFINE w == watcher[t]
  <2>2. /\ w.last \in Nat /\ w.cur \in Nat
        /\ w.of = NoConn \/ w.of \in Conns
    BY <2>1 DEF WatcherRec
  <2>3. w.of # NoConn => w.last <= wpos'[w.of]
    BY <1>1, <1>2, <2>1, <2>2 DEF WatcherSound
  <2>4. w.pc = "read" => w.cur <= wpos'[w.source]
    BY <1>1, <1>2, <2>1, <2>2 DEF WatcherSound
  <2> QED
    BY <2>1, <2>3, <2>4 DEF WatcherSound
<1>5. ASSUME NEW e \in Edges PROVE EdgeSound(edge[e])'
  <2>1. EdgeSound(edge[e])
    BY DEF ClusterInv
  <2>2. edge[e].pc = "readBurst" => wpos'[edge[e].source] > 0
    BY <1>1, <1>2, <2>1 DEF EdgeSound
  <2> QED
    BY <2>1, <2>2 DEF EdgeSound
<1>6. ASSUME NEW e \in Edges, NEW t \in Watchers PROVE Meets(e, t)'
  <2> DEFINE c == edge[e].source
             w == watcher[t]
  <2> SUFFICES ASSUME edge[e].pc = "stream", ~lagged[e], c \notin strayed,
                      w.mount = edge[e].mount, w.of = c,
                      NEW i \in edge[e].first .. wpos'[c] - 1
               PROVE  \/ <<c, i>> \in got[e] \cup Carried(queue[e])
                      \/ w.last <= i
                      \/ <<c, i>> \in Given(w.data)
    BY DEF Meets
  <2>1. c \in Conns /\ c # NoConn
    BY SourceManagerAssumption DEF ClusterInv, EdgeSound
  <2>2. w.last <= wpos[c]
    BY <2>1 DEF ClusterInv, WatcherSound
  <2>3. w.last \in Nat /\ edge[e].first \in Nat
    BY <1>0 DEF ClusterTypeOK, WatcherRec, EdgeRec
  <2>4. CASE i < wpos[c]
    <3>1. i \in edge[e].first .. wpos[c] - 1
      BY <1>2, <2>1, <2>3, <2>4
    <3>2. Meets(e, t)
      BY DEF ClusterInv
    <3> QED
      BY <3>1, <3>2 DEF Meets
  <2>5. CASE i >= wpos[c]
    BY <1>2, <2>1, <2>2, <2>3, <2>5
  <2> QED
    BY <1>2, <2>1, <2>3, <2>4, <2>5
<1>7. \A c \in Conns :
        srcPc[c] \in {"welcome", "streaming", "unregister", "closed"}
          => /\ srcPc'[c] \in {"welcome", "streaming", "unregister", "closed"}
             /\ connected'[c] => connected[c]
             /\ \A m \in Mounts : sources'[m] = c => sources[m] = c
  BY <1>0, SourceManagerAssumption
     DEF DataNext, WriteData, srcVars, SourceStep, Connect, Reject, RegisterCheck,
         RegisterInsert, Welcome, Disconnect, Unregister, GoSrc, Insert, Remove,
         SourceTypeOK, SourcesTypeOK
<1>8. \A m \in Mounts : metBy[m] \in Conns \cup {NoConn}
  BY <1>0 DEF ClusterTypeOK
<1>9. MetOnce'
  BY <1>7, <1>8 DEF ClusterInv, MetOnce
<1>10. WatcherStays'
  <2> SUFFICES ASSUME NEW m \in Mounts, watching[m], sources'[m] # NoConn,
                      sources'[m] = metBy[m], connected'[sources'[m]]
               PROVE  \E t \in Watchers : /\ Live(t, m)
                                          /\ watcher[t].source \in {NoConn, sources'[m]}
    BY DEF WatcherStays, MountExists, Live
  <2>1. sources[m] = metBy[m] /\ connected[sources[m]] /\ sources[m] # NoConn
    BY <1>7, <1>8 DEF ClusterInv, MetOnce
  <2> QED
    BY <2>1 DEF ClusterInv, WatcherStays, MountExists
<1> QED
  BY <1>3, <1>4, <1>5, <1>6, <1>9, <1>10 DEF ClusterInv

-----------------------------------------------------------------------------
(* The ticker *)

LEMMA FreeWatcherShape ==
  ASSUME NEW m \in Mounts
  PROVE  /\ FreeWatcher(m) \in WatcherRec
         /\ LET w == FreeWatcher(m) IN
            /\ w.pc = "free" /\ w.mount = m /\ w.source = NoConn /\ w.of = NoConn
            /\ w.last = 0 /\ w.cur = 0 /\ w.data = <<>>
<1>1. <<>> \in Seq(Bytes) /\ 0 \in 0 .. MaxPos
  OBVIOUS
<1> QED
  BY <1>1 DEF FreeWatcher, WatcherRec

\* The new watcher starts where none was.
LEMMA SpawnInv ==
  ASSUME ClusterInv, NoDeadEntry, NEW m \in Mounts, NEW t \in Watchers, Spawn(m, t)
  PROVE  ClusterInv'
<1> DEFINE new == [FreeWatcher(m) EXCEPT !.pc = "sleep"]
<1> USE DEF dataVars, srcVars
<1>1. /\ MountExists(m) /\ watcher[t].pc = "free"
      /\ watcher' = [watcher EXCEPT ![t] = new]
      /\ watching' = [watching EXCEPT ![m] = TRUE]
      /\ metBy' = [metBy EXCEPT ![m] = sources[m]]
      /\ UNCHANGED <<dataVars, senders, edge, queue, lagged, got, strayed>>
  BY DEF Spawn
<1>2. /\ new \in WatcherRec /\ new.pc = "sleep" /\ new.mount = m /\ new.source = NoConn
      /\ new.of = NoConn /\ new.last = 0 /\ new.data = <<>>
  <2> DEFINE free == FreeWatcher(m)
  <2>1. /\ free \in WatcherRec /\ free.mount = m /\ free.source = NoConn
        /\ free.of = NoConn /\ free.last = 0 /\ free.data = <<>>
    BY FreeWatcherShape
  <2> HIDE DEF free
  <2>2. new = [free EXCEPT !.pc = "sleep"]
    BY DEF free
  <2> HIDE DEF new
  <2> QED
    BY <2>1, <2>2 DEF WatcherRec
<1> HIDE DEF new
<1>3. ClusterTypeOK
  BY DEF ClusterInv
<1>4. /\ watcher' \in [Watchers -> WatcherRec]
      /\ watcher'[t] = new /\ \A u \in Watchers \ {t} : watcher'[u] = watcher[u]
  BY <1>1, <1>2, <1>3 DEF ClusterTypeOK
<1>5. sources[m] \in Conns
  BY <1>1, <1>3 DEF MountExists, ClusterTypeOK, DataTypeOK, SourceTypeOK, SourcesTypeOK
<1>6. ClusterTypeOK'
  BY <1>1, <1>3, <1>4, <1>5
     DEF ClusterTypeOK, DataTypeOK, SourceTypeOK, SourcesTypeOK, Subscribed
<1>7. ASSUME NEW u \in Watchers PROVE WatcherSound(watcher[u])'
  <2>1. WatcherSound(watcher[u])
    BY DEF ClusterInv
  <2> QED
    BY <1>1, <1>2, <1>4, <2>1, SourceManagerAssumption DEF WatcherSound
<1>8. \A e \in Edges : EdgeSound(edge[e])'
  BY <1>1 DEF ClusterInv, EdgeSound
<1>9. ASSUME NEW e \in Edges, NEW u \in Watchers PROVE Meets(e, u)'
  <2>1. CASE u = t
    <3>1. edge[e].pc = "stream" => edge[e].source # NoConn
      BY SourceManagerAssumption DEF ClusterInv, EdgeSound
    <3> QED
      BY <1>1, <1>2, <1>4, <2>1, <3>1 DEF Meets
  <2>2. CASE u # t
    <3>1. Meets(e, u)
      BY DEF ClusterInv
    <3> QED
      BY <1>1, <1>4, <2>2, <3>1 DEF Meets
  <2> QED
    BY <2>1, <2>2
<1>10. MetOnce'
  <2>1. srcPc[sources[m]] \in {"welcome", "streaming", "unregister"}
    BY <1>1 DEF NoDeadEntry, Holding
  <2> QED
    BY <1>1, <1>3, <2>1 DEF ClusterInv, MetOnce, ClusterTypeOK
<1>11. WatcherStays'
  <2> SUFFICES ASSUME NEW n \in Mounts, watching'[n], MountExists(n),
                      sources[n] = metBy'[n], connected[sources[n]]
               PROVE  \E u \in Watchers :
                        /\ watcher'[u].mount = n /\ watcher'[u].pc \notin {"free", "prune"}
                        /\ watcher'[u].source \in {NoConn, sources[n]}
    BY <1>1 DEF WatcherStays, MountExists, Live
  <2>1. CASE n = m
    BY <1>2, <1>4, <2>1
  <2>2. CASE n # m
    <3>1. watching[n] /\ sources[n] = metBy[n]
      BY <1>1, <1>3, <2>2 DEF ClusterTypeOK
    <3>2. PICK u \in Watchers : Live(u, n) /\ watcher[u].source \in {NoConn, sources[n]}
      BY <3>1 DEF ClusterInv, WatcherStays
    <3> QED
      BY <1>1, <1>4, <3>2 DEF Live
  <2> QED
    BY <2>1, <2>2
<1> QED
  BY <1>6, <1>7, <1>8, <1>9, <1>10, <1>11 DEF ClusterInv

LEMMA ForgetInv ==
  ASSUME ClusterInv, NEW m \in Mounts, Forget(m)
  PROVE  ClusterInv'
<1>1. /\ watching' = [watching EXCEPT ![m] = FALSE]
      /\ UNCHANGED <<dataVars, watcher, senders, edge, queue, lagged, got, metBy, strayed>>
  BY DEF Forget
<1>2. UNCHANGED <<sources, srcPc, srcMount, connected, raced, wpos>>
  BY <1>1 DEF dataVars, srcVars
<1>3. ClusterTypeOK'
  BY <1>1, <1>2
     DEF ClusterInv, ClusterTypeOK, DataTypeOK, SourceTypeOK, SourcesTypeOK, Subscribed
<1>4. WatcherStays'
  <2>1. \A n \in Mounts : watching'[n] => watching[n]
    BY <1>1 DEF ClusterInv, ClusterTypeOK
  <2> QED
    BY <1>1, <1>2, <2>1 DEF ClusterInv, WatcherStays, MountExists, Live
<1> QED
  BY <1>1, <1>2, <1>3, <1>4
     DEF ClusterInv, WatcherSound, EdgeSound, Meets, MetOnce

-----------------------------------------------------------------------------
(* The watchers *)

\* A watcher of a source that stays does not end.
StaysFor(w, to) ==
  \A c \in Conns :
    /\ sources[w.mount] = c /\ connected[c]
    /\ w.pc \notin {"free", "prune"} /\ w.source \in {NoConn, c}
    => to.pc \notin {"free", "prune"} /\ to.source \in {NoConn, c}

\* A step of a watcher keeps the invariant when what it holds and what it is
\* about to read still meet what the edges have.
LEMMA WatcherMoves ==
  ASSUME ClusterInv, NEW t \in Watchers, NEW to \in WatcherRec,
         WatcherSound(to), to.mount = watcher[t].mount, StaysFor(watcher[t], to),
         watcher' = [watcher EXCEPT ![t] = to],
         UNCHANGED <<dataVars, watching, edge, got, metBy>>,
         ClusterTypeOK',
         \A e \in Edges : \A u \in Watchers : Meets(e, u)'
  PROVE  ClusterInv'
<1>1. UNCHANGED <<sources, srcPc, srcMount, connected, raced, wpos>>
  BY DEF dataVars, srcVars
<1>2. watcher'[t] = to /\ \A u \in Watchers \ {t} : watcher'[u] = watcher[u]
  BY DEF ClusterInv, ClusterTypeOK
<1>3. ASSUME NEW u \in Watchers PROVE WatcherSound(watcher[u])'
  <2>1. WatcherSound(watcher[u])
    BY DEF ClusterInv
  <2> QED
    BY <1>1, <1>2, <2>1 DEF WatcherSound
<1>4. \A e \in Edges : EdgeSound(edge[e])'
  BY <1>1 DEF ClusterInv, EdgeSound
<1>5. MetOnce'
  BY <1>1 DEF ClusterInv, MetOnce
<1>6. WatcherStays'
  <2> SUFFICES ASSUME NEW m \in Mounts, watching[m], MountExists(m),
                      sources[m] = metBy[m], connected[sources[m]]
               PROVE  \E u \in Watchers :
                        /\ watcher'[u].mount = m /\ watcher'[u].pc \notin {"free", "prune"}
                        /\ watcher'[u].source \in {NoConn, sources[m]}
    BY <1>1 DEF WatcherStays, MountExists, Live
  <2>1. PICK u \in Watchers : Live(u, m) /\ watcher[u].source \in {NoConn, sources[m]}
    BY DEF ClusterInv, WatcherStays
  <2>2. sources[m] \in Conns
    BY DEF ClusterInv, ClusterTypeOK, DataTypeOK, SourceTypeOK, SourcesTypeOK, MountExists
  <2> QED
    BY <1>2, <2>1, <2>2 DEF Live, StaysFor
<1> QED
  BY <1>3, <1>4, <1>5, <1>6 DEF ClusterInv

\* It looks and goes on, and holds what it held.
LEMMA WatcherLooks ==
  ASSUME ClusterInv, NEW t \in Watchers, NEW to \in WatcherRec,
         WatcherSound(to), StaysFor(watcher[t], to),
         to.mount = watcher[t].mount, to.of = watcher[t].of,
         to.last = watcher[t].last, to.data = watcher[t].data,
         Step(t, to), UNCHANGED strayed
  PROVE  ClusterInv'
<1>1. /\ watcher' = [watcher EXCEPT ![t] = to]
      /\ UNCHANGED <<dataVars, watching, senders, edge, queue, lagged, got, metBy>>
      /\ UNCHANGED <<sources, srcPc, srcMount, connected, raced, wpos>>
  BY DEF Step, dataVars, srcVars
<1>2. watcher'[t] = to /\ \A u \in Watchers \ {t} : watcher'[u] = watcher[u]
  BY <1>1 DEF ClusterInv, ClusterTypeOK
<1>3. ClusterTypeOK'
  BY <1>1 DEF ClusterInv, ClusterTypeOK, DataTypeOK, SourceTypeOK, SourcesTypeOK, Subscribed
<1>4. ASSUME NEW e \in Edges, NEW u \in Watchers PROVE Meets(e, u)'
  <2>1. Meets(e, u)
    BY DEF ClusterInv
  <2> QED
    BY <1>1, <1>2, <2>1 DEF Meets
<1> QED
  BY <1>1, <1>3, <1>4, WatcherMoves

LEMMA WakeInv ==
  ASSUME ClusterInv, NEW t \in Watchers, Wake(t)
  PROVE  ClusterInv'
<1> DEFINE w == watcher[t]
           pc == IF MountExists(w.mount) THEN "check" ELSE "prune"
           to == [w EXCEPT !.pc = pc, !.source = sources[w.mount]]
<1>1. w \in WatcherRec /\ WatcherSound(w) /\ w.pc = "sleep"
  BY DEF ClusterInv, ClusterTypeOK, Wake
<1>2. w.mount \in Mounts /\ sources[w.mount] \in Conns \cup {NoConn}
  BY <1>1 DEF WatcherRec, ClusterInv, ClusterTypeOK, DataTypeOK, SourceTypeOK, SourcesTypeOK
<1>3. Step(t, to) /\ UNCHANGED strayed
  BY DEF Wake
<1> HIDE DEF w
<1>4. /\ to.pc = pc /\ to.source = sources[w.mount]
      /\ to.mount = w.mount /\ to.of = w.of /\ to.last = w.last /\ to.data = w.data
      /\ to.cur = w.cur
  BY <1>1 DEF WatcherRec
<1>5. to \in WatcherRec
  BY <1>1, <1>2 DEF WatcherRec
<1> HIDE DEF to
<1>6. WatcherSound(to)
  BY <1>1, <1>2, <1>4 DEF WatcherSound, MountExists
<1>7. StaysFor(w, to)
  BY <1>4, SourceManagerAssumption DEF StaysFor, MountExists
<1> QED
  BY <1>3, <1>4, <1>5, <1>6, <1>7, WatcherLooks DEF w

LEMMA CheckInv ==
  ASSUME ClusterInv, NEW t \in Watchers, CheckConnected(t)
  PROVE  ClusterInv'
<1> DEFINE w == watcher[t]
           pc == IF connected[w.source] THEN "look" ELSE "prune"
           to == [w EXCEPT !.pc = pc]
<1>1. w \in WatcherRec /\ WatcherSound(w) /\ w.pc = "check"
  BY DEF ClusterInv, ClusterTypeOK, CheckConnected
<1>2. Step(t, to) /\ UNCHANGED strayed
  BY DEF CheckConnected
<1> HIDE DEF w
<1>3. /\ to.pc = pc /\ to.source = w.source
      /\ to.mount = w.mount /\ to.of = w.of /\ to.last = w.last /\ to.data = w.data
      /\ to.cur = w.cur
  BY <1>1 DEF WatcherRec
<1>4. to \in WatcherRec
  BY <1>1 DEF WatcherRec
<1> HIDE DEF to
<1>5. WatcherSound(to)
  BY <1>1, <1>3 DEF WatcherSound
<1>6. StaysFor(w, to)
  BY <1>1, <1>3, SourceManagerAssumption DEF StaysFor, WatcherSound
<1> QED
  BY <1>2, <1>3, <1>4, <1>5, <1>6, WatcherLooks DEF w

LEMMA LookInv ==
  ASSUME ClusterInv, NEW t \in Watchers, LookPosition(t)
  PROVE  ClusterInv'
<1> DEFINE w == watcher[t]
           ahead == [w EXCEPT !.pc = "read", !.cur = wpos[w.source]]
           done == [w EXCEPT !.pc = "sleep", !.source = NoConn]
<1>1. w \in WatcherRec /\ WatcherSound(w) /\ w.pc = "look"
  BY DEF ClusterInv, ClusterTypeOK, LookPosition
<1>2. w.source \in Conns /\ wpos[w.source] \in 0 .. MaxPos /\ w.last \in Nat
  BY <1>1 DEF WatcherSound, WatcherRec, ClusterInv, ClusterTypeOK, DataTypeOK
<1>3. Step(t, IF wpos[w.source] > w.last THEN ahead ELSE done) /\ UNCHANGED strayed
  BY DEF LookPosition
<1> HIDE DEF w
<1>4. CASE wpos[w.source] > w.last
  <2>1. /\ ahead.pc = "read" /\ ahead.source = w.source /\ ahead.cur = wpos[w.source]
        /\ ahead.mount = w.mount /\ ahead.of = w.of /\ ahead.last = w.last
        /\ ahead.data = w.data
    BY <1>1 DEF WatcherRec
  <2>2. ahead \in WatcherRec
    BY <1>1, <1>2 DEF WatcherRec
  <2> HIDE DEF ahead
  <2>3. WatcherSound(ahead)
    BY <1>1, <1>2, <1>4, <2>1 DEF WatcherSound
  <2>4. StaysFor(w, ahead)
    BY <2>1 DEF StaysFor
  <2> QED
    BY <1>3, <1>4, <2>1, <2>2, <2>3, <2>4, WatcherLooks DEF w
<1>5. CASE ~(wpos[w.source] > w.last)
  <2>1. /\ done.pc = "sleep" /\ done.source = NoConn /\ done.cur = w.cur
        /\ done.mount = w.mount /\ done.of = w.of /\ done.last = w.last
        /\ done.data = w.data
    BY <1>1 DEF WatcherRec
  <2>2. done \in WatcherRec
    BY <1>1 DEF WatcherRec
  <2> HIDE DEF done
  <2>3. WatcherSound(done)
    BY <1>1, <2>1 DEF WatcherSound
  <2>4. StaysFor(w, done)
    BY <2>1 DEF StaysFor
  <2> QED
    BY <1>3, <1>5, <2>1, <2>2, <2>3, <2>4, WatcherLooks DEF w
<1> QED
  BY <1>4, <1>5

\* A watcher in time takes what follows the bytes that the edges have; one that
\* is not has strayed.
LEMMA ReadNewInv ==
  ASSUME ClusterInv, NEW t \in Watchers, ReadNew(t)
  PROVE  ClusterInv'
<1> DEFINE w == watcher[t]
           c == w.source
           bytes == ReadFrom(c, w.last)
           to == [w EXCEPT !.pc = "send", !.data = bytes, !.last = w.cur, !.cur = 0,
                           !.of = c]
<1>1. w \in WatcherRec /\ WatcherSound(w) /\ w.pc = "read" /\ ClusterTypeOK
  BY DEF ClusterInv, ClusterTypeOK, ReadNew
<1>2. /\ c \in Conns /\ w.last \in 0 .. MaxPos /\ w.cur \in 0 .. MaxPos
      /\ w.last < w.cur /\ w.cur <= wpos[c] /\ wpos[c] \in 0 .. MaxPos
      /\ w.data = <<>> /\ (w.of = NoConn => w.last = 0)
  BY <1>1 DEF WatcherSound, WatcherRec, ClusterTypeOK, DataTypeOK
<1>3. /\ Step(t, to)
      /\ strayed' = IF w.of \notin {c, NoConn} \/ Lapped(c, w.last)
                    THEN strayed \cup {c} ELSE strayed
  BY DEF ReadNew
<1> HIDE DEF c, w
<1>4. bytes \in Seq(Bytes)
  <2>1. DataTypeOK /\ w.last <= wpos[c]
    BY <1>1, <1>2 DEF ClusterTypeOK
  <2> QED
    BY <1>2, <2>1, ReadIsBytes
<1>5. ASSUME ~Lapped(c, w.last), NEW i \in w.last .. wpos[c] - 1
      PROVE  <<c, i>> \in Given(bytes)
  <2>1. DataTypeOK /\ w.last <= wpos[c] /\ i >= wpos[c] - Capacity
    BY <1>1, <1>2, <1>5 DEF ClusterTypeOK, Lapped
  <2> QED
    BY <1>2, <1>5, <2>1, ReadGives
<1> HIDE DEF bytes
<1>6. /\ to.pc = "send" /\ to.source = w.source /\ to.mount = w.mount /\ to.of = c
      /\ to.last = w.cur /\ to.cur = 0 /\ to.data = bytes
  BY <1>1 DEF WatcherRec
<1>7. to \in WatcherRec
  <2> DEFINE f == [w EXCEPT !.pc = "send", !.data = bytes]
             l == [f EXCEPT !.last = w.cur]
             g == [l EXCEPT !.cur = 0]
  <2>1. f \in WatcherRec
    BY <1>1, <1>4 DEF WatcherRec
  <2>2. to = [g EXCEPT !.of = c]
    OBVIOUS
  <2> HIDE DEF f
  <2>3. l \in WatcherRec
    BY <1>2, <2>1 DEF WatcherRec
  <2> HIDE DEF l
  <2>4. g \in WatcherRec
    BY <2>3 DEF WatcherRec
  <2> HIDE DEF g, to
  <2> QED
    BY <1>2, <2>2, <2>4 DEF WatcherRec
<1> HIDE DEF to
<1>8. WatcherSound(to)
  BY <1>1, <1>2, <1>6, SourceManagerAssumption DEF WatcherSound
<1>9. StaysFor(w, to)
  BY <1>6 DEF StaysFor
<1>10. /\ watcher' = [watcher EXCEPT ![t] = to]
       /\ UNCHANGED <<dataVars, watching, senders, edge, queue, lagged, got, metBy>>
       /\ UNCHANGED <<sources, srcPc, srcMount, connected, raced, wpos>>
  BY <1>3 DEF Step, dataVars, srcVars
<1>11. ClusterTypeOK'
  <2>1. strayed' \in SUBSET Conns
    BY <1>1, <1>2, <1>3 DEF ClusterTypeOK
  <2> QED
    BY <1>1, <1>7, <1>10, <2>1
       DEF ClusterTypeOK, DataTypeOK, SourceTypeOK, SourcesTypeOK, Subscribed
<1>12. watcher'[t] = to /\ \A u \in Watchers \ {t} : watcher'[u] = watcher[u]
  BY <1>1, <1>10 DEF ClusterTypeOK
<1>13. \A d \in Conns : d \notin strayed' => d \notin strayed
  BY <1>3
<1>14. ASSUME NEW e \in Edges, NEW u \in Watchers PROVE Meets(e, u)'
  <2>1. Meets(e, u)
    BY DEF ClusterInv
  <2>2. CASE u # t
    <3>1. edge[e].source \notin strayed' => edge[e].source \notin strayed
      BY <1>3
    <3> QED
      BY <1>10, <1>12, <2>1, <2>2, <3>1 DEF Meets
  <2>3. CASE u = t
    <3> SUFFICES ASSUME edge[e].pc = "stream", ~lagged[e], edge[e].source = c,
                        c \notin strayed', w.mount = edge[e].mount,
                        NEW i \in edge[e].first .. wpos[c] - 1
                 PROVE  \/ <<c, i>> \in got[e] \cup Carried(queue[e])
                        \/ <<c, i>> \in Given(bytes)
      BY <1>6, <1>10, <1>12, <2>3 DEF Meets
    <3>1. w.of \in {c, NoConn} /\ ~Lapped(c, w.last) /\ c \notin strayed
      BY <1>3
    <3>2. i \in Int
      BY <1>1 DEF ClusterTypeOK, EdgeRec
    <3>3. CASE i >= w.last
      <4>1. i \in w.last .. wpos[c] - 1
        BY <1>2, <3>2, <3>3
      <4> QED
        BY <1>5, <3>1, <4>1
    <3>4. CASE ~(i >= w.last)
      <4>1. w.of = c
        <5>1. i >= 0
          BY <1>1 DEF ClusterTypeOK, EdgeRec
        <5> QED
          BY <1>2, <3>1, <3>4, <5>1
      <4>2. \/ <<c, i>> \in got[e] \cup Carried(queue[e])
            \/ w.last <= i
            \/ <<c, i>> \in Given(w.data)
        BY <2>1, <2>3, <3>1, <4>1 DEF Meets, w
      <4>3. ~(w.last <= i)
        BY <1>2, <3>2, <3>4
      <4>4. Given(w.data) = {}
        BY <1>2 DEF Given
      <4> QED
        BY <4>2, <4>3, <4>4
    <3> QED
      BY <3>3, <3>4
  <2> QED
    BY <2>2, <2>3
<1> QED
  BY <1>6, <1>7, <1>8, <1>9, <1>10, <1>11, <1>14, WatcherMoves DEF w

LEMMA PruneInv ==
  ASSUME ClusterInv, NEW t \in Watchers, Prune(t)
  PROVE  ClusterInv'
<1> DEFINE w == watcher[t]
           to == FreeWatcher(w.mount)
<1>1. w \in WatcherRec /\ w.pc = "prune" /\ ClusterTypeOK /\ w.mount \in Mounts
  BY DEF ClusterInv, ClusterTypeOK, Prune, WatcherRec
<1>2. /\ to \in WatcherRec /\ to.pc = "free" /\ to.mount = w.mount /\ to.source = NoConn
      /\ to.of = NoConn /\ to.last = 0 /\ to.data = <<>>
  BY <1>1, FreeWatcherShape
<1>3. /\ watcher' = [watcher EXCEPT ![t] = to]
      /\ senders' = [senders EXCEPT ![w.mount] = {e \in @ : Subscribed(e)}]
      /\ UNCHANGED <<dataVars, watching, edge, queue, lagged, got, metBy, strayed>>
      /\ UNCHANGED <<sources, srcPc, srcMount, connected, raced, wpos>>
  BY DEF Prune, dataVars, srcVars
<1> HIDE DEF to
<1>4. WatcherSound(to) /\ StaysFor(w, to)
  BY <1>1, <1>2 DEF WatcherSound, StaysFor
<1> HIDE DEF w
<1>5. ClusterTypeOK'
  <2>1. /\ senders' \in [Mounts -> SUBSET Edges]
        /\ \A e \in Edges : Subscribed(e) => e \in senders'[edge[e].mount]
    BY <1>1, <1>3 DEF ClusterTypeOK
  <2> QED
    BY <1>1, <1>2, <1>3, <2>1
       DEF ClusterTypeOK, DataTypeOK, SourceTypeOK, SourcesTypeOK, Subscribed
<1>6. ASSUME NEW e \in Edges, NEW u \in Watchers PROVE Meets(e, u)'
  <2>1. Meets(e, u) /\ EdgeSound(edge[e])
    BY DEF ClusterInv
  <2>2. watcher'[u] = IF u = t THEN to ELSE watcher[u]
    BY <1>1, <1>3 DEF ClusterTypeOK
  <2> QED
    BY <1>2, <1>3, <2>1, <2>2, SourceManagerAssumption DEF Meets, EdgeSound
<1> QED
  BY <1>2, <1>3, <1>4, <1>5, <1>6, WatcherMoves DEF w

\* A message goes behind the others; one that finds room pushes none out.
LEMMA QueuedShape ==
  ASSUME NEW e \in Edges, NEW bytes \in Seq(Bytes),
         queue[e] \in Seq(Seq(Bytes)), Len(queue[e]) <= QueueCap
  PROVE  /\ Queued(e, bytes) \in Seq(Seq(Bytes)) /\ Len(Queued(e, bytes)) <= QueueCap
         /\ Len(queue[e]) < QueueCap =>
              Carried(queue[e]) \cup Given(bytes) \subseteq Carried(Queued(e, bytes))
<1> DEFINE q == queue[e]
           n == Len(q)
           Message == Seq(Bytes)
<1>1. q \in Seq(Message) /\ bytes \in Message /\ n \in Nat
  OBVIOUS
<1>2. n <= QueueCap /\ Len(q) = n
  OBVIOUS
<1> HIDE DEF q, n, Message
<1>3. CASE n < QueueCap
  <2> DEFINE r == Append(q, bytes)
  <2>1. Queued(e, bytes) = r
    BY <1>3 DEF Queued, q, n
  <2>2. /\ r \in Seq(Message) /\ Len(r) = n + 1 /\ n + 1 \in DOMAIN r
        /\ r[n + 1] = bytes /\ \A k \in DOMAIN q : k \in DOMAIN r /\ r[k] = q[k]
    BY <1>1, <1>2
  <2> HIDE DEF r
  <2>3. Carried(q) \cup Given(bytes) \subseteq Carried(r)
    BY <2>2 DEF Carried, Given
  <2>4. Len(r) <= QueueCap
    BY <1>1, <1>3, <2>2
  <2> QED
    BY <2>1, <2>2, <2>3, <2>4 DEF q, Message
<1>4. CASE ~(n < QueueCap)
  <2> DEFINE r == Append(Tail(q), bytes)
  <2>1. Queued(e, bytes) = r
    BY <1>4 DEF Queued, q, n
  <2>2. n # 0
    BY <1>1, <1>4
  <2>3. r \in Seq(Message) /\ Len(r) = n
    BY <1>1, <1>2, <2>2
  <2> HIDE DEF r
  <2> QED
    BY <1>2, <1>4, <2>1, <2>3 DEF q, n, Message
<1> QED
  BY <1>3, <1>4

\* What a watcher sends is then with every edge of its mount that has not
\* lagged.
LEMMA SendInv ==
  ASSUME ClusterInv, NEW t \in Watchers, Send(t)
  PROVE  ClusterInv'
<1> DEFINE w == watcher[t]
           receivers == {e \in senders[w.mount] : Subscribed(e)}
           to == [w EXCEPT !.pc = "sleep", !.data = <<>>, !.source = NoConn]
<1>1. w \in WatcherRec /\ WatcherSound(w) /\ w.pc = "send" /\ ClusterTypeOK
  BY DEF ClusterInv, ClusterTypeOK, Send
<1>2. w.data \in Seq(Bytes)
  BY <1>1 DEF WatcherRec
<1>3. /\ watcher' = [watcher EXCEPT ![t] = to]
      /\ queue' = [e \in Edges |-> IF e \in receivers THEN Queued(e, w.data) ELSE queue[e]]
      /\ lagged' = [e \in Edges |->
                      lagged[e] \/ (e \in receivers /\ Len(queue[e]) = QueueCap)]
      /\ UNCHANGED <<dataVars, watching, senders, edge, got, metBy, strayed>>
      /\ UNCHANGED <<sources, srcPc, srcMount, connected, raced, wpos>>
  BY DEF Send, dataVars, srcVars
<1>4. \A e \in Edges : edge[e].pc = "stream" /\ edge[e].mount = w.mount => e \in receivers
  BY <1>1 DEF ClusterTypeOK, Subscribed
<1> HIDE DEF w, receivers
<1>5. /\ to.pc = "sleep" /\ to.source = NoConn /\ to.mount = w.mount /\ to.of = w.of
      /\ to.last = w.last /\ to.data = <<>>
  BY <1>1 DEF WatcherRec
<1>6. to \in WatcherRec
  <2> DEFINE f == [w EXCEPT !.pc = "sleep", !.data = <<>>]
  <2>1. <<>> \in Seq(Bytes)
    OBVIOUS
  <2>2. f \in WatcherRec
    BY <1>1, <2>1 DEF WatcherRec
  <2>3. to = [f EXCEPT !.source = NoConn]
    OBVIOUS
  <2> HIDE DEF f, to
  <2> QED
    BY <2>2, <2>3 DEF WatcherRec
<1> HIDE DEF to
<1>7. WatcherSound(to) /\ StaysFor(w, to)
  BY <1>1, <1>5 DEF WatcherSound, StaysFor
<1>8. \A e \in Edges : queue[e] \in Seq(Seq(Bytes)) /\ Len(queue[e]) <= QueueCap
  BY <1>1 DEF ClusterTypeOK
<1>9. \A e \in Edges : queue'[e] \in Seq(Seq(Bytes)) /\ Len(queue'[e]) <= QueueCap
  <2> SUFFICES ASSUME NEW e \in Edges
               PROVE  queue'[e] \in Seq(Seq(Bytes)) /\ Len(queue'[e]) <= QueueCap
    OBVIOUS
  <2>1. CASE e \in receivers
    <3>1. queue'[e] = Queued(e, w.data)
      BY <1>3, <2>1
    <3> QED
      BY <1>2, <1>8, <3>1, QueuedShape
  <2>2. CASE e \notin receivers
    <3>1. queue'[e] = queue[e]
      BY <1>3, <2>2
    <3> QED
      BY <1>8, <3>1
  <2> QED
    BY <2>1, <2>2
<1>10. ClusterTypeOK'
  <2>1. queue' \in [Edges -> Seq(Seq(Bytes))]
    <3> DEFINE Channel == Seq(Seq(Bytes))
    <3>1. \A e \in Edges : queue'[e] \in Channel
      BY <1>9
    <3>2. \E f : queue' = [e \in Edges |-> f[e]]
      <4>1. queue' = [e \in Edges |-> queue'[e]]
        BY <1>3, Zenon
      <4> QED
        BY <4>1
    <3> HIDE DEF Channel
    <3>3. queue' \in [Edges -> Channel]
      BY <3>1, <3>2
    <3> QED
      BY <3>3 DEF Channel
  <2>2. lagged' \in [Edges -> BOOLEAN]
    BY <1>1, <1>3 DEF ClusterTypeOK
  <2>3. watcher' \in [Watchers -> WatcherRec]
    BY <1>1, <1>3, <1>6 DEF ClusterTypeOK
  <2> QED
    BY <1>1, <1>3, <1>9, <2>1, <2>2, <2>3
       DEF ClusterTypeOK, DataTypeOK, SourceTypeOK, SourcesTypeOK, Subscribed
<1>11. \A e \in Edges :
         ~lagged'[e] => /\ ~lagged[e]
                        /\ Carried(queue[e]) \subseteq Carried(queue'[e])
                        /\ e \in receivers => Given(w.data) \subseteq Carried(queue'[e])
  <2> SUFFICES ASSUME NEW e \in Edges, ~lagged'[e]
               PROVE  /\ ~lagged[e]
                      /\ Carried(queue[e]) \subseteq Carried(queue'[e])
                      /\ e \in receivers => Given(w.data) \subseteq Carried(queue'[e])
    OBVIOUS
  <2>1. ~lagged[e] /\ ~(e \in receivers /\ Len(queue[e]) = QueueCap)
    BY <1>3
  <2>2. CASE e \in receivers
    <3>1. Len(queue[e]) < QueueCap
      <4>1. Len(queue[e]) \in Nat /\ Len(queue[e]) <= QueueCap
        BY <1>8
      <4> QED
        BY <2>1, <2>2, <4>1
    <3>2. queue'[e] = Queued(e, w.data)
      BY <1>3, <2>2
    <3>3. Carried(queue[e]) \cup Given(w.data) \subseteq Carried(Queued(e, w.data))
      BY <1>2, <1>8, <3>1, QueuedShape
    <3> QED
      BY <2>1, <3>2, <3>3
  <2>3. CASE e \notin receivers
    <3>1. queue'[e] = queue[e]
      BY <1>3, <2>3
    <3> QED
      BY <2>1, <2>3, <3>1
  <2> QED
    BY <2>2, <2>3
<1>12. ASSUME NEW e \in Edges, NEW u \in Watchers PROVE Meets(e, u)'
  <2> DEFINE c == edge[e].source
             v == watcher[u]
  <2>1. Meets(e, u)
    BY DEF ClusterInv
  <2>2. watcher'[u] = IF u = t THEN to ELSE watcher[u]
    BY <1>1, <1>3 DEF ClusterTypeOK
  <2>3. /\ watcher'[u].mount = v.mount /\ watcher'[u].of = v.of
        /\ watcher'[u].last = v.last /\ (u # t => watcher'[u].data = v.data)
    BY <1>5, <2>2 DEF w
  <2> SUFFICES ASSUME edge[e].pc = "stream", ~lagged'[e], c \notin strayed,
                      v.mount = edge[e].mount, v.of = c,
                      NEW i \in edge[e].first .. wpos[c] - 1
               PROVE  \/ <<c, i>> \in got[e] \cup Carried(queue'[e])
                      \/ v.last <= i
                      \/ <<c, i>> \in Given(watcher'[u].data)
    BY <1>3, <2>3 DEF Meets
  <2>4. \/ <<c, i>> \in got[e] \cup Carried(queue[e])
        \/ v.last <= i
        \/ <<c, i>> \in Given(v.data)
    BY <1>11, <2>1 DEF Meets
  <2>5. u = t => e \in receivers /\ v = w
    BY <1>4 DEF w
  <2> QED
    BY <1>11, <2>3, <2>4, <2>5
<1> QED
  BY <1>3, <1>5, <1>6, <1>7, <1>10, <1>12, WatcherMoves DEF w

-----------------------------------------------------------------------------
(* The edge connections *)

\* A step of an edge connection keeps the invariant when what the edge has
\* then still meets what the watchers are about to read.
LEMMA EdgeMoves ==
  ASSUME ClusterInv, NEW e \in Edges, NEW to \in EdgeRec, to.mount = edge[e].mount,
         EdgeSound(to), EdgeStep(e, to),
         senders' \in [Mounts -> SUBSET Edges],
         \A m \in Mounts : senders[m] \subseteq senders'[m],
         to.pc \in {"lookup", "burst", "readBurst", "stream"} => e \in senders'[to.mount],
         NEW q, q \in Seq(Seq(Bytes)), Len(q) <= QueueCap,
         queue' = [queue EXCEPT ![e] = q],
         NEW l \in BOOLEAN, lagged' = [lagged EXCEPT ![e] = l],
         NEW g \in SUBSET Bytes, got' = [got EXCEPT ![e] = g],
         to.pc = "stream" /\ ~l =>
           \A u \in Watchers :
             to.source \notin strayed
               /\ watcher[u].mount = to.mount /\ watcher[u].of = to.source =>
               \A i \in to.first .. wpos[to.source] - 1 :
                 \/ <<to.source, i>> \in g \cup Carried(q)
                 \/ watcher[u].last <= i
                 \/ <<to.source, i>> \in Given(watcher[u].data)
  PROVE  ClusterInv'
<1>1. /\ edge' = [edge EXCEPT ![e] = to]
      /\ UNCHANGED <<dataVars, watching, watcher, metBy, strayed>>
      /\ UNCHANGED <<sources, srcPc, srcMount, connected, raced, wpos>>
  BY DEF EdgeStep, dataVars, srcVars
<1>2. ClusterTypeOK
  BY DEF ClusterInv
<1>3. /\ edge' \in [Edges -> EdgeRec]
      /\ edge'[e] = to /\ \A f \in Edges \ {e} : edge'[f] = edge[f]
  BY <1>1, <1>2 DEF ClusterTypeOK
<1>4. /\ queue' \in [Edges -> Seq(Seq(Bytes))]
      /\ queue'[e] = q /\ \A f \in Edges \ {e} : queue'[f] = queue[f]
  <2> DEFINE Channel == Seq(Seq(Bytes))
  <2>1. q \in Channel /\ queue \in [Edges -> Channel]
    BY <1>2 DEF ClusterTypeOK
  <2> HIDE DEF Channel
  <2>2. /\ queue' \in [Edges -> Channel]
        /\ queue'[e] = q /\ \A f \in Edges \ {e} : queue'[f] = queue[f]
    BY <2>1
  <2> QED
    BY <2>2 DEF Channel
<1>5. /\ lagged' \in [Edges -> BOOLEAN]
      /\ lagged'[e] = l /\ \A f \in Edges \ {e} : lagged'[f] = lagged[f]
  BY <1>2 DEF ClusterTypeOK
<1>6. /\ got' \in [Edges -> SUBSET Bytes]
      /\ got'[e] = g /\ \A f \in Edges \ {e} : got'[f] = got[f]
  BY <1>2 DEF ClusterTypeOK
<1>7. \A f \in Edges : Len(queue'[f]) <= QueueCap
  BY <1>2, <1>4 DEF ClusterTypeOK
<1>8. \A f \in Edges : Subscribed(f)' => f \in senders'[edge'[f].mount]
  <2> SUFFICES ASSUME NEW f \in Edges, Subscribed(f)' PROVE f \in senders'[edge'[f].mount]
    OBVIOUS
  <2>1. CASE f = e
    BY <1>3, <2>1 DEF Subscribed
  <2>2. CASE f # e
    <3>1. Subscribed(f) /\ edge'[f] = edge[f] /\ edge[f].mount \in Mounts
      BY <1>2, <1>3, <2>2 DEF Subscribed, ClusterTypeOK, EdgeRec
    <3>2. f \in senders[edge[f].mount]
      BY <1>2, <3>1 DEF ClusterTypeOK
    <3> QED
      BY <3>1, <3>2
  <2> QED
    BY <2>1, <2>2
<1>9. ClusterTypeOK'
  <2>1. DataTypeOK'
    BY <1>1, <1>2 DEF ClusterTypeOK, DataTypeOK, SourceTypeOK, SourcesTypeOK
  <2> QED
    BY <1>1, <1>2, <1>3, <1>4, <1>5, <1>6, <1>7, <1>8, <2>1 DEF ClusterTypeOK
<1>10. \A u \in Watchers : WatcherSound(watcher[u])'
  BY <1>1 DEF ClusterInv, WatcherSound
<1>11. ASSUME NEW f \in Edges PROVE EdgeSound(edge[f])'
  <2>1. EdgeSound(edge[f])
    BY DEF ClusterInv
  <2> QED
    BY <1>1, <1>3, <2>1 DEF EdgeSound
<1>12. ASSUME NEW f \in Edges, NEW u \in Watchers PROVE Meets(f, u)'
  <2>1. CASE f = e
    <3>1. /\ edge'[f] = to /\ queue'[f] = q /\ lagged'[f] = l /\ got'[f] = g
          /\ watcher' = watcher /\ strayed' = strayed /\ wpos' = wpos
      BY <1>1, <1>3, <1>4, <1>5, <1>6, <2>1
    <3> SUFFICES ASSUME to.pc = "stream", ~l, to.source \notin strayed,
                        watcher[u].mount = to.mount, watcher[u].of = to.source,
                        NEW i \in to.first .. wpos[to.source] - 1
                 PROVE  \/ <<to.source, i>> \in g \cup Carried(q)
                        \/ watcher[u].last <= i
                        \/ <<to.source, i>> \in Given(watcher[u].data)
      BY <3>1, Zenon DEF Meets
    <3> QED
      OBVIOUS
  <2>2. CASE f # e
    <3>1. Meets(f, u)
      BY DEF ClusterInv
    <3> QED
      BY <1>1, <1>3, <1>4, <1>5, <1>6, <2>2, <3>1 DEF Meets
  <2> QED
    BY <2>1, <2>2
<1>13. MetOnce' /\ WatcherStays'
  BY <1>1 DEF ClusterInv, MetOnce, WatcherStays, Live, MountExists
<1> QED
  BY <1>9, <1>10, <1>11, <1>12, <1>13 DEF ClusterInv

\* What an edge connection leaves as it was.
LEMMA EdgeHolds ==
  ASSUME ClusterInv, NEW e \in Edges
  PROVE  /\ edge[e] \in EdgeRec /\ edge[e].mount \in Mounts /\ EdgeSound(edge[e])
         /\ sources[edge[e].mount] \in Conns \cup {NoConn}
         /\ \A c \in Conns : wpos[c] \in 0 .. MaxPos
         /\ queue[e] \in Seq(Seq(Bytes)) /\ Len(queue[e]) <= QueueCap
         /\ queue = [queue EXCEPT ![e] = queue[e]]
         /\ lagged[e] \in BOOLEAN /\ lagged = [lagged EXCEPT ![e] = lagged[e]]
         /\ got[e] \in SUBSET Bytes /\ got = [got EXCEPT ![e] = got[e]]
         /\ senders \in [Mounts -> SUBSET Edges]
         /\ Subscribed(e) => e \in senders[edge[e].mount]
<1>1. ClusterTypeOK
  BY DEF ClusterInv
<1>2. edge[e] \in EdgeRec /\ edge[e].mount \in Mounts /\ EdgeSound(edge[e])
  BY <1>1 DEF ClusterInv, ClusterTypeOK, EdgeRec
<1>3. /\ sources[edge[e].mount] \in Conns \cup {NoConn}
      /\ \A c \in Conns : wpos[c] \in 0 .. MaxPos
  BY <1>1, <1>2 DEF ClusterTypeOK, DataTypeOK, SourceTypeOK, SourcesTypeOK
<1>4. /\ queue[e] \in Seq(Seq(Bytes)) /\ Len(queue[e]) <= QueueCap
      /\ queue = [queue EXCEPT ![e] = queue[e]]
  <2> DEFINE Channel == Seq(Seq(Bytes))
  <2>1. queue \in [Edges -> Channel] /\ Len(queue[e]) <= QueueCap
    BY <1>1 DEF ClusterTypeOK
  <2> HIDE DEF Channel
  <2>2. queue[e] \in Channel /\ queue = [queue EXCEPT ![e] = queue[e]]
    BY <2>1
  <2> QED
    BY <2>1, <2>2 DEF Channel
<1>5. /\ lagged[e] \in BOOLEAN /\ lagged = [lagged EXCEPT ![e] = lagged[e]]
      /\ got[e] \in SUBSET Bytes /\ got = [got EXCEPT ![e] = got[e]]
  BY <1>1 DEF ClusterTypeOK
<1>6. /\ senders \in [Mounts -> SUBSET Edges]
      /\ Subscribed(e) => e \in senders[edge[e].mount]
  BY <1>1 DEF ClusterTypeOK
<1> QED
  BY <1>2, <1>3, <1>4, <1>5, <1>6

\* It goes on to a step that is not yet the forwarding.
LEMMA EdgeLooks ==
  ASSUME ClusterInv, NEW e \in Edges, NEW to \in EdgeRec, to.mount = edge[e].mount,
         EdgeSound(to), EdgeStep(e, to), to.pc # "stream",
         UNCHANGED <<queue, lagged, got>>,
         senders' \in [Mounts -> SUBSET Edges],
         \A m \in Mounts : senders[m] \subseteq senders'[m],
         to.pc \in {"lookup", "burst", "readBurst"} => e \in senders'[to.mount]
  PROVE  ClusterInv'
<1>1. /\ queue[e] \in Seq(Seq(Bytes)) /\ Len(queue[e]) <= QueueCap
      /\ queue' = [queue EXCEPT ![e] = queue[e]]
      /\ lagged[e] \in BOOLEAN /\ lagged' = [lagged EXCEPT ![e] = lagged[e]]
      /\ got[e] \in SUBSET Bytes /\ got' = [got EXCEPT ![e] = got[e]]
  BY EdgeHolds
<1> QED
  BY <1>1, EdgeMoves

LEMMA RequestInv ==
  ASSUME ClusterInv, NEW e \in Edges, Request(e)
  PROVE  ClusterInv'
<1>1. PICK pc \in {"subscribe", "closed"} :
        EdgeStep(e, [edge[e] EXCEPT !.pc = pc])
  BY DEF Request
<1> DEFINE to == [edge[e] EXCEPT !.pc = pc]
<1>2. UNCHANGED <<senders, queue, lagged, got>> /\ EdgeStep(e, to)
  BY <1>1 DEF Request
<1>3. edge[e] \in EdgeRec /\ senders \in [Mounts -> SUBSET Edges]
  BY EdgeHolds
<1>4. to \in EdgeRec /\ to.pc = pc /\ to.mount = edge[e].mount
  BY <1>3 DEF EdgeRec
<1> HIDE DEF to
<1>5. EdgeSound(to)
  BY <1>4 DEF EdgeSound
<1> QED
  BY <1>2, <1>3, <1>4, <1>5, EdgeLooks

LEMMA SubscribeInv ==
  ASSUME ClusterInv, NEW e \in Edges, Subscribe(e)
  PROVE  ClusterInv'
<1> DEFINE to == [edge[e] EXCEPT !.pc = "lookup"]
<1>1. /\ EdgeStep(e, to) /\ UNCHANGED <<queue, lagged, got>>
      /\ senders' = [senders EXCEPT ![edge[e].mount] = @ \cup {e}]
  BY DEF Subscribe
<1>2. /\ edge[e] \in EdgeRec /\ edge[e].mount \in Mounts
      /\ senders \in [Mounts -> SUBSET Edges]
  BY EdgeHolds
<1>3. to \in EdgeRec /\ to.pc = "lookup" /\ to.mount = edge[e].mount
  BY <1>2 DEF EdgeRec
<1>4. /\ senders' \in [Mounts -> SUBSET Edges]
      /\ \A m \in Mounts : senders[m] \subseteq senders'[m]
      /\ e \in senders'[edge[e].mount]
  BY <1>1, <1>2
<1> HIDE DEF to
<1>5. EdgeSound(to)
  BY <1>3 DEF EdgeSound
<1> QED
  BY <1>1, <1>3, <1>4, <1>5, EdgeLooks

LEMMA LookupInv ==
  ASSUME ClusterInv, NEW e \in Edges, LookupSource(e)
  PROVE  ClusterInv'
<1> DEFINE c == sources[edge[e].mount]
           to == [edge[e] EXCEPT !.pc = "burst", !.source = c]
<1>1. /\ edge[e].pc = "lookup" /\ c # NoConn
      /\ EdgeStep(e, to) /\ UNCHANGED <<senders, queue, lagged, got>>
  BY DEF LookupSource, MountExists
<1>2. /\ edge[e] \in EdgeRec /\ edge[e].mount \in Mounts
      /\ senders \in [Mounts -> SUBSET Edges]
      /\ c \in Conns /\ e \in senders[edge[e].mount]
  BY <1>1, EdgeHolds DEF Subscribed
<1> HIDE DEF c
<1>3. to \in EdgeRec /\ to.pc = "burst" /\ to.mount = edge[e].mount /\ to.source = c
  BY <1>2 DEF EdgeRec
<1> HIDE DEF to
<1>4. EdgeSound(to)
  BY <1>2, <1>3 DEF EdgeSound
<1> QED
  BY <1>1, <1>2, <1>3, <1>4, EdgeLooks

\* An edge that has nothing to send as a burst misses nothing by it.
LEMMA LookBurstInv ==
  ASSUME ClusterInv, NEW e \in Edges, LookBurst(e)
  PROVE  ClusterInv'
<1> DEFINE c == edge[e].source
           pc == IF wpos[c] > 0 THEN "readBurst" ELSE "stream"
           to == [edge[e] EXCEPT !.pc = pc]
<1>1. /\ edge[e].pc = "burst"
      /\ EdgeStep(e, to) /\ UNCHANGED <<senders, queue, lagged, got>>
  BY DEF LookBurst
<1>2. /\ edge[e] \in EdgeRec /\ edge[e].mount \in Mounts /\ c \in Conns
      /\ wpos[c] \in 0 .. MaxPos
      /\ senders \in [Mounts -> SUBSET Edges] /\ e \in senders[edge[e].mount]
  BY <1>1, EdgeHolds DEF Subscribed, EdgeSound
<1>3. /\ to \in EdgeRec /\ to.pc = pc /\ to.mount = edge[e].mount
      /\ to.source = c /\ to.first \in Nat
  BY <1>2 DEF EdgeRec
<1> HIDE DEF to, c
<1>4. EdgeSound(to)
  BY <1>2, <1>3 DEF EdgeSound
<1>5. CASE wpos[c] > 0
  BY <1>1, <1>2, <1>3, <1>4, <1>5, EdgeLooks
<1>6. CASE ~(wpos[c] > 0)
  <2>1. to.first .. wpos[c] - 1 = {}
    BY <1>2, <1>3, <1>6
  <2>2. \A i \in to.first .. wpos[to.source] - 1 : FALSE
    BY <1>3, <2>1
  <2>3. /\ queue[e] \in Seq(Seq(Bytes)) /\ Len(queue[e]) <= QueueCap
        /\ queue' = [queue EXCEPT ![e] = queue[e]]
        /\ lagged[e] \in BOOLEAN /\ lagged' = [lagged EXCEPT ![e] = lagged[e]]
        /\ got[e] \in SUBSET Bytes /\ got' = [got EXCEPT ![e] = got[e]]
    BY <1>1, EdgeHolds
  <2> QED
    BY <1>1, <1>2, <1>3, <1>4, <2>2, <2>3, EdgeMoves
<1> QED
  BY <1>5, <1>6

\* The burst is all that the buffer has.
LEMMA ReadBurstInv ==
  ASSUME ClusterInv, NEW e \in Edges, ReadBurst(e)
  PROVE  ClusterInv'
<1> DEFINE c == edge[e].source
           burst == ReadFrom(c, 0)
           first == IF Lapped(c, 0) THEN wpos[c] - Capacity ELSE 0
           to == [edge[e] EXCEPT !.pc = "stream", !.first = first]
<1>1. /\ edge[e].pc = "readBurst"
      /\ EdgeStep(e, to) /\ UNCHANGED <<senders, queue, lagged>>
      /\ got' = [got EXCEPT ![e] = Given(burst)]
  BY DEF ReadBurst, Given
<1>2. /\ edge[e] \in EdgeRec /\ edge[e].mount \in Mounts /\ c \in Conns
      /\ wpos[c] \in 0 .. MaxPos
      /\ senders \in [Mounts -> SUBSET Edges] /\ e \in senders[edge[e].mount]
  BY <1>1, EdgeHolds DEF Subscribed, EdgeSound
<1>3. first \in 0 .. MaxPos /\ first >= wpos[c] - Capacity /\ first >= 0
  BY <1>2 DEF Lapped
<1> HIDE DEF first
<1>4. /\ to \in EdgeRec /\ to.pc = "stream" /\ to.mount = edge[e].mount
      /\ to.source = c /\ to.first = first
  BY <1>2, <1>3 DEF EdgeRec
<1> HIDE DEF to, c
<1>5. EdgeSound(to)
  BY <1>2, <1>4 DEF EdgeSound
<1>6. 0 \in 0 .. MaxPos /\ 0 <= wpos[c] /\ DataTypeOK
  BY <1>2 DEF ClusterInv, ClusterTypeOK
<1>7. Given(burst) \in SUBSET Bytes
  <2>1. burst \in Seq(Bytes)
    BY <1>2, <1>6, ReadIsBytes
  <2> HIDE DEF burst
  <2> QED
    BY <2>1 DEF Given
<1>8. \A i \in first .. wpos[c] - 1 : <<c, i>> \in Given(burst)
  <2> SUFFICES ASSUME NEW i \in first .. wpos[c] - 1 PROVE <<c, i>> \in Given(burst)
    OBVIOUS
  <2>1. i \in 0 .. wpos[c] - 1 /\ i >= wpos[c] - Capacity
    BY <1>2, <1>3
  <2> QED
    BY <1>2, <1>6, <2>1, ReadGives
<1> HIDE DEF burst
<1>9. /\ queue[e] \in Seq(Seq(Bytes)) /\ Len(queue[e]) <= QueueCap
      /\ queue' = [queue EXCEPT ![e] = queue[e]]
      /\ lagged[e] \in BOOLEAN /\ lagged' = [lagged EXCEPT ![e] = lagged[e]]
  BY <1>1, EdgeHolds
<1>10. \A i \in to.first .. wpos[to.source] - 1 : <<to.source, i>> \in Given(burst)
  BY <1>4, <1>8
<1> QED
  BY <1>1, <1>2, <1>4, <1>5, <1>7, <1>9, <1>10, EdgeMoves

\* What is forwarded leaves the channel for the edge.
LEMMA ForwardInv ==
  ASSUME ClusterInv, NEW e \in Edges, Forward(e)
  PROVE  ClusterInv'
<1> DEFINE q == queue[e]
           head == Head(q)
           g == got[e] \cup Given(head)
           to == edge[e]
<1>1. /\ to.pc = "stream" /\ ~lagged[e] /\ q # <<>>
      /\ EdgeStep(e, to) /\ UNCHANGED <<senders, lagged>>
      /\ queue' = [queue EXCEPT ![e] = Tail(@)]
      /\ got' = [got EXCEPT ![e] = @ \cup Given(head)]
  BY DEF Forward, Given
<1>2. /\ to \in EdgeRec /\ EdgeSound(to) /\ to.mount \in Mounts
      /\ q \in Seq(Seq(Bytes)) /\ Len(q) <= QueueCap
      /\ lagged[e] \in BOOLEAN /\ lagged' = [lagged EXCEPT ![e] = lagged[e]]
      /\ got[e] \in SUBSET Bytes
      /\ senders \in [Mounts -> SUBSET Edges] /\ e \in senders[to.mount]
  BY <1>1, EdgeHolds DEF Subscribed
<1>3. queue' = [queue EXCEPT ![e] = Tail(q)] /\ got' = [got EXCEPT ![e] = g]
  BY <1>1 DEF ClusterInv, ClusterTypeOK
<1> HIDE DEF q, head
<1>4. /\ Tail(q) \in Seq(Seq(Bytes)) /\ Len(Tail(q)) <= QueueCap /\ head \in Seq(Bytes)
      /\ Carried(q) \subseteq Given(head) \cup Carried(Tail(q))
  <2> DEFINE Message == Seq(Bytes)
             n == Len(q)
  <2>1. q \in Seq(Message) /\ n \in Nat \ {0} /\ n <= QueueCap
    BY <1>1, <1>2
  <2> HIDE DEF Message
  <2>2. /\ Tail(q) \in Seq(Message) /\ Len(Tail(q)) = n - 1
        /\ DOMAIN q = 1 .. n /\ DOMAIN Tail(q) = 1 .. n - 1
        /\ head \in Message /\ head = q[1]
        /\ \A k \in 1 .. n - 1 : Tail(q)[k] = q[k + 1]
    BY <1>1, <2>1 DEF head
  <2> HIDE DEF n
  <2>3. ASSUME NEW k \in 1 .. n
        PROVE  Given(q[k]) \subseteq Given(head) \cup Carried(Tail(q))
    <3>1. CASE k = 1
      BY <2>2, <3>1
    <3>2. CASE k # 1
      <4>1. k - 1 \in 1 .. n - 1 /\ (k - 1) + 1 = k
        BY <2>1, <3>2
      <4>2. Tail(q)[k - 1] = q[k] /\ k - 1 \in DOMAIN Tail(q)
        BY <2>2, <4>1
      <4> QED
        BY <4>2 DEF Carried, Given
    <3> QED
      BY <3>1, <3>2
  <2>4. Carried(q) \subseteq Given(head) \cup Carried(Tail(q))
    BY <2>2, <2>3 DEF Carried, Given
  <2>5. Len(Tail(q)) <= QueueCap
    BY <2>1, <2>2
  <2> QED
    BY <2>2, <2>4, <2>5 DEF Message
<1>5. g \in SUBSET Bytes
  BY <1>2, <1>4 DEF Given
<1>6. got[e] \cup Carried(q) \subseteq g \cup Carried(Tail(q))
  BY <1>4
<1> HIDE DEF g
<1>7. ASSUME NEW u \in Watchers, to.source \notin strayed,
             watcher[u].mount = to.mount, watcher[u].of = to.source,
             NEW i \in to.first .. wpos[to.source] - 1
      PROVE  \/ <<to.source, i>> \in g \cup Carried(Tail(q))
             \/ watcher[u].last <= i
             \/ <<to.source, i>> \in Given(watcher[u].data)
  <2>1. Meets(e, u)
    BY DEF ClusterInv
  <2>2. \/ <<to.source, i>> \in got[e] \cup Carried(q)
        \/ watcher[u].last <= i
        \/ <<to.source, i>> \in Given(watcher[u].data)
    BY <1>1, <1>7, <2>1 DEF Meets, q
  <2> QED
    BY <1>6, <2>2
<1> QED
  <2> DEFINE rest == Tail(q)
             l == lagged[e]
  <2>1. /\ rest \in Seq(Seq(Bytes)) /\ Len(rest) <= QueueCap
        /\ queue' = [queue EXCEPT ![e] = rest]
        /\ l \in BOOLEAN /\ lagged' = [lagged EXCEPT ![e] = l]
        /\ got' = [got EXCEPT ![e] = g]
    BY <1>2, <1>3, <1>4
  <2>2. \A u \in Watchers :
          to.source \notin strayed
            /\ watcher[u].mount = to.mount /\ watcher[u].of = to.source =>
            \A i \in to.first .. wpos[to.source] - 1 :
              \/ <<to.source, i>> \in g \cup Carried(rest)
              \/ watcher[u].last <= i
              \/ <<to.source, i>> \in Given(watcher[u].data)
    BY <1>7
  <2>3. /\ senders' \in [Mounts -> SUBSET Edges] /\ e \in senders'[to.mount]
        /\ \A m \in Mounts : senders[m] \subseteq senders'[m]
    BY <1>1, <1>2
  <2>4. to \in EdgeRec /\ EdgeSound(to) /\ EdgeStep(e, to) /\ to.mount = edge[e].mount
    BY <1>1, <1>2
  <2> HIDE DEF rest, l, to
  <2> QED
    BY <1>5, <2>1, <2>2, <2>3, <2>4, EdgeMoves

LEMMA CloseInv ==
  ASSUME ClusterInv, NEW e \in Edges, CloseEdge(e)
  PROVE  ClusterInv'
<1> DEFINE to == [edge[e] EXCEPT !.pc = "closed", !.source = NoConn, !.first = 0]
<1>1. /\ EdgeStep(e, to) /\ UNCHANGED senders
      /\ queue' = [queue EXCEPT ![e] = <<>>] /\ lagged' = [lagged EXCEPT ![e] = FALSE]
      /\ got' = [got EXCEPT ![e] = {}]
  BY DEF CloseEdge
<1>2. edge[e] \in EdgeRec /\ senders \in [Mounts -> SUBSET Edges]
  BY EdgeHolds
<1>3. to.pc = "closed" /\ to.mount = edge[e].mount
  BY <1>2 DEF EdgeRec
<1>4. to \in EdgeRec
  <2> DEFINE f == [edge[e] EXCEPT !.pc = "closed", !.source = NoConn]
  <2>1. f \in EdgeRec
    BY <1>2 DEF EdgeRec
  <2>2. to = [f EXCEPT !.first = 0]
    OBVIOUS
  <2> HIDE DEF f, to
  <2> QED
    BY <2>1, <2>2 DEF EdgeRec
<1> HIDE DEF to
<1>5. EdgeSound(to)
  BY <1>3 DEF EdgeSound
<1> DEFINE none == <<>>
<1>6. none \in Seq(Seq(Bytes)) /\ Len(none) <= QueueCap
  OBVIOUS
<1>7. queue' = [queue EXCEPT ![e] = none]
  BY <1>1
<1> HIDE DEF none
<1>8. {} \in SUBSET Bytes /\ FALSE \in BOOLEAN
  OBVIOUS
<1> QED
  BY <1>1, <1>2, <1>3, <1>4, <1>5, <1>6, <1>7, <1>8, EdgeMoves

LEMMA StepInv ==
  ASSUME ClusterInv, NoDeadEntry, SourceTypeOK', [ClusterNext]_vars
  PROVE  ClusterInv'
<1>1. CASE DataNext /\ UNCHANGED originVars
  BY <1>1, SourcesMoveInv
<1>2. CASE Ticker
  BY <1>2, SpawnInv, ForgetInv DEF Ticker
<1>3. ASSUME NEW t \in Watchers, WatcherStep(t) PROVE ClusterInv'
  BY <1>3, WakeInv, CheckInv, LookInv, ReadNewInv, SendInv, PruneInv DEF WatcherStep
<1>4. ASSUME NEW e \in Edges, Request(e) \/ EdgeWorks(e) \/ ForwardFails(e)
      PROVE  ClusterInv'
  BY <1>4, RequestInv, SubscribeInv, LookupInv, LookBurstInv, ReadBurstInv, ForwardInv,
     CloseInv DEF EdgeWorks, LookupPanics, ForwardFails, Lag
<1>5. CASE UNCHANGED vars
  <2>1. /\ UNCHANGED <<sources, srcPc, srcMount, connected, raced, wpos>>
        /\ UNCHANGED <<watching, watcher, senders, edge, queue, lagged, got, metBy, strayed>>
    BY <1>5 DEF vars, dataVars, srcVars, originVars
  <2>2. ClusterTypeOK'
    BY <2>1 DEF ClusterInv, ClusterTypeOK, DataTypeOK, SourceTypeOK, SourcesTypeOK, Subscribed
  <2> QED
    BY <2>1, <2>2 DEF ClusterInv, WatcherSound, EdgeSound, Meets, MetOnce, WatcherStays,
                      Live, MountExists
<1> QED
  BY <1>1, <1>2, <1>3, <1>4, <1>5 DEF ClusterNext

LEMMA ClusterInvHolds == ClusterSpec => []ClusterInv
<1>1. ClusterInit => ClusterInv
  BY InitInv
<1>2. ClusterInv /\ NoDeadEntry /\ SourceTypeOK' /\ [ClusterNext]_vars => ClusterInv'
  BY StepInv
<1>3. ClusterSpec => []SourceTypeOK
  BY SourcesRefined, SourceTypeCorrect, PTL
<1>4. ClusterSpec => []NoDeadEntry
  BY SourcesRefined, NoDeadEntryHolds, PTL
<1> QED
  BY <1>1, <1>2, <1>3, <1>4, PTL DEF ClusterSpec

-----------------------------------------------------------------------------
(* The properties *)

\* The origin stays within its types: no channel holds more than its capacity,
\* and an edge that can receive is among the channels of its mount, whatever the
\* watchers that end drop (origin.rs:171).
THEOREM ClusterTypeCorrect == ClusterSpec => []ClusterTypeOK
<1>1. ClusterInv => ClusterTypeOK
  BY DEF ClusterInv
<1> QED
  BY <1>1, ClusterInvHolds, PTL

\* For any number of sources and watchers, a source that stays never loses the
\* watcher that was spawned for it.
THEOREM DeafOnlyAfterReturnHolds == ClusterSpec => []DeafOnlyAfterReturn
<1>1. ClusterInv => DeafOnlyAfterReturn
  BY DEF ClusterInv, WatcherStays, DeafOnlyAfterReturn, Deaf
<1> QED
  BY <1>1, ClusterInvHolds, PTL

\* For any buffer and channel, an edge of a source that is watched from its
\* start misses no byte, as long as its watcher and its channel keep up.
THEOREM NoByteMissedHolds == ClusterSpec => []NoByteMissed
<1>1. ClusterInv => NoByteMissed
  <2> SUFFICES ASSUME ClusterInv, NEW e \in Edges,
                      edge[e].pc = "stream", ~lagged[e],
                      InStep(edge[e].mount, edge[e].source), watching[edge[e].mount],
                      NEW i \in edge[e].first .. wpos[edge[e].source] - 1
               PROVE  \/ <<edge[e].source, i>> \in got[e] \cup Carried(queue[e])
                      \/ \E t \in Watchers :
                           /\ Live(t, edge[e].mount)
                           /\ \/ watcher[t].last <= i
                              \/ <<edge[e].source, i>> \in Carried(<<watcher[t].data>>)
    BY DEF NoByteMissed
  <2> DEFINE m == edge[e].mount
             c == edge[e].source
  <2>1. PICK t \in Watchers : Live(t, m)
    BY DEF InStep, Deaf
  <2>2. watcher[t].last = 0 \/ watcher[t].of = c
    <3>1. watcher[t].last \in Nat
      BY DEF ClusterInv, ClusterTypeOK, WatcherRec
    <3> QED
      BY <2>1, <3>1 DEF InStep, Straying
  <2>3. i >= 0
    BY DEF ClusterInv, ClusterTypeOK, EdgeRec
  <2>4. CASE watcher[t].last = 0
    BY <2>1, <2>3, <2>4
  <2>5. CASE watcher[t].of = c
    <3>1. Meets(e, t) /\ watcher[t].mount = m /\ c \notin strayed
      BY <2>1 DEF ClusterInv, Live, InStep
    <3>2. \/ <<c, i>> \in got[e] \cup Carried(queue[e])
          \/ watcher[t].last <= i
          \/ <<c, i>> \in Given(watcher[t].data)
      BY <2>5, <3>1 DEF Meets
    <3> QED
      BY <2>1, <3>2, CarriedOne
  <2> QED
    BY <2>2, <2>4, <2>5
<1> QED
  BY <1>1, ClusterInvHolds, PTL
=============================================================================
