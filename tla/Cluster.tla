------------------------------ MODULE Cluster ------------------------------
(***************************************************************************)
(* A cluster origin (crabster-cluster/src/origin.rs).  Every second a      *)
(* ticker gives each mount that has a source a watcher, a task that polls  *)
(* the source's buffer every 200 ms and sends what is new to the edges of  *)
(* the mount.  An edge connection subscribes, is given the buffer as a     *)
(* burst and then forwards what the watchers send.  A ticker treats each   *)
(* mount by itself, so its tick is one step per mount here.                *)
(***************************************************************************)
EXTENDS SourceData, FiniteSets

CONSTANTS Watchers,   \* watcher tasks: bound on how many live at once
          Edges,      \* edge connections
          QueueCap    \* capacity of a broadcast channel (256)

ASSUME ClusterAssumption == QueueCap \in Nat \ {0}

VARIABLES
  watching,   \* the keys of watchers
  watcher,    \* the watcher tasks
  senders,    \* edges: the channels of each mount
  edge,       \* the edge connections
  queue,      \* what waits in the channel of each edge
  lagged,     \* a channel that overflowed since its last receive
  got,        \* the bytes written to each edge
  metBy,      \* history: the source that the last watcher was spawned for
  strayed     \* history: sources that a watcher read from a position of
              \* another source, or too late for the buffer

originVars == <<watching, watcher, senders, edge, queue, lagged, got, metBy, strayed>>
vars == <<dataVars, originVars>>

\* of: the source that `last` is a position of; NoConn while it is the 0 of
\* the start.
WatcherRec ==
  [pc : {"free", "sleep", "check", "look", "read", "send", "prune"},
   mount : Mounts, source : Conns \cup {NoConn}, of : Conns \cup {NoConn},
   last : 0 .. MaxPos, cur : 0 .. MaxPos, data : Seq(Bytes)]

EdgeRec ==
  [pc : {"idle", "subscribe", "lookup", "burst", "readBurst", "stream", "closed"},
   mount : Mounts, source : Conns \cup {NoConn}, first : 0 .. MaxPos]

\* The receiving half of an edge's channel exists.
Subscribed(e) == edge[e].pc \in {"lookup", "burst", "readBurst", "stream"}

ClusterTypeOK ==
  /\ DataTypeOK
  /\ watching \in [Mounts -> BOOLEAN]
  /\ watcher \in [Watchers -> WatcherRec]
  /\ senders \in [Mounts -> SUBSET Edges]
  /\ edge \in [Edges -> EdgeRec]
  /\ queue \in [Edges -> Seq(Seq(Bytes))]
  /\ \A e \in Edges : Len(queue[e]) <= QueueCap
  /\ \A e \in Edges : Subscribed(e) => e \in senders[edge[e].mount]
  /\ lagged \in [Edges -> BOOLEAN]
  /\ got \in [Edges -> SUBSET Bytes]
  /\ metBy \in [Mounts -> Conns \cup {NoConn}]
  /\ strayed \in SUBSET Conns

FreeWatcher(m) ==
  [pc |-> "free", mount |-> m, source |-> NoConn, of |-> NoConn,
   last |-> 0, cur |-> 0, data |-> <<>>]

ClusterInit ==
  /\ DataInit
  /\ watching = [m \in Mounts |-> FALSE]
  /\ \E m \in Mounts : watcher = [t \in Watchers |-> FreeWatcher(m)]
  /\ senders = [m \in Mounts |-> {}]
  /\ edge \in [Edges -> [pc : {"idle"}, mount : Mounts, source : {NoConn}, first : {0}]]
  /\ queue = [e \in Edges |-> <<>>]
  /\ lagged = [e \in Edges |-> FALSE]
  /\ got = [e \in Edges |-> {}]
  /\ metBy = [m \in Mounts |-> NoConn]
  /\ strayed = {}

-----------------------------------------------------------------------------
\* The tick meets a mount with a source and without a watcher in its table.
Spawn(m, t) ==
  /\ MountExists(m) /\ ~watching[m]
  /\ watcher[t].pc = "free"
  /\ watcher' = [watcher EXCEPT ![t] = [FreeWatcher(m) EXCEPT !.pc = "sleep"]]
  /\ watching' = [watching EXCEPT ![m] = TRUE]
  /\ metBy' = [metBy EXCEPT ![m] = sources[m]]
  /\ UNCHANGED <<dataVars, senders, edge, queue, lagged, got, strayed>>

\* The tick meets a mount without a source: its entry goes, whether its
\* watcher has noticed or not.
Forget(m) ==
  /\ ~MountExists(m) /\ watching[m]
  /\ watching' = [watching EXCEPT ![m] = FALSE]
  /\ UNCHANGED <<dataVars, watcher, senders, edge, queue, lagged, got, metBy, strayed>>

\* A step of one watcher that touches nothing else.
Step(t, to) ==
  /\ watcher' = [watcher EXCEPT ![t] = to]
  /\ UNCHANGED <<dataVars, watching, senders, edge, queue, lagged, got, metBy>>

\* It wakes up and gets the source of its mount, or ends.
Wake(t) ==
  LET w == watcher[t] IN
  /\ w.pc = "sleep"
  /\ Step(t, [w EXCEPT !.pc = IF MountExists(w.mount) THEN "check" ELSE "prune",
                       !.source = sources[w.mount]])
  /\ UNCHANGED strayed

\* Mutant: the test is inverted.
CheckDisconnected(t) ==
  LET w == watcher[t] IN
  /\ w.pc = "check"
  /\ Step(t, [w EXCEPT !.pc = IF connected[w.source] THEN "prune" ELSE "look"])
  /\ UNCHANGED strayed

\* It ends when that source is disconnected.
CheckConnected(t) ==
  LET w == watcher[t] IN
  /\ w.pc = "check"
  /\ Step(t, [w EXCEPT !.pc = IF connected[w.source] THEN "look" ELSE "prune"])
  /\ UNCHANGED strayed

\* Mutant: last_pos is brought up to date before the read.
LookAndMark(t) ==
  LET w == watcher[t] IN
  /\ w.pc = "look"
  /\ Step(t, IF wpos[w.source] > w.last
             THEN [w EXCEPT !.pc = "read", !.cur = wpos[w.source], !.last = wpos[w.source]]
             ELSE [w EXCEPT !.pc = "sleep", !.source = NoConn])
  /\ UNCHANGED strayed

\* current_position, under a first lock.
LookPosition(t) ==
  LET w == watcher[t] IN
  /\ w.pc = "look"
  /\ Step(t, IF wpos[w.source] > w.last
             THEN [w EXCEPT !.pc = "read", !.cur = wpos[w.source]]
             ELSE [w EXCEPT !.pc = "sleep", !.source = NoConn])
  /\ UNCHANGED strayed

\* The read under a second lock, from wherever the watcher was.
ReadNew(t) ==
  LET w == watcher[t]
      c == w.source
  IN  /\ w.pc = "read"
      /\ Step(t, [w EXCEPT !.pc = "send", !.data = ReadFrom(c, w.last),
                           !.last = w.cur, !.cur = 0, !.of = c])
      /\ strayed' = IF w.of \notin {c, NoConn} \/ Lapped(c, w.last)
                    THEN strayed \cup {c} ELSE strayed

\* The queue of an edge with one more message; a full channel overwrites its
\* oldest one.
Queued(e, bytes) ==
  IF Len(queue[e]) < QueueCap THEN Append(queue[e], bytes)
  ELSE Append(Tail(queue[e]), bytes)

\* The data goes to every channel of the mount that still has a receiver.
Send(t) ==
  LET w == watcher[t]
      to == {e \in senders[w.mount] : Subscribed(e)}
  IN  /\ w.pc = "send"
      /\ watcher' = [watcher EXCEPT ![t] =
                       [w EXCEPT !.pc = "sleep", !.data = <<>>, !.source = NoConn]]
      /\ queue' = [e \in Edges |-> IF e \in to THEN Queued(e, w.data) ELSE queue[e]]
      /\ lagged' = [e \in Edges |->
                      lagged[e] \/ (e \in to /\ Len(queue[e]) = QueueCap)]
      /\ UNCHANGED <<dataVars, watching, senders, edge, got, metBy, strayed>>

\* Mutant: every channel of the mount is dropped.
PruneAll(t) ==
  LET w == watcher[t] IN
  /\ w.pc = "prune"
  /\ watcher' = [watcher EXCEPT ![t] = FreeWatcher(w.mount)]
  /\ senders' = [senders EXCEPT ![w.mount] = {}]
  /\ UNCHANGED <<dataVars, watching, edge, queue, lagged, got, metBy, strayed>>

\* A watcher that ends drops the channels without a receiver.
Prune(t) ==
  LET w == watcher[t] IN
  /\ w.pc = "prune"
  /\ watcher' = [watcher EXCEPT ![t] = FreeWatcher(w.mount)]
  /\ senders' = [senders EXCEPT ![w.mount] = {e \in @ : Subscribed(e)}]
  /\ UNCHANGED <<dataVars, watching, edge, queue, lagged, got, metBy, strayed>>

-----------------------------------------------------------------------------
\* A step of one edge connection that touches nothing else.
EdgeStep(e, to) ==
  /\ edge' = [edge EXCEPT ![e] = to]
  /\ UNCHANGED <<dataVars, watching, watcher, metBy, strayed>>

\* The request: 400 when it is not a relay's, 404 when there is no source.
Request(e) ==
  /\ edge[e].pc = "idle"
  /\ \E relay \in BOOLEAN :
       EdgeStep(e, [edge[e] EXCEPT !.pc =
                      IF relay /\ MountExists(edge[e].mount) THEN "subscribe"
                      ELSE "closed"])
  /\ UNCHANGED <<senders, queue, lagged, got>>

\* Its channel joins those of the mount.
Subscribe(e) ==
  /\ edge[e].pc = "subscribe"
  /\ EdgeStep(e, [edge[e] EXCEPT !.pc = "lookup"])
  /\ senders' = [senders EXCEPT ![edge[e].mount] = @ \cup {e}]
  /\ UNCHANGED <<queue, lagged, got>>

\* The connection is over and its receiver is gone.
CloseEdge(e) ==
  /\ EdgeStep(e, [edge[e] EXCEPT !.pc = "closed", !.source = NoConn, !.first = 0])
  /\ queue' = [queue EXCEPT ![e] = <<>>]
  /\ lagged' = [lagged EXCEPT ![e] = FALSE]
  /\ got' = [got EXCEPT ![e] = {}]
  /\ UNCHANGED senders

\* The source is looked up again; the task panics at the unwrap when it has
\* left since the request.
LookupSource(e) ==
  LET c == sources[edge[e].mount] IN
  /\ edge[e].pc = "lookup"
  /\ MountExists(edge[e].mount)
  /\ EdgeStep(e, [edge[e] EXCEPT !.pc = "burst", !.source = c])
  /\ UNCHANGED <<senders, queue, lagged, got>>

LookupPanics(e) ==
  /\ edge[e].pc = "lookup"
  /\ ~MountExists(edge[e].mount)
  /\ CloseEdge(e)

\* Is there anything to send as a burst?
LookBurst(e) ==
  /\ edge[e].pc = "burst"
  /\ EdgeStep(e, [edge[e] EXCEPT !.pc =
                    IF wpos[edge[e].source] > 0 THEN "readBurst" ELSE "stream"])
  /\ UNCHANGED <<senders, queue, lagged, got>>

\* The whole buffer is read and written behind the response head.  `first`
\* records where the buffer's content began.
ReadBurst(e) ==
  LET c == edge[e].source
      burst == ReadFrom(c, 0)
  IN  /\ edge[e].pc = "readBurst"
      /\ EdgeStep(e, [edge[e] EXCEPT !.pc = "stream",
                                     !.first = IF Lapped(c, 0) THEN wpos[c] - Capacity ELSE 0])
      /\ got' = [got EXCEPT ![e] = {burst[k] : k \in DOMAIN burst}]
      /\ UNCHANGED <<senders, queue, lagged>>

\* The next message is received and written.
Forward(e) ==
  /\ edge[e].pc = "stream" /\ ~lagged[e] /\ queue[e] # <<>>
  /\ EdgeStep(e, edge[e])
  /\ queue' = [queue EXCEPT ![e] = Tail(@)]
  /\ got' = [got EXCEPT ![e] = @ \cup {Head(queue[e])[k] : k \in DOMAIN Head(queue[e])}]
  /\ UNCHANGED <<senders, lagged>>

\* It is received and cannot be written: an edge that left is noticed so.
ForwardFails(e) ==
  /\ edge[e].pc = "stream" /\ ~lagged[e] /\ queue[e] # <<>>
  /\ CloseEdge(e)

\* The channel overflowed: the receive returns Lagged and the loop ends.
Lag(e) ==
  /\ edge[e].pc = "stream" /\ lagged[e]
  /\ CloseEdge(e)

Ticker == \E m \in Mounts : Forget(m) \/ \E t \in Watchers : Spawn(m, t)

WatcherStep(t) ==
  \/ Wake(t) \/ CheckConnected(t) \/ LookPosition(t) \/ ReadNew(t)
  \/ Send(t) \/ Prune(t)

EdgeWorks(e) ==
  \/ Subscribe(e) \/ LookupSource(e) \/ LookupPanics(e) \/ LookBurst(e)
  \/ ReadBurst(e) \/ Forward(e) \/ Lag(e)

ClusterNext ==
  \/ DataNext /\ UNCHANGED originVars
  \/ Ticker
  \/ \E t \in Watchers : WatcherStep(t)
  \/ \E e \in Edges : Request(e) \/ EdgeWorks(e) \/ ForwardFails(e)
  \/ SourcesDone /\ UNCHANGED vars

ClusterSpec == ClusterInit /\ [][ClusterNext]_vars
ClusterFairSpec ==
  /\ ClusterSpec
  /\ WF_vars(Ticker)
  /\ \A t \in Watchers : WF_vars(WatcherStep(t))
  /\ \A e \in Edges : WF_vars(EdgeWorks(e))
-----------------------------------------------------------------------------
\* A watcher of mount m that will poll again.
Live(t, m) == watcher[t].mount = m /\ watcher[t].pc \notin {"free", "prune"}

\* The table says that m is watched and no task watches it.
Deaf(m) == watching[m] /\ ~ \E t \in Watchers : Live(t, m)

\* A watcher is about to read on from a position of another source.
Straying(m) ==
  \E t \in Watchers :
    Live(t, m) /\ watcher[t].last > 0 /\ watcher[t].of # sources[m]

\* Source c feeds m, its watcher reads it from its start on and is in time.
InStep(m, c) ==
  sources[m] = c /\ connected[c] /\ c \notin strayed /\ ~Straying(m) /\ ~Deaf(m)

\* The bytes of a sequence of messages.
Carried(q) == UNION {{q[k][j] : j \in DOMAIN q[k]} : k \in DOMAIN q}

\* Between the subscription and the burst nothing is lost (origin.rs:171-185):
\* a byte of the source that an edge streams is with the edge, in its channel
\* or in the hands of a watcher, or a watcher or the next one has it before
\* it, however the burst, the polls and the writes interleave.
NoByteMissed ==
  \A e \in Edges :
    LET m == edge[e].mount
        c == edge[e].source
        held == got[e] \cup Carried(queue[e])
    IN  edge[e].pc = "stream" /\ ~lagged[e] /\ InStep(m, c) /\ watching[m] =>
          \A i \in edge[e].first .. wpos[c] - 1 :
            \/ <<c, i>> \in held
            \/ \E t \in Watchers :
                 /\ Live(t, m)
                 /\ watcher[t].last <= i \/ <<c, i>> \in Carried(<<watcher[t].data>>)

\* A mount whose table entry has outlived its watcher (origin.rs:118) is fed
\* by a source that came after the one the watcher was spawned for: a source
\* that stays never loses its watcher.
DeafOnlyAfterReturn ==
  \A m \in Mounts :
    Deaf(m) /\ MountExists(m) /\ connected[sources[m]] => sources[m] # metBy[m]

\* While its source stays and is watched from its start, an edge is brought up
\* to date, or falls so far behind that its connection ends.
EdgeCatchesUp ==
  \A e \in Edges : \A c \in Conns :
    (edge[e].pc = "stream" /\ edge[e].source = c)
      ~> \/ {c} \X (edge[e].first .. wpos[c] - 1) \subseteq got[e]
         \/ edge[e].pc = "closed"
         \/ ~InStep(edge[e].mount, c)
=============================================================================
