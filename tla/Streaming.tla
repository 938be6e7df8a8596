----------------------------- MODULE Streaming -----------------------------
(***************************************************************************)
(* The streaming server (src/lib.rs): source connections (SourceStream),   *)
(* listener connections (handle_get: resolve the mount along the fallback  *)
(* chain, join, stream, fail over, leave), the ListenerManager, the        *)
(* listener counts of the statistics, and the kick requests of the REST    *)
(* API.  Every task runs in parallel with the others; one action is one    *)
(* access to a shared map, counter or flag.                                *)
(***************************************************************************)
EXTENDS SourceStream, MountSettings, ListenerManager

CONSTANTS Kicks     \* the kick requests an administrator sends

ASSUME KicksAssumption == Kicks \cap Listeners = {}

VARIABLES
  pc,           \* where each listener task is
  phase,        \* what the calls it makes are for: serving, moving or exiting
  req,          \* requested_mount
  serving,      \* serving_mount
  src,          \* source, the Source object the listener holds
  next,         \* the source a move is headed for
  hops,         \* the iteration of resolve_source_with_fallback
  behind,       \* current_position of the ring buffer is past pos
  kicked,       \* Listener.disconnected
  removed,      \* the `removed` of a remove_listener call in progress
  kickPc,       \* where each kick request is
  kickMount,    \* its path parameters: the mount
  kickTarget,   \* and the listener
  mountCount,   \* current_listeners of each mount's statistics
  globalCount   \* current_listeners of the global statistics

taskVars  == <<pc, phase, req, serving, src, next, hops, behind>>
kickVars  == <<kickPc, kickMount, kickTarget>>
statsVars == <<mountCount, globalCount>>
vars == <<srcVars, managerVars, taskVars, kicked, removed, kickVars, statsVars>>

\* The loop of handle_get, moves excepted.
LoopPcs == {"loop", "write", "check", "override", "failover", "wait"}
ResolvePcs == {"lookup", "full"}
RemovePcs == {"retain", "erase", "uncount"}
Pcs == {"idle", "header", "join", "push", "count", "leave", "gone"}
         \cup ResolvePcs \cup LoopPcs \cup RemovePcs
KickPcs == {"idle", "find", "done"} \cup RemovePcs

TypeOK ==
  /\ SourceTypeOK
  /\ ManagerTypeOK
  /\ pc \in [Listeners -> Pcs]
  /\ phase \in [Listeners -> {"serve", "move", "exit"}]
  /\ req \in [Listeners -> Mounts]
  /\ serving \in [Listeners -> Mounts]
  /\ src \in [Listeners -> Conns \cup {NoConn}]
  /\ next \in [Listeners -> Conns \cup {NoConn}]
  /\ hops \in [Listeners -> 0 .. MaxFallbackDepth - 1]
  /\ behind \in [Listeners -> BOOLEAN]
  /\ kicked \in [Listeners -> BOOLEAN]
  /\ removed \in [Listeners \cup Kicks -> BOOLEAN]
  /\ kickPc \in [Kicks -> KickPcs]
  /\ kickMount \in [Kicks -> Mounts]
  /\ kickTarget \in [Kicks -> Listeners]
  /\ mountCount \in [Mounts -> Nat]
  /\ globalCount \in Int

Init ==
  /\ SourceInit
  /\ ManagerInit
  /\ pc = [l \in Listeners |-> "idle"]
  /\ phase = [l \in Listeners |-> "serve"]
  /\ req \in [Listeners -> Mounts]
  /\ serving = req
  /\ src = [l \in Listeners |-> NoConn]
  /\ next = [l \in Listeners |-> NoConn]
  /\ hops = [l \in Listeners |-> 0]
  /\ behind = [l \in Listeners |-> FALSE]
  /\ kicked = [l \in Listeners |-> FALSE]
  /\ removed = [t \in Listeners \cup Kicks |-> FALSE]
  /\ kickPc = [k \in Kicks |-> "idle"]
  /\ kickMount \in [Kicks -> Mounts]
  /\ kickTarget \in [Kicks -> Listeners]
  /\ mountCount = [m \in Mounts |-> 0]
  /\ globalCount = 0

Go(l, to) == pc' = [pc EXCEPT ![l] = to]

-----------------------------------------------------------------------------
(* Sources *)

SourceMoves(c) ==
  /\ SourceStep(c)
  /\ UNCHANGED <<managerVars, taskVars, kicked, removed, kickVars, statsVars>>

\* The read loop of run_source_stream writes to the ring buffer: every
\* listener on the source has something to drain.
Feed(c) ==
  /\ srcPc[c] = "streaming"
  /\ behind' = [l \in Listeners |->
                  behind[l] \/ (src[l] = c /\ pc[l] \in LoopPcs)]
  /\ UNCHANGED <<srcVars, managerVars, pc, phase, req, serving, src, next, hops,
                 kicked, removed, kickVars, statsVars>>

-----------------------------------------------------------------------------
(* A listener arrives: resolve_source_with_fallback, headers, listener_joined, *)
(* add_listener *)

Request(l) ==
  /\ pc[l] = "idle"
  /\ Go(l, "lookup")
  /\ UNCHANGED <<srcVars, managerVars, phase, req, serving, src, next, hops,
                 behind, kicked, removed, kickVars, statsVars>>

\* Mutant: an empty fallback is followed like any other.
NextHopWithoutFallbackCheck(l) ==
  /\ IF hops[l] + 1 < MaxFallbackDepth
     THEN /\ serving' = [serving EXCEPT ![l] = Fallback[serving[l]]]
          /\ hops' = [hops EXCEPT ![l] = @ + 1]
          /\ Go(l, "lookup")
     ELSE Go(l, "gone") /\ hops' = [hops EXCEPT ![l] = 0] /\ UNCHANGED serving
  /\ src' = [src EXCEPT ![l] = NoConn]
  /\ UNCHANGED <<srcVars, managerVars, phase, req, next, behind, kicked, removed,
                 kickVars, statsVars>>

\* Mutant: the chain is followed for as long as it goes.
NextHopWithoutDepth(l) ==
  /\ IF HasFallback(serving[l])
     THEN serving' = [serving EXCEPT ![l] = Fallback[serving[l]]] /\ Go(l, "lookup")
     ELSE Go(l, "gone") /\ UNCHANGED serving
  /\ src' = [src EXCEPT ![l] = NoConn]
  /\ UNCHANGED <<srcVars, managerVars, phase, req, next, hops, behind, kicked,
                 removed, kickVars, statsVars>>

\* One more iteration, on the fallback of the mount, or 404.
NextHop(l) ==
  LET m == serving[l] IN
  /\ IF HasFallback(m) /\ hops[l] + 1 < MaxFallbackDepth
     THEN /\ serving' = [serving EXCEPT ![l] = Fallback[m]]
          /\ hops' = [hops EXCEPT ![l] = @ + 1]
          /\ Go(l, "lookup")
     ELSE Go(l, "gone") /\ hops' = [hops EXCEPT ![l] = 0] /\ UNCHANGED serving
  /\ src' = [src EXCEPT ![l] = NoConn]
  /\ UNCHANGED <<srcVars, managerVars, phase, req, next, behind, kicked, removed,
                 kickVars, statsVars>>

LookupFound(l) ==
  /\ pc[l] = "lookup"
  /\ MountExists(serving[l])
  /\ src' = [src EXCEPT ![l] = sources[serving[l]]]
  /\ Go(l, "full")
  /\ UNCHANGED <<srcVars, managerVars, phase, req, serving, next, hops, behind,
                 kicked, removed, kickVars, statsVars>>

\* Mutant: any mount that is up is better than a 404.
LookupAnyMount(l) ==
  /\ pc[l] = "lookup"
  /\ ~MountExists(serving[l])
  /\ \E m \in Mounts :
       MountExists(m) /\ serving' = [serving EXCEPT ![l] = m]
  /\ UNCHANGED <<srcVars, managerVars, pc, phase, req, src, next, hops, behind,
                 kicked, removed, kickVars, statsVars>>

LookupMissing(l) ==
  /\ pc[l] = "lookup"
  /\ ~MountExists(serving[l])
  /\ NextHop(l)

\* The listener limit is looked at after the source was fetched.
Accept(l) ==
  /\ pc[l] = "full"
  /\ ~IsFull(serving[l], mountCount[srcMount[src[l]]])
  /\ hops' = [hops EXCEPT ![l] = 0]
  /\ Go(l, "header")
  /\ UNCHANGED <<srcVars, managerVars, phase, req, serving, src, next, behind,
                 kicked, removed, kickVars, statsVars>>

SpillOver(l) ==
  /\ pc[l] = "full"
  /\ IsFull(serving[l], mountCount[srcMount[src[l]]])
  /\ NextHop(l)

\* The response header and the intro file are written, or the client is gone.
SendHeader(l) ==
  /\ pc[l] = "header"
  /\ \/ Go(l, "join") /\ UNCHANGED src
     \/ Go(l, "gone") /\ src' = [src EXCEPT ![l] = NoConn]
  /\ UNCHANGED <<srcVars, managerVars, phase, req, serving, next, hops, behind,
                 kicked, removed, kickVars, statsVars>>

\* listener_joined, on arrival and at the end of a move.
Join(l) ==
  /\ pc[l] = "join"
  /\ mountCount' = [mountCount EXCEPT ![srcMount[src[l]]] = @ + 1]
  /\ globalCount' = globalCount + 1
  /\ Go(l, IF phase[l] = "move" THEN "loop" ELSE "push")
  /\ phase' = [phase EXCEPT ![l] = "serve"]
  /\ UNCHANGED <<srcVars, managerVars, req, serving, src, next, hops, behind,
                 kicked, removed, kickVars>>

\* Mutant: a move changes the source and keeps the mount.
AddListenerToOldMount(l) ==
  /\ pc[l] = "push"
  /\ src' = IF phase[l] = "move" THEN [src EXCEPT ![l] = next[l]] ELSE src
  /\ next' = [next EXCEPT ![l] = NoConn]
  /\ Push(serving[l], l)
  /\ Go(l, "count")
  /\ UNCHANGED <<srcVars, total, phase, req, serving, hops, behind, kicked,
                 removed, kickVars, statsVars>>

\* Mutant: a move registers a fresh Listener, whose flag is clear.
AddFreshListener(l) ==
  /\ pc[l] = "push"
  /\ IF phase[l] = "move"
     THEN /\ src' = [src EXCEPT ![l] = next[l]]
          /\ serving' = [serving EXCEPT ![l] = srcMount[next[l]]]
     ELSE UNCHANGED <<src, serving>>
  /\ kicked' = [kicked EXCEPT ![l] = FALSE]
  /\ next' = [next EXCEPT ![l] = NoConn]
  /\ Push(serving'[l], l)
  /\ Go(l, "count")
  /\ UNCHANGED <<srcVars, total, phase, req, hops, behind, removed, kickVars,
                 statsVars>>

\* The push of add_listener; a move first switches to its new source and mount.
AddListener(l) ==
  /\ pc[l] = "push"
  /\ IF phase[l] = "move"
     THEN /\ src' = [src EXCEPT ![l] = next[l]]
          /\ serving' = [serving EXCEPT ![l] = srcMount[next[l]]]
     ELSE UNCHANGED <<src, serving>>
  /\ next' = [next EXCEPT ![l] = NoConn]
  /\ Push(serving'[l], l)
  /\ Go(l, "count")
  /\ UNCHANGED <<srcVars, total, phase, req, hops, behind, kicked, removed,
                 kickVars, statsVars>>

\* Mutant: a listener that moves was counted already.
CountNewListener(l) ==
  /\ pc[l] = "count"
  /\ IF phase[l] = "move" THEN UNCHANGED total ELSE CountUp
  /\ behind' = [behind EXCEPT ![l] = FALSE]
  /\ Go(l, IF phase[l] = "move" THEN "join" ELSE "loop")
  /\ UNCHANGED <<srcVars, keys, entries, phase, req, serving, src, next, hops,
                 kicked, removed, kickVars, statsVars>>

\* The fetch_add of add_listener, and pos = current_position.
CountListener(l) ==
  /\ pc[l] = "count"
  /\ CountUp
  /\ behind' = [behind EXCEPT ![l] = FALSE]
  /\ Go(l, IF phase[l] = "move" THEN "join" ELSE "loop")
  /\ UNCHANGED <<srcVars, keys, entries, phase, req, serving, src, next, hops,
                 kicked, removed, kickVars, statsVars>>

-----------------------------------------------------------------------------
(* The stream loop of handle_get *)

StartExit(l) ==
  /\ Go(l, "retain")
  /\ phase' = [phase EXCEPT ![l] = "exit"]

StartMove(l, c) ==
  /\ Go(l, "leave")
  /\ phase' = [phase EXCEPT ![l] = "move"]
  /\ next' = [next EXCEPT ![l] = c]

loopUnchanged == <<srcVars, managerVars, req, serving, src, hops, kicked, removed,
                   kickVars, statsVars>>

\* Mutant: a kicked listener was removed already, so it only leaves the counts.
ObserveKickWithoutRemove(l) ==
  /\ pc[l] = "loop" /\ kicked[l]
  /\ Go(l, "leave")
  /\ phase' = [phase EXCEPT ![l] = "exit"]
  /\ UNCHANGED <<loopUnchanged, next, behind>>

\* Mutant: a kicked listener returns at once.
ObserveKickAndReturn(l) ==
  /\ pc[l] = "loop" /\ kicked[l]
  /\ Go(l, "gone")
  /\ UNCHANGED <<loopUnchanged, phase, next, behind>>

ObserveKick(l) ==
  /\ pc[l] = "loop" /\ kicked[l]
  /\ StartExit(l)
  /\ UNCHANGED <<loopUnchanged, next, behind>>

\* There is data past pos: pos moves up and the data is on its way.
Drain(l) ==
  /\ pc[l] = "loop" /\ ~kicked[l] /\ behind[l]
  /\ behind' = [behind EXCEPT ![l] = FALSE]
  /\ Go(l, "write")
  /\ UNCHANGED <<loopUnchanged, phase, next>>

WriteOk(l) ==
  /\ pc[l] = "write"
  /\ Go(l, "loop")
  /\ UNCHANGED <<loopUnchanged, phase, next, behind>>

\* Mutant: a failed write returns, as it does before the loop.
WriteFailsAndReturns(l) ==
  /\ pc[l] = "write"
  /\ Go(l, "gone")
  /\ UNCHANGED <<loopUnchanged, phase, next, behind>>

WriteFails(l) ==
  /\ pc[l] = "write"
  /\ StartExit(l)
  /\ UNCHANGED <<loopUnchanged, next, behind>>

\* No data past pos: Source.connected is what is looked at next.
CaughtUp(l) ==
  /\ pc[l] = "loop" /\ ~kicked[l] /\ ~behind[l]
  /\ Go(l, "check")
  /\ UNCHANGED <<loopUnchanged, phase, next, behind>>

WantsBack(l) == serving[l] # req[l] /\ req[l] \in Override

SourceAlive(l) ==
  /\ pc[l] = "check" /\ connected[src[l]]
  /\ Go(l, IF WantsBack(l) THEN "override" ELSE "loop")
  /\ UNCHANGED <<loopUnchanged, phase, next, behind>>

SourceGone(l) ==
  /\ pc[l] = "check" /\ ~connected[src[l]]
  /\ Go(l, "failover")
  /\ UNCHANGED <<loopUnchanged, phase, next, behind>>

\* The requested mount is back: fallback_override, from the loop or from the
\* first lines of move_listener_to_fallback.
MoveBack(l) ==
  /\ pc[l] \in {"override", "failover"}
  /\ WantsBack(l) /\ MountExists(req[l])
  /\ StartMove(l, sources[req[l]])
  /\ UNCHANGED <<loopUnchanged, behind>>

StayOnFallback(l) ==
  /\ pc[l] = "override" /\ ~MountExists(req[l])
  /\ Go(l, "loop")
  /\ UNCHANGED <<loopUnchanged, phase, next, behind>>

NoFallback(l) ==
  /\ pc[l] = "failover"
  /\ ~(WantsBack(l) /\ MountExists(req[l]))
  /\ ~HasFallback(serving[l])
  /\ StartExit(l)
  /\ UNCHANGED <<loopUnchanged, next, behind>>

AwaitFallback(l) ==
  /\ pc[l] = "failover"
  /\ ~(WantsBack(l) /\ MountExists(req[l]))
  /\ HasFallback(serving[l])
  /\ Go(l, "wait")
  /\ UNCHANGED <<loopUnchanged, phase, next, behind>>

FallbackFound(l) ==
  /\ pc[l] = "wait" /\ MountExists(Fallback[serving[l]])
  /\ StartMove(l, sources[Fallback[serving[l]]])
  /\ UNCHANGED <<loopUnchanged, behind>>

\* Mutant: the wait has no deadline.
FallbackNeverExpires(l) ==
  /\ pc[l] = "wait" /\ ~MountExists(Fallback[serving[l]])
  /\ UNCHANGED vars

\* The deadline has passed, at a poll that did not find the fallback source.
FallbackExpired(l) ==
  /\ pc[l] = "wait" /\ ~MountExists(Fallback[serving[l]])
  /\ StartExit(l)
  /\ UNCHANGED <<loopUnchanged, next, behind>>

-----------------------------------------------------------------------------
(* listener_left and remove_listener: in this order for a move, in the       *)
(* opposite one for the exit                                                 *)

\* saturating_sub for the mount, fetch_sub for the server.
Leave(l) ==
  LET m == srcMount[src[l]] IN
  /\ pc[l] = "leave"
  /\ mountCount' = [mountCount EXCEPT ![m] = IF @ = 0 THEN 0 ELSE @ - 1]
  /\ globalCount' = globalCount - 1
  /\ IF phase[l] = "move"
     THEN Go(l, "retain") /\ UNCHANGED <<src, behind>>
     ELSE /\ Go(l, "gone")
          /\ src' = [src EXCEPT ![l] = NoConn]
          /\ behind' = [behind EXCEPT ![l] = FALSE]
  /\ UNCHANGED <<srcVars, managerVars, phase, req, serving, next, hops, kicked,
                 removed, kickVars>>

AfterRemove(l) == IF phase[l] = "exit" THEN "leave" ELSE "push"

removeUnchanged == <<srcVars, phase, req, serving, src, next, hops, behind, kicked,
                     kickVars, statsVars>>

\* Mutant: remove_listener is called with the mount that the move goes to.
RetainOthersOnNewMount(l) ==
  LET m == IF phase[l] = "move" THEN srcMount[next[l]] ELSE serving[l] IN
  /\ pc[l] = "retain"
  /\ Retain(m, l)
  /\ removed' = [removed EXCEPT ![l] = Removes(m, l)]
  /\ Go(l, IF Empties(m, l) THEN "erase"
           ELSE IF Removes(m, l) THEN "uncount" ELSE AfterRemove(l))
  /\ UNCHANGED <<removeUnchanged, total>>

\* Mutant: the counter goes down whether or not the listener was there.
RetainAndUncount(l) ==
  LET m == serving[l] IN
  /\ pc[l] = "retain"
  /\ Retain(m, l)
  /\ removed' = [removed EXCEPT ![l] = TRUE]
  /\ Go(l, IF Empties(m, l) THEN "erase" ELSE "uncount")
  /\ UNCHANGED <<removeUnchanged, total>>

RetainOthers(l) ==
  LET m == serving[l] IN
  /\ pc[l] = "retain"
  /\ Retain(m, l)
  /\ removed' = [removed EXCEPT ![l] = Removes(m, l)]
  /\ Go(l, IF Empties(m, l) THEN "erase"
           ELSE IF Removes(m, l) THEN "uncount" ELSE AfterRemove(l))
  /\ UNCHANGED <<removeUnchanged, total>>

EraseEntry(l) ==
  /\ pc[l] = "erase"
  /\ Erase(serving[l])
  /\ Go(l, IF removed[l] THEN "uncount" ELSE AfterRemove(l))
  /\ UNCHANGED <<removeUnchanged, total, removed>>

UncountListener(l) ==
  /\ pc[l] = "uncount"
  /\ CountDown
  /\ removed' = [removed EXCEPT ![l] = FALSE]
  /\ Go(l, AfterRemove(l))
  /\ UNCHANGED <<removeUnchanged, keys, entries>>

-----------------------------------------------------------------------------
(* DELETE .../listeners/{id}: kick_listener of the API, then of the manager *)

GoKick(k, to) == kickPc' = [kickPc EXCEPT ![k] = to]

kickUnchanged == <<srcVars, taskVars, kickMount, kickTarget, statsVars>>

\* 404 unless the mount has a source.
KickRequest(k) ==
  /\ kickPc[k] = "idle"
  /\ GoKick(k, IF MountExists(kickMount[k]) THEN "find" ELSE "done")
  /\ UNCHANGED <<kickUnchanged, managerVars, kicked, removed>>

\* The listener is flagged while its entry is locked, or is not found.
KickFind(k) ==
  /\ kickPc[k] = "find"
  /\ IF kickTarget[k] \in entries[kickMount[k]]
     THEN /\ kicked' = [kicked EXCEPT ![kickTarget[k]] = TRUE]
          /\ GoKick(k, "retain")
     ELSE GoKick(k, "done") /\ UNCHANGED kicked
  /\ UNCHANGED <<kickUnchanged, managerVars, removed>>

KickRetain(k) ==
  LET m == kickMount[k]
      l == kickTarget[k]
  IN  /\ kickPc[k] = "retain"
      /\ Retain(m, l)
      /\ removed' = [removed EXCEPT ![k] = Removes(m, l)]
      /\ GoKick(k, IF Empties(m, l) THEN "erase"
                   ELSE IF Removes(m, l) THEN "uncount" ELSE "done")
      /\ UNCHANGED <<kickUnchanged, total, kicked>>

KickErase(k) ==
  /\ kickPc[k] = "erase"
  /\ Erase(kickMount[k])
  /\ GoKick(k, IF removed[k] THEN "uncount" ELSE "done")
  /\ UNCHANGED <<kickUnchanged, total, kicked, removed>>

KickUncount(k) ==
  /\ kickPc[k] = "uncount"
  /\ CountDown
  /\ removed' = [removed EXCEPT ![k] = FALSE]
  /\ GoKick(k, "done")
  /\ UNCHANGED <<kickUnchanged, keys, entries, kicked>>

-----------------------------------------------------------------------------
(* The steps a listener task takes by itself once its request is in; all of *)
(* them but the writes depend on nothing but the scheduler.                 *)
ListenerStep(l) ==
  \/ LookupFound(l) \/ LookupMissing(l) \/ Accept(l) \/ SpillOver(l)
  \/ SendHeader(l) \/ Join(l) \/ AddListener(l) \/ CountListener(l)
  \/ ObserveKick(l) \/ Drain(l) \/ WriteOk(l) \/ WriteFails(l) \/ CaughtUp(l)
  \/ SourceAlive(l) \/ SourceGone(l) \/ MoveBack(l) \/ StayOnFallback(l)
  \/ NoFallback(l) \/ AwaitFallback(l) \/ FallbackFound(l) \/ FallbackExpired(l)
  \/ Leave(l) \/ RetainOthers(l) \/ EraseEntry(l) \/ UncountListener(l)

KickStep(k) ==
  \/ KickFind(k) \/ KickRetain(k) \/ KickErase(k) \/ KickUncount(k)

\* Every connection and every request is over.
Done ==
  /\ SourcesDone
  /\ \A l \in Listeners : pc[l] = "gone"
  /\ \A k \in Kicks : kickPc[k] = "done"

Next ==
  \/ \E c \in Conns : SourceMoves(c) \/ Feed(c)
  \/ \E l \in Listeners : Request(l) \/ ListenerStep(l)
  \/ \E k \in Kicks : KickRequest(k) \/ KickStep(k)
  \/ Done /\ UNCHANGED vars

Spec == Init /\ [][Next]_vars

\* The runtime schedules every task that can run, and a client either takes
\* what is written to it or its connection fails.  Nothing is assumed of when
\* sources connect, send or disconnect, beyond that a task that has to
\* register, unregister or answer does so.
Fairness ==
  /\ \A l \in Listeners : WF_vars(ListenerStep(l))
  /\ \A k \in Kicks : WF_vars(KickStep(k))
  /\ \A c \in Conns :
       WF_vars((RegisterInsert(c) \/ Unregister(c)) /\ SourceMoves(c))

FairSpec == Spec /\ Fairness

-----------------------------------------------------------------------------
(* Properties *)

\* The listeners the statistics have to count: those between listener_joined
\* and listener_left.
Counted(l) ==
  \/ pc[l] \in LoopPcs \cup {"leave"}
  \/ phase[l] = "serve" /\ pc[l] \in {"push", "count"}
  \/ phase[l] = "exit" /\ pc[l] \in RemovePcs

AllCounted == {l \in Listeners : Counted(l)}
CountedOn(m) == {l \in AllCounted : srcMount[src[l]] = m}

\* current_listeners of each mount and of the server are exactly the listeners
\* that are being served, whatever moves, kicks, failed writes and
\* reconnections of sources came in between (listener_joined and
\* listener_left, lib.rs:1116-1148, called at eight places of handle_get).
StatsExact ==
  /\ \A m \in Mounts : mountCount[m] = Cardinality(CountedOn(m))
  /\ globalCount = Cardinality(AllCounted)

\* The mount that a listener is registered, kicked and removed under is the
\* mount of the source it holds: serving_mount and source change together
\* (lib.rs:1160, 1379-1389, 1400-1411).
ServingItsSource ==
  \A l \in Listeners :
    Counted(l) => src[l] \in Conns /\ srcMount[src[l]] = serving[l]

\* The manager holds a listener on no mount but the one it is served from, and
\* no listener that left: nothing is leaked by a move, a kick or an exit
\* (lib.rs:1381, 1404, 1420).
NoStaleListener ==
  \A m \in Mounts : \A l \in entries[m] :
    /\ serving[l] = m
    /\ \/ pc[l] \in LoopPcs \cup {"count", "retain"}
       \/ phase[l] = "move" /\ pc[l] \in {"join", "leave"}

\* total_listeners is never less than the listeners in the manager, calls of
\* add_listener and remove_listener that are half way taken into account: the
\* counter errs on one side only.
Held == {l \in Listeners : \E m \in Mounts : l \in entries[m]}
Adding == {l \in Listeners : pc[l] = "count"}
Removing ==
  {l \in Listeners : removed[l]} \cup {k \in Kicks : removed[k]}
NeverUndercounts ==
  Cardinality(Held) + Cardinality(Removing) <= total + Cardinality(Adding)

\* A listener is only ever served a mount that the fallback chain of the mount
\* it asked for leads to, however often it moved.
ServedFromChain ==
  \A l \in Listeners : serving[l] \in Chain(req[l])

\* A kicked listener leaves: "The listener's stream loop observes the flag and
\* shuts down" (listener/mod.rs:119), from whichever point it was kicked at.
KickedLeaves ==
  \A l \in Listeners : kicked[l] ~> pc[l] = "gone"

\* A listener does not stay with a source that disconnected.
DeadSourceLeft ==
  \A l \in Listeners, c \in Conns :
    (pc[l] \in LoopPcs /\ src[l] = c /\ ~connected[c]) ~> src[l] # c

\* A request is served or refused, also when the fallback mounts form a cycle
\* or are all full (MAX_FALLBACK_DEPTH, lib.rs:1037).
RequestAnswered ==
  \A l \in Listeners : pc[l] = "lookup" ~> pc[l] \in {"loop", "gone"}

\* "The fallback chain can be deeper than one hop (up to 10 mounts)"
\* (README.md:60): a listener is not dropped at the end of its wait while a
\* mount further down the chain of the mount it was served from has a source.
ChainFollowed ==
  [][\A l \in Listeners :
       pc[l] = "wait" /\ phase'[l] = "exit"
         => \A m \in Chain(serving[l]) \ {serving[l]} : ~MountExists(m)]_vars

\* "With fallback_override, listeners are moved back to /live when its source
\* reconnects" (README.md:58): a listener does not stay on a fallback for good
\* while the mount it asked for has its source back.
OverrideReturns ==
  \A l \in Listeners :
    []<>~(pc[l] \in LoopPcs /\ WantsBack(l) /\ MountExists(req[l]))

\* "Drain any buffered audio first so bytes written just before the source
\* disconnects are not left behind" (lib.rs:1347): nothing is left to drain
\* when the listener turns to its fallback.
TailDelivered ==
  \A l \in Listeners : pc[l] = "failover" => ~behind[l]
=============================================================================
