-------------------------- MODULE StreamingProofs --------------------------
(***************************************************************************)
(* What holds of the streaming server for any mounts, settings, sources,   *)
(* listeners and kick requests.                                            *)
(***************************************************************************)
EXTENDS Streaming, SourceStreamProofs, FiniteSetTheorems

USE MountSettingsAssumption, ListenerManagerAssumption, KicksAssumption

-----------------------------------------------------------------------------
(* The registry of the server is the one of SourceStream *)

\* Listeners and kick requests read the source registry and never change it, so
\* what was proved of the source connections alone holds in the server.
THEOREM SourcesRefined == Spec => SourceSpec
<1>1. Init => SourceInit
  BY DEF Init
<1>2. [Next]_vars => [SourceNext]_srcVars
  <2> SUFFICES ASSUME [Next]_vars PROVE [SourceNext]_srcVars
    OBVIOUS
  <2> USE DEF srcVars
  <2>1. ASSUME NEW c \in Conns, SourceMoves(c) PROVE [SourceNext]_srcVars
    BY <2>1 DEF SourceMoves, SourceNext
  <2>2. ASSUME NEW c \in Conns, Feed(c) PROVE [SourceNext]_srcVars
    BY <2>2 DEF Feed
  <2>3. ASSUME NEW l \in Listeners, Request(l) PROVE [SourceNext]_srcVars
    BY <2>3 DEF Request
  <2>4. ASSUME NEW l \in Listeners, LookupFound(l) PROVE [SourceNext]_srcVars
    BY <2>4 DEF LookupFound
  <2>5. ASSUME NEW l \in Listeners, LookupMissing(l) PROVE [SourceNext]_srcVars
    BY <2>5 DEF LookupMissing, NextHop
  <2>6. ASSUME NEW l \in Listeners, Accept(l) PROVE [SourceNext]_srcVars
    BY <2>6 DEF Accept
  <2>7. ASSUME NEW l \in Listeners, SpillOver(l) PROVE [SourceNext]_srcVars
    BY <2>7 DEF SpillOver, NextHop
  <2>8. ASSUME NEW l \in Listeners, SendHeader(l) PROVE [SourceNext]_srcVars
    BY <2>8 DEF SendHeader
  <2>9. ASSUME NEW l \in Listeners, Join(l) PROVE [SourceNext]_srcVars
    BY <2>9 DEF Join
  <2>10. ASSUME NEW l \in Listeners, AddListener(l) PROVE [SourceNext]_srcVars
    BY <2>10 DEF AddListener, Push
  <2>11. ASSUME NEW l \in Listeners, CountListener(l) PROVE [SourceNext]_srcVars
    BY <2>11 DEF CountListener, CountUp
  <2>12. ASSUME NEW l \in Listeners, ObserveKick(l) PROVE [SourceNext]_srcVars
    BY <2>12 DEF ObserveKick, StartExit, loopUnchanged
  <2>13. ASSUME NEW l \in Listeners, Drain(l) PROVE [SourceNext]_srcVars
    BY <2>13 DEF Drain, loopUnchanged
  <2>14. ASSUME NEW l \in Listeners, WriteOk(l) PROVE [SourceNext]_srcVars
    BY <2>14 DEF WriteOk, loopUnchanged
  <2>15. ASSUME NEW l \in Listeners, WriteFails(l) PROVE [SourceNext]_srcVars
    BY <2>15 DEF WriteFails, StartExit, loopUnchanged
  <2>16. ASSUME NEW l \in Listeners, CaughtUp(l) PROVE [SourceNext]_srcVars
    BY <2>16 DEF CaughtUp, loopUnchanged
  <2>17. ASSUME NEW l \in Listeners, SourceAlive(l) PROVE [SourceNext]_srcVars
    BY <2>17 DEF SourceAlive, loopUnchanged
  <2>18. ASSUME NEW l \in Listeners, SourceGone(l) PROVE [SourceNext]_srcVars
    BY <2>18 DEF SourceGone, loopUnchanged
  <2>19. ASSUME NEW l \in Listeners, MoveBack(l) PROVE [SourceNext]_srcVars
    BY <2>19 DEF MoveBack, StartMove, loopUnchanged
  <2>20. ASSUME NEW l \in Listeners, StayOnFallback(l) PROVE [SourceNext]_srcVars
    BY <2>20 DEF StayOnFallback, loopUnchanged
  <2>21. ASSUME NEW l \in Listeners, NoFallback(l) PROVE [SourceNext]_srcVars
    BY <2>21 DEF NoFallback, StartExit, loopUnchanged
  <2>22. ASSUME NEW l \in Listeners, AwaitFallback(l) PROVE [SourceNext]_srcVars
    BY <2>22 DEF AwaitFallback, loopUnchanged
  <2>23. ASSUME NEW l \in Listeners, FallbackFound(l) PROVE [SourceNext]_srcVars
    BY <2>23 DEF FallbackFound, StartMove, loopUnchanged
  <2>24. ASSUME NEW l \in Listeners, FallbackExpired(l) PROVE [SourceNext]_srcVars
    BY <2>24 DEF FallbackExpired, StartExit, loopUnchanged
  <2>25. ASSUME NEW l \in Listeners, Leave(l) PROVE [SourceNext]_srcVars
    BY <2>25 DEF Leave
  <2>26. ASSUME NEW l \in Listeners, RetainOthers(l) PROVE [SourceNext]_srcVars
    BY <2>26 DEF RetainOthers, Retain, removeUnchanged, AfterRemove
  <2>27. ASSUME NEW l \in Listeners, EraseEntry(l) PROVE [SourceNext]_srcVars
    BY <2>27 DEF EraseEntry, Erase, removeUnchanged, AfterRemove
  <2>28. ASSUME NEW l \in Listeners, UncountListener(l) PROVE [SourceNext]_srcVars
    BY <2>28 DEF UncountListener, CountDown, removeUnchanged, AfterRemove
  <2>29. ASSUME NEW k \in Kicks, KickRequest(k) PROVE [SourceNext]_srcVars
    BY <2>29 DEF KickRequest, GoKick, kickUnchanged
  <2>30. ASSUME NEW k \in Kicks, KickFind(k) PROVE [SourceNext]_srcVars
    BY <2>30 DEF KickFind, GoKick, kickUnchanged
  <2>31. ASSUME NEW k \in Kicks, KickRetain(k) PROVE [SourceNext]_srcVars
    BY <2>31 DEF KickRetain, GoKick, kickUnchanged, Retain
  <2>32. ASSUME NEW k \in Kicks, KickErase(k) PROVE [SourceNext]_srcVars
    BY <2>32 DEF KickErase, GoKick, kickUnchanged, Erase
  <2>33. ASSUME NEW k \in Kicks, KickUncount(k) PROVE [SourceNext]_srcVars
    BY <2>33 DEF KickUncount, GoKick, kickUnchanged, CountDown
  <2>34. CASE UNCHANGED vars
    BY <2>34 DEF vars
  <2> QED
    BY <2>1, <2>2, <2>3, <2>4, <2>5, <2>6, <2>7, <2>8, <2>9, <2>10, <2>11,
       <2>12, <2>13, <2>14, <2>15, <2>16, <2>17, <2>18, <2>19, <2>20, <2>21,
       <2>22, <2>23, <2>24, <2>25, <2>26, <2>27, <2>28, <2>29, <2>30, <2>31,
       <2>32, <2>33, <2>34
    DEF Next, ListenerStep, KickStep
<1> QED
  BY <1>1, <1>2, PTL DEF Spec, SourceSpec

\* The mount of a connection never changes.
LEMMA SrcMountFixed ==
  ASSUME NEW c \in Conns, SourceStep(c)
  PROVE  srcMount' = srcMount
BY DEF SourceStep, Connect, Reject, RegisterCheck, RegisterInsert, Welcome,
       Disconnect, Unregister

-----------------------------------------------------------------------------
(* Types, and the local state of the listener tasks: what they are inductive *)
(* with                                                                      *)

\* The calls a listener makes are for what its phase says.
PhaseOK(l) ==
  /\ pc[l] \in LoopPcs \cup ResolvePcs \cup {"idle", "header"} => phase[l] = "serve"
  /\ pc[l] \in RemovePcs \cup {"leave"} => phase[l] \in {"move", "exit"}
  /\ pc[l] \in {"join", "push", "count"} => phase[l] \in {"serve", "move"}

\* A listener that resolved its request holds a source of the mount it is
\* served from.
HoldsSource(l) ==
  pc[l] \notin {"idle", "lookup", "gone"}
    => src[l] \in Conns /\ srcMount[src[l]] = serving[l]

\* A wait and a move have a target: the fallback, or the requested mount.
HasTarget(l) ==
  /\ pc[l] = "wait" => HasFallback(serving[l])
  /\ phase[l] = "move" /\ pc[l] \in RemovePcs \cup {"leave", "push"}
       => /\ next[l] \in Conns
          /\ \/ srcMount[next[l]] = req[l]
             \/ HasFallback(serving[l]) /\ srcMount[next[l]] = Fallback[serving[l]]

TaskInv == \A l \in Listeners : PhaseOK(l) /\ HoldsSource(l) /\ HasTarget(l)

LEMMA FallbackIsMount ==
  ASSUME NEW m \in Mounts, HasFallback(m)
  PROVE  Fallback[m] \in Mounts
BY DEF HasFallback

LEMMA HopTypes ==
  ASSUME TypeOK, SourceTypeOK', NEW l \in Listeners, NextHop(l)
  PROVE  TypeOK'
<1> USE DEF TypeOK, SourceTypeOK, SourcesTypeOK, ManagerTypeOK, Pcs, ResolvePcs,
            Go, srcVars, managerVars, kickVars, statsVars
<1>1. src' \in [Listeners -> Conns \cup {NoConn}]
  BY DEF NextHop
<1>2. UNCHANGED <<srcVars, managerVars, phase, req, next, behind, kicked, removed,
                  kickVars, statsVars>>
  BY DEF NextHop
<1>3. CASE HasFallback(serving[l]) /\ hops[l] + 1 < MaxFallbackDepth
  <2>1. Fallback[serving[l]] \in Mounts
    BY <1>3, FallbackIsMount
  <2>2. hops' \in [Listeners -> 0 .. MaxFallbackDepth - 1]
    BY <1>3 DEF NextHop
  <2>3. serving' \in [Listeners -> Mounts] /\ pc' \in [Listeners -> Pcs]
    BY <1>3, <2>1 DEF NextHop
  <2> QED
    BY <2>2, <2>3, <1>1, <1>2
<1>4. CASE ~(HasFallback(serving[l]) /\ hops[l] + 1 < MaxFallbackDepth)
  <2>1. hops' \in [Listeners -> 0 .. MaxFallbackDepth - 1]
    BY <1>4 DEF NextHop
  <2>2. serving' \in [Listeners -> Mounts] /\ pc' \in [Listeners -> Pcs]
    BY <1>4 DEF NextHop
  <2> QED
    BY <2>1, <2>2, <1>1, <1>2
<1> QED
  BY <1>3, <1>4

LEMMA TypeStep ==
  ASSUME TypeOK, SourceTypeOK', TaskInv, [Next]_vars
  PROVE  TypeOK'
<1> USE DEF TypeOK, SourceTypeOK, SourcesTypeOK, ManagerTypeOK, Pcs, LoopPcs,
            ResolvePcs, RemovePcs, KickPcs, Go, srcVars, managerVars, taskVars,
            kickVars, statsVars, MountExists
<1>1. ASSUME NEW c \in Conns, SourceMoves(c) PROVE TypeOK'
  BY <1>1 DEF SourceMoves
<1>2. ASSUME NEW c \in Conns, Feed(c) PROVE TypeOK'
  BY <1>2 DEF Feed
<1>3. ASSUME NEW l \in Listeners, Request(l) PROVE TypeOK'
  BY <1>3 DEF Request
<1>4. ASSUME NEW l \in Listeners, LookupFound(l) PROVE TypeOK'
  BY <1>4 DEF LookupFound
<1>5. ASSUME NEW l \in Listeners, LookupMissing(l) PROVE TypeOK'
  BY <1>5, HopTypes DEF LookupMissing
<1>6. ASSUME NEW l \in Listeners, Accept(l) PROVE TypeOK'
  BY <1>6 DEF Accept
<1>7. ASSUME NEW l \in Listeners, SpillOver(l) PROVE TypeOK'
  BY <1>7, HopTypes DEF SpillOver
<1>8. ASSUME NEW l \in Listeners, SendHeader(l) PROVE TypeOK'
  <2>1. src' \in [Listeners -> Conns \cup {NoConn}] /\ pc' \in [Listeners -> Pcs]
    <3>1. CASE Go(l, "join") /\ UNCHANGED src
      BY <3>1
    <3>2. CASE Go(l, "gone") /\ src' = [src EXCEPT ![l] = NoConn]
      BY <3>2
    <3> QED
      BY <1>8, <3>1, <3>2 DEF SendHeader
  <2>2. UNCHANGED <<srcVars, managerVars, phase, req, serving, next, hops, behind,
                    kicked, removed, kickVars, statsVars>>
    BY <1>8 DEF SendHeader
  <2> QED
    BY <2>1, <2>2
<1>9. ASSUME NEW l \in Listeners, Join(l) PROVE TypeOK'
  <2>1. srcMount[src[l]] \in Mounts
    BY <1>9 DEF Join, TaskInv, HoldsSource
  <2>2. mountCount' \in [Mounts -> Nat] /\ globalCount' \in Int
    BY <1>9, <2>1 DEF Join
  <2> QED
    BY <1>9, <2>2 DEF Join
<1>10. ASSUME NEW l \in Listeners, AddListener(l) PROVE TypeOK'
  <2>1. phase[l] = "move" => next[l] \in Conns /\ srcMount[next[l]] \in Mounts
    BY <1>10 DEF AddListener, TaskInv, HasTarget
  <2>2. src' \in [Listeners -> Conns \cup {NoConn}]
        /\ serving' \in [Listeners -> Mounts]
    <3>1. CASE phase[l] = "move"
      <4>1. src' = [src EXCEPT ![l] = next[l]]
            /\ serving' = [serving EXCEPT ![l] = srcMount[next[l]]]
        BY <1>10, <3>1 DEF AddListener
      <4> QED
        BY <2>1, <3>1, <4>1
    <3>2. CASE phase[l] # "move"
      BY <1>10, <3>2 DEF AddListener
    <3> QED
      BY <3>1, <3>2
  <2>3. serving'[l] \in Mounts
    BY <2>2
  <2>4. keys' \in SUBSET Mounts /\ entries' \in [Mounts -> SUBSET Listeners]
    BY <1>10, <2>3 DEF AddListener, Push
  <2> QED
    BY <1>10, <2>2, <2>4 DEF AddListener
<1>11. ASSUME NEW l \in Listeners, CountListener(l) PROVE TypeOK'
  BY <1>11 DEF CountListener, CountUp
<1>12. ASSUME NEW l \in Listeners, ObserveKick(l) PROVE TypeOK'
  BY <1>12 DEF ObserveKick, StartExit, loopUnchanged
<1>13. ASSUME NEW l \in Listeners, Drain(l) PROVE TypeOK'
  BY <1>13 DEF Drain, loopUnchanged
<1>14. ASSUME NEW l \in Listeners, WriteOk(l) PROVE TypeOK'
  BY <1>14 DEF WriteOk, loopUnchanged
<1>15. ASSUME NEW l \in Listeners, WriteFails(l) PROVE TypeOK'
  BY <1>15 DEF WriteFails, StartExit, loopUnchanged
<1>16. ASSUME NEW l \in Listeners, CaughtUp(l) PROVE TypeOK'
  BY <1>16 DEF CaughtUp, loopUnchanged
<1>17. ASSUME NEW l \in Listeners, SourceAlive(l) PROVE TypeOK'
  BY <1>17 DEF SourceAlive, loopUnchanged
<1>18. ASSUME NEW l \in Listeners, SourceGone(l) PROVE TypeOK'
  BY <1>18 DEF SourceGone, loopUnchanged
<1>19. ASSUME NEW l \in Listeners, MoveBack(l) PROVE TypeOK'
  BY <1>19 DEF MoveBack, StartMove, loopUnchanged
<1>20. ASSUME NEW l \in Listeners, StayOnFallback(l) PROVE TypeOK'
  BY <1>20 DEF StayOnFallback, loopUnchanged
<1>21. ASSUME NEW l \in Listeners, NoFallback(l) PROVE TypeOK'
  BY <1>21 DEF NoFallback, StartExit, loopUnchanged
<1>22. ASSUME NEW l \in Listeners, AwaitFallback(l) PROVE TypeOK'
  BY <1>22 DEF AwaitFallback, loopUnchanged
<1>23. ASSUME NEW l \in Listeners, FallbackFound(l) PROVE TypeOK'
  <2>1. sources[Fallback[serving[l]]] \in Conns \cup {NoConn}
    BY <1>23, FallbackIsMount DEF FallbackFound, TaskInv, HasTarget
  <2> QED
    BY <1>23, <2>1 DEF FallbackFound, StartMove, loopUnchanged
<1>24. ASSUME NEW l \in Listeners, FallbackExpired(l) PROVE TypeOK'
  BY <1>24 DEF FallbackExpired, StartExit, loopUnchanged
<1>25. ASSUME NEW l \in Listeners, Leave(l) PROVE TypeOK'
  <2>1. srcMount[src[l]] \in Mounts
    BY <1>25 DEF Leave, TaskInv, HoldsSource
  <2>2. mountCount' \in [Mounts -> Nat] /\ globalCount' \in Int
    BY <1>25, <2>1 DEF Leave
  <2>3. pc' \in [Listeners -> Pcs] /\ src' \in [Listeners -> Conns \cup {NoConn}]
        /\ behind' \in [Listeners -> BOOLEAN]
    <3>1. CASE phase[l] = "move"
      BY <1>25, <3>1 DEF Leave
    <3>2. CASE phase[l] # "move"
      <4>1. pc' = [pc EXCEPT ![l] = "gone"] /\ src' = [src EXCEPT ![l] = NoConn]
            /\ behind' = [behind EXCEPT ![l] = FALSE]
        BY <1>25, <3>2 DEF Leave
      <4> QED
        BY <4>1
    <3> QED
      BY <3>1, <3>2
  <2>4. UNCHANGED <<srcVars, managerVars, phase, req, serving, next, hops, kicked,
                    removed, kickVars>>
    BY <1>25 DEF Leave
  <2> QED
    BY <2>2, <2>3, <2>4
<1>26. ASSUME NEW l \in Listeners, RetainOthers(l) PROVE TypeOK'
  BY <1>26 DEF RetainOthers, Retain, removeUnchanged, AfterRemove, Removes
<1>27. ASSUME NEW l \in Listeners, EraseEntry(l) PROVE TypeOK'
  BY <1>27 DEF EraseEntry, Erase, removeUnchanged, AfterRemove
<1>28. ASSUME NEW l \in Listeners, UncountListener(l) PROVE TypeOK'
  BY <1>28 DEF UncountListener, CountDown, removeUnchanged, AfterRemove
<1>29. ASSUME NEW k \in Kicks, KickRequest(k) PROVE TypeOK'
  BY <1>29 DEF KickRequest, GoKick, kickUnchanged
<1>30. ASSUME NEW k \in Kicks, KickFind(k) PROVE TypeOK'
  <2>1. kicked' \in [Listeners -> BOOLEAN] /\ kickPc' \in [Kicks -> KickPcs]
    <3>1. CASE kickTarget[k] \in entries[kickMount[k]]
      <4>1. kicked' = [kicked EXCEPT ![kickTarget[k]] = TRUE]
            /\ kickPc' = [kickPc EXCEPT ![k] = "retain"]
        BY <1>30, <3>1 DEF KickFind, GoKick
      <4> QED
        BY <4>1
    <3>2. CASE kickTarget[k] \notin entries[kickMount[k]]
      BY <1>30, <3>2 DEF KickFind, GoKick
    <3> QED
      BY <3>1, <3>2
  <2>2. UNCHANGED <<srcVars, managerVars, taskVars, removed, kickMount, kickTarget,
                    statsVars>>
    BY <1>30 DEF KickFind, kickUnchanged
  <2> QED
    BY <2>1, <2>2
<1>31. ASSUME NEW k \in Kicks, KickRetain(k) PROVE TypeOK'
  BY <1>31 DEF KickRetain, GoKick, kickUnchanged, Retain, Removes
<1>32. ASSUME NEW k \in Kicks, KickErase(k) PROVE TypeOK'
  BY <1>32 DEF KickErase, GoKick, kickUnchanged, Erase
<1>33. ASSUME NEW k \in Kicks, KickUncount(k) PROVE TypeOK'
  BY <1>33 DEF KickUncount, GoKick, kickUnchanged, CountDown
<1>34. CASE UNCHANGED vars
  BY <1>34 DEF vars
<1> QED
  BY <1>1, <1>2, <1>3, <1>4, <1>5, <1>6, <1>7, <1>8, <1>9, <1>10, <1>11,
     <1>12, <1>13, <1>14, <1>15, <1>16, <1>17, <1>18, <1>19, <1>20, <1>21,
     <1>22, <1>23, <1>24, <1>25, <1>26, <1>27, <1>28, <1>29, <1>30, <1>31,
     <1>32, <1>33, <1>34
  DEF Next, ListenerStep, KickStep

LEMMA TaskInvStep ==
  ASSUME TypeOK, TaskInv, NoDeadEntry, [Next]_vars
  PROVE  TaskInv'
<1> USE DEF TypeOK, SourceTypeOK, SourcesTypeOK, TaskInv, PhaseOK, HoldsSource,
            HasTarget, LoopPcs, ResolvePcs, RemovePcs, Go, srcVars, taskVars,
            MountExists, NoDeadEntry
<1>1. ASSUME NEW c \in Conns, SourceMoves(c) PROVE TaskInv'
  BY <1>1, SrcMountFixed DEF SourceMoves
<1>2. ASSUME NEW c \in Conns, Feed(c) PROVE TaskInv'
  BY <1>2 DEF Feed
<1>3. ASSUME NEW l \in Listeners, Request(l) PROVE TaskInv'
  BY <1>3 DEF Request
<1>4. ASSUME NEW l \in Listeners, LookupFound(l) PROVE TaskInv'
  BY <1>4 DEF LookupFound
<1>5. ASSUME NEW l \in Listeners, LookupMissing(l) PROVE TaskInv'
  BY <1>5 DEF LookupMissing, NextHop
<1>6. ASSUME NEW l \in Listeners, Accept(l) PROVE TaskInv'
  BY <1>6 DEF Accept
<1>7. ASSUME NEW l \in Listeners, SpillOver(l) PROVE TaskInv'
  BY <1>7 DEF SpillOver, NextHop
<1>8. ASSUME NEW l \in Listeners, SendHeader(l) PROVE TaskInv'
  <2>1. UNCHANGED <<srcMount, phase, req, serving, next>>
    BY <1>8 DEF SendHeader
  <2>2. CASE Go(l, "join") /\ UNCHANGED src
    BY <1>8, <2>1, <2>2 DEF SendHeader
  <2>3. CASE Go(l, "gone") /\ src' = [src EXCEPT ![l] = NoConn]
    BY <2>1, <2>3
  <2> QED
    BY <1>8, <2>2, <2>3 DEF SendHeader
<1>9. ASSUME NEW l \in Listeners, Join(l) PROVE TaskInv'
  BY <1>9 DEF Join
<1>10. ASSUME NEW l \in Listeners, AddListener(l) PROVE TaskInv'
  BY <1>10 DEF AddListener, Push
<1>11. ASSUME NEW l \in Listeners, CountListener(l) PROVE TaskInv'
  BY <1>11 DEF CountListener, CountUp
<1>12. ASSUME NEW l \in Listeners, ObserveKick(l) PROVE TaskInv'
  BY <1>12 DEF ObserveKick, StartExit, loopUnchanged
<1>13. ASSUME NEW l \in Listeners, Drain(l) PROVE TaskInv'
  BY <1>13 DEF Drain, loopUnchanged
<1>14. ASSUME NEW l \in Listeners, WriteOk(l) PROVE TaskInv'
  BY <1>14 DEF WriteOk, loopUnchanged
<1>15. ASSUME NEW l \in Listeners, WriteFails(l) PROVE TaskInv'
  BY <1>15 DEF WriteFails, StartExit, loopUnchanged
<1>16. ASSUME NEW l \in Listeners, CaughtUp(l) PROVE TaskInv'
  BY <1>16 DEF CaughtUp, loopUnchanged
<1>17. ASSUME NEW l \in Listeners, SourceAlive(l) PROVE TaskInv'
  BY <1>17 DEF SourceAlive, loopUnchanged
<1>18. ASSUME NEW l \in Listeners, SourceGone(l) PROVE TaskInv'
  BY <1>18 DEF SourceGone, loopUnchanged
<1>19. ASSUME NEW l \in Listeners, MoveBack(l) PROVE TaskInv'
  BY <1>19 DEF MoveBack, StartMove, loopUnchanged, WantsBack
<1>20. ASSUME NEW l \in Listeners, StayOnFallback(l) PROVE TaskInv'
  BY <1>20 DEF StayOnFallback, loopUnchanged
<1>21. ASSUME NEW l \in Listeners, NoFallback(l) PROVE TaskInv'
  BY <1>21 DEF NoFallback, StartExit, loopUnchanged
<1>22. ASSUME NEW l \in Listeners, AwaitFallback(l) PROVE TaskInv'
  BY <1>22 DEF AwaitFallback, loopUnchanged
<1>23. ASSUME NEW l \in Listeners, FallbackFound(l) PROVE TaskInv'
  BY <1>23, FallbackIsMount DEF FallbackFound, StartMove, loopUnchanged
<1>24. ASSUME NEW l \in Listeners, FallbackExpired(l) PROVE TaskInv'
  BY <1>24 DEF FallbackExpired, StartExit, loopUnchanged
<1>25. ASSUME NEW l \in Listeners, Leave(l) PROVE TaskInv'
  BY <1>25 DEF Leave
<1>26. ASSUME NEW l \in Listeners, RetainOthers(l) PROVE TaskInv'
  BY <1>26 DEF RetainOthers, Retain, removeUnchanged, AfterRemove
<1>27. ASSUME NEW l \in Listeners, EraseEntry(l) PROVE TaskInv'
  BY <1>27 DEF EraseEntry, Erase, removeUnchanged, AfterRemove
<1>28. ASSUME NEW l \in Listeners, UncountListener(l) PROVE TaskInv'
  BY <1>28 DEF UncountListener, CountDown, removeUnchanged, AfterRemove
<1>29. ASSUME NEW k \in Kicks, KickRequest(k) PROVE TaskInv'
  BY <1>29 DEF KickRequest, GoKick, kickUnchanged
<1>30. ASSUME NEW k \in Kicks, KickFind(k) PROVE TaskInv'
  BY <1>30 DEF KickFind, GoKick, kickUnchanged
<1>31. ASSUME NEW k \in Kicks, KickRetain(k) PROVE TaskInv'
  BY <1>31 DEF KickRetain, GoKick, kickUnchanged, Retain
<1>32. ASSUME NEW k \in Kicks, KickErase(k) PROVE TaskInv'
  BY <1>32 DEF KickErase, GoKick, kickUnchanged, Erase
<1>33. ASSUME NEW k \in Kicks, KickUncount(k) PROVE TaskInv'
  BY <1>33 DEF KickUncount, GoKick, kickUnchanged, CountDown
<1>34. CASE UNCHANGED vars
  BY <1>34 DEF vars
<1> QED
  BY <1>1, <1>2, <1>3, <1>4, <1>5, <1>6, <1>7, <1>8, <1>9, <1>10, <1>11,
     <1>12, <1>13, <1>14, <1>15, <1>16, <1>17, <1>18, <1>19, <1>20, <1>21,
     <1>22, <1>23, <1>24, <1>25, <1>26, <1>27, <1>28, <1>29, <1>30, <1>31,
     <1>32, <1>33, <1>34
  DEF Next, ListenerStep, KickStep

\* The server stays within its types, and each listener task holds what its
\* step needs.
LEMMA TaskInvariant == Spec => [](TypeOK /\ TaskInv)
<1>1. Init /\ SourceTypeOK => TypeOK /\ TaskInv
  BY DEF Init, TypeOK, ManagerInit, ManagerTypeOK, Pcs, KickPcs, TaskInv, PhaseOK,
         HoldsSource, HasTarget, LoopPcs, ResolvePcs, RemovePcs
<1>2. TypeOK /\ TaskInv /\ NoDeadEntry /\ SourceTypeOK' /\ [Next]_vars
        => TypeOK' /\ TaskInv'
  BY TypeStep, TaskInvStep
<1> QED
  BY <1>1, <1>2, SourcesRefined, SourceTypeCorrect, NoDeadEntryHolds, PTL DEF Spec

\* The server stays within its types.
THEOREM TypeCorrect == Spec => []TypeOK
BY TaskInvariant, PTL

\* A listener is counted on the mount of the source it holds, and registered
\* under that same mount.
THEOREM ServingItsSourceHolds == Spec => []ServingItsSource
<1>1. TypeOK /\ TaskInv => ServingItsSource
  BY DEF TypeOK, TaskInv, PhaseOK, HoldsSource, ServingItsSource, Counted, LoopPcs,
         RemovePcs
<1> QED
  BY <1>1, TaskInvariant, PTL

-----------------------------------------------------------------------------
(* Fallback chains *)

LEMMA ChainSelf ==
  ASSUME NEW m \in Mounts
  PROVE  m \in Chain(m)
BY DEF Chain

LEMMA ChainStep ==
  ASSUME NEW m \in Mounts, NEW n \in Chain(m), HasFallback(n)
  PROVE  Fallback[n] \in Chain(m)
BY FallbackIsMount DEF Chain, FallbackClosed

LEMMA HopInChain ==
  ASSUME TypeOK, ServedFromChain, NEW l \in Listeners, NextHop(l)
  PROVE  ServedFromChain'
<1>1. req' = req
  BY DEF NextHop
<1>2. CASE HasFallback(serving[l]) /\ serving' = [serving EXCEPT ![l] = Fallback[serving[l]]]
  BY <1>1, <1>2, ChainStep DEF ServedFromChain, TypeOK
<1>3. CASE serving' = serving
  BY <1>1, <1>3 DEF ServedFromChain
<1> QED
  BY <1>2, <1>3 DEF NextHop

LEMMA ChainStepped ==
  ASSUME TypeOK, TaskInv, NoDeadEntry, ServedFromChain, [Next]_vars
  PROVE  ServedFromChain'
<1> USE DEF TypeOK, ServedFromChain, taskVars
<1>1. ASSUME NEW c \in Conns, SourceMoves(c) PROVE ServedFromChain'
  BY <1>1 DEF SourceMoves
<1>2. ASSUME NEW c \in Conns, Feed(c) PROVE ServedFromChain'
  BY <1>2 DEF Feed
<1>3. ASSUME NEW l \in Listeners, Request(l) PROVE ServedFromChain'
  BY <1>3 DEF Request
<1>4. ASSUME NEW l \in Listeners, LookupFound(l) PROVE ServedFromChain'
  BY <1>4 DEF LookupFound
<1>5. ASSUME NEW l \in Listeners, LookupMissing(l) PROVE ServedFromChain'
  BY <1>5, HopInChain DEF LookupMissing
<1>6. ASSUME NEW l \in Listeners, Accept(l) PROVE ServedFromChain'
  BY <1>6 DEF Accept
<1>7. ASSUME NEW l \in Listeners, SpillOver(l) PROVE ServedFromChain'
  BY <1>7, HopInChain DEF SpillOver
<1>8. ASSUME NEW l \in Listeners, SendHeader(l) PROVE ServedFromChain'
  BY <1>8 DEF SendHeader
<1>9. ASSUME NEW l \in Listeners, Join(l) PROVE ServedFromChain'
  BY <1>9 DEF Join
<1>10. ASSUME NEW l \in Listeners, AddListener(l) PROVE ServedFromChain'
  <2>1. CASE phase[l] = "move"
    <3>1. /\ serving' = [serving EXCEPT ![l] = srcMount[next[l]]]
          /\ req' = req
      BY <1>10, <2>1 DEF AddListener
    <3>2. \/ srcMount[next[l]] = req[l]
          \/ HasFallback(serving[l]) /\ srcMount[next[l]] = Fallback[serving[l]]
      BY <1>10, <2>1 DEF AddListener, TaskInv, HasTarget
    <3>3. srcMount[next[l]] \in Chain(req[l])
      BY <3>2, ChainSelf, ChainStep
    <3> QED
      BY <3>1, <3>3
  <2>2. CASE phase[l] # "move"
    BY <1>10, <2>2 DEF AddListener
  <2> QED
    BY <2>1, <2>2
<1>11. ASSUME NEW l \in Listeners, CountListener(l) PROVE ServedFromChain'
  BY <1>11 DEF CountListener, CountUp
<1>12. ASSUME NEW l \in Listeners, ObserveKick(l) PROVE ServedFromChain'
  BY <1>12 DEF ObserveKick, StartExit, loopUnchanged
<1>13. ASSUME NEW l \in Listeners, Drain(l) PROVE ServedFromChain'
  BY <1>13 DEF Drain, loopUnchanged
<1>14. ASSUME NEW l \in Listeners, WriteOk(l) PROVE ServedFromChain'
  BY <1>14 DEF WriteOk, loopUnchanged
<1>15. ASSUME NEW l \in Listeners, WriteFails(l) PROVE ServedFromChain'
  BY <1>15 DEF WriteFails, StartExit, loopUnchanged
<1>16. ASSUME NEW l \in Listeners, CaughtUp(l) PROVE ServedFromChain'
  BY <1>16 DEF CaughtUp, loopUnchanged
<1>17. ASSUME NEW l \in Listeners, SourceAlive(l) PROVE ServedFromChain'
  BY <1>17 DEF SourceAlive, loopUnchanged
<1>18. ASSUME NEW l \in Listeners, SourceGone(l) PROVE ServedFromChain'
  BY <1>18 DEF SourceGone, loopUnchanged
<1>19. ASSUME NEW l \in Listeners, MoveBack(l) PROVE ServedFromChain'
  BY <1>19 DEF MoveBack, StartMove, loopUnchanged
<1>20. ASSUME NEW l \in Listeners, StayOnFallback(l) PROVE ServedFromChain'
  BY <1>20 DEF StayOnFallback, loopUnchanged
<1>21. ASSUME NEW l \in Listeners, NoFallback(l) PROVE ServedFromChain'
  BY <1>21 DEF NoFallback, StartExit, loopUnchanged
<1>22. ASSUME NEW l \in Listeners, AwaitFallback(l) PROVE ServedFromChain'
  BY <1>22 DEF AwaitFallback, loopUnchanged
<1>23. ASSUME NEW l \in Listeners, FallbackFound(l) PROVE ServedFromChain'
  BY <1>23 DEF FallbackFound, StartMove, loopUnchanged
<1>24. ASSUME NEW l \in Listeners, FallbackExpired(l) PROVE ServedFromChain'
  BY <1>24 DEF FallbackExpired, StartExit, loopUnchanged
<1>25. ASSUME NEW l \in Listeners, Leave(l) PROVE ServedFromChain'
  BY <1>25 DEF Leave
<1>26. ASSUME NEW l \in Listeners, RetainOthers(l) PROVE ServedFromChain'
  BY <1>26 DEF RetainOthers, Retain, removeUnchanged, AfterRemove
<1>27. ASSUME NEW l \in Listeners, EraseEntry(l) PROVE ServedFromChain'
  BY <1>27 DEF EraseEntry, Erase, removeUnchanged, AfterRemove
<1>28. ASSUME NEW l \in Listeners, UncountListener(l) PROVE ServedFromChain'
  BY <1>28 DEF UncountListener, CountDown, removeUnchanged, AfterRemove
<1>29. ASSUME NEW k \in Kicks, KickRequest(k) PROVE ServedFromChain'
  BY <1>29 DEF KickRequest, GoKick, kickUnchanged
<1>30. ASSUME NEW k \in Kicks, KickFind(k) PROVE ServedFromChain'
  BY <1>30 DEF KickFind, GoKick, kickUnchanged
<1>31. ASSUME NEW k \in Kicks, KickRetain(k) PROVE ServedFromChain'
  BY <1>31 DEF KickRetain, GoKick, kickUnchanged, Retain
<1>32. ASSUME NEW k \in Kicks, KickErase(k) PROVE ServedFromChain'
  BY <1>32 DEF KickErase, GoKick, kickUnchanged, Erase
<1>33. ASSUME NEW k \in Kicks, KickUncount(k) PROVE ServedFromChain'
  BY <1>33 DEF KickUncount, GoKick, kickUnchanged, CountDown
<1>34. CASE UNCHANGED vars
  BY <1>34 DEF vars
<1> QED
  BY <1>1, <1>2, <1>3, <1>4, <1>5, <1>6, <1>7, <1>8, <1>9, <1>10, <1>11,
     <1>12, <1>13, <1>14, <1>15, <1>16, <1>17, <1>18, <1>19, <1>20, <1>21,
     <1>22, <1>23, <1>24, <1>25, <1>26, <1>27, <1>28, <1>29, <1>30, <1>31,
     <1>32, <1>33, <1>34
  DEF Next, ListenerStep, KickStep

\* However often a listener moves, it is served a mount that the fallback chain
\* of the mount it asked for leads to.
THEOREM ServedFromChainHolds == Spec => []ServedFromChain
<1>1. Init => ServedFromChain
  BY ChainSelf DEF Init, ServedFromChain
<1>2. TypeOK /\ TaskInv /\ NoDeadEntry /\ ServedFromChain /\ [Next]_vars
        => ServedFromChain'
  BY ChainStepped
<1> QED
  BY <1>1, <1>2, TaskInvariant, SourcesRefined, NoDeadEntryHolds, PTL DEF Spec

-----------------------------------------------------------------------------
(* The listener counts *)

\* A step that neither counts nor uncounts a listener.
CountsKept ==
  /\ UNCHANGED statsVars
  /\ \A k \in Listeners :
       /\ Counted(k)' = Counted(k)
       /\ Counted(k) => srcMount'[src'[k]] = srcMount[src[k]]

\* The counts change in listener_joined and listener_left and nowhere else.
LEMMA OnlyJoinAndLeaveCount ==
  ASSUME TypeOK, TaskInv, [Next]_vars
  PROVE  CountsKept \/ (\E l \in Listeners : Join(l) \/ Leave(l))
<1> DEFINE G == CountsKept \/ (\E l \in Listeners : Join(l) \/ Leave(l))
<1> USE DEF CountsKept, Counted, TypeOK, TaskInv, PhaseOK, LoopPcs, ResolvePcs,
            RemovePcs, Go, srcVars, taskVars, statsVars
<1>1. ASSUME NEW c \in Conns, SourceMoves(c) PROVE G
  BY <1>1, SrcMountFixed DEF SourceMoves
<1>2. ASSUME NEW c \in Conns, Feed(c) PROVE G
  BY <1>2 DEF Feed
<1>3. ASSUME NEW l \in Listeners, Request(l) PROVE G
  BY <1>3 DEF Request
<1>4. ASSUME NEW l \in Listeners, LookupFound(l) PROVE G
  BY <1>4 DEF LookupFound
<1>5. ASSUME NEW l \in Listeners, LookupMissing(l) PROVE G
  BY <1>5 DEF LookupMissing, NextHop
<1>6. ASSUME NEW l \in Listeners, Accept(l) PROVE G
  BY <1>6 DEF Accept
<1>7. ASSUME NEW l \in Listeners, SpillOver(l) PROVE G
  BY <1>7 DEF SpillOver, NextHop
<1>8. ASSUME NEW l \in Listeners, SendHeader(l) PROVE G
  BY <1>8 DEF SendHeader
<1>9. ASSUME NEW l \in Listeners, Join(l) PROVE G
  BY <1>9
<1>10. ASSUME NEW l \in Listeners, AddListener(l) PROVE G
  BY <1>10 DEF AddListener, Push
<1>11. ASSUME NEW l \in Listeners, CountListener(l) PROVE G
  BY <1>11 DEF CountListener, CountUp
<1>12. ASSUME NEW l \in Listeners, ObserveKick(l) PROVE G
  BY <1>12 DEF ObserveKick, StartExit, loopUnchanged
<1>13. ASSUME NEW l \in Listeners, Drain(l) PROVE G
  BY <1>13 DEF Drain, loopUnchanged
<1>14. ASSUME NEW l \in Listeners, WriteOk(l) PROVE G
  BY <1>14 DEF WriteOk, loopUnchanged
<1>15. ASSUME NEW l \in Listeners, WriteFails(l) PROVE G
  BY <1>15 DEF WriteFails, StartExit, loopUnchanged
<1>16. ASSUME NEW l \in Listeners, CaughtUp(l) PROVE G
  BY <1>16 DEF CaughtUp, loopUnchanged
<1>17. ASSUME NEW l \in Listeners, SourceAlive(l) PROVE G
  BY <1>17 DEF SourceAlive, loopUnchanged
<1>18. ASSUME NEW l \in Listeners, SourceGone(l) PROVE G
  BY <1>18 DEF SourceGone, loopUnchanged
<1>19. ASSUME NEW l \in Listeners, MoveBack(l) PROVE G
  BY <1>19 DEF MoveBack, StartMove, loopUnchanged
<1>20. ASSUME NEW l \in Listeners, StayOnFallback(l) PROVE G
  BY <1>20 DEF StayOnFallback, loopUnchanged
<1>21. ASSUME NEW l \in Listeners, NoFallback(l) PROVE G
  BY <1>21 DEF NoFallback, StartExit, loopUnchanged
<1>22. ASSUME NEW l \in Listeners, AwaitFallback(l) PROVE G
  BY <1>22 DEF AwaitFallback, loopUnchanged
<1>23. ASSUME NEW l \in Listeners, FallbackFound(l) PROVE G
  BY <1>23 DEF FallbackFound, StartMove, loopUnchanged
<1>24. ASSUME NEW l \in Listeners, FallbackExpired(l) PROVE G
  BY <1>24 DEF FallbackExpired, StartExit, loopUnchanged
<1>25. ASSUME NEW l \in Listeners, Leave(l) PROVE G
  BY <1>25
<1>26. ASSUME NEW l \in Listeners, RetainOthers(l) PROVE G
  BY <1>26 DEF RetainOthers, Retain, removeUnchanged, AfterRemove
<1>27. ASSUME NEW l \in Listeners, EraseEntry(l) PROVE G
  BY <1>27 DEF EraseEntry, Erase, removeUnchanged, AfterRemove
<1>28. ASSUME NEW l \in Listeners, UncountListener(l) PROVE G
  BY <1>28 DEF UncountListener, CountDown, removeUnchanged, AfterRemove
<1>29. ASSUME NEW k \in Kicks, KickRequest(k) PROVE G
  BY <1>29 DEF KickRequest, GoKick, kickUnchanged
<1>30. ASSUME NEW k \in Kicks, KickFind(k) PROVE G
  BY <1>30 DEF KickFind, GoKick, kickUnchanged
<1>31. ASSUME NEW k \in Kicks, KickRetain(k) PROVE G
  BY <1>31 DEF KickRetain, GoKick, kickUnchanged, Retain
<1>32. ASSUME NEW k \in Kicks, KickErase(k) PROVE G
  BY <1>32 DEF KickErase, GoKick, kickUnchanged, Erase
<1>33. ASSUME NEW k \in Kicks, KickUncount(k) PROVE G
  BY <1>33 DEF KickUncount, GoKick, kickUnchanged, CountDown
<1>34. CASE UNCHANGED vars
  BY <1>34 DEF vars
<1> QED
  BY <1>1, <1>2, <1>3, <1>4, <1>5, <1>6, <1>7, <1>8, <1>9, <1>10, <1>11,
     <1>12, <1>13, <1>14, <1>15, <1>16, <1>17, <1>18, <1>19, <1>20, <1>21,
     <1>22, <1>23, <1>24, <1>25, <1>26, <1>27, <1>28, <1>29, <1>30, <1>31,
     <1>32, <1>33, <1>34
  DEF Next, ListenerStep, KickStep

LEMMA SameCounts ==
  ASSUME StatsExact, CountsKept
  PROVE  StatsExact'
<1>1. AllCounted' = AllCounted
  BY DEF CountsKept, AllCounted
<1>2. \A m \in Mounts : CountedOn(m)' = CountedOn(m)
  BY <1>1 DEF CountsKept, CountedOn, AllCounted
<1> QED
  BY <1>1, <1>2 DEF StatsExact, CountsKept, statsVars

\* listener_joined counts a listener that was not counted.
LEMMA JoinCounts ==
  ASSUME TypeOK, TaskInv, StatsExact, NEW l \in Listeners, Join(l)
  PROVE  StatsExact'
<1>1. PICK M \in Mounts : M = srcMount[src[l]]
  BY DEF Join, TaskInv, HoldsSource, TypeOK
<1>2. ~Counted(l) /\ Counted(l)'
  BY DEF Join, Counted, TaskInv, PhaseOK, TypeOK, Go, LoopPcs, RemovePcs
<1>3. \A k \in Listeners \ {l} : Counted(k)' = Counted(k)
  BY DEF Join, Counted, TypeOK, Go
<1>4. AllCounted' = AllCounted \cup {l} /\ l \notin AllCounted
  BY <1>2, <1>3 DEF AllCounted
<1>5. UNCHANGED <<src, srcMount>>
  BY DEF Join, srcVars
<1>6. CountedOn(M)' = CountedOn(M) \cup {l} /\ l \notin CountedOn(M)
  BY <1>1, <1>4, <1>5 DEF CountedOn
<1>7. \A m \in Mounts \ {M} : CountedOn(m)' = CountedOn(m)
  BY <1>1, <1>4, <1>5 DEF CountedOn
<1>8. IsFiniteSet(AllCounted) /\ IsFiniteSet(CountedOn(M))
  BY FS_Subset DEF AllCounted, CountedOn
<1>9. /\ Cardinality(AllCounted') = Cardinality(AllCounted) + 1
      /\ Cardinality(CountedOn(M)') = Cardinality(CountedOn(M)) + 1
  BY <1>4, <1>6, <1>8, FS_AddElement
<1>10. /\ mountCount' = [mountCount EXCEPT ![M] = @ + 1]
       /\ globalCount' = globalCount + 1
  BY <1>1 DEF Join
<1>11. \A m \in Mounts : mountCount'[m] = Cardinality(CountedOn(m)')
  BY <1>7, <1>9, <1>10 DEF StatsExact, TypeOK
<1> QED
  BY <1>9, <1>10, <1>11 DEF StatsExact

\* listener_left uncounts a listener that was counted: the saturating
\* subtraction never saturates.
LEMMA LeaveUncounts ==
  ASSUME TypeOK, TaskInv, StatsExact, NEW l \in Listeners, Leave(l)
  PROVE  StatsExact'
<1>1. PICK M \in Mounts : M = srcMount[src[l]]
  BY DEF Leave, TaskInv, HoldsSource, TypeOK
<1>2. Counted(l) /\ ~Counted(l)'
  <2>1. Counted(l)
    BY DEF Leave, Counted
  <2>2. pc'[l] \in {"retain", "gone"} /\ (pc'[l] = "retain" => phase'[l] = "move")
    BY DEF Leave, TypeOK, Go
  <2> QED
    BY <2>1, <2>2 DEF Counted, LoopPcs, RemovePcs
<1>3. \A k \in Listeners \ {l} : /\ Counted(k)' = Counted(k)
                                 /\ srcMount'[src'[k]] = srcMount[src[k]]
  BY DEF Leave, Counted, TypeOK, Go, srcVars
<1>4. AllCounted' = AllCounted \ {l} /\ l \in AllCounted
  BY <1>2, <1>3 DEF AllCounted
<1>5. \A m \in Mounts : CountedOn(m)' = CountedOn(m) \ {l}
  BY <1>3, <1>4 DEF CountedOn, AllCounted
<1>6. l \in CountedOn(M) /\ \A m \in Mounts \ {M} : CountedOn(m)' = CountedOn(m)
  BY <1>1, <1>4, <1>5 DEF CountedOn
<1>7. IsFiniteSet(AllCounted) /\ IsFiniteSet(CountedOn(M))
  BY FS_Subset DEF AllCounted, CountedOn
<1>8. /\ Cardinality(AllCounted') = Cardinality(AllCounted) - 1
      /\ Cardinality(CountedOn(M)') = Cardinality(CountedOn(M)) - 1
  <2>1. Cardinality(AllCounted \ {l}) = Cardinality(AllCounted) - 1
    BY <1>4, <1>7, FS_RemoveElement
  <2>2. Cardinality(CountedOn(M) \ {l}) = Cardinality(CountedOn(M)) - 1
    BY <1>6, <1>7, FS_RemoveElement
  <2> QED
    BY <1>4, <1>5, <2>1, <2>2
<1>9. mountCount[M] # 0
  BY <1>1, <1>6, <1>7, FS_EmptySet DEF StatsExact
<1>10. /\ mountCount' = [mountCount EXCEPT ![M] = IF @ = 0 THEN 0 ELSE @ - 1]
       /\ globalCount' = globalCount - 1
  BY <1>1 DEF Leave
<1>11. \A m \in Mounts : mountCount'[m] = Cardinality(CountedOn(m)')
  BY <1>6, <1>8, <1>9, <1>10 DEF StatsExact, TypeOK
<1> QED
  BY <1>8, <1>10, <1>11 DEF StatsExact

\* The listener counts of every mount and of the server are exact in every
\* state, whatever failovers, moves back, kicks and failed writes happened.
THEOREM StatsExactHolds == Spec => []StatsExact
<1>1. Init => StatsExact
  <2> SUFFICES ASSUME Init PROVE StatsExact
    OBVIOUS
  <2>1. AllCounted = {} /\ \A m \in Mounts : CountedOn(m) = {}
    BY DEF Init, AllCounted, CountedOn, Counted, LoopPcs, RemovePcs
  <2> QED
    BY <2>1, FS_EmptySet DEF Init, StatsExact
<1>2. TypeOK /\ TaskInv /\ StatsExact /\ [Next]_vars => StatsExact'
  BY OnlyJoinAndLeaveCount, SameCounts, JoinCounts, LeaveUncounts
<1> QED
  BY <1>1, <1>2, TaskInvariant, PTL DEF Spec

-----------------------------------------------------------------------------
(* The listener manager *)

LEMMA HopLeavesManager ==
  ASSUME TypeOK, NoStaleListener, NEW l \in Listeners, pc[l] \in ResolvePcs, NextHop(l)
  PROVE  NoStaleListener'
<1>1. \A m \in Mounts : l \notin entries[m]
  BY DEF NoStaleListener, ResolvePcs, LoopPcs
<1>2. \A k \in Listeners \ {l} : serving'[k] = serving[k] /\ pc'[k] = pc[k]
  BY DEF NextHop, Go, TypeOK
<1>3. UNCHANGED <<entries, phase>>
  BY DEF NextHop, managerVars
<1> QED
  BY <1>1, <1>2, <1>3 DEF NoStaleListener, TypeOK, ManagerTypeOK

LEMMA NoStaleStep ==
  ASSUME TypeOK, TaskInv, NoStaleListener, [Next]_vars
  PROVE  NoStaleListener'
<1> USE DEF NoStaleListener, TypeOK, ManagerTypeOK, TaskInv, PhaseOK, LoopPcs,
            ResolvePcs, RemovePcs, Go, managerVars, taskVars
<1>1. ASSUME NEW c \in Conns, SourceMoves(c) PROVE NoStaleListener'
  BY <1>1 DEF SourceMoves
<1>2. ASSUME NEW c \in Conns, Feed(c) PROVE NoStaleListener'
  BY <1>2 DEF Feed
<1>3. ASSUME NEW l \in Listeners, Request(l) PROVE NoStaleListener'
  BY <1>3 DEF Request
<1>4. ASSUME NEW l \in Listeners, LookupFound(l) PROVE NoStaleListener'
  BY <1>4 DEF LookupFound
<1>5. ASSUME NEW l \in Listeners, LookupMissing(l) PROVE NoStaleListener'
  BY <1>5, HopLeavesManager DEF LookupMissing
<1>6. ASSUME NEW l \in Listeners, Accept(l) PROVE NoStaleListener'
  BY <1>6 DEF Accept
<1>7. ASSUME NEW l \in Listeners, SpillOver(l) PROVE NoStaleListener'
  BY <1>7, HopLeavesManager DEF SpillOver
<1>8. ASSUME NEW l \in Listeners, SendHeader(l) PROVE NoStaleListener'
  BY <1>8 DEF SendHeader
<1>9. ASSUME NEW l \in Listeners, Join(l) PROVE NoStaleListener'
  BY <1>9 DEF Join
<1>10. ASSUME NEW l \in Listeners, AddListener(l) PROVE NoStaleListener'
  BY <1>10 DEF AddListener, Push
<1>11. ASSUME NEW l \in Listeners, CountListener(l) PROVE NoStaleListener'
  BY <1>11 DEF CountListener, CountUp
<1>12. ASSUME NEW l \in Listeners, ObserveKick(l) PROVE NoStaleListener'
  BY <1>12 DEF ObserveKick, StartExit, loopUnchanged
<1>13. ASSUME NEW l \in Listeners, Drain(l) PROVE NoStaleListener'
  BY <1>13 DEF Drain, loopUnchanged
<1>14. ASSUME NEW l \in Listeners, WriteOk(l) PROVE NoStaleListener'
  BY <1>14 DEF WriteOk, loopUnchanged
<1>15. ASSUME NEW l \in Listeners, WriteFails(l) PROVE NoStaleListener'
  BY <1>15 DEF WriteFails, StartExit, loopUnchanged
<1>16. ASSUME NEW l \in Listeners, CaughtUp(l) PROVE NoStaleListener'
  BY <1>16 DEF CaughtUp, loopUnchanged
<1>17. ASSUME NEW l \in Listeners, SourceAlive(l) PROVE NoStaleListener'
  BY <1>17 DEF SourceAlive, loopUnchanged
<1>18. ASSUME NEW l \in Listeners, SourceGone(l) PROVE NoStaleListener'
  BY <1>18 DEF SourceGone, loopUnchanged
<1>19. ASSUME NEW l \in Listeners, MoveBack(l) PROVE NoStaleListener'
  BY <1>19 DEF MoveBack, StartMove, loopUnchanged
<1>20. ASSUME NEW l \in Listeners, StayOnFallback(l) PROVE NoStaleListener'
  BY <1>20 DEF StayOnFallback, loopUnchanged
<1>21. ASSUME NEW l \in Listeners, NoFallback(l) PROVE NoStaleListener'
  BY <1>21 DEF NoFallback, StartExit, loopUnchanged
<1>22. ASSUME NEW l \in Listeners, AwaitFallback(l) PROVE NoStaleListener'
  BY <1>22 DEF AwaitFallback, loopUnchanged
<1>23. ASSUME NEW l \in Listeners, FallbackFound(l) PROVE NoStaleListener'
  BY <1>23 DEF FallbackFound, StartMove, loopUnchanged
<1>24. ASSUME NEW l \in Listeners, FallbackExpired(l) PROVE NoStaleListener'
  BY <1>24 DEF FallbackExpired, StartExit, loopUnchanged
<1>25. ASSUME NEW l \in Listeners, Leave(l) PROVE NoStaleListener'
  BY <1>25 DEF Leave
<1>26. ASSUME NEW l \in Listeners, RetainOthers(l) PROVE NoStaleListener'
  BY <1>26 DEF RetainOthers, Retain, removeUnchanged, AfterRemove
<1>27. ASSUME NEW l \in Listeners, EraseEntry(l) PROVE NoStaleListener'
  BY <1>27 DEF EraseEntry, Erase, removeUnchanged, AfterRemove
<1>28. ASSUME NEW l \in Listeners, UncountListener(l) PROVE NoStaleListener'
  BY <1>28 DEF UncountListener, CountDown, removeUnchanged, AfterRemove
<1>29. ASSUME NEW k \in Kicks, KickRequest(k) PROVE NoStaleListener'
  BY <1>29 DEF KickRequest, GoKick, kickUnchanged
<1>30. ASSUME NEW k \in Kicks, KickFind(k) PROVE NoStaleListener'
  BY <1>30 DEF KickFind, GoKick, kickUnchanged
<1>31. ASSUME NEW k \in Kicks, KickRetain(k) PROVE NoStaleListener'
  BY <1>31 DEF KickRetain, GoKick, kickUnchanged, Retain
<1>32. ASSUME NEW k \in Kicks, KickErase(k) PROVE NoStaleListener'
  BY <1>32 DEF KickErase, GoKick, kickUnchanged, Erase
<1>33. ASSUME NEW k \in Kicks, KickUncount(k) PROVE NoStaleListener'
  BY <1>33 DEF KickUncount, GoKick, kickUnchanged, CountDown
<1>34. CASE UNCHANGED vars
  BY <1>34 DEF vars
<1> QED
  BY <1>1, <1>2, <1>3, <1>4, <1>5, <1>6, <1>7, <1>8, <1>9, <1>10, <1>11,
     <1>12, <1>13, <1>14, <1>15, <1>16, <1>17, <1>18, <1>19, <1>20, <1>21,
     <1>22, <1>23, <1>24, <1>25, <1>26, <1>27, <1>28, <1>29, <1>30, <1>31,
     <1>32, <1>33, <1>34
  DEF Next, ListenerStep, KickStep

\* The manager never holds a listener under a mount it is not served from, nor a
\* listener that left: kicks and removals by key hit what they mean.
THEOREM NoStaleListenerHolds == Spec => []NoStaleListener
<1>1. Init => NoStaleListener
  BY DEF Init, ManagerInit, NoStaleListener
<1>2. TypeOK /\ TaskInv /\ NoStaleListener /\ [Next]_vars => NoStaleListener'
  BY NoStaleStep
<1> QED
  BY <1>1, <1>2, TaskInvariant, PTL DEF Spec

-----------------------------------------------------------------------------
(* The total of the listener manager *)

\* Where a call of add_listener or remove_listener is half way.
HalfWay == {"count", "erase", "uncount"}

\* A call that removed somebody has yet to count it down, and no other does.
RemovedOK(t, at) ==
  /\ removed[t] => at \in {"erase", "uncount"}
  /\ at = "uncount" => removed[t]

RemovalsOK ==
  /\ \A l \in Listeners : RemovedOK(l, pc[l])
  /\ \A k \in Kicks : RemovedOK(k, kickPc[k])

\* Nothing is assumed of how many kick requests there are; those that have
\* something left to count down are finitely many.
TotalInv == RemovalsOK /\ IsFiniteSet(Removing) /\ NeverUndercounts

\* A step outside the two calls.
ManagerQuiet ==
  /\ UNCHANGED <<entries, total, removed>>
  /\ \A l \in Listeners : pc'[l] = pc[l] \/ {pc[l], pc'[l]} \cap HalfWay = {}
  /\ \A k \in Kicks : kickPc'[k] = kickPc[k] \/ {kickPc[k], kickPc'[k]} \cap HalfWay = {}

\* The accesses of the two calls to the manager.
ListenerCall(l) ==
  \/ AddListener(l) \/ CountListener(l)
  \/ RetainOthers(l) \/ EraseEntry(l) \/ UncountListener(l)
KickCall(k) == KickRetain(k) \/ KickErase(k) \/ KickUncount(k)

\* The manager changes in add_listener and remove_listener and nowhere else.
LEMMA OnlyCallsCount ==
  ASSUME TypeOK, TaskInv, [Next]_vars
  PROVE  \/ ManagerQuiet
         \/ \E l \in Listeners : ListenerCall(l)
         \/ \E k \in Kicks : KickCall(k)
<1> DEFINE G == \/ ManagerQuiet
                \/ \E l \in Listeners : ListenerCall(l)
                \/ \E k \in Kicks : KickCall(k)
<1> USE DEF ManagerQuiet, HalfWay, TypeOK, TaskInv, PhaseOK, LoopPcs, ResolvePcs,
            RemovePcs, Go, managerVars, taskVars, kickVars
<1>1. ASSUME NEW c \in Conns, SourceMoves(c) PROVE G
  BY <1>1 DEF SourceMoves
<1>2. ASSUME NEW c \in Conns, Feed(c) PROVE G
  BY <1>2 DEF Feed
<1>3. ASSUME NEW l \in Listeners, Request(l) PROVE G
  BY <1>3 DEF Request
<1>4. ASSUME NEW l \in Listeners, LookupFound(l) PROVE G
  BY <1>4 DEF LookupFound
<1>5. ASSUME NEW l \in Listeners, LookupMissing(l) PROVE G
  BY <1>5 DEF LookupMissing, NextHop
<1>6. ASSUME NEW l \in Listeners, Accept(l) PROVE G
  BY <1>6 DEF Accept
<1>7. ASSUME NEW l \in Listeners, SpillOver(l) PROVE G
  BY <1>7 DEF SpillOver, NextHop
<1>8. ASSUME NEW l \in Listeners, SendHeader(l) PROVE G
  BY <1>8 DEF SendHeader
<1>9. ASSUME NEW l \in Listeners, Join(l) PROVE G
  BY <1>9 DEF Join
<1>10. ASSUME NEW l \in Listeners, AddListener(l) PROVE G
  BY <1>10 DEF ListenerCall
<1>11. ASSUME NEW l \in Listeners, CountListener(l) PROVE G
  BY <1>11 DEF ListenerCall
<1>12. ASSUME NEW l \in Listeners, ObserveKick(l) PROVE G
  BY <1>12 DEF ObserveKick, StartExit, loopUnchanged
<1>13. ASSUME NEW l \in Listeners, Drain(l) PROVE G
  BY <1>13 DEF Drain, loopUnchanged
<1>14. ASSUME NEW l \in Listeners, WriteOk(l) PROVE G
  BY <1>14 DEF WriteOk, loopUnchanged
<1>15. ASSUME NEW l \in Listeners, WriteFails(l) PROVE G
  BY <1>15 DEF WriteFails, StartExit, loopUnchanged
<1>16. ASSUME NEW l \in Listeners, CaughtUp(l) PROVE G
  BY <1>16 DEF CaughtUp, loopUnchanged
<1>17. ASSUME NEW l \in Listeners, SourceAlive(l) PROVE G
  BY <1>17 DEF SourceAlive, loopUnchanged
<1>18. ASSUME NEW l \in Listeners, SourceGone(l) PROVE G
  BY <1>18 DEF SourceGone, loopUnchanged
<1>19. ASSUME NEW l \in Listeners, MoveBack(l) PROVE G
  BY <1>19 DEF MoveBack, StartMove, loopUnchanged
<1>20. ASSUME NEW l \in Listeners, StayOnFallback(l) PROVE G
  BY <1>20 DEF StayOnFallback, loopUnchanged
<1>21. ASSUME NEW l \in Listeners, NoFallback(l) PROVE G
  BY <1>21 DEF NoFallback, StartExit, loopUnchanged
<1>22. ASSUME NEW l \in Listeners, AwaitFallback(l) PROVE G
  BY <1>22 DEF AwaitFallback, loopUnchanged
<1>23. ASSUME NEW l \in Listeners, FallbackFound(l) PROVE G
  BY <1>23 DEF FallbackFound, StartMove, loopUnchanged
<1>24. ASSUME NEW l \in Listeners, FallbackExpired(l) PROVE G
  BY <1>24 DEF FallbackExpired, StartExit, loopUnchanged
<1>25. ASSUME NEW l \in Listeners, Leave(l) PROVE G
  BY <1>25 DEF Leave
<1>26. ASSUME NEW l \in Listeners, RetainOthers(l) PROVE G
  BY <1>26 DEF ListenerCall
<1>27. ASSUME NEW l \in Listeners, EraseEntry(l) PROVE G
  BY <1>27 DEF ListenerCall
<1>28. ASSUME NEW l \in Listeners, UncountListener(l) PROVE G
  BY <1>28 DEF ListenerCall
<1>29. ASSUME NEW k \in Kicks, KickRequest(k) PROVE G
  BY <1>29 DEF KickRequest, GoKick, kickUnchanged
<1>30. ASSUME NEW k \in Kicks, KickFind(k) PROVE G
  BY <1>30 DEF KickFind, GoKick, kickUnchanged
<1>31. ASSUME NEW k \in Kicks, KickRetain(k) PROVE G
  BY <1>31 DEF KickCall
<1>32. ASSUME NEW k \in Kicks, KickErase(k) PROVE G
  BY <1>32 DEF KickCall
<1>33. ASSUME NEW k \in Kicks, KickUncount(k) PROVE G
  BY <1>33 DEF KickCall
<1>34. CASE UNCHANGED vars
  BY <1>34 DEF vars
<1> QED
  BY <1>1, <1>2, <1>3, <1>4, <1>5, <1>6, <1>7, <1>8, <1>9, <1>10, <1>11,
     <1>12, <1>13, <1>14, <1>15, <1>16, <1>17, <1>18, <1>19, <1>20, <1>21,
     <1>22, <1>23, <1>24, <1>25, <1>26, <1>27, <1>28, <1>29, <1>30, <1>31,
     <1>32, <1>33, <1>34
  DEF Next, ListenerStep, KickStep

LEMMA TotalFinite ==
  /\ IsFiniteSet(Held) /\ Cardinality(Held) \in Nat
  /\ IsFiniteSet(Adding) /\ Cardinality(Adding) \in Nat
BY FS_Subset, FS_CardinalityType DEF Held, Adding

LEMMA QuietTotal ==
  ASSUME TypeOK, TotalInv, ManagerQuiet
  PROVE  TotalInv'
<1>1. Held' = Held /\ Removing' = Removing /\ total' = total
  BY DEF ManagerQuiet, Held, Removing
<1>2. Adding' = Adding
  BY DEF ManagerQuiet, HalfWay, Adding
<1>3. RemovalsOK'
  BY DEF ManagerQuiet, HalfWay, TotalInv, RemovalsOK, RemovedOK
<1> QED
  BY <1>1, <1>2, <1>3 DEF TotalInv, NeverUndercounts

\* The push comes before the fetch_add: one more held, one more half way.
LEMMA AddTotal ==
  ASSUME TypeOK, TotalInv, NEW l \in Listeners, AddListener(l)
  PROVE  TotalInv'
<1>1. Held' \subseteq Held \cup {l}
  BY DEF AddListener, Push, Held, TypeOK, ManagerTypeOK
<1>2. Adding' = Adding \cup {l} /\ l \notin Adding
  BY DEF AddListener, Adding, Go, TypeOK
<1>3. Removing' = Removing /\ total' = total
  BY DEF AddListener, Removing
<1>4. Cardinality(Held') <= Cardinality(Held) + 1
  <2>1. IsFiniteSet(Held \cup {l}) /\ Cardinality(Held \cup {l}) <= Cardinality(Held) + 1
    <3>1. /\ IsFiniteSet(Held \cup {l})
          /\ \/ Cardinality(Held \cup {l}) = Cardinality(Held)
             \/ Cardinality(Held \cup {l}) = Cardinality(Held) + 1
      BY TotalFinite, FS_AddElement
    <3> QED
      BY <3>1, TotalFinite
  <2>2. Cardinality(Held') <= Cardinality(Held \cup {l}) /\ Cardinality(Held') \in Nat
    BY <1>1, <2>1, FS_Subset, FS_CardinalityType
  <2>3. Cardinality(Held \cup {l}) \in Nat
    BY <2>1, FS_CardinalityType
  <2> QED
    BY <2>1, <2>2, <2>3, TotalFinite
<1>5. Cardinality(Adding') = Cardinality(Adding) + 1
  BY <1>2, TotalFinite, FS_AddElement
<1>6. Cardinality(Held') \in Nat
  <2>1. IsFiniteSet(Held \cup {l})
    BY TotalFinite, FS_AddElement
  <2> QED
    BY <1>1, <2>1, FS_Subset, FS_CardinalityType
<1>7. Cardinality(Removing) \in Nat /\ total \in Int
  BY FS_CardinalityType DEF TotalInv, TypeOK, ManagerTypeOK
<1>8. NeverUndercounts'
  BY <1>3, <1>4, <1>5, <1>6, <1>7, TotalFinite DEF TotalInv, NeverUndercounts
<1>9. RemovalsOK'
  BY DEF AddListener, Go, TotalInv, RemovalsOK, RemovedOK, TypeOK, kickVars
<1> QED
  BY <1>3, <1>8, <1>9 DEF TotalInv

LEMMA CountTotal ==
  ASSUME TypeOK, TotalInv, NEW l \in Listeners, CountListener(l)
  PROVE  TotalInv'
<1>1. Held' = Held /\ Removing' = Removing /\ total' = total + 1
  BY DEF CountListener, CountUp, Held, Removing
<1>2. Adding' = Adding \ {l} /\ l \in Adding
  BY DEF CountListener, Adding, Go, TypeOK
<1>3. Cardinality(Adding') = Cardinality(Adding) - 1
  BY <1>2, TotalFinite, FS_RemoveElement
<1>4. Cardinality(Removing) \in Nat /\ total \in Int
  BY FS_CardinalityType DEF TotalInv, TypeOK, ManagerTypeOK
<1>5. NeverUndercounts'
  BY <1>1, <1>3, <1>4, TotalFinite DEF TotalInv, NeverUndercounts
<1>6. RemovalsOK'
  BY DEF CountListener, Go, TotalInv, RemovalsOK, RemovedOK, TypeOK, kickVars
<1> QED
  BY <1>1, <1>5, <1>6 DEF TotalInv

\* What retain takes away goes over to the call that took it.
LEMMA TakenOver ==
  ASSUME TypeOK, NoStaleListener, TotalInv, NEW l \in Listeners, NEW m \in Mounts,
         NEW t \in Listeners \cup Kicks, ~removed[t], Retain(m, l),
         removed' = [removed EXCEPT ![t] = Removes(m, l)],
         UNCHANGED total, Adding' = Adding
  PROVE  IsFiniteSet(Removing)' /\ NeverUndercounts'
<1>1. Cardinality(Removing) \in Nat /\ total \in Int
  BY FS_CardinalityType DEF TotalInv, TypeOK, ManagerTypeOK
<1>2. CASE Removes(m, l)
  <2>1. \A n \in Mounts \ {m} : l \notin entries[n]
    BY <1>2 DEF NoStaleListener, Removes
  <2>2. Held' = Held \ {l} /\ l \in Held
    BY <1>2, <2>1 DEF Retain, Removes, Held, TypeOK, ManagerTypeOK
  <2>3. Removing' = Removing \cup {t} /\ t \notin Removing
    BY <1>2 DEF Removing, TypeOK
  <2>4. Cardinality(Held') = Cardinality(Held) - 1
    BY <2>2, TotalFinite, FS_RemoveElement
  <2>5. IsFiniteSet(Removing') /\ Cardinality(Removing') = Cardinality(Removing) + 1
    BY <2>3, FS_AddElement DEF TotalInv
  <2> QED
    BY <1>1, <2>4, <2>5, TotalFinite DEF TotalInv, NeverUndercounts
<1>3. CASE ~Removes(m, l)
  <2>1. Held' = Held
    BY <1>3 DEF Retain, Removes, Held, TypeOK, ManagerTypeOK
  <2>2. Removing' = Removing
    BY <1>3 DEF Removing, TypeOK
  <2> QED
    BY <2>1, <2>2 DEF TotalInv, NeverUndercounts
<1> QED
  BY <1>2, <1>3

\* The erase of an entry takes away whoever is in it by then.
LEMMA ErasedTotal ==
  ASSUME TypeOK, TotalInv, NEW m \in Mounts, Erase(m), UNCHANGED <<total, removed>>,
         Adding' = Adding
  PROVE  IsFiniteSet(Removing)' /\ NeverUndercounts'
<1>1. Held' \subseteq Held /\ Removing' = Removing
  BY DEF Erase, Held, Removing, TypeOK, ManagerTypeOK
<1>2. Cardinality(Held') <= Cardinality(Held) /\ Cardinality(Held') \in Nat
  BY <1>1, TotalFinite, FS_Subset, FS_CardinalityType
<1>3. Cardinality(Removing) \in Nat /\ total \in Int
  BY FS_CardinalityType DEF TotalInv, TypeOK, ManagerTypeOK
<1> QED
  BY <1>1, <1>2, <1>3, TotalFinite DEF TotalInv, NeverUndercounts

LEMMA UncountedTotal ==
  ASSUME TypeOK, TotalInv, NEW t \in Listeners \cup Kicks, removed[t], CountDown,
         removed' = [removed EXCEPT ![t] = FALSE], UNCHANGED entries,
         Adding' = Adding
  PROVE  IsFiniteSet(Removing)' /\ NeverUndercounts'
<1>1. Held' = Held /\ total' = total - 1
  BY DEF Held, CountDown
<1>2. Removing' = Removing \ {t} /\ t \in Removing
  BY DEF Removing, TypeOK
<1>3. IsFiniteSet(Removing') /\ Cardinality(Removing') = Cardinality(Removing) - 1
  BY <1>2, FS_RemoveElement DEF TotalInv
<1>4. Cardinality(Removing) \in Nat /\ total \in Int
  BY FS_CardinalityType DEF TotalInv, TypeOK, ManagerTypeOK
<1> QED
  BY <1>1, <1>3, <1>4, TotalFinite DEF TotalInv, NeverUndercounts

LEMMA ListenerCallTotal ==
  ASSUME TypeOK, TaskInv, NoStaleListener, TotalInv, NEW l \in Listeners, ListenerCall(l)
  PROVE  TotalInv'
<1> USE DEF TypeOK, ManagerTypeOK, Go, kickVars, RemovalsOK, RemovedOK
<1>1. serving[l] \in Mounts /\ AfterRemove(l) \in {"leave", "push"}
  BY DEF AfterRemove
<1>2. ASSUME RetainOthers(l) PROVE TotalInv'
  <2>1. ~removed[l]
    BY <1>2 DEF RetainOthers, TotalInv
  <2>2. Adding' = Adding
    BY <1>1, <1>2 DEF RetainOthers, Adding
  <2>3. RemovalsOK'
    BY <1>1, <1>2 DEF RetainOthers, TotalInv, removeUnchanged
  <2> QED
    BY <1>1, <1>2, <2>1, <2>2, <2>3, TakenOver DEF RetainOthers, TotalInv
<1>3. ASSUME EraseEntry(l) PROVE TotalInv'
  <2>1. Adding' = Adding
    BY <1>1, <1>3 DEF EraseEntry, Adding
  <2>2. RemovalsOK'
    BY <1>1, <1>3 DEF EraseEntry, TotalInv, removeUnchanged
  <2> QED
    BY <1>1, <1>3, <2>1, <2>2, ErasedTotal DEF EraseEntry, TotalInv
<1>4. ASSUME UncountListener(l) PROVE TotalInv'
  <2>1. removed[l]
    BY <1>4 DEF UncountListener, TotalInv
  <2>2. Adding' = Adding
    BY <1>1, <1>4 DEF UncountListener, Adding
  <2>3. RemovalsOK'
    BY <1>1, <1>4 DEF UncountListener, TotalInv, removeUnchanged
  <2> QED
    BY <1>4, <2>1, <2>2, <2>3, UncountedTotal DEF UncountListener, TotalInv
<1> QED
  BY <1>2, <1>3, <1>4, AddTotal, CountTotal DEF ListenerCall

LEMMA KickCallTotal ==
  ASSUME TypeOK, NoStaleListener, TotalInv, NEW k \in Kicks, KickCall(k)
  PROVE  TotalInv'
<1> USE DEF TypeOK, ManagerTypeOK, GoKick, kickUnchanged, taskVars, RemovalsOK, RemovedOK
<1>1. kickMount[k] \in Mounts /\ kickTarget[k] \in Listeners
  OBVIOUS
<1>2. Adding' = Adding
  BY DEF KickCall, KickRetain, KickErase, KickUncount, Adding
<1>3. ASSUME KickRetain(k) PROVE TotalInv'
  <2>1. ~removed[k]
    BY <1>3 DEF KickRetain, TotalInv
  <2>2. RemovalsOK'
    BY <1>3 DEF KickRetain, TotalInv
  <2> QED
    BY <1>1, <1>2, <1>3, <2>1, <2>2, TakenOver DEF KickRetain, TotalInv
<1>4. ASSUME KickErase(k) PROVE TotalInv'
  <2>1. RemovalsOK'
    BY <1>4 DEF KickErase, TotalInv
  <2> QED
    BY <1>1, <1>2, <1>4, <2>1, ErasedTotal DEF KickErase, TotalInv
<1>5. ASSUME KickUncount(k) PROVE TotalInv'
  <2>1. removed[k]
    BY <1>5 DEF KickUncount, TotalInv
  <2>2. RemovalsOK'
    BY <1>5 DEF KickUncount, TotalInv
  <2> QED
    BY <1>2, <1>5, <2>1, <2>2, UncountedTotal DEF KickUncount, TotalInv
<1> QED
  BY <1>3, <1>4, <1>5 DEF KickCall

\* total_listeners is at no time less than the listeners the manager holds,
\* half-way calls taken into account, although an erase can drop a listener that
\* was added after the vector was seen empty.
THEOREM NeverUndercountsHolds == Spec => []NeverUndercounts
<1>1. Init => TotalInv
  <2> SUFFICES ASSUME Init PROVE TotalInv
    OBVIOUS
  <2>1. Held = {} /\ Removing = {} /\ Adding = {} /\ total = 0
    BY DEF Init, ManagerInit, Held, Removing, Adding
  <2>2. RemovalsOK
    BY DEF Init, RemovalsOK, RemovedOK
  <2> QED
    BY <2>1, <2>2, FS_EmptySet DEF TotalInv, NeverUndercounts
<1>2. TypeOK /\ TaskInv /\ NoStaleListener /\ TotalInv /\ [Next]_vars => TotalInv'
  BY OnlyCallsCount, QuietTotal, ListenerCallTotal, KickCallTotal
<1>3. TotalInv => NeverUndercounts
  BY DEF TotalInv
<1> QED
  BY <1>1, <1>2, <1>3, TaskInvariant, NoStaleListenerHolds, PTL DEF Spec
=============================================================================
