------------------------- MODULE SourceStreamProofs -------------------------
(***************************************************************************)
(* What holds of the source registry for any mounts and any connections:   *)
(* its type, that no entry outlives its connection, and that a mount has   *)
(* at most one source unless two registrations of it raced.                *)
(***************************************************************************)
EXTENDS SourceStream, TLAPS

USE SourceManagerAssumption

\* A registration between contains_key and insert, on a mount that was never
\* raced for, is alone there and still finds no entry.
PendingInsert ==
  \A m \in Mounts \ raced : \A c \in Conns :
    srcMount[c] = m /\ srcPc[c] = "insert"
      => /\ sources[m] = NoConn
         /\ \A d \in Conns : srcMount[d] = m /\ srcPc[d] = "insert" => d = c

SourceInv == NoDeadEntry /\ ExclusiveUnlessRaced /\ PendingInsert

\* The source connections stay within their types.
THEOREM SourceTypeCorrect == SourceSpec => []SourceTypeOK
<1>1. SourceInit => SourceTypeOK
  BY DEF SourceInit, SourcesInit, SourceTypeOK, SourcesTypeOK, SrcPcs
<1>2. SourceTypeOK /\ [SourceNext]_srcVars => SourceTypeOK'
  <2> SUFFICES ASSUME SourceTypeOK, [SourceNext]_srcVars PROVE SourceTypeOK'
    OBVIOUS
  <2> USE DEF SourceTypeOK, SourcesTypeOK, SrcPcs, GoSrc
  <2>1. ASSUME NEW c \in Conns, Connect(c) PROVE SourceTypeOK'
    BY <2>1 DEF Connect
  <2>2. ASSUME NEW c \in Conns, Reject(c) PROVE SourceTypeOK'
    BY <2>2 DEF Reject
  <2>3. ASSUME NEW c \in Conns, RegisterCheck(c) PROVE SourceTypeOK'
    BY <2>3 DEF RegisterCheck
  <2>4. ASSUME NEW c \in Conns, RegisterInsert(c) PROVE SourceTypeOK'
    BY <2>4 DEF RegisterInsert, Insert
  <2>5. ASSUME NEW c \in Conns, Welcome(c) PROVE SourceTypeOK'
    BY <2>5 DEF Welcome
  <2>6. ASSUME NEW c \in Conns, Disconnect(c) PROVE SourceTypeOK'
    BY <2>6 DEF Disconnect
  <2>7. ASSUME NEW c \in Conns, Unregister(c) PROVE SourceTypeOK'
    BY <2>7 DEF Unregister, Remove
  <2>8. CASE UNCHANGED srcVars
    BY <2>8 DEF srcVars
  <2> QED
    BY <2>1, <2>2, <2>3, <2>4, <2>5, <2>6, <2>7, <2>8 DEF SourceNext, SourceStep
<1> QED
  BY <1>1, <1>2, PTL DEF SourceSpec

\* Every step keeps the registry sound: one case per step of a connection.
LEMMA SourceInvStep ==
  ASSUME SourceTypeOK, SourceInv, [SourceNext]_srcVars
  PROVE  SourceInv'
<1> USE DEF SourceTypeOK, SourcesTypeOK, SrcPcs, GoSrc, MountExists, Holding,
            SourceInv, NoDeadEntry, ExclusiveUnlessRaced, PendingInsert
<1>1. ASSUME NEW c \in Conns, Connect(c) PROVE SourceInv'
  BY <1>1 DEF Connect
<1>2. ASSUME NEW c \in Conns, Reject(c) PROVE SourceInv'
  BY <1>2 DEF Reject
<1>3. ASSUME NEW c \in Conns, RegisterCheck(c) PROVE SourceInv'
  BY <1>3 DEF RegisterCheck
<1>4. ASSUME NEW c \in Conns, RegisterInsert(c) PROVE SourceInv'
  BY <1>4 DEF RegisterInsert, Insert
<1>5. ASSUME NEW c \in Conns, Welcome(c) PROVE SourceInv'
  BY <1>5 DEF Welcome
<1>6. ASSUME NEW c \in Conns, Disconnect(c) PROVE SourceInv'
  BY <1>6 DEF Disconnect
<1>7. ASSUME NEW c \in Conns, Unregister(c) PROVE SourceInv'
  BY <1>7 DEF Unregister, Remove
<1>8. CASE UNCHANGED srcVars
  BY <1>8 DEF srcVars
<1> QED
  BY <1>1, <1>2, <1>3, <1>4, <1>5, <1>6, <1>7, <1>8 DEF SourceNext, SourceStep

LEMMA SourceInvInvariant == SourceSpec => []SourceInv
<1>1. SourceInit => SourceInv
  BY DEF SourceInit, SourcesInit, SourceInv, NoDeadEntry, ExclusiveUnlessRaced,
         PendingInsert, MountExists, Holding
<1>2. SourceTypeOK /\ SourceInv /\ [SourceNext]_srcVars => SourceInv'
  BY SourceInvStep
<1> QED
  BY <1>1, <1>2, SourceTypeCorrect, PTL DEF SourceSpec

\* No entry of the registry outlives its connection, even when registrations
\* raced and a task unregistered the entry of another.
THEOREM NoDeadEntryHolds == SourceSpec => []NoDeadEntry
<1>1. SourceInv => NoDeadEntry
  BY DEF SourceInv
<1> QED
  BY <1>1, SourceInvInvariant, PTL

\* A mount that was never raced for has at most one source, the registered one.
THEOREM ExclusiveUnlessRacedHolds == SourceSpec => []ExclusiveUnlessRaced
<1>1. SourceInv => ExclusiveUnlessRaced
  BY DEF SourceInv
<1> QED
  BY <1>1, SourceInvInvariant, PTL
=============================================================================
