---------------------------- MODULE SourceStream ----------------------------
(***************************************************************************)
(* The source connections (handle_source, handle_shoutcast_source and      *)
(* run_source_stream of src/lib.rs) over the SourceManager.  A connection  *)
(* is one task and has one Source object; several tasks run in parallel,   *)
(* on several threads.                                                     *)
(***************************************************************************)
EXTENDS SourceManager

VARIABLES srcPc,      \* where each connection is
          srcMount,   \* the mount each connection asks for
          connected,  \* Source.connected, which listeners poll
          raced       \* history: mounts that two registrations raced for

srcVars == <<sources, srcPc, srcMount, connected, raced>>

SrcPcs ==
  {"idle", "checked", "insert", "welcome", "streaming", "unregister", "closed"}

\* The connections whose Source object went into the registry and whose
\* unregister is still to come.
Holding(c) == srcPc[c] \in {"welcome", "streaming", "unregister"}

SourceTypeOK ==
  /\ SourcesTypeOK
  /\ srcPc \in [Conns -> SrcPcs]
  /\ srcMount \in [Conns -> Mounts]
  /\ connected \in [Conns -> BOOLEAN]
  /\ raced \in SUBSET Mounts

SourceInit ==
  /\ SourcesInit
  /\ srcPc = [c \in Conns |-> "idle"]
  /\ srcMount \in [Conns -> Mounts]
  /\ connected = [c \in Conns |-> FALSE]
  /\ raced = {}

GoSrc(c, to) == srcPc' = [srcPc EXCEPT ![c] = to]

\* The request arrives: a mount in use is answered 403 ("mountpoint in use").
Connect(c) ==
  /\ srcPc[c] = "idle"
  /\ GoSrc(c, IF MountExists(srcMount[c]) THEN "closed" ELSE "checked")
  /\ UNCHANGED <<sources, srcMount, connected, raced>>

\* Bad credentials, an exceeded quota, or an error while the Shoutcast
\* headers are read.
Reject(c) ==
  /\ srcPc[c] = "checked"
  /\ GoSrc(c, "closed")
  /\ UNCHANGED <<sources, srcMount, connected, raced>>

\* Mutant: register inserts without looking.
RegisterUnchecked(c) ==
  /\ srcPc[c] = "checked"
  /\ GoSrc(c, "insert")
  /\ UNCHANGED <<sources, srcMount, connected, raced>>

\* The contains_key of register.
RegisterCheck(c) ==
  LET m == srcMount[c]
      rivals == {d \in Conns : srcMount[d] = m /\ srcPc[d] = "insert"}
  IN  /\ srcPc[c] = "checked"
      /\ IF MountExists(m)
         THEN GoSrc(c, "closed") /\ UNCHANGED raced
         ELSE /\ GoSrc(c, "insert")
              /\ raced' = IF rivals = {} THEN raced ELSE raced \cup {m}
      /\ UNCHANGED <<sources, srcMount, connected>>

\* The insert of register.  The Source was created with connected = true.
RegisterInsert(c) ==
  /\ srcPc[c] = "insert"
  /\ Insert(srcMount[c], c)
  /\ connected' = [connected EXCEPT ![c] = TRUE]
  /\ GoSrc(c, "welcome")
  /\ UNCHANGED <<srcMount, raced>>

\* The welcome is written and the read loop starts.
Welcome(c) ==
  /\ srcPc[c] = "welcome"
  /\ GoSrc(c, "streaming")
  /\ UNCHANGED <<sources, srcMount, connected, raced>>

\* The welcome could not be written, or the read loop met EOF or an error.
Disconnect(c) ==
  /\ srcPc[c] \in {"welcome", "streaming"}
  /\ connected' = [connected EXCEPT ![c] = FALSE]
  /\ GoSrc(c, "unregister")
  /\ UNCHANGED <<sources, srcMount, raced>>

\* Mutant: the early return after a failed welcome forgets to unregister.
EndWithoutUnregister(c) ==
  /\ srcPc[c] = "unregister"
  /\ GoSrc(c, "closed")
  /\ UNCHANGED <<sources, srcMount, connected, raced>>

\* The connection unregisters its mount and ends.
Unregister(c) ==
  /\ srcPc[c] = "unregister"
  /\ Remove(srcMount[c])
  /\ GoSrc(c, "closed")
  /\ UNCHANGED <<srcMount, connected, raced>>

SourceStep(c) ==
  \/ Connect(c) \/ Reject(c) \/ RegisterCheck(c) \/ RegisterInsert(c)
  \/ Welcome(c) \/ Disconnect(c) \/ Unregister(c)

SourcesDone == \A c \in Conns : srcPc[c] = "closed"

SourceNext ==
  \/ \E c \in Conns : SourceStep(c)
  \/ SourcesDone /\ UNCHANGED srcVars

SourceSpec == SourceInit /\ [][SourceNext]_srcVars

-----------------------------------------------------------------------------
\* Whatever the registry answers is a source of that mount whose task has yet
\* to unregister it: no entry outlives its connection, even when two
\* registrations raced and one task removed the other's entry (lib.rs:728).
NoDeadEntry ==
  \A m \in Mounts :
    MountExists(m) => srcMount[sources[m]] = m /\ Holding(sources[m])

\* As long as no two registrations of a mount overlapped between contains_key
\* and insert (source/mod.rs:145-148), each source of the mount that is up is
\* the one the registry answers, so there is at most one.
ExclusiveUnlessRaced ==
  \A m \in Mounts \ raced : \A c \in Conns :
    srcMount[c] = m /\ Holding(c) => sources[m] = c

\* "Second connect on same mount should be rejected"
\* (tests/streaming_test.rs:164): no two connections stream to a mount.
OneSourcePerMount ==
  \A c, d \in Conns :
    srcPc[c] = "streaming" /\ srcPc[d] = "streaming" /\ srcMount[c] = srcMount[d]
      => c = d
=============================================================================
