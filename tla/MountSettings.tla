--------------------------- MODULE MountSettings ---------------------------
(***************************************************************************)
(* The per-mount settings that resolve_mount_settings (src/lib.rs) reads   *)
(* from the database or the file configuration.  A running server reads    *)
(* them and no handler writes them, so they are constants.                 *)
(***************************************************************************)
EXTENDS MountPoints, Naturals

CONSTANTS NoMount,          \* the absence of a fallback (None, or "")
          Fallback,         \* fallback_mount of each mount, or NoMount
          Override,         \* mounts with fallback_override
          WhenFull,         \* mounts with max_listeners and fallback_when_full
          MaxListeners,     \* max_listeners of each mount of WhenFull
          MaxFallbackDepth  \* MAX_FALLBACK_DEPTH

ASSUME MountSettingsAssumption ==
  /\ NoMount \notin Mounts
  /\ Fallback \in [Mounts -> Mounts \cup {NoMount}]
  /\ Override \subseteq Mounts
  /\ WhenFull \subseteq Mounts
  /\ MaxListeners \in [WhenFull -> Nat]
  /\ MaxFallbackDepth \in Nat \ {0}

\* A fallback that is empty or the mount itself is no fallback.
HasFallback(m) == Fallback[m] \notin {NoMount, m}

\* `n` listeners fill mount m, and m sends the next ones to its fallback.
IsFull(m, n) == m \in WhenFull /\ n >= MaxListeners[m]

\* The sets of mounts that are closed under "falls back to".
FallbackClosed(S) == \A m \in S : HasFallback(m) => Fallback[m] \in S

\* The mounts that the fallback chain of m leads to, m included.
Chain(m) ==
  {n \in Mounts :
     \A S \in SUBSET Mounts : (m \in S /\ FallbackClosed(S)) => n \in S}
=============================================================================
