--------------------------- MODULE SourceManager ---------------------------
(***************************************************************************)
(* SourceManager (crabster-core/src/source/mod.rs): a concurrent map from  *)
(* a mount to the source that feeds it.  Each operator below is one atomic *)
(* access to the map; register is two of them, a contains_key and an       *)
(* insert, with nothing that holds the map in between.                     *)
(***************************************************************************)
EXTENDS MountPoints

CONSTANTS Conns,    \* the source connections, each with its own Source object
          NoConn    \* the absence of an entry

ASSUME SourceManagerAssumption == NoConn \notin Conns

VARIABLE sources

SourcesTypeOK == sources \in [Mounts -> Conns \cup {NoConn}]

SourcesInit == sources = [m \in Mounts |-> NoConn]

\* mount_exists, and the contains_key of register.
MountExists(m) == sources[m] # NoConn

\* The insert of register: it replaces whatever entry is there by then.
Insert(m, c) == sources' = [sources EXCEPT ![m] = c]

\* unregister removes the entry of a mount, whosever it is.
Remove(m) == sources' = [sources EXCEPT ![m] = NoConn]
=============================================================================
