-------------------------- MODULE ListenerManager --------------------------
(***************************************************************************)
(* ListenerManager (crabster-core/src/listener/mod.rs): a concurrent map   *)
(* from a mount to the listeners on it, and a counter.  Each operator is   *)
(* one atomic access: add_listener is Push then CountUp; remove_listener   *)
(* is Retain, then Erase when the vector became empty (the entry's lock is *)
(* dropped in between), then CountDown when something was removed.         *)
(***************************************************************************)
EXTENDS MountPoints, Integers, FiniteSets

CONSTANT Listeners   \* the listener ids

ASSUME ListenerManagerAssumption == IsFiniteSet(Listeners)

VARIABLES keys,     \* the mounts that have an entry, perhaps an empty vector
          entries,  \* the vector of listeners of each mount, as a set of ids
          total     \* total_listeners; -1 is the u64 value 2^64 - 1

managerVars == <<keys, entries, total>>

ManagerTypeOK ==
  /\ keys \in SUBSET Mounts
  /\ entries \in [Mounts -> SUBSET Listeners]
  /\ total \in Int

ManagerInit ==
  /\ keys = {}
  /\ entries = [m \in Mounts |-> {}]
  /\ total = 0

Push(m, l) ==
  /\ keys' = keys \cup {m}
  /\ entries' = [entries EXCEPT ![m] = @ \cup {l}]

CountUp == total' = total + 1

CountDown == total' = total - 1

\* Whether Retain(m, l) removes something, and whether it leaves an empty vector.
Removes(m, l) == l \in entries[m]
Empties(m, l) == m \in keys /\ entries[m] \subseteq {l}

Retain(m, l) ==
  /\ entries' = [entries EXCEPT ![m] = @ \ {l}]
  /\ UNCHANGED keys

Erase(m) ==
  /\ keys' = keys \ {m}
  /\ entries' = [entries EXCEPT ![m] = {}]
=============================================================================
