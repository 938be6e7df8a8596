---------------------------- MODULE MCStreaming ----------------------------
(* Small servers: the mounts live, backup and spare, and the settings that  *)
(* the runs give them.                                                      *)
EXTENDS Streaming, TLC

CONSTANTS live, backup, spare, c1, c2, c3, l1, l2, l3, k1, k2

OneMount == {live}
TwoMounts == {live, backup}
ThreeMounts == {live, backup, spare}

(* Each listener that an Erase loses leaves total_listeners one too high for
   good: the safety runs follow the counter up to its first such error. *)
TotalBound == total <= Cardinality(Listeners)

NoFallbacks == [m \in Mounts |-> NoMount]
ToBackup == live :> backup @@ backup :> NoMount
Cycle == live :> backup @@ backup :> live
Relay == live :> backup @@ backup :> spare @@ spare :> NoMount

LimitOne == [m \in WhenFull |-> 1]

ConnSymmetry == Permutations(Conns)
ListenerSymmetry == Permutations(Listeners)
TaskSymmetry == ConnSymmetry \cup ListenerSymmetry
=============================================================================
