------------------------------ MODULE MCCluster ------------------------------
(* An origin with one mount whose source is replaced while an edge streams. *)
EXTENDS Cluster, TLC

CONSTANTS m1, c1, c2, w1, e1

OneMount == {m1}
=============================================================================
