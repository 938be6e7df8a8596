--------------------------- MODULE MCSourceStream ---------------------------
(* Source connections alone: several of them on few mounts. *)
EXTENDS SourceStream, TLC

CONSTANTS m1, m2, c1, c2, c3, c4

MCMounts == {m1, m2}
MCConns == {c1, c2, c3, c4}
ConnSymmetry == Permutations(MCConns)
=============================================================================
