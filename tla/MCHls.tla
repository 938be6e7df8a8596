------------------------------- MODULE MCHls -------------------------------
(* The packager over one mount whose sources come and go. *)
EXTENDS Hls

CONSTANTS m1, c1, c2

OneMount == {m1}
=============================================================================
