------------------------------- MODULE MCIcy -------------------------------
(* One source and one listener, moved in mid-stream. *)
EXTENDS IcyStream, TLC

CONSTANTS t1, t2

TwoSizes == (t1 :> 1) @@ (t2 :> 1)

\* t2 is t1 with a ';' and more behind it.
CutAtSemicolon == (t1 :> t1) @@ (t2 :> t1)
NoField == [text \in Texts |-> Nothing]
=============================================================================
