--------------------------- MODULE MCStreamReader ---------------------------
(* One source and one reader of its buffer; readers do not affect each other. *)
EXTENDS StreamReader

CONSTANT r1
=============================================================================
