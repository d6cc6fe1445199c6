--------------------------- MODULE MCInputChannel ---------------------------
(* InputChannel with small sets. *)
EXTENDS InputChannel
=============================================================================
