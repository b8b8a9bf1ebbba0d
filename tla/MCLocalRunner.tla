--------------------------- MODULE MCLocalRunner ---------------------------
(* Small instances of LocalRunner for TLC. *)
EXTENDS LocalRunner
=============================================================================
