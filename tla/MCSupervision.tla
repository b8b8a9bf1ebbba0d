--------------------------- MODULE MCSupervision ----------------------------
(* Small instances of Supervision for TLC. *)
EXTENDS Supervision

CONSTANTS c1, c2, w1, w2, w3, r1, r2
=============================================================================
