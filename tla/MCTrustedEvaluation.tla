---------------------------- MODULE MCTrustedEvaluation ----------------------------
(* The evaluator and its successors at work on one request. *)
EXTENDS TrustedEvaluation
=============================================================================
