---------------------------- MODULE MCRunnerLock ----------------------------
(* A small instance of RunnerLock for TLC: an owner that dies and two that *)
(* contend for what it leaves.                                             *)
EXTENDS RunnerLock

CONSTANTS p1, p2, p3
=============================================================================
