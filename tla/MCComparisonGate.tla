-------------------------- MODULE MCComparisonGate --------------------------
(* The instance of ComparisonGate that TLC checks: every pair of arms up   *)
(* to a permutation of the tasks, which the gate does not tell apart.      *)
EXTENDS ComparisonGate

SortedArms == {arm \in Arm : \A t \in 1..4 : arm[t] <= arm[t + 1]}
AllArms == Arm
=============================================================================
