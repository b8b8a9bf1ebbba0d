------------------------------ MODULE Experiments ------------------------------
(***************************************************************************)
(* The parameters the parts of an experiment's run share.                   *)
(***************************************************************************)
EXTENDS Integers

CONSTANTS
    None,               \* no value
    MaxExperiments      \* bound: experiments of the campaign

ASSUME ExperimentsAssumption ==
    /\ MaxExperiments \in Nat \ {0}
    /\ None \notin Nat

Numbers == 1 .. MaxExperiments
=============================================================================
