---------------------------- MODULE ExperimentLedger ----------------------------
(***************************************************************************)
(* What a campaign promises of its experiments: their numbers grow by one,  *)
(* one is in flight at a time and starts only while the campaign runs, each *)
(* ends once, and the champion is the experiment sealed at that very step.  *)
(***************************************************************************)
EXTENDS Integers, Sequences

VARIABLES outcomes,     \* outcome of experiment n
          champion,     \* experiment whose harness is active
          running       \* the campaign may start experiments

Concluded(n) == outcomes[n] # "inFlight"
AllConcluded == \A n \in DOMAIN outcomes : Concluded(n)

LedgerInit == outcomes = <<>> /\ champion = 0 /\ running = TRUE

Allocate == /\ running /\ AllConcluded
            /\ outcomes' = Append(outcomes, "inFlight")
            /\ UNCHANGED <<champion, running>>

Conclude(how) == \E n \in DOMAIN outcomes :
                    /\ ~Concluded(n)
                    /\ outcomes' = [outcomes EXCEPT ![n] = how]
                    /\ champion' \in IF how = "sealed" THEN {champion, n} ELSE {champion}
                    /\ UNCHANGED running

(* An operator or an interruption stops, pauses or resumes the campaign. *)
Control == running' \in BOOLEAN /\ UNCHANGED <<outcomes, champion>>

LedgerNext == Allocate \/ Conclude("sealed") \/ Conclude("interrupted") \/ Control

LedgerSpec == LedgerInit /\ [][LedgerNext]_<<outcomes, champion, running>>
=============================================================================
