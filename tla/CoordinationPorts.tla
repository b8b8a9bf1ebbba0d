---------------------------- MODULE CoordinationPorts ----------------------------
(***************************************************************************)
(* The durable ports of the optimization coordinator                        *)
(* (cloud/mounted-volume-optimization-coordination.ts): the record of an    *)
(* interruption, the control its authority decided for the archived state,  *)
(* and the campaign state it was applied with.  Every operation is one      *)
(* fenced transaction of the coordination store.  Preparing an input,       *)
(* binding a claim and verifying a resume path only repeat themselves and   *)
(* are left out.                                                            *)
(***************************************************************************)
EXTENDS CampaignStore

CONSTANT MaxExperiments     \* bound: experiment numbers

VARIABLE interruptions  \* experiment number -> None or its interruption

Numbers == 1 .. MaxExperiments

(* Failures of integrity, infrastructure and budget are handled alike. *)
FailureClasses == {"failure", "operator-stop"}

(* The record of an interruption, up to the control and the two states the  *)
(* coordinator adds to it.                                                  *)
Interruptions == [class: FailureClasses, control: {None, "stop", "pause"},
                  archive: {None} \cup Nat, final: {None} \cup Nat]

ASSUME PortsAssumption == /\ MaxExperiments \in Nat \ {0}
                          /\ None \notin Interruptions

PortsInit == interruptions = [n \in Numbers |-> None]

(* activeInterruptions: the interruption of this campaign not yet applied. *)
ActiveInterruptions == {n \in Numbers : /\ interruptions[n] # None
                                        /\ interruptions[n].final = None}

FindPending == IF ActiveInterruptions = {} THEN None
               ELSE CHOOSE n \in ActiveInterruptions : TRUE

(* begin: the same draft finds the record it made, another one is refused   *)
(* while that record is active, and an applied one is never begun again.    *)
MayBegin(n, class) ==
    IF ActiveInterruptions # {}
    THEN FindPending = n /\ interruptions[n].class = class
    ELSE interruptions[n] = None
Begin(n, class) ==
    interruptions' =
        IF interruptions[n] # None THEN interruptions
        ELSE [interruptions EXCEPT ![n] =
                 [class |-> class, control |-> None, archive |-> None,
                  final |-> None]]

(* The control an authority may decide for a failure class. *)
ControlOf(class) == IF class = "operator-stop" THEN "stop" ELSE "pause"

(* prepareControl: decided once, for the archived state. *)
MayPrepare(n, archive) ==
    /\ interruptions[n] # None
    /\ interruptions[n].final = None
    /\ interruptions[n].archive \in {None, archive}

Prepare(n, archive) ==
    interruptions' = [interruptions EXCEPT
        ![n].control = ControlOf(interruptions[n].class), ![n].archive = archive]

(* markApplied: only with a prepared control and a later state. *)
MayMark(n, final) ==
    /\ interruptions[n] # None
    /\ interruptions[n].control # None
    /\ \/ interruptions[n].final = final
       \/ interruptions[n].final = None /\ final # interruptions[n].archive

Mark(n, final) == interruptions' = [interruptions EXCEPT ![n].final = final]
=============================================================================
