------------------------------- MODULE BlindBroker -------------------------------
(***************************************************************************)
(* The blind broker's one-use leases (orchestrator/blind-broker.ts): one of *)
(* a kind per experiment, keyed by a commitment to the preparation, which a *)
(* repeated call repeats.  Each operation is one transaction of the lease   *)
(* store; an evaluation is claimed, bound to its request, run outside and   *)
(* recorded.                                                                *)
(***************************************************************************)
EXTENDS Experiments

VARIABLE leases         \* per experiment and stage, or None

Stages == {"repair", "validation"}
Outcomes == {"decided", "started-abandoned", "sealed-unstarted"}

Lease(n, stage) == leases[n][stage]
Leased(n, stage) == Lease(n, stage) # None
Status(n, stage) == Lease(n, stage).status
Decided(n, stage) == Leased(n, stage) /\ Lease(n, stage).outcome = "decided"

UpdateLease(n, stage, lease) == leases' = [leases EXCEPT ![n][stage] = lease]

(* Fault: any preparation that was not disposed is handed out again. *)
MayPrepare_Restart(n, stage) == Leased(n, stage) => Status(n, stage) # "disposed"
(* prepare: a started preparation is refused, an unstarted one is repeated.  *)
MayPrepare(n, stage) == Leased(n, stage) => Status(n, stage) = "prepared"

NewLease == [ status |-> "prepared", requested |-> FALSE, outcome |-> None,
              result |-> None, diagnostic |-> "none" ]
Prepare(n, stage) ==
    IF Leased(n, stage) /\ Status(n, stage) = "prepared" THEN UNCHANGED leases
    ELSE UpdateLease(n, stage, NewLease)

(* run: the claim. *)
MayClaim(n, stage) == Leased(n, stage) /\ Status(n, stage) = "prepared"
ClaimLease(n, stage) == UpdateLease(n, stage, [Lease(n, stage) EXCEPT !.status = "running"])

(* The request is bound to the running lease just before the evaluator runs. *)
BindRequest(n, stage) == UpdateLease(n, stage, [Lease(n, stage) EXCEPT !.requested = TRUE])

(* The result of a validation may come with a diagnostic that can be         *)
(* released.                                                                 *)
RecordResult(n, stage, result) ==
    UpdateLease(n, stage,
        [Lease(n, stage) EXCEPT !.status = "evaluated", !.result = result,
            !.diagnostic = IF stage = "validation" /\ result.released
                           THEN "eligible" ELSE "none"])

(* assertDispositionTransition. *)
MayDispose(n, stage, outcome) ==
    /\ Leased(n, stage)
    /\ CASE Status(n, stage) = "disposed" -> Lease(n, stage).outcome = outcome
         [] outcome = "decided" -> Status(n, stage) = "evaluated"
         [] outcome = "started-abandoned" ->
               Status(n, stage) \in {"prepared", "running", "evaluation-failed"}
         [] OTHER -> Status(n, stage) = "prepared"
Disposed(lease, outcome) == [lease EXCEPT !.status = "disposed", !.outcome = outcome]
Dispose(n, stage, outcome) == UpdateLease(n, stage, Disposed(Lease(n, stage), outcome))

(* failEvaluation: nothing to fail once there is a result. *)
FailEvaluation(n, stage) ==
    IF Status(n, stage) \in {"disposed", "evaluated"} THEN UNCHANGED leases
    ELSE UpdateLease(n, stage, [Lease(n, stage) EXCEPT !.status = "evaluation-failed"])

(* releaseDiagnosticBrief: claimed, published once, recorded. *)
Diagnostic(n) == Lease(n, "validation").diagnostic
MayClaimRelease(n) == Decided(n, "validation") /\ Diagnostic(n) \in {"eligible", "releasing"}
SetDiagnostic(n, d) ==
    UpdateLease(n, "validation", [Lease(n, "validation") EXCEPT !.diagnostic = d])

LeasesInit == leases = [n \in Numbers |-> [s \in Stages |-> None]]
=============================================================================
