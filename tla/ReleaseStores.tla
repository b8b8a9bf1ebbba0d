---------------------------- MODULE ReleaseStores ----------------------------
(***************************************************************************)
(* The evaluator's private stores of one request: the post-destruction      *)
(* recovery record (evaluator/release-recovery-store.ts and its mounted     *)
(* volume), the behavioral preparation, and the committed release bundle    *)
(* with its privacy debit.  Every operation is one transaction; the stores  *)
(* retry it once, so that a single lost answer is absorbed.                 *)
(***************************************************************************)
EXTENDS Naturals

CONSTANTS None, Envelopes

VARIABLES
    record,       \* the recovery record, or None
    preparation,  \* the state of the behavioral preparation
    bundle        \* the committed release: absent, visible or orphaned

Statuses == {"open", "result-issued", "completed", "failed"}
Behaviorals == {"none", "prepared", "finalized", "consumed", "abandoned"}
Records == [status : Statuses, behavioral : Behaviorals,
            envelope : Envelopes \cup {None}]
Preparations == {"missing", "prepared", "finalized", "consumed", "abandoned"}

StoresInit ==
    /\ record = None
    /\ preparation = "missing"
    /\ bundle = "absent"

---------------------------------------------------------------------------
(* The recovery record *)

OpenRecord(behavioral) ==
    [status |-> "open", behavioral |-> behavioral, envelope |-> None]

(* assertPostDestructionReleaseRecoveryRecord: the fields of a disposition. *)
Consistent(r) ==
    /\ r.status = "open" => r.envelope = None
    /\ r.status \in {"result-issued", "completed"} => r.envelope # None
    /\ r.status = "completed" => r.behavioral # "abandoned"
    /\ r.status = "result-issued" => r.behavioral \notin {"prepared", "abandoned"}
    /\ r.status = "failed" => r.behavioral \notin {"prepared", "finalized"}

BehavioralTransition(prior, next) ==
    \/ prior = next
    \/ prior = "prepared" /\ next \in {"consumed", "finalized"}
    \/ prior = "finalized" /\ next = "abandoned"

StatusTransition(prior, next) ==
    \/ prior = "open" /\ next # "completed"
    \/ prior = "result-issued" /\ next # "open"

(* assertPostDestructionReleaseRecoveryTransition *)
Transition(prior, next) ==
    /\ Consistent(next)
    /\ BehavioralTransition(prior.behavioral, next.behavioral)
    /\ StatusTransition(prior.status, next.status)
    /\ prior.envelope # None => next.envelope = prior.envelope

(* advance: a compare-and-swap on the prior record's hash; the next record  *)
(* found in place answers as advanced.                                      *)
MayAdvance(prior, next) ==
    \/ record = next /\ Consistent(next)
    \/ record = prior /\ Transition(prior, next)
Advance(next) == record' = next

---------------------------------------------------------------------------
(* The preparation and the bundle *)

Prepare == preparation = "missing" /\ preparation' = "prepared"

(* finalize, consume and abandon repeat themselves; a finalized preparation *)
(* can only be abandoned, a consumed one changes no more.                   *)
MayFinalize == preparation \in {"prepared", "finalized"}
Finalize == preparation' = "finalized"
MayConsumePreparation == preparation \in {"prepared", "consumed"}
ConsumePreparation == preparation' = "consumed"
MayAbandon == preparation \in {"finalized", "abandoned"}
Abandon == preparation' = "abandoned"

(* The privacy transition: one release for each request, ever. *)
Commit == bundle = "absent" /\ bundle' = "visible"

(* Fault: the bundle is removed, and its debit with it. *)
Orphan_Removes == bundle' = "absent"

(* orphan: hides the bundle for good, the debit stays. *)
Orphan == bundle' = "orphaned"
=============================================================================
