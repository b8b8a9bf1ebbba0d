---------------------------- MODULE OneUseLedger ----------------------------
(***************************************************************************)
(* The one-use request ledger of the trusted evaluator (broker/ledger.ts):  *)
(* the claim of one request.  Every operation is one linearizable           *)
(* transaction of the store.  A claim token is named by its epoch, which    *)
(* counts the takeovers; the request hash never differs and is left out.    *)
(***************************************************************************)
EXTENDS Naturals

CONSTANTS None, Controllers, Envelopes

VARIABLES
    claim,      \* the OneUseLedgerRecord of the request, or None
    terminated  \* controllers the provider has proved terminated

(* recovered is the record of the takeover that was authorized last. *)
Claims(records) ==
    [status : {"in-flight", "completed", "consumed"}, owner : Controllers,
     token : Nat, attested : BOOLEAN, recovered : records \cup {None},
     envelope : Envelopes \cup {None}]

LedgerInit == claim = None /\ terminated = {}

InFlight == claim # None /\ claim.status = "in-flight"

(* Fault: a claim whose attestation is not bound yet is handed out again. *)
MayClaim_Unbound == claim = None \/ (InFlight /\ ~claim.attested)

(* claim: the first call of the request acquires it. *)
MayClaim == claim = None

Acquire(owner) ==
    claim' = [status |-> "in-flight", owner |-> owner, token |-> 1,
              attested |-> FALSE, recovered |-> None, envelope |-> None]

(* A successor that holds the claim already finds it again, provided that   *)
(* it names the record it took over with.                                   *)
HeldByRecovery(owner, r) == claim.owner = owner /\ claim.recovered = r

(* Fault: only the first owner can be replaced. *)
MayAuthorize_Once(owner) ==
    claim.attested /\ claim.owner # owner /\ claim.owner \in terminated /\ claim.token = 1

(* The authority signs only for a terminated predecessor, never for the     *)
(* claimant itself, and only a disposition-bound claim can be observed.     *)
MayAuthorize(owner) ==
    /\ claim.attested
    /\ claim.owner # owner
    /\ claim.owner \in terminated

(* recoverInFlight: nothing may have changed while the authority decided. *)
Unchanged(seen) == InFlight /\ claim.token = seen
Rotate(owner, r) ==
    claim' = [claim EXCEPT !.owner = owner, !.token = @ + 1, !.recovered = r]

BindDispositionAttestation == claim' = [claim EXCEPT !.attested = TRUE]

MayComplete(token) == InFlight /\ claim.token = token /\ claim.attested
Complete(envelope) ==
    claim' = [claim EXCEPT !.status = "completed", !.envelope = envelope]

(* consumeFailure: repeats itself, and never undoes a completion. *)
MayConsume(token) == claim.token = token /\ claim.status # "completed"
ConsumeFailure == claim' = [claim EXCEPT !.status = "consumed"]
=============================================================================
