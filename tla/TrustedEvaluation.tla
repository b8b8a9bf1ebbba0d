---------------------------- MODULE TrustedEvaluation ----------------------------
(***************************************************************************)
(* The trusted evaluation broker (broker/service.ts) at work on one         *)
(* request.  A call of evaluate() claims the request, runs the hidden       *)
(* tasks, destroys the raw results, writes a recovery record, commits the   *)
(* behavioral release, issues the result and completes the claim; its       *)
(* catch block takes back what it can prove uncommitted.  A call that       *)
(* finds the claim in flight takes over from the record, once the           *)
(* predecessor is proved terminated.                                        *)
(*                                                                         *)
(* Every store call is an action.  It may also fail, done or not done, in   *)
(* which case the code continues in its catch block; a controller may       *)
(* crash between any two of them.  The recovery store is configured.        *)
(***************************************************************************)
EXTENDS FiniteSets, Naturals

CONSTANTS
    None,
    Controllers,  \* instances of the evaluator
    Lanes,        \* overlapping calls of one controller
    MaxFaults     \* bound: failed store calls and crashes

Calls == Controllers \X Lanes
Controller(c) == c[1]

(* A result is told apart by the call that signed it, for it carries the    *)
(* time of signing, and by whether it names the release.                    *)
Envelopes == [by : Calls, named : BOOLEAN]

ASSUME BoundAssumption == MaxFaults \in Nat

VARIABLES
    claim, terminated,            \* OneUseLedger
    record, preparation, bundle,  \* ReleaseStores
    raw,      \* the raw results: none, held or destroyed
    runs,     \* how often the hidden tasks were run
    answers,  \* the results callers received
    pc,       \* where each call is
    local,    \* its variables
    faults

INSTANCE OneUseLedger
INSTANCE ReleaseStores

work == <<raw, runs, answers>>
stores == <<record, preparation, bundle>>
vars == <<claim, terminated, stores, work, pc, local, faults>>

ASSUME NoneAssumption ==
    /\ None \notin Envelopes /\ None \notin Records /\ None \notin Claims(Records)

NoCall == [token |-> 0, record |-> None, envelope |-> None,
           finalization |-> FALSE, orphaned |-> FALSE, attempted |-> FALSE,
           known |-> TRUE, finalizing |-> "none", recovering |-> FALSE,
           clean |-> FALSE, checkpoint |-> FALSE]

Locals == [token : Nat, record : Records \cup {None},
           envelope : Envelopes \cup {None}, finalization : BOOLEAN,
           orphaned : BOOLEAN, attempted : BOOLEAN, known : BOOLEAN,
           finalizing : {"none", "known-not-committed", "unsafe-to-consume"},
           recovering : BOOLEAN, clean : BOOLEAN, checkpoint : BOOLEAN]

Init ==
    /\ LedgerInit
    /\ StoresInit
    /\ raw = "none"
    /\ runs = 0
    /\ answers = {}
    /\ pc = [c \in Calls |-> "idle"]
    /\ local = [c \in Calls |-> NoCall]
    /\ faults = 0

---------------------------------------------------------------------------
(* Control *)

At(c, where) == pc[c] = where
Go(c, there, l) == pc' = [pc EXCEPT ![c] = there] /\ local' = [local EXCEPT ![c] = l]
Throw(c) == Go(c, "idle", NoCall)

(* The bundle the catch block would have to hide. *)
HasFinalization(l) ==
    IF l.recovering THEN l.record.behavioral = "finalized" ELSE l.finalization

(* completionKnownNotCommitted decides whether anything may be taken back. *)
Undo(c, l) == Go(c, IF l.known /\ HasFinalization(l) THEN "orphan" ELSE "cleanup", l)

(* The catch block.  An attempted completion is inspected first; a first    *)
(* evaluation trusts no finalization whose commit is in doubt.              *)
Raise(c, l) ==
    IF l.attempted THEN Go(c, "inspect", l)
    ELSE Undo(c, [l EXCEPT !.known = l.recovering \/ l.finalizing # "unsafe-to-consume"])

(* Fault: the claim is consumed before the record fails. *)
Finish_ClaimFirst(c, l) ==
    IF ~l.recovering /\ raw = "held" THEN Go(c, "discard", l)
    ELSE IF l.known /\ l.clean THEN Go(c, "consume-claim", l) ELSE Throw(c)

(* The end of the catch block: the raw results of a first evaluation are    *)
(* destroyed, and the claim is consumed only when all is verified.          *)
Finish(c, l) ==
    IF ~l.recovering /\ raw = "held" THEN Go(c, "discard", l)
    ELSE IF l.known /\ l.clean THEN Go(c, "fail-record", l) ELSE Throw(c)

Ok == UNCHANGED faults
Trouble == faults < MaxFaults /\ faults' = faults + 1

(* An operation throws when it is refused, and when its call fails. *)
Throws(allowed) == IF allowed THEN Trouble ELSE Ok

(* advanceRecoveryRecord: a lost answer is resolved by reading back, so an  *)
(* error means that the record is another one, or cannot be read.           *)
Mark(prior, next, ok, bad) ==
    /\ \/ Ok /\ MayAdvance(prior, next) /\ Advance(next) /\ ok
       \/ /\ Throws(MayAdvance(prior, next))
          /\ (MayAdvance(prior, next) /\ Advance(next)) \/ UNCHANGED record
          /\ bad
    /\ UNCHANGED <<claim, terminated, preparation, bundle, raw, runs>>

OnLedger == UNCHANGED <<terminated, stores, work>>
OnPreparation == UNCHANGED <<claim, terminated, record, bundle, work>>
OnBundle == UNCHANGED <<claim, terminated, record, preparation, work>>
OnWork == UNCHANGED <<claim, terminated, record, bundle, answers>>
OnNothing == UNCHANGED <<claim, terminated, stores, work>>

---------------------------------------------------------------------------
(* The first evaluation *)

(* The claim; an answer that is lost leaves it in flight without a record. *)
Evaluate(c) ==
    /\ At(c, "idle")
    /\ \/ /\ MayClaim
          /\ Acquire(Controller(c))
          /\ \/ Ok /\ Go(c, "bind", [NoCall EXCEPT !.token = 1])
             \/ Trouble /\ Throw(c)
       \/ /\ ~MayClaim /\ InFlight
          /\ Ok /\ Go(c, "lookup", NoCall) /\ UNCHANGED claim
       \/ /\ claim # None /\ claim.status = "completed"
          /\ Ok /\ Go(c, "answer", [NoCall EXCEPT !.envelope = claim.envelope])
          /\ UNCHANGED claim
    /\ OnLedger

(* Panel allocation and the binding of its attestation. *)
Bind(c) ==
    /\ At(c, "bind")
    /\ \/ Ok /\ BindDispositionAttestation /\ Go(c, "run", local[c])
       \/ /\ Trouble
          /\ BindDispositionAttestation \/ UNCHANGED claim
          /\ Raise(c, local[c])
    /\ OnLedger

Run(c) ==
    /\ At(c, "run")
    /\ \/ Ok /\ runs' = runs + 1 /\ raw' = "held" /\ Go(c, "derive", local[c])
       \/ /\ Trouble
          /\ runs' \in {runs, runs + 1}
          /\ UNCHANGED raw /\ Raise(c, local[c])
    /\ UNCHANGED preparation /\ OnWork

(* The deriver prepares the diagnostics of a stage that has them. *)
Derive(c) ==
    /\ At(c, "derive")
    /\ Prepare \/ UNCHANGED preparation
    /\ \/ Ok /\ Go(c, "destroy", local[c])
       \/ Trouble /\ Raise(c, local[c])
    /\ UNCHANGED <<raw, runs>> /\ OnWork

Destroy(c) ==
    /\ At(c, "destroy")
    /\ \/ Ok /\ raw' = "destroyed" /\ Go(c, "create", local[c])
       \/ Trouble /\ raw' \in {"held", "destroyed"} /\ Raise(c, local[c])
    /\ UNCHANGED <<preparation, runs>> /\ OnWork

(* The post-destruction checkpoint. *)
Create(c) ==
    LET open == OpenRecord(IF preparation = "missing" THEN "none" ELSE "prepared")
        l == [local[c] EXCEPT !.checkpoint = TRUE]
    IN /\ At(c, "create")
       /\ \/ /\ Ok /\ record' = open
             /\ Go(c, IF preparation = "missing" THEN "issue" ELSE "finalize",
                   [l EXCEPT !.record = open])
          \/ Trouble /\ record' \in {record, open} /\ Raise(c, l)
       /\ UNCHANGED <<claim, terminated, preparation, bundle, work>>

(* producer.finalize.  A request that was released once, or lacks support,  *)
(* releases nothing more; an error says whether the commit is known absent. *)
ProducerFinalize(c) ==
    LET l == local[c] IN
    /\ At(c, "finalize")
    /\ \/ Ok /\ UNCHANGED bundle /\ Go(c, "consume", l)
       \/ Ok /\ Commit /\ Go(c, "finalized", [l EXCEPT !.finalization = TRUE])
       \/ /\ Trouble /\ UNCHANGED bundle
          /\ Raise(c, [l EXCEPT !.finalizing = "known-not-committed"])
       \/ /\ Trouble /\ bundle = "absent" /\ bundle' \in {"absent", "visible"}
          /\ Raise(c, [l EXCEPT !.finalizing = "unsafe-to-consume"])
    /\ OnBundle

Consume(c) ==
    /\ At(c, "consume")
    /\ \/ /\ Ok /\ MayConsumePreparation /\ ConsumePreparation
          /\ Go(c, "mark-consumed", local[c])
       \/ /\ Throws(MayConsumePreparation)
          /\ (MayConsumePreparation /\ ConsumePreparation) \/ UNCHANGED preparation
          /\ Raise(c, local[c])
    /\ OnPreparation

StoreFinalization(c) ==
    /\ At(c, "finalized")
    /\ \/ Ok /\ MayFinalize /\ Finalize /\ Go(c, "mark-finalized", local[c])
       \/ /\ Throws(MayFinalize)
          /\ (MayFinalize /\ Finalize) \/ UNCHANGED preparation
          /\ Raise(c, local[c])
    /\ OnPreparation

(* The record follows the preparation. *)
MarkBehavioral(c) ==
    LET l == local[c]
        next == [l.record EXCEPT !.behavioral =
                    IF At(c, "mark-consumed") THEN "consumed" ELSE "finalized"]
    IN /\ At(c, "mark-consumed") \/ At(c, "mark-finalized")
       /\ Mark(l.record, next, Go(c, "issue", [l EXCEPT !.record = next]), Raise(c, l))
       /\ UNCHANGED answers

Issue(c) ==
    LET l == local[c]
        envelope == [by |-> c, named |-> l.record.behavioral = "finalized"]
        next == [l.record EXCEPT !.status = "result-issued", !.envelope = envelope]
    IN /\ At(c, "issue")
       /\ Mark(l.record, next,
               Go(c, "complete", [l EXCEPT !.record = next, !.envelope = envelope]),
               Raise(c, l))
       /\ UNCHANGED answers

CompleteClaim(c) ==
    LET l == [local[c] EXCEPT !.attempted = TRUE] IN
    /\ At(c, "complete")
    /\ \/ Ok /\ MayComplete(l.token) /\ Complete(l.envelope) /\ Go(c, "mark-completed", l)
       \/ /\ Throws(MayComplete(l.token))
          /\ (MayComplete(l.token) /\ Complete(l.envelope)) \/ UNCHANGED claim
          /\ Raise(c, l)
    /\ OnLedger

Completed(r) == [r EXCEPT !.status = "completed"]

Answer(c, envelope) == answers' = answers \cup {envelope} /\ Throw(c)

(* The last mark: in the body, in the catch block after an inspection that  *)
(* found the result committed, or in a takeover that did.                   *)
MarkCompleted(c) ==
    LET l == local[c] IN
    /\ \/ At(c, "mark-completed") \/ At(c, "mark-inspected")
    /\ Mark(l.record, Completed(l.record), Answer(c, l.envelope),
            /\ UNCHANGED answers
            /\ IF At(c, "mark-completed") THEN Raise(c, l)
               ELSE Undo(c, [l EXCEPT !.known = FALSE]))

---------------------------------------------------------------------------
(* The catch block *)

(* The inspection of the ledger after an attempted completion. *)
Inspect(c) ==
    LET l == local[c] IN
    /\ At(c, "inspect")
    /\ \/ /\ Ok /\ claim.status = "completed" /\ claim.envelope = l.envelope
          /\ Go(c, "mark-inspected", l)
       \/ /\ Ok /\ claim.status = "completed" /\ claim.envelope # l.envelope
          /\ Undo(c, [l EXCEPT !.known = FALSE])
       \/ Ok /\ claim.status # "completed" /\ Undo(c, [l EXCEPT !.known = TRUE])
       \/ Trouble /\ Undo(c, [l EXCEPT !.known = FALSE])
    /\ OnNothing

(* The bundle is hidden; when that is in doubt nothing else is taken back.  *)
OrphanBundle(c) ==
    LET l == local[c] IN
    /\ At(c, "orphan")
    /\ \/ Ok /\ Orphan /\ Go(c, "abandon", [l EXCEPT !.orphaned = TRUE])
       \/ /\ Trouble /\ bundle' \in {bundle, "orphaned"}
          /\ Finish(c, [l EXCEPT !.known = FALSE])
    /\ OnBundle

(* A takeover that cannot abandon ends here; a first evaluation looks at    *)
(* the preparation once more.                                               *)
AfterAbandon(c, l) ==
    IF l.recovering THEN Finish(c, l) ELSE Go(c, "cleanup", l)

AbandonPreparation(c) ==
    LET l == local[c]
        following == l.recovering \/ l.record.behavioral = "finalized"
    IN /\ At(c, "abandon")
       /\ \/ /\ Ok /\ MayAbandon /\ Abandon
             /\ IF following THEN Go(c, "mark-abandoned", l)
                ELSE AfterAbandon(c, [l EXCEPT !.clean = TRUE])
          \/ /\ Throws(MayAbandon)
             /\ (MayAbandon /\ Abandon) \/ UNCHANGED preparation
             /\ AfterAbandon(c, l)
       /\ OnPreparation

(* An issued result whose release is gone has failed. *)
TakenBack(r) ==
    [r EXCEPT !.behavioral = IF @ = "finalized" THEN "abandoned" ELSE "consumed",
              !.status = IF @ = "result-issued" THEN "failed" ELSE @]

MarkAbandoned(c) ==
    LET l == local[c]
        next == TakenBack(l.record)
    IN /\ At(c, "mark-abandoned")
       /\ Mark(l.record, next,
               AfterAbandon(c, [l EXCEPT !.record = next, !.clean = TRUE]),
               AfterAbandon(c, l))
       /\ UNCHANGED answers

(* What the catch block does with the preparation it finds.                 *)
MustConsume(l) ==
    IF l.recovering
    THEN /\ l.known
         /\ l.record.behavioral = "prepared"
         /\ l.finalizing = "known-not-committed"
    ELSE /\ l.finalizing # "unsafe-to-consume"
         /\ preparation = "prepared"
         /\ l.finalization => l.orphaned

MustAbandon(l) == ~l.recovering /\ preparation = "finalized" /\ l.orphaned

NothingLeft(l) ==
    \/ l.recovering /\ l.record.behavioral \in {"none", "consumed", "abandoned"}
    \/ /\ ~l.recovering /\ l.finalizing # "unsafe-to-consume"
       /\ \/ preparation \in {"missing", "consumed"}
          \/ preparation = "abandoned" /\ l.orphaned

(* The local record follows, when there is one and it lags behind. *)
Follows(l) == /\ l.record # None
              /\ l.record.behavioral = IF MustConsume(l) THEN "prepared" ELSE "finalized"

Cleanup(c) ==
    LET l == [local[c] EXCEPT !.clean = FALSE]
        done == IF Follows(l) THEN Go(c, "mark-cleaned", l)
                ELSE Finish(c, [l EXCEPT !.clean = TRUE])
    IN /\ At(c, "cleanup")
       /\ \/ Ok /\ MustConsume(l) /\ MayConsumePreparation /\ ConsumePreparation /\ done
          \/ Ok /\ MustAbandon(l) /\ Abandon /\ done
          \/ /\ Ok /\ ~(MustConsume(l) /\ MayConsumePreparation) /\ ~MustAbandon(l)
             /\ UNCHANGED preparation
             /\ Finish(c, [l EXCEPT !.clean = NothingLeft(l)])
          \/ /\ Trouble
             /\ \/ MustConsume(l) /\ MayConsumePreparation /\ ConsumePreparation
                \/ MustAbandon(l) /\ Abandon
                \/ UNCHANGED preparation
             /\ Finish(c, l)
       /\ OnPreparation

MarkCleaned(c) ==
    LET l == local[c]
        next == TakenBack(l.record)
    IN /\ At(c, "mark-cleaned")
       /\ Mark(l.record, next,
               Finish(c, [l EXCEPT !.record = next, !.clean = TRUE]), Finish(c, l))
       /\ UNCHANGED answers

Discard(c) ==
    /\ At(c, "discard")
    /\ \/ Ok /\ raw' = "destroyed"
       \/ Trouble /\ raw' \in {"held", "destroyed"}
    /\ IF local[c].known /\ local[c].clean THEN Go(c, "fail-record", local[c]) ELSE Throw(c)
    /\ UNCHANGED <<preparation, runs>> /\ OnWork

(* The record fails before the claim does.  A first evaluation reads it     *)
(* again; one that does not know whether it was created leaves the claim.   *)
FailRecord(c) ==
    LET l == local[c]
        exact == IF l.recovering THEN l.record ELSE record
        next == [exact EXCEPT !.status = "failed"]
    IN /\ At(c, "fail-record")
       /\ \/ /\ ~l.recovering /\ ~l.checkpoint
             /\ Ok /\ Go(c, "consume-claim", l) /\ UNCHANGED record
          \/ /\ ~l.recovering /\ l.checkpoint /\ l.record = None
             /\ Ok /\ Throw(c) /\ UNCHANGED record
          \/ /\ l.record # None /\ exact.status \in {"open", "result-issued"}
             /\ \/ /\ Ok /\ MayAdvance(exact, next) /\ Advance(next)
                   /\ Go(c, "consume-claim", l)
                \/ /\ Throws(MayAdvance(exact, next))
                   /\ (MayAdvance(exact, next) /\ Advance(next)) \/ UNCHANGED record
                   /\ Throw(c)
          \/ /\ l.record # None /\ exact.status \in {"failed", "completed"}
             /\ IF exact.status = "failed" THEN Go(c, "consume-claim", l) ELSE Throw(c)
             /\ Ok /\ UNCHANGED record
       /\ UNCHANGED <<claim, terminated, preparation, bundle, work>>

ConsumeClaim(c) ==
    LET token == local[c].token IN
    /\ At(c, "consume-claim")
    /\ \/ Ok /\ MayConsume(token) /\ ConsumeFailure
       \/ Throws(MayConsume(token)) /\ UNCHANGED claim
    /\ Throw(c)
    /\ OnLedger

---------------------------------------------------------------------------
(* The takeover of a claim in flight *)

Lookup(c) ==
    /\ At(c, "lookup")
    /\ Ok
    /\ IF record = None THEN Throw(c)
       ELSE Go(c, "takeover", [NoCall EXCEPT !.record = record,
                                             !.envelope = record.envelope,
                                             !.recovering = TRUE])
    /\ OnNothing

(* Where the recovery continues from the record it read. *)
Resume(c, token) ==
    LET l == [local[c] EXCEPT !.token = token]
        r == l.record
    IN CASE r.status = "failed" -> Go(c, "consume-claim", l)
         [] r.status = "completed" -> Throw(c)
         [] r.status = "result-issued" /\ r.behavioral # "finalized" -> Go(c, "complete", l)
         [] r.status = "open" /\ r.behavioral = "abandoned" -> Raise(c, l)
         [] r.status = "open" /\ r.behavioral \in {"none", "consumed"} -> Go(c, "issue", l)
         [] OTHER -> Go(c, "check", l)

(* A claim that was settled meanwhile: the result must be the recorded one. *)
Settled(c) ==
    IF /\ claim.status = "completed"
       /\ local[c].envelope = claim.envelope
       /\ local[c].record.status \in {"result-issued", "completed"}
    THEN Go(c, "answer", local[c]) ELSE Throw(c)

(* recoverInFlight observes the claim and asks the authority ... *)
Takeover(c) ==
    LET owner == Controller(c) IN
    /\ At(c, "takeover")
    /\ Ok
    /\ IF ~InFlight THEN Settled(c)
       ELSE IF HeldByRecovery(owner, local[c].record)
            THEN Resume(c, claim.token)
            ELSE IF MayAuthorize(owner)
                 THEN Go(c, "rotate", [local[c] EXCEPT !.token = claim.token])
                 ELSE Throw(c)
    /\ OnNothing

(* ... and rotates the token if nothing changed while it decided. *)
RotateClaim(c) ==
    /\ At(c, "rotate")
    /\ \/ /\ Unchanged(local[c].token)
          /\ Rotate(Controller(c), local[c].record)
          /\ \/ Ok /\ Resume(c, claim.token + 1)
             \/ Trouble /\ Throw(c)
       \/ /\ ~Unchanged(local[c].token) /\ Ok /\ UNCHANGED claim
          /\ IF InFlight THEN Throw(c) ELSE Settled(c)
    /\ OnLedger

(* The preparation decides where a checkpointed release stands. *)
Checked(r) ==
    CASE r.behavioral = "prepared" /\ preparation = "prepared" -> "finalize"
      [] r.behavioral = "prepared" /\ preparation = "finalized" -> "mark-finalized"
      [] r.behavioral = "prepared" /\ preparation = "consumed" -> "mark-consumed"
      [] r.behavioral = "finalized" /\ preparation = "finalized" ->
             IF r.status = "open" THEN "issue" ELSE "complete"
      [] OTHER -> "detached"

Check(c) ==
    LET l == local[c]
        gone == [l.record EXCEPT !.behavioral = "abandoned",
                    !.status = IF @ = "result-issued" THEN "failed" ELSE @]
    IN /\ At(c, "check")
       /\ \/ /\ preparation = "abandoned"
             /\ Mark(l.record, gone, Raise(c, [l EXCEPT !.record = gone]), Raise(c, l))
             /\ UNCHANGED answers
          \/ /\ preparation # "abandoned"
             /\ \/ /\ Ok /\ Checked(l.record) # "detached"
                   /\ Go(c, Checked(l.record), l)
                \/ Ok /\ Checked(l.record) = "detached" /\ Raise(c, l)
                \/ Trouble /\ Raise(c, l)
             /\ OnNothing

(* A completed claim is answered once its record says so, too.  A takeover  *)
(* goes by the record it read.                                              *)
AnswerCompleted(c) ==
    LET l == local[c]
        r == IF l.recovering THEN l.record ELSE record
    IN /\ At(c, "answer")
       /\ \/ /\ \/ r = None
                \/ r.status = "completed" /\ r.envelope = l.envelope
             /\ Ok /\ Answer(c, l.envelope)
             /\ UNCHANGED <<claim, terminated, stores, raw, runs>>
          \/ /\ r # None /\ r.status = "result-issued" /\ r.envelope = l.envelope
             /\ Mark(r, Completed(r), Answer(c, l.envelope),
                     Throw(c) /\ UNCHANGED answers)
          \/ /\ r # None
             /\ \/ r.status \in {"open", "failed"}
                \/ r.envelope # l.envelope
             /\ Ok /\ Throw(c) /\ OnNothing

---------------------------------------------------------------------------
(* The provider terminates a controller, whatever it was doing. *)
Crash(k) ==
    /\ k \notin terminated
    /\ Trouble
    /\ terminated' = terminated \cup {k}
    /\ pc' = [c \in Calls |-> IF Controller(c) = k THEN "down" ELSE pc[c]]
    /\ local' = [c \in Calls |-> IF Controller(c) = k THEN NoCall ELSE local[c]]
    /\ UNCHANGED <<claim, stores, work>>

FirstStep(c) ==
    \/ Evaluate(c) \/ Bind(c) \/ Run(c) \/ Derive(c) \/ Destroy(c) \/ Create(c)
    \/ ProducerFinalize(c) \/ Consume(c) \/ StoreFinalization(c)
    \/ MarkBehavioral(c) \/ Issue(c) \/ CompleteClaim(c) \/ MarkCompleted(c)

CatchStep(c) ==
    \/ Inspect(c) \/ OrphanBundle(c) \/ AbandonPreparation(c) \/ MarkAbandoned(c)
    \/ Cleanup(c) \/ MarkCleaned(c) \/ Discard(c) \/ FailRecord(c) \/ ConsumeClaim(c)

TakeoverStep(c) ==
    \/ Lookup(c) \/ Takeover(c) \/ RotateClaim(c) \/ Check(c) \/ AnswerCompleted(c)

Step(c) == FirstStep(c) \/ CatchStep(c) \/ TakeoverStep(c)

Next == \/ \E c \in Calls : Step(c)
        \/ \E k \in Controllers : Crash(k)

Spec == Init /\ [][Next]_vars

(* Every call runs on, and a caller that was told to retry does. *)
FairSpec == Spec /\ \A c \in Calls : WF_vars(Step(c))

---------------------------------------------------------------------------
(* Properties *)

(* The claim, the stores and the calls hold values of their types.          *)
TypeOK ==
    /\ claim \in Claims(Records) \cup {None}
    /\ terminated \subseteq Controllers
    /\ record \in Records \cup {None}
    /\ record # None => Consistent(record)
    /\ preparation \in Preparations
    /\ bundle \in {"absent", "visible", "orphaned"}
    /\ raw \in {"none", "held", "destroyed"}
    /\ answers \subseteq Envelopes
    /\ local \in [Calls -> Locals]
    /\ faults \in 0 .. MaxFaults

(* The ledger and the recovery record tell one story: a completed claim     *)
(* holds the recorded result, a consumed one has a failed record or none,   *)
(* and a record is completed only after its claim (service.ts: the result   *)
(* is recorded before complete, the record fails before the claim does).    *)
(* The record of a completed claim may have failed: see the hazards.        *)
StoresAgree ==
    /\ TypeOK
    /\ claim # None /\ claim.status = "completed" =>
          /\ record # None
          /\ record.status # "open"
          /\ record.envelope = claim.envelope
    /\ claim # None /\ claim.status = "consumed" =>
          record = None \/ record.status = "failed"
    /\ record # None /\ record.status = "completed" =>
          claim # None /\ claim.status = "completed"

(* A consumed claim leaves no preparation that could still release, an      *)
(* abandoned preparation no bundle that is visible; a completed claim that  *)
(* names a release has its preparation finalized (the verified cleanup that *)
(* consumeFailure waits for).                                               *)
NothingReleasable ==
    /\ claim # None /\ claim.status = "consumed" =>
          preparation \notin {"prepared", "finalized"}
    /\ preparation = "abandoned" => bundle = "orphaned"
    /\ claim # None /\ claim.status = "completed" /\ claim.envelope.named =>
          preparation = "finalized"

(* A completed claim names no release that has been taken back: the orphan  *)
(* receipt is attached to the preparation "so recovery cannot reissue an    *)
(* invisible release" (PLAN.md:870).  A crash between the two breaks it.    *)
NamedReleaseVisible ==
    claim # None /\ claim.status = "completed" /\ claim.envelope.named =>
        bundle = "visible"

(* The evaluator keeps its promise for the request: one run of the hidden   *)
(* tasks, one end, and no answer but the result it ended in.                *)
Promise == INSTANCE OneUseRequest WITH
    phase <- CASE claim = None -> "new"
               [] InFlight -> "claimed"
               [] OTHER -> claim.status,
    result <- IF claim = None THEN None ELSE claim.envelope

KeepsPromise == Promise!RequestSpec

(* The record can follow the preparation only through finalized. *)
Unrecordable == record.behavioral = "prepared" /\ preparation = "abandoned"

(* Once the owner of a claim with a record is terminated and nothing fails  *)
(* any more, a caller's retry settles the claim (recoverPostDestruction).   *)
Recoverable ==
    /\ InFlight /\ claim.attested /\ claim.owner \in terminated
    /\ record # None /\ ~Unrecordable
    /\ faults = MaxFaults
    /\ terminated # Controllers
    /\ \A c \in Calls : pc[c] \in {"idle", "down"}

Settles == Recoverable ~> ~InFlight
=============================================================================
