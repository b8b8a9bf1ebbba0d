------------------------------ MODULE ExperimentRun ------------------------------
(***************************************************************************)
(* One controller process running experiments (orchestrator/                *)
(* experiment-runner.ts) over the journal, the blind broker and the         *)
(* evidence store.  It may be told to stop, a call may fail, and it may die *)
(* between any two durable steps or inside a lock of the evidence store;    *)
(* the coordinator then runs the same experiment again, or gives it up and  *)
(* goes on with the next.                                                   *)
(*                                                                          *)
(* pc is the next durable step with its subject: a journal operation is     *)
(* <<"begin", op>>, <<"event", op>>, <<"commit", op>>.                      *)
(***************************************************************************)
EXTENDS ExperimentJournal, EvidenceStore, BlindBroker

CONSTANTS
    MaxFaults,      \* bound: crashes and failing calls
    StopAllowed     \* whether a stop may be requested

ASSUME RunAssumption == MaxFaults \in Nat /\ StopAllowed \in BOOLEAN

VARIABLES
    pc,
    cur,            \* the experiment in flight
    holds,          \* validationLease: None, "unstarted" or "started"
    phase,          \* the phase a throw is reported in
    stop,           \* "no", "requested" or, once consumed, "spent"
    unattended,     \* history: experiments whose failure nobody handled
    faults          \* spent of the bound

runVars == <<pc, cur, holds, phase, stop, unattended, faults>>
vars == <<entries, pending, head, evidence, leftLocks, leases, runVars>>

Step == pc[1]
Subject == pc[2]
At(step) == Step = step

OnlyRun == UNCHANGED <<journalVars, evidenceVars, leases>>
Stay == UNCHANGED <<cur, holds, stop, unattended, faults>>

----------------------------------------------------------------------------
(* The order of a run.                                                       *)

(* A validation whose spend is recorded is consumed before its result is. *)
AfterSpend == <<"dispose", "validation">>

(* Fault: a brief is charged without a release. *)
AfterAnalysis_ChargeOnly(e) ==
    <<"begin", IF Released(e) THEN "diagnostic-budget" ELSE "seal">>
(* A brief is released before it is charged. *)
AfterAnalysis(e) == IF Released(e) THEN <<"release", None>> ELSE <<"begin", "seal">>

(* What follows an operation (e: the record after it). *)
After(n, op) ==
    LET e == entries'[n] IN
    CASE op = "create" -> <<"begin", "proposal">>
      [] op = "proposal" -> <<"begin", "gates">>
      [] op = "gates" -> <<"begin", "gates-budget">>
      [] op = "gates-budget" /\ ~GatesPassed(e) -> <<"begin", "analysis">>
      [] op = "gates-budget" /\ n > 1 -> <<"prepare", "repair">>
      [] op = "repair" -> <<"begin", "repair-budget">>
      [] op = "repair-budget" /\ e.repair # "passed" -> <<"begin", "analysis">>
      [] op \in {"gates-budget", "repair-budget"} -> <<"begin", "pre-validation-budget">>
      [] op = "pre-validation-budget" -> <<"prepare", "validation">>
      [] op = "validation-budget" -> AfterSpend
      [] op = "validation" -> <<"begin", "analysis">>
      [] op = "analysis" -> AfterAnalysis(e)
      [] op = "diagnostic-budget" -> <<"begin", "seal">>
      [] op = "seal" -> <<"done", None>>
(* The phase the runner is in during a step; a closure without validation    *)
(* stays in the phase that led to it.                                        *)
PhaseOf(n, op) ==
    CASE op = "create" -> "create"
      [] op = "proposal" -> "optimizer-proposal"
      [] op \in {"gates", "gates-budget"} -> "cloud-correctness-gates"
      [] op \in {"repair", "repair-budget"} -> "repair"
      [] op \in {"pre-validation-budget", "validation-budget"} -> "fresh-validation"
      [] op = "validation" -> "consume-validation"
      [] Done(n, "validation") -> IF op = "analysis" THEN "optimizer-analysis"
                                                     ELSE "diagnostic-release"
      [] OTHER -> IF Done(n, "repair") THEN "repair" ELSE "cloud-correctness-gates"
PhaseAt(n) ==
    CASE Step \in {"prepare", "start", "claim", "bind", "evaluate"} ->
            IF Subject = "repair" THEN "repair" ELSE "fresh-validation"
      [] At("dispose") -> IF Subject = "repair" THEN "repair" ELSE "consume-validation"
      [] Step \in {"release", "publish"} -> "diagnostic-release"
      [] OTHER -> PhaseOf(n, Subject)

Goto(next) == pc' = next /\ UNCHANGED phase
(* Errors of create leave no trace; of an evaluation, they fail the lease. *)
Throw ==
    /\ phase' = PhaseAt(cur)
    /\ pc' = IF Subject = "create" THEN <<"thrown", None>>
             ELSE IF Step \in {"bind", "evaluate"} \/ pc = <<"dispose", "repair">>
             THEN <<"failEvaluation", Subject>>
             ELSE <<"catch", None>>

(* checkStop: where a run looks at the stop request. *)
StopChecked(n, op) ==
    \/ op \in {"create", "proposal"}
    \/ op = "gates-budget" /\ GatesPassed(entries'[n])
    \/ op = "repair-budget" /\ entries'[n].repair = "passed"
Advance(op) ==
    IF stop = "requested" /\ StopChecked(cur, op)
    THEN pc' = <<"catch", None>> /\ phase' = PhaseOf(cur, op)
    ELSE Goto(After(cur, op))

----------------------------------------------------------------------------
(* A journal operation.                                                      *)

(* The durable ports answer a repeated call as they did the first. *)
Answers(op) ==
    IF pending # None /\ pending.number = cur /\ pending.op = op THEN {pending.input}
    ELSE IF op \in Stages THEN {Lease(cur, op).result}
    ELSE Inputs(op)

Begin ==
    LET op == Subject IN
    /\ At("begin")
    /\ IF Done(cur, op) THEN UNCHANGED journalVars /\ Advance(op)
       ELSE \E input \in Answers(op) :
               IF MayBegin(cur, op, input)
               THEN /\ BeginOp(cur, op, input)
                    /\ Goto(<<IF op = "create" THEN "allocate" ELSE "event", op>>)
               ELSE UNCHANGED journalVars /\ Throw
    /\ UNCHANGED <<evidenceVars, leases>> /\ Stay

AllocateDirectory ==
    /\ At("allocate")
    /\ IF Allocated(cur) THEN UNCHANGED evidence /\ Goto(<<"event", "create">>)
       ELSE IF MayAllocate(cur) THEN Allocate(cur) /\ Goto(<<"event", "create">>)
       ELSE UNCHANGED evidence /\ Throw
    /\ UNCHANGED <<journalVars, leftLocks, leases>> /\ Stay

(* ensureEvent: an event already there must be the head of the chain. *)
HasEvent(n, event) == \E i \in DOMAIN Events(n) : Events(n)[i] = event
EventIsHead(n, event) == Events(n) # <<>> /\ Events(n)[Len(Events(n))] = event
EventAccepted(n, event) == IF HasEvent(n, event) THEN EventIsHead(n, event) ELSE MayMutate(n)
(* Fault: an event is appended again by a run that repeats its operation. *)
EventLeft_Again(n, event) == MayMutate(n)
EventLeft(n, event) == ~HasEvent(n, event) /\ MayMutate(n)
EnsureEvent(n, event) ==
    IF EventLeft(n, event) THEN AppendEvent(n, event) ELSE UNCHANGED evidence

RecordEvent ==
    LET op == Subject IN
    /\ At("event")
    /\ EnsureEvent(cur, op)
    /\ IF EventAccepted(cur, op) THEN Goto(<<IF op = "seal" THEN "artifacts" ELSE "commit", op>>)
       ELSE Throw
    /\ UNCHANGED <<journalVars, leftLocks, leases>> /\ Stay

Conclude(op) ==
    CASE op = "create" -> CompleteCreate(cur, 0)
      [] op = "seal" -> CompleteSeal(cur)
      [] OTHER -> CompleteOp(cur, op, pending.input)

Commit ==
    LET op == Subject IN
    /\ At("commit")
    /\ Conclude(op)
    /\ Advance(op)
    /\ UNCHANGED <<evidenceVars, leases>> /\ Stay

----------------------------------------------------------------------------
(* Sealing.                                                                  *)

WriteSealArtifacts ==
    /\ At("artifacts")
    /\ IF evidence[cur].artifacts THEN UNCHANGED evidence /\ Goto(<<"attestation", "seal">>)
       ELSE IF MayMutate(cur) THEN WriteArtifacts(cur) /\ Goto(<<"attestation", "seal">>)
       ELSE UNCHANGED evidence /\ Throw
    /\ UNCHANGED <<journalVars, leftLocks, leases>> /\ Stay

(* An attestation that is there is verified; otherwise the snapshot for the  *)
(* leak scan is taken and the authority asked.                               *)
LookForAttestation ==
    /\ At("attestation")
    /\ IF Attested(cur) /\ evidence[cur].attestation.previous = head
       THEN Goto(<<"commit", "seal">>)
       ELSE IF MayMutate(cur) THEN Goto(<<"authorized", "seal">>)
       ELSE Throw
    /\ OnlyRun /\ Stay

AppendSealEvent ==
    /\ At("authorized")
    /\ IF MaySeal(cur, head)
       THEN AppendEvent(cur, "experiment-sealed") /\ Goto(<<"attest", "seal">>)
       ELSE UNCHANGED evidence /\ Throw
    /\ UNCHANGED <<journalVars, leftLocks, leases>> /\ Stay

InstallAttestation ==
    /\ At("attest")
    /\ Attest(cur, PriorSeal(cur))
    /\ Goto(<<"verify", "seal">>)
    /\ UNCHANGED <<journalVars, leftLocks, leases>> /\ Stay

VerifySeal ==
    /\ At("verify")
    /\ Goto(<<"commit", "seal">>)
    /\ OnlyRun /\ Stay

----------------------------------------------------------------------------
(* Evaluations.                                                              *)

PrepareLease ==
    LET s == Subject IN
    /\ At("prepare")
    /\ IF MayPrepare(cur, s)
       THEN /\ Prepare(cur, s)
            /\ Goto(IF s = "repair" THEN <<"claim", s>> ELSE <<"start", s>>)
            /\ holds' = IF s = "validation" THEN "unstarted" ELSE holds
       ELSE UNCHANGED <<leases, holds>> /\ Throw
    /\ UNCHANGED <<journalVars, evidenceVars, cur, stop, unattended, faults>>

(* The lease's own terms have been checked. *)
StartValidation ==
    /\ At("start")
    /\ holds' = "started" /\ Goto(<<"claim", "validation">>)
    /\ OnlyRun /\ UNCHANGED <<cur, stop, unattended, faults>>

Claim ==
    /\ At("claim")
    /\ IF MayClaim(cur, Subject)
       THEN ClaimLease(cur, Subject) /\ Goto(<<"bind", Subject>>)
       ELSE UNCHANGED leases /\ Throw
    /\ UNCHANGED <<journalVars, evidenceVars>> /\ Stay

Bind ==
    /\ At("bind")
    /\ BindRequest(cur, Subject) /\ Goto(<<"evaluate", Subject>>)
    /\ UNCHANGED <<journalVars, evidenceVars>> /\ Stay

Evaluate ==
    /\ At("evaluate")
    /\ \E result \in Inputs(Subject) : RecordResult(cur, Subject, result)
    /\ Goto(IF Subject = "repair" THEN <<"dispose", "repair">>
                                  ELSE <<"begin", "validation-budget">>)
    /\ UNCHANGED <<journalVars, evidenceVars>> /\ Stay

(* A decided lease is consumed: a repair by the broker itself, a validation  *)
(* by the runner once its spend is recorded.                                 *)
DisposeDecided ==
    LET s == Subject IN
    /\ At("dispose")
    /\ IF MayDispose(cur, s, "decided")
       THEN /\ Dispose(cur, s, "decided") /\ Goto(<<"begin", s>>)
            /\ holds' = IF s = "validation" THEN None ELSE holds
       ELSE UNCHANGED <<leases, holds>> /\ Throw
    /\ UNCHANGED <<journalVars, evidenceVars, cur, stop, unattended, faults>>

ClaimRelease ==
    /\ At("release")
    /\ IF MayClaimRelease(cur)
       THEN SetDiagnostic(cur, "releasing") /\ Goto(<<"publish", None>>)
       ELSE UNCHANGED leases /\ Throw
    /\ UNCHANGED <<journalVars, evidenceVars>> /\ Stay

(* The brief is published once; the broker records it before it returns it.  *)
Publish ==
    /\ At("publish")
    /\ SetDiagnostic(cur, "released") /\ Goto(<<"begin", "diagnostic-budget">>)
    /\ UNCHANGED <<journalVars, evidenceVars>> /\ Stay

----------------------------------------------------------------------------
(* Errors.                                                                   *)

FailLease ==
    LET s == Subject IN
    /\ At("failEvaluation")
    /\ FailEvaluation(cur, s)
    /\ Goto(IF s = "repair" THEN <<"abandon", s>> ELSE <<"catch", None>>)
    /\ UNCHANGED <<journalVars, evidenceVars>> /\ Stay

AbandonRepair ==
    /\ At("abandon")
    /\ IF MayDispose(cur, "repair", "started-abandoned")
       THEN Dispose(cur, "repair", "started-abandoned") ELSE UNCHANGED leases
    /\ Goto(<<"catch", None>>)
    /\ UNCHANGED <<journalVars, evidenceVars>> /\ Stay

(* The runner's catch: a lease it holds is quarantined first, and when that  *)
(* fails the journal is not told.                                            *)
QuarantineOutcome == IF holds = "started" THEN "started-abandoned" ELSE "sealed-unstarted"
Catch ==
    /\ At("catch")
    /\ IF holds = None THEN UNCHANGED leases /\ Goto(<<"interrupt", None>>)
       ELSE IF MayDispose(cur, "validation", QuarantineOutcome)
       THEN Dispose(cur, "validation", QuarantineOutcome) /\ Goto(<<"interrupt", None>>)
       ELSE UNCHANGED leases /\ Goto(<<"thrown", None>>)
    /\ UNCHANGED <<journalVars, evidenceVars>> /\ Stay

(* A pending seal whose attestation exists is kept for a retry. *)
SealRecoverable(n) == pending # None /\ pending.op = "seal" /\ Attested(n)
Interrupt ==
    /\ At("interrupt")
    /\ IF entries[cur].status = "interrupted"
       THEN /\ UNCHANGED journalVars
            /\ Goto(<<IF entries[cur].interruptedIn = phase THEN "interruptEvent" ELSE "thrown",
                      None>>)
       ELSE IF MayInterrupt(cur) /\ ~SealRecoverable(cur)
       THEN InterruptOp(cur, phase) /\ Goto(<<"interruptEvent", None>>)
       ELSE UNCHANGED journalVars /\ Goto(<<"thrown", None>>)
    /\ UNCHANGED <<evidenceVars, leases>> /\ Stay

InterruptEvent ==
    /\ At("interruptEvent")
    /\ EnsureEvent(cur, "interrupt")
    /\ Goto(<<"thrown", None>>)
    /\ UNCHANGED <<journalVars, leftLocks, leases>> /\ Stay

----------------------------------------------------------------------------
(* The coordinator: it goes on after a result, and after a failure it could  *)
(* account for; a sealed or unknown experiment cannot be given up.           *)

NextExperiment ==
    IF cur = MaxExperiments
    THEN pc' = <<"finished", None>> /\ UNCHANGED <<cur, holds, phase, stop>>
    ELSE /\ pc' = <<"begin", "create">> /\ cur' = cur + 1
         /\ holds' = None /\ phase' = None
         /\ stop' = IF stop = "requested" THEN "spent" ELSE stop

GiveUp ==
    IF Known(cur) /\ ~Sealed(cur) THEN NextExperiment
    ELSE pc' = <<"stuck", None>> /\ UNCHANGED <<cur, holds, phase, stop>>

Complete == At("done") /\ NextExperiment /\ OnlyRun /\ UNCHANGED <<unattended, faults>>
Thrown == At("thrown") /\ GiveUp /\ OnlyRun /\ UNCHANGED <<unattended, faults>>

(* A new process runs the experiment in flight again, unless it was stopped  *)
(* in the meantime.                                                          *)
Restart ==
    /\ At("down")
    /\ IF stop = "requested"
       THEN GiveUp /\ unattended' = unattended \cup {cur}
       ELSE /\ pc' = <<"begin", "create">>
            /\ UNCHANGED <<cur, holds, phase, stop, unattended>>
    /\ OnlyRun /\ UNCHANGED faults

----------------------------------------------------------------------------
(* The environment.                                                          *)

Resting == {"down", "finished", "stuck"}
Handling == {"catch", "interrupt", "interruptEvent"}

RequestStop ==
    /\ StopAllowed /\ stop = "no" /\ Step \notin {"finished", "stuck"}
    /\ stop' = "requested"
    /\ OnlyRun /\ UNCHANGED <<pc, cur, holds, phase, unattended, faults>>

(* The runner does not know that there is an experiment to interrupt when    *)
(* the call that fails is its creation.                                      *)
Unheard == IF Subject = "create" /\ Known(cur)' THEN {cur} ELSE {}

(* A call fails before it has had an effect; inside a seal, the lock is      *)
(* released on the way out.                                                  *)
CallFails ==
    /\ faults < MaxFaults /\ faults' = faults + 1
    /\ Step \notin Resting \cup Handling \cup {"thrown", "done", "failEvaluation", "abandon"}
    /\ Throw
    /\ OnlyRun /\ UNCHANGED <<cur, holds, stop>>
    /\ unattended' = unattended \cup Unheard

(* Or a store commits and then throws.  After any other step this is the     *)
(* same as a failure of the next call.                                       *)
Effect ==
    \/ At("commit") /\ Conclude(Subject) /\ UNCHANGED leases
    \/ /\ \/ At("prepare") /\ MayPrepare(cur, Subject) /\ Prepare(cur, Subject)
          \/ At("claim") /\ MayClaim(cur, Subject) /\ ClaimLease(cur, Subject)
          \/ At("evaluate")
             /\ \E result \in Inputs(Subject) : RecordResult(cur, Subject, result)
          \/ /\ At("dispose") /\ MayDispose(cur, Subject, "decided")
             /\ Dispose(cur, Subject, "decided")
       /\ UNCHANGED journalVars
AnswerLost ==
    /\ faults < MaxFaults /\ faults' = faults + 1
    /\ Effect
    /\ Throw
    /\ UNCHANGED <<evidenceVars, cur, holds, stop>>
    /\ unattended' = unattended \cup Unheard

HandlerFails ==
    /\ faults < MaxFaults /\ faults' = faults + 1
    /\ \/ Step \in Handling /\ Goto(<<"thrown", None>>) /\ unattended' = unattended \cup {cur}
       \/ Step \in {"failEvaluation", "abandon"} /\ Goto(<<"catch", None>>) /\ UNCHANGED unattended
    /\ OnlyRun /\ UNCHANGED <<cur, holds, stop>>
HandlerAnswerLost ==
    /\ faults < MaxFaults /\ faults' = faults + 1
    /\ \/ /\ pc = <<"failEvaluation", "repair">> /\ FailEvaluation(cur, "repair")
          /\ Goto(<<"catch", None>>) /\ UNCHANGED <<journalVars, unattended>>
       \/ /\ At("catch") /\ holds # None
          /\ MayDispose(cur, "validation", QuarantineOutcome)
          /\ Dispose(cur, "validation", QuarantineOutcome)
          /\ Goto(<<"thrown", None>>) /\ unattended' = unattended \cup {cur}
          /\ UNCHANGED journalVars
       \/ /\ At("interrupt") /\ MayInterrupt(cur) /\ ~SealRecoverable(cur)
          /\ InterruptOp(cur, phase)
          /\ Goto(<<"thrown", None>>) /\ unattended' = unattended \cup {cur}
          /\ UNCHANGED leases
    /\ UNCHANGED <<evidenceVars, cur, holds, stop>>

(* A publication the broker rejects burns the diagnostic. *)
ReleaseRejected ==
    /\ faults < MaxFaults /\ faults' = faults + 1
    /\ At("publish")
    /\ SetDiagnostic(cur, "burned") /\ Throw
    /\ UNCHANGED <<journalVars, evidenceVars, cur, holds, stop, unattended>>

(* The steps that take or have a lock of the evidence store, and what they   *)
(* change under it. *)
UnderLock ==
    \/ At("allocate") /\ MayAllocate(cur)
    \/ At("event") /\ EventLeft(cur, Subject)
    \/ At("interruptEvent") /\ EventLeft(cur, "interrupt")
    \/ Step \in {"artifacts", "attestation"} /\ MayMutate(cur)
    \/ At("authorized") /\ MaySeal(cur, head)
    \/ Step \in {"attest", "verify"}
Mutation ==
    CASE At("allocate") -> Allocate(cur)
      [] At("event") -> AppendEvent(cur, Subject)
      [] At("interruptEvent") -> AppendEvent(cur, "interrupt")
      [] At("artifacts") -> WriteArtifacts(cur)
      [] At("authorized") -> AppendEvent(cur, "experiment-sealed")
      [] At("attest") -> Attest(cur, PriorSeal(cur))
      [] OTHER -> UNCHANGED evidence
LockOfStep == IF At("allocate") THEN Allocation ELSE cur

Crash ==
    /\ faults < MaxFaults /\ faults' = faults + 1
    /\ Step \notin Resting
    /\ \/ Step \notin {"attest", "verify"} /\ UNCHANGED evidenceVars
       \/ /\ UnderLock
          /\ leftLocks' = leftLocks \cup {LockOfStep}
          /\ Mutation \/ UNCHANGED evidence
    /\ pc' = <<"down", None>> /\ holds' = None /\ phase' = None
    /\ UNCHANGED <<journalVars, leases, cur, stop, unattended>>

----------------------------------------------------------------------------
Init ==
    /\ JournalInit /\ EvidenceInit /\ LeasesInit
    /\ pc = <<"begin", "create">> /\ cur = 1
    /\ holds = None /\ phase = None /\ stop = "no"
    /\ unattended = {} /\ faults = 0

Process ==
    \/ Begin \/ AllocateDirectory \/ RecordEvent \/ Commit
    \/ WriteSealArtifacts \/ LookForAttestation \/ AppendSealEvent
    \/ InstallAttestation \/ VerifySeal
    \/ PrepareLease \/ StartValidation \/ Claim \/ Bind \/ Evaluate \/ DisposeDecided
    \/ ClaimRelease \/ Publish
    \/ FailLease \/ AbandonRepair \/ Catch \/ Interrupt \/ InterruptEvent
    \/ Complete \/ Thrown \/ Restart

Environment ==
    \/ RequestStop \/ CallFails \/ AnswerLost \/ HandlerFails \/ HandlerAnswerLost
    \/ ReleaseRejected \/ Crash

(* Nothing is left to do. *)
Over == Step \in {"finished", "stuck"} /\ UNCHANGED vars

Next == Process \/ Environment \/ Over
Spec == Init /\ [][Next]_vars

(* The controller goes on, and is started again after a crash. *)
FairSpec == Spec /\ WF_vars(Process)

----------------------------------------------------------------------------
(* Properties.                                                               *)

Steps == {"begin", "event", "commit", "allocate", "artifacts", "attestation", "authorized",
          "attest", "verify", "prepare", "start", "claim", "bind", "evaluate", "dispose",
          "release", "publish", "failEvaluation", "abandon", "catch", "interrupt",
          "interruptEvent", "done", "thrown", "down", "finished", "stuck"}

EventNames == JournalOps \cup {"experiment-sealed", "interrupt"}
DirectoryType ==
    [ events : Seq(EventNames), artifacts : BOOLEAN,
      attestation : [previous : Nat] \cup {None} ]
LeaseType(s) ==
    [ status : {"prepared", "running", "evaluated", "evaluation-failed", "disposed"},
      requested : BOOLEAN, outcome : Outcomes \cup {None},
      result : Inputs(s) \cup {None},
      diagnostic : {"none", "eligible", "releasing", "released", "burned"} ]

ASSUME StoresAssumption ==
    /\ None \notin Outcomes \cup {"unstarted", "started"}
    /\ None \notin DirectoryType /\ None \notin [previous : Nat]
    /\ \A s \in Stages : None \notin LeaseType(s)

(* The states of the run, the journal, the evidence and the leases. *)
TypeOK ==
    /\ pc \in Steps \X (JournalOps \cup {None})
    /\ cur \in Numbers /\ holds \in {None, "unstarted", "started"}
    /\ phase \in Phases \cup {None}
    /\ stop \in {"no", "requested", "spent"} /\ unattended \subseteq Numbers
    /\ faults \in 0 .. MaxFaults
    /\ entries \in Seq(EntryType) /\ head \in Nat
    /\ pending # None => \E op \in JournalOps : pending \in ClaimType(op)
    /\ evidence \in [Numbers -> DirectoryType \cup {None}]
    /\ leftLocks \subseteq Numbers \cup {Allocation}
    /\ leases = [n \in Numbers |-> [s \in Stages |-> leases[n][s]]]
    /\ \A n \in Numbers, s \in Stages : leases[n][s] \in LeaseType(s) \cup {None}

(* No state the journal commits fails the validation the next transaction    *)
(* runs over it, and run, claims and leases are in states of the code.       *)
JournalReadable == TypeOK /\ Readable

(* Every receipt of the journal has its event in the evidence, in the same   *)
(* order and before any other, and the evidence is ahead by at most the one  *)
(* operation that was claimed, whatever crashed or was abandoned in between. *)
WriteAhead ==
    \A n \in DOMAIN entries :
        /\ Allocated(n)
        /\ LET events == Events(n) done == entries[n].done IN
           /\ Len(done) <= Len(events)
           /\ \A i \in DOMAIN done : events[i] = done[i]
           /\ \A i \in DOMAIN events : i > Len(done) + 1 => events[i] \notin JournalOps

(* The seal chain of the journal and the attestations of the evidence store  *)
(* agree: what the journal sealed is attested behind the same predecessor,   *)
(* and an attestation is never given up: its experiment is sealed in the     *)
(* journal, or its claim is still there to be completed.                     *)
LineageAgrees ==
    /\ Lineage
    /\ \A n \in DOMAIN entries : Sealed(n) =>
          Attested(n) /\ evidence[n].attestation.previous = entries[n].previous
    /\ \A n \in Numbers : Attested(n) => Sealed(n) \/ Claimed(n, "seal", None)

(* A brief that was released is charged when its experiment is sealed, and   *)
(* nothing is charged that was not released.                                 *)
ReleaseCharged ==
    \A n \in DOMAIN entries :
        LET released == Leased(n, "validation") /\ Diagnostic(n) = "released" IN
        /\ Done(n, "diagnostic-budget") => released
        /\ Sealed(n) /\ released => Done(n, "diagnostic-budget")

(* A lease is for one use: once started it is never prepared again, and once *)
(* disposed its outcome and its result stay.                                 *)
OneUse ==
    [][\A n \in Numbers, s \in Stages : Leased(n, s) =>
          /\ Status(n, s) # "prepared" => Status(n, s)' # "prepared"
          /\ Status(n, s) = "disposed" =>
                /\ Lease(n, s)'.outcome = Lease(n, s).outcome
                /\ Lease(n, s)'.result = Lease(n, s).result]_vars

(* The ways an experiment can be left open in the journal: a lock file of a  *)
(* dead process, an attested seal that cannot be completed, a quarantine     *)
(* refused because the validation has a result, or has been consumed by a    *)
(* call whose answer was lost, or nobody to handle its failure.              *)
LeftOpen(n) ==
    \/ n \in leftLocks
    \/ Attested(n)
    \/ /\ Leased(n, "validation") /\ ~Done(n, "validation")
       /\ Status(n, "validation") = "evaluated" \/ Decided(n, "validation")
    \/ n \in unattended

(* The coordinator has gone on, or stopped.                                  *)
GivenUp(n) == n < cur \/ Step \in {"finished", "stuck"}

(* Under fairness, an active experiment ends and a claim is settled, however *)
(* many crashes come in between, but for an experiment that was given up in  *)
(* one of these cases, and one whose creation failed.                        *)
Settles ==
    \A n \in Numbers :
        /\ Active(n) ~> (~Active(n) \/ (GivenUp(n) /\ LeftOpen(n)))
        /\ (pending # None /\ pending.number = n) ~>
              \/ pending = None
              \/ GivenUp(n) /\ LeftOpen(n)
              \/ At("stuck") /\ ~Known(n)

=============================================================================
