---------------------------- MODULE OptimizationLoop ----------------------------
(***************************************************************************)
(* One controller process of the autonomous optimizer: the loop             *)
(* (orchestrator/autonomous-loop.ts) over the coordinator                   *)
(* (campaign-state-coordinator.ts) and its completion material, composed    *)
(* with the campaign state store, the journal of the experiments and the    *)
(* coordination ports, while an operator uses the store's other operations  *)
(* and the process may crash between any two steps.                         *)
(*                                                                          *)
(* The process is at pc, holds the position "cur" of the last state it      *)
(* read or wrote (its hash) and writes only by compare and swap on it.      *)
(***************************************************************************)
EXTENDS CoordinationPorts, JournalOutcome

CONSTANTS
    MaxFaults,      \* bound: crashes and failing collaborators
    MaxOps          \* bound: operator operations

ASSUME LoopAssumption == MaxFaults \in Nat /\ MaxOps \in Nat

VARIABLES
    pc,         \* where the controller process is
    cur,        \* position of the state it holds
    faults, ops \* spent of the bounds

loopVars == <<states, lock, interruptions, records, pc, cur, faults, ops>>

State == states[cur]

----------------------------------------------------------------------------
(* What the coordinator computes from the history it read.                   *)

(* allocationPath: the states of the history h since the allocation of n in *)
(* which n is in flight.                                                     *)
Path(h, n) == {i \in 2 .. h : states[i].inFlight = n}
Allocation(h, n) == states[CHOOSE i \in Path(h, n) : i - 1 \notin Path(h, n)]

(* assertResumePathStructure: nothing but accounting, ledger pointers and a  *)
(* stop request may have happened since the allocation.                      *)
PathOK(h, n) ==
    /\ Path(h, n) # {}
    /\ \A i \in Path(h, n) :
          /\ states[i].status \in {"running", "stop-requested"}
          /\ \A j \in Path(h, n) :
                j < i /\ states[j].status = "stop-requested" =>
                   states[i].status = "stop-requested"
          /\ \A field \in {"champion", "limit", "limitAuth", "fresh", "generation",
                            "availability", "replenishAuth"} :
                states[i][field] = Allocation(h, n)[field]

(* interruptedArchiveStateHash: the state that archived n. *)
Archive(n) ==
    LET found == {i \in 2 .. cur : /\ states[i - 1].inFlight = n
                                   /\ states[i].inFlight = None
                                   /\ states[i].interrupted = n
                                   /\ states[i].exposure = <<"exposure", n>>}
    IN  IF found = {} THEN None ELSE CHOOSE i \in found : TRUE

(* terminalClaim and the loop's own test: nothing more to claim. *)
Terminal(s) == \/ s.status # "running"
               \/ s.inFlight = None /\ (s.fresh = 0 \/ Exhausted(s))

(* Fault: a sealed record is accounted for like an open one. *)
InterruptionAccountable_Sealed(n) == Opened(n)

(* readJournal for an interruption: exactly one record, not sealed. *)
InterruptionAccountable(n) == Opened(n) /\ ~IsSealed(n)

----------------------------------------------------------------------------
(* A state written after the journal decided on the experiment in flight     *)
(* carries a later time than the decision, unless both fall in the same      *)
(* millisecond.                                                              *)
LateChoice(s) == IF s.inFlight = None \/ ~IsSealed(s.inFlight) THEN {FALSE}
                 ELSE IF Current.late THEN {TRUE} ELSE BOOLEAN

Commit(s) == \E late \in LateChoice(s) : Append1(s, late)

Goto(label) == pc' = label /\ UNCHANGED <<faults, ops>>
(* A compare and swap of the process: on success it holds the new state. A   *)
(* conflict, a refusal or a lock nobody releases throws: inside the loop's   *)
(* try block the experiment is interrupted, elsewhere the process ends.      *)
Swap(may, s, next, thrown) ==
    /\ IF CanSwap(cur, may)
       THEN Commit(s) /\ cur' = cur + 1 /\ Goto(next)
       ELSE UNCHANGED <<states, cur>> /\ Goto(thrown)
    /\ UNCHANGED lock

UnchangedButStates == UNCHANGED <<interruptions, records>>

----------------------------------------------------------------------------
(* load and recoverPending, when the command starts: an interruption that    *)
(* waits comes first, then a stop request, then the loop.                    *)

Readable == lock = "free"

(* The head of the loop: go on unless the state read is terminal. *)
LoopOn(s) == IF Terminal(s) \/ (s.inFlight = None /\ s.next > MaxExperiments)
             THEN "down" ELSE "claim"

(* Fault: the interruption that waits is looked for only after a stop. *)
Recovery_StopsOnly(s) ==
    IF s.status # "stop-requested" THEN LoopOn(s)
    ELSE IF FindPending # None THEN "apply"
    ELSE IF s.inFlight = None THEN "idleAck" ELSE "begin"

Recovery(s) ==
    IF FindPending # None THEN "apply"
    ELSE IF s.status # "stop-requested" THEN LoopOn(s)
    ELSE IF s.inFlight = None THEN "idleAck" ELSE "begin"

Load ==
    /\ pc = "down" /\ Readable
    /\ cur' = Len(states)
    /\ Goto(Recovery(Current))
    /\ UNCHANGED <<states, lock, interruptions, records>>

(* A stop request with nothing in flight is acknowledged at once. *)
IdleAck ==
    /\ pc = "idleAck"
    /\ Swap(MayAcknowledge, Acknowledged, "down", "down")
    /\ UnchangedButStates

(* A stop request with an experiment in flight begins its interruption. *)
BeginOperatorStop ==
    LET n == State.inFlight
    IN  /\ pc = "begin"
        /\ IF PathOK(cur, n) /\ MayBegin(n, "operator-stop")
           THEN Begin(n, "operator-stop") /\ Goto("apply")
           ELSE UNCHANGED interruptions /\ Goto("down")
        /\ UNCHANGED <<states, lock, records, cur>>

----------------------------------------------------------------------------
(* claimNext.                                                                *)

Claim ==
    /\ pc = "claim"
    /\ IF State.inFlight = None
       THEN Swap(MayAllocate, Allocated, "resolve", "down")
       ELSE /\ Goto(IF Readable /\ cur = Len(states) THEN "resolve" ELSE "down")
            /\ UNCHANGED <<states, lock, cur>>
    /\ UnchangedButStates

Resolve ==
    /\ pc = "resolve"
    /\ Goto(IF Readable /\ cur = Len(states) /\ PathOK(cur, State.inFlight)
            THEN "run" ELSE "down")
    /\ UNCHANGED <<states, lock, interruptions, records, cur>>

----------------------------------------------------------------------------
(* The runner, as the journal sees it.  A run of an experiment the journal   *)
(* already knows repeats its operations up to where they stopped.            *)

RunCreate ==
    LET n == State.inFlight
    IN  /\ pc = "run" /\ ~Opened(n)
        /\ IF MayCreate(n, State.champion)
           THEN /\ CreateRecord(n, State.champion, Allocation(cur, n).used)
                /\ Goto("run")
           ELSE UNCHANGED records /\ Goto("interrupt")
        /\ UNCHANGED <<states, lock, interruptions, cur>>

RunSpend ==
    LET n == State.inFlight
    IN  /\ pc = "run" /\ IsOpen(n)
        /\ records[n].spent < State.limit
        /\ SpendRecord(n, 1)
        /\ Goto("run")
        /\ UNCHANGED <<states, lock, interruptions, cur>>

RunSeal ==
    LET n == State.inFlight
    IN  /\ pc = "run" /\ IsOpen(n)
        /\ \E stage \in EvaluationStages, d \in Dispositions : SealRecord(n, stage, d)
        /\ Goto("complete")
        /\ UNCHANGED <<states, lock, interruptions, cur>>

(* A sealed experiment is sealed again only when its run used no lease: a    *)
(* preparation that has started is refused before the run comes to its seal. *)
RunReplay ==
    /\ pc = "run" /\ IsSealed(State.inFlight)
    /\ records[State.inFlight].stage = "pre-validation"
    /\ Goto("complete")
    /\ UNCHANGED <<states, lock, interruptions, records, cur>>

RunReplayRefused ==
    LET n == State.inFlight
    IN  /\ pc = "run" /\ IsSealed(n)
        /\ records[n].stage = "validation" \/ n > 1
        /\ Goto("interrupt")
        /\ UNCHANGED <<states, lock, interruptions, records, cur>>

(* A failing stage interrupts the experiment in the journal and rethrows. *)
RunFailure ==
    LET n == State.inFlight
    IN  /\ pc = "run" /\ IsOpen(n)
        /\ InterruptRecord(n)
        /\ Goto("interrupt")
        /\ UNCHANGED <<states, lock, interruptions, cur>>

(* An interrupted experiment cannot advance any more. *)
RunInterrupted ==
    LET n == State.inFlight
    IN  /\ pc = "run" /\ Opened(n) /\ records[n].status = "interrupted"
        /\ Goto("interrupt")
        /\ UNCHANGED <<states, lock, interruptions, records, cur>>

(* A collaborator fails and leaves no trace in the journal: creating the     *)
(* record, recording the interruption, or repeating a sealed run.            *)
RunThrows ==
    /\ pc = "run" /\ faults < MaxFaults
    /\ faults' = faults + 1 /\ pc' = "interrupt"
    /\ UNCHANGED <<states, lock, interruptions, records, cur, ops>>

----------------------------------------------------------------------------
(* complete: account for the spend, then seal.  It reads the history again.  *)

Complete ==
    LET h == Len(states)
        n == states[h].inFlight
    IN  /\ pc = "complete"
        /\ IF Readable /\ n # None
           THEN /\ cur' = h
                /\ Goto(IF ~PathOK(h, n) \/ ~IsSealed(n) THEN "interrupt"
                        ELSE IF records[n].spent # states[h].used THEN "usage" ELSE "seal")
           ELSE UNCHANGED cur /\ Goto("interrupt")
        /\ UNCHANGED <<states, lock, interruptions, records>>

Usage ==
    LET n == State.inFlight
        token == <<"acct", cur>>
    IN  /\ pc = "usage"
        /\ Swap(MayRecordUsage(records[n].spent, token),
                UsageRecorded(records[n].spent, token), "seal", "interrupt")
        /\ UnchangedButStates

Seal ==
    LET n == State.inFlight
        r == records[n]
        candidate == IF r.disposition = "promoted" THEN n ELSE None
        next == Sealed(n, r.stage, r.disposition, candidate)
    IN  /\ pc = "seal"
        /\ Swap(MaySeal(n, r.stage, r.disposition, candidate), next,
                IF next.status = "stop-requested" THEN "sealAck" ELSE LoopOn(next),
                "interrupt")
        /\ UnchangedButStates

SealAck ==
    /\ pc = "sealAck"
    /\ Swap(MayAcknowledge, Acknowledged, "down", "interrupt")
    /\ UnchangedButStates

----------------------------------------------------------------------------
(* interrupt and applyInterruption.                                          *)

Interrupt ==
    LET h == Len(states)
        n == states[h].inFlight
    IN  /\ pc = "interrupt"
        /\ IF Readable /\ n # None
           THEN /\ cur' = h
                /\ IF PathOK(h, n) /\ MayBegin(n, "failure")
                   THEN Begin(n, "failure") /\ Goto("apply")
                   ELSE UNCHANGED interruptions /\ Goto("down")
           ELSE UNCHANGED <<cur, interruptions>> /\ Goto("down")
        /\ UNCHANGED <<states, lock, records>>

(* Fault: the journal's checkpoints are not merged in. *)
Charge_OwnOnly(n) == {State.used}

(* The usage to charge is the largest the journal and the closed operation   *)
(* ledger know of; the ledger may hold one operation more than the journal.  *)
Charge(n) == LET known == IF State.used > records[n].spent THEN State.used
                          ELSE records[n].spent
             IN  {known} \cup (IF known < State.limit THEN {known + 1} ELSE {})

Apply ==
    LET n == FindPending
    IN  /\ pc = "apply"
        /\ Goto(IF ~PathOK(cur, n) THEN "down"
                ELSE IF State.inFlight = n
                THEN IF State.status # "paused" /\ InterruptionAccountable(n)
                     THEN "charge" ELSE "down"
                ELSE IF State.inFlight = None /\ Archive(n) # None THEN "control"
                ELSE "down")
        /\ UNCHANGED <<states, lock, interruptions, records, cur>>

ChargeInterrupted ==
    LET n == FindPending
        token == <<"acct", cur>>
    IN  /\ pc = "charge"
        /\ \E usage \in Charge(n) :
              IF usage = State.used
              THEN Goto("archive") /\ UNCHANGED <<states, lock, cur>>
              ELSE Swap(MayRecordUsage(usage, token), UsageRecorded(usage, token),
                        "archive", "down")
        /\ UnchangedButStates

ArchiveInterrupted ==
    LET n == FindPending
    IN  /\ pc = "archive"
        /\ Swap(MayArchive(n, <<"exposure", n>>), Archived(n, <<"exposure", n>>),
                "control", "down")
        /\ UnchangedButStates

(* Fault: the control is bound to the state at hand, not to the archive. *)
PrepareControl_Current ==
    LET n == FindPending
    IN  /\ pc = "control"
        /\ IF MayPrepare(n, cur)
           THEN Prepare(n, cur) /\ Goto("settle")
           ELSE UNCHANGED interruptions /\ Goto("down")
        /\ UNCHANGED <<states, lock, records, cur>>

PrepareControl ==
    LET n == FindPending
    IN  /\ pc = "control"
        /\ IF MayPrepare(n, Archive(n))
           THEN Prepare(n, Archive(n)) /\ Goto("settle")
           ELSE UNCHANGED interruptions /\ Goto("down")
        /\ UNCHANGED <<states, lock, records, cur>>

(* sameControlDisposition of a paused state. *)
SamePause(n) == interruptions[n].control = "pause" /\ State.pause = <<"pause", n>>

Settle ==
    LET n == FindPending
        stop == interruptions[n].control = "stop"
    IN  /\ pc = "settle"
        /\ CASE State.status = "running" /\ stop ->
                   Swap(MayRequestStop, StopRequested("operator"), "ackStop", "down")
             [] State.status = "running" /\ ~stop ->
                   Swap(MayPause(<<"pause", n>>), Paused(<<"pause", n>>), "mark", "down")
             [] State.status = "paused" ->
                   /\ Goto(IF SamePause(n) THEN "mark" ELSE "down")
                   /\ UNCHANGED <<states, lock, cur>>
             [] OTHER ->
                   /\ Goto(IF stop /\ State.reason # "operator" THEN "down"
                           ELSE IF State.status = "stop-requested" THEN "ackStop" ELSE "mark")
                   /\ UNCHANGED <<states, lock, cur>>
        /\ UnchangedButStates

AckStop ==
    /\ pc = "ackStop"
    /\ Swap(MayAcknowledge, Acknowledged, "mark", "down")
    /\ UnchangedButStates

(* The loop ends: the state is paused or stopped, or the error is rethrown. *)
MarkApplied ==
    LET n == FindPending
    IN  /\ pc = "mark"
        /\ IF MayMark(n, cur) THEN Mark(n, cur) ELSE UNCHANGED interruptions
        /\ Goto("down")
        /\ UNCHANGED <<states, lock, records, cur>>

----------------------------------------------------------------------------
(* Faults and the operator.                                                  *)

(* The process dies; only the runner's own work holds no store lock. *)
Crash ==
    /\ pc # "down" /\ faults < MaxFaults
    /\ pc' = "down" /\ faults' = faults + 1
    /\ lock' \in IF pc = "run" THEN {lock} ELSE {lock, "abandoned"}
    /\ UNCHANGED <<states, interruptions, records, cur, ops>>

Operate(may, s) ==
    /\ ops < MaxOps /\ ops' = ops + 1
    /\ may
    /\ Commit(s)
    /\ UNCHANGED <<interruptions, records, pc, cur, faults>>

(* df campaign stop and df campaign resume. *)
OperatorStop == /\ Readable
                /\ Operate(MayRequestStop, StopRequested("operator"))
                /\ UNCHANGED lock
OperatorResume == \E auth \in Auths : /\ Readable
                                      /\ Operate(MayResume(auth), Resumed(auth))
                                      /\ UNCHANGED lock

OperatorExtend == \E auth \in Auths :
                     /\ Readable
                     /\ Operate(MayExtend(Current.limit + 1, auth),
                                Extended(Current.limit + 1, auth))
                     /\ UNCHANGED lock
OperatorReplenish == \E auth \in Auths :
                        /\ Readable
                        /\ Operate(MayReplenish(auth), Replenished(auth))
                        /\ UNCHANGED lock

(* A trusted service publishes new ledger pointers. *)
OperatorCheckpoint ==
    LET token == <<"checkpoint", Len(states)>>
    IN  /\ Readable
        /\ Operate(MayCheckpoint(token), Checkpointed(token))
        /\ UNCHANGED lock

OperatorRecoverLock == \E auth \in Auths :
                          /\ Operate(MayRecover(auth), Recovered(auth))
                          /\ lock' = "free"

----------------------------------------------------------------------------

Init ==
    /\ StoreInit /\ PortsInit /\ OutcomeInit
    /\ pc = "down" /\ cur = 1 /\ faults = 0 /\ ops = 0

Process ==
    \/ Load \/ IdleAck \/ BeginOperatorStop \/ Claim \/ Resolve
    \/ RunCreate \/ RunSpend \/ RunSeal \/ RunReplay \/ RunReplayRefused \/ RunFailure \/ RunInterrupted
    \/ Complete \/ Usage \/ Seal \/ SealAck
    \/ Interrupt \/ Apply \/ ChargeInterrupted \/ ArchiveInterrupted
    \/ PrepareControl \/ Settle \/ AckStop \/ MarkApplied

Environment ==
    \/ RunThrows \/ Crash
    \/ OperatorStop \/ OperatorResume \/ OperatorExtend \/ OperatorReplenish
    \/ OperatorCheckpoint \/ OperatorRecoverLock

Next == Process \/ Environment

Spec == Init /\ [][Next]_loopVars

(* The command is started again whenever it ended, and a running process     *)
(* goes on.                                                                  *)
FairSpec == Spec /\ WF_loopVars(Process)

----------------------------------------------------------------------------
(* Properties.                                                               *)

Labels == {"down", "claim", "resolve", "run", "complete", "usage",
           "seal", "sealAck", "interrupt", "idleAck", "begin", "apply", "charge",
           "archive", "control", "settle", "ackStop", "mark"}

(* The states of the controller, the store's lock and the records. *)
TypeOK ==
    /\ pc \in Labels /\ cur \in 1 .. Len(states)
    /\ lock \in {"free", "abandoned"}
    /\ faults \in 0 .. MaxFaults /\ ops \in 0 .. MaxOps
    /\ \A n \in Numbers : interruptions[n] # None =>
          /\ interruptions[n].class \in FailureClasses
          /\ interruptions[n].control \in {None, "stop", "pause"}
          /\ interruptions[n].archive \in {None} \cup DOMAIN states
          /\ interruptions[n].final \in {None} \cup DOMAIN states

(* Whatever sequence of operations the store accepted, the whole history     *)
(* still passes the validation every later read runs (validateHistory): no   *)
(* operation may accept a state that makes the campaign unreadable.          *)
HistoryReadable == TypeOK /\ ValidHistory(states)

(* The campaign and the journal never disagree on how an experiment ended,   *)
(* and nothing archived as interrupted is sealed in the journal (readJournal *)
(* "unsealed"); and the champion of the campaign is the one the journal      *)
(* would start the next experiment from, except between the journal's        *)
(* promotion and its seal in the campaign.                                   *)
RecordsAgree ==
    /\ \A i \in DOMAIN states :
          LET s == states[i] IN
          /\ s.sealed > 0 => /\ IsSealed(s.sealed)
                             /\ records[s.sealed].disposition = s.disposition
          /\ s.interrupted > 0 => ~IsSealed(s.interrupted)
    /\ LET open == Current.inFlight
       IN  IF open # None /\ Opened(open) /\ records[open].disposition = "promoted"
           THEN Current.champion = records[open].before
           ELSE Current.champion = ChampionNow

(* Once an experiment is concluded the campaign has accounted for all that   *)
(* the journal saw it spend, whichever crash came in between.                *)
SpendNotLost ==
    \A n \in DOMAIN records :
        Current.inFlight # n => Current.used >= records[n].spent

(* Nothing is claimed, run or sealed while an interruption waits.            *)
InterruptionFirst ==
    [][ActiveInterruptions # {} =>
          /\ Current'.next = Current.next
          /\ Current'.sealed = Current.sealed
          /\ records' = records]_loopVars

(* The campaign implements the ledger of experiments it promises.            *)
LedgerOutcome(n) ==
    IF \E i \in DOMAIN states : states[i].sealed = n THEN "sealed"
    ELSE IF \E i \in DOMAIN states : states[i].interrupted = n THEN "interrupted"
    ELSE "inFlight"
Ledger == INSTANCE ExperimentLedger WITH
              outcomes <- [n \in 1 .. Current.next - 1 |-> LedgerOutcome(n)],
              champion <- Current.champion,
              running <- Current.status = "running"
KeepsLedger == Ledger!LedgerSpec

(* An interruption that has begun is applied, whatever crashes follow, as    *)
(* long as its accounting can be made, its path is intact, its pause was not *)
(* resumed behind its back and the lock is free.                             *)
Recoverable ==
    LET n == FindPending
        e == interruptions[n]
        used == e.control = "pause" /\ Consumed("pause", <<"pause", n>>)
    IN  /\ n # None /\ lock = "free"
        /\ PathOK(Len(states), n)
        /\ Current.inFlight = n => InterruptionAccountable(n)
        /\ used => Current.status # "running"
RecoverableApplied ==
    (FindPending # None /\ Recoverable) ~> (FindPending = None \/ ~Recoverable)
=============================================================================
