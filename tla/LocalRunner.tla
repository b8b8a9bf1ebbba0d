---------------------------- MODULE LocalRunner ----------------------------
(***************************************************************************)
(* The local real campaign runner (src/local/real/runner.ts).              *)
(*                                                                         *)
(* One runner process drives a campaign: it screens a panel of tasks with  *)
(* the champion, asks the optimizer for a candidate, builds and evaluates  *)
(* the candidate, decides, publishes a promoted candidate to the remote,   *)
(* and installs it as champion.  Everything it learns is written to disk   *)
(* before the next step, so that a runner started after a crash replays    *)
(* the finished work instead of repeating it.                              *)
(*                                                                         *)
(* An action is the code between two durable writes.  A crash may fall     *)
(* between any two of them.  The runner lock is taken as held (one         *)
(* runner), so the in-memory copy of the state and of the catalog is       *)
(* always the one last written, and neither is modelled twice.             *)
(***************************************************************************)
EXTENDS Integers, Sequences, FiniteSets, FiniteSetsExt

CONSTANTS
    None,                \* the absent value (null in the code)
    Costs,               \* the costs an adapter receipt can report
    BudgetLimit,         \* maximumCampaignCostUsd, None when unbounded
    PublicationEnabled,  \* config.publication.enabled
    MaxPanelAttempts,    \* config.evaluation.maximumPanelAttempts
    MaxInfraRetries,     \* config.evaluation.maximumInfrastructureRetries
    Window,              \* SATURATION_HISTORY_LIMIT
    MaxExperiments,      \* bound: experiments the model explores
    MaxFaults,           \* bound: crashes and failed operations
    MaxRequests          \* bound: stop requests by the operator

ASSUME ConstantsAssumption ==
    /\ Costs \subseteq Nat
    /\ BudgetLimit \in Nat \cup {None}
    /\ PublicationEnabled \in BOOLEAN
    /\ MaxPanelAttempts \in Nat \ {0}
    /\ MaxInfraRetries \in Nat
    /\ Window \in Nat \ {0}
    /\ MaxExperiments \in Nat \ {0}
    /\ MaxFaults \in Nat
    /\ MaxRequests \in Nat
    /\ None \notin Nat

VARIABLES
    st,       \* runner-state.json
    catalog,  \* catalog.json: the screens applied to it, in order
    stopReq,  \* stop-request.json: its mode, or None
    art,      \* experiments/<id>/: the artifacts of each experiment
    jobs,     \* receipts of the adapter's finished paid jobs
    remote,   \* the commits the remote champion ref has pointed at
    pc,       \* where the runner process is; "off" when none runs
    mem,      \* the runner's local variables
    faults,   \* crashes and failures so far
    requests  \* stop requests so far

disk == <<st, catalog, stopReq, art, jobs, remote>>
vars == <<disk, pc, mem, faults, requests>>

Experiments == 1..MaxExperiments
Ordinals == 1..MaxPanelAttempts

(* Revision 0 is the baseline.  The commit of a promoted experiment is a   *)
(* function of its write-once artifacts, so the experiment names it.       *)
Revisions == 0..MaxExperiments

Phases == {"panel-screening", "optimizer", "candidate-validation",
           "candidate-evaluation", "decision", "publication", "advance"}
Statuses == {"initialized", "running", "stopped", "blocked"}

---------------------------------------------------------------------------
(* Panels, costs and evidence *)

Screen == [exp : Experiments, ordinal : Ordinals]
Histories == {h \in Seq(BOOLEAN) : Len(h) <= Window}

(* The selection is a deterministic function of exactly these inputs.      *)
Panels == [exp : Experiments, ordinal : Ordinals, policy : Histories,
           catalog : Seq(Screen), excluded : SUBSET Ordinals]

PanelOutcomes == {"accepted", "saturated", "infrastructure-invalid"}
Dispositions == {"promote", "reject", "inconclusive"}
Arms == {"panel", "optimizer", "candidate"}

(* Evidence ids: <exp>:panel:<ordinal>, <exp>:optimizer, <exp>:candidate.  *)
LedgerEntry(x, arm, o, c) == [exp |-> x, arm |-> arm, ordinal |-> o, cost |-> c]
EntriesFor(L, x, arm, o) == {l \in L : l.exp = x /\ l.arm = arm /\ l.ordinal = o}
LedgerOf(x) == {l \in st.ledger : l.exp = x}
TotalCost(L) == MapThenSumSet(LAMBDA l : l.cost, L)

BudgetExhausted ==
    /\ BudgetLimit # None
    /\ TotalCost(st.ledger) >= BudgetLimit

(* The last Window outcomes, oldest first. *)
Last(s) == IF Len(s) > Window THEN SubSeq(s, Len(s) - Window + 1, Len(s)) ELSE s
Pushed(history, saturated) == Last(Append(history, saturated))

NoMemory == [ordinal |-> 0, excluded |-> {}, infra |-> 0, policy |-> <<>>,
             fresh |-> FALSE, quota |-> None]

NoArtifacts == [before |-> None,
                attempts |-> [o \in Ordinals |-> None],
                reused |-> None, accepted |-> None, optimizer |-> None,
                runtime |-> FALSE, candidate |-> None, evaluation |-> None,
                decision |-> None, publication |-> None, receipt |-> None]

InitialState == [status |-> "initialized", reason |-> None, champion |-> 0,
                 next |-> 1, active |-> None, phase |-> None, retained |-> None,
                 history |-> <<>>, ledger |-> {}, completed |-> 0, promotions |-> 0]

Init ==
    /\ st = InitialState
    /\ catalog = <<>>
    /\ stopReq = None
    /\ art = [x \in Experiments |-> NoArtifacts]
    /\ jobs = {}
    /\ remote = <<>>
    /\ pc = "off"
    /\ mem = NoMemory
    /\ faults = 0
    /\ requests = 0

---------------------------------------------------------------------------
(* Shared steps *)

(* The active experiment and its directory. *)
active == st.active
mine == art[st.active]

UpdateState(new) == st' = new /\ UNCHANGED <<catalog, stopReq, art, jobs, remote>>

WriteArtifact(new) ==
    /\ art' = [art EXCEPT ![active] = new]
    /\ UNCHANGED <<st, catalog, stopReq, jobs, remote>>

(* Control moves on; the runner's other variables and the bounds do not. *)
Goto(there) == pc' = there /\ UNCHANGED <<mem, faults, requests>>

(* The invocation ends: it records why and releases the runner lock. *)
Finish(status, reason) ==
    /\ UpdateState([st EXCEPT !.status = status, !.reason = reason])
    /\ pc' = "off"
    /\ mem' = NoMemory
    /\ UNCHANGED requests

Stop(reason) == Finish("stopped", reason) /\ UNCHANGED faults
Block(reason) == Finish("blocked", reason) /\ UNCHANGED faults

(* Something outside the runner fails, and the error ends the invocation. *)
Failure(reason) ==
    /\ faults < MaxFaults
    /\ faults' = faults + 1
    /\ Finish("blocked", reason)

Cancelled == stopReq = "cancel-active" /\ Stop("operator-cancelled-active-phase")

(* accountCost: evidence is charged once, however often it is replayed. *)
AccountCost(arm, o, cost, there) ==
    LET known == EntriesFor(st.ledger, active, arm, o)
    IN  \/ /\ \E l \in known : l.cost # cost
           /\ Block("model-cost-replay-diverged")
        \/ /\ \A l \in known : l.cost = cost
           /\ UpdateState(IF known # {} THEN st
                          ELSE [st EXCEPT !.ledger =
                                    @ \cup {LedgerEntry(active, arm, o, cost)}])
           /\ Goto(there)

(* The adapter keeps a receipt per job name and returns it when asked again. *)
Job(arm, o) == {j \in jobs : j.exp = active /\ j.arm = arm /\ j.ordinal = o}

RunJob(arm, o, panel, revision, outcomes) ==
    /\ Job(arm, o) = {}
    /\ \E outcome \in outcomes, cost \in Costs :
          jobs' = jobs \cup {[exp |-> active, arm |-> arm, ordinal |-> o, panel |-> panel,
                              revision |-> revision, outcome |-> outcome, cost |-> cost]}
    /\ UNCHANGED <<st, catalog, stopReq, art, remote>>
    /\ Goto(pc)

(* setPhase, for the steps of the runner that are a phase of their own. *)
PhaseOf == [optimizer |-> "optimizer", validation |-> "candidate-validation",
            evaluation |-> "candidate-evaluation", decision |-> "decision",
            publication |-> "publication", advance |-> "advance"]

InPhase(step) == pc = step /\ st.phase = PhaseOf[step]

SetPhase ==
    /\ pc \in DOMAIN PhaseOf
    /\ st.phase # PhaseOf[pc]
    /\ pc = "decision" => mine.decision = None
    /\ UpdateState([st EXCEPT !.phase = PhaseOf[pc]])
    /\ Goto(pc)

---------------------------------------------------------------------------
(* runLocalRealCampaign *)

(* quota is maximumCompletedExperiments: one experiment (--once) or None. *)
Start(resume) ==
    /\ pc = "off"
    /\ stopReq' = IF resume THEN None ELSE stopReq
    /\ \E quota \in {1, None} : mem' = [NoMemory EXCEPT !.quota = quota]
    /\ pc' = "starting"
    /\ UNCHANGED <<st, catalog, art, jobs, remote, faults, requests>>

Begin ==
    /\ pc = "starting"
    /\ UpdateState([st EXCEPT !.status = "running", !.reason = None])
    /\ Goto("loop")

(* Fault: only a cancellation is seen at a boundary. *)
StopRequested_CancelOnly == stopReq = "cancel-active"

StopRequested == stopReq # None

LoopStopReason ==
    IF mem.quota = 0 THEN "requested-experiment-limit-reached"
    ELSE IF StopRequested THEN "operator-requested"
    ELSE IF BudgetExhausted THEN "campaign-cost-limit-reached"
    ELSE None

LoopStops == pc = "loop" /\ LoopStopReason # None /\ Stop(LoopStopReason)

OpenExperiment ==
    /\ pc = "loop"
    /\ LoopStopReason = None
    /\ active # None \/ st.next <= MaxExperiments
    /\ UpdateState(IF active # None THEN st
                   ELSE [st EXCEPT !.active = st.next, !.phase = "panel-screening"])
    /\ Goto("experiment")

(* The model stops opening experiments at its bound. *)
AtBound == pc = "loop" /\ LoopStopReason = None /\ active = None
           /\ st.next > MaxExperiments /\ UNCHANGED vars

RecordExperiment ==
    /\ pc = "experiment"
    /\ \/ /\ mine.before \notin {None, st.champion}
          /\ Block("unexpected-runner-failure")
       \/ /\ mine.before \in {None, st.champion}
          /\ mine.receipt # None
          /\ mine.accepted = None
          /\ Block("completed-experiment-panel-missing")
       \/ /\ mine.before \in {None, st.champion}
          /\ mine.receipt # None => mine.accepted # None
          /\ WriteArtifact([mine EXCEPT !.before = st.champion])
          /\ Goto(IF mine.receipt = None THEN "panel" ELSE "finalize")

---------------------------------------------------------------------------
(* preparePanel: a panel already chosen, or retained from the last experiment *)

ValidReuse(reuse) ==
    LET source == art[reuse.source]
    IN  /\ st.retained # None
        /\ reuse.source = active - 1
        /\ reuse.revision = st.champion
        /\ reuse.revision = st.retained.revision
        /\ reuse.panel = st.retained.panel
        /\ source.accepted # None
        /\ source.receipt # None
        /\ source.accepted.panel.exp = reuse.source
        /\ source.accepted.revision = reuse.revision
        /\ source.accepted.panel = reuse.panel
        /\ source.receipt.after = reuse.revision
        /\ source.receipt.panel = reuse.panel
        /\ source.receipt.decision # "promote"

Retained == st.retained # None /\ st.retained.revision = st.champion

ReplayReuse ==
    /\ pc = "panel"
    /\ mine.reused # None
    /\ LET source == art[mine.reused.source].accepted
       IN  \/ ~ValidReuse(mine.reused) /\ Block("retained-panel-reuse-invalid")
           \/ /\ ValidReuse(mine.reused)
              /\ mine.accepted \notin {None, source}
              /\ Block("retained-panel-reuse-diverged")
           \/ /\ ValidReuse(mine.reused)
              /\ mine.accepted \in {None, source}
              /\ WriteArtifact([mine EXCEPT !.accepted = source])
              /\ Goto("prepared")

ReplayAccepted ==
    /\ pc = "panel"
    /\ mine.reused = None
    /\ mine.accepted # None
    /\ \/ /\ mine.accepted.panel.exp # active
          /\ Block("retained-panel-reuse-evidence-missing")
       \/ /\ mine.accepted.panel.exp = active
          /\ AccountCost("panel", mine.accepted.panel.ordinal, mine.accepted.cost, "prepared")

(* The provenance is written first; ReplayReuse then copies the panel. *)
ReuseRetained ==
    /\ pc = "panel"
    /\ mine.reused = None
    /\ mine.accepted = None
    /\ Retained
    /\ LET source == active - 1
       IN  \/ source < 1 /\ Block("retained-panel-source-invalid")
           \/ /\ source >= 1
              /\ art[source].accepted = None
              /\ Block("retained-panel-source-missing")
           \/ /\ source >= 1
              /\ art[source].accepted # None
              /\ LET reuse == [source |-> source, revision |-> st.champion,
                               panel |-> art[source].accepted.panel]
                     named == reuse.panel = st.retained.panel
                 IN  \/ ~(named /\ ValidReuse(reuse)) /\ Block("retained-panel-reuse-invalid")
                     \/ /\ named /\ ValidReuse(reuse)
                        /\ WriteArtifact([mine EXCEPT !.reused = reuse])
                        /\ Goto("panel")

---------------------------------------------------------------------------
(* preparePanel: screening the champion, one attempt after another *)

Attempt(o) == mine.attempts[o]
(* Fault: replay compares a file with its own attempt only. *)
Later_Ignored(o) == {}

Later(o) == {mine.attempts[i] : i \in {k \in Ordinals : k > o}} \ {None}

HistoryAfter(history, outcome) ==
    IF outcome = "infrastructure-invalid" THEN history
    ELSE Pushed(history, outcome = "saturated")

CatalogAfter(screens, outcome, o) ==
    IF outcome = "infrastructure-invalid" THEN screens
    ELSE Append(screens, [exp |-> active, ordinal |-> o])

ChainHasGap == \E o \in Ordinals : o > 1 /\ Attempt(o) # None /\ Attempt(o - 1) = None

ChainValid == \A o \in Ordinals : Attempt(o) # None =>
    LET a == Attempt(o)
    IN  /\ a.panel.exp = active /\ a.panel.ordinal = o
        /\ a.historyAfter = HistoryAfter(a.historyBefore, a.outcome)
        /\ a.catalogAfter = CatalogAfter(a.catalogBefore, a.outcome, o)
        /\ o > 1 => /\ Attempt(o - 1).historyAfter = a.historyBefore
                    /\ Attempt(o - 1).catalogAfter = a.catalogBefore
                    /\ Attempt(o - 1).outcome # "accepted"

EnterScreening ==
    /\ pc = "panel"
    /\ mine.reused = None /\ mine.accepted = None /\ ~Retained
    /\ UpdateState([st EXCEPT !.phase = "panel-screening"])
    /\ Goto("chain")

ReadAttemptChain ==
    /\ pc = "chain"
    /\ \/ ChainHasGap /\ Block("panel-attempt-chain-has-gap")
       \/ ~ChainHasGap /\ ~ChainValid /\ Block("panel-attempt-chain-invalid")
       \/ ~ChainHasGap /\ ChainValid /\ UpdateState(st) /\ Goto("runtime")

ChampionRuntime ==
    /\ pc = "runtime"
    /\ \/ /\ UpdateState(st)
          /\ pc' = "screen"
          /\ mem' = [mem EXCEPT !.ordinal = 1, !.policy = st.history]
          /\ UNCHANGED <<faults, requests>>
       \/ Failure("unexpected-runner-failure")
       \/ Cancelled

Selection == [exp |-> active, ordinal |-> mem.ordinal, policy |-> mem.policy,
              catalog |-> catalog, excluded |-> mem.excluded]

Screening == pc = "screen" /\ mem.ordinal <= MaxPanelAttempts
Live == Screening /\ Attempt(mem.ordinal) = None

ScreensExhausted ==
    /\ pc = "screen"
    /\ mem.ordinal > MaxPanelAttempts
    /\ Block("surpassable-panel-not-found")

(* Fault: a replayed attempt is assumed to be charged already. *)
ReplayAttempt_Uncharged ==
    /\ Screening
    /\ Attempt(mem.ordinal) # None
    /\ UpdateState(st)
    /\ pc' = "history"
    /\ mem' = [mem EXCEPT !.fresh = FALSE]
    /\ UNCHANGED <<faults, requests>>

ReplayAttempt ==
    /\ Screening
    /\ Attempt(mem.ordinal) # None
    /\ UpdateState(st)
    /\ pc' = "account"
    /\ mem' = [mem EXCEPT !.fresh = FALSE]
    /\ UNCHANGED <<faults, requests>>

ScreenOverBudget ==
    /\ Live
    /\ BudgetExhausted
    /\ Stop("campaign-cost-limit-reached")

ChampionArmRuns ==
    /\ Live
    /\ ~BudgetExhausted
    /\ RunJob("panel", mem.ordinal, Selection, st.champion, PanelOutcomes)

ChampionArmFails ==
    /\ Live
    /\ ~BudgetExhausted
    /\ Failure("champion-panel-evaluation-failed") \/ Cancelled

RecordAttempt ==
    /\ Live
    /\ ~BudgetExhausted
    /\ \E j \in Job("panel", mem.ordinal) :
          \/ j.panel # Selection /\ Block("unexpected-runner-failure")
          \/ /\ j.panel = Selection
             /\ WriteArtifact([mine EXCEPT !.attempts[mem.ordinal] =
                   [panel |-> Selection, outcome |-> j.outcome, cost |-> j.cost,
                    revision |-> j.revision,
                    historyBefore |-> st.history,
                    historyAfter |-> HistoryAfter(st.history, j.outcome),
                    catalogBefore |-> catalog,
                    catalogAfter |-> CatalogAfter(catalog, j.outcome, mem.ordinal)]])
             /\ pc' = "account"
             /\ mem' = [mem EXCEPT !.fresh = TRUE]
             /\ UNCHANGED <<faults, requests>>

AccountAttempt ==
    /\ pc = "account"
    /\ AccountCost("panel", mem.ordinal, Attempt(mem.ordinal).cost, "history")

(* A file is at the attempt's after or before image, or at a later one's.  *)
ReconcileHistory ==
    LET a == Attempt(mem.ordinal)
        later == \E l \in Later(mem.ordinal) : st.history \in {l.historyBefore, l.historyAfter}
    IN  /\ pc = "history"
        /\ \/ /\ st.history \notin {a.historyAfter, a.historyBefore} /\ ~later
              /\ Block("panel-history-replay-diverged")
           \/ /\ st.history \in {a.historyAfter, a.historyBefore} \/ later
              /\ UpdateState(IF st.history # a.historyAfter /\ st.history = a.historyBefore
                             THEN [st EXCEPT !.history = a.historyAfter] ELSE st)
              /\ Goto("catalog")

(* Fault: the catalog of a replayed attempt is assumed to be written. *)
ReconcileCatalog_FreshOnly ==
    LET a == Attempt(mem.ordinal)
    IN  /\ pc = "catalog"
        /\ catalog' = IF mem.fresh THEN a.catalogAfter ELSE catalog
        /\ mem' = IF mem.fresh THEN mem ELSE [mem EXCEPT !.policy = st.history]
        /\ pc' = "assess"
        /\ UNCHANGED <<st, stopReq, art, jobs, remote, faults, requests>>

(* The replay path also rebuilds the policy from the history it now has.   *)
ReconcileCatalog ==
    LET a == Attempt(mem.ordinal)
        later == \E l \in Later(mem.ordinal) : catalog \in {l.catalogBefore, l.catalogAfter}
    IN  /\ pc = "catalog"
        /\ \/ /\ catalog \notin {a.catalogAfter, a.catalogBefore} /\ ~later
              /\ Block("panel-catalog-replay-diverged")
           \/ /\ catalog \in {a.catalogAfter, a.catalogBefore} \/ later
              /\ catalog' = IF catalog = a.catalogBefore THEN a.catalogAfter ELSE catalog
              /\ mem' = IF mem.fresh THEN mem ELSE [mem EXCEPT !.policy = st.history]
              /\ pc' = "assess"
              /\ UNCHANGED <<st, stopReq, art, jobs, remote, faults, requests>>

Advanced(policy, saturated) == IF mem.fresh THEN Pushed(policy, saturated) ELSE policy

NextOrdinal(new) ==
    /\ UpdateState(st)
    /\ pc' = "screen"
    /\ mem' = [new EXCEPT !.ordinal = @ + 1]
    /\ UNCHANGED <<faults, requests>>

(* Fault: only a screen of this invocation is excluded from the next ones. *)
PanelSaturated_FreshOnly ==
    /\ pc = "assess"
    /\ Attempt(mem.ordinal).outcome = "saturated"
    /\ NextOrdinal([mem EXCEPT !.excluded = IF mem.fresh THEN @ \cup {mem.ordinal} ELSE @,
                               !.policy = Advanced(@, TRUE)])

PanelSaturated ==
    /\ pc = "assess"
    /\ Attempt(mem.ordinal).outcome = "saturated"
    /\ NextOrdinal([mem EXCEPT !.excluded = @ \cup {mem.ordinal},
                               !.policy = Advanced(@, TRUE)])

PanelInfrastructureInvalid ==
    /\ pc = "assess"
    /\ Attempt(mem.ordinal).outcome = "infrastructure-invalid"
    /\ IF mem.infra + 1 > MaxInfraRetries
       THEN Block("champion-panel-infrastructure-circuit-open")
       ELSE NextOrdinal([mem EXCEPT !.infra = @ + 1])

AcceptedFrom(a) == [panel |-> a.panel, revision |-> a.revision, cost |-> a.cost]

PanelAccepted ==
    /\ pc = "assess"
    /\ Attempt(mem.ordinal).outcome = "accepted"
    /\ WriteArtifact([mine EXCEPT !.accepted = AcceptedFrom(Attempt(mem.ordinal))])
    /\ Goto("prepared")

---------------------------------------------------------------------------
(* The optimizer and the candidate *)

(* Fault: the budget is only looked at between experiments. *)
Boundary_Unbudgeted(here, there) ==
    /\ pc = here
    /\ \/ StopRequested /\ Stop("operator-requested")
       \/ ~StopRequested /\ UpdateState(st) /\ Goto(there)

(* A phase boundary before paid work: the stop request, then the budget.   *)
Boundary(here, there) ==
    /\ pc = here
    /\ \/ StopRequested /\ Stop("operator-requested")
       \/ ~StopRequested /\ BudgetExhausted /\ Stop("campaign-cost-limit-reached")
       \/ ~StopRequested /\ ~BudgetExhausted /\ UpdateState(st) /\ Goto(there)

PanelPrepared == Boundary("prepared", "optimizer")

OptimizerRuns ==
    /\ InPhase("optimizer")
    /\ mine.optimizer = None
    /\ RunJob("optimizer", 0, None, st.champion, {None})

OptimizerFails ==
    /\ InPhase("optimizer")
    /\ mine.optimizer = None
    /\ Failure("optimizer-failed") \/ Cancelled

RecordOptimizer ==
    /\ InPhase("optimizer")
    /\ mine.optimizer = None
    /\ \E j \in Job("optimizer", 0) :
          WriteArtifact([mine EXCEPT !.optimizer = [revision |-> j.revision, cost |-> j.cost]])
    /\ Goto("optimizer")

AccountOptimizer ==
    /\ InPhase("optimizer")
    /\ mine.optimizer # None
    /\ AccountCost("optimizer", 0, mine.optimizer.cost, "optimized")

OptimizerDone ==
    /\ pc = "optimized"
    /\ \/ StopRequested /\ Stop("operator-requested")
       \/ ~StopRequested /\ UpdateState(st) /\ Goto("validation")

(* The build is cached by tree, so a rebuilt runtime is the same runtime.  *)
ValidateCandidate ==
    /\ InPhase("validation")
    /\ mine.candidate = None
    /\ \/ /\ WriteArtifact([mine EXCEPT !.runtime = TRUE])
          /\ Goto("built")
       \/ /\ WriteArtifact([mine EXCEPT !.candidate = "invalid"])
          /\ Goto("decision")

ValidationFails ==
    /\ InPhase("validation")
    /\ mine.candidate = None
    /\ Failure("candidate-validation-failed") \/ Cancelled

RecordValidCandidate ==
    /\ pc = "built"
    /\ WriteArtifact([mine EXCEPT !.candidate = "valid"])
    /\ Goto("candidate")

ReplayCandidate ==
    /\ InPhase("validation")
    /\ mine.candidate # None
    /\ UpdateState(st)
    /\ Goto(IF mine.candidate = "valid" THEN "candidate" ELSE "decision")

CandidateReady ==
    /\ pc = "candidate"
    /\ IF mine.runtime THEN Boundary("candidate", "evaluation")
       ELSE Block("candidate-runtime-missing")

CandidateArmRuns ==
    /\ InPhase("evaluation")
    /\ mine.evaluation = None
    /\ RunJob("candidate", mine.accepted.panel.ordinal, mine.accepted.panel, active, Dispositions)

CandidateArmFails ==
    /\ InPhase("evaluation")
    /\ mine.evaluation = None
    /\ Failure("candidate-evaluation-failed") \/ Cancelled

RecordEvaluation ==
    /\ InPhase("evaluation")
    /\ mine.evaluation = None
    /\ \E j \in Job("candidate", mine.accepted.panel.ordinal) :
          WriteArtifact([mine EXCEPT !.evaluation =
              [panel |-> j.panel, outcome |-> j.outcome, cost |-> j.cost]])
    /\ Goto("evaluation")

AccountEvaluation ==
    /\ InPhase("evaluation")
    /\ mine.evaluation # None
    /\ AccountCost("candidate", 0, mine.evaluation.cost, "decision")

---------------------------------------------------------------------------
(* Decision, publication and the installation of the champion *)

Decide ==
    /\ InPhase("decision")
    /\ mine.decision = None
    /\ \/ /\ mine.candidate = "invalid"
          /\ WriteArtifact([mine EXCEPT !.decision = "reject"])
          /\ Goto("decision")
       \/ /\ mine.candidate = "valid"
          /\ mine.evaluation.panel # mine.accepted.panel
          /\ Block("unexpected-runner-failure")
       \/ /\ mine.candidate = "valid"
          /\ mine.evaluation.panel = mine.accepted.panel
          /\ WriteArtifact([mine EXCEPT !.decision = mine.evaluation.outcome])
          /\ Goto("decision")

Decided ==
    /\ pc = "decision"
    /\ mine.decision # None
    /\ IF mine.decision = "promote" /\ ~PublicationEnabled
       THEN Block("promotion-publication-disabled")
       ELSE /\ UpdateState(st)
            /\ Goto(IF mine.decision = "promote" THEN "publication" ELSE "advance")

RemoteChampion == IF remote = <<>> THEN None ELSE remote[Len(remote)]

(* Fault: a forced push, whatever the remote shows. *)
PushChampion_Forced ==
    /\ InPhase("publication")
    /\ mine.publication = None
    /\ remote' = Append(remote, active)
    /\ UNCHANGED <<st, catalog, stopReq, art, jobs>>
    /\ Goto("publication")

(* Fault: a commit already published counts as a conflict. *)
PushChampion_OwnConflict ==
    /\ InPhase("publication")
    /\ mine.publication = None
    /\ IF RemoteChampion \in {None, st.champion}
       THEN /\ remote' = Append(remote, active)
            /\ UNCHANGED <<st, catalog, stopReq, art, jobs>>
            /\ Goto("publication")
       ELSE Block("promotion-publication-pending")

PushChampion ==
    /\ InPhase("publication")
    /\ mine.publication = None
    /\ RemoteChampion # active
    /\ IF RemoteChampion \in {None, st.champion}
       THEN /\ remote' = Append(remote, active)
            /\ UNCHANGED <<st, catalog, stopReq, art, jobs>>
            /\ Goto("publication")
       ELSE Block("promotion-publication-pending")

(* The push, or the reading of its result, fails: the commit may be there. *)
PublicationFails ==
    /\ InPhase("publication")
    /\ mine.publication = None
    /\ Failure("promotion-publication-pending")

(* Fault: the push is trusted without reading the remote. *)
RecordPublication_Unread ==
    /\ InPhase("publication")
    /\ mine.publication = None
    /\ WriteArtifact([mine EXCEPT !.publication = active])
    /\ Goto("publication")

(* The remote refs were read back and hold the commit. *)
RecordPublication ==
    /\ InPhase("publication")
    /\ mine.publication = None
    /\ RemoteChampion = active
    /\ WriteArtifact([mine EXCEPT !.publication = active])
    /\ Goto("publication")

Published ==
    /\ InPhase("publication")
    /\ mine.publication # None
    /\ UpdateState(st)
    /\ Goto("advance")

Advance ==
    /\ InPhase("advance")
    /\ WriteArtifact([mine EXCEPT !.receipt =
          [before |-> st.champion,
           after |-> IF mine.decision = "promote" THEN mine.publication ELSE st.champion,
           panel |-> mine.accepted.panel,
           decision |-> mine.decision,
           publication |-> IF mine.decision = "promote" THEN mine.publication ELSE None,
           charged |-> LedgerOf(active)]])
    /\ Goto("finalize")

(* The receipt's total is the sum of the entries it lists.                 *)
ReceiptValid(r) ==
    /\ active = st.next
    /\ r.before = st.champion
    /\ r.panel = mine.accepted.panel
    /\ TotalCost(r.charged) = TotalCost(LedgerOf(active))
    /\ IF r.decision = "promote"
       THEN r.publication = r.after
       ELSE r.publication = None /\ r.after = st.champion

Finalize ==
    LET r == mine.receipt
        promoted == r.decision = "promote"
    IN  /\ pc = "finalize"
        /\ \/ ~ReceiptValid(r) /\ Block("completed-experiment-receipt-invalid")
           \/ /\ ReceiptValid(r)
              /\ UpdateState([st EXCEPT
                    !.status = "running",
                    !.champion = r.after,
                    !.next = @ + 1,
                    !.active = None,
                    !.phase = None,
                    !.retained = IF promoted THEN None
                                 ELSE [panel |-> r.panel, revision |-> st.champion],
                    !.completed = @ + 1,
                    !.promotions = @ + (IF promoted THEN 1 ELSE 0)])
              /\ pc' = "loop"
              /\ mem' = [NoMemory EXCEPT !.quota = IF mem.quota = None THEN None
                                                   ELSE mem.quota - 1]
              /\ UNCHANGED <<faults, requests>>

---------------------------------------------------------------------------
(* The operator, and the machine *)

RequestStop(mode) ==
    /\ requests < MaxRequests
    /\ requests' = requests + 1
    /\ stopReq' = mode
    /\ UNCHANGED <<st, catalog, art, jobs, remote, pc, mem, faults>>

Crash ==
    /\ pc # "off"
    /\ faults < MaxFaults
    /\ faults' = faults + 1
    /\ pc' = "off"
    /\ mem' = NoMemory
    /\ UNCHANGED <<disk, requests>>

(* An operation that fails or is cancelled, as opposed to one that answers. *)
OperationFails ==
    \/ ChampionArmFails \/ OptimizerFails \/ ValidationFails
    \/ CandidateArmFails \/ PublicationFails

Campaign == Begin \/ LoopStops \/ OpenExperiment \/ AtBound \/ RecordExperiment \/ SetPhase
Panel ==
    \/ ReplayReuse \/ ReplayAccepted \/ ReuseRetained \/ EnterScreening
    \/ ReadAttemptChain \/ ChampionRuntime \/ ScreensExhausted \/ ReplayAttempt
    \/ ScreenOverBudget \/ ChampionArmRuns \/ RecordAttempt \/ AccountAttempt
    \/ ReconcileHistory \/ ReconcileCatalog
    \/ PanelSaturated \/ PanelInfrastructureInvalid \/ PanelAccepted \/ PanelPrepared
Candidate ==
    \/ OptimizerRuns \/ RecordOptimizer \/ AccountOptimizer \/ OptimizerDone
    \/ ValidateCandidate \/ RecordValidCandidate \/ ReplayCandidate
    \/ CandidateReady \/ CandidateArmRuns \/ RecordEvaluation \/ AccountEvaluation
Conclusion ==
    \/ Decide \/ Decided \/ PushChampion \/ RecordPublication
    \/ Published \/ Advance \/ Finalize

Progress == Campaign \/ Panel \/ Candidate \/ Conclusion

Next ==
    \/ Progress
    \/ \E resume \in BOOLEAN : Start(resume)
    \/ \E mode \in {"after-phase", "cancel-active"} : RequestStop(mode)
    \/ OperationFails
    \/ Crash

Spec == Init /\ [][Next]_vars

(* The runner's own steps are taken; the operator resumes it whenever it   *)
(* has ended.  Faults and stop requests are bounded, so they cease.        *)
FairSpec == Spec /\ WF_vars(Progress) /\ SF_vars(Start(TRUE))

---------------------------------------------------------------------------
(* Type *)

(* Errors that report that what is on disk contradicts itself. *)
Contradictions ==
    {"model-cost-replay-diverged", "panel-attempt-chain-has-gap",
     "panel-attempt-chain-invalid", "panel-history-replay-diverged",
     "panel-catalog-replay-diverged", "completed-experiment-panel-missing",
     "completed-experiment-receipt-invalid", "candidate-runtime-missing",
     "retained-panel-reuse-diverged", "retained-panel-reuse-evidence-missing",
     "retained-panel-source-invalid", "retained-panel-source-missing"}

Reasons == Contradictions \cup
    {"requested-experiment-limit-reached", "operator-requested",
     "operator-cancelled-active-phase", "campaign-cost-limit-reached",
     "unexpected-runner-failure", "retained-panel-reuse-invalid",
     "surpassable-panel-not-found", "champion-panel-infrastructure-circuit-open",
     "champion-panel-evaluation-failed", "optimizer-failed",
     "candidate-validation-failed", "candidate-evaluation-failed",
     "promotion-publication-disabled", "promotion-publication-pending"}

Places ==
    {"off", "starting", "loop", "experiment", "panel", "chain", "runtime", "screen",
     "account", "history", "catalog", "assess", "prepared", "optimizer", "optimized",
     "validation", "built", "candidate", "evaluation", "decision", "publication",
     "advance", "finalize"}

StateType ==
    [status : Statuses, reason : Reasons \cup {None}, champion : Revisions,
     next : 1..(MaxExperiments + 1), active : Experiments \cup {None},
     phase : Phases \cup {None},
     retained : [panel : Panels, revision : Revisions] \cup {None},
     history : Histories,
     ledger : SUBSET [exp : Experiments, arm : Arms, ordinal : Ordinals \cup {0}, cost : Costs],
     completed : 0..MaxExperiments, promotions : 0..MaxExperiments]

AttemptType ==
    [panel : Panels, outcome : PanelOutcomes, cost : Costs, revision : Revisions,
     historyBefore : Histories, historyAfter : Histories,
     catalogBefore : Seq(Screen), catalogAfter : Seq(Screen)]

ReceiptType ==
    [before : Revisions, after : Revisions, panel : Panels, decision : Dispositions,
     publication : Experiments \cup {None},
     charged : SUBSET [exp : Experiments, arm : Arms, ordinal : Ordinals \cup {0}, cost : Costs]]

AcceptedType == [panel : Panels, revision : Revisions, cost : Costs]
EvaluationType == [panel : Panels, outcome : Dispositions, cost : Costs]

(* None is not one of the artifacts or answers either. *)
ASSUME ArtifactsAssumption ==
    /\ None \notin {"valid", "invalid"} \cup Dispositions \cup Reasons
    /\ None \notin AttemptType \cup AcceptedType \cup EvaluationType \cup ReceiptType

ArtifactType ==
    [before : Revisions \cup {None},
     attempts : [Ordinals -> AttemptType \cup {None}],
     reused : [source : Experiments, revision : Revisions, panel : Panels] \cup {None},
     accepted : AcceptedType \cup {None},
     optimizer : [revision : Revisions, cost : Costs] \cup {None},
     runtime : BOOLEAN,
     candidate : {"valid", "invalid", None},
     evaluation : EvaluationType \cup {None},
     decision : Dispositions \cup {None},
     publication : Experiments \cup {None},
     receipt : ReceiptType \cup {None}]

JobType ==
    [exp : Experiments, arm : Arms, ordinal : Ordinals \cup {0}, panel : Panels \cup {None},
     revision : Revisions, outcome : PanelOutcomes \cup Dispositions \cup {None}, cost : Costs]

MemoryType ==
    [ordinal : 0..(MaxPanelAttempts + 1), excluded : SUBSET Ordinals,
     infra : 0..MaxInfraRetries, policy : Histories, fresh : BOOLEAN,
     quota : {0, 1, None}]

TypeOK ==
    /\ st \in StateType
    /\ catalog \in Seq(Screen)
    /\ stopReq \in {"after-phase", "cancel-active", None}
    /\ art \in [Experiments -> ArtifactType]
    /\ jobs \subseteq JobType
    /\ remote \in Seq(Experiments)
    /\ pc \in Places
    /\ mem \in MemoryType
    /\ faults \in 0..MaxFaults
    /\ requests \in 0..MaxRequests

---------------------------------------------------------------------------
(* Safety *)

(* Whatever the crashes, a later runner never finds the files it left      *)
(* behind in contradiction: each replay check of runner.ts passes.         *)
ReplayConsistent == st.reason \notin Contradictions

(* A screen paid for before a crash is selected again after it: the job    *)
(* receipt is looked up by name alone, so a different selection would be   *)
(* judged by the observations of another panel.                            *)
SelectionReplayed ==
    Live => \A j \in Job("panel", mem.ordinal) : j.panel = Selection

Evidence(j) == EntriesFor(st.ledger, j.exp, j.arm, IF j.arm = "panel" THEN j.ordinal ELSE 0)

(* A finished job is charged at most once, at its own cost, nothing else   *)
(* is charged, and an experiment that is over leaves no job uncharged.     *)
EvidenceChargedOnce ==
    /\ \A l \in st.ledger : \E j \in jobs : l \in Evidence(j)
    /\ \A j \in jobs : /\ Cardinality(Evidence(j)) <= 1
                       /\ \A l \in Evidence(j) : l.cost = j.cost
                       /\ j.exp < st.next => Evidence(j) # {}

(* The promotions counted are the commits the remote champion ref has had, *)
(* and the champion is the last of them; only while the active experiment, *)
(* decided "promote", has pushed but is not finalized is the remote one    *)
(* commit ahead.  A champion is never installed before it is published.    *)
Installed(n) ==
    /\ st.promotions = n
    /\ st.champion = IF n = 0 THEN 0 ELSE remote[n]

PublishedBeforeInstalled ==
    \/ Installed(Len(remote))
    \/ /\ active # None
       /\ RemoteChampion = active
       /\ mine.decision = "promote"
       /\ Installed(Len(remote) - 1)

(* Each valid screen enters the catalog once and in order, none twice, and *)
(* outside the reconciliation the history is made of the same screens.     *)
OutcomeOf(s) == art[s.exp].attempts[s.ordinal].outcome = "saturated"
ScreensCountedOnce ==
    /\ \A i, k \in DOMAIN catalog : i # k => catalog[i] # catalog[k]
    /\ pc \in {"prepared", "optimizer", "finalize"} =>
          /\ {catalog[i] : i \in DOMAIN catalog} =
                {s \in Screen : /\ art[s.exp].attempts[s.ordinal] # None
                                /\ art[s.exp].attempts[s.ordinal].outcome
                                     # "infrastructure-invalid"}
          /\ st.history = Last([i \in DOMAIN catalog |-> OutcomeOf(catalog[i])])

(* An accepted panel retained for the next experiment is always usable by  *)
(* it: the campaign does not block on its own retained panel.              *)
RetainedPanelUsable == st.reason # "retained-panel-reuse-invalid"

---------------------------------------------------------------------------
(* The inductive invariant behind PublishedBeforeInstalled.  Each conjunct *)
(* says what the runner may rely on at a place, or what the files of an    *)
(* experiment say about one another, whoever wrote them and before what    *)
(* crash.                                                                  *)

Idle == {"off", "starting", "loop"}
Attempting == {"account", "history", "catalog", "assess"}
AfterPanel == {"prepared", "optimizer", "optimized", "validation", "built", "candidate",
               "evaluation", "decision", "publication", "advance", "finalize"}

(* What holds of the runner at each place. *)
Located ==
    /\ pc \notin Idle => active # None
    /\ pc = "screen" => mem.ordinal >= 1
    /\ pc \in Attempting => mem.ordinal \in Ordinals /\ Attempt(mem.ordinal) # None
    /\ pc \in AfterPanel => mine.accepted # None
    /\ pc \in {"candidate", "evaluation", "decision"} => mine.candidate # None
    /\ pc = "decision" /\ mine.candidate = "valid" => mine.evaluation # None
    /\ pc \in {"publication", "advance"} => mine.decision # None
    /\ pc = "publication" => mine.decision = "promote"
    /\ pc = "advance" /\ mine.decision = "promote" => mine.publication = active
    /\ pc = "finalize" => mine.receipt # None
    /\ mem.quota = 0 => pc = "loop"

(* What a receipt of the adapter holds, by the job it is for. *)
JobsTyped == \A j \in jobs :
    /\ j.arm = "panel" => j.panel \in Panels /\ j.outcome \in PanelOutcomes
    /\ j.arm = "candidate" => j.panel \in Panels /\ j.outcome \in Dispositions

(* An experiment that has not begun has left nothing behind. *)
Untouched == \A x \in Experiments :
    x > st.next \/ (x = st.next /\ active = None) => art[x] = NoArtifacts

(* What the files of the active experiment and the remote say together. *)
Agreeing == active # None =>
    /\ mine.publication # None => mine.publication = active /\ RemoteChampion = active
    /\ RemoteChampion = active => mine.decision = "promote"
    /\ mine.receipt # None =>
          /\ mine.receipt.decision = mine.decision
          /\ mine.decision = "promote" =>
                mine.receipt.after = active /\ RemoteChampion = active
          /\ mine.decision # "promote" => mine.receipt.after = st.champion

(* The counters, and the champion among the experiments already over; the  *)
(* active experiment is the next to be over.                              *)
Counted ==
    /\ active # None => active = st.next
    /\ st.completed = st.next - 1
    /\ st.promotions <= st.completed
    /\ st.champion < st.next
    /\ active = None => Installed(Len(remote))

Inductive ==
    /\ TypeOK /\ Located /\ JobsTyped /\ Untouched /\ Agreeing /\ Counted
    /\ PublishedBeforeInstalled

---------------------------------------------------------------------------
(* Actions and liveness *)

(* The runner implements the campaign's promise. *)
Promise == INSTANCE Campaign WITH
    Charges <- [exp : Experiments, arm : Arms, ordinal : Ordinals \cup {0}, cost : Costs],
    champion <- st.champion, finished <- st.next - 1,
    remote <- remote, ledger <- st.ledger
KeepsPromise == Promise!Spec

(* No paid job starts once the receipts on disk add up to the limit, the   *)
(* ones the ledger has not caught up with after a crash included.          *)
NoPaidWorkOverBudget ==
    [][jobs' # jobs /\ BudgetLimit # None => TotalCost(jobs) < BudgetLimit]_vars

(* A stop request ends the invocation unless a resume discards it.         *)
StopHonoured == (stopReq # None /\ pc # "off") ~> (pc = "off" \/ stopReq = None)

(* A champion on the remote ends up installed, however its push ended,     *)
(* unless the campaign is at its cost limit: a later runner stops there    *)
(* before it installs what its predecessor has pushed.                     *)
PublishedIsInstalled ==
    \A x \in Experiments :
        RemoteChampion = x ~> (st.champion = x \/ BudgetExhausted)

=============================================================================
